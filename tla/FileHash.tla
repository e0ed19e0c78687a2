------------------------------- MODULE FileHash -------------------------------
(***************************************************************************)
(* What the chunker promises: the chunks of an input, and its root, are a  *)
(* function of the number of bytes alone.  Cut the input into pieces of    *)
(* ChunkSize * MaxBranches^h bytes: piece j of height h is a chunk, for    *)
(* every height up to the first at which one piece holds the whole input.  *)
(* Chunks come out bottom-up, so an interrupted upload never leaves a      *)
(* parent without its children.                                            *)
(***************************************************************************)
EXTENDS Integers

CONSTANTS ChunkSize, MaxBranches, MaxBytes

VARIABLES bytes, chunks, root, phase

vars == <<bytes, chunks, root, phase>>

NoRoot == [height |-> 0, lo |-> 0, span |-> 0]

(* The bytes below a full chunk of height h.                               *)
Capacity[h \in Nat] == IF h = 0 THEN ChunkSize ELSE MaxBranches * Capacity[h - 1]

(* The height of the tree of n bytes.                                      *)
Height(n) == CHOOSE h \in 0..n : Capacity[h] >= n /\ \A g \in 0..(h-1) : Capacity[g] < n

Piece(n, h, j) ==
  [height |-> h, lo |-> j * Capacity[h],
   span |-> IF (j + 1) * Capacity[h] <= n THEN Capacity[h] ELSE n - j * Capacity[h]]

(* All the chunks of the tree of n > 0 bytes.                              *)
Tree(n) ==
  UNION {{Piece(n, h, j) : j \in 0..((n - 1) \div Capacity[h])} : h \in 0..Height(n)}

Full(c) == c.span = Capacity[c.height]

Children(c, all) ==
  {d \in all : d.height = c.height - 1 /\ d.lo >= c.lo /\ d.lo < c.lo + c.span}

Init ==
  /\ bytes = 0
  /\ chunks = {}
  /\ root = NoRoot
  /\ phase = "open"

Append ==
  /\ phase = "open"
  /\ bytes' \in (bytes + 1)..MaxBytes
  /\ UNCHANGED <<chunks, root, phase>>

(* A chunk is emitted once its children are; before the input ends only a  *)
(* full one can be.                                                        *)
Emit ==
  /\ phase \in {"open", "sealing"}
  /\ \E c \in Tree(bytes) \ chunks :
       /\ phase = "open" => Full(c)
       /\ Children(c, Tree(bytes)) \subseteq chunks
       /\ chunks' = chunks \cup {c}
  /\ UNCHANGED <<bytes, root, phase>>

Close ==
  /\ phase = "open"
  /\ bytes > 0
  /\ phase' = "sealing"
  /\ UNCHANGED <<bytes, chunks, root>>

(* The root comes out when the whole tree is there, and nothing else is.   *)
Seal ==
  /\ phase = "sealing"
  /\ chunks = Tree(bytes)
  /\ root' = Piece(bytes, Height(bytes), 0)
  /\ phase' = "sealed"
  /\ UNCHANGED <<bytes, chunks>>

(* After an upload error, or once a sealed input is written to again,      *)
(* nothing is promised any more.                                           *)
Abandon ==
  /\ phase' = "void"
  /\ bytes' = 0
  /\ chunks' = {}
  /\ root' = NoRoot

Next == Append \/ Emit \/ Close \/ Seal \/ Abandon

Spec == Init /\ [][Next]_vars

=============================================================================
