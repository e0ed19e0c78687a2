----------------------------- MODULE FileChunker -----------------------------
(***************************************************************************)
(* The streaming Merkle chunker of pkg/swarm/file_chunker.go: bytes are    *)
(* cut into leaf chunks of ChunkSize bytes, and groups of MaxBranches      *)
(* references are collapsed into parent chunks, level by level, until      *)
(* Finalize reduces the level stack to one root.                           *)
(*                                                                         *)
(* Every chunk goes through the OnChunk callback (an upload, in this       *)
(* library), which may fail.  The calls the callback interrupts are        *)
(* modelled step by step: pc is the point the running call has reached.    *)
(*                                                                         *)
(* A chunk address is the position of the chunk in store, the sequence of  *)
(* chunks OnChunk accepted.  Bytes are told apart by their offset in the   *)
(* input, so a leaf payload is the interval [lo, lo + span).  Sequences    *)
(* start at 1: levels[i] is the Go slice levels[i-1].                      *)
(***************************************************************************)
EXTENDS Integers, Sequences

CONSTANTS
  ChunkSize,    (* bytes of a full leaf (4096 in the code)                 *)
  MaxBranches,  (* references of a full parent (128 in the code)           *)
  MaxBytes,     (* bound: bytes the callers write in total                 *)
  MaxFaults     (* bound: number of OnChunk errors                         *)

ASSUME ConstantsAssumption ==
  /\ ChunkSize \in Nat \ {0}
  /\ MaxBranches \in Nat \ {0, 1}
  /\ MaxBytes \in Nat
  /\ MaxFaults \in Nat

VARIABLES
  leafBuf,   (* number of bytes in the leaf being filled                   *)
  levels,    (* levels[i]: refs of height i-1 waiting for a parent         *)
  store,     (* the chunks OnChunk accepted, in order                      *)
  written,   (* bytes taken from the callers so far                        *)
  call,      (* the API call in progress                                   *)
  todo,      (* bytes of the Write in progress not yet buffered            *)
  pc,        (* where the call in progress stands                          *)
  level,     (* argument of the collapseLevel in progress                  *)
  scan,      (* loop variable of Finalize, 0 before the loop               *)
  root,      (* what the last successful Finalize returned                 *)
  outcome,   (* how the last call ended, "none" while one is running         *)
  faults,    (* OnChunk errors so far                                      *)
  reopened,  (* history: bytes were written after a successful Finalize    *)
  edge       (* history: levels i and above cover the bytes up to edge[i]  *)

chunker == <<leafBuf, levels, store, written>>
control == <<call, todo, pc, level, scan>>
results == <<root, outcome, faults, reopened>>
vars    == <<chunker, control, results, edge>>

Ref   == [addr : Nat \ {0}, span : Nat \ {0}]
NoRef == [addr |-> 0, span |-> 0]
Chunk == [height : Nat, lo : Nat, span : Nat \ {0}, kids : Seq(Nat \ {0})]

(* The bytes the chunk at address a of st covers are [Lo, Hi).             *)
Lo(st, a) == st[a].lo
Hi(st, a) == st[a].lo + st[a].span

Addrs(refs) == [k \in 1..Len(refs) |-> refs[k].addr]

(* Sum of the spans of a sequence of references.                           *)
TotalSpan(refs) ==
  LET sum[i \in 0..Len(refs)] ==
        IF i = 0 THEN 0 ELSE sum[i-1] + refs[i].span
  IN  sum[Len(refs)]

(* A definition between a helper's comment and the helper itself, with the *)
(* same parameters, is a seeded fault: what a slip in that line would do.  *)

(* Room in the leaf buffer.                                                *)
Room == ChunkSize - leafBuf

(* A level is collapsed when it has a full parent's references.            *)
FullOneLate(refs) == Len(refs) > MaxBranches
IsFull(refs) == Len(refs) = MaxBranches

(* The level stack without the references of level l.                      *)
NotEmptied(l) == levels
Emptied(l) == [levels EXCEPT ![l] = <<>>]

(* Nothing was ever written.                                               *)
Unfed == leafBuf = 0 /\ levels = <<>>

(* Finalize has a trailing partial leaf to seal.                           *)
PartialLeaf == leafBuf > 0

(* Finalize goes on to the next level.                                     *)
StayAtLevel == scan' = scan
NextLevel == scan' = scan + 1

(* seq, with x appended if its level l does not exist yet.                 *)
Grow(seq, l, x) == IF l > Len(seq) THEN Append(seq, x) ELSE seq

(* The level stack lv after ref joined level l.                            *)
Push(lv, l, ref) == [Grow(lv, l, <<>>) EXCEPT ![l] = Append(@, ref)]

(* The edges e after level l was extended up to byte v.                    *)
Raise(e, l, v) == [Grow(e, l + 1, 0) EXCEPT ![l] = v]

Leaf(lo, span) == [height |-> 0, lo |-> lo, span |-> span, kids |-> <<>>]

(* The parent chunk of a group of references on level l.                   *)
Parent(l, refs) ==
  [height |-> l, lo |-> Lo(store, refs[1].addr), span |-> TotalSpan(refs),
   kids |-> Addrs(refs)]

-----------------------------------------------------------------------------

Init ==
  /\ leafBuf = 0
  /\ levels = <<>>
  /\ store = <<>>
  /\ written = 0
  /\ call = "none"
  /\ todo = 0
  /\ pc = "ready"
  /\ level = 0
  /\ scan = 0
  /\ root = NoRef
  /\ outcome = "none"
  /\ faults = 0
  /\ reopened = FALSE
  /\ edge = <<0>>

(* Write(p) is called with n bytes.                                        *)
Write(n) ==
  /\ pc = "ready"
  /\ written + n <= MaxBytes
  /\ call' = "write"
  /\ todo' = n
  /\ pc' = "fill"
  /\ reopened' = (reopened \/ root # NoRef)
  /\ outcome' = "none"
  /\ UNCHANGED <<chunker, level, scan, root, faults, edge>>

(* One turn of Write's loop: top up the leaf buffer, or return.            *)
Fill ==
  LET take == IF todo <= Room THEN todo ELSE Room
  IN
  /\ pc = "fill"
  /\ todo > 0
  /\ leafBuf' = leafBuf + take
  /\ todo' = todo - take
  /\ written' = written + take
  /\ pc' = IF leafBuf' = ChunkSize THEN "leaf" ELSE "fill"
  /\ UNCHANGED <<levels, store, call, level, scan, results, edge>>

WriteReturns ==
  /\ pc = "fill"
  /\ todo = 0
  /\ pc' = "ready"
  /\ call' = "none"
  /\ outcome' = "written"
  /\ UNCHANGED <<chunker, todo, level, scan, root, faults, reopened, edge>>

(* Finalize is called on a chunker that was never fed.                     *)
FinalizeEmpty ==
  /\ pc = "ready"
  /\ Unfed
  /\ outcome' = "empty"
  /\ UNCHANGED <<chunker, control, root, faults, reopened, edge>>

(* Finalize is called; a trailing partial leaf is sealed first.            *)
Finalize ==
  /\ pc = "ready"
  /\ ~Unfed
  /\ call' = "finalize"
  /\ IF PartialLeaf
     THEN pc' = "leaf" /\ scan' = 0
     ELSE pc' = "scan" /\ scan' = 1
  /\ outcome' = "none"
  /\ UNCHANGED <<chunker, todo, level, root, faults, reopened, edge>>

(* The chunk is accepted by OnChunk and its reference joins level l of lv; *)
(* a full level collapses at once, otherwise the caller goes on.           *)
Emit(chunk, lv, l) ==
  /\ store' = Append(store, chunk)
  /\ levels' = Push(lv, l, [addr |-> Len(store) + 1, span |-> chunk.span])
  /\ IF IsFull(levels'[l])
     THEN pc' = "collapse" /\ level' = l /\ UNCHANGED scan
     ELSE /\ pc' = (IF call = "write" THEN "fill" ELSE "scan")
          /\ scan' = (IF call = "write" THEN scan ELSE scan + 1)
          /\ UNCHANGED level
  /\ UNCHANGED <<written, call, todo, results>>

(* OnChunk fails: the error goes up through every caller at once.          *)
Reject ==
  /\ faults < MaxFaults
  /\ faults' = faults + 1
  /\ pc' = "ready"
  /\ call' = "none"
  /\ todo' = 0
  /\ outcome' = "error"
  /\ UNCHANGED <<store, written, level, scan, root, reopened, edge>>

FlushLeafQueuesFirst ==
  /\ pc = "leaf"
  /\ leafBuf' = 0
  /\ \/ /\ Emit(Leaf(written - leafBuf, leafBuf), levels, 1)
        /\ edge' = Raise(edge, 1, written)
     \/ /\ Reject
        /\ levels' = Push(levels, 1, [addr |-> Len(store) + 1, span |-> leafBuf])

(* flushLeaf empties the buffer before it calls OnChunk.                   *)
FlushLeaf ==
  /\ pc = "leaf"
  /\ leafBuf' = 0
  /\ \/ /\ Emit(Leaf(written - leafBuf, leafBuf), levels, 1)
        /\ edge' = Raise(edge, 1, written)
     \/ Reject /\ UNCHANGED levels

(* collapseLevel empties the level before it calls OnChunk.                *)
CollapseLevel ==
  /\ pc = "collapse"
  /\ \/ /\ Emit(Parent(level, levels[level]), Emptied(level), level + 1)
        /\ edge' = Raise(edge, level + 1, edge[level])
     \/ Reject /\ levels' = Emptied(level)
  /\ UNCHANGED leafBuf

ScanEndsAtFirstSingle == scan <= Len(levels) => Len(levels[scan]) = 1

(* Finalize's loop is at its last step: past the stack, or at a top level  *)
(* that holds the root alone.                                              *)
ScanEnds ==
  \/ scan > Len(levels)
  \/ scan = Len(levels) /\ Len(levels[scan]) = 1

(* One turn of Finalize's loop: skip an empty level, or seal its group.    *)
Scan ==
  /\ pc = "scan"
  /\ ~ScanEnds
  /\ IF levels[scan] = <<>>
     THEN NextLevel /\ UNCHANGED <<pc, level>>
     ELSE pc' = "collapse" /\ level' = scan /\ UNCHANGED scan
  /\ UNCHANGED <<chunker, call, todo, results, edge>>

(* After the loop Finalize reads the first ref of the top level; with no   *)
(* level, or none there, the index is out of range.                        *)
FinalizeReturns ==
  /\ pc = "scan"
  /\ ScanEnds
  /\ call' = "none"
  /\ IF levels = <<>> \/ levels[Len(levels)] = <<>>
     THEN pc' = "panicked" /\ outcome' = "panic" /\ UNCHANGED root
     ELSE pc' = "ready" /\ outcome' = "sealed" /\ root' = levels[Len(levels)][1]
  /\ UNCHANGED <<chunker, todo, level, scan, faults, reopened, edge>>

Internal ==
  Fill \/ WriteReturns \/ FlushLeaf \/ CollapseLevel \/ Scan \/ FinalizeReturns

Next ==
  \/ \E n \in 1..MaxBytes : Write(n)
  \/ FinalizeEmpty
  \/ Finalize
  \/ Internal

Spec == Init /\ [][Next]_vars

(* A running call runs on: nothing in the chunker waits but OnChunk, which *)
(* returns, with or without an error.                                      *)
FairSpec == Spec /\ WF_vars(Internal)

-----------------------------------------------------------------------------

(* Types of the variables.                                                 *)
TypeOK ==
  /\ leafBuf \in 0..ChunkSize
  /\ levels \in Seq(Seq(Ref))
  /\ store \in Seq(Chunk)
  /\ written \in Nat
  /\ call \in {"none", "write", "finalize"}
  /\ todo \in Nat
  /\ pc \in {"ready", "fill", "leaf", "collapse", "scan", "panicked"}
  /\ level \in Nat
  /\ scan \in Nat
  /\ root \in Ref \cup {NoRef}
  /\ outcome \in {"none", "written", "sealed", "empty", "error", "panic"}
  /\ faults \in Nat
  /\ reopened \in BOOLEAN
  /\ edge \in Seq(Nat)

(* ref names a chunk of the store st, and carries its span.                *)
EmittedIn(st, ref) ==
  /\ ref.addr \in 1..Len(st)
  /\ st[ref.addr].span = ref.span

(* Whatever failed before, a reference the chunker holds or returns was    *)
(* uploaded first: OnChunk accepted the chunk before its address joined    *)
(* the level stack, and a parent never names a chunk emitted after it.     *)
ReferencesEmitted ==
  /\ \A i \in 1..Len(levels) : \A k \in 1..Len(levels[i]) : EmittedIn(store, levels[i][k])
  /\ root # NoRef => EmittedIn(store, root)
  /\ \A a \in 1..Len(store) : \A k \in 1..Len(store[a].kids) : store[a].kids[k] < a

(* No level outgrows one parent chunk: a group is collapsed as soon as it  *)
(* is full, so a parent's payload never exceeds MaxBranches references.    *)
LevelsBounded ==
  \A i \in 1..Len(levels) :
    \/ Len(levels[i]) < MaxBranches
    \/ Len(levels[i]) = MaxBranches /\ pc = "collapse" /\ level = i

(* The chunks of st at these addresses cover [from, to) in order, without  *)
(* a gap or an overlap.                                                    *)
Tiles(st, addrs, from, to) ==
  IF addrs = <<>>
  THEN from = to
  ELSE /\ Lo(st, addrs[1]) = from
       /\ \A k \in 1..(Len(addrs) - 1) : Lo(st, addrs[k+1]) = Hi(st, addrs[k])
       /\ Hi(st, addrs[Len(addrs)]) = to

(* Each level tiles the interval between the edge of the level above it    *)
(* and its own, and the leaves reach up to the bytes still in leafBuf.     *)
LevelsTile ==
  /\ Len(edge) = Len(levels) + 1
  /\ edge[Len(edge)] = 0
  /\ edge[1] = written - leafBuf
  /\ \A i \in 1..Len(levels) :
       Tiles(store, Addrs(levels[i]), edge[i+1], edge[i])

(* Every parent chunk covers exactly what its children cover, in order:    *)
(* the span collapseLevel sums up is the length of that interval.          *)
ParentsTile ==
  \A a \in 1..Len(store) :
    store[a].height > 0 =>
      store[a].kids # <<>> /\ Tiles(store, store[a].kids, Lo(store, a), Hi(store, a))

(* While no OnChunk has failed, every byte taken from the callers is in    *)
(* the leaf buffer or below exactly one queued reference, in input order,  *)
(* however the input was cut into Write calls and wherever the stack is.   *)
NothingLost == faults = 0 => LevelsTile /\ ParentsTile

(* The reference a successful Finalize returns covers the whole input from *)
(* its first byte to the last one written before that call, also when the  *)
(* chunker was finalized before and written to again.                      *)
RootCoversInput ==
  (faults = 0 /\ outcome = "sealed") => Lo(store, root.addr) = 0 /\ root.span = written

(* Finalize indexes an empty level, and panics, only if an earlier OnChunk *)
(* error left the stack with a hole.                                       *)
PanicNeedsFault == pc = "panicked" => faults > 0

(* Finalize reports an empty payload only when no byte was written, unless *)
(* an earlier error dropped what was.                                      *)
EmptyMeansEmpty == (outcome = "empty" /\ faults = 0) => written = 0

(* Every call returns.  The loop of Finalize runs to the end of a stack it *)
(* is itself extending, and a full level may cascade from within it.       *)
CallsReturn == pc \notin {"ready", "panicked"} ~> pc \in {"ready", "panicked"}

=============================================================================
