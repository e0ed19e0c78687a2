------------------------------- MODULE Mantaray -------------------------------
(***************************************************************************)
(* The Mantaray manifest of pkg/manifest: a trie from paths to references, *)
(* whose nodes are saved as chunks.  A node caches the address its chunk   *)
(* had when it was last marshaled; a saved parent names its children by    *)
(* these addresses.  Adding and removing paths reshapes the trie and must  *)
(* invalidate the addresses of what changes; saving skips the subtrees     *)
(* whose address is known, and any upload of it may fail.                  *)
(*                                                                         *)
(* The trie is the heap trie, a function from node identifiers to nodes,   *)
(* with the root at 1.  The prefix of a fork and the path of its node are  *)
(* always set together and modelled once.  An address is a hash of the     *)
(* chunk, and is modelled as the chunk: equal chunks, equal addresses.  A  *)
(* reference is the number of the AddFork call that added it, NoEntry the  *)
(* null address of a node that is a directory only.                        *)
(***************************************************************************)
EXTENDS Integers, Sequences, FiniteSets, SequencesExt

CONSTANTS
  Bytes,            (* bytes of paths                                      *)
  Paths,            (* the paths that are added and removed                *)
  MaxPrefixLength,  (* bytes of a fork's prefix (30 in the code)           *)
  MaxAdds,          (* bound: calls of AddFork                             *)
  MaxRemoves,       (* bound: calls of RemoveFork                          *)
  MaxSaves          (* bound: calls of SaveRecursively and of              *)
                    (* CalculateSelfAddress                                *)

ASSUME ConstantsAssumption ==
  /\ Paths \subseteq Seq(Bytes) \ {<<>>}
  /\ MaxPrefixLength \in Nat \ {0}
  /\ {MaxAdds, MaxRemoves, MaxSaves} \subseteq Nat

VARIABLES
  trie,      (* the nodes                                                  *)
  at,        (* the node SaveRecursively is at, 0 if it does not run       *)
  uploaded,  (* the chunks that were uploaded                              *)
  saved,     (* the address the last save returned; none if it failed, or  *)
             (* the trie changed since                                     *)
  adds,      (* number of calls                                            *)
  removes,
  saves,
  files,     (* history: what the calls so far should have left            *)
  shadowed,  (* history: paths added when a node stood there already       *)
  orphaned,  (* history: paths at least two forks below a removed one      *)
  hashed,    (* history: addresses were calculated without an upload       *)
  reused     (* history: the trie changed where a node had an address      *)

counts  == <<adds, removes, saves>>
history == <<files, shadowed, orphaned, hashed, reused>>
vars    == <<trie, at, uploaded, saved, counts, history>>

NoEntry == 0

NewNode(path, entry, parent) ==
  [path |-> path, entry |-> entry, forks |-> <<>>, self |-> {}, parent |-> parent]

(* New: an empty trie.                                                     *)
Init ==
  /\ trie = <<NewNode(<<>>, NoEntry, 0)>>
  /\ at = 0
  /\ uploaded = {}
  /\ saved = {}
  /\ adds = 0
  /\ removes = 0
  /\ saves = 0
  /\ files = <<>>
  /\ shadowed = {}
  /\ orphaned = {}
  /\ hashed = FALSE
  /\ reused = FALSE

Put(f, k, v) == [x \in DOMAIN f \cup {k} |-> IF x = k THEN v ELSE f[x]]
Drop(f, ks)  == [x \in DOMAIN f \ ks |-> f[x]]

Rest(path, n) == SubSeq(path, n + 1, Len(path))

-----------------------------------------------------------------------------
(* Walking a trie t.                                                       *)

Children(t, n) == {t[n].forks[b] : b \in DOMAIN t[n].forks}

(* The walk of FindClosest along path, from node m with k bytes behind it, *)
(* ends at the deepest node on the path.                                   *)
Closest(t, path) ==
  LET walk[k \in 0..Len(path)] ==
        [m \in DOMAIN t |->
           IF /\ k < Len(path)
              /\ path[k+1] \in DOMAIN t[m].forks
              /\ IsPrefix(t[t[m].forks[path[k+1]]].path, Rest(path, k))
           THEN LET child == t[m].forks[path[k+1]]
                IN  walk[k + Len(t[child].path)][child]
           ELSE [node |-> m, matched |-> k]]
  IN  walk

FindClosest(t, n, path) == Closest(t, path)[0][n]

Found(t, path) == FindClosest(t, 1, path).matched = Len(path)

(* The reference at path, which Find returns the node of.                  *)
EntryAt(t, path) ==
  IF Found(t, path) THEN t[FindClosest(t, 1, path).node].entry ELSE NoEntry

FullPaths(t) ==
  LET climb[m \in DOMAIN t] ==
        IF m = 1 THEN <<>> ELSE climb[t[m].parent] \o t[m].path
  IN  climb

FullPath(t, n) == FullPaths(t)[n]

(* The nodes that hang below n, n included.                                *)
Subtree(t, n) == {m \in DOMAIN t : IsPrefix(FullPath(t, n), FullPath(t, m))}

-----------------------------------------------------------------------------
(* Adding.  A definition between a helper's comment and the helper is a    *)
(* seeded fault of it.                                                     *)

Fresh(t) == CHOOSE i \in 1..(Cardinality(DOMAIN t) + 1) : i \notin DOMAIN t

(* t with node c hung below node p by the bytes of path.                   *)
HangWithoutParent(t, p, c, path) ==
  [t EXCEPT ![c].path = path, ![p].forks = Put(@, path[1], c)]

Hang(t, p, c, path) ==
  [t EXCEPT ![c].path = path, ![c].parent = p, ![p].forks = Put(@, path[1], c)]

(* splitForks: two nodes a and b compete for a fork.  The result is the    *)
(* trie and the node that the fork leads to.                               *)
SplitForks(t, a, b) ==
  LET pa == t[a].path
      pb == t[b].path
      common == LongestCommonPrefix({pa, pb})
      n == Len(common)
      branch == Fresh(t)
      t1 == Put(t, branch, NewNode(common, NoEntry, 0))
      t2 == Hang(t1, branch, a, Rest(pa, n))
  IN  CASE n = Len(pa) -> [trie |-> Hang(t, a, b, Rest(pb, n)), top |-> a]
        [] n = Len(pb) /\ n < Len(pa) -> [trie |-> Hang(t, b, a, Rest(pa, n)), top |-> b]
        [] OTHER -> [trie |-> Hang(t2, branch, b, Rest(pb, n)), top |-> branch]

(* What a change below a node does to its cached address.                  *)
KeepsAddress(t, n) == t
Invalidate(t, n) == [t EXCEPT ![n].self = {}]

(* A new node with the entry, below tip by the bytes of path, none of      *)
(* which lead to a node.                                                   *)
Attach(t, tip, path, entry) ==
  LET new == Fresh(t)
      t1 == Put(t, new, NewNode(path, entry, tip))
      b == path[1]
      split == SplitForks(t1, new, t[tip].forks[b])
  IN  [tip |-> new,
       trie |-> Invalidate(IF b \in DOMAIN t[tip].forks
                           THEN Hang(split.trie, tip, split.top, split.trie[split.top].path)
                           ELSE Hang(t1, tip, new, path), tip)]

(* The path is cut into pieces of at most MaxPrefixLength bytes.           *)
Pieces(path) ==
  LET n == (Len(path) + MaxPrefixLength - 1) \div MaxPrefixLength
  IN  [i \in 1..n |-> SubSeq(path, (i - 1) * MaxPrefixLength + 1,
                             IF i = n THEN Len(path) ELSE i * MaxPrefixLength)]

(* The node each piece but the last leads to gets no entry.                *)
EntryOnEvery(i, n, entry) == entry
EntryOf(i, n, entry) == IF i = n THEN entry ELSE NoEntry

(* The next piece is added below the tip.                                  *)
AddPiece(w, piece, entry) ==
  LET closest == FindClosest(w.trie, w.tip, piece)
      remaining == Rest(piece, closest.matched)
  IN  IF remaining = <<>> THEN [w EXCEPT !.tip = closest.node]
      ELSE Attach(w.trie, closest.node, remaining, entry)

(* AddFork called on node n.                                               *)
Add(t, n, path, entry) ==
  LET pieces == Pieces(path)
      walk[i \in 0..Len(pieces)] ==
        IF i = 0 THEN [trie |-> Invalidate(t, n), tip |-> n]
        ELSE AddPiece(walk[i-1], pieces[i], EntryOf(i, Len(pieces), entry))
  IN  walk[Len(pieces)].trie

-----------------------------------------------------------------------------
(* Removing.                                                               *)

(* The byte of the fork to delete: the first one beyond the parent.        *)
ForkByte(path, matched) == path[matched + 1]

(* RemoveFork of a path that leads to a node; the node's children are      *)
(* added again one by one, in the order of a map's iteration.              *)
Detach(t, path, order) ==
  LET match == FindClosest(t, 1, path).node
      above == FindClosest(t, 1, Front(path))
      parent == above.node
      b == ForkByte(path, above.matched)
      cut == [Drop(Invalidate(t, 1), Subtree(t, match)) EXCEPT ![parent].forks = Drop(@, {b})]
      again[i \in 0..Len(order)] ==
        IF i = 0 THEN cut
        ELSE LET child == t[t[match].forks[order[i]]]
             IN  Add(again[i-1], parent, t[match].path \o child.path, child.entry)
  IN  again[Len(order)]

-----------------------------------------------------------------------------
(* Hashing.                                                                *)

(* The address of n: the cached one, or that of the chunk Marshal makes of *)
(* the node and its children's addresses.                                  *)
Marshal(t, n, address) ==
  [entry |-> t[n].entry,
   forks |-> [b \in DOMAIN t[n].forks |->
                [prefix |-> t[t[n].forks[b]].path, address |-> address[t[n].forks[b]]]]]

Addresses(t) ==
  LET address[n \in DOMAIN t] ==
        IF t[n].self # {} THEN CHOOSE a \in t[n].self : TRUE ELSE Marshal(t, n, address)
  IN  address

-----------------------------------------------------------------------------
(* The calls.                                                              *)

(* Some node other than the root has an address.                           *)
Addressed(t) == \E n \in DOMAIN t \ {1} : t[n].self # {}

Changes(t) ==
  /\ at = 0
  /\ trie' = t
  /\ saved' = {}
  /\ reused' = (reused \/ Addressed(trie))
  /\ UNCHANGED <<at, uploaded, saves, hashed>>

AddFork(path) ==
  /\ adds < MaxAdds
  /\ adds' = adds + 1
  /\ Changes(Add(trie, 1, path, adds + 1))
  /\ files' = Put(files, path, adds + 1)
  /\ shadowed' = IF Found(trie, path) THEN shadowed \cup {path} ELSE shadowed
  /\ UNCHANGED <<removes, orphaned>>

RemoveFork(path) ==
  LET match == FindClosest(trie, 1, path).node
      deeper == {FullPath(trie, n) : n \in UNION {Subtree(trie, c) \ {c} : c \in Children(trie, match)}}
  IN
  /\ removes < MaxRemoves
  /\ Found(trie, path)
  /\ removes' = removes + 1
  /\ \E order \in SetToSeqs(DOMAIN trie[match].forks) : Changes(Detach(trie, path, order))
  /\ files' = Drop(files, {path})
  /\ shadowed' = shadowed \ {path}
  /\ orphaned' = orphaned \cup deeper
  /\ UNCHANGED adds

(* There is no node at path; the root's address is dropped all the same.   *)
RemoveNothing(path) ==
  /\ removes < MaxRemoves
  /\ ~Found(trie, path)
  /\ removes' = removes + 1
  /\ Changes(Invalidate(trie, 1))
  /\ UNCHANGED <<adds, files, shadowed, orphaned>>

(* Nodes below one that has an address, which are not looked at.           *)
Hidden(t) == UNION {Subtree(t, m) \ {m} : m \in {k \in DOMAIN t : t[k].self # {}}}

(* CalculateSelfAddress caches the addresses of the nodes it comes to, the *)
(* root excepted.                                                          *)
CalculateSelfAddress ==
  /\ at = 0
  /\ saves < MaxSaves
  /\ saves' = saves + 1
  /\ IF trie[1].self # {}
     THEN UNCHANGED <<trie, hashed>>
     ELSE /\ trie' = [n \in DOMAIN trie |->
                        IF n \in Hidden(trie) \cup {1} THEN trie[n]
                        ELSE [trie[n] EXCEPT !.self = {Addresses(trie)[n]}]]
          /\ hashed' = TRUE
  /\ UNCHANGED <<at, uploaded, saved, adds, removes, files, shadowed, orphaned, reused>>

SaveRecursively ==
  /\ at = 0
  /\ saves < MaxSaves
  /\ saves' = saves + 1
  /\ at' = 1
  /\ saved' = {}
  /\ UNCHANGED <<trie, uploaded, adds, removes, history>>

(* The children still to save.                                             *)
NoChildren(n) == {}
Pending(n) == {c \in Children(trie, n) : trie[c].self = {}}

Descend ==
  /\ at # 0
  /\ at' \in Pending(at)
  /\ UNCHANGED <<trie, uploaded, saved, counts, history>>

(* All children have an address: the node is marshaled and uploaded.       *)
Upload ==
  LET chunk == Marshal(trie, at, Addresses(trie))
  IN
  /\ at # 0
  /\ Pending(at) = {}
  /\ uploaded' = uploaded \cup {chunk}
  /\ trie' = [trie EXCEPT ![at].self = {chunk}]
  /\ at' = trie[at].parent
  /\ saved' = IF at = 1 THEN {chunk} ELSE {}
  /\ UNCHANGED <<counts, history>>

(* The upload fails, and with it the save; what is saved keeps its address.*)
UploadFailsMarked ==
  /\ at # 0
  /\ Pending(at) = {}
  /\ trie' = [trie EXCEPT ![at].self = {Marshal(trie, at, Addresses(trie))}]
  /\ at' = 0
  /\ UNCHANGED <<uploaded, saved, counts, history>>

UploadFails ==
  /\ at # 0
  /\ Pending(at) = {}
  /\ at' = 0
  /\ UNCHANGED <<trie, uploaded, saved, counts, history>>

Next ==
  \/ \E path \in Paths : AddFork(path) \/ RemoveFork(path) \/ RemoveNothing(path)
  \/ CalculateSelfAddress
  \/ SaveRecursively
  \/ Descend
  \/ Upload
  \/ UploadFails

Spec == Init /\ [][Next]_vars

-----------------------------------------------------------------------------

(* Whatever splits, merges and removals it went through, the trie is a     *)
(* patricia trie that can be marshaled: a fork is found by the first byte  *)
(* of its prefix, which is not empty and fits the record, and every node   *)
(* but the root hangs below its parent, which it can climb to.             *)
PatriciaTrie ==
  /\ \A n \in DOMAIN trie : \A b \in DOMAIN trie[n].forks :
       LET child == trie[trie[n].forks[b]]
       IN  /\ Len(child.path) \in 1..MaxPrefixLength
           /\ child.path[1] = b
           /\ child.parent = n
  /\ \A n \in DOMAIN trie \ {1} : n \in Children(trie, trie[n].parent)

(* Every file added and not removed is found with its last reference, in   *)
(* whatever order the paths came, and nothing else is found: except for a  *)
(* path that was added when it led to a node already, and for the files    *)
(* deeper below a removed path than its children.                          *)
FilesFound ==
  \A path \in Paths \ (shadowed \cup orphaned) :
    EntryAt(trie, path) = IF path \in DOMAIN files THEN files[path] ELSE NoEntry

(* What a reader with the chunks of the node finds from the root chunk.    *)
Served(root, path) ==
  LET walk[k \in 0..Len(path)] ==
        [chunk \in uploaded \cup {root} |->
           IF k = Len(path) THEN chunk.entry
           ELSE IF /\ path[k+1] \in DOMAIN chunk.forks
                   /\ IsPrefix(chunk.forks[path[k+1]].prefix, Rest(path, k))
                   /\ chunk.forks[path[k+1]].address \in uploaded
                THEN LET fork == chunk.forks[path[k+1]]
                     IN  walk[k + Len(fork.prefix)][fork.address]
                ELSE NoEntry]
  IN  walk[0][root]

(* A save that succeeds, after any number that failed half-way, returns a  *)
(* manifest in which a reader finds what the trie holds: unless the trie   *)
(* was hashed, or changed after some of its nodes had an address.          *)
SavedServes ==
  ~hashed /\ ~reused => \A root \in saved : \A path \in Paths : Served(root, path) = EntryAt(trie, path)

(* A chunk is uploaded after the chunks it refers to: a manifest that can  *)
(* be read at all can be read in full, whichever uploads failed.           *)
ChildrenFirst ==
  ~hashed =>
    \A chunk \in uploaded : \A b \in DOMAIN chunk.forks : chunk.forks[b].address \in uploaded

(* What the doc of RemoveFork says: the children of a removed node are     *)
(* inserted again, so that the trie remains consistent.                    *)
RemoveKeepsOthers ==
  \A path \in DOMAIN files \ shadowed : EntryAt(trie, path) = files[path]

(* What the doc of AddFork says: it invalidates the address of every node  *)
(* it touches, so that a later save stores what was added.                 *)
AddInvalidates ==
  ~hashed => \A root \in saved : \A path \in DOMAIN files \ shadowed : Served(root, path) = files[path]

=============================================================================
