------------------------------ MODULE ListTools ------------------------------
(***************************************************************************)
(* The tools whose state file is a list of their own making:               *)
(*   swarm-keyring   names with their encrypted keys,                      *)
(*   swarm-feed-rss  names with the feeds they stand for,                  *)
(*   swarm-fs        paths with the local files to be published there.     *)
(* The first two take a file they cannot read for an empty one.            *)
(***************************************************************************)
EXTENDS StateFile

(* Append an entry, unless its name is taken.                              *)
Enter(p, n, c) ==
  LET list == Lenient(<<>>) IN
  /\ \A i \in DOMAIN list : list[i][1] # n
  /\ Begin(p, [at |-> "save", new |-> Append(list, <<n, c>>), acks |-> acked \cup {<<n, c>>}])
  /\ UNCHANGED <<dir, node>>

(* The first entry with the name, which the other commands work on.        *)
EntryOf(list, n) ==
  LET found == {i \in DOMAIN list : list[i][1] = n}
  IN  list[CHOOSE i \in found : \A k \in found : i <= k]

KeyringNew(p) == tool = "keyring" /\ \E n \in Names, key \in Contents : Enter(p, n, key)
RssAdd(p) == tool = "rss" /\ \E n \in Names, feed \in Contents : Enter(p, n, feed)

-----------------------------------------------------------------------------
(* swarm-fs: the tree maps paths to local files, named by the same names.  *)

FsInit(p) ==
  /\ tool = "fs" /\ file = Absent
  /\ Begin(p, [at |-> "save", new |-> [n \in Names |-> None], acks |-> {}])
  /\ UNCHANGED <<dir, node>>

Staged(tree) == {<<n, tree[n]>> : n \in {m \in Names : tree[m] # None}}

FsSave(p, tree, acks) ==
  /\ tool = "fs" /\ Strict
  /\ Begin(p, [at |-> "save", new |-> tree, acks |-> acks])
  /\ UNCHANGED <<dir, node>>

FsAdd(p) ==
  /\ tool = "fs" /\ Strict
  /\ \E path \in Names, local \in Names :
       /\ dir[local] # None
       /\ FsSave(p, [file.value EXCEPT ![path] = local],
                 {a \in acked : a[1] # path} \cup {<<path, local>>})

(* The old entry is deleted, then the new one set, which may replace an    *)
(* entry of its own, or be the old one.                                    *)
Moved(tree, old, new) == [tree EXCEPT ![old] = None, ![new] = tree[old]]
FsMv(p) ==
  /\ tool = "fs" /\ Strict
  /\ \E old \in Names, new \in Names :
       /\ file.value[old] # None
       /\ FsSave(p, Moved(file.value, old, new),
                 {a \in acked : a[1] \notin {old, new}} \cup {<<new, file.value[old]>>})

FsRm(p) ==
  /\ tool = "fs" /\ Strict
  /\ \E path \in Names :
       /\ file.value[path] # None
       /\ FsSave(p, [file.value EXCEPT ![path] = None], {a \in acked : a[1] # path})

(* Every staged file is read, and a missing one is an error; the upload is *)
(* one request.                                                            *)
FsPublish(p) ==
  /\ tool = "fs" /\ Strict /\ job[p] = Idle
  /\ Staged(file.value) # {}
  /\ \A e \in Staged(file.value) : dir[e[2]] # None
  /\ node' = [node EXCEPT !.served = @ \cup {[path \in {e[1] : e \in Staged(file.value)} |->
                                               dir[file.value[path]]]}]
  /\ UNCHANGED <<tool, file, job, commands, dir, acked, disturbed>>

FsNext(p) == FsInit(p) \/ FsAdd(p) \/ FsMv(p) \/ FsRm(p) \/ FsPublish(p)

ListToolsNext(p) == KeyringNew(p) \/ RssAdd(p) \/ FsNext(p)

=============================================================================
