------------------------------ MODULE NodeTools ------------------------------
(***************************************************************************)
(* The tools whose state file mirrors what they had the node do:           *)
(*   swarm-share   files uploaded under access control, with the list of   *)
(*                 grantees of each,                                       *)
(*   swarm-pinner  files of a directory, uploaded and pinned,              *)
(*   swarm-relay   how many chunks of each bucket of a batch are stamped.  *)
(***************************************************************************)
EXTENDS StateFile

CONSTANTS
  RelayFiles,   (* files to relay: the buckets of their chunks, in order    *)
  Slots         (* chunks a bucket takes; the buckets are the Names         *)

ASSUME NodeToolsAssumption == Slots \in Nat /\ RelayFiles \subseteq Seq(Names)

-----------------------------------------------------------------------------
(* swarm-share.  A list of grantees is never changed: a patch makes a new  *)
(* one.  Keys are members of Contents, files are uploads.  The histories   *)
(* that the node keeps beside a file and a list are left out: of a row's   *)
(* two, the first is passed on with every patch, the second only replaced. *)

(* The file is uploaded, the list created; what comes of them is not saved *)
(* before the time is taken and the state read.                            *)
ShareNew(p) ==
  /\ tool = "share"
  /\ \E f \in Contents, keys \in SUBSET Contents \ {{}} :
       /\ Begin(p, [at |-> "granted", file |-> f, list |-> Len(node.lists) + 1, keys |-> keys])
       /\ node' = [node EXCEPT !.stored = @ \cup {f}, !.lists = Append(@, keys)]
  /\ UNCHANGED dir

(* The id is the second of the clock, in hexadecimal: two shares may have  *)
(* the same.                                                               *)
ShareRecord(p) ==
  LET j == job[p]
      row(id) == [id |-> id, file |-> j.file, list |-> j.list, keys |-> j.keys]
  IN
  /\ j.at = "granted"
  /\ \E id \in Names :
       job' = [job EXCEPT ![p] = [at |-> "save", new |-> Append(Lenient(<<>>), row(id)),
                                  acks |-> acked \cup {j.file}]]
  /\ UNCHANGED <<tool, file, commands, dir, node, acked, disturbed>>

(* revoke works on the first share with the id.                            *)
FirstWithId(rows, id) ==
  LET found == {i \in DOMAIN rows : rows[i].id = id}
  IN  CHOOSE i \in found : \A k \in found : i <= k

ShareRevoke(p) ==
  LET rows == Lenient(<<>>) IN
  /\ tool = "share"
  /\ \E i \in DOMAIN rows, keys \in SUBSET Contents \ {{}} :
       /\ i = FirstWithId(rows, rows[i].id)
       /\ Begin(p, [at |-> "patch", rows |-> rows, row |-> i, keys |-> keys])
  /\ UNCHANGED <<dir, node>>

KeepsList(row, list, keys) == [row EXCEPT !.keys = @ \ keys]
Patched(row, list, keys) == [row EXCEPT !.list = list, !.keys = @ \ keys]
SharePatch(p) ==
  LET j == job[p]
      list == node.lists[j.rows[j.row].list] \ j.keys
  IN
  /\ j.at = "patch"
  /\ node' = [node EXCEPT !.lists = Append(@, list)]
  /\ job' = [job EXCEPT ![p] =
       [at |-> "save", acks |-> acked,
        new |-> [j.rows EXCEPT ![j.row] = Patched(@, Len(node.lists) + 1, j.keys)]]]
  /\ UNCHANGED <<tool, file, commands, dir, acked, disturbed>>

ShareNext(p) == ShareNew(p) \/ ShareRecord(p) \/ ShareRevoke(p) \/ SharePatch(p)

-----------------------------------------------------------------------------
(* swarm-pinner makes a pass over the directory every few seconds.         *)

NothingPinned == [ref |-> [n \in {} |-> None], ok |-> {}]

(* listFiles                                                               *)
Files == {n \in Names : dir[n] # None}

NotPinned(st) == Files \ DOMAIN st.ref
PinnerPass(p) ==
  LET st == Lenient(NothingPinned) IN
  /\ tool = "pinner"
  /\ Begin(p, [at |-> "upload", st |-> st, todo |-> NotPinned(st)])
  /\ UNCHANGED <<dir, node>>

(* The next file is read, and it is uploaded as it is by now.              *)
PinnerUpload(p) ==
  LET j == job[p]
      n == CHOOSE m \in j.todo : \A k \in j.todo : m <= k
      ref == [m \in DOMAIN j.st.ref \cup {n} |-> IF m = n THEN dir[n] ELSE j.st.ref[m]]
  IN
  /\ j.at = "upload" /\ tool = "pinner" /\ j.todo # {}
  /\ dir[n] # None
  /\ node' = [node EXCEPT !.stored = @ \cup {dir[n]}]
  /\ job' = [job EXCEPT ![p] = [at |-> "upload", st |-> [ref |-> ref, ok |-> j.st.ok \cup {n}],
                                todo |-> j.todo \ {n}]]
  /\ UNCHANGED <<tool, file, commands, dir, acked, disturbed>>

(* Every pinned file is looked for; a failing look-up counts as missing.   *)
PinnerCheck(p) ==
  LET st == job[p].st IN
  /\ job[p].at = "upload" /\ tool = "pinner" /\ job[p].todo = {}
  /\ \E ok \in SUBSET DOMAIN st.ref :
       job' = [job EXCEPT ![p] = [at |-> "save", new |-> [st EXCEPT !.ok = ok],
                                  acks |-> acked \cup {<<n, st.ref[n]>> : n \in DOMAIN st.ref}]]
  /\ UNCHANGED <<tool, file, commands, dir, node, acked, disturbed>>

PinnerNext(p) == PinnerPass(p) \/ PinnerUpload(p) \/ PinnerCheck(p)

-----------------------------------------------------------------------------
(* swarm-relay                                                             *)

RelayInit(p) ==
  /\ tool = "relay" /\ file = Absent
  /\ Begin(p, [at |-> "save", acks |-> {},
               new |-> [buckets |-> [b \in Names |-> 0], up |-> 0, rejected |-> 0]])
  /\ UNCHANGED <<dir, node>>

(* The counts after the first k chunks of f.                               *)
Plus(counts, f, k) ==
  [b \in Names |-> counts[b] + Cardinality({i \in 1..k : f[i] = b})]

(* How many chunks of f are stamped before a bucket is full, and counted.  *)
Fitting(counts, f) ==
  CHOOSE k \in 0..Len(f) :
    /\ \A i \in 1..k : Plus(counts, f, i)[f[i]] <= Slots
    /\ k < Len(f) => Plus(counts, f, k + 1)[f[k + 1]] > Slots
CountBefore(counts, f) ==
  IF Fitting(counts, f) = Len(f) THEN Len(f) ELSE Fitting(counts, f) + 1
Counted(counts, f) == Fitting(counts, f)

(* The stamper is brought to the saved counts, which fails when a bucket   *)
(* has more than it takes; then the file is chunked and stamped.  If a     *)
(* stamp is refused, the counts so far are saved.                          *)
RelayRelay(p) ==
  /\ tool = "relay" /\ Strict
  /\ \A b \in Names : file.value.buckets[b] <= Slots
  /\ \E f \in RelayFiles :
       LET st == file.value
           counts == Plus(st.buckets, f, Counted(st.buckets, f))
       IN  Begin(p,
             IF Fitting(st.buckets, f) = Len(f)
             THEN [at |-> "relay", st |-> [st EXCEPT !.buckets = counts], f |-> f]
             ELSE [at |-> "save", acks |-> {},
                   new |-> [buckets |-> counts, up |-> st.up, rejected |-> st.rejected + 1]])
  /\ UNCHANGED <<dir, node>>

(* The file goes to the node in one request; the node stamps it.           *)
RelayUpload(p) ==
  LET j == job[p] IN
  /\ j.at = "relay"
  /\ node' = [node EXCEPT !.issued = Plus(@, j.f, Len(j.f))]
  /\ job' = [job EXCEPT ![p] = [at |-> "save", acks |-> {}, new |-> [j.st EXCEPT !.up = @ + 1]]]
  /\ UNCHANGED <<tool, file, commands, dir, acked, disturbed>>

RelayReset(p) ==
  /\ tool = "relay" /\ job[p] = Idle /\ file # Absent
  /\ file' = Absent
  /\ disturbed' = disturbed \cup {"reset"}
  /\ UNCHANGED <<tool, job, commands, dir, node, acked>>

RelayNext(p) == RelayInit(p) \/ RelayRelay(p) \/ RelayUpload(p) \/ RelayReset(p)

NodeToolsNext(p) == ShareNext(p) \/ PinnerNext(p) \/ RelayNext(p)

-----------------------------------------------------------------------------
(* A state file refers only to what the node has: the uploads, and the     *)
(* lists of grantees.                                                      *)
NodeToolsDangle(value) ==
  \/ tool = "share" /\ \E i \in DOMAIN value :
       value[i].file \notin node.stored \/ value[i].list \notin DOMAIN node.lists
  \/ tool = "pinner" /\ \E n \in DOMAIN value.ref : value.ref[n] \notin node.stored

(* The grantees that swarm-share shows from its file are those of the list *)
(* it refers to, in the file and in what is about to be saved, whatever    *)
(* was killed, lost or overwritten.                                        *)
GranteesMatch ==
  LET matching(rows) == \A i \in DOMAIN rows : rows[i].keys = node.lists[rows[i].list] IN
  tool = "share" =>
    /\ Strict => matching(file.value)
    /\ \A p \in Shells : job[p].at \in {"save", "write"} => matching(job[p].new)

(* The counts that swarm-relay saves can always be brought back into a     *)
(* stamper; and they are no less than what the node has stamped for it     *)
(* while no command runs, none was broken off and none overlapped.         *)
RelayCounts ==
  tool = "relay" /\ Strict =>
    /\ \A b \in Names : file.value.buckets[b] <= Slots
    /\ disturbed = {} /\ (\A p \in Shells : job[p] = Idle) =>
         \A b \in Names : file.value.buckets[b] >= node.issued[b]

=============================================================================
