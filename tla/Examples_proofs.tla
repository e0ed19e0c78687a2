---------------------------- MODULE Examples_proofs ----------------------------
(***************************************************************************)
(* Proofs about the programs under examples/: the state-file tools, for    *)
(* any shells, names, contents and number of commands, and the integration *)
(* check, for any number of polls, of tries and of updates by others.      *)
(***************************************************************************)
EXTENDS Tools, IntegrationCheck, SequenceTheorems, FiniteSetTheorems, WellFoundedInduction, TLAPS

-----------------------------------------------------------------------------
(* What the state of the tool t may look like: a value v of its file, a    *)
(* command j, the node nd.  The tool does not change in a behaviour, and   *)
(* these definitions speak of no variable.                                 *)

Row == [id : Names, file : Contents, list : Nat, keys : SUBSET Contents]
Pinned == [ref : UNION {[D -> Contents] : D \in SUBSET Names}, ok : SUBSET Names]
Count == [buckets : [Names -> Nat], up : Nat, rejected : Nat]

Fits(t, v) ==
  /\ t = "deploy" => v \in Seq(Contents)
  /\ t = "vault" => v \in [Names -> Contents \cup {None}]
  /\ t \in {"keyring", "rss"} => v \in Seq(Names \X Contents)
  /\ t = "fs" => v \in [Names -> Names \cup {None}]
  /\ t = "share" => v \in Seq(Row)
  /\ t = "pinner" => v \in Pinned
  /\ t = "relay" => v \in Count

Saving(t, j) ==
  /\ j.at \in {"save", "write"}
  /\ j = [at |-> j.at, new |-> j.new, acks |-> j.acks]
  /\ Fits(t, j.new)

Looking(t, j) ==
  /\ j.at = "look"
  /\ j = [at |-> "look", pub |-> j.pub, new |-> j.new, acks |-> j.acks]
  /\ t \in {"deploy", "vault", "blog"}
  /\ Fits(t, j.new)
  /\ t = "deploy" => j.pub \in Contents
  /\ t = "vault" => j.pub = j.new

Publishing(t, j) ==
  /\ j.at = "publish"
  /\ j = [at |-> "publish", pub |-> j.pub, new |-> j.new, acks |-> j.acks, index |-> j.index]
  /\ t \in {"deploy", "vault", "blog"}
  /\ Fits(t, j.new)
  /\ t = "deploy" => j.pub \in Contents
  /\ t = "vault" => j.pub = j.new
  /\ t \in {"deploy", "vault"} => j.index \in Nat

Collecting(t, j) == t = "blog" /\ j.at = "posts" /\ j = [at |-> "posts", posts |-> j.posts]

Granted(t, j) ==
  /\ t = "share"
  /\ j \in [at : {"granted"}, file : Contents, list : Nat, keys : SUBSET Contents]

Patching(t, j) ==
  /\ t = "share"
  /\ j.at = "patch"
  /\ j = [at |-> "patch", rows |-> j.rows, row |-> j.row, keys |-> j.keys]
  /\ j.rows \in Seq(Row) /\ j.row \in DOMAIN j.rows

Uploading(t, j) ==
  /\ t = "pinner"
  /\ j.at = "upload"
  /\ j = [at |-> "upload", st |-> j.st, todo |-> j.todo]
  /\ j.st \in Pinned /\ j.todo \subseteq Names \ DOMAIN j.st.ref

Relaying(t, j) ==
  /\ t = "relay"
  /\ j.at = "relay"
  /\ j = [at |-> "relay", st |-> j.st, f |-> j.f]
  /\ j.st \in Count /\ j.f \in RelayFiles

JobFits(t, j) ==
  \/ j = Idle \/ Saving(t, j) \/ Looking(t, j) \/ Publishing(t, j) \/ Collecting(t, j)
  \/ Granted(t, j) \/ Patching(t, j) \/ Uploading(t, j) \/ Relaying(t, j)

(* An update of the feed that is on its way to the node.                   *)
SentFits(t, pub, index) ==
  /\ t = "deploy" => pub \in Contents
  /\ t = "vault" => pub \in [Names -> Contents \cup {None}]
  /\ t \in {"deploy", "vault"} => index \in Nat

NodeFits(t, nd) ==
  /\ nd = [stored |-> nd.stored, feed |-> nd.feed, served |-> nd.served, late |-> nd.late,
           lists |-> nd.lists, issued |-> nd.issued]
  /\ \A r \in nd.late : SentFits(t, r.pub, r.index)
  /\ t = "deploy" => nd.feed \in Seq(Contents)
  /\ t = "vault" => nd.feed \in Seq([Names -> Contents \cup {None}])
  /\ nd.lists \in Seq(SUBSET Contents)
  /\ nd.issued \in [Names -> Nat]

FileFits(t, fl) ==
  \/ fl = Absent \/ fl = Torn
  \/ fl = Holding(fl.value) /\ Fits(t, fl.value)

(* What the value v of the file of the tool t refers to is on the node nd, *)
(* a list of grantees has the keys that the row has, and counts can be     *)
(* brought into a stamper.                                                 *)
Backed(t, nd, v) ==
  /\ t = "deploy" => \A i \in DOMAIN v : v[i] \in nd.served
  /\ t = "vault" => \A n \in Names : v[n] \in nd.stored \cup {None}
  /\ t = "share" => \A i \in DOMAIN v : /\ v[i].file \in nd.stored
                                        /\ v[i].list \in DOMAIN nd.lists
                                        /\ v[i].keys = nd.lists[v[i].list]
  /\ t = "pinner" => \A n \in DOMAIN v.ref : v.ref[n] \in nd.stored
  /\ t = "relay" => \A b \in Names : v.buckets[b] <= Slots

(* What a command has read, and will save.                                 *)
JobBacked(t, nd, j) ==
  /\ j.at \in {"save", "write"} => Backed(t, nd, j.new)
  /\ j.at \in {"look", "publish"} =>
       /\ t = "deploy" => \A i \in DOMAIN j.new : j.new[i] \in nd.served \cup {j.pub}
       /\ t = "vault" => Backed(t, nd, j.new)
  /\ j.at = "granted" => /\ j.file \in nd.stored
                         /\ j.list \in DOMAIN nd.lists
                         /\ j.keys = nd.lists[j.list]
  /\ j.at = "patch" => Backed(t, nd, j.rows)
  /\ j.at \in {"upload", "relay"} => Backed(t, nd, j.st)

Tool == {"deploy", "vault", "blog", "keyring", "rss", "fs", "share", "pinner", "relay"}

Shape ==
  /\ tool \in Tool
  /\ dir \in [Names -> Contents \cup {None}]
  /\ NodeFits(tool, node)
  /\ FileFits(tool, file)
  /\ job = [p \in Shells |-> job[p]]
  /\ \A p \in Shells : JobFits(tool, job[p])

Upheld ==
  /\ Strict => Backed(tool, node, file.value)
  /\ \A p \in Shells : JobBacked(tool, node, job[p])

(* Without an overlap, one command runs; if none is cut off either, the    *)
(* file is torn exactly while a command writes it.                         *)
Single ==
  "overlap" \notin disturbed =>
    \A p, q \in Shells : job[p] # Idle /\ job[q] # Idle => p = q

Whole ==
  tool # "relay" /\ disturbed \cap {"overlap", "cut"} = {} =>
    (file = Torn <=> \E p \in Shells : job[p].at = "write")

(* Items(v) of the tool t.                                                 *)
ItemsOf(t, v) ==
  CASE t = "deploy" -> {v[i] : i \in DOMAIN v}
    [] t = "vault" -> Pairs(v)
    [] t \in {"keyring", "rss"} -> {EntryOf(v, v[i][1]) : i \in DOMAIN v}
    [] t = "fs" -> Staged(v)
    [] t = "share" -> {v[i].file : i \in DOMAIN v}
    [] t = "pinner" -> {<<n, v.ref[n]>> : n \in DOMAIN v.ref}
    [] OTHER -> {}

JobKeeps(t, had, j) ==
  /\ j.at \in {"save", "write", "look", "publish"} => j.acks \subseteq ItemsOf(t, j.new)
  /\ j.at = "patch" => had \subseteq ItemsOf(t, j.rows)
  /\ j.at = "upload" => had \subseteq ItemsOf(t, j.st)

Kept ==
  disturbed \cap {"overlap", "cut"} = {} =>
    /\ file # Torn /\ acked # {} => Strict /\ acked \subseteq ItemsOf(tool, file.value)
    /\ tool = "relay" => acked = {}
    /\ \A p \in Shells : JobKeeps(tool, acked, job[p])

(* Relay: what is saved, or will be, counts all that the node has stamped, *)
(* or will be asked to stamp before it is saved.                           *)
Covers(t, nd, j) ==
  /\ j.at \in {"save", "write"} => \A b \in Names : j.new.buckets[b] >= nd.issued[b]
  /\ j.at = "relay" => \A b \in Names : j.st.buckets[b] >= Plus(nd.issued, j.f, Len(j.f))[b]

Counting ==
  tool = "relay" /\ disturbed = {} =>
    /\ \A p \in Shells : Covers(tool, node, job[p])
    /\ (\A p \in Shells : job[p] = Idle) =>
         /\ Strict => \A b \in Names : file.value.buckets[b] >= node.issued[b]
         /\ file = Absent => \A b \in Names : node.issued[b] = 0

(* v has some of the updates of the feed in their order.                   *)
Within(v, feed) ==
  \E h \in [DOMAIN v -> DOMAIN feed] :
    /\ \A i, k \in DOMAIN v : i < k => h[i] < h[k]
    /\ \A i \in DOMAIN v : v[i] = feed[h[i]]

(* The newest update is what the file with v would have it be.             *)
Newest(t, v, feed) ==
  feed # <<>> =>
    IF t = "vault" THEN feed[Len(feed)] = v ELSE v # <<>> /\ feed[Len(feed)] = v[Len(v)]

JobFollows(t, nd, fl, calm, j) ==
  /\ j.at \in {"look", "publish"} =>
       fl.is = "saved" /\ (t = "deploy" => j.new = Append(fl.value, j.pub))
  /\ j.at = "publish" => j.index = Len(nd.feed)
  /\ j.at \in {"save", "write"} =>
       /\ t = "deploy" => Within(j.new, nd.feed)
       /\ calm => Newest(t, j.new, nd.feed)

Clear == disturbed \cap {"overlap", "astray", "late"} = {}

Following ==
  tool \in {"deploy", "vault"} /\ Clear =>
    /\ file = Absent => node.feed = <<>> /\ node.late = {}
    /\ disturbed = {} => node.late = {}
    /\ Strict /\ tool = "deploy" => Within(file.value, node.feed)
    /\ \A p \in Shells : JobFollows(tool, node, file, disturbed = {}, job[p])
    /\ Strict /\ disturbed = {} /\ (\A p \in Shells : job[p] = Idle) =>
         Newest(tool, file.value, node.feed)

ToolsInv == Shape /\ Upheld /\ Single /\ Whole /\ Kept /\ Counting /\ Following

Quiet == disturbed \cap {"overlap", "cut"} = {}

-----------------------------------------------------------------------------
(* What the stage of a command tells of its form.                          *)

LEMMA Stages ==
  ASSUME NEW t, NEW j, JobFits(t, j)
  PROVE  /\ j.at = "idle" => j = Idle
         /\ j.at \in {"save", "write"} => Saving(t, j)
         /\ j.at = "look" => Looking(t, j)
         /\ j.at = "publish" => Publishing(t, j)
         /\ j.at = "posts" => Collecting(t, j)
         /\ j.at = "granted" => Granted(t, j)
         /\ j.at = "patch" => Patching(t, j)
         /\ j.at = "upload" => Uploading(t, j)
         /\ j.at = "relay" => Relaying(t, j)
         /\ j # Idle => j.at # "idle"
<1>1. j = Idle => j.at = "idle"
  BY DEF Idle
<1> QED
  BY <1>1 DEF JobFits, Saving, Looking, Publishing, Collecting, Granted, Patching, Uploading,
     Relaying

LEMMA IdleJob ==
  ASSUME NEW t, NEW nd, NEW had
  PROVE  /\ Idle.at = "idle"
         /\ JobFits(t, Idle) /\ JobBacked(t, nd, Idle) /\ JobKeeps(t, had, Idle)
         /\ Covers(t, nd, Idle)
BY DEF Idle, JobFits, JobBacked, JobKeeps, Covers

LEMMA FileStates ==
  /\ Absent.is = "absent" /\ Torn.is = "torn" /\ Absent # Torn
  /\ \A v : /\ Holding(v).is = "saved" /\ Holding(v).value = v
            /\ Holding(v) # Absent /\ Holding(v) # Torn
<1>1. Absent.is = "absent" /\ Torn.is = "torn"
  BY DEF Absent, Torn
<1>2. \A v : Holding(v).is = "saved" /\ Holding(v).value = v
  BY DEF Holding
<1>3. "absent" # "torn" /\ "absent" # "saved" /\ "torn" # "saved"
  OBVIOUS
<1>4. Absent # Torn
  BY <1>1, <1>3
<1>5. ASSUME NEW v PROVE Holding(v) # Absent
  BY <1>1, <1>2, <1>3
<1>6. ASSUME NEW v PROVE Holding(v) # Torn
  BY <1>1, <1>2, <1>3
<1> QED
  BY <1>1, <1>2, <1>4, <1>5, <1>6

(* Strict tells a file that can be read.                                   *)
LEMMA Readable ==
  ASSUME FileFits(tool, file)
  PROVE  /\ Strict => Fits(tool, file.value) /\ file # Absent /\ file # Torn
         /\ ~ Strict => file = Absent \/ file = Torn
BY FileStates DEF FileFits, Strict

(* The node forgets no upload, no update and no list.                      *)
Grows(nd, nd2) ==
  /\ nd.stored \subseteq nd2.stored
  /\ nd.served \subseteq nd2.served
  /\ \A i \in DOMAIN nd.lists : i \in DOMAIN nd2.lists /\ nd2.lists[i] = nd.lists[i]

LEMMA BackedGrows ==
  ASSUME NEW t, NEW nd, NEW nd2, Grows(nd, nd2), NEW v, Backed(t, nd, v)
  PROVE  Backed(t, nd2, v)
BY DEF Grows, Backed

LEMMA JobBackedGrows ==
  ASSUME NEW t, NEW nd, NEW nd2, Grows(nd, nd2), NEW j, JobBacked(t, nd, j)
  PROVE  JobBacked(t, nd2, j)
<1>1. j.at = "granted" => /\ j.file \in nd2.stored
                          /\ j.list \in DOMAIN nd2.lists
                          /\ j.keys = nd2.lists[j.list]
  BY DEF JobBacked, Grows
<1>2. j.at \in {"look", "publish"} /\ t = "deploy" =>
        \A i \in DOMAIN j.new : j.new[i] \in nd2.served \cup {j.pub}
  BY DEF JobBacked, Grows
<1> QED
  BY <1>1, <1>2, BackedGrows DEF JobBacked

(***************************************************************************)
(* A step that changes what the command in shell p does, and at most lets  *)
(* the node grow.  What the new stage must satisfy is left to the step.    *)
(***************************************************************************)
Starts(p) ==
  /\ job[p] = Idle
  /\ disturbed' = disturbed \cup {e \in {"overlap"} : \E q \in Shells : job[q] # Idle}

LEMMA JobChanges ==
  ASSUME ToolsInv, NEW p \in Shells, NEW j,
         UNCHANGED <<tool, file, acked, dir>>,
         job' = [job EXCEPT ![p] = j],
         \/ Starts(p)
         \/ job[p] # Idle /\ disturbed \subseteq disturbed',
         j.at # "write",
         job[p].at # "write" \/ "cut" \in disturbed',
         NodeFits(tool, node'), Grows(node, node'),
         JobFits(tool, j), JobBacked(tool, node', j),
         Quiet' => JobKeeps(tool, acked, j)
  PROVE  Shape' /\ Upheld' /\ Single' /\ Whole' /\ Kept'
<1>1. /\ job' = [q \in Shells |-> job'[q]]
      /\ job'[p] = j
      /\ \A q \in Shells \ {p} : job'[q] = job[q]
  BY DEF ToolsInv, Shape
<1>2. Shape'
  BY <1>1 DEF ToolsInv, Shape
<1>3. Upheld'
  <2>1. \A q \in Shells : JobBacked(tool, node', job'[q])
    BY <1>1, JobBackedGrows DEF ToolsInv, Upheld
  <2>2. Strict => Backed(tool, node', file.value)
    BY BackedGrows DEF ToolsInv, Upheld
  <2> QED
    BY <2>1, <2>2 DEF Upheld, Strict
<1>4. disturbed \subseteq disturbed'
  BY DEF Starts
<1>5. Single'
  <2>1. CASE Starts(p)
    <3>1. "overlap" \notin disturbed' => \A q \in Shells : job[q] = Idle
      BY <2>1 DEF Starts
    <3> QED
      BY <3>1, <1>1 DEF Single
  <2>2. CASE job[p] # Idle
    BY <2>2, <1>1, <1>4 DEF ToolsInv, Single
  <2> QED
    BY <2>1, <2>2
<1>6. Whole'
  BY <1>1, <1>4 DEF ToolsInv, Whole
<1>7. Kept'
  BY <1>1, <1>4 DEF ToolsInv, Kept, Quiet, Strict
<1> QED
  BY <1>2, <1>3, <1>5, <1>6, <1>7

-----------------------------------------------------------------------------
(* The steps that every tool has.                                          *)

LEMMA TruncateStep ==
  ASSUME ToolsInv, NEW p \in Shells, Truncate(p)
  PROVE  ToolsInv'
<1> DEFINE j == job'[p]
<1>1. /\ file' = Torn
      /\ UNCHANGED <<tool, dir, node, acked, disturbed>>
      /\ job' = [q \in Shells |-> job'[q]]
      /\ \A q \in Shells \ {p} : job'[q] = job[q]
      /\ j = [job[p] EXCEPT !.at = "write"]
  BY DEF Truncate, ToolsInv, Shape
<1>2. Saving(tool, job[p]) /\ job[p].at = "save"
  BY Stages DEF ToolsInv, Shape, Truncate
<1>3. j = [at |-> "write", new |-> job[p].new, acks |-> job[p].acks]
  BY <1>1, <1>2 DEF Saving
<1>4. j.at = "write" /\ j.new = job[p].new /\ j.acks = job[p].acks
  BY <1>3
<1> HIDE DEF j
<1>5. Shape'
  <2>1. JobFits(tool, j)
    BY <1>2, <1>3, <1>4 DEF JobFits, Saving
  <2> QED
    BY <1>1, <2>1 DEF ToolsInv, Shape, FileFits, j
<1>6. ~ Strict' /\ file' # Absent
  BY <1>1, FileStates DEF Strict
<1>7. Upheld'
  <2>1. JobBacked(tool, node, j)
    BY <1>2, <1>4 DEF ToolsInv, Upheld, JobBacked
  <2> QED
    BY <1>1, <1>6, <2>1 DEF ToolsInv, Upheld, j
<1>8. job[p] # Idle /\ j # Idle
  BY <1>2, <1>4, IdleJob
<1>9. Single'
  BY <1>1, <1>8 DEF ToolsInv, Single
<1>10. Whole'
  BY <1>1, <1>4 DEF Whole, j
<1>11. Kept'
  <2>1. Quiet => JobKeeps(tool, acked, j)
    BY <1>2, <1>4 DEF ToolsInv, Kept, JobKeeps, Quiet
  <2> QED
    BY <1>1, <2>1 DEF ToolsInv, Kept, Quiet, j
<1>12. Counting'
  <2>1. tool = "relay" /\ disturbed = {} => Covers(tool, node, j)
    BY <1>2, <1>4 DEF ToolsInv, Counting, Covers
  <2> QED
    BY <1>1, <1>6, <1>8, <2>1 DEF ToolsInv, Counting, j
<1>13. Following'
  <2> SUFFICES ASSUME tool \in {"deploy", "vault"}, Clear
               PROVE  \A q \in Shells : JobFollows(tool, node, file', disturbed = {}, job'[q])
    BY <1>1, <1>6 DEF ToolsInv, Following, Clear
  <2>1. JobFollows(tool, node, file', disturbed = {}, j)
    BY <1>2, <1>4 DEF ToolsInv, Following, JobFollows
  <2>2. ASSUME NEW q \in Shells \ {p} PROVE job'[q] = Idle
    BY <1>1, <1>8 DEF ToolsInv, Single, Clear
  <2>3. JobFollows(tool, node, file', disturbed = {}, Idle)
    BY DEF JobFollows, Idle
  <2> QED
    BY <2>1, <2>2, <2>3 DEF j
<1> QED
  BY <1>5, <1>7, <1>9, <1>10, <1>11, <1>12, <1>13 DEF ToolsInv

LEMMA WriteOutStep ==
  ASSUME ToolsInv, NEW p \in Shells, WriteOut(p)
  PROVE  ToolsInv'
<1> DEFINE v == job[p].new
<1>1. /\ file' = Holding(v) \/ (file' = Torn /\ file # Torn)
      /\ acked' = job[p].acks
      /\ UNCHANGED <<tool, dir, node, disturbed>>
      /\ job' = [q \in Shells |-> job'[q]]
      /\ \A q \in Shells \ {p} : job'[q] = job[q]
      /\ job'[p] = Idle
  <2>1. file' \in {Holding(v)} \cup {f \in {Torn} : file # Torn}
    BY DEF WriteOut
  <2>2. job' = [job EXCEPT ![p] = Idle]
    BY DEF WriteOut
  <2> HIDE DEF v
  <2>3. file' = Holding(v) \/ (file' = Torn /\ file # Torn)
    BY <2>1
  <2> QED
    BY <2>2, <2>3 DEF WriteOut, ToolsInv, Shape
<1>2. Saving(tool, job[p]) /\ job[p].at = "write" /\ job[p] # Idle
  BY Stages, IdleJob DEF ToolsInv, Shape, WriteOut
<1>3. Fits(tool, v) /\ Backed(tool, node, v)
  BY <1>2 DEF Saving, ToolsInv, Upheld, JobBacked
<1>4. "overlap" \notin disturbed => \A q \in Shells : job'[q] = Idle
  BY <1>1, <1>2 DEF ToolsInv, Single
<1>5. Strict' => file' = Holding(v) /\ file'.value = v
  BY <1>1, FileStates DEF Strict
<1>6. file' # Absent
  BY <1>1, FileStates
<1>7. Shape'
  <2>1. FileFits(tool, file')
    BY <1>1, <1>3, FileStates DEF FileFits
  <2> QED
    BY <1>1, <2>1, IdleJob DEF ToolsInv, Shape
<1>8. Upheld'
  <2>1. Strict' => Backed(tool, node, file'.value)
    BY <1>3, <1>5
  <2> QED
    BY <1>1, <2>1, IdleJob DEF ToolsInv, Upheld, Strict
<1>9. Single'
  BY <1>1, <1>4 DEF Single
<1>10. tool # "relay" /\ Quiet => file' = Holding(v)
  BY <1>1, <1>2 DEF ToolsInv, Whole, Quiet
<1>11. Whole'
  <2>1. Quiet => \A q \in Shells : job'[q].at # "write"
    BY <1>4, IdleJob DEF Quiet
  <2> QED
    BY <2>1, <1>1, <1>10, FileStates DEF Whole, Quiet
<1>12. Kept'
  <2>1. Quiet => acked' \subseteq ItemsOf(tool, v)
    BY <1>1, <1>2 DEF ToolsInv, Kept, JobKeeps, Quiet
  <2>2. Quiet => \A q \in Shells : JobKeeps(tool, acked', job'[q])
    BY <1>4, IdleJob DEF Quiet
  <2>3. file' # Torn => Strict' /\ file'.value = v
    BY <1>1, FileStates DEF Strict
  <2>4. tool = "relay" => ItemsOf(tool, v) = {}
    BY DEF ItemsOf
  <2> HIDE DEF v
  <2> QED
    BY <1>1, <2>1, <2>2, <2>3, <2>4 DEF Kept, Quiet
<1>13. Counting'
  <2> SUFFICES ASSUME tool = "relay", disturbed = {} PROVE Counting'
    BY <1>1 DEF Counting
  <2>1. \A b \in Names : v.buckets[b] >= node.issued[b]
    BY <1>2 DEF ToolsInv, Counting, Covers
  <2>2. \A q \in Shells : Covers(tool, node, job'[q])
    BY <1>4, IdleJob
  <2> HIDE DEF v
  <2> QED
    BY <1>1, <1>5, <1>6, <2>1, <2>2 DEF Counting
<1>14. Following'
  <2> SUFFICES ASSUME tool \in {"deploy", "vault"}, Clear PROVE Following'
    BY <1>1 DEF Following, Clear
  <2>1. /\ JobFollows(tool, node, file, disturbed = {}, job[p])
        /\ disturbed = {} => node.late = {}
    BY DEF ToolsInv, Following
  <2>2. /\ tool = "deploy" => Within(v, node.feed)
        /\ disturbed = {} => Newest(tool, v, node.feed)
    BY <1>2, <2>1 DEF JobFollows
  <2>3. JobFollows(tool, node, file', disturbed = {}, Idle)
    BY DEF JobFollows, Idle
  <2>4. \A q \in Shells : JobFollows(tool, node, file', disturbed = {}, job'[q])
    BY <1>4, <2>3 DEF Clear
  <2> HIDE DEF v
  <2> QED
    BY <1>1, <1>5, <1>6, <2>1, <2>2, <2>4 DEF Following
<1> QED
  BY <1>7, <1>8, <1>9, <1>11, <1>12, <1>13, <1>14 DEF ToolsInv

LEMMA StopStep ==
  ASSUME ToolsInv, NEW p \in Shells, Stop(p)
  PROVE  ToolsInv'
<1> DEFINE sent == {q \in {p} : job[q].at = "publish"}
           late == node.late \cup {[pub |-> job[q].pub, index |-> job[q].index] : q \in sent}
<1>1. /\ UNCHANGED <<tool, file, dir, acked>>
      /\ job' = [job EXCEPT ![p] = Idle]
      /\ job[p] # Idle
      /\ node' = [node EXCEPT !.late = late]
      /\ disturbed' = disturbed \cup {"dropped"} \cup {e \in {"cut"} : job[p].at = "write"}
  BY DEF Stop
<1>2. ASSUME NEW r \in late PROVE SentFits(tool, r.pub, r.index)
  <2>1. CASE r \in node.late
    BY <2>1 DEF ToolsInv, Shape, NodeFits
  <2>2. CASE r \notin node.late
    <3>1. job[p].at = "publish" /\ r = [pub |-> job[p].pub, index |-> job[p].index]
      BY <2>2
    <3>2. Publishing(tool, job[p]) /\ r.pub = job[p].pub /\ r.index = job[p].index
      BY <3>1, Stages DEF ToolsInv, Shape
    <3> QED
      BY <3>2 DEF Publishing, SentFits, Fits
  <2> QED
    BY <2>1, <2>2
<1>3. job[p].at # "publish" => late = node.late
  OBVIOUS
<1> HIDE DEF late
<1>4. /\ node' = [stored |-> node.stored, feed |-> node.feed, served |-> node.served,
                  late |-> late, lists |-> node.lists, issued |-> node.issued]
      /\ node'.feed = node.feed /\ node'.issued = node.issued /\ node'.late = late
  BY <1>1 DEF ToolsInv, Shape, NodeFits
<1>5. Grows(node, node') /\ NodeFits(tool, node')
  BY <1>2, <1>4 DEF Grows, NodeFits, ToolsInv, Shape
<1>6. Shape' /\ Upheld' /\ Single' /\ Whole' /\ Kept'
  <2>1. job[p].at # "write" \/ "cut" \in disturbed'
    BY <1>1
  <2>2. disturbed \subseteq disturbed'
    BY <1>1
  <2>3. Idle.at # "write"
    BY IdleJob
  <2> QED
    BY <1>1, <1>5, <2>1, <2>2, <2>3, IdleJob, JobChanges
<1>7. Counting'
  BY <1>1 DEF Counting
<1>8. Following'
  <2> SUFFICES ASSUME tool \in {"deploy", "vault"}, Clear PROVE Following'
    BY <1>1 DEF Following, Clear
  <2>1. disturbed' # {}
    BY <1>1
  <2>2. ASSUME NEW q \in Shells PROVE JobFollows(tool, node', file, disturbed' = {}, job'[q])
    <3>1. CASE q = p
      <4>1. job'[q] = Idle
        BY <3>1, <1>1 DEF ToolsInv, Shape
      <4> QED
        BY <4>1 DEF JobFollows, Idle
    <3>2. CASE q # p
      <4>1. job'[q] = job[q]
        BY <3>2, <1>1 DEF ToolsInv, Shape
      <4> QED
        BY <4>1, <1>4, <2>1 DEF ToolsInv, Following, JobFollows
    <3> QED
      BY <3>1, <3>2
  <2>3. file = Absent => late = node.late
    <3>1. job[p].at = "publish" => file.is = "saved"
      BY DEF ToolsInv, Following, JobFollows
    <3> QED
      BY <1>3, <3>1, FileStates
  <2> QED
    BY <1>1, <1>4, <2>1, <2>2, <2>3 DEF ToolsInv, Following, Strict
<1> QED
  BY <1>6, <1>7, <1>8 DEF ToolsInv

(* Only the user's files change.                                           *)
LEMMA DirStep ==
  ASSUME ToolsInv, UNCHANGED <<tool, file, job, node, acked, disturbed>>,
         dir' \in [Names -> Contents \cup {None}]
  PROVE  ToolsInv'
<1>1. Shape' /\ Upheld'
  BY DEF ToolsInv, Shape, Upheld, Strict
<1>2. Single' /\ Whole' /\ Kept'
  BY DEF ToolsInv, Single, Whole, Kept, Strict
<1>3. Counting' /\ Following'
  BY DEF ToolsInv, Counting, Following, Strict, Clear
<1> QED
  BY <1>1, <1>2, <1>3 DEF ToolsInv

(* A command that starts alone and undisturbed finds the file whole.       *)
LEMMA FreshStart ==
  ASSUME ToolsInv, NEW p \in Shells, Starts(p), tool # "relay", Quiet'
  PROVE  /\ Quiet
         /\ file # Torn
         /\ \A q \in Shells : job[q] = Idle
         /\ acked # {} => Strict /\ acked \subseteq ItemsOf(tool, file.value)
<1>1. Quiet
  BY DEF Starts, Quiet
<1>2. \A q \in Shells : job[q] = Idle
  BY DEF Starts, Quiet
<1>3. file # Torn
  BY <1>1, <1>2, IdleJob DEF ToolsInv, Whole, Quiet
<1> QED
  BY <1>1, <1>2, <1>3 DEF ToolsInv, Kept, Quiet

LEMMA OtherTools ==
  ASSUME tool' \notin {"deploy", "vault", "relay"}
  PROVE  Counting' /\ Following'
BY DEF Counting, Following

LEMMA NodeStays ==
  ASSUME ToolsInv, UNCHANGED <<tool, node>>
  PROVE  NodeFits(tool, node') /\ Grows(node, node')
BY DEF ToolsInv, Shape, Grows

(* A command that goes at once to save.                                    *)
LEMMA SaveJob ==
  ASSUME NEW t, NEW nd, NEW had, NEW v, NEW acks, NEW j,
         j = [at |-> "save", new |-> v, acks |-> acks],
         Fits(t, v), Backed(t, nd, v)
  PROVE  /\ j.at = "save" /\ j.new = v /\ j.acks = acks
         /\ JobFits(t, j) /\ JobBacked(t, nd, j)
         /\ acks \subseteq ItemsOf(t, v) => JobKeeps(t, had, j)
<1>1. j.at = "save" /\ j.new = v /\ j.acks = acks
  OBVIOUS
<1>2. JobFits(t, j)
  BY <1>1 DEF JobFits, Saving
<1> QED
  BY <1>1, <1>2 DEF JobBacked, JobKeeps

LEMMA BeginSave ==
  ASSUME ToolsInv, NEW p \in Shells, NEW v, NEW acks,
         Begin(p, [at |-> "save", new |-> v, acks |-> acks]), UNCHANGED <<dir, node>>,
         Fits(tool, v), Backed(tool, node, v),
         Starts(p) /\ Quiet' => acks \subseteq ItemsOf(tool, v)
  PROVE  Shape' /\ Upheld' /\ Single' /\ Whole' /\ Kept'
<1> DEFINE j == [at |-> "save", new |-> v, acks |-> acks]
<1>1. /\ Starts(p)
      /\ job' = [job EXCEPT ![p] = j]
      /\ UNCHANGED <<tool, file, acked>>
  BY DEF Begin, Starts
<1>2. /\ j.at = "save"
      /\ JobFits(tool, j) /\ JobBacked(tool, node, j)
      /\ acks \subseteq ItemsOf(tool, v) => JobKeeps(tool, acked, j)
  BY SaveJob
<1>3. job[p].at # "write"
  BY <1>1, IdleJob DEF Starts
<1> HIDE DEF j
<1>4. NodeFits(tool, node') /\ Grows(node, node')
  BY <1>1, NodeStays
<1>5. j.at # "write" /\ JobBacked(tool, node', j) /\ (Quiet' => JobKeeps(tool, acked, j))
  BY <1>1, <1>2
<1> QED
  BY <1>1, <1>2, <1>3, <1>4, <1>5, JobChanges

-----------------------------------------------------------------------------
(* Keyring and feed-rss: the first entry with a name stays the first.      *)

LEMMA LeastNatural ==
  ASSUME NEW S \in SUBSET Nat, S # {}
  PROVE  \E n \in S : \A m \in S : n <= m
<1>1. PICK n \in S : \A m \in S : ~ (<<m, n>> \in OpToRel(<, Nat))
  BY WFMin, NatLessThanWellFounded
<1>2. \A m \in S : ~ (m < n)
  BY <1>1 DEF OpToRel
<1> QED
  BY <1>2

LEMMA ChosenLeast ==
  ASSUME NEW S \in SUBSET Nat, S # {}
  PROVE  /\ (CHOOSE i \in S : \A k \in S : i <= k) \in S
         /\ \A k \in S : (CHOOSE i \in S : \A m \in S : i <= m) <= k
<1>1. \E i \in S : \A k \in S : i <= k
  BY LeastNatural
<1> QED
  BY <1>1

LEMMA EntriesStay ==
  ASSUME NEW list \in Seq(Names \X Contents), NEW n \in Names, NEW c \in Contents,
         \A i \in DOMAIN list : list[i][1] # n
  PROVE  /\ \A i \in DOMAIN list :
              EntryOf(Append(list, <<n, c>>), list[i][1]) = EntryOf(list, list[i][1])
         /\ EntryOf(Append(list, <<n, c>>), n) = <<n, c>>
<1> DEFINE more == Append(list, <<n, c>>)
           found(l, m) == {i \in DOMAIN l : l[i][1] = m}
<1>1. /\ Len(list) \in Nat /\ DOMAIN list = 1..Len(list)
      /\ DOMAIN more = 1..(Len(list) + 1)
      /\ \A i \in 1..Len(list) : more[i] = list[i]
      /\ more[Len(list) + 1] = <<n, c>>
  BY LenProperties, AppendProperties
<1>2. <<n, c>>[1] = n
  OBVIOUS
<1> HIDE DEF more
<1>3. ASSUME NEW i \in DOMAIN list
      PROVE  EntryOf(more, list[i][1]) = EntryOf(list, list[i][1])
  <2> DEFINE m == list[i][1]
  <2>1. m # n
    OBVIOUS
  <2>2. found(more, m) = found(list, m)
    BY <1>1, <1>2, <2>1
  <2>3. i \in found(list, m) /\ found(list, m) \subseteq 1..Len(list)
    BY <1>1
  <2> DEFINE S == found(list, m)
             least == CHOOSE k \in S : \A l \in S : k <= l
  <2>4. S \in SUBSET Nat /\ S # {}
    BY <1>1, <2>3
  <2> HIDE DEF S
  <2>5. least \in S
    BY <2>4, ChosenLeast
  <2>6. EntryOf(more, m) = more[least] /\ EntryOf(list, m) = list[least]
    BY <2>2 DEF EntryOf, S
  <2>7. least \in 1..Len(list)
    BY <2>3, <2>5 DEF S
  <2> QED
    BY <1>1, <2>6, <2>7
<1>4. EntryOf(more, n) = <<n, c>>
  <2> DEFINE S == found(more, n)
             least == CHOOSE k \in S : \A l \in S : k <= l
  <2>1. S = {Len(list) + 1}
    BY <1>1, <1>2
  <2>2. S \in SUBSET Nat /\ S # {}
    BY <1>1, <2>1
  <2>3. EntryOf(more, n) = more[least]
    BY DEF EntryOf
  <2> HIDE DEF S
  <2>4. least \in S
    BY <2>2, ChosenLeast
  <2> QED
    BY <1>1, <2>1, <2>3, <2>4
<1> QED
  BY <1>3, <1>4 DEF more

LEMMA EnterStep ==
  ASSUME ToolsInv, NEW p \in Shells, NEW n \in Names, NEW c \in Contents,
         tool \in {"keyring", "rss"}, Enter(p, n, c)
  PROVE  ToolsInv'
<1> DEFINE list == Lenient(<<>>)
           v == Append(list, <<n, c>>)
           acks == acked \cup {<<n, c>>}
<1>1. /\ \A i \in DOMAIN list : list[i][1] # n
      /\ Begin(p, [at |-> "save", new |-> v, acks |-> acks])
      /\ UNCHANGED <<dir, node>>
      /\ UNCHANGED tool
  BY DEF Enter, Begin
<1>2. list \in Seq(Names \X Contents)
  BY Readable, EmptySeq DEF Lenient, Strict, ToolsInv, Shape, Fits
<1>3. v \in Seq(Names \X Contents)
  BY <1>2, AppendProperties
<1>4. Fits(tool, v) /\ Backed(tool, node, v)
  BY <1>3 DEF Fits, Backed
<1>5. ASSUME Starts(p), Quiet' PROVE acks \subseteq ItemsOf(tool, v)
  <2> DEFINE items == {EntryOf(v, v[i][1]) : i \in DOMAIN v}
  <2>1. ItemsOf(tool, v) = items
    BY DEF ItemsOf
  <2>2. /\ Len(list) \in Nat /\ DOMAIN list = 1..Len(list)
        /\ DOMAIN v = 1..(Len(list) + 1)
        /\ \A i \in 1..Len(list) : v[i] = list[i]
        /\ v[Len(list) + 1] = <<n, c>>
    BY <1>2, LenProperties, AppendProperties
  <2>3. /\ \A i \in DOMAIN list : EntryOf(v, list[i][1]) = EntryOf(list, list[i][1])
        /\ EntryOf(v, n) = <<n, c>>
    BY <1>1, <1>2, EntriesStay
  <2>4. <<n, c>> \in items
    <3>1. Len(list) + 1 \in DOMAIN v /\ v[Len(list) + 1][1] = n
      BY <2>2
    <3> QED
      BY <2>3, <3>1
  <2>5. acked # {} => acked \subseteq {EntryOf(list, list[i][1]) : i \in DOMAIN list}
    BY <1>5, FreshStart DEF Lenient, Strict, ItemsOf
  <2> HIDE DEF list, v
  <2>6. {EntryOf(list, list[i][1]) : i \in DOMAIN list} \subseteq items
    <3>1. ASSUME NEW i \in DOMAIN list PROVE EntryOf(list, list[i][1]) \in items
      <4>1. i \in DOMAIN v /\ v[i][1] = list[i][1]
        BY <2>2
      <4>2. EntryOf(v, v[i][1]) = EntryOf(list, list[i][1])
        BY <2>3, <4>1
      <4> QED
        BY <4>1, <4>2
    <3> QED
      BY <3>1
  <2> QED
    BY <2>1, <2>4, <2>5, <2>6
<1> HIDE DEF v, acks
<1> QED
  BY <1>1, <1>4, <1>5, BeginSave, OtherTools DEF ToolsInv

LEMMA ListStep ==
  ASSUME ToolsInv, NEW p \in Shells, KeyringNew(p) \/ RssAdd(p)
  PROVE  ToolsInv'
BY EnterStep DEF KeyringNew, RssAdd

-----------------------------------------------------------------------------
(* swarm-fs                                                                *)

Tree == [Names -> Names \cup {None}]

(* A new tree, with what its command will have entered.                    *)
LEMMA TreeSaved ==
  ASSUME ToolsInv, NEW p \in Shells, NEW tree, NEW acks, tool = "fs", tree \in Tree,
         Begin(p, [at |-> "save", new |-> tree, acks |-> acks]), UNCHANGED <<dir, node>>,
         \/ acks = {}
         \/ Strict /\ (acked \subseteq Staged(file.value) => acks \subseteq Staged(tree))
  PROVE  ToolsInv'
<1>1. Fits(tool, tree) /\ Backed(tool, node, tree)
  BY DEF Fits, Backed, Tree
<1>2. ASSUME Starts(p), Quiet' PROVE acks \subseteq ItemsOf(tool, tree)
  <2>1. acked # {} => Strict /\ acked \subseteq ItemsOf(tool, file.value)
    BY <1>2, FreshStart
  <2>2. \A v : ItemsOf(tool, v) = Staged(v)
    BY DEF ItemsOf
  <2> QED
    BY <2>1, <2>2
<1>3. UNCHANGED tool
  BY DEF Begin
<1> QED
  BY <1>1, <1>2, <1>3, BeginSave, OtherTools DEF ToolsInv

LEMMA InStaged ==
  ASSUME NEW tree, NEW n \in Names, tree[n] # None
  PROVE  <<n, tree[n]>> \in Staged(tree)
BY DEF Staged

LEMMA OfStaged ==
  ASSUME NEW tree, NEW a \in Staged(tree)
  PROVE  /\ a[1] \in Names /\ tree[a[1]] # None
         /\ a = <<a[1], tree[a[1]]>> /\ a[2] = tree[a[1]]
<1>1. PICK n \in Names : tree[n] # None /\ a = <<n, tree[n]>>
  BY DEF Staged
<1> QED
  BY <1>1

(* Entries of one tree are entries of another that agrees with it on them. *)
LEMMA StagedStays ==
  ASSUME NEW tree, NEW more, NEW a \in Staged(tree), more[a[1]] = tree[a[1]]
  PROVE  a \in Staged(more)
BY OfStaged, InStaged

LEMMA FsStep ==
  ASSUME ToolsInv, NEW p \in Shells, FsInit(p) \/ FsAdd(p) \/ FsMv(p) \/ FsRm(p)
  PROVE  ToolsInv'
<1> DEFINE tree == file.value
<1>1. Strict /\ tool = "fs" => tree \in Tree
  BY Readable DEF ToolsInv, Shape, Fits, Tree
<1>2. \A n \in Names : n # None
  BY ConstantsAssumption
<1>3. CASE FsInit(p)
  <2> DEFINE none == [n \in Names |-> None]
  <2>1. none \in Tree
    BY DEF Tree
  <2>2. /\ tool = "fs"
        /\ Begin(p, [at |-> "save", new |-> none, acks |-> {}])
        /\ UNCHANGED <<dir, node>>
    BY <1>3 DEF FsInit
  <2> HIDE DEF none
  <2> QED
    BY <2>1, <2>2, TreeSaved
<1>4. CASE FsAdd(p)
  <2>1. PICK path \in Names, local \in Names :
          FsSave(p, [tree EXCEPT ![path] = local],
                 {a \in acked : a[1] # path} \cup {<<path, local>>})
    BY <1>4 DEF FsAdd
  <2> DEFINE new == [tree EXCEPT ![path] = local]
             acks == {a \in acked : a[1] # path} \cup {<<path, local>>}
  <2>2. Strict /\ tool = "fs"
    BY <1>4 DEF FsAdd
  <2>3. new \in Tree /\ new[path] = local /\ (\A n \in Names \ {path} : new[n] = tree[n])
    BY <1>1, <2>2 DEF Tree
  <2> HIDE DEF tree, new
  <2>4. ASSUME acked \subseteq Staged(tree) PROVE acks \subseteq Staged(new)
    <3>1. <<path, local>> \in Staged(new)
      BY <1>2, <2>3, InStaged
    <3>2. ASSUME NEW a \in acked, a[1] # path PROVE a \in Staged(new)
      BY <2>3, <2>4, <3>2, StagedStays, OfStaged
    <3> QED
      BY <3>1, <3>2
  <2>5. Begin(p, [at |-> "save", new |-> new, acks |-> acks]) /\ UNCHANGED <<dir, node>>
    BY <2>1 DEF FsSave, new, tree
  <2> HIDE DEF acks
  <2> QED
    BY <2>2, <2>3, <2>4, <2>5, TreeSaved DEF tree
<1>5. CASE FsMv(p)
  <2>1. PICK old \in Names, to \in Names :
          /\ tree[old] # None
          /\ FsSave(p, Moved(tree, old, to),
                    {a \in acked : a[1] \notin {old, to}} \cup {<<to, tree[old]>>})
    BY <1>5 DEF FsMv
  <2> DEFINE new == Moved(tree, old, to)
             acks == {a \in acked : a[1] \notin {old, to}} \cup {<<to, tree[old]>>}
  <2>2. Strict /\ tool = "fs"
    BY <1>5 DEF FsMv
  <2>3. /\ new \in Tree /\ new[to] = tree[old]
        /\ \A n \in Names \ {old, to} : new[n] = tree[n]
    BY <1>1, <2>2 DEF Tree, Moved
  <2> HIDE DEF tree, new
  <2>4. ASSUME acked \subseteq Staged(tree) PROVE acks \subseteq Staged(new)
    <3>1. <<to, tree[old]>> \in Staged(new)
      BY <2>1, <2>3, InStaged
    <3>2. ASSUME NEW a \in acked, a[1] \notin {old, to} PROVE a \in Staged(new)
      BY <2>3, <2>4, <3>2, StagedStays, OfStaged
    <3> QED
      BY <3>1, <3>2
  <2>5. Begin(p, [at |-> "save", new |-> new, acks |-> acks]) /\ UNCHANGED <<dir, node>>
    BY <2>1 DEF FsSave, new, tree
  <2> HIDE DEF acks
  <2> QED
    BY <2>2, <2>3, <2>4, <2>5, TreeSaved DEF tree
<1>6. CASE FsRm(p)
  <2>1. PICK path \in Names :
          FsSave(p, [tree EXCEPT ![path] = None], {a \in acked : a[1] # path})
    BY <1>6 DEF FsRm
  <2> DEFINE new == [tree EXCEPT ![path] = None]
             acks == {a \in acked : a[1] # path}
  <2>2. Strict /\ tool = "fs"
    BY <1>6 DEF FsRm
  <2>3. new \in Tree /\ (\A n \in Names \ {path} : new[n] = tree[n])
    BY <1>1, <2>2 DEF Tree
  <2> HIDE DEF tree, new
  <2>4. ASSUME acked \subseteq Staged(tree) PROVE acks \subseteq Staged(new)
    <3>1. ASSUME NEW a \in acked, a[1] # path PROVE a \in Staged(new)
      BY <2>3, <2>4, <3>1, StagedStays, OfStaged
    <3> QED
      BY <3>1
  <2>5. Begin(p, [at |-> "save", new |-> new, acks |-> acks]) /\ UNCHANGED <<dir, node>>
    BY <2>1 DEF FsSave, new, tree
  <2> HIDE DEF acks
  <2> QED
    BY <2>2, <2>3, <2>4, <2>5, TreeSaved DEF tree
<1> QED
  BY <1>3, <1>4, <1>5, <1>6

(* The node grows and nothing else changes.                                *)
LEMMA NodeStep ==
  ASSUME ToolsInv, UNCHANGED <<tool, file, job, dir, acked, disturbed>>,
         NodeFits(tool, node'), Grows(node, node')
  PROVE  Shape' /\ Upheld' /\ Single' /\ Whole' /\ Kept'
<1>1. Shape'
  BY DEF ToolsInv, Shape
<1>2. Upheld'
  BY BackedGrows, JobBackedGrows DEF ToolsInv, Upheld, Strict
<1>3. Single' /\ Whole' /\ Kept'
  BY DEF ToolsInv, Single, Whole, Kept, Strict
<1> QED
  BY <1>1, <1>2, <1>3

LEMMA FsPublishStep ==
  ASSUME ToolsInv, NEW p \in Shells, FsPublish(p)
  PROVE  ToolsInv'
<1>1. /\ tool = "fs"
      /\ UNCHANGED <<tool, file, job, dir, acked, disturbed>>
  BY DEF FsPublish
<1>2. PICK more : node' = [node EXCEPT !.served = @ \cup more]
  BY DEF FsPublish
<1>3. /\ node' = [stored |-> node.stored, feed |-> node.feed, served |-> node.served \cup more,
                  late |-> node.late, lists |-> node.lists, issued |-> node.issued]
  BY <1>2 DEF ToolsInv, Shape, NodeFits
<1>4. NodeFits(tool, node') /\ Grows(node, node')
  BY <1>1, <1>3 DEF ToolsInv, Shape, NodeFits, Grows
<1> QED
  BY <1>1, <1>4, NodeStep, OtherTools DEF ToolsInv

-----------------------------------------------------------------------------
(* swarm-share                                                             *)

(* The command in shell p goes on to the stage j.                          *)
LEMMA GoesOn ==
  ASSUME ToolsInv, NEW p \in Shells, NEW j,
         UNCHANGED <<tool, file, commands, dir, acked, disturbed>>,
         job' = [job EXCEPT ![p] = j],
         job[p].at \notin {"idle", "write"}, j.at # "write",
         NodeFits(tool, node'), Grows(node, node'),
         JobFits(tool, j), JobBacked(tool, node', j),
         Quiet => JobKeeps(tool, acked, j)
  PROVE  Shape' /\ Upheld' /\ Single' /\ Whole' /\ Kept'
<1>1. job[p] # Idle
  BY IdleJob
<1>2. disturbed \subseteq disturbed' /\ (Quiet' => Quiet)
  BY DEF Quiet
<1> QED
  BY <1>1, <1>2, JobChanges

(* A command begins with the stage j.                                      *)
LEMMA Begins ==
  ASSUME ToolsInv, NEW p \in Shells, NEW j, Begin(p, j), UNCHANGED dir, j.at # "write",
         NodeFits(tool, node'), Grows(node, node'),
         JobFits(tool, j), JobBacked(tool, node', j),
         Starts(p) /\ Quiet' => JobKeeps(tool, acked, j)
  PROVE  /\ Shape' /\ Upheld' /\ Single' /\ Whole' /\ Kept'
         /\ tool' = tool
<1>1. /\ Starts(p)
      /\ job' = [job EXCEPT ![p] = j]
      /\ UNCHANGED <<tool, file, acked>>
  BY DEF Begin, Starts
<1>2. job[p].at # "write"
  BY <1>1, IdleJob DEF Starts
<1> QED
  BY <1>1, <1>2, JobChanges

LEMMA RowsRead ==
  ASSUME ToolsInv, tool = "share"
  PROVE  Lenient(<<>>) \in Seq(Row) /\ Backed(tool, node, Lenient(<<>>))
<1>1. CASE Strict
  BY <1>1, Readable DEF Lenient, Strict, ToolsInv, Shape, Upheld, Fits
<1>2. CASE ~ Strict
  <2>1. Lenient(<<>>) = <<>>
    BY <1>2 DEF Lenient, Strict
  <2>2. <<>> \in Seq(Row) /\ DOMAIN <<>> = {}
    BY EmptySeq
  <2> QED
    BY <2>1, <2>2 DEF Backed
<1> QED
  BY <1>1, <1>2

(* A list is created; files may be uploaded.                               *)
LEMMA ListAdded ==
  ASSUME ToolsInv, NEW keys \in SUBSET Contents, tool' = tool,
         node' = [stored |-> node'.stored, feed |-> node.feed, served |-> node.served,
                  late |-> node.late, lists |-> Append(node.lists, keys), issued |-> node.issued],
         node.stored \subseteq node'.stored
  PROVE  /\ NodeFits(tool, node') /\ Grows(node, node')
         /\ Len(node.lists) + 1 \in DOMAIN node'.lists /\ Len(node.lists) \in Nat
         /\ node'.lists[Len(node.lists) + 1] = keys
<1>1. node.lists \in Seq(SUBSET Contents)
  BY DEF ToolsInv, Shape, NodeFits
<1> DEFINE n == Len(node.lists)
           lists == Append(node.lists, keys)
<1>2. /\ lists \in Seq(SUBSET Contents)
      /\ n \in Nat /\ DOMAIN node.lists = 1..n /\ DOMAIN lists = 1..(n + 1)
      /\ \A i \in 1..n : lists[i] = node.lists[i]
      /\ lists[n + 1] = keys
  BY <1>1, AppendProperties, LenProperties
<1> HIDE DEF lists
<1>3. /\ node'.lists = lists
      /\ node'.served = node.served /\ node'.feed = node.feed /\ node'.late = node.late
      /\ node'.issued = node.issued
      /\ node' = [stored |-> node'.stored, feed |-> node'.feed, served |-> node'.served,
                  late |-> node'.late, lists |-> node'.lists, issued |-> node'.issued]
  BY DEF lists
<1>4. NodeFits(tool, node')
  BY <1>2, <1>3 DEF NodeFits, ToolsInv, Shape
<1>5. Grows(node, node')
  BY <1>2, <1>3 DEF Grows
<1> QED
  BY <1>2, <1>3, <1>4, <1>5

LEMMA ShareNewStep ==
  ASSUME ToolsInv, NEW p \in Shells, ShareNew(p)
  PROVE  ToolsInv'
<1>1. PICK f \in Contents, keys \in SUBSET Contents \ {{}} :
        /\ Begin(p, [at |-> "granted", file |-> f, list |-> Len(node.lists) + 1, keys |-> keys])
        /\ node' = [node EXCEPT !.stored = @ \cup {f}, !.lists = Append(@, keys)]
  BY DEF ShareNew
<1>2. tool = "share" /\ UNCHANGED <<tool, dir>>
  BY <1>1 DEF ShareNew, Begin
<1>3. /\ node' = [stored |-> node'.stored, feed |-> node.feed, served |-> node.served,
                  late |-> node.late, lists |-> Append(node.lists, keys), issued |-> node.issued]
      /\ node'.stored = node.stored \cup {f}
  BY <1>1 DEF ToolsInv, Shape, NodeFits
<1>4. /\ NodeFits(tool, node') /\ Grows(node, node')
      /\ Len(node.lists) + 1 \in DOMAIN node'.lists /\ Len(node.lists) \in Nat
      /\ node'.lists[Len(node.lists) + 1] = keys
  BY <1>2, <1>3, ListAdded
<1> DEFINE j == [at |-> "granted", file |-> f, list |-> Len(node.lists) + 1, keys |-> keys]
<1>5. /\ j.at = "granted" /\ j.file = f /\ j.list = Len(node.lists) + 1 /\ j.keys = keys
      /\ j \in [at : {"granted"}, file : Contents, list : Nat, keys : SUBSET Contents]
  BY <1>4
<1>6. Begin(p, j)
  BY <1>1
<1> HIDE DEF j
<1>7. JobFits(tool, j) /\ JobBacked(tool, node', j) /\ JobKeeps(tool, acked, j)
  BY <1>2, <1>3, <1>4, <1>5 DEF JobFits, Granted, JobBacked, JobKeeps
<1> QED
  BY <1>2, <1>4, <1>5, <1>6, <1>7, Begins, OtherTools DEF ToolsInv

LEMMA ShareRecordStep ==
  ASSUME ToolsInv, NEW p \in Shells, ShareRecord(p)
  PROVE  ToolsInv'
<1> DEFINE g == job[p]
           rows == Lenient(<<>>)
           row(id) == [id |-> id, file |-> g.file, list |-> g.list, keys |-> g.keys]
           acks == acked \cup {g.file}
<1>1. g.at = "granted"
  BY DEF ShareRecord
<1>2. Granted(tool, g) /\ JobBacked(tool, node, g)
  BY <1>1, Stages DEF ToolsInv, Shape, Upheld
<1>3. PICK id \in Names :
        job' = [job EXCEPT ![p] = [at |-> "save", new |-> Append(rows, row(id)), acks |-> acks]]
  BY DEF ShareRecord
<1>4. /\ tool = "share"
      /\ UNCHANGED <<tool, file, commands, dir, node, acked, disturbed>>
  BY <1>2 DEF ShareRecord, Granted
<1> DEFINE e == row(id)
           new == Append(rows, e)
<1>5. e \in Row /\ e.file = g.file /\ e.list = g.list /\ e.keys = g.keys
  BY <1>2 DEF Granted, Row
<1>6. rows \in Seq(Row) /\ Backed(tool, node, rows)
  BY <1>4, RowsRead
<1> HIDE DEF e, rows
<1>7. /\ new \in Seq(Row) /\ Len(rows) \in Nat
      /\ DOMAIN rows = 1..Len(rows) /\ DOMAIN new = 1..(Len(rows) + 1)
      /\ \A i \in 1..Len(rows) : new[i] = rows[i]
      /\ new[Len(rows) + 1] = e
  BY <1>5, <1>6, AppendProperties, LenProperties
<1> HIDE DEF new
<1>8. Fits(tool, new)
  BY <1>4, <1>7 DEF Fits
<1>9. Backed(tool, node, new)
  BY <1>1, <1>2, <1>4, <1>5, <1>6, <1>7 DEF Backed, JobBacked
<1>10. ASSUME Quiet PROVE acks \subseteq ItemsOf(tool, new)
  <2>1. \A v : ItemsOf(tool, v) = {v[i].file : i \in DOMAIN v}
    BY <1>4 DEF ItemsOf
  <2>2. file # Torn
    <3>1. \A q \in Shells : job[q].at # "write"
      BY <1>1, <1>10, IdleJob DEF ToolsInv, Single, Quiet
    <3> QED
      BY <1>4, <1>10, <3>1 DEF ToolsInv, Whole, Quiet
  <2>3. acked # {} => acked \subseteq ItemsOf(tool, rows)
    BY <1>10, <2>2 DEF ToolsInv, Kept, Quiet, rows, Lenient, Strict
  <2>4. {rows[i].file : i \in DOMAIN rows} \subseteq {new[i].file : i \in DOMAIN new}
    BY <1>7
  <2>5. g.file \in {new[i].file : i \in DOMAIN new}
    BY <1>5, <1>7
  <2> QED
    BY <2>1, <2>3, <2>4, <2>5
<1> DEFINE j == [at |-> "save", new |-> new, acks |-> acks]
<1>11. /\ j.at = "save" /\ JobFits(tool, j) /\ JobBacked(tool, node, j)
       /\ acks \subseteq ItemsOf(tool, new) => JobKeeps(tool, acked, j)
  BY <1>8, <1>9, SaveJob
<1>12. job' = [job EXCEPT ![p] = j]
  BY <1>3 DEF new, e, rows
<1> HIDE DEF j, acks
<1>13. NodeFits(tool, node') /\ Grows(node, node') /\ JobBacked(tool, node', j)
  BY <1>4, <1>11, NodeStays
<1>14. job[p].at \notin {"idle", "write"} /\ j.at # "write"
  BY <1>1, <1>11
<1> QED
  BY <1>4, <1>10, <1>11, <1>12, <1>13, <1>14, GoesOn, OtherTools DEF ToolsInv

LEMMA ShareRevokeStep ==
  ASSUME ToolsInv, NEW p \in Shells, ShareRevoke(p)
  PROVE  ToolsInv'
<1> DEFINE rows == Lenient(<<>>)
<1>1. PICK i \in DOMAIN rows, keys \in SUBSET Contents \ {{}} :
        Begin(p, [at |-> "patch", rows |-> rows, row |-> i, keys |-> keys])
  BY DEF ShareRevoke
<1>2. tool = "share" /\ UNCHANGED <<tool, dir, node>>
  BY <1>1 DEF ShareRevoke, Begin
<1>3. rows \in Seq(Row) /\ Backed(tool, node, rows)
  BY <1>2, RowsRead
<1> DEFINE j == [at |-> "patch", rows |-> rows, row |-> i, keys |-> keys]
<1>4. /\ j.at = "patch" /\ j.rows = rows /\ j.row = i
      /\ j = [at |-> "patch", rows |-> j.rows, row |-> j.row, keys |-> j.keys]
  OBVIOUS
<1>5. Begin(p, j)
  BY <1>1
<1> HIDE DEF j
<1>6. JobFits(tool, j) /\ JobBacked(tool, node, j)
  BY <1>2, <1>3, <1>4 DEF JobFits, Patching, JobBacked
<1>7. ASSUME Starts(p), Quiet' PROVE JobKeeps(tool, acked, j)
  <2>1. acked # {} => Strict /\ acked \subseteq ItemsOf(tool, file.value)
    BY <1>2, <1>7, FreshStart
  <2>2. acked \subseteq ItemsOf(tool, rows)
    BY <2>1 DEF Lenient, Strict
  <2> QED
    BY <1>4, <2>2 DEF JobKeeps
<1>8. NodeFits(tool, node') /\ Grows(node, node') /\ JobBacked(tool, node', j)
  BY <1>2, <1>6, NodeStays
<1> QED
  BY <1>2, <1>4, <1>5, <1>6, <1>7, <1>8, Begins, OtherTools DEF ToolsInv

(* A patch makes a new list, and the row refers to it.                     *)
LEMMA SharePatchStep ==
  ASSUME ToolsInv, NEW p \in Shells, SharePatch(p)
  PROVE  ToolsInv'
<1> DEFINE g == job[p]
           rows == g.rows
           r == g.row
           list == node.lists[rows[r].list] \ g.keys
           n == Len(node.lists) + 1
           new == [rows EXCEPT ![r] = Patched(@, n, g.keys)]
<1>1. g.at = "patch"
  BY DEF SharePatch
<1>2. Patching(tool, g) /\ JobBacked(tool, node, g)
  BY <1>1, Stages DEF ToolsInv, Shape, Upheld
<1>3. /\ node' = [node EXCEPT !.lists = Append(@, list)]
      /\ job' = [job EXCEPT ![p] = [at |-> "save", acks |-> acked, new |-> new]]
      /\ UNCHANGED <<tool, file, commands, dir, acked, disturbed>>
  BY DEF SharePatch
<1>4. tool = "share"
  BY <1>2 DEF Patching
<1>5. rows \in Seq(Row) /\ r \in DOMAIN rows /\ Backed(tool, node, rows)
  BY <1>1, <1>2 DEF Patching, JobBacked
<1>6. rows[r] \in Row
  BY <1>5, ElementOfSeq, LenProperties
<1>7. rows[r].list \in DOMAIN node.lists /\ rows[r].keys = node.lists[rows[r].list]
  BY <1>4, <1>5 DEF Backed
<1>8. list \in SUBSET Contents /\ list = rows[r].keys \ g.keys
  BY <1>6, <1>7 DEF Row
<1>9. /\ node' = [stored |-> node'.stored, feed |-> node.feed, served |-> node.served,
                  late |-> node.late, lists |-> Append(node.lists, list), issued |-> node.issued]
      /\ node'.stored = node.stored
  BY <1>3 DEF ToolsInv, Shape, NodeFits
<1> HIDE DEF list
<1>10. /\ NodeFits(tool, node') /\ Grows(node, node')
       /\ n \in DOMAIN node'.lists /\ n \in Nat
       /\ node'.lists[n] = list
  <2>1. tool' = tool /\ node.stored \subseteq node'.stored /\ list \in SUBSET Contents
    BY <1>3, <1>8, <1>9
  <2>2. node' = [stored |-> node'.stored, feed |-> node.feed, served |-> node.served,
                 late |-> node.late, lists |-> Append(node.lists, list), issued |-> node.issued]
    BY <1>9
  <2> QED
    BY <2>1, <2>2, ListAdded
<1> DEFINE e == Patched(rows[r], n, g.keys)
<1>11. e \in Row /\ e.file = rows[r].file /\ e.list = n /\ e.keys = rows[r].keys \ g.keys
  BY <1>6, <1>10 DEF Patched, Row
<1> HIDE DEF e
<1>12. /\ new \in Seq(Row) /\ DOMAIN new = DOMAIN rows
       /\ new[r] = e
       /\ \A i \in DOMAIN rows \ {r} : new[i] = rows[i]
  <2>1. new = [rows EXCEPT ![r] = e]
    BY DEF e
  <2>2. [rows EXCEPT ![r] = e] \in Seq(Row)
    BY <1>5, <1>11, ExceptSeq, LenProperties
  <2>3. DOMAIN rows = 1..Len(rows) /\ rows \in [1..Len(rows) -> Row]
    BY <1>5, LenProperties
  <2> HIDE DEF new, rows
  <2> QED
    BY <1>5, <2>1, <2>2, <2>3
<1> HIDE DEF new
<1>13. Fits(tool, new)
  BY <1>4, <1>12 DEF Fits
<1>14. Backed(tool, node', new)
  <2>1. Backed(tool, node', rows)
    BY <1>5, <1>10, BackedGrows
  <2> HIDE DEF rows, n, r
  <2>2. ASSUME NEW i \in DOMAIN new
        PROVE  /\ new[i].file \in node'.stored
               /\ new[i].list \in DOMAIN node'.lists
               /\ new[i].keys = node'.lists[new[i].list]
    <3>1. CASE i = r
      BY <1>4, <1>5, <1>8, <1>10, <1>11, <1>12, <2>1, <3>1 DEF Backed
    <3>2. CASE i # r
      BY <1>4, <1>12, <2>1, <3>2 DEF Backed
    <3> QED
      BY <3>1, <3>2
  <2> QED
    BY <1>4, <2>2 DEF Backed
<1>15. ASSUME Quiet PROVE acked \subseteq ItemsOf(tool, new)
  <2>1. \A v : ItemsOf(tool, v) = {v[i].file : i \in DOMAIN v}
    BY <1>4 DEF ItemsOf
  <2>2. acked \subseteq ItemsOf(tool, rows)
    BY <1>1, <1>15 DEF ToolsInv, Kept, Quiet, JobKeeps
  <2>3. \A i \in DOMAIN rows : new[i].file = rows[i].file
    BY <1>11, <1>12
  <2> QED
    BY <1>12, <2>1, <2>2, <2>3
<1> DEFINE j == [at |-> "save", acks |-> acked, new |-> new]
<1>16. /\ j.at = "save" /\ JobFits(tool, j) /\ JobBacked(tool, node', j)
       /\ acked \subseteq ItemsOf(tool, new) => JobKeeps(tool, acked, j)
  BY <1>13, <1>14, SaveJob
<1>17. job' = [job EXCEPT ![p] = j]
  BY <1>3 DEF new
<1> HIDE DEF j
<1>18. job[p].at \notin {"idle", "write"} /\ j.at # "write"
  BY <1>1, <1>16
<1> QED
  BY <1>3, <1>4, <1>10, <1>15, <1>16, <1>17, <1>18, GoesOn, OtherTools DEF ToolsInv

LEMMA ShareStep ==
  ASSUME ToolsInv, NEW p \in Shells, ShareNext(p)
  PROVE  ToolsInv'
BY ShareNewStep, ShareRecordStep, ShareRevokeStep, SharePatchStep DEF ShareNext

-----------------------------------------------------------------------------
(* swarm-pinner                                                            *)

LEMMA PinnedForm ==
  ASSUME NEW st \in Pinned
  PROVE  /\ st = [ref |-> st.ref, ok |-> st.ok]
         /\ st.ok \subseteq Names
         /\ DOMAIN st.ref \subseteq Names
         /\ st.ref \in [DOMAIN st.ref -> Contents]
<1>1. st = [ref |-> st.ref, ok |-> st.ok] /\ st.ok \subseteq Names
      /\ st.ref \in UNION {[D -> Contents] : D \in SUBSET Names}
  BY DEF Pinned
<1>2. PICK D \in SUBSET Names : st.ref \in [D -> Contents]
  BY <1>1
<1> QED
  BY <1>1, <1>2

LEMMA FormPinned ==
  ASSUME NEW D \in SUBSET Names, NEW ref \in [D -> Contents], NEW ok \in SUBSET Names
  PROVE  [ref |-> ref, ok |-> ok] \in Pinned
BY DEF Pinned

LEMMA PinsRead ==
  ASSUME ToolsInv, tool = "pinner"
  PROVE  Lenient(NothingPinned) \in Pinned /\ Backed(tool, node, Lenient(NothingPinned))
<1>1. CASE Strict
  BY <1>1, Readable DEF Lenient, Strict, ToolsInv, Shape, Upheld, Fits
<1>2. CASE ~ Strict
  <2> DEFINE none == [n \in {} |-> None]
  <2>1. none \in [{} -> Contents] /\ DOMAIN none = {}
    OBVIOUS
  <2>2. Lenient(NothingPinned) = [ref |-> none, ok |-> {}]
    BY <1>2 DEF Lenient, Strict, NothingPinned
  <2> HIDE DEF none
  <2>3. [ref |-> none, ok |-> {}] \in Pinned
    BY <2>1, FormPinned
  <2> QED
    BY <2>1, <2>2, <2>3 DEF Backed
<1> QED
  BY <1>1, <1>2

LEMMA PinnerPassStep ==
  ASSUME ToolsInv, NEW p \in Shells, PinnerPass(p)
  PROVE  ToolsInv'
<1> DEFINE st == Lenient(NothingPinned)
           j == [at |-> "upload", st |-> st, todo |-> NotPinned(st)]
<1>1. Begin(p, j) /\ tool = "pinner" /\ UNCHANGED <<tool, dir, node>>
  BY DEF PinnerPass, Begin
<1>2. st \in Pinned /\ Backed(tool, node, st)
  BY <1>1, PinsRead
<1>3. NotPinned(st) \subseteq Names \ DOMAIN st.ref
  BY DEF NotPinned, Files
<1>4. /\ j.at = "upload" /\ j.st = st /\ j.todo = NotPinned(st)
      /\ j = [at |-> "upload", st |-> j.st, todo |-> j.todo]
  OBVIOUS
<1> HIDE DEF j
<1>5. JobFits(tool, j) /\ JobBacked(tool, node, j)
  BY <1>1, <1>2, <1>3, <1>4 DEF JobFits, Uploading, JobBacked
<1>6. ASSUME Starts(p), Quiet' PROVE JobKeeps(tool, acked, j)
  <2>1. acked # {} => Strict /\ acked \subseteq ItemsOf(tool, file.value)
    BY <1>1, <1>6, FreshStart
  <2>2. acked \subseteq ItemsOf(tool, st)
    BY <2>1 DEF Lenient, Strict
  <2> QED
    BY <1>4, <2>2 DEF JobKeeps
<1>7. NodeFits(tool, node') /\ Grows(node, node') /\ JobBacked(tool, node', j)
  BY <1>1, <1>5, NodeStays
<1> QED
  BY <1>1, <1>4, <1>5, <1>6, <1>7, Begins, OtherTools DEF ToolsInv

LEMMA PinnerUploadStep ==
  ASSUME ToolsInv, NEW p \in Shells, PinnerUpload(p)
  PROVE  ToolsInv'
<1> DEFINE g == job[p]
           n == CHOOSE m \in g.todo : \A k \in g.todo : m <= k
           ref == [m \in DOMAIN g.st.ref \cup {n} |-> IF m = n THEN dir[n] ELSE g.st.ref[m]]
           ok == g.st.ok \cup {n}
           st == [ref |-> ref, ok |-> ok]
           j == [at |-> "upload", st |-> st, todo |-> g.todo \ {n}]
<1>1. /\ g.at = "upload" /\ tool = "pinner" /\ g.todo # {}
      /\ dir[n] # None
      /\ node' = [node EXCEPT !.stored = @ \cup {dir[n]}]
      /\ job' = [job EXCEPT ![p] = j]
      /\ UNCHANGED <<tool, file, commands, dir, acked, disturbed>>
  BY DEF PinnerUpload
<1>2. Uploading(tool, g) /\ JobBacked(tool, node, g)
  BY <1>1, Stages DEF ToolsInv, Shape, Upheld
<1>3. /\ g.st \in Pinned /\ g.todo \subseteq Names \ DOMAIN g.st.ref
      /\ g = [at |-> "upload", st |-> g.st, todo |-> g.todo]
      /\ Backed(tool, node, g.st)
  BY <1>1, <1>2 DEF Uploading, JobBacked
<1>4. n \in g.todo
  BY <1>1, <1>3, ConstantsAssumption, ChosenLeast
<1>5. n \in Names /\ n \notin DOMAIN g.st.ref /\ dir[n] \in Contents
  BY <1>1, <1>3, <1>4 DEF ToolsInv, Shape
<1> HIDE DEF n
<1>7. /\ DOMAIN g.st.ref \subseteq Names /\ g.st.ok \subseteq Names
      /\ g.st.ref \in [DOMAIN g.st.ref -> Contents]
  BY <1>3, PinnedForm
<1>8. /\ DOMAIN ref = DOMAIN g.st.ref \cup {n}
      /\ ref \in [DOMAIN g.st.ref \cup {n} -> Contents]
      /\ ref[n] = dir[n]
      /\ \A m \in DOMAIN g.st.ref : ref[m] = g.st.ref[m]
  BY <1>5, <1>7
<1> HIDE DEF ref
<1>9. st \in Pinned
  BY <1>5, <1>7, <1>8, FormPinned
<1>10. st.ref = ref
  OBVIOUS
<1> HIDE DEF st
<1>11. /\ j.at = "upload" /\ j.st = st /\ j.todo = g.todo \ {n}
       /\ j = [at |-> "upload", st |-> j.st, todo |-> j.todo]
  OBVIOUS
<1> HIDE DEF j
<1>12. JobFits(tool, j)
  BY <1>1, <1>3, <1>8, <1>9, <1>10, <1>11 DEF JobFits, Uploading
<1>13. /\ node' = [stored |-> node'.stored, feed |-> node.feed, served |-> node.served,
                   late |-> node.late, lists |-> node.lists, issued |-> node.issued]
       /\ node'.stored = node.stored \cup {dir[n]}
  BY <1>1 DEF ToolsInv, Shape, NodeFits
<1>14. NodeFits(tool, node') /\ Grows(node, node')
  BY <1>1, <1>13 DEF ToolsInv, Shape, NodeFits, Grows
<1>15. JobBacked(tool, node', j)
  BY <1>1, <1>3, <1>8, <1>10, <1>11, <1>13 DEF JobBacked, Backed
<1>16. ASSUME Quiet PROVE JobKeeps(tool, acked, j)
  <2>1. \A v : ItemsOf(tool, v) = {<<m, v.ref[m]>> : m \in DOMAIN v.ref}
    BY <1>1 DEF ItemsOf
  <2>2. acked \subseteq ItemsOf(tool, g.st)
    BY <1>1, <1>16 DEF ToolsInv, Kept, Quiet, JobKeeps
  <2>3. acked \subseteq ItemsOf(tool, st)
    <3>1. {<<m, g.st.ref[m]>> : m \in DOMAIN g.st.ref} \subseteq
            {<<m, st.ref[m]>> : m \in DOMAIN st.ref}
      BY <1>8, <1>10
    <3> QED
      BY <2>1, <2>2, <3>1
  <2> QED
    BY <1>11, <2>3 DEF JobKeeps
<1>17. job[p].at \notin {"idle", "write"} /\ j.at # "write"
  BY <1>1, <1>11
<1> QED
  BY <1>1, <1>12, <1>14, <1>15, <1>16, <1>17, GoesOn, OtherTools DEF ToolsInv

LEMMA PinnerCheckStep ==
  ASSUME ToolsInv, NEW p \in Shells, PinnerCheck(p)
  PROVE  ToolsInv'
<1> DEFINE st == job[p].st
           acks == acked \cup {<<n, st.ref[n]>> : n \in DOMAIN st.ref}
<1>1. /\ job[p].at = "upload" /\ tool = "pinner"
      /\ UNCHANGED <<tool, file, commands, dir, node, acked, disturbed>>
  BY DEF PinnerCheck
<1>2. PICK ok \in SUBSET DOMAIN st.ref :
        job' = [job EXCEPT ![p] = [at |-> "save", new |-> [st EXCEPT !.ok = ok], acks |-> acks]]
  BY DEF PinnerCheck
<1>3. Uploading(tool, job[p]) /\ JobBacked(tool, node, job[p])
  BY <1>1, Stages DEF ToolsInv, Shape, Upheld
<1>4. st \in Pinned /\ Backed(tool, node, st)
  BY <1>1, <1>3 DEF Uploading, JobBacked
<1>5. /\ st = [ref |-> st.ref, ok |-> st.ok]
      /\ DOMAIN st.ref \subseteq Names
      /\ st.ref \in [DOMAIN st.ref -> Contents]
  BY <1>4, PinnedForm
<1> DEFINE new == [st EXCEPT !.ok = ok]
           j == [at |-> "save", new |-> new, acks |-> acks]
<1>6. job' = [job EXCEPT ![p] = j]
  BY <1>2
<1> HIDE DEF st
<1>7. new = [ref |-> st.ref, ok |-> ok] /\ new.ref = st.ref
  BY <1>5
<1> HIDE DEF new
<1>8. new \in Pinned
  BY <1>5, <1>7, FormPinned
<1>9. Fits(tool, new) /\ Backed(tool, node, new)
  BY <1>1, <1>4, <1>7, <1>8 DEF Fits, Backed
<1>10. ASSUME Quiet PROVE acks \subseteq ItemsOf(tool, new)
  <2>1. \A v : ItemsOf(tool, v) = {<<m, v.ref[m]>> : m \in DOMAIN v.ref}
    BY <1>1 DEF ItemsOf
  <2>2. acked \subseteq ItemsOf(tool, st)
    BY <1>1, <1>10 DEF ToolsInv, Kept, Quiet, JobKeeps, st
  <2> QED
    BY <1>7, <2>1, <2>2
<1>11. /\ j.at = "save" /\ JobFits(tool, j) /\ JobBacked(tool, node, j)
       /\ acks \subseteq ItemsOf(tool, new) => JobKeeps(tool, acked, j)
  BY <1>9, SaveJob
<1> HIDE DEF j, acks
<1>12. NodeFits(tool, node') /\ Grows(node, node') /\ JobBacked(tool, node', j)
  BY <1>1, <1>11, NodeStays
<1>13. job[p].at \notin {"idle", "write"} /\ j.at # "write"
  BY <1>1, <1>11
<1> QED
  BY <1>1, <1>6, <1>10, <1>11, <1>12, <1>13, GoesOn, OtherTools DEF ToolsInv

LEMMA PinnerStep ==
  ASSUME ToolsInv, NEW p \in Shells, PinnerNext(p)
  PROVE  ToolsInv'
BY PinnerPassStep, PinnerUploadStep, PinnerCheckStep DEF PinnerNext

-----------------------------------------------------------------------------
(* The tools with a feed.                                                  *)

LEMMA NotRelay ==
  ASSUME tool' \in {"deploy", "vault", "blog"}
  PROVE  Counting'
BY DEF Counting

LEMMA WithinNothing ==
  ASSUME NEW feed
  PROVE  Within(<<>>, feed)
<1> DEFINE h == [i \in {} |-> 0]
<1>1. DOMAIN <<>> = {} /\ h \in [{} -> DOMAIN feed]
  OBVIOUS
<1> QED
  BY <1>1 DEF Within

LEMMA WithinGrows ==
  ASSUME NEW T, NEW feed \in Seq(T), NEW x \in T, NEW v, Within(v, feed)
  PROVE  Within(v, Append(feed, x))
<1>1. PICK h \in [DOMAIN v -> DOMAIN feed] :
        /\ \A i, k \in DOMAIN v : i < k => h[i] < h[k]
        /\ \A i \in DOMAIN v : v[i] = feed[h[i]]
  BY DEF Within
<1> DEFINE more == Append(feed, x)
<1>2. /\ DOMAIN feed \subseteq DOMAIN more
      /\ \A i \in DOMAIN feed : more[i] = feed[i]
  BY AppendProperties, LenProperties
<1> HIDE DEF more
<1>3. h \in [DOMAIN v -> DOMAIN more] /\ (\A i \in DOMAIN v : v[i] = more[h[i]])
  BY <1>1, <1>2
<1> QED
  BY <1>1, <1>3 DEF Within, more

LEMMA WithinAppend ==
  ASSUME NEW T, NEW feed \in Seq(T), NEW v \in Seq(T), NEW x \in T, Within(v, feed)
  PROVE  Within(Append(v, x), Append(feed, x))
<1>1. PICK h \in [DOMAIN v -> DOMAIN feed] :
        /\ \A i, k \in DOMAIN v : i < k => h[i] < h[k]
        /\ \A i \in DOMAIN v : v[i] = feed[h[i]]
  BY DEF Within
<1> DEFINE more == Append(feed, x)
           w == Append(v, x)
           n == Len(v)
           m == Len(feed)
           g == [i \in DOMAIN w |-> IF i = n + 1 THEN m + 1 ELSE h[i]]
<1>2. /\ n \in Nat /\ m \in Nat
      /\ DOMAIN v = 1..n /\ DOMAIN feed = 1..m
      /\ DOMAIN w = 1..(n + 1) /\ DOMAIN more = 1..(m + 1)
      /\ \A i \in 1..m : more[i] = feed[i]
      /\ \A i \in 1..n : w[i] = v[i]
      /\ more[m + 1] = x /\ w[n + 1] = x
  BY AppendProperties, LenProperties
<1> HIDE DEF more, w, n, m
<1>3. \A i \in 1..n : h[i] \in 1..m
  BY <1>2
<1>4. g \in [DOMAIN w -> DOMAIN more]
  BY <1>2, <1>3
<1>5. \A i, k \in DOMAIN w : i < k => g[i] < g[k]
  BY <1>1, <1>2, <1>3
<1>6. \A i \in DOMAIN w : w[i] = more[g[i]]
  BY <1>1, <1>2, <1>3
<1> HIDE DEF g
<1>7. Within(w, more)
  BY <1>4, <1>5, <1>6 DEF Within
<1> QED
  BY <1>7 DEF w, more

(* The command in shell p goes on, or begins, and the feed follows.        *)
LEMMA FollowJob ==
  ASSUME ToolsInv, NEW p \in Shells, NEW j, j.at # "idle",
         UNCHANGED <<tool, file>>, job' = [job EXCEPT ![p] = j],
         Starts(p) \/ (job[p] # Idle /\ (Clear' => disturbed' = disturbed)),
         tool \in {"deploy", "vault"} /\ Clear /\ Clear' =>
           /\ file = Absent => node'.feed = <<>> /\ node'.late = {}
           /\ disturbed = {} => node'.late = {}
           /\ Strict /\ tool = "deploy" => Within(file.value, node'.feed)
           /\ JobFollows(tool, node', file, disturbed = {}, j)
  PROVE  Following'
<1> SUFFICES ASSUME tool \in {"deploy", "vault"}, Clear'
             PROVE  Following'
  BY DEF Following
<1>1. disturbed' = disturbed /\ Clear /\ "overlap" \notin disturbed
  BY DEF Starts, Clear
<1>2. ASSUME NEW q \in Shells \ {p} PROVE job'[q] = Idle
  <2>1. job'[q] = job[q]
    BY DEF ToolsInv, Shape
  <2>2. CASE Starts(p)
    BY <1>1, <2>1, <2>2 DEF Starts
  <2>3. CASE job[p] # Idle
    BY <1>1, <2>1, <2>3 DEF ToolsInv, Single
  <2> QED
    BY <2>2, <2>3
<1>3. job'[p] = j
  BY DEF ToolsInv, Shape
<1>4. JobFollows(tool, node', file, disturbed = {}, Idle)
  BY DEF JobFollows, Idle
<1>5. \A q \in Shells : JobFollows(tool, node', file, disturbed = {}, job'[q])
  BY <1>1, <1>2, <1>3, <1>4
<1>6. job'[p] # Idle
  BY <1>3, IdleJob
<1> QED
  BY <1>1, <1>5, <1>6 DEF Following, Strict

LEMMA InitialiseStep ==
  ASSUME ToolsInv, NEW p \in Shells, NEW v, Initialise(p, v), Fits(tool, v),
         Backed(tool, node, v), tool \in {"deploy", "vault", "blog"},
         tool = "deploy" => v = <<>>
  PROVE  ToolsInv'
<1> DEFINE j == [at |-> "save", new |-> v, acks |-> {}]
<1>1. /\ Begin(p, j) /\ Starts(p) /\ job' = [job EXCEPT ![p] = j]
      /\ UNCHANGED <<tool, file, dir, node>>
      /\ file = Absent
  BY DEF Initialise, Begin, Starts
<1>2. j.at = "save" /\ j.new = v
  OBVIOUS
<1>3. Shape' /\ Upheld' /\ Single' /\ Whole' /\ Kept'
  BY <1>1, BeginSave
<1> HIDE DEF j
<1>4. ASSUME tool \in {"deploy", "vault"}, Clear
      PROVE  /\ node'.feed = <<>> /\ node'.late = {}
             /\ JobFollows(tool, node', file, disturbed = {}, j)
  <2>1. node'.feed = <<>> /\ node'.late = {}
    BY <1>1, <1>4 DEF ToolsInv, Following
  <2>2. Within(<<>>, node'.feed) /\ Newest(tool, v, node'.feed)
    BY <2>1, WithinNothing DEF Newest
  <2> QED
    BY <1>2, <2>1, <2>2 DEF JobFollows
<1>5. ~ Strict
  BY <1>1, FileStates DEF Strict
<1>6. Following'
  BY <1>1, <1>2, <1>4, <1>5, FollowJob
<1> QED
  BY <1>1, <1>3, <1>6, NotRelay DEF ToolsInv

(* What is uploaded is on the node when the command goes on to its feed.   *)
LEMMA UploadStep ==
  ASSUME ToolsInv, NEW p \in Shells, NEW c, NEW pub, NEW new, NEW acks,
         Upload(p, c, pub, new, acks), tool \in {"deploy", "vault"}, Fits(tool, new),
         tool = "deploy" => pub \in Contents /\ new = Append(file.value, pub),
         tool = "vault" => pub = new,
         tool = "vault" => \A n \in Names : new[n] \in node.stored \cup c \cup {None},
         acked \subseteq ItemsOf(tool, file.value) => acks \subseteq ItemsOf(tool, new)
  PROVE  ToolsInv'
<1> DEFINE j == [at |-> "look", pub |-> pub, new |-> new, acks |-> acks]
<1>1. /\ Strict /\ Begin(p, j) /\ Starts(p) /\ job' = [job EXCEPT ![p] = j]
      /\ node' = [node EXCEPT !.stored = @ \cup c]
      /\ UNCHANGED <<tool, file, dir>>
  BY DEF Upload, Begin, Starts, PublishFirst
<1>2. /\ j.at = "look" /\ j.pub = pub /\ j.new = new /\ j.acks = acks
      /\ j = [at |-> "look", pub |-> j.pub, new |-> j.new, acks |-> j.acks]
  OBVIOUS
<1> HIDE DEF j
<1>3. /\ node' = [stored |-> node'.stored, feed |-> node.feed, served |-> node.served,
                  late |-> node.late, lists |-> node.lists, issued |-> node.issued]
      /\ node'.stored = node.stored \cup c
  BY <1>1 DEF ToolsInv, Shape, NodeFits
<1>4. NodeFits(tool, node') /\ Grows(node, node') /\ node'.feed = node.feed
      /\ node'.served = node.served /\ node'.late = node.late
  BY <1>3 DEF ToolsInv, Shape, NodeFits, Grows
<1>5. JobFits(tool, j)
  BY <1>2 DEF JobFits, Looking
<1>6. JobBacked(tool, node', j)
  <2>1. CASE tool = "deploy"
    <3>1. file.value \in Seq(Contents) /\ Backed(tool, node, file.value)
      BY <1>1, <2>1, Readable DEF ToolsInv, Shape, Upheld, Fits
    <3>2. \A i \in DOMAIN new : new[i] \in node'.served \cup {pub}
      <4>1. /\ DOMAIN file.value = 1..Len(file.value) /\ Len(file.value) \in Nat
            /\ DOMAIN new = 1..(Len(file.value) + 1)
            /\ \A i \in 1..Len(file.value) : new[i] = file.value[i]
            /\ new[Len(file.value) + 1] = pub
        BY <2>1, <3>1, AppendProperties, LenProperties
      <4>2. \A i \in DOMAIN file.value : file.value[i] \in node.served
        BY <2>1, <3>1 DEF Backed
      <4> QED
        BY <1>4, <4>1, <4>2
    <3> QED
      BY <1>2, <2>1, <3>2 DEF JobBacked
  <2>2. CASE tool = "vault"
    BY <1>2, <1>3, <2>2 DEF JobBacked, Backed
  <2> QED
    BY <2>1, <2>2
<1>7. ASSUME Starts(p), Quiet' PROVE JobKeeps(tool, acked, j)
  <2>1. acked # {} => acked \subseteq ItemsOf(tool, file.value)
    BY <1>7, FreshStart
  <2> QED
    BY <1>2, <2>1 DEF JobKeeps
<1>8. Shape' /\ Upheld' /\ Single' /\ Whole' /\ Kept'
  BY <1>1, <1>2, <1>4, <1>5, <1>6, <1>7, Begins
<1>9. ASSUME Clear
      PROVE  /\ file = Absent => node'.feed = <<>> /\ node'.late = {}
             /\ disturbed = {} => node'.late = {}
             /\ Strict /\ tool = "deploy" => Within(file.value, node'.feed)
             /\ JobFollows(tool, node', file, disturbed = {}, j)
  <2>1. /\ file = Absent => node'.feed = <<>> /\ node'.late = {}
        /\ disturbed = {} => node'.late = {}
        /\ Strict /\ tool = "deploy" => Within(file.value, node'.feed)
    BY <1>4, <1>9 DEF ToolsInv, Following
  <2>2. JobFollows(tool, node', file, disturbed = {}, j)
    BY <1>1, <1>2 DEF JobFollows, Strict
  <2> QED
    BY <2>1, <2>2
<1>10. Following'
  BY <1>1, <1>2, <1>9, FollowJob
<1> QED
  BY <1>1, <1>8, <1>10, NotRelay DEF ToolsInv

LEMMA DeployStep ==
  ASSUME ToolsInv, NEW p \in Shells, DeployNext(p)
  PROVE  ToolsInv'
<1>0. tool = "deploy"
  BY DEF DeployNext, DeployInit, DeployPush, DeployRollback
<1>1. CASE DeployInit(p)
  <2>1. Fits(tool, <<>>) /\ Backed(tool, node, <<>>)
    <3>1. <<>> \in Seq(Contents) /\ DOMAIN <<>> = {}
      BY EmptySeq
    <3> QED
      BY <1>0, <3>1 DEF Fits, Backed
  <2> QED
    BY <1>0, <1>1, <2>1, InitialiseStep DEF DeployInit
<1>2. ASSUME NEW c, NEW site \in Contents, NEW acks,
             acks \subseteq acked \cup {site},
             Upload(p, c, site, Append(file.value, site), acks)
      PROVE  ToolsInv'
  <2> DEFINE v == file.value
             new == Append(v, site)
  <2>1. v \in Seq(Contents)
    BY <1>0, <1>2, Readable DEF Upload, ToolsInv, Shape, Fits
  <2>2. Fits(tool, new)
    BY <1>0, <2>1, AppendProperties DEF Fits
  <2>3. {v[i] : i \in DOMAIN v} \cup {site} \subseteq {new[i] : i \in DOMAIN new}
    <3>1. /\ DOMAIN v = 1..Len(v) /\ Len(v) \in Nat
          /\ DOMAIN new = 1..(Len(v) + 1)
          /\ \A i \in 1..Len(v) : new[i] = v[i]
          /\ new[Len(v) + 1] = site
      BY <2>1, AppendProperties, LenProperties
    <3> HIDE DEF v, new
    <3> QED
      BY <3>1
  <2>4. \A w : ItemsOf(tool, w) = {w[i] : i \in DOMAIN w}
    BY <1>0 DEF ItemsOf
  <2>5. acked \subseteq ItemsOf(tool, v) => acks \subseteq ItemsOf(tool, new)
    BY <1>2, <2>3, <2>4
  <2>6. Upload(p, c, site, new, acks)
    BY <1>2
  <2> QED
    BY <1>0, <2>2, <2>5, <2>6, UploadStep
<1>3. CASE DeployPush(p)
  BY <1>2, <1>3 DEF DeployPush
<1>4. CASE DeployRollback(p)
  <2>1. Strict
    BY <1>4 DEF DeployRollback
  <2>2. file.value \in Seq(Contents)
    BY <1>0, <2>1, Readable DEF ToolsInv, Shape, Fits
  <2>3. PICK i \in DOMAIN file.value :
          Upload(p, {}, file.value[i], Append(file.value, file.value[i]), acked)
    BY <1>4 DEF DeployRollback
  <2>4. file.value[i] \in Contents
    BY <2>2, <2>3, ElementOfSeq, LenProperties
  <2> QED
    BY <1>2, <2>3, <2>4
<1> QED
  BY <1>1, <1>3, <1>4 DEF DeployNext

LEMMA VaultStep ==
  ASSUME ToolsInv, NEW p \in Shells, VaultNext(p)
  PROVE  ToolsInv'
<1>0. tool = "vault"
  BY DEF VaultNext, VaultInit, VaultPut, VaultRm
<1>1. CASE VaultInit(p)
  <2> DEFINE none == [n \in Names |-> None]
  <2>1. Fits(tool, none) /\ Backed(tool, node, none)
    BY <1>0 DEF Fits, Backed
  <2>2. Initialise(p, none)
    BY <1>1 DEF VaultInit
  <2> HIDE DEF none
  <2> QED
    BY <1>0, <2>1, <2>2, InitialiseStep
<1>2. Strict => /\ file.value \in [Names -> Contents \cup {None}]
                /\ \A n \in Names : file.value[n] \in node.stored \cup {None}
  BY <1>0, Readable DEF ToolsInv, Shape, Upheld, Fits, Backed
<1>3. ASSUME NEW n \in Names, NEW x \in Contents \cup {None}, NEW c,
             x \in c \cup {None}, Strict, PublishIndex(p, c, [file.value EXCEPT ![n] = x])
      PROVE  ToolsInv'
  <2> DEFINE new == [file.value EXCEPT ![n] = x]
  <2>1. /\ new \in [Names -> Contents \cup {None}]
        /\ \A k \in Names : new[k] \in node.stored \cup c \cup {None}
    BY <1>2, <1>3
  <2>2. Upload(p, c, new, new, Pairs(new))
    BY <1>3 DEF PublishIndex
  <2> HIDE DEF new
  <2>3. Fits(tool, new) /\ Pairs(new) = ItemsOf(tool, new)
    BY <1>0, <2>1 DEF Fits, ItemsOf
  <2> QED
    BY <1>0, <2>1, <2>2, <2>3, UploadStep
<1>4. CASE VaultPut(p)
  BY <1>3, <1>4 DEF VaultPut
<1>5. CASE VaultRm(p)
  BY <1>3, <1>5 DEF VaultRm
<1> QED
  BY <1>1, <1>4, <1>5 DEF VaultNext

LEMMA LookUpStep ==
  ASSUME ToolsInv, NEW p \in Shells, LookUp(p)
  PROVE  ToolsInv'
<1> DEFINE g == job[p]
<1>1. /\ g.at = "look"
      /\ UNCHANGED <<tool, file, commands, dir, node, acked>>
  BY DEF LookUp
<1>2. PICK seen \in 0..Len(node.feed) :
        /\ job' = [job EXCEPT ![p] = [at |-> "publish", pub |-> g.pub, new |-> g.new,
                                     acks |-> g.acks, index |-> seen]]
        /\ disturbed' = disturbed \cup {e \in {"astray"} : seen < Len(node.feed)}
  BY DEF LookUp, NextIndex
<1> DEFINE j == [at |-> "publish", pub |-> g.pub, new |-> g.new, acks |-> g.acks,
                 index |-> seen]
<1>3. job' = [job EXCEPT ![p] = j]
  BY <1>2
<1>4. Looking(tool, g) /\ JobBacked(tool, node, g)
  BY <1>1, Stages DEF ToolsInv, Shape, Upheld
<1>5. /\ j.at = "publish" /\ j.pub = g.pub /\ j.new = g.new /\ j.acks = g.acks
      /\ j.index = seen
      /\ j = [at |-> "publish", pub |-> j.pub, new |-> j.new, acks |-> j.acks,
              index |-> j.index]
  OBVIOUS
<1> HIDE DEF j
<1>6. tool \in {"deploy", "vault"} => Len(node.feed) \in Nat /\ seen \in Nat
  BY <1>2, LenProperties DEF ToolsInv, Shape, NodeFits
<1>7. JobFits(tool, j)
  BY <1>4, <1>5, <1>6 DEF JobFits, Looking, Publishing
<1>8. disturbed \subseteq disturbed' /\ (Quiet' => Quiet)
  BY <1>2 DEF Quiet
<1>9. Quiet' => JobKeeps(tool, acked, j)
  BY <1>1, <1>5, <1>8 DEF ToolsInv, Kept, Quiet, JobKeeps
<1>10. job[p].at \notin {"idle", "write"} /\ j.at \notin {"idle", "write"} /\ job[p] # Idle
  BY <1>1, <1>5, IdleJob
<1>11. NodeFits(tool, node') /\ Grows(node, node') /\ JobBacked(tool, node', j)
  <2>1. JobBacked(tool, node, j)
    BY <1>1, <1>4, <1>5 DEF JobBacked
  <2> QED
    BY <1>1, <2>1, NodeStays
<1>12. Shape' /\ Upheld' /\ Single' /\ Whole' /\ Kept'
  BY <1>1, <1>3, <1>7, <1>8, <1>9, <1>10, <1>11, JobChanges
<1>13. tool \in {"deploy", "vault"} /\ Clear' =>
         disturbed' = disturbed /\ j.index = Len(node.feed)
  BY <1>2, <1>5, <1>6 DEF Clear
<1>14. ASSUME tool \in {"deploy", "vault"}, Clear, Clear'
       PROVE  /\ file = Absent => node'.feed = <<>> /\ node'.late = {}
              /\ disturbed = {} => node'.late = {}
              /\ Strict /\ tool = "deploy" => Within(file.value, node'.feed)
              /\ JobFollows(tool, node', file, disturbed = {}, j)
  <2>1. JobFollows(tool, node, file, disturbed = {}, g)
    BY <1>14 DEF ToolsInv, Following
  <2>2. JobFollows(tool, node', file, disturbed = {}, j)
    BY <1>1, <1>5, <1>13, <1>14, <2>1 DEF JobFollows
  <2> QED
    BY <1>1, <1>14, <2>2 DEF ToolsInv, Following
<1>15. CASE tool \in {"deploy", "vault"}
  <2>1. Following'
    BY <1>1, <1>3, <1>10, <1>13, <1>14, <1>15, FollowJob
  <2> QED
    BY <1>1, <1>12, <1>15, <2>1, NotRelay DEF ToolsInv
<1>16. CASE tool = "blog"
  BY <1>1, <1>12, <1>16, OtherTools DEF ToolsInv
<1> QED
  BY <1>4, <1>15, <1>16 DEF Looking

LEMMA UpdateWritten ==
  ASSUME NEW T, NEW feed \in Seq(T), NEW x \in T, NEW k \in Nat
  PROVE  [feed EXCEPT ![k + 1] = x] \in Seq(T)
<1>1. feed \in [1..Len(feed) -> T] /\ Len(feed) \in Nat
  BY LenProperties
<1>2. CASE k + 1 \in 1..Len(feed)
  BY <1>2, ExceptSeq
<1>3. CASE k + 1 \notin 1..Len(feed)
  <2>1. [feed EXCEPT ![k + 1] = x] = feed
    BY <1>1, <1>3
  <2> QED
    BY <2>1
<1> QED
  BY <1>2, <1>3

(* The feed keeps the update at the index that it has, or takes pub there. *)
Updated(feed, feed2, pub, index) ==
  \/ feed2 = feed /\ index < Len(feed)
  \/ index = Len(feed) /\ feed2 = Append(feed, pub)
  \/ index # Len(feed) /\ feed2 = [feed EXCEPT ![index + 1] = pub]

(* What an update does to the node, whose requests on their way are then   *)
(* those in late.                                                          *)
LEMMA FeedUpdated ==
  ASSUME ToolsInv, tool' = tool, NEW late \in SUBSET node.late, NEW nd, NEW pub, NEW index,
         Serves(nd, pub, index), SentFits(tool, pub, index),
         nd = [stored |-> node.stored, feed |-> node.feed, served |-> node.served,
               late |-> late, lists |-> node.lists, issued |-> node.issued]
  PROVE  /\ NodeFits(tool, node') /\ Grows(node, node')
         /\ node'.late = late /\ node'.issued = node.issued
         /\ node'.stored = node.stored /\ node'.served = node.served \cup {pub}
         /\ Updated(node.feed, node'.feed, pub, index)
<1> DEFINE feed == IF index = Len(node.feed) THEN Append(node.feed, pub)
                   ELSE [node.feed EXCEPT ![index + 1] = pub]
<1>1. nd.feed = node.feed /\ nd.served = node.served
  OBVIOUS
<1>2. \/ node' = [nd EXCEPT !.served = @ \cup {pub}, !.feed = feed]
      \/ /\ index < Len(node.feed)
         /\ node' = [nd EXCEPT !.served = @ \cup {pub}]
  BY <1>1 DEF Serves
<1> DEFINE updated(f) == [stored |-> node.stored, feed |-> f, served |-> node.served \cup {pub},
                          late |-> late, lists |-> node.lists, issued |-> node.issued]
<1> HIDE DEF feed
<1>3. node' = updated(feed) \/ (node' = updated(node.feed) /\ index < Len(node.feed))
  <2>1. CASE node' = [nd EXCEPT !.served = @ \cup {pub}, !.feed = feed]
    <3>1. node' = updated(feed)
      BY <2>1
    <3> QED
      BY <3>1
  <2>2. CASE node' = [nd EXCEPT !.served = @ \cup {pub}] /\ index < Len(node.feed)
    <3>1. node' = updated(node.feed)
      BY <2>2
    <3> QED
      BY <2>2, <3>1
  <2> QED
    BY <1>2, <2>1, <2>2
<1> DEFINE f == node'.feed
<1>4. /\ node'.stored = node.stored /\ node'.served = node.served \cup {pub}
      /\ node'.lists = node.lists /\ node'.issued = node.issued /\ node'.late = late
      /\ f = feed \/ (f = node.feed /\ index < Len(node.feed))
      /\ node' = [stored |-> node'.stored, feed |-> node'.feed, served |-> node'.served,
                  late |-> node'.late, lists |-> node'.lists, issued |-> node'.issued]
  BY <1>3
<1>5. ASSUME NEW T, node.feed \in Seq(T), pub \in T, index \in Nat
      PROVE  f \in Seq(T)
  <2>1. Append(node.feed, pub) \in Seq(T) /\ [node.feed EXCEPT ![index + 1] = pub] \in Seq(T)
    BY <1>5, AppendProperties, UpdateWritten
  <2> QED
    BY <1>4, <1>5, <2>1 DEF feed
<1>6. NodeFits(tool, node')
  <2>1. tool = "deploy" => f \in Seq(Contents)
    BY <1>5 DEF ToolsInv, Shape, NodeFits, SentFits
  <2>2. tool = "vault" => f \in Seq([Names -> Contents \cup {None}])
    BY <1>5 DEF ToolsInv, Shape, NodeFits, SentFits
  <2> QED
    BY <1>4, <2>1, <2>2 DEF ToolsInv, Shape, NodeFits
<1>7. Grows(node, node')
  BY <1>4 DEF Grows
<1> QED
  BY <1>4, <1>6, <1>7 DEF feed, Updated

LEMMA PublishStep ==
  ASSUME ToolsInv, NEW p \in Shells, Publish(p)
  PROVE  ToolsInv'
<1> DEFINE g == job[p]
           j == [at |-> "save", new |-> g.new, acks |-> g.acks]
           feed == node.feed
<1>1. /\ g.at = "publish"
      /\ job' = [job EXCEPT ![p] = IF tool = "blog" THEN Idle ELSE j]
      /\ UNCHANGED <<tool, file, commands, dir, acked, disturbed>>
  BY DEF Publish
<1>2. Publishing(tool, g) /\ JobBacked(tool, node, g)
  BY <1>1, Stages DEF ToolsInv, Shape, Upheld
<1>3. /\ tool \in {"deploy", "vault", "blog"} /\ Fits(tool, g.new)
      /\ tool = "deploy" => g.pub \in Contents
      /\ tool = "vault" => g.pub = g.new
      /\ tool \in {"deploy", "vault"} => g.index \in Nat
  BY <1>2 DEF Publishing
<1>4. SentFits(tool, g.pub, g.index)
  BY <1>3 DEF SentFits, Fits
<1>5. Serves(node, g.pub, g.index)
  BY DEF Publish
<1>6. node = [stored |-> node.stored, feed |-> node.feed, served |-> node.served,
              late |-> node.late, lists |-> node.lists, issued |-> node.issued]
  BY DEF ToolsInv, Shape, NodeFits
<1> HIDE DEF g, j
<1>7. NodeFits(tool, node')
  BY <1>1, <1>4, <1>5, <1>6, FeedUpdated
<1>8. /\ Grows(node, node') /\ node'.late = node.late
      /\ node'.stored = node.stored /\ node'.served = node.served \cup {g.pub}
      /\ Updated(feed, node'.feed, g.pub, g.index)
  BY <1>1, <1>4, <1>5, <1>6, FeedUpdated
<1> HIDE DEF feed
<1>9. job[p].at \notin {"idle", "write"} /\ job[p] # Idle
  BY <1>1, IdleJob DEF g
<1>10. CASE tool = "blog"
  <2>1. job' = [job EXCEPT ![p] = Idle]
    BY <1>1, <1>10
  <2>2. Shape' /\ Upheld' /\ Single' /\ Whole' /\ Kept'
    BY <1>1, <1>7, <1>8, <1>9, <2>1, IdleJob, GoesOn
  <2> QED
    BY <1>1, <1>10, <2>2, OtherTools DEF ToolsInv
<1>11. CASE tool \in {"deploy", "vault"}
  <2>1. job' = [job EXCEPT ![p] = j]
    BY <1>1, <1>11
  <2>2. Backed(tool, node', g.new)
    <3>1. CASE tool = "deploy"
      BY <1>1, <1>2, <1>8, <3>1 DEF JobBacked, Backed
    <3>2. CASE tool = "vault"
      <4>1. Backed(tool, node, g.new)
        BY <1>1, <1>2, <3>2 DEF JobBacked
      <4> QED
        BY <1>8, <4>1, BackedGrows
    <3> QED
      BY <1>11, <3>1, <3>2
  <2>3. /\ j.at = "save" /\ j.new = g.new /\ j.acks = g.acks
        /\ JobFits(tool, j) /\ JobBacked(tool, node', j)
        /\ g.acks \subseteq ItemsOf(tool, g.new) => JobKeeps(tool, acked, j)
    BY <1>3, <2>2, SaveJob DEF j
  <2>4. Quiet => JobKeeps(tool, acked, j)
    BY <1>1, <2>3 DEF ToolsInv, Kept, Quiet, JobKeeps, g
  <2>5. Shape' /\ Upheld' /\ Single' /\ Whole' /\ Kept'
    BY <1>1, <1>7, <1>8, <1>9, <2>1, <2>3, <2>4, GoesOn
  <2>6. ASSUME Clear
        PROVE  /\ file = Absent => node'.feed = <<>> /\ node'.late = {}
               /\ disturbed = {} => node'.late = {}
               /\ Strict /\ tool = "deploy" => Within(file.value, node'.feed)
               /\ JobFollows(tool, node', file, disturbed = {}, j)
    <3>1. /\ JobFollows(tool, node, file, disturbed = {}, g)
          /\ disturbed = {} => node'.late = {}
      BY <1>8, <1>11, <2>6 DEF ToolsInv, Following, g
    <3>2. /\ Strict /\ g.index = Len(feed)
          /\ tool = "deploy" => g.new = Append(file.value, g.pub)
      BY <1>1, <3>1 DEF JobFollows, Strict, feed
    <3>3. file # Absent
      BY <3>2, FileStates DEF Strict
    <3>4. PICK T : feed \in Seq(T) /\ g.pub \in T /\ (tool = "deploy" => T = Contents)
      BY <1>3, <1>11 DEF ToolsInv, Shape, NodeFits, feed, Fits
    <3>5. Len(feed) \in Nat /\ node'.feed = Append(feed, g.pub)
      BY <1>8, <3>2, <3>4, LenProperties DEF Updated
    <3>6. /\ node'.feed # <<>>
          /\ node'.feed[Len(node'.feed)] = g.pub
      BY <3>4, <3>5, AppendProperties
    <3>7. CASE tool = "deploy"
      <4>1. feed \in Seq(Contents) /\ g.pub \in Contents
        BY <3>4, <3>7
      <4>2. Within(file.value, feed) /\ file.value \in Seq(Contents)
        BY <1>11, <2>6, <3>2, <3>7, Readable DEF ToolsInv, Following, Shape, Fits, feed
      <4>3. Within(file.value, node'.feed) /\ Within(g.new, node'.feed)
        BY <3>2, <3>5, <3>7, <4>1, <4>2, WithinGrows, WithinAppend
      <4>4. g.new # <<>> /\ g.new[Len(g.new)] = g.pub
        BY <3>2, <3>7, <4>1, <4>2, AppendProperties
      <4>5. Newest(tool, g.new, node'.feed)
        BY <3>6, <3>7, <4>4 DEF Newest
      <4> QED
        BY <2>3, <3>1, <3>3, <4>3, <4>5 DEF JobFollows
    <3>8. CASE tool = "vault"
      <4>1. Newest(tool, g.new, node'.feed)
        BY <1>3, <3>6, <3>8 DEF Newest
      <4> QED
        BY <2>3, <3>1, <3>3, <3>8, <4>1 DEF JobFollows
    <3> QED
      BY <1>11, <3>7, <3>8
  <2>7. Following'
    BY <1>1, <1>9, <2>1, <2>3, <2>6, FollowJob
  <2> QED
    BY <1>1, <1>3, <2>5, <2>7, NotRelay DEF ToolsInv
<1> QED
  BY <1>3, <1>10, <1>11

(* An update comes late: it is appended, or written over another.          *)
LEMMA ServeLateStep ==
  ASSUME ToolsInv, ServeLate
  PROVE  ToolsInv'
<1>1. UNCHANGED <<tool, file, job, commands, dir, acked>>
  BY DEF ServeLate
<1>2. PICK r \in node.late :
        /\ Serves([node EXCEPT !.late = @ \ {r}], r.pub, r.index)
        /\ disturbed' = disturbed \cup
             {e \in {"late"} : r.index < Len(node.feed) \/ \E q \in Shells : job[q].at = "publish"}
  BY DEF ServeLate
<1> DEFINE nd == [node EXCEPT !.late = @ \ {r}]
<1>3. nd = [stored |-> node.stored, feed |-> node.feed, served |-> node.served,
            late |-> node.late \ {r}, lists |-> node.lists, issued |-> node.issued]
  <2>1. node = [stored |-> node.stored, feed |-> node.feed, served |-> node.served,
                late |-> node.late, lists |-> node.lists, issued |-> node.issued]
    BY DEF ToolsInv, Shape, NodeFits
  <2> QED
    BY <2>1
<1>4. SentFits(tool, r.pub, r.index)
  BY DEF ToolsInv, Shape, NodeFits
<1>5. Serves(nd, r.pub, r.index)
  BY <1>2
<1> HIDE DEF nd
<1>6. /\ NodeFits(tool, node') /\ Grows(node, node') /\ node'.issued = node.issued
      /\ Updated(node.feed, node'.feed, r.pub, r.index)
  BY <1>1, <1>3, <1>4, <1>5, FeedUpdated
<1>7. disturbed \subseteq disturbed' /\ (Quiet' => Quiet) /\ (Clear' => disturbed' = disturbed)
  BY <1>2 DEF Quiet, Clear
<1>8. Shape' /\ Upheld'
  BY <1>1, <1>6, BackedGrows, JobBackedGrows DEF ToolsInv, Shape, Upheld, Strict
<1>9. Single' /\ Whole' /\ Kept'
  BY <1>1, <1>7 DEF ToolsInv, Single, Whole, Kept, Quiet, Strict
<1>10. Counting'
  <2> SUFFICES ASSUME tool = "relay", disturbed = {} PROVE Counting'
    BY <1>1, <1>7 DEF Counting
  <2>1. \A j : Covers(tool, node, j) => Covers(tool, node', j)
    BY <1>6 DEF Covers
  <2> QED
    BY <1>1, <1>6, <2>1 DEF ToolsInv, Counting, Strict
<1>11. Following'
  <2> SUFFICES ASSUME tool \in {"deploy", "vault"}, Clear' PROVE Following'
    BY <1>1 DEF Following
  <2>1. /\ disturbed' = disturbed /\ Clear
        /\ ~ (r.index < Len(node.feed))
        /\ \A q \in Shells : job[q].at # "publish"
    BY <1>2, <1>7 DEF Clear
  <2>2. /\ file # Absent /\ disturbed # {}
        /\ Strict /\ tool = "deploy" => Within(file.value, node.feed)
        /\ \A q \in Shells : JobFollows(tool, node, file, FALSE, job[q])
    BY <2>1 DEF ToolsInv, Following
  <2>3. PICK T : node.feed \in Seq(T) /\ r.pub \in T
    BY <1>4 DEF ToolsInv, Shape, NodeFits, SentFits
  <2>4. \A v : Within(v, node.feed) => Within(v, node'.feed)
    <3>1. CASE r.index = Len(node.feed)
      BY <1>6, <2>1, <2>3, <3>1, WithinGrows DEF Updated
    <3>2. CASE r.index # Len(node.feed)
      <4>1. Len(node.feed) \in Nat /\ r.index \in Nat
        BY <1>4, <2>3, LenProperties DEF SentFits
      <4>2. DOMAIN node.feed = 1..Len(node.feed) /\ node.feed \in [1..Len(node.feed) -> T]
        BY <2>3, LenProperties
      <4>3. r.index + 1 \notin DOMAIN node.feed
        BY <2>1, <3>2, <4>1, <4>2
      <4>4. node'.feed = [node.feed EXCEPT ![r.index + 1] = r.pub]
        BY <1>6, <2>1, <3>2 DEF Updated
      <4>5. node'.feed = node.feed
        BY <4>2, <4>3, <4>4
      <4> QED
        BY <4>5
    <3> QED
      BY <3>1, <3>2
  <2>5. \A q \in Shells : JobFollows(tool, node', file, FALSE, job[q])
    BY <2>1, <2>2, <2>4 DEF JobFollows
  <2> QED
    BY <1>1, <2>1, <2>2, <2>4, <2>5 DEF Following, Strict
<1> QED
  BY <1>8, <1>9, <1>10, <1>11 DEF ToolsInv

LEMMA BlogStep ==
  ASSUME ToolsInv, NEW p \in Shells, BlogNext(p)
  PROVE  ToolsInv'
<1>0. CASE BlogInit(p)
  BY <1>0, InitialiseStep DEF BlogInit, Fits, Backed
<1>1. CASE BlogNew(p)
  <2>1. PICK n \in Names, c \in Contents : dir' = [dir EXCEPT ![n] = c]
    BY <1>1 DEF BlogNew
  <2>2. dir' \in [Names -> Contents \cup {None}]
    BY <2>1 DEF ToolsInv, Shape
  <2> QED
    BY <1>1, <2>2, DirStep DEF BlogNew
<1>2. CASE BlogPublish(p)
  <2> DEFINE j == [at |-> "posts", posts |-> Posts]
  <2>1. Begin(p, j) /\ tool = "blog" /\ UNCHANGED <<tool, dir, node>>
    BY <1>2 DEF BlogPublish, Begin
  <2>2. j.at = "posts" /\ j.posts = Posts /\ j = [at |-> "posts", posts |-> j.posts]
    OBVIOUS
  <2> HIDE DEF j
  <2>3. JobFits(tool, j)
    BY <2>1, <2>2 DEF JobFits, Collecting
  <2>4. JobBacked(tool, node', j) /\ JobKeeps(tool, acked, j)
    BY <2>2 DEF JobBacked, JobKeeps
  <2>5. NodeFits(tool, node') /\ Grows(node, node')
    BY <2>1, NodeStays
  <2>6. Shape' /\ Upheld' /\ Single' /\ Whole' /\ Kept'
    BY <2>1, <2>2, <2>3, <2>4, <2>5, Begins
  <2> QED
    BY <2>1, <2>6, OtherTools DEF ToolsInv
<1>3. CASE BlogRead(p)
  <2> DEFINE site == [n \in job[p].posts |-> dir[n]]
             j == [at |-> "look", pub |-> site, new |-> None, acks |-> {}]
  <2>1. /\ job[p].at = "posts" /\ job' = [job EXCEPT ![p] = j]
        /\ UNCHANGED <<tool, file, commands, dir, node, acked, disturbed>>
    BY <1>3 DEF BlogRead
  <2>2. tool = "blog"
    BY <2>1, Stages DEF Collecting, ToolsInv, Shape
  <2> HIDE DEF site
  <2>3. /\ j.at = "look" /\ j.acks = {}
        /\ j = [at |-> "look", pub |-> j.pub, new |-> j.new, acks |-> j.acks]
    OBVIOUS
  <2> HIDE DEF j
  <2>4. Fits(tool, j.new)
    BY <2>2 DEF Fits
  <2>5. JobFits(tool, j)
    BY <2>2, <2>3, <2>4 DEF JobFits, Looking
  <2>6. JobBacked(tool, node', j) /\ JobKeeps(tool, acked, j)
    BY <2>2, <2>3 DEF JobBacked, JobKeeps
  <2>7. NodeFits(tool, node') /\ Grows(node, node')
    BY <2>1, NodeStays
  <2>8. Shape' /\ Upheld' /\ Single' /\ Whole' /\ Kept'
    BY <2>1, <2>3, <2>5, <2>6, <2>7, GoesOn
  <2> QED
    BY <2>1, <2>2, <2>8, OtherTools DEF ToolsInv
<1> QED
  BY <1>0, <1>1, <1>2, <1>3 DEF BlogNext

LEMMA FeedToolsStep ==
  ASSUME ToolsInv, NEW p \in Shells, FeedToolsNext(p)
  PROVE  ToolsInv'
BY DeployStep, VaultStep, BlogStep, LookUpStep, PublishStep DEF FeedToolsNext

-----------------------------------------------------------------------------
(* swarm-relay                                                             *)

LEMMA CountType ==
  ASSUME NEW f, NEW b, NEW k \in Nat
  PROVE  /\ IsFiniteSet({i \in 1..k : f[i] = b})
         /\ Cardinality({i \in 1..k : f[i] = b}) \in Nat
<1>1. IsFiniteSet(1..k)
  BY FS_Interval
<1>2. {i \in 1..k : f[i] = b} \subseteq 1..k
  OBVIOUS
<1>3. IsFiniteSet({i \in 1..k : f[i] = b})
  BY <1>1, <1>2, FS_Subset
<1> QED
  BY <1>3, FS_CardinalityType

LEMMA PlusType ==
  ASSUME NEW counts \in [Names -> Nat], NEW f, NEW k \in Nat
  PROVE  /\ Plus(counts, f, k) \in [Names -> Nat]
         /\ \A b \in Names : Plus(counts, f, k)[b] >= counts[b]
<1> DEFINE c(b) == Cardinality({i \in 1..k : f[i] = b})
<1>1. \A b \in Names : c(b) \in Nat
  BY CountType
<1>2. Plus(counts, f, k) = [b \in Names |-> counts[b] + c(b)]
  BY DEF Plus
<1> HIDE DEF c
<1> QED
  BY <1>1, <1>2

LEMMA PlusMonotone ==
  ASSUME NEW low \in [Names -> Nat], NEW high \in [Names -> Nat], NEW f, NEW k \in Nat,
         \A b \in Names : high[b] >= low[b]
  PROVE  \A b \in Names : Plus(high, f, k)[b] >= Plus(low, f, k)[b]
<1> DEFINE c(b) == Cardinality({i \in 1..k : f[i] = b})
<1>1. \A b \in Names : c(b) \in Nat
  BY CountType
<1>2. \A counts : Plus(counts, f, k) = [b \in Names |-> counts[b] + c(b)]
  BY DEF Plus
<1> HIDE DEF c
<1> QED
  BY <1>1, <1>2

(* Stamping stops before a chunk that its bucket has no slot for, so no    *)
(* bucket has more than Slots: its last chunk that was counted fitted.     *)
LEMMA FittingFits ==
  ASSUME NEW counts \in [Names -> Nat], NEW f \in Seq(Names),
         \A b \in Names : counts[b] <= Slots
  PROVE  /\ Fitting(counts, f) \in 0..Len(f)
         /\ \A b \in Names : Plus(counts, f, Fitting(counts, f))[b] <= Slots
<1> DEFINE n == Len(f)
           fits(i) == Plus(counts, f, i)[f[i]] <= Slots
           stops(k) == /\ \A i \in 1..k : fits(i)
                       /\ k < n => Plus(counts, f, k + 1)[f[k + 1]] > Slots
           k == Fitting(counts, f)
<1>1. n \in Nat /\ Slots \in Nat /\ f \in [1..n -> Names]
  BY NodeToolsAssumption, LenProperties
<1>2. \A i \in 1..n : Plus(counts, f, i)[f[i]] \in Nat
  <2>1. ASSUME NEW i \in 1..n PROVE Plus(counts, f, i)[f[i]] \in Nat
    <3>1. Plus(counts, f, i) \in [Names -> Nat]
      BY <1>1, PlusType
    <3> QED
      BY <1>1, <3>1
  <2> QED
    BY <2>1
<1>3. k = CHOOSE m \in 0..n : stops(m)
  BY DEF Fitting
<1>4. \E m \in 0..n : stops(m)
  <2> DEFINE refused == {i \in 1..n : ~ fits(i)}
  <2>1. CASE refused = {}
    <3>1. stops(n)
      BY <1>1, <2>1
    <3> QED
      BY <1>1, <3>1
  <2>2. CASE refused # {}
    <3>1. refused \in SUBSET Nat
      BY <1>1
    <3> HIDE DEF refused
    <3>2. PICK m \in refused : \A i \in refused : m <= i
      BY <2>2, <3>1, LeastNatural
    <3>3. m \in 1..n /\ ~ fits(m)
      BY <3>2 DEF refused
    <3>4. \A i \in 1..(m - 1) : i \in 1..n /\ i \notin refused
      <4>1. ASSUME NEW i \in 1..(m - 1) PROVE i \in 1..n /\ i < m
        BY <1>1, <3>3
      <4> QED
        BY <1>1, <3>2, <3>3, <4>1
    <3>5. \A i \in 1..(m - 1) : fits(i)
      BY <3>4 DEF refused
    <3>6. m - 1 \in 0..n /\ (m - 1) + 1 = m
      BY <1>1, <3>3
    <3> HIDE DEF fits
    <3>7. Plus(counts, f, m)[f[m]] > Slots
      BY <1>1, <1>2, <3>3 DEF fits
    <3>8. Plus(counts, f, (m - 1) + 1)[f[(m - 1) + 1]] > Slots
      BY <3>6, <3>7
    <3> QED
      BY <3>5, <3>6, <3>8
  <2> QED
    BY <2>1, <2>2
<1> HIDE DEF stops
<1>5. k \in 0..n /\ stops(k)
  BY <1>3, <1>4
<1> HIDE DEF k, n
<1>6. ASSUME NEW b \in Names PROVE Plus(counts, f, k)[b] <= Slots
  <2> DEFINE bounds == {m \in 0..k : \A i \in 1..k : f[i] = b => i <= m}
  <2>1. k \in Nat /\ k \in bounds /\ bounds \in SUBSET Nat
    BY <1>1, <1>5
  <2> HIDE DEF bounds
  <2>2. PICK m \in bounds : \A l \in bounds : m <= l
    BY <2>1, LeastNatural
  <2>3. m \in 0..k /\ \A i \in 1..k : f[i] = b => i <= m
    BY <2>2 DEF bounds
  <2>4. {i \in 1..k : f[i] = b} = {i \in 1..m : f[i] = b}
    BY <2>1, <2>3
  <2>5. Plus(counts, f, k)[b] = Plus(counts, f, m)[b]
    BY <2>4 DEF Plus
  <2>6. CASE m = 0
    <3>1. {i \in 1..m : f[i] = b} = {}
      BY <2>6
    <3>2. Cardinality({}) = 0
      BY FS_EmptySet
    <3>3. Plus(counts, f, m)[b] = counts[b] + Cardinality({i \in 1..m : f[i] = b})
      BY DEF Plus
    <3>4. Cardinality({i \in 1..m : f[i] = b}) = 0
      BY <3>1, <3>2
    <3> HIDE DEF bounds
    <3>5. Plus(counts, f, m)[b] = counts[b]
      BY <3>3, <3>4
    <3> QED
      BY <2>5, <3>5
  <2>7. CASE m # 0
    <3>1. m \in 1..k /\ m - 1 \in 0..k
      BY <2>1, <2>3, <2>7
    <3>2. f[m] = b
      <4> SUFFICES ASSUME f[m] # b PROVE FALSE
        OBVIOUS
      <4>1. \A i \in 1..k : f[i] = b => i <= m - 1
        BY <2>1, <2>3, <3>1
      <4>2. m - 1 \in bounds
        BY <3>1, <4>1 DEF bounds
      <4> QED
        BY <2>2, <2>3, <3>1, <4>2
    <3>3. fits(m)
      BY <1>5, <3>1 DEF stops
    <3> QED
      BY <2>5, <3>2, <3>3
  <2> QED
    BY <2>6, <2>7
<1> QED
  BY <1>5, <1>6 DEF k, n

(* The command in shell p goes on, or begins, and its counts cover what    *)
(* the node has stamped.                                                   *)
LEMMA CountJob ==
  ASSUME ToolsInv, NEW p \in Shells, NEW j, j.at # "idle",
         UNCHANGED tool, job' = [job EXCEPT ![p] = j],
         Starts(p) \/ (job[p] # Idle /\ disturbed' = disturbed),
         tool = "relay" /\ disturbed' = {} => Covers(tool, node', j)
  PROVE  Counting'
<1> SUFFICES ASSUME tool = "relay", disturbed' = {}
             PROVE  Counting'
  BY DEF Counting
<1>1. disturbed = {}
  BY DEF Starts
<1>2. ASSUME NEW q \in Shells \ {p} PROVE job'[q] = Idle
  <2>1. job'[q] = job[q]
    BY DEF ToolsInv, Shape
  <2>2. CASE Starts(p)
    BY <2>1, <2>2 DEF Starts
  <2>3. CASE job[p] # Idle
    BY <1>1, <2>1, <2>3 DEF ToolsInv, Single
  <2> QED
    BY <2>2, <2>3
<1>3. job'[p] = j
  BY DEF ToolsInv, Shape
<1>4. Covers(tool, node', Idle)
  BY IdleJob
<1>5. \A q \in Shells : Covers(tool, node', job'[q])
  BY <1>1, <1>2, <1>3, <1>4
<1>6. job'[p] # Idle
  BY <1>3, IdleJob
<1> QED
  BY <1>5, <1>6 DEF Counting

LEMMA NotFeed ==
  ASSUME tool' = "relay"
  PROVE  Following'
BY DEF Following

LEMMA CountForm ==
  ASSUME NEW st \in Count
  PROVE  /\ st = [buckets |-> st.buckets, up |-> st.up, rejected |-> st.rejected]
         /\ st.buckets \in [Names -> Nat] /\ st.up \in Nat /\ st.rejected \in Nat
BY DEF Count

LEMMA FormCount ==
  ASSUME NEW buckets \in [Names -> Nat], NEW up \in Nat, NEW rejected \in Nat
  PROVE  [buckets |-> buckets, up |-> up, rejected |-> rejected] \in Count
BY DEF Count

LEMMA RelayInitStep ==
  ASSUME ToolsInv, NEW p \in Shells, RelayInit(p)
  PROVE  ToolsInv'
<1> DEFINE zero == [b \in Names |-> 0]
           new == [buckets |-> zero, up |-> 0, rejected |-> 0]
           j == [at |-> "save", acks |-> {}, new |-> new]
<1>1. /\ tool = "relay" /\ file = Absent
      /\ Begin(p, j) /\ Starts(p) /\ job' = [job EXCEPT ![p] = j]
      /\ UNCHANGED <<tool, dir, node>>
  BY DEF RelayInit, Begin, Starts
<1>2. zero \in [Names -> Nat] /\ \A b \in Names : zero[b] = 0
  OBVIOUS
<1> HIDE DEF zero
<1>3. new \in Count /\ new.buckets = zero
  BY <1>2, FormCount
<1> HIDE DEF new
<1>4. Fits(tool, new) /\ Backed(tool, node, new)
  BY <1>1, <1>2, <1>3, NodeToolsAssumption DEF Fits, Backed
<1>5. j.at = "save" /\ j.new = new /\ j = [at |-> "save", new |-> new, acks |-> {}]
  OBVIOUS
<1> HIDE DEF j
<1>6. Shape' /\ Upheld' /\ Single' /\ Whole' /\ Kept'
  BY <1>1, <1>4, <1>5, BeginSave
<1>7. ASSUME disturbed' = {} PROVE Covers(tool, node', j)
  <2>1. \A q \in Shells : job[q] = Idle
    BY <1>1, <1>7 DEF Starts
  <2>2. \A b \in Names : node.issued[b] = 0
    BY <1>1, <1>7, <2>1 DEF Starts, ToolsInv, Counting
  <2> QED
    BY <1>1, <1>2, <1>3, <1>5, <2>2 DEF Covers
<1>8. Counting'
  BY <1>1, <1>5, <1>7, CountJob
<1> QED
  BY <1>1, <1>6, <1>8, NotFeed DEF ToolsInv

LEMMA RelayRelayStep ==
  ASSUME ToolsInv, NEW p \in Shells, RelayRelay(p)
  PROVE  ToolsInv'
<1> DEFINE st == file.value
           goes(f) == [at |-> "relay",
                       st |-> [st EXCEPT !.buckets =
                                           Plus(st.buckets, f, Counted(st.buckets, f))],
                       f |-> f]
           fails(f) == [at |-> "save", acks |-> {},
                        new |-> [buckets |-> Plus(st.buckets, f, Counted(st.buckets, f)),
                                 up |-> st.up, rejected |-> st.rejected + 1]]
<1>1. PICK f \in RelayFiles :
        Begin(p, IF Fitting(st.buckets, f) = Len(f) THEN goes(f) ELSE fails(f))
  BY DEF RelayRelay
<1>2. /\ tool = "relay" /\ Strict
      /\ \A b \in Names : st.buckets[b] <= Slots
      /\ UNCHANGED <<tool, file, dir, node>>
  BY <1>1 DEF RelayRelay, Begin
<1>3. st \in Count
  BY <1>2, Readable DEF ToolsInv, Shape, Fits
<1>4. f \in Seq(Names)
  BY NodeToolsAssumption
<1> HIDE DEF st
<1>5. /\ st = [buckets |-> st.buckets, up |-> st.up, rejected |-> st.rejected]
      /\ st.buckets \in [Names -> Nat] /\ st.up \in Nat /\ st.rejected \in Nat
  BY <1>3, CountForm
<1> DEFINE k == Fitting(st.buckets, f)
           counts == Plus(st.buckets, f, k)
<1>6. k \in 0..Len(f) /\ k \in Nat /\ (\A b \in Names : counts[b] <= Slots)
  BY <1>2, <1>4, <1>5, FittingFits, LenProperties
<1>7. goes(f) = [at |-> "relay", st |-> [st EXCEPT !.buckets = counts], f |-> f]
  BY DEF Counted
<1>8. fails(f) = [at |-> "save", acks |-> {},
                  new |-> [buckets |-> counts, up |-> st.up, rejected |-> st.rejected + 1]]
  BY DEF Counted
<1> HIDE DEF k, goes, fails
<1>9. counts \in [Names -> Nat] /\ \A b \in Names : counts[b] >= st.buckets[b]
  BY <1>5, <1>6, PlusType
<1> HIDE DEF counts
<1>10. NodeFits(tool, node') /\ Grows(node, node')
  BY <1>2, NodeStays
<1>11. ASSUME Starts(p), disturbed' = {}
       PROVE  \A b \in Names : node.issued[b] \in Nat /\ st.buckets[b] >= node.issued[b]
  <2>1. disturbed = {} /\ \A q \in Shells : job[q] = Idle
    BY <1>11 DEF Starts
  <2>2. node.issued \in [Names -> Nat]
    BY DEF ToolsInv, Shape, NodeFits
  <2> QED
    BY <1>2, <2>1, <2>2 DEF ToolsInv, Counting, st
<1>12. CASE k = Len(f)
  <2> DEFINE new == [st EXCEPT !.buckets = counts]
             j == [at |-> "relay", st |-> new, f |-> f]
  <2>1. Begin(p, j)
    BY <1>1, <1>7, <1>12 DEF k
  <2>2. new = [buckets |-> counts, up |-> st.up, rejected |-> st.rejected]
    BY <1>5
  <2> HIDE DEF new
  <2>3. new \in Count /\ new.buckets = counts
    BY <1>5, <1>9, <2>2, FormCount
  <2>4. /\ j.at = "relay" /\ j.st = new /\ j.f = f
        /\ j = [at |-> "relay", st |-> j.st, f |-> j.f]
    OBVIOUS
  <2> HIDE DEF j
  <2>5. JobFits(tool, j)
    BY <1>2, <2>3, <2>4 DEF JobFits, Relaying
  <2>6. JobBacked(tool, node', j) /\ JobKeeps(tool, acked, j)
    BY <1>2, <1>6, <2>3, <2>4 DEF JobBacked, Backed, JobKeeps
  <2>7. Shape' /\ Upheld' /\ Single' /\ Whole' /\ Kept'
    BY <1>2, <1>10, <2>1, <2>4, <2>5, <2>6, Begins
  <2>8. Starts(p) /\ job' = [job EXCEPT ![p] = j]
    BY <2>1 DEF Begin, Starts
  <2>9. ASSUME disturbed' = {} PROVE Covers(tool, node', j)
    <3>1. node.issued \in [Names -> Nat] /\ node' = node
      BY <1>2 DEF ToolsInv, Shape, NodeFits
    <3>2. \A b \in Names : Plus(st.buckets, f, k)[b] >= Plus(node.issued, f, k)[b]
      BY <1>5, <1>6, <1>11, <2>8, <2>9, <3>1, PlusMonotone
    <3>3. \A b \in Names : j.st.buckets[b] >= Plus(node.issued, j.f, Len(j.f))[b]
      BY <1>12, <2>3, <2>4, <3>2 DEF counts
    <3> QED
      BY <2>4, <3>1, <3>3 DEF Covers
  <2>10. Counting'
    BY <1>2, <2>4, <2>8, <2>9, CountJob
  <2> QED
    BY <1>2, <2>7, <2>10, NotFeed DEF ToolsInv
<1>13. CASE k # Len(f)
  <2> DEFINE new == [buckets |-> counts, up |-> st.up, rejected |-> st.rejected + 1]
             j == [at |-> "save", acks |-> {}, new |-> new]
  <2>1. Begin(p, j)
    BY <1>1, <1>8, <1>13 DEF k
  <2>2. new = [buckets |-> counts, up |-> st.up, rejected |-> st.rejected + 1]
    OBVIOUS
  <2> HIDE DEF new
  <2>3. new \in Count /\ new.buckets = counts
    <3>1. st.rejected + 1 \in Nat
      BY <1>5
    <3> QED
      BY <1>5, <1>9, <2>2, <3>1, FormCount
  <2>4. j.at = "save" /\ j.new = new /\ j = [at |-> "save", new |-> new, acks |-> {}]
    OBVIOUS
  <2> HIDE DEF j
  <2>5. Fits(tool, new) /\ Backed(tool, node, new)
    BY <1>2, <1>6, <2>3 DEF Fits, Backed
  <2>6. Shape' /\ Upheld' /\ Single' /\ Whole' /\ Kept'
    BY <1>2, <2>1, <2>4, <2>5, BeginSave
  <2>7. Starts(p) /\ job' = [job EXCEPT ![p] = j]
    BY <2>1 DEF Begin, Starts
  <2>8. ASSUME disturbed' = {} PROVE Covers(tool, node', j)
    <3>1. \A b \in Names : counts[b] \in Nat /\ st.buckets[b] \in Nat
      BY <1>5, <1>9
    <3>2. \A b \in Names : counts[b] >= node.issued[b]
      BY <1>9, <1>11, <2>7, <2>8, <3>1
    <3> QED
      BY <1>2, <2>3, <2>4, <3>2 DEF Covers
  <2>9. Counting'
    BY <1>2, <2>4, <2>7, <2>8, CountJob
  <2> QED
    BY <1>2, <2>6, <2>9, NotFeed DEF ToolsInv
<1> QED
  BY <1>12, <1>13

LEMMA RelayUploadStep ==
  ASSUME ToolsInv, NEW p \in Shells, RelayUpload(p)
  PROVE  ToolsInv'
<1> DEFINE g == job[p]
           issued == Plus(node.issued, g.f, Len(g.f))
           new == [g.st EXCEPT !.up = @ + 1]
           j == [at |-> "save", acks |-> {}, new |-> new]
<1>1. /\ g.at = "relay"
      /\ node' = [node EXCEPT !.issued = Plus(@, g.f, Len(g.f))]
      /\ job' = [job EXCEPT ![p] = j]
      /\ UNCHANGED <<tool, file, commands, dir, acked, disturbed>>
  BY DEF RelayUpload
<1>2. Relaying(tool, g) /\ JobBacked(tool, node, g)
  BY <1>1, Stages DEF ToolsInv, Shape, Upheld
<1>3. /\ tool = "relay" /\ g.st \in Count /\ g.f \in Seq(Names)
      /\ Backed(tool, node, g.st)
  BY <1>1, <1>2, NodeToolsAssumption DEF Relaying, JobBacked
<1>4. /\ node' = [stored |-> node.stored, feed |-> node.feed, served |-> node.served,
                  late |-> node.late, lists |-> node.lists, issued |-> issued]
  BY <1>1 DEF ToolsInv, Shape, NodeFits
<1>5. issued \in [Names -> Nat]
  <2>1. node.issued \in [Names -> Nat] /\ Len(g.f) \in Nat
    BY <1>3, LenProperties DEF ToolsInv, Shape, NodeFits
  <2> QED
    BY <2>1, PlusType
<1> HIDE DEF issued
<1>6. NodeFits(tool, node') /\ Grows(node, node') /\ node'.issued = issued
  BY <1>3, <1>4, <1>5 DEF ToolsInv, Shape, NodeFits, Grows
<1>7. g.at \notin {"idle", "write"} /\ g # Idle
  BY <1>1, IdleJob
<1>8. tool = "relay" /\ disturbed = {} => \A b \in Names : g.st.buckets[b] >= issued[b]
  BY <1>1 DEF ToolsInv, Counting, Covers, issued
<1> HIDE DEF g
<1>9. /\ g.st = [buckets |-> g.st.buckets, up |-> g.st.up, rejected |-> g.st.rejected]
      /\ g.st.buckets \in [Names -> Nat] /\ g.st.up \in Nat /\ g.st.rejected \in Nat
  BY <1>3, CountForm
<1>10. new = [buckets |-> g.st.buckets, up |-> g.st.up + 1, rejected |-> g.st.rejected]
  BY <1>9
<1> HIDE DEF new
<1>11. new \in Count /\ new.buckets = g.st.buckets
  <2>1. g.st.up + 1 \in Nat
    BY <1>9
  <2> QED
    BY <1>9, <1>10, <2>1, FormCount
<1>12. Fits(tool, new) /\ Backed(tool, node', new)
  BY <1>3, <1>11 DEF Fits, Backed
<1>13. /\ j.at = "save" /\ j.new = new
       /\ JobFits(tool, j) /\ JobBacked(tool, node', j)
       /\ JobKeeps(tool, acked, j)
  <2>1. j = [at |-> "save", new |-> new, acks |-> {}]
    OBVIOUS
  <2> HIDE DEF j
  <2> QED
    BY <1>12, <2>1, SaveJob
<1> HIDE DEF j
<1>14. Shape' /\ Upheld' /\ Single' /\ Whole' /\ Kept'
  BY <1>1, <1>6, <1>7, <1>13, GoesOn DEF g
<1>15. ASSUME disturbed' = {} PROVE Covers(tool, node', j)
  BY <1>1, <1>3, <1>6, <1>8, <1>11, <1>13, <1>15 DEF Covers
<1>16. Counting'
  BY <1>1, <1>7, <1>13, <1>15, CountJob DEF g
<1> QED
  BY <1>1, <1>3, <1>14, <1>16, NotFeed DEF ToolsInv

LEMMA RelayResetStep ==
  ASSUME ToolsInv, NEW p \in Shells, RelayReset(p)
  PROVE  ToolsInv'
<1>1. /\ tool = "relay" /\ file' = Absent
      /\ disturbed' = disturbed \cup {"reset"}
      /\ UNCHANGED <<tool, job, commands, dir, node, acked>>
  BY DEF RelayReset
<1>2. ~ Strict'
  BY <1>1, FileStates DEF Strict
<1>3. Shape'
  BY <1>1 DEF ToolsInv, Shape, FileFits
<1>4. Upheld' /\ Single'
  BY <1>1, <1>2 DEF ToolsInv, Upheld, Single
<1>5. Whole' /\ Counting'
  BY <1>1 DEF Whole, Counting
<1>6. Kept'
  BY <1>1 DEF ToolsInv, Kept
<1> QED
  BY <1>1, <1>3, <1>4, <1>5, <1>6, NotFeed DEF ToolsInv

LEMMA RelayStep ==
  ASSUME ToolsInv, NEW p \in Shells, RelayNext(p)
  PROVE  ToolsInv'
BY RelayInitStep, RelayRelayStep, RelayUploadStep, RelayResetStep DEF RelayNext

-----------------------------------------------------------------------------
(* All the tools.                                                          *)

LEMMA ListToolsStep ==
  ASSUME ToolsInv, NEW p \in Shells, ListToolsNext(p)
  PROVE  ToolsInv'
BY ListStep, FsStep, FsPublishStep DEF ListToolsNext, FsNext

LEMMA ToolsInvHolds == Spec => []ToolsInv
<1>1. ASSUME Init PROVE ToolsInv
  <2>1. /\ tool \in Tool
        /\ file = Absent
        /\ job = [p \in Shells |-> Idle]
        /\ dir = [n \in Names |-> None]
        /\ node = [stored |-> {}, feed |-> <<>>, served |-> {}, late |-> {},
                   lists |-> <<>>, issued |-> [n \in Names |-> 0]]
        /\ acked = {}
        /\ disturbed = {}
    BY <1>1 DEF Init, Tool
  <2>2. /\ node = [stored |-> node.stored, feed |-> node.feed, served |-> node.served,
                   late |-> node.late, lists |-> node.lists, issued |-> node.issued]
        /\ node.feed = <<>> /\ node.late = {} /\ node.lists = <<>>
        /\ node.issued = [n \in Names |-> 0]
    BY <2>1
  <2>3. NodeFits(tool, node)
    BY <2>2, EmptySeq DEF NodeFits
  <2>4. \A p \in Shells : job[p] = Idle
    BY <2>1
  <2>5. Shape
    BY <2>1, <2>3, <2>4, IdleJob DEF Shape, FileFits
  <2>6. file # Torn /\ ~ Strict
    BY <2>1, FileStates DEF Strict
  <2>7. Upheld /\ Single /\ Whole /\ Kept
    BY <2>1, <2>4, <2>6, IdleJob DEF Upheld, Single, Whole, Kept
  <2>8. Counting
    BY <2>2, <2>4, <2>6, IdleJob DEF Counting
  <2>9. JobFollows(tool, node, file, disturbed = {}, Idle)
    BY DEF JobFollows, Idle
  <2>10. Following
    BY <2>2, <2>4, <2>6, <2>9 DEF Following
  <2> QED
    BY <2>5, <2>7, <2>8, <2>10 DEF ToolsInv
<1>2. ASSUME ToolsInv, [Next]_vars PROVE ToolsInv'
  <2>1. CASE UserEdits
    <3>1. dir' \in [Names -> Contents \cup {None}]
      BY <1>2, <2>1 DEF UserEdits, ToolsInv, Shape
    <3> QED
      BY <1>2, <2>1, <3>1, DirStep DEF UserEdits
  <2>2. CASE ServeLate
    BY <1>2, <2>2, ServeLateStep
  <2>3. ASSUME NEW p \in Shells,
               \/ FeedToolsNext(p) \/ ListToolsNext(p) \/ NodeToolsNext(p)
               \/ Truncate(p) \/ WriteOut(p) \/ Stop(p)
        PROVE  ToolsInv'
    BY <1>2, <2>3, FeedToolsStep, ListToolsStep, ShareStep, PinnerStep, RelayStep,
       TruncateStep, WriteOutStep, StopStep DEF NodeToolsNext
  <2>4. CASE UNCHANGED vars
    BY <1>2, <2>4, DirStep DEF vars, ToolsInv, Shape
  <2> QED
    BY <1>2, <2>1, <2>2, <2>3, <2>4 DEF Next
<1> QED
  BY <1>1, <1>2, PTL DEF Spec

-----------------------------------------------------------------------------
(* No state file, and nothing about to be written to one, refers to what   *)
(* the node does not have: whatever the tool, the commands that overlap,   *)
(* and the step at which one is killed or a call of it fails.              *)
THEOREM NothingDanglesHolds == Spec => []NothingDangles
<1>1. ASSUME ToolsInv PROVE NothingDangles
  <2>1. ASSUME NEW v, Backed(tool, node, v)
        PROVE  ~ FeedToolsDangle(v) /\ ~ NodeToolsDangle(v)
    BY <2>1 DEF Backed, FeedToolsDangle, NodeToolsDangle
  <2> QED
    BY <1>1, <2>1 DEF ToolsInv, Upheld, JobBacked, NothingDangles
<1> QED
  BY <1>1, ToolsInvHolds, PTL

(* What swarm-share shows of the grantees of a file is what the list that  *)
(* its state file refers to has, for any number of keys and revocations.   *)
THEOREM GranteesMatchHolds == Spec => []GranteesMatch
<1>1. ASSUME ToolsInv PROVE GranteesMatch
  BY <1>1 DEF ToolsInv, Upheld, JobBacked, Backed, GranteesMatch
<1> QED
  BY <1>1, ToolsInvHolds, PTL

(* swarm-relay never saves counts that a stamper would refuse, whatever    *)
(* the files and the depth of the buckets; left to itself it counts every  *)
(* chunk that the node stamps for it.                                      *)
THEOREM RelayCountsHolds == Spec => []RelayCounts
<1>1. ASSUME ToolsInv PROVE RelayCounts
  <2> SUFFICES ASSUME tool = "relay", Strict
               PROVE  /\ \A b \in Names : file.value.buckets[b] <= Slots
                      /\ disturbed = {} /\ (\A p \in Shells : job[p] = Idle) =>
                           \A b \in Names : file.value.buckets[b] >= node.issued[b]
    BY DEF RelayCounts
  <2>1. \A b \in Names : file.value.buckets[b] <= Slots
    BY <1>1 DEF ToolsInv, Upheld, Backed
  <2>2. disturbed = {} /\ (\A p \in Shells : job[p] = Idle) =>
          \A b \in Names : file.value.buckets[b] >= node.issued[b]
    BY <1>1 DEF ToolsInv, Counting
  <2> QED
    BY <2>1, <2>2
<1> QED
  BY <1>1, ToolsInvHolds, PTL

(* What a command that succeeded entered is in the file until a command    *)
(* takes it out, in all six tools that have entries, as long as no two     *)
(* commands overlap and none is killed while it writes.                    *)
THEOREM AcknowledgedKeptHolds == Spec => []AcknowledgedKept
<1>1. ASSUME ToolsInv PROVE AcknowledgedKept
  <2>1. \A v : ItemsOf(tool, v) = Items(v)
    BY DEF ItemsOf, Items
  <2> SUFFICES ASSUME Quiet, \A p \in Shells : job[p].at # "write", acked # {}
               PROVE  Strict /\ acked \subseteq Items(file.value)
    BY DEF AcknowledgedKept, Quiet
  <2>2. tool # "relay"
    BY <1>1 DEF ToolsInv, Kept, Quiet
  <2>3. file # Torn
    BY <1>1, <2>2 DEF ToolsInv, Whole, Quiet
  <2> QED
    BY <1>1, <2>1, <2>3 DEF ToolsInv, Kept, Quiet
<1> QED
  BY <1>1, ToolsInvHolds, PTL

-----------------------------------------------------------------------------
(* What is within the feed is one of its parts.                            *)

(* The members of S up to k.                                              *)
UpTo(S, k) == {l \in S : l <= k}

(* k alone has rank i in S.                                                *)
Ranked(S, k, i) ==
  /\ Cardinality(UpTo(S, k)) = i
  /\ \A l \in S : Cardinality(UpTo(S, l)) = i => l = k

(* The first n values of h.                                               *)
Values(h, n) == {h[k] : k \in 1..n}

(* h lists n numbers in increasing order.                                  *)
Rising(h, n) ==
  /\ h \in [1..n -> Nat]
  /\ \A i, k \in 1..n : i < k => h[i] < h[k]

LEMMA Increasing ==
  ASSUME NEW n \in Nat, NEW h, Rising(h, n),
         NEW S, S = Values(h, n),
         NEW i \in 1..n
  PROVE  Ranked(S, h[i], i)
<1> USE DEF Rising, UpTo, Values, Ranked
<1> DEFINE below(k) == {l \in S : l <= h[k]}
<1>1. ASSUME NEW k \in 1..n PROVE Cardinality(below(k)) = k
  <2> DEFINE g == [j \in 1..k |-> h[j]]
  <2>1. \A j \in 1..k : j \in 1..n /\ h[j] <= h[k]
    BY <1>1
  <2>2. \A j \in 1..k : g[j] = h[j] /\ g[j] \in below(k)
    BY <2>1
  <2>3. g \in [1..k -> below(k)]
    BY <2>2
  <2>4. \A a, b \in 1..k : g[a] = g[b] => a = b
    <3>1. ASSUME NEW a \in 1..k, NEW b \in 1..k, a # b PROVE h[a] # h[b]
      <4>1. /\ a \in 1..n /\ b \in 1..n /\ h[a] \in Nat /\ h[b] \in Nat
            /\ a < b \/ b < a
        BY <2>1, <3>1
      <4>2. h[a] < h[b] \/ h[b] < h[a]
        BY <4>1
      <4> QED
        BY <4>1, <4>2
    <3> QED
      BY <3>1
  <2>5. \A l \in below(k) : \E j \in 1..k : g[j] = l
    <3>1. ASSUME NEW l \in below(k) PROVE \E j \in 1..k : g[j] = l
      <4>1. PICK j \in 1..n : h[j] = l
        OBVIOUS
      <4>2. ~ (k < j)
        BY <1>1, <4>1
      <4>3. j \in 1..k
        BY <1>1, <4>1, <4>2
      <4> QED
        BY <2>2, <4>1, <4>3
    <3> QED
      BY <3>1
  <2> HIDE DEF g, below
  <2>6. g \in Bijection(1..k, below(k))
    BY <2>3, <2>4, <2>5 DEF Bijection, Injection, Surjection, IsInjective
  <2>7. k \in Nat /\ ExistsBijection(1..k, below(k))
    BY <2>6 DEF ExistsBijection
  <2> QED
    BY <2>7, FS_CountingElements
<1>2. ASSUME NEW k \in S, Cardinality({l \in S : l <= k}) = i PROVE k = h[i]
  <2>1. PICK j \in 1..n : k = h[j]
    OBVIOUS
  <2>2. Cardinality(below(j)) = j
    BY <1>1
  <2>3. j = i
    BY <1>2, <2>1, <2>2
  <2> QED
    BY <2>1, <2>3
<1> QED
  BY <1>1, <1>2

LEMMA WithinIsPart ==
  ASSUME NEW T, NEW feed \in Seq(T), NEW v \in Seq(T), Within(v, feed)
  PROVE  v \in PartsOf(feed)
<1> DEFINE n == Len(v)
           m == Len(feed)
<1>1. n \in Nat /\ m \in Nat /\ DOMAIN v = 1..n /\ DOMAIN feed = 1..m /\ v \in [1..n -> T]
  BY LenProperties
<1>2. PICK h \in [1..n -> 1..m] :
        /\ \A i, k \in 1..n : i < k => h[i] < h[k]
        /\ \A i \in 1..n : v[i] = feed[h[i]]
  BY <1>1 DEF Within
<1> HIDE DEF n, m
<1> DEFINE S == {h[k] : k \in 1..n}
           place(i) == CHOOSE k \in S : Cardinality({l \in S : l <= k}) = i
<1>3. S \in SUBSET (1..m)
  BY <1>2
<1>4. \A i \in 1..n : /\ Cardinality({l \in S : l <= h[i]}) = i
                      /\ \A k \in S : Cardinality({l \in S : l <= k}) = i => k = h[i]
  <2>1. S = {h[k] : k \in 1..n}
    OBVIOUS
  <2> HIDE DEF S
  <2>2. PICK a, b : a = n /\ b = m
    OBVIOUS
  <2>3. a \in Nat /\ b \in Nat /\ h \in [1..a -> 1..b] /\ S = Values(h, a)
    BY <1>1, <2>1, <2>2 DEF Values
  <2>4. Rising(h, a)
    BY <1>2, <2>2, <2>3 DEF Rising
  <2>5. \A i \in 1..a : Ranked(S, h[i], i)
    BY <2>3, <2>4, Increasing
  <2> QED
    BY <2>2, <2>5 DEF Ranked, UpTo
<1>5. \A i \in 1..n : h[i] \in S
  OBVIOUS
<1>6. Cardinality(S) = n
  <2>1. CASE n = 0
    <3>1. S = {}
      BY <2>1
    <3> QED
      BY <2>1, <3>1, FS_EmptySet
  <2>2. CASE n # 0
    <3>1. n \in 1..n
      BY <1>1, <2>2
    <3>2. \A k \in 1..n : k = n \/ k < n
      BY <1>1
    <3>3. \A k \in 1..n : h[k] <= h[n]
      BY <1>2, <3>1, <3>2
    <3>4. {l \in S : l <= h[n]} = S
      BY <3>3
    <3> QED
      BY <1>4, <3>1, <3>4
  <2> QED
    BY <2>1, <2>2
<1> HIDE DEF S
<1>7. \A i \in 1..n : place(i) = h[i]
  BY <1>4, <1>5
<1>8. v = [i \in 1..Cardinality(S) |-> feed[place(i)]]
  <2>1. v = [i \in 1..n |-> feed[h[i]]]
    BY <1>1, <1>2
  <2> HIDE DEF place
  <2> QED
    BY <1>6, <1>7, <2>1
<1>9. S \in SUBSET DOMAIN feed
  BY <1>1, <1>3
<1> DEFINE part(X) == [i \in 1..Cardinality(X) |->
                         feed[CHOOSE k \in X : Cardinality({l \in X : l <= k}) = i]]
<1>10. PartsOf(feed) = {part(X) : X \in SUBSET DOMAIN feed}
  BY Zenon DEF PartsOf
<1>11. v = part(S)
  BY <1>8
<1> HIDE DEF part
<1> QED
  BY <1>9, <1>10, <1>11

(* Unless commands overlap, a look-up misses updates of the feed, or one   *)
(* served late gets in the way, the history that swarm-deploy keeps lists  *)
(* updates of its feed in their order, for a feed of any length; and while *)
(* no command runs and none was broken off, the newest update is the site, *)
(* or the index, that the file has.                                        *)
THEOREM FeedFollowsFileHolds == Spec => []FeedFollowsFile
<1>1. ASSUME ToolsInv PROVE FeedFollowsFile
  <2> SUFFICES ASSUME tool \in {"deploy", "vault"}, Strict, Clear
               PROVE  FeedFollowsFile
    BY DEF FeedFollowsFile, Clear
  <2>1. ASSUME tool = "deploy" PROVE file.value \in PartsOf(node.feed)
    <3>1. file.value \in Seq(Contents) /\ node.feed \in Seq(Contents)
      BY <1>1, <2>1, Readable DEF ToolsInv, Shape, Fits, NodeFits
    <3>2. Within(file.value, node.feed)
      BY <1>1, <2>1 DEF ToolsInv, Following
    <3> QED
      BY <3>1, <3>2, WithinIsPart
  <2>2. ASSUME disturbed = {}, \A p \in Shells : job[p] = Idle, node.feed # <<>>
        PROVE  IF tool = "vault" THEN node.feed[Len(node.feed)] = file.value
               ELSE /\ file.value # <<>>
                    /\ node.feed[Len(node.feed)] = file.value[Len(file.value)]
    BY <1>1, <2>2 DEF ToolsInv, Following, Newest
  <2> QED
    BY <2>1, <2>2 DEF FeedFollowsFile
<1> QED
  BY <1>1, ToolsInvHolds, PTL

-----------------------------------------------------------------------------
(* The integration check.                                                  *)

(* The order of the checks.                                                *)

LEMMA Numbers ==
  /\ Len(Checks) = 29
  /\ Checks[1] = "info" /\ Checks[2] = "accounting" /\ Checks[3] = "postage"
  /\ Checks[4] = "createTag" /\ Checks[5] = "getTag" /\ Checks[6] = "deleteTag"
  /\ Checks[7] = "hash" /\ Checks[8] = "batch" /\ Checks[9] = "wait"
  /\ Checks[10] = "batchReads" /\ Checks[11] = "upload" /\ Checks[12] = "readBack"
  /\ Checks[13] = "pin" /\ Checks[14] = "getPin" /\ Checks[15] = "unpin"
  /\ Checks[16] = "soc" /\ Checks[17] = "stream" /\ Checks[18] = "encrypted"
  /\ Checks[19] = "feedUpdate" /\ Checks[20] = "feedFetch"
  /\ Checks[21] = "feedRetrievable" /\ Checks[22] = "pss" /\ Checks[23] = "addresses"
  /\ Checks[24] = "mine" /\ Checks[25] = "gsoc"
  /\ Checks[26] = "topUp" /\ Checks[27] = "dilute" /\ Checks[28] = "diluted"
  /\ Checks[29] = "end"
BY DEF Checks

LEMMA Distinct ==
  ASSUME NEW i \in 1..29, NEW k \in 1..29, Checks[i] = Checks[k]
  PROVE  i = k
BY SMTT(60) DEF Checks

LEMMA NoEnd ==
  ASSUME NEW i \in 1..29
  PROVE  Checks[i] \notin Ends
BY SMTT(60) DEF Checks, Ends

(* The program is at one of the first n checks.                            *)
Before(n) == at \in {Checks[i] : i \in 1..n}

LEMMA Place ==
  ASSUME NEW i \in 1..29, at = Checks[i], NEW n \in 1..29
  PROVE  Before(n) <=> i <= n
<1>1. ASSUME Before(n) PROVE i <= n
  <2>1. PICK k \in 1..n : at = Checks[k]
    BY <1>1 DEF Before
  <2>2. k \in 1..29
    OBVIOUS
  <2>3. k = i
    BY <2>1, <2>2, Distinct
  <2> QED
    BY <2>1, <2>3
<1>2. ASSUME i <= n PROVE Before(n)
  BY <1>2 DEF Before
<1> QED
  BY <1>1, <1>2

LEMMA Next1 ==
  ASSUME NEW i \in 1..28, at = Checks[i]
  PROVE  After = Checks[i + 1]
<1>1. \A k \in 1..28 : Checks[k] = at => k = i
  BY Distinct
<1>2. (CHOOSE k \in 1..28 : Checks[k] = at) = i
  BY <1>1
<1>3. Len(Checks) - 1 = 28
  BY Numbers
<1>4. After = Checks[1 + i]
  BY <1>2, <1>3, Zenon DEF After
<1>5. 1 + i = i + 1
  OBVIOUS
<1> QED
  BY <1>4, <1>5

-----------------------------------------------------------------------------
(* The inductive invariant.                                                *)

Batches == {"own", "user"}
Updates == {"old", "mine", "other"}

Form ==
  /\ env \in [batch : {"none", "user", "zero", "bad"}, signer : {"none", "given", "bad"}]
  /\ at \in {Checks[i] : i \in 1..29} \cup Ends
  /\ fail \in {"none", "some"}
  /\ at = "exit0" => fail = "none"
  /\ locals = [tag |-> locals.tag, batch |-> locals.batch, usable |-> locals.usable,
              data |-> locals.data, mined |-> locals.mined, round |-> locals.round]
  /\ locals.batch \in {"zero", "own", "user"}
  /\ locals.usable \in {"no", "yes"}
  /\ bee = [tags |-> bee.tags, pins |-> bee.pins, usable |-> bee.usable,
             bought |-> bee.bought, depth |-> bee.depth, queued |-> bee.queued,
             toppedUp |-> bee.toppedUp, feed |-> bee.feed]
  /\ bee.bought \in Nat
  /\ bee.depth \in [Batches -> Nat]
  /\ bee.toppedUp \in [Batches -> Nat]
  /\ bee.feed \in Seq(Updates)

(* Nothing is bought, topped up or diluted before its turn.                *)
Money ==
  /\ bee.bought <= IF env.batch = "none" THEN 1 ELSE 0
  /\ Before(8) => bee.bought = 0
  /\ \A b \in Batches : bee.toppedUp[b] <= IF locals.batch = b THEN 1 ELSE 0
  /\ Before(26) => \A b \in Batches : bee.toppedUp[b] = 0
  /\ bee.depth["user"] = 17
  /\ bee.queued \subseteq {"own"}
  /\ bee.depth["own"] <= IF bee.queued = {} THEN 18 ELSE 17
  /\ Before(27) => bee.queued = {} /\ bee.depth["own"] = 17

(* As long as nothing failed, the batch is there, and usable, after the    *)
(* checks that get it and wait for it.                                     *)
Explained ==
  fail = "none" /\ env.batch # "zero" =>
    /\ skipped \subseteq {"dilute"}
    /\ ~ Before(8) => locals.batch # "zero"
    /\ ~ Before(9) => locals.usable = "yes"

Excuses == {"lag", "other", "failed"}

(* The newest update is the one of this run when it is fetched, unless     *)
(* there is an excuse.                                                     *)
Fetched ==
  /\ Before(19) => "mismatch" \notin cause
  /\ "mismatch" \in cause => env.signer = "given" /\ cause \cap Excuses # {}
  /\ env.signer # "given" => /\ bee.feed \in {<<>>, <<"mine">>}
                             /\ Before(19) => bee.feed = <<>>
  /\ at = "feedFetch" /\ locals.usable = "yes" /\ cause \cap Excuses = {} =>
       bee.feed # <<>> /\ bee.feed[Len(bee.feed)] = "mine"

CheckInv == Form /\ Money /\ Explained /\ Fetched

-----------------------------------------------------------------------------
(* Steps that touch neither the batch, the money nor the feed.             *)

SameNode(a, b) ==
  /\ b = [tags |-> b.tags, pins |-> b.pins, usable |-> b.usable, bought |-> b.bought,
          depth |-> b.depth, queued |-> b.queued, toppedUp |-> b.toppedUp, feed |-> b.feed]
  /\ b.bought = a.bought /\ b.depth = a.depth /\ b.queued = a.queued
  /\ b.toppedUp = a.toppedUp /\ b.feed = a.feed

SameLocal(a, b) ==
  /\ b = [tag |-> b.tag, batch |-> b.batch, usable |-> b.usable, data |-> b.data,
          mined |-> b.mined, round |-> b.round]
  /\ b.batch = a.batch /\ b.usable = a.usable

LEMMA SameSame ==
  ASSUME Form
  PROVE  SameNode(bee, bee) /\ SameLocal(locals, locals)
BY DEF Form, SameNode, SameLocal

(* Fields that the properties say nothing of.                              *)
LEMMA OtherLocals ==
  ASSUME Form, NEW x
  PROVE  /\ SameLocal(locals, [locals EXCEPT !.tag = x])
         /\ SameLocal(locals, [locals EXCEPT !.data = x])
         /\ SameLocal(locals, [locals EXCEPT !.mined = x])
         /\ SameLocal(locals, [locals EXCEPT !.round = x])
<1>0. locals = [tag |-> locals.tag, batch |-> locals.batch, usable |-> locals.usable,
               data |-> locals.data, mined |-> locals.mined, round |-> locals.round]
  BY DEF Form
<1>1. SameLocal(locals, [locals EXCEPT !.tag = x])
  <2> DEFINE b == [locals EXCEPT !.tag = x]
  <2>1. b = [tag |-> x, batch |-> locals.batch, usable |-> locals.usable, data |-> locals.data,
            mined |-> locals.mined, round |-> locals.round]
    BY <1>0
  <2> HIDE DEF b
  <2>2. SameLocal(locals, b)
    BY <2>1 DEF SameLocal
  <2> QED
    BY <2>2 DEF b
<1>2. SameLocal(locals, [locals EXCEPT !.data = x])
  <2> DEFINE b == [locals EXCEPT !.data = x]
  <2>1. b = [tag |-> locals.tag, batch |-> locals.batch, usable |-> locals.usable, data |-> x,
            mined |-> locals.mined, round |-> locals.round]
    BY <1>0
  <2> HIDE DEF b
  <2>2. SameLocal(locals, b)
    BY <2>1 DEF SameLocal
  <2> QED
    BY <2>2 DEF b
<1>3. SameLocal(locals, [locals EXCEPT !.mined = x])
  <2> DEFINE b == [locals EXCEPT !.mined = x]
  <2>1. b = [tag |-> locals.tag, batch |-> locals.batch, usable |-> locals.usable, data |->
            locals.data, mined |-> x, round |-> locals.round]
    BY <1>0
  <2> HIDE DEF b
  <2>2. SameLocal(locals, b)
    BY <2>1 DEF SameLocal
  <2> QED
    BY <2>2 DEF b
<1>4. SameLocal(locals, [locals EXCEPT !.round = x])
  <2> DEFINE b == [locals EXCEPT !.round = x]
  <2>1. b = [tag |-> locals.tag, batch |-> locals.batch, usable |-> locals.usable, data |->
            locals.data, mined |-> locals.mined, round |-> x]
    BY <1>0
  <2> HIDE DEF b
  <2>2. SameLocal(locals, b)
    BY <2>1 DEF SameLocal
  <2> QED
    BY <2>2 DEF b
<1> QED
  BY <1>1, <1>2, <1>3, <1>4

LEMMA OtherNodes ==
  ASSUME Form, NEW x
  PROVE  /\ SameNode(bee, [bee EXCEPT !.tags = x])
         /\ SameNode(bee, [bee EXCEPT !.pins = x])
         /\ SameNode(bee, [bee EXCEPT !.usable = x])
<1>0. bee = [tags |-> bee.tags, pins |-> bee.pins, usable |-> bee.usable,
              bought |-> bee.bought, depth |-> bee.depth, queued |-> bee.queued,
              toppedUp |-> bee.toppedUp, feed |-> bee.feed]
  BY DEF Form
<1>1. SameNode(bee, [bee EXCEPT !.tags = x])
  <2> DEFINE b == [bee EXCEPT !.tags = x]
  <2>1. b = [tags |-> x, pins |-> bee.pins, usable |-> bee.usable, bought |-> bee.bought,
            depth |-> bee.depth, queued |-> bee.queued, toppedUp |-> bee.toppedUp, feed
            |-> bee.feed]
    BY <1>0
  <2> HIDE DEF b
  <2>2. SameNode(bee, b)
    BY <2>1 DEF SameNode
  <2> QED
    BY <2>2 DEF b
<1>2. SameNode(bee, [bee EXCEPT !.pins = x])
  <2> DEFINE b == [bee EXCEPT !.pins = x]
  <2>1. b = [tags |-> bee.tags, pins |-> x, usable |-> bee.usable, bought |-> bee.bought,
            depth |-> bee.depth, queued |-> bee.queued, toppedUp |-> bee.toppedUp, feed
            |-> bee.feed]
    BY <1>0
  <2> HIDE DEF b
  <2>2. SameNode(bee, b)
    BY <2>1 DEF SameNode
  <2> QED
    BY <2>2 DEF b
<1>3. SameNode(bee, [bee EXCEPT !.usable = x])
  <2> DEFINE b == [bee EXCEPT !.usable = x]
  <2>1. b = [tags |-> bee.tags, pins |-> bee.pins, usable |-> x, bought |-> bee.bought,
            depth |-> bee.depth, queued |-> bee.queued, toppedUp |-> bee.toppedUp, feed
            |-> bee.feed]
    BY <1>0
  <2> HIDE DEF b
  <2>2. SameNode(bee, b)
    BY <2>1 DEF SameNode
  <2> QED
    BY <2>2 DEF b
<1> QED
  BY <1>1, <1>2, <1>3

(* To the next check, or to the same one again.                            *)
Onward ==
  \/ at' = at
  \/ \E i \in 1..28 \ {8, 9, 19} : at = Checks[i] /\ at' = Checks[i + 1]

LEMMA OnwardForm ==
  ASSUME Form, Onward
  PROVE  /\ at' \in {Checks[i] : i \in 1..29} \cup Ends
         /\ at' # at => at' \notin Ends \cup {"feedFetch"}
         /\ \A n \in 1..29 : Before(n)' => Before(n)
         /\ Before(8) <=> Before(8)'
         /\ Before(9) <=> Before(9)'
<1>1. CASE at' = at
  BY <1>1 DEF Form, Before
<1>2. ASSUME NEW i \in 1..28 \ {8, 9, 19}, at = Checks[i], at' = Checks[i + 1]
      PROVE  /\ at' \in {Checks[k] : k \in 1..29} \cup Ends
             /\ at' \notin Ends \cup {"feedFetch"}
             /\ \A n \in 1..29 : Before(n)' => Before(n)
             /\ Before(8) <=> Before(8)'
             /\ Before(9) <=> Before(9)'
  <2>1. i \in 1..29 /\ i + 1 \in 1..29 /\ i + 1 # 20
    OBVIOUS
  <2>2. at' \notin Ends
    BY <1>2, <2>1, NoEnd
  <2>3. at' # "feedFetch"
    <3>1. 20 \in 1..29 /\ Checks[20] = "feedFetch"
      BY Numbers
    <3>2. Checks[i + 1] # Checks[20]
      BY <2>1, <3>1, Distinct
    <3> QED
      BY <1>2, <3>1, <3>2
  <2>4. ASSUME NEW n \in 1..29
        PROVE  (Before(n) <=> i <= n) /\ (Before(n)' <=> i + 1 <= n)
    <3>1. Before(n) <=> i <= n
      BY <1>2, <2>1, Place
    <3>2. ASSUME NEW k \in 1..29 PROVE Checks[i + 1] = Checks[k] <=> k = i + 1
      BY <2>1, Distinct
    <3>3. Before(n)' <=> i + 1 <= n
      BY <1>2, <2>1, <3>2 DEF Before
    <3> QED
      BY <3>1, <3>3
  <2> QED
    BY <1>2, <2>1, <2>2, <2>3, <2>4
<1> QED
  BY <1>1, <1>2 DEF Onward

LEMMA OnwardStep ==
  ASSUME CheckInv, Onward, env' = env, skipped' = skipped, cause' = cause,
         fail' \in {fail, "some"},
         SameNode(bee, bee'), SameLocal(locals, locals'), at # "exit0"
  PROVE  CheckInv'
<1>1. /\ at' \in {Checks[i] : i \in 1..29} \cup Ends
      /\ at' # at => at' \notin Ends \cup {"feedFetch"}
      /\ \A n \in 1..29 : Before(n)' => Before(n)
      /\ Before(8) <=> Before(8)'
      /\ Before(9) <=> Before(9)'
  BY OnwardForm DEF CheckInv
<1>2. Form'
  <2>1. at' # "exit0"
    <3>1. "exit0" \in Ends
      BY DEF Ends
    <3> QED
      BY <1>1, <3>1
  <2> QED
    BY <1>1, <2>1 DEF CheckInv, Form, SameNode, SameLocal
<1>3. Money'
  BY <1>1 DEF CheckInv, Money, SameNode, SameLocal
<1>4. Explained'
  BY <1>1 DEF CheckInv, Form, Explained, SameLocal
<1>5. Fetched'
  BY <1>1, SMTT(30) DEF CheckInv, Fetched, SameNode, SameLocal
<1> QED
  BY <1>2, <1>3, <1>4, <1>5 DEF CheckInv

LEMMA Turns ==
  ASSUME NEW i \in 1..28 \ {8, 9, 19}, at = Checks[i], Passes \/ Fails
  PROVE  Onward /\ fail' \in {fail, "some"} /\ at # "exit0"
<1>1. i \in 1..28 /\ i \in 1..29
  OBVIOUS
<1>2. at' = Checks[i + 1]
  BY <1>1, Next1 DEF Passes, Fails
<1>3. at # "exit0"
  BY <1>1, NoEnd DEF Ends
<1> QED
  BY <1>2, <1>3 DEF Onward, Passes, Fails

LEMMA ReadStep ==
  ASSUME CheckInv, NEW i \in 1..28 \ {8, 9, 19}, at = Checks[i], Passes \/ Fails,
         UNCHANGED <<env, bee, skipped, cause>>, SameLocal(locals, locals')
  PROVE  CheckInv'
<1>1. SameNode(bee, bee')
  BY SameSame DEF CheckInv
<1> QED
  BY <1>1, Turns, OnwardStep

LEMMA CallStep ==
  ASSUME CheckInv, NEW i \in 1..28 \ {8, 9, 19}, at = Checks[i], NEW done, NEW known,
         Calls(done, known), SameNode(bee, done), SameLocal(locals, known)
  PROVE  CheckInv'
<1>1. SameNode(bee, bee') /\ SameLocal(locals, locals')
  BY SameSame DEF CheckInv, Calls
<1>2. (Passes \/ Fails) /\ UNCHANGED <<env, skipped, cause>>
  BY DEF Calls
<1> QED
  BY <1>1, <1>2, Turns, OnwardStep

LEMMA ReadingSteps ==
  ASSUME CheckInv,
         \/ NodeInfo \/ Accounting \/ Postage \/ GetTag \/ Offline \/ BatchReads
         \/ ReadBack \/ GetPin \/ SocRoundTrip \/ StreamRoundTrip \/ EncryptedRoundTrip
         \/ PssSmoke \/ Mine \/ Diluted
  PROVE  CheckInv'
<1>1. UNCHANGED <<env, bee, skipped, cause>> /\ (Passes \/ Fails)
  BY DEF NodeInfo, Accounting, Postage, GetTag, Offline, BatchReads, ReadBack, GetPin,
     SocRoundTrip, StreamRoundTrip, EncryptedRoundTrip, PssSmoke, Mine, Diluted, Reads
<1>2. SameLocal(locals, locals')
  <2>1. SameLocal(locals, locals) /\ SameLocal(locals, [locals EXCEPT !.mined = "yes"])
    BY SameSame, OtherLocals DEF CheckInv
  <2> QED
    BY <2>1 DEF NodeInfo, Accounting, Postage, GetTag, Offline, BatchReads, ReadBack, GetPin,
       SocRoundTrip, StreamRoundTrip, EncryptedRoundTrip, PssSmoke, Mine, Diluted, Reads
<1>3. at \in {"info", "accounting", "postage", "getTag", "hash", "batchReads", "readBack",
              "getPin", "soc", "stream", "encrypted", "pss", "mine", "diluted"}
  BY DEF NodeInfo, Accounting, Postage, GetTag, Offline, BatchReads, ReadBack, GetPin,
     SocRoundTrip, StreamRoundTrip, EncryptedRoundTrip, PssSmoke, Mine, Diluted, Run
<1>4. PICK i \in 1..28 \ {8, 9, 19} : at = Checks[i]
  BY <1>3, Numbers
<1> QED
  BY <1>1, <1>2, <1>4, ReadStep

LEMMA CallingSteps ==
  ASSUME CheckInv, CreateTag \/ DeleteTag \/ UploadData \/ Pin \/ Unpin
  PROVE  CheckInv'
<1>1. PICK i \in 1..28 \ {8, 9, 19} : at = Checks[i]
  <2>1. at \in {"createTag", "deleteTag", "upload", "pin", "unpin"}
    BY DEF CreateTag, DeleteTag, UploadData, Pin, Unpin, Run
  <2> QED
    BY <2>1, Numbers
<1>2. /\ \A t : SameNode(bee, [bee EXCEPT !.tags = t])
      /\ \A t : SameNode(bee, [bee EXCEPT !.pins = t])
      /\ SameNode(bee, bee) /\ SameLocal(locals, locals)
      /\ \A t : SameLocal(locals, [locals EXCEPT !.tag = t])
      /\ \A t : SameLocal(locals, [locals EXCEPT !.data = t])
  BY SameSame, OtherLocals, OtherNodes DEF CheckInv
<1>3. CASE Fails /\ UNCHANGED <<env, locals, bee, skipped, cause>>
  BY <1>1, <1>2, <1>3, ReadStep
<1>4. CASE \E done, known : Calls(done, known) /\ SameNode(bee, done) /\ SameLocal(locals, known)
  BY <1>1, <1>4, CallStep
<1>5. CASE CreateTag
  BY <1>2, <1>4, <1>5 DEF CreateTag
<1>6. CASE DeleteTag
  BY <1>2, <1>3, <1>4, <1>6 DEF DeleteTag
<1>7. CASE UploadData
  BY <1>2, <1>4, <1>7 DEF UploadData
<1>8. CASE Pin
  BY <1>2, <1>3, <1>4, <1>8 DEF Pin
<1>9. CASE Unpin
  BY <1>2, <1>3, <1>4, <1>9 DEF Unpin
<1> QED
  BY <1>5, <1>6, <1>7, <1>8, <1>9

-----------------------------------------------------------------------------
(* The batch.                                                              *)

LEMMA Spots ==
  ASSUME NEW i \in 1..28, at' = Checks[i + 1]
  PROVE  /\ \A n \in 1..29 : Before(n)' <=> i + 1 <= n
         /\ at' \in {Checks[k] : k \in 1..29} /\ at' # "exit0"
         /\ at' = "feedFetch" <=> i = 19
<1>1. i + 1 \in 1..29 /\ 20 \in 1..29
  OBVIOUS
<1>2. ASSUME NEW k \in 1..29 PROVE Checks[i + 1] = Checks[k] <=> k = i + 1
  BY <1>1, Distinct
<1>3. \A n \in 1..29 : Before(n)' <=> i + 1 <= n
  BY <1>1, <1>2 DEF Before
<1>4. at' = "feedFetch" <=> i = 19
  <2>1. at' = "feedFetch" <=> 20 = i + 1
    BY <1>1, <1>2, Numbers
  <2> QED
    BY <2>1
<1>5. at' # "exit0"
  BY <1>1, NoEnd DEF Ends
<1> QED
  BY <1>1, <1>3, <1>4, <1>5

LEMMA BatchDone ==
  ASSUME CheckInv, at = "batch", at' = After, env' = env, skipped' = skipped, cause' = cause,
         fail' \in {fail, "some"}, NEW batch \in {"zero", "own", "user"},
         locals' = [locals EXCEPT !.batch = batch] \/ (locals' = locals /\ batch = locals.batch),
         fail' = "none" /\ env.batch # "zero" => batch # "zero",
         \/ bee' = bee
         \/ env.batch = "none" /\ bee' = [bee EXCEPT !.bought = @ + 1]
  PROVE  CheckInv'
<1>1. at = Checks[8] /\ at' = Checks[9]
  BY Numbers, Next1
<1>2. /\ \A n \in 1..29 : Before(n)' <=> 8 + 1 <= n
      /\ at' \in {Checks[k] : k \in 1..29} /\ at' # "exit0" /\ at' # "feedFetch"
  BY <1>1, Spots
<1>3. \A n \in 1..29 : Before(n) <=> 8 <= n
  BY <1>1, Place
<1>4. /\ locals' = [tag |-> locals.tag, batch |-> batch, usable |-> locals.usable,
                   data |-> locals.data, mined |-> locals.mined, round |-> locals.round]
  <2>1. locals = [tag |-> locals.tag, batch |-> locals.batch, usable |-> locals.usable,
                 data |-> locals.data, mined |-> locals.mined, round |-> locals.round]
    BY DEF CheckInv, Form
  <2> QED
    BY <2>1
<1>5. PICK bought \in Nat :
        /\ bee' = [tags |-> bee.tags, pins |-> bee.pins, usable |-> bee.usable,
                    bought |-> bought, depth |-> bee.depth, queued |-> bee.queued,
                    toppedUp |-> bee.toppedUp, feed |-> bee.feed]
        /\ bought <= IF env.batch = "none" THEN 1 ELSE 0
  <2>1. bee = [tags |-> bee.tags, pins |-> bee.pins, usable |-> bee.usable,
                bought |-> bee.bought, depth |-> bee.depth, queued |-> bee.queued,
                toppedUp |-> bee.toppedUp, feed |-> bee.feed]
    BY DEF CheckInv, Form
  <2>2. bee.bought = 0
    BY <1>3 DEF CheckInv, Money
  <2>3. CASE bee' = bee
    BY <2>1, <2>2, <2>3 DEF CheckInv, Form
  <2>4. CASE env.batch = "none" /\ bee' = [bee EXCEPT !.bought = @ + 1]
    <3>1. bee' = [bee EXCEPT !.bought = 1]
      BY <2>2, <2>4
    <3>2. bee' = [tags |-> bee.tags, pins |-> bee.pins, usable |-> bee.usable,
                   bought |-> 1, depth |-> bee.depth, queued |-> bee.queued,
                   toppedUp |-> bee.toppedUp, feed |-> bee.feed]
      BY <2>1, <3>1
    <3>3. 1 \in Nat /\ 1 <= IF env.batch = "none" THEN 1 ELSE 0
      BY <2>4
    <3> QED
      BY <3>2, <3>3
  <2> QED
    BY <2>1, <2>3, <2>4
<1>6. /\ bee'.bought = bought /\ bee'.depth = bee.depth /\ bee'.queued = bee.queued
      /\ bee'.toppedUp = bee.toppedUp /\ bee'.feed = bee.feed
      /\ locals'.batch = batch /\ locals'.usable = locals.usable
  BY <1>4, <1>5
<1>7. Form'
  BY <1>2, <1>4, <1>5, <1>6 DEF CheckInv, Form
<1>8. Money'
  <2>1. ~ Before(8)' /\ Before(26) /\ Before(27)
    BY <1>2, <1>3
  <2>2. \A b \in Batches : bee'.toppedUp[b] = 0
    BY <1>6, <2>1 DEF CheckInv, Money
  <2>3. \A b \in Batches : bee'.toppedUp[b] <= IF locals'.batch = b THEN 1 ELSE 0
    BY <2>2
  <2> QED
    BY <1>5, <1>6, <2>1, <2>2, <2>3 DEF CheckInv, Money
<1>9. Explained'
  BY <1>2, <1>3, <1>6 DEF CheckInv, Explained, Form
<1>10. Fetched'
  BY <1>2, <1>3, <1>6 DEF CheckInv, Fetched
<1> QED
  BY <1>7, <1>8, <1>9, <1>10 DEF CheckInv

LEMMA BatchSteps ==
  ASSUME CheckInv, ReuseBatch \/ BuyStorage
  PROVE  CheckInv'
<1>1. CASE ReuseBatch
  <2> DEFINE batch == IF env.batch = "user" THEN "user" ELSE "zero"
  <2>1. /\ at = "batch" /\ at' = After /\ UNCHANGED <<env, bee, skipped, cause>>
        /\ fail' = IF env.batch = "bad" THEN "some" ELSE fail
        /\ locals' = [locals EXCEPT !.batch = batch]
        /\ env.batch # "none"
    BY <1>1 DEF ReuseBatch, Run, Passes, Fails
  <2>2. batch \in {"zero", "own", "user"}
    OBVIOUS
  <2>3. fail' = "none" /\ env.batch # "zero" => batch # "zero"
    BY <2>1 DEF CheckInv, Form
  <2>4. fail' \in {fail, "some"}
    BY <2>1
  <2> HIDE DEF batch
  <2> QED
    BY <2>1, <2>2, <2>3, <2>4, BatchDone
<1>2. CASE BuyStorage
  <2>1. /\ at = "batch" /\ at' = After /\ UNCHANGED <<env, skipped, cause>>
        /\ env.batch = "none"
        /\ bee' = bee \/ bee' = [bee EXCEPT !.bought = @ + 1]
        /\ \/ fail' = fail /\ locals' = [locals EXCEPT !.batch = "own"]
           \/ fail' = "some" /\ locals' = locals
    BY <1>2 DEF BuyStorage, Run, Calls, Passes, Fails
  <2>2. locals.batch \in {"zero", "own", "user"}
    BY DEF CheckInv, Form
  <2>3. CASE fail' = fail /\ locals' = [locals EXCEPT !.batch = "own"]
    BY <2>1, <2>3, BatchDone
  <2>4. CASE fail' = "some" /\ locals' = locals
    BY <2>1, <2>2, <2>4, BatchDone
  <2> QED
    BY <2>1, <2>3, <2>4
<1> QED
  BY <1>1, <1>2

LEMMA WaitDone ==
  ASSUME CheckInv, at = "wait", at' = After, UNCHANGED <<env, bee, cause>>,
         fail' \in {fail, "some"},
         locals' = [tag |-> locals'.tag, batch |-> locals.batch, usable |-> locals'.usable,
                   data |-> locals'.data, mined |-> locals'.mined, round |-> locals'.round],
         locals'.usable \in {"no", "yes"},
         fail' = "none" /\ env.batch # "zero" => skipped' = skipped /\ locals'.usable = "yes"
  PROVE  CheckInv'
<1>1. at = Checks[9] /\ at' = Checks[10]
  BY Numbers, Next1
<1>2. /\ \A n \in 1..29 : Before(n)' <=> 9 + 1 <= n
      /\ at' \in {Checks[k] : k \in 1..29} /\ at' # "exit0" /\ at' # "feedFetch"
  BY <1>1, Spots
<1>3. \A n \in 1..29 : Before(n) <=> 9 <= n
  BY <1>1, Place
<1>4. locals'.batch = locals.batch
  OBVIOUS
<1>5. Form'
  BY <1>2, <1>4 DEF CheckInv, Form
<1>6. Money'
  BY <1>2, <1>3, <1>4 DEF CheckInv, Money
<1>7. Explained'
  BY <1>2, <1>3, <1>4 DEF CheckInv, Explained, Form
<1>8. Fetched'
  BY <1>2, <1>3 DEF CheckInv, Fetched
<1> QED
  BY <1>5, <1>6, <1>7, <1>8 DEF CheckInv

LEMMA WaitSteps ==
  ASSUME CheckInv, WaitUsable \/ WaitNoBatch
  PROVE  CheckInv'
<1>0. /\ at = "wait" /\ at # "exit0"
      /\ locals = [tag |-> locals.tag, batch |-> locals.batch, usable |-> locals.usable,
                  data |-> locals.data, mined |-> locals.mined, round |-> locals.round]
      /\ locals.usable \in {"no", "yes"}
  BY DEF CheckInv, Form, WaitUsable, WaitNoBatch, Run
<1>1. \A x : /\ SameLocal(locals, [locals EXCEPT !.round = x])
             /\ SameNode(bee, bee)
  BY OtherLocals, SameSame DEF CheckInv
<1>2. ASSUME NEW x, Fails, UNCHANGED <<env, bee, skipped, cause>>,
             locals' = [locals EXCEPT !.round = x]
      PROVE  CheckInv'
  <2>1. SameLocal(locals, locals')
    BY <1>1, <1>2
  <2>2. fail' = "some" /\ at' = After
    BY <1>2 DEF Fails
  <2>3. /\ locals' = [tag |-> locals'.tag, batch |-> locals.batch, usable |-> locals'.usable,
                     data |-> locals'.data, mined |-> locals'.mined, round |-> locals'.round]
        /\ locals'.usable \in {"no", "yes"}
    BY <1>0, <2>1 DEF SameLocal
  <2> QED
    BY <1>0, <1>2, <2>2, <2>3, WaitDone
<1>3. ASSUME NEW x, at' = at, fail' = fail, UNCHANGED <<env, bee, skipped, cause>>,
             locals' = [locals EXCEPT !.round = x]
      PROVE  CheckInv'
  <2>1. Onward /\ SameLocal(locals, locals') /\ SameNode(bee, bee')
    BY <1>1, <1>3 DEF Onward
  <2> QED
    BY <1>0, <1>3, <2>1, OnwardStep
<1>4. ASSUME Passes, UNCHANGED <<env, bee, skipped, cause>>,
             locals' = [locals EXCEPT !.usable = "yes", !.round = 0]
      PROVE  CheckInv'
  <2>1. locals' = [tag |-> locals.tag, batch |-> locals.batch, usable |-> "yes",
                  data |-> locals.data, mined |-> locals.mined, round |-> 0]
    BY <1>0, <1>4
  <2>2. /\ locals' = [tag |-> locals'.tag, batch |-> locals.batch, usable |-> locals'.usable,
                     data |-> locals'.data, mined |-> locals'.mined, round |-> locals'.round]
        /\ locals'.usable = "yes"
    BY <2>1
  <2> QED
    BY <1>0, <1>4, <2>2, WaitDone DEF Passes
<1>5. CASE WaitUsable
  BY <1>2, <1>3, <1>4, <1>5 DEF WaitUsable, GivesUp, Further
<1>6. CASE WaitNoBatch
  <2>1. /\ locals.batch = "zero" /\ at' = After /\ fail' = fail
        /\ UNCHANGED <<env, locals, bee, cause>>
    BY <1>6 DEF WaitNoBatch, Passes
  <2>2. at = Checks[9] /\ 9 \in 1..29 /\ 8 \in 1..29
    BY <1>0, Numbers
  <2>3. ~ Before(8)
    BY <2>2, Place
  <2>4. ~ (fail' = "none" /\ env.batch # "zero")
    BY <2>1, <2>3 DEF CheckInv, Explained
  <2> QED
    BY <1>0, <2>1, <2>4, WaitDone
<1> QED
  BY <1>5, <1>6

(* What is skipped without a usable batch had a failure, or an id of zeros,*)
(* before it.                                                              *)
LEMMA SkipStep ==
  ASSUME CheckInv, Skip
  PROVE  CheckInv'
<1>1. PICK i \in 10..28 : at = Checks[i]
  BY DEF Skip, Gated
<1>2. /\ locals.usable = "no" /\ fail' = fail /\ UNCHANGED <<env, locals, bee, cause>>
      /\ at' = Checks[i + 1]
  BY <1>1, Next1 DEF Skip, Passes
<1>3. \A n \in 1..29 : Before(n) <=> i <= n
  BY <1>1, Place
<1>4. /\ \A n \in 1..29 : Before(n)' <=> i + 1 <= n
      /\ at' \in {Checks[k] : k \in 1..29} /\ at' # "exit0"
  BY <1>2, Spots
<1>5. \A n \in 1..29 : Before(n)' => Before(n)
  BY <1>3, <1>4
<1>6. ~ Before(9)
  BY <1>3
<1>7. Form'
  BY <1>2, <1>4 DEF CheckInv, Form
<1>8. Money'
  BY <1>2, <1>5 DEF CheckInv, Money
<1>9. Explained'
  BY <1>2, <1>6 DEF CheckInv, Explained
<1>10. Fetched'
  <2>1. Before(19)' => Before(19)
    BY <1>5
  <2>2. locals'.usable = "no"
    BY <1>2
  <2> QED
    BY <1>2, <2>1, <2>2 DEF CheckInv, Fetched
<1> QED
  BY <1>7, <1>8, <1>9, <1>10 DEF CheckInv

-----------------------------------------------------------------------------
(* The feed.                                                               *)

LEMMA FeedUpdateStep ==
  ASSUME CheckInv, FeedUpdate, env.signer # "bad"
  PROVE  CheckInv'
<1> DEFINE feed == bee.feed
           seen(v) == cause \cup {c \in {"lag"} : v < Len(feed)}
           written(v) == IF v + 1 > Len(feed) THEN Append(feed, "mine")
                         ELSE [feed EXCEPT ![v + 1] = "mine"]
<1>1. PICK v \in 0..Len(feed) :
        LET done == [bee EXCEPT !.feed = written(v)] IN
        \/ Passes /\ bee' = done /\ cause' = seen(v)
        \/ Fails /\ bee' \in {bee, done} /\ cause' = seen(v) \cup {"failed"}
  BY DEF FeedUpdate, IndexAfter, Seen
<1>2. at = "feedUpdate" /\ UNCHANGED <<env, locals, skipped>>
  BY DEF FeedUpdate, Run
<1>3. feed \in Seq(Updates) /\ Len(feed) \in Nat
  BY LenProperties DEF CheckInv, Form
<1> HIDE DEF feed
<1>4. at = Checks[19] /\ at' = Checks[20]
  BY <1>1, <1>2, Numbers, Next1 DEF Passes, Fails
<1>5. /\ \A n \in 1..29 : Before(n)' <=> 19 + 1 <= n
      /\ at' \in {Checks[k] : k \in 1..29} /\ at' # "exit0"
  BY <1>4, Spots
<1>6. \A n \in 1..29 : Before(n) <=> 19 <= n
  <2>1. 19 \in 1..29
    OBVIOUS
  <2> QED
    BY <1>4, <2>1, Place
<1>7. written(v) \in Seq(Updates)
  <2>1. "mine" \in Updates
    BY DEF Updates
  <2>2. CASE v + 1 > Len(feed)
    BY <1>3, <2>1, <2>2, AppendProperties
  <2>3. CASE ~ (v + 1 > Len(feed))
    <3>1. v + 1 \in 1..Len(feed)
      BY <1>3, <2>3
    <3> QED
      BY <1>3, <2>1, <2>3, <3>1, ExceptSeq
  <2> QED
    BY <2>2, <2>3
<1> HIDE DEF written
<1>8. /\ bee' = [tags |-> bee.tags, pins |-> bee.pins, usable |-> bee.usable,
                  bought |-> bee.bought, depth |-> bee.depth, queued |-> bee.queued,
                  toppedUp |-> bee.toppedUp, feed |-> bee'.feed]
      /\ bee'.feed \in {feed, written(v)}
  <2>1. bee = [tags |-> bee.tags, pins |-> bee.pins, usable |-> bee.usable,
                bought |-> bee.bought, depth |-> bee.depth, queued |-> bee.queued,
                toppedUp |-> bee.toppedUp, feed |-> bee.feed]
    BY DEF CheckInv, Form
  <2> DEFINE done == [bee EXCEPT !.feed = written(v)]
  <2>2. done = [tags |-> bee.tags, pins |-> bee.pins, usable |-> bee.usable,
                bought |-> bee.bought, depth |-> bee.depth, queued |-> bee.queued,
                toppedUp |-> bee.toppedUp, feed |-> written(v)]
    BY <2>1
  <2>3. bee' \in {bee, done}
    BY <1>1
  <2> HIDE DEF done
  <2> QED
    BY <2>1, <2>2, <2>3 DEF feed
<1>9. /\ bee'.bought = bee.bought /\ bee'.depth = bee.depth /\ bee'.queued = bee.queued
      /\ bee'.toppedUp = bee.toppedUp
  BY <1>8
<1>10. fail' \in {fail, "some"}
  BY <1>1 DEF Passes, Fails
<1>11. Form'
  BY <1>2, <1>3, <1>5, <1>7, <1>8, <1>9, <1>10 DEF CheckInv, Form
<1>12. Money'
  <2>1. ~ Before(8)' /\ (Before(26)' => Before(26)) /\ (Before(27)' => Before(27))
    BY <1>5, <1>6
  <2> QED
    BY <1>2, <1>9, <2>1 DEF CheckInv, Money
<1>13. Explained'
  BY <1>2, <1>5, <1>6, <1>10 DEF CheckInv, Form, Explained
<1>14. Fetched'
  <2>0. Before(19) /\ ~ Before(19)'
    BY <1>5, <1>6
  <2>1. "mismatch" \notin cause' /\ ~ Before(19)'
    BY <1>1, <2>0 DEF CheckInv, Fetched
  <2>2. ASSUME env.signer # "given" PROVE bee'.feed \in {<<>>, <<"mine">>}
    <3>0. feed = <<>>
      BY <2>0, <2>2 DEF CheckInv, Fetched, feed
    <3>1. feed = <<>> /\ v = 0 /\ Len(feed) = 0
      BY <1>3, <3>0, EmptySeq
    <3>2. written(v) = <<"mine">>
      BY <3>1 DEF written
    <3> QED
      BY <1>8, <3>1, <3>2
  <2>3. ASSUME cause' \cap Excuses = {}
        PROVE  bee'.feed # <<>> /\ bee'.feed[Len(bee'.feed)] = "mine"
    <3>1. "lag" \notin cause' /\ "failed" \notin cause'
      BY <2>3 DEF Excuses
    <3>2. v = Len(feed) /\ bee' = [bee EXCEPT !.feed = written(v)]
      BY <1>1, <1>3, <3>1
    <3>3. bee'.feed = written(v)
      BY <3>2 DEF CheckInv, Form
    <3>4. written(v) = Append(feed, "mine")
      BY <1>3, <3>2 DEF written
    <3>5. "mine" \in Updates
      BY DEF Updates
    <3> QED
      BY <1>3, <3>3, <3>4, <3>5, AppendProperties
  <2> QED
    BY <1>2, <2>1, <2>2, <2>3 DEF Fetched
<1> QED
  BY <1>11, <1>12, <1>13, <1>14 DEF CheckInv

(* Only an update that is not the one of this run is a mismatch.           *)
LEMMA FeedFetchStep ==
  ASSUME CheckInv, FeedFetch
  PROVE  CheckInv'
<1>1. /\ at = "feedFetch" /\ locals.usable = "yes"
      /\ UNCHANGED <<env, bee, skipped>>
  <2>1. at = Checks[20] /\ 20 \in 10..28
    BY Numbers DEF FeedFetch, Run
  <2> QED
    BY <2>1 DEF FeedFetch, Run, Gated
<1>2. at = Checks[20] /\ at # "exit0"
  BY <1>1, Numbers
<1>3. \A x : SameLocal(locals, [locals EXCEPT !.round = x])
  BY OtherLocals DEF CheckInv
<1>4. SameLocal(locals, locals') /\ SameNode(bee, bee')
  BY <1>1, <1>3, SameSame DEF FeedFetch, CheckInv
<1>5. (at' = at /\ fail' = fail) \/ Passes \/ Fails
  BY DEF FeedFetch
<1>6. Onward /\ fail' \in {fail, "some"}
  <2>1. CASE at' = at /\ fail' = fail
    BY <2>1 DEF Onward
  <2>2. CASE Passes \/ Fails
    BY <1>2, <2>2, Turns
  <2> QED
    BY <1>5, <2>1, <2>2
<1>7. CASE cause' = cause
  BY <1>1, <1>2, <1>4, <1>6, <1>7, OnwardStep
<1>8. ASSUME NEW v \in 1..Len(bee.feed),
             cause' = Seen(v) \cup {c \in {"mismatch"} : bee.feed[v] # "mine"},
             Passes \/ Fails
      PROVE  CheckInv'
  <2>1. at' = Checks[21] /\ \A n \in 1..29 : Before(n)' <=> 20 + 1 <= n
    <3>1. at' = Checks[21]
      BY <1>2, <1>8, Next1 DEF Passes, Fails
    <3>2. 20 \in 1..28 /\ 20 + 1 = 21
      OBVIOUS
    <3> QED
      BY <3>1, <3>2, Spots
  <2>2. /\ at' \in {Checks[k] : k \in 1..29} /\ at' # "exit0" /\ at' # "feedFetch"
    <3>1. 20 \in 1..28 /\ 20 + 1 = 21 /\ 20 # 19
      OBVIOUS
    <3>2. at' = Checks[20 + 1]
      BY <2>1, <3>1
    <3>3. at' \in {Checks[k] : k \in 1..29} /\ at' # "exit0" /\ (at' = "feedFetch" <=> 20 = 19)
      BY <3>1, <3>2, Spots
    <3> QED
      BY <3>1, <3>3
  <2>3. \A n \in 1..29 : Before(n) <=> 20 <= n
    <3>1. 20 \in 1..29
      OBVIOUS
    <3> QED
      BY <1>2, <3>1, Place
  <2>4. Form'
    BY <1>1, <1>4, <1>6, <2>2 DEF CheckInv, Form, SameLocal
  <2>5. Money'
    <3>1. ~ Before(8)' /\ (Before(26)' => Before(26)) /\ (Before(27)' => Before(27))
      BY <2>1, <2>3
    <3> QED
      BY <1>1, <1>4, <3>1 DEF CheckInv, Money, SameLocal
  <2>6. Explained'
    BY <1>1, <1>4, <1>6, <2>1, <2>3 DEF CheckInv, Form, Explained, SameLocal
  <2>7. Fetched'
    <3>1. /\ cause \subseteq cause'
          /\ cause' = Seen(v) \cup {c \in {"mismatch"} : bee.feed[v] # "mine"}
      BY <1>8 DEF Seen
    <3>2. ASSUME "mismatch" \notin cause, "mismatch" \in cause'
          PROVE  env.signer = "given" /\ cause' \cap Excuses # {}
      <4>1. bee.feed[v] # "mine"
        BY <1>8, <3>2 DEF Seen
      <4>2. env.signer = "given"
        <5>1. bee.feed \notin {<<>>, <<"mine">>}
          <6>1. bee.feed # <<>>
            BY <1>8, EmptySeq
          <6>2. bee.feed # <<"mine">>
            BY <1>8, <4>1
          <6> QED
            BY <6>1, <6>2
        <5> QED
          BY <5>1 DEF CheckInv, Fetched
      <4>3. ASSUME cause' \cap Excuses = {} PROVE FALSE
        <5>1. cause \cap Excuses = {} /\ "lag" \notin cause'
          BY <3>1, <4>3 DEF Excuses
        <5>2. bee.feed[Len(bee.feed)] = "mine"
          BY <1>1, <5>1 DEF CheckInv, Fetched
        <5>3. Len(bee.feed) \in Nat
          BY LenProperties DEF CheckInv, Form
        <5>4. ~ (v < Len(bee.feed))
          BY <1>8, <5>1 DEF Seen
        <5>5. v = Len(bee.feed)
          BY <5>3, <5>4
        <5> QED
          BY <4>1, <5>2, <5>5
      <4> QED
        BY <4>2, <4>3
    <3>3. "mismatch" \in cause' => env.signer = "given" /\ cause' \cap Excuses # {}
      BY <3>1, <3>2 DEF CheckInv, Fetched
    <3> QED
      BY <1>1, <2>1, <2>2, <3>3, SMTT(30) DEF CheckInv, Fetched
  <2> QED
    BY <2>4, <2>5, <2>6, <2>7 DEF CheckInv
<1> QED
  BY <1>7, <1>8 DEF FeedFetch

LEMMA FeedRetrievableStep ==
  ASSUME CheckInv, FeedRetrievable
  PROVE  CheckInv'
<1>1. /\ at = "feedRetrievable" /\ at = Checks[21] /\ at # "exit0"
      /\ UNCHANGED <<env, bee, skipped, cause>>
  BY Numbers DEF FeedRetrievable, Run
<1>2. \A x : SameLocal(locals, [locals EXCEPT !.round = x])
  BY OtherLocals DEF CheckInv
<1>3. SameLocal(locals, locals') /\ SameNode(bee, bee')
  <2>1. locals' = locals \/ \E x : locals' = [locals EXCEPT !.round = x]
    BY Zenon DEF FeedRetrievable, Passes
  <2>2. Form
    BY DEF CheckInv
  <2> HIDE DEF CheckInv
  <2>3. SameLocal(locals, locals')
    BY <1>2, <2>1, <2>2, SameSame, Zenon
  <2> QED
    BY <1>1, <2>2, <2>3, SameSame
<1>4. (at' = at /\ fail' = fail) \/ Passes \/ Fails
  BY DEF FeedRetrievable
<1>5. Onward /\ fail' \in {fail, "some"}
  <2>1. CASE at' = at /\ fail' = fail
    BY <2>1 DEF Onward
  <2>2. CASE Passes \/ Fails
    BY <1>1, <2>2, Turns
  <2> QED
    BY <1>4, <2>1, <2>2
<1> QED
  BY <1>1, <1>3, <1>5, OnwardStep

-----------------------------------------------------------------------------
(* The end, which may come early.                                          *)

LEMMA EndStep ==
  ASSUME CheckInv, NEW i \in 10..29, at = Checks[i],
         \/ at' \in {"exit1", "exit2", "panic"}
         \/ at' = "exit0" /\ fail' = "none"
         \/ at' = "end",
         fail' \in {fail, "some"},
         UNCHANGED <<env, cause>>, skipped' \subseteq skipped \cup {"dilute"},
         SameNode(bee, bee'), SameLocal(locals, locals')
  PROVE  CheckInv'
<1>1. /\ at' \in Ends \cup {Checks[29]}
      /\ at' = "exit0" => fail' = "none"
  BY Numbers DEF Ends
<1>2. ASSUME NEW n \in 1..28 PROVE ~ Before(n)'
  <2>1. \A k \in 1..n : Checks[k] \notin Ends /\ Checks[k] # Checks[29]
    <3>1. ASSUME NEW k \in 1..n PROVE Checks[k] \notin Ends /\ Checks[k] # Checks[29]
      <4>1. k \in 1..29 /\ 29 \in 1..29 /\ k # 29
        OBVIOUS
      <4> QED
        BY <4>1, NoEnd, Distinct
    <3> QED
      BY <3>1
  <2> QED
    BY <1>1, <2>1 DEF Before
<1>3. at' # "feedFetch"
  <2>1. 20 \in 1..29 /\ 29 \in 1..29 /\ 20 # 29 /\ Checks[20] = "feedFetch"
    BY Numbers
  <2> QED
    BY <1>1, <2>1, NoEnd, Distinct
<1>4. ~ Before(8) /\ ~ Before(9)
  <2>1. i \in 1..29 /\ 8 \in 1..29 /\ 9 \in 1..29 /\ ~ (i <= 8) /\ ~ (i <= 9)
    OBVIOUS
  <2> QED
    BY <2>1, Place
<1>5. ~ Before(8)' /\ ~ Before(19)' /\ ~ Before(26)' /\ ~ Before(27)'
  BY <1>2
<1>6. Form'
  BY <1>1 DEF CheckInv, Form, SameNode, SameLocal
<1>7. Money'
  BY <1>5 DEF CheckInv, Money, SameNode, SameLocal
<1>8. Explained'
  BY <1>4 DEF CheckInv, Form, Explained, SameLocal
<1>9. Fetched'
  BY <1>3, <1>5 DEF CheckInv, Fetched, SameNode, SameLocal
<1> QED
  BY <1>6, <1>7, <1>8, <1>9 DEF CheckInv

LEMMA LastSteps ==
  ASSUME CheckInv,
         \/ Addresses \/ Gsoc \/ Diluted \/ End
         \/ FeedUpdate /\ env.signer = "bad"
         \/ Dilute /\ ~ MayDilute
  PROVE  CheckInv'
<1>1. SameNode(bee, bee) /\ SameLocal(locals, locals)
  BY SameSame DEF CheckInv
<1>2. CASE Addresses
  <2>1. at = Checks[23] /\ 23 \in 10..29 /\ 23 \in 1..28 \ {8, 9, 19}
    BY <1>2, Numbers DEF Addresses, Run
  <2>2. UNCHANGED <<env, locals, bee, skipped, cause>> /\ (Passes \/ Dies)
    BY <1>2 DEF Addresses
  <2> QED
    BY <1>1, <2>1, <2>2, ReadStep, EndStep DEF Dies
<1>3. CASE Gsoc
  <2>1. at = Checks[25] /\ 25 \in 10..29 /\ 25 \in 1..28 \ {8, 9, 19}
    BY <1>3, Numbers DEF Gsoc, Run
  <2>2. UNCHANGED <<env, locals, bee, skipped, cause>>
    BY <1>3 DEF Gsoc
  <2>3. Passes \/ Fails \/ (at' = "panic" /\ fail' = fail)
    BY <1>3 DEF Gsoc
  <2> QED
    BY <1>1, <2>1, <2>2, <2>3, ReadStep, EndStep
<1>4. CASE End
  <2>1. at = Checks[29] /\ 29 \in 10..29
    BY <1>4, Numbers DEF End
  <2>2. UNCHANGED <<env, fail, locals, bee, skipped, cause>>
    BY <1>4 DEF End
  <2>3. \/ at' \in {"exit1", "exit2", "panic"}
        \/ at' = "exit0" /\ fail' = "none"
    BY <1>4 DEF End
  <2> QED
    BY <1>1, <2>1, <2>2, <2>3, EndStep
<1>5. CASE FeedUpdate /\ env.signer = "bad"
  <2>1. at = Checks[19] /\ 19 \in 10..29
    BY <1>5, Numbers DEF FeedUpdate, Run
  <2>2. Dies /\ UNCHANGED <<env, locals, bee, skipped, cause>>
    BY <1>5 DEF FeedUpdate
  <2> QED
    BY <1>1, <2>1, <2>2, EndStep DEF Dies
<1>6. CASE Dilute /\ ~ MayDilute
  <2>1. at = "dilute" /\ at = Checks[27] /\ 27 \in 10..29
    BY <1>6, Numbers DEF Dilute, Run
  <2>2. /\ at' = "end" /\ fail' = fail /\ skipped' = skipped \cup {"dilute"}
        /\ UNCHANGED <<env, locals, bee, cause>>
    BY <1>6, <2>1 DEF Dilute
  <2> QED
    BY <1>1, <2>1, <2>2, EndStep
<1>7. CASE Diluted
  BY <1>7, ReadingSteps
<1> QED
  BY <1>2, <1>3, <1>4, <1>5, <1>6, <1>7

-----------------------------------------------------------------------------
(* The chain.                                                              *)

LEMMA TopUpStep ==
  ASSUME CheckInv, TopUp
  PROVE  CheckInv'
<1> DEFINE up == [bee.toppedUp EXCEPT ![locals.batch] = bee.toppedUp[locals.batch] + 1]
<1>1. /\ at = "topUp" /\ (Passes \/ Fails)
      /\ bee' = bee \/ bee' = [bee EXCEPT !.toppedUp = up]
      /\ UNCHANGED <<env, locals, skipped, cause>>
  BY DEF TopUp, Run, Calls
<1>2. at = Checks[26] /\ at' = Checks[27] /\ 26 \in 1..28 /\ 26 \in 1..29 /\ 26 + 1 = 27
  BY <1>1, Numbers, Next1 DEF Passes, Fails
<1>3. \A n \in 1..29 : Before(n) <=> 26 <= n
  BY <1>2, Place
<1>4. /\ \A n \in 1..29 : Before(n)' <=> 26 + 1 <= n
      /\ at' \in {Checks[k] : k \in 1..29} /\ at' # "exit0"
      /\ at' = "feedFetch" <=> 26 = 19
  BY <1>2, Spots
<1>5. /\ ~ Before(8) /\ ~ Before(9) /\ ~ Before(19) /\ Before(26) /\ Before(27)
      /\ ~ Before(8)' /\ ~ Before(19)' /\ ~ Before(26)' /\ Before(27)'
      /\ at' # "feedFetch"
  BY <1>3, <1>4
<1>6. /\ bee.toppedUp \in [Batches -> Nat]
      /\ \A b \in Batches : bee.toppedUp[b] = 0
  BY <1>5 DEF CheckInv, Form, Money
<1>7. /\ up \in [Batches -> Nat]
      /\ \A b \in Batches : up[b] <= IF locals.batch = b THEN 1 ELSE 0
  <2>1. ASSUME NEW b \in Batches PROVE up[b] = IF locals.batch = b THEN 1 ELSE 0
    <3>1. CASE locals.batch = b
      <4>1. up[b] = bee.toppedUp[b] + 1
        BY <1>6, <3>1
      <4> HIDE DEF up
      <4>2. up[b] = 1
        BY <1>6, <4>1
      <4> QED
        BY <3>1, <4>2
    <3>2. CASE locals.batch # b
      <4>1. up[b] = bee.toppedUp[b]
        BY <1>6, <3>2
      <4> HIDE DEF up
      <4> QED
        BY <1>6, <3>2, <4>1
    <3> QED
      BY <3>1, <3>2
  <2>2. up \in [Batches -> Nat]
    <3>1. DOMAIN up = Batches /\ \A b \in Batches : up[b] \in {0, 1}
      <4>1. DOMAIN up = Batches
        BY <1>6
      <4> HIDE DEF up
      <4> QED
        BY <2>1, <4>1
    <3>2. up = [b \in DOMAIN up |-> up[b]]
      OBVIOUS
    <3> HIDE DEF up
    <3> QED
      BY <3>1, <3>2
  <2> HIDE DEF up
  <2>3. \A b \in Batches : up[b] <= up[b]
    BY <2>2
  <2> QED
    BY <2>1, <2>2, <2>3
<1> HIDE DEF up
<1>8. /\ bee' = [tags |-> bee.tags, pins |-> bee.pins, usable |-> bee.usable,
                  bought |-> bee.bought, depth |-> bee.depth, queued |-> bee.queued,
                  toppedUp |-> bee'.toppedUp, feed |-> bee.feed]
      /\ bee'.toppedUp \in {bee.toppedUp, up}
  <2>1. bee = [tags |-> bee.tags, pins |-> bee.pins, usable |-> bee.usable,
                bought |-> bee.bought, depth |-> bee.depth, queued |-> bee.queued,
                toppedUp |-> bee.toppedUp, feed |-> bee.feed]
    BY DEF CheckInv, Form
  <2> DEFINE done == [bee EXCEPT !.toppedUp = up]
  <2>2. done = [tags |-> bee.tags, pins |-> bee.pins, usable |-> bee.usable,
                bought |-> bee.bought, depth |-> bee.depth, queued |-> bee.queued,
                toppedUp |-> up, feed |-> bee.feed]
    BY <2>1
  <2>3. bee' \in {bee, done}
    BY <1>1
  <2> HIDE DEF done
  <2> QED
    BY <2>1, <2>2, <2>3
<1>9. /\ bee'.bought = bee.bought /\ bee'.depth = bee.depth /\ bee'.queued = bee.queued
      /\ bee'.feed = bee.feed
      /\ bee'.toppedUp \in [Batches -> Nat]
      /\ \A b \in Batches : bee'.toppedUp[b] <= IF locals.batch = b THEN 1 ELSE 0
  BY <1>6, <1>7, <1>8
<1>10. fail' \in {fail, "some"}
  BY <1>1 DEF Passes, Fails
<1>11. Form'
  BY <1>1, <1>4, <1>8, <1>9, <1>10 DEF CheckInv, Form
<1>12. Money'
  BY <1>1, <1>5, <1>9 DEF CheckInv, Money
<1>13. Explained'
  BY <1>1, <1>5, <1>10 DEF CheckInv, Form, Explained
<1>14. Fetched'
  BY <1>1, <1>5, <1>9 DEF CheckInv, Fetched
<1> QED
  BY <1>11, <1>12, <1>13, <1>14 DEF CheckInv

LEMMA DiluteStep ==
  ASSUME CheckInv, Dilute, MayDilute
  PROVE  CheckInv'
<1>1. /\ at = "dilute" /\ locals.batch = "own" /\ at' \in {After, "end"}
      /\ bee' = bee \/ bee' = [bee EXCEPT !.queued = {"own"}]
      /\ fail' \in {fail, "some"}
      /\ UNCHANGED <<env, locals, skipped, cause>>
  BY DEF Dilute, Run, MayDilute, Passes
<1>2. at = Checks[27] /\ 27 \in 1..28 /\ 27 \in 1..29 /\ 28 \in 1..28 /\ 28 \in 1..29
  BY <1>1, Numbers
<1>3. at' \in {Checks[28], Checks[29]}
  <2>1. After = Checks[27 + 1] /\ 27 + 1 = 28
    BY <1>2, Next1
  <2> QED
    BY <1>1, <2>1, Numbers
<1>4. \A n \in 1..29 : Before(n) <=> 27 <= n
  BY <1>2, Place
<1>5. /\ at' \in {Checks[k] : k \in 1..29} /\ at' # "exit0" /\ at' # "feedFetch"
      /\ \A n \in 1..27 : ~ Before(n)'
  <2>1. ASSUME NEW i \in {27, 28}, at' = Checks[i + 1]
        PROVE  /\ at' \in {Checks[k] : k \in 1..29} /\ at' # "exit0" /\ at' # "feedFetch"
               /\ \A n \in 1..27 : ~ Before(n)'
    <3>1. i \in 1..28 /\ i # 19
      OBVIOUS
    <3>2. /\ \A n \in 1..29 : Before(n)' <=> i + 1 <= n
          /\ at' \in {Checks[k] : k \in 1..29} /\ at' # "exit0"
          /\ at' = "feedFetch" <=> i = 19
      BY <2>1, <3>1, Spots
    <3>3. ASSUME NEW n \in 1..27 PROVE ~ Before(n)'
      <4>1. n \in 1..29 /\ ~ (i + 1 <= n)
        BY <3>1
      <4> QED
        BY <3>2, <4>1
    <3> QED
      BY <3>1, <3>2, <3>3
  <2>2. 27 + 1 = 28 /\ 28 + 1 = 29
    OBVIOUS
  <2> QED
    BY <1>3, <2>1, <2>2
<1>6. /\ ~ Before(8) /\ ~ Before(9) /\ ~ Before(19) /\ Before(27)
      /\ ~ Before(8)' /\ ~ Before(19)' /\ ~ Before(26)' /\ ~ Before(27)'
  <2>1. /\ ~ Before(8) /\ ~ Before(9) /\ ~ Before(19) /\ Before(27)
    BY <1>4
  <2> QED
    BY <1>5, <2>1
<1>7. bee.queued = {} /\ bee.depth["own"] = 17
  BY <1>6 DEF CheckInv, Money
<1>8. /\ bee' = [tags |-> bee.tags, pins |-> bee.pins, usable |-> bee.usable,
                  bought |-> bee.bought, depth |-> bee.depth, queued |-> bee'.queued,
                  toppedUp |-> bee.toppedUp, feed |-> bee.feed]
      /\ bee'.queued \in {{}, {"own"}}
  <2>1. bee = [tags |-> bee.tags, pins |-> bee.pins, usable |-> bee.usable,
                bought |-> bee.bought, depth |-> bee.depth, queued |-> bee.queued,
                toppedUp |-> bee.toppedUp, feed |-> bee.feed]
    BY DEF CheckInv, Form
  <2> DEFINE done == [bee EXCEPT !.queued = {"own"}]
  <2>2. done = [tags |-> bee.tags, pins |-> bee.pins, usable |-> bee.usable,
                bought |-> bee.bought, depth |-> bee.depth, queued |-> {"own"},
                toppedUp |-> bee.toppedUp, feed |-> bee.feed]
    BY <2>1
  <2>3. bee' \in {bee, done}
    BY <1>1
  <2> HIDE DEF done
  <2> QED
    BY <1>7, <2>1, <2>2, <2>3
<1>9. /\ bee'.bought = bee.bought /\ bee'.depth = bee.depth
      /\ bee'.toppedUp = bee.toppedUp /\ bee'.feed = bee.feed
  BY <1>8
<1>10. Form'
  BY <1>1, <1>5, <1>8, <1>9 DEF CheckInv, Form
<1>11. Money'
  <2>1. bee'.queued \subseteq {"own"} /\ bee'.depth["own"] = 17
    BY <1>7, <1>8, <1>9
  <2>2. bee'.depth["own"] <= IF bee'.queued = {} THEN 18 ELSE 17
    BY <2>1
  <2> QED
    BY <1>1, <1>6, <1>9, <2>1, <2>2 DEF CheckInv, Money
<1>12. Explained'
  BY <1>1, <1>6 DEF CheckInv, Form, Explained
<1>13. Fetched'
  BY <1>1, <1>5, <1>6, <1>9 DEF CheckInv, Fetched
<1> QED
  BY <1>10, <1>11, <1>12, <1>13 DEF CheckInv

(* The program stays where it is.                                          *)
LEMMA StaysStep ==
  ASSUME CheckInv, UNCHANGED <<env, at, fail, locals, skipped, cause>>, SameNode(bee, bee')
  PROVE  Form' /\ Money' /\ Explained' /\ Fetched'
<1>1. Form'
  BY DEF CheckInv, Form, SameNode
<1>2. Money'
  BY DEF CheckInv, Money, SameNode, Before
<1>3. Explained'
  BY DEF CheckInv, Explained, Before
<1>4. Fetched'
  BY DEF CheckInv, Fetched, SameNode, Before
<1> QED
  BY <1>1, <1>2, <1>3, <1>4

LEMMA NodeConfirmsStep ==
  ASSUME CheckInv, NodeConfirms
  PROVE  CheckInv'
<1>1. UNCHANGED <<env, at, fail, locals, skipped, cause>>
  BY DEF NodeConfirms
<1>2. CASE bee' = [bee EXCEPT !.usable = @ \cup {"own"}]
  <2>1. SameNode(bee, bee') /\ SameLocal(locals, locals') /\ Onward
    BY <1>1, <1>2, OtherNodes, SameSame DEF CheckInv, Onward
  <2>2. Form' /\ Money' /\ Explained' /\ Fetched'
    BY <1>1, <2>1, StaysStep
  <2> QED
    BY <2>2 DEF CheckInv
<1>3. ASSUME NEW b \in bee.queued,
             bee' = [bee EXCEPT !.depth[b] = @ + 1, !.queued = @ \ {b}]
      PROVE  CheckInv'
  <2>1. b = "own" /\ bee.queued = {"own"}
    BY DEF CheckInv, Money
  <2> DEFINE deeper == [bee.depth EXCEPT !["own"] = bee.depth["own"] + 1]
  <2>2. bee' = [bee EXCEPT !.depth = deeper, !.queued = {}]
    BY <1>3, <2>1
  <2>3. bee.depth \in [Batches -> Nat] /\ bee.depth["own"] <= 17 /\ bee.depth["user"] = 17
    BY <2>1 DEF CheckInv, Form, Money
  <2>4. deeper \in [Batches -> Nat] /\ deeper["own"] <= 18 /\ deeper["user"] = 17
    BY <2>3 DEF Batches
  <2> HIDE DEF deeper
  <2>5. bee' = [tags |-> bee.tags, pins |-> bee.pins, usable |-> bee.usable,
                 bought |-> bee.bought, depth |-> deeper, queued |-> {},
                 toppedUp |-> bee.toppedUp, feed |-> bee.feed]
    BY <2>2 DEF CheckInv, Form
  <2>6. ~ Before(27)
    BY <2>1 DEF CheckInv, Money
  <2>7. /\ bee'.bought = bee.bought /\ bee'.toppedUp = bee.toppedUp
        /\ bee'.feed = bee.feed /\ bee'.depth = deeper /\ bee'.queued = {}
    BY <2>5
  <2>8. Form'
    BY <1>1, <2>4, <2>5, <2>7 DEF CheckInv, Form
  <2>9. Before(8)' => Before(8)
    BY <1>1 DEF Before
  <2>10. Before(26)' => Before(26)
    BY <1>1 DEF Before
  <2>11. ~ Before(27)'
    BY <2>6, <1>1 DEF Before
  <2>12. Money'
    BY <1>1, <2>4, <2>7, <2>9, <2>10, <2>11 DEF CheckInv, Money
  <2>13. Explained'
    BY <1>1 DEF CheckInv, Explained, Before
  <2>14. Fetched'
    BY <1>1, <2>7 DEF CheckInv, Fetched, Before
  <2> QED
    BY <2>8, <2>12, <2>13, <2>14 DEF CheckInv
<1> QED
  BY <1>2, <1>3 DEF NodeConfirms

LEMMA OtherRunStep ==
  ASSUME CheckInv, OtherRun
  PROVE  CheckInv'
<1> DEFINE more == Append(bee.feed, "other")
<1>1. /\ env.signer = "given"
      /\ bee' = [bee EXCEPT !.feed = more]
      /\ cause' = cause \cup {"other"}
      /\ UNCHANGED <<env, at, fail, locals, skipped>>
  BY DEF OtherRun
<1>2. more \in Seq(Updates)
  BY AppendProperties DEF CheckInv, Form, Updates
<1> HIDE DEF more
<1>3. bee = [tags |-> bee.tags, pins |-> bee.pins, usable |-> bee.usable,
              bought |-> bee.bought, depth |-> bee.depth, queued |-> bee.queued,
              toppedUp |-> bee.toppedUp, feed |-> bee.feed]
  BY DEF CheckInv, Form
<1>4. bee' = [tags |-> bee.tags, pins |-> bee.pins, usable |-> bee.usable,
               bought |-> bee.bought, depth |-> bee.depth, queued |-> bee.queued,
               toppedUp |-> bee.toppedUp, feed |-> more]
  BY <1>1, <1>3
<1>5. /\ bee'.bought = bee.bought /\ bee'.depth = bee.depth /\ bee'.queued = bee.queued
      /\ bee'.toppedUp = bee.toppedUp /\ bee'.feed = more
  BY <1>4
<1>6. Form'
  BY <1>1, <1>2, <1>4, <1>5 DEF CheckInv, Form
<1>7. Money'
  BY <1>1, <1>5 DEF CheckInv, Money, Before
<1>8. Explained'
  BY <1>1 DEF CheckInv, Explained, Before
<1>9. Fetched'
  <2>1. cause' \cap Excuses # {} /\ ("mismatch" \in cause' => "mismatch" \in cause)
    BY <1>1 DEF Excuses
  <2> QED
    BY <1>1, <2>1 DEF CheckInv, Fetched, Before
<1> QED
  BY <1>6, <1>7, <1>8, <1>9 DEF CheckInv

-----------------------------------------------------------------------------

LEMMA CheckInvHolds == CheckSpec => []CheckInv
<1>1. ASSUME CheckInit PROVE CheckInv
  <2>1. /\ env \in [batch : {"none", "user", "zero", "bad"}, signer : {"none", "given", "bad"}]
        /\ at = "info" /\ fail = "none" /\ skipped = {} /\ cause = {}
        /\ locals = [tag |-> 0, batch |-> "zero", usable |-> "no", data |-> "zero",
                    mined |-> "no", round |-> 0]
    BY <1>1 DEF CheckInit
  <2> DEFINE feeds == IF env.signer = "given" THEN {<<>>, <<"old">>, <<"old", "old">>}
                      ELSE {<<>>}
             depth == [b \in {"own", "user"} |-> 17]
             none == [b \in {"own", "user"} |-> 0]
  <2>2. bee \in [tags : {{}}, pins : {{}}, usable : SUBSET {"user"}, bought : {0},
                  depth : {depth}, queued : {{}}, toppedUp : {none}, feed : feeds]
    BY <1>1 DEF CheckInit
  <2>3. /\ depth \in [Batches -> Nat] /\ none \in [Batches -> Nat]
        /\ depth["own"] = 17 /\ depth["user"] = 17 /\ \A b \in Batches : none[b] = 0
    BY DEF Batches
  <2>4. /\ feeds \subseteq Seq(Updates)
        /\ env.signer # "given" => feeds = {<<>>}
    <3>1. <<>> \in Seq(Updates) /\ <<"old">> \in Seq(Updates) /\ <<"old", "old">> \in Seq(Updates)
      BY DEF Updates
    <3> QED
      BY <3>1
  <2> HIDE DEF feeds, depth, none
  <2>5. /\ bee = [tags |-> bee.tags, pins |-> bee.pins, usable |-> bee.usable,
                   bought |-> bee.bought, depth |-> bee.depth, queued |-> bee.queued,
                   toppedUp |-> bee.toppedUp, feed |-> bee.feed]
        /\ bee.bought = 0 /\ bee.depth = depth /\ bee.queued = {} /\ bee.toppedUp = none
        /\ bee.feed \in feeds
    BY <2>2
  <2>6. at = Checks[1] /\ 1 \in 1..29 /\ at # "exit0" /\ at # "feedFetch"
    BY <2>1, Numbers
  <2>7. Before(8) /\ Before(9)
    BY <2>6, Place
  <2>8. Form
    BY <2>1, <2>3, <2>4, <2>5, <2>6 DEF Form
  <2>9. Money
    <3>1. bee.bought <= IF env.batch = "none" THEN 1 ELSE 0
      BY <2>5
    <3>2. \A b \in Batches : bee.toppedUp[b] <= IF locals.batch = b THEN 1 ELSE 0
      BY <2>3, <2>5
    <3>3. bee.depth["own"] <= IF bee.queued = {} THEN 18 ELSE 17
      BY <2>3, <2>5
    <3> QED
      BY <2>3, <2>5, <3>1, <3>2, <3>3 DEF Money
  <2>10. Explained
    BY <2>1, <2>7 DEF Explained
  <2>11. Fetched
    BY <2>1, <2>4, <2>5, <2>6 DEF Fetched
  <2> QED
    BY <2>8, <2>9, <2>10, <2>11 DEF CheckInv
<1>2. ASSUME CheckInv, [CheckNext]_checkVars PROVE CheckInv'
  <2>1. CASE Step
    BY <1>2, <2>1, SkipStep, ReadingSteps, CallingSteps, BatchSteps, WaitSteps,
       FeedUpdateStep, FeedFetchStep, FeedRetrievableStep, LastSteps, TopUpStep, DiluteStep
       DEF Step
  <2>2. CASE UNCHANGED checkVars
    <3>1. SameNode(bee, bee')
      BY <1>2, <2>2, SameSame DEF checkVars, CheckInv
    <3>2. UNCHANGED <<env, at, fail, locals, skipped, cause>>
      BY <2>2 DEF checkVars
    <3> QED
      BY <1>2, <3>1, <3>2, StaysStep DEF CheckInv
  <2> QED
    BY <1>2, <2>1, <2>2, NodeConfirmsStep, OtherRunStep DEF CheckNext
<1> QED
  BY <1>1, <1>2, PTL DEF CheckSpec

(* However many polls, tries and updates by others: an exit code of 0      *)
(* hides no check that was skipped, but for the dilution of a user's batch,*)
(* unless the user gave an id of zeros.                                    *)
THEOREM SkipsExplainedHolds == CheckSpec => []SkipsExplained
<1>1. ASSUME CheckInv PROVE SkipsExplained
  BY <1>1 DEF CheckInv, Form, Explained, SkipsExplained
<1> QED
  BY <1>1, CheckInvHolds, PTL

(* A run buys at most one batch, and none beside the user's; it never      *)
(* dilutes the user's, and tops up one batch, once.                        *)
THEOREM MoneySpentHolds == CheckSpec => []MoneySpent
<1>1. ASSUME CheckInv PROVE MoneySpent
  <2>1. bee.depth["own"] <= 18
    <3>1. bee.depth["own"] \in Nat
      BY <1>1 DEF CheckInv, Form, Batches
    <3> QED
      BY <1>1, <3>1 DEF CheckInv, Money
  <2> QED
    BY <1>1, <2>1 DEF CheckInv, Money, MoneySpent, Batches
<1> QED
  BY <1>1, CheckInvHolds, PTL

(* Another payload than the one just written is found in the feed only for *)
(* a reason, and never in the feed of a signer that the run made.          *)
THEOREM FeedAgreesHolds == CheckSpec => []FeedAgrees
<1>1. ASSUME CheckInv PROVE FeedAgrees
  BY <1>1 DEF CheckInv, Fetched, FeedAgrees, Excuses
<1> QED
  BY <1>1, CheckInvHolds, PTL

-----------------------------------------------------------------------------
(* The part of Terminates that holds without fairness: every step of the   *)
(* program is towards its end.                                             *)

(* How often a loop has gone round: only the wait for the batch and the    *)
(* look-ups of the feed have one, and each begins at zero.                 *)
Rounds ==
  /\ locals.round \in Nat
  /\ locals.round <= Polls \/ locals.round < Tries
  /\ at \notin {"wait", "feedFetch", "feedRetrievable"} => locals.round = 0
  /\ at = "wait" => locals.round = 0 \/ (locals.round <= Polls /\ locals.batch # "zero")
  /\ at \in {"feedFetch", "feedRetrievable"} =>
       locals.round = 0 \/ (locals.round < Tries /\ locals.usable = "yes")

(* To a later check or to the end; or once more round the loop of a check. *)
Advances ==
  \/ at \notin Ends /\ at' \in Ends
  \/ \E i \in 1..28 : at = Checks[i] /\ at' \in {Checks[k] : k \in (i + 1)..29}
Repeats == at \notin Ends /\ at' = at /\ locals'.round = locals.round + 1

LEMMA RoundsFresh ==
  ASSUME locals'.round = 0
  PROVE  Rounds'
<1>1. 0 \in Nat /\ 0 <= Polls
  BY BoundsAssumption
<1> QED
  BY <1>1 DEF Rounds

LEMMA NextCheck ==
  ASSUME NEW i \in 1..28, at = Checks[i], Passes \/ Fails, locals'.round = 0
  PROVE  Advances /\ Rounds'
<1>1. at' = Checks[i + 1]
  BY Next1 DEF Passes, Fails
<1>2. i + 1 \in (i + 1)..29
  OBVIOUS
<1> QED
  BY <1>1, <1>2, RoundsFresh DEF Advances

(* A check without a loop.                                                 *)
LEMMA OtherRound ==
  ASSUME Form, NEW x
  PROVE  /\ [locals EXCEPT !.tag = x].round = locals.round
         /\ [locals EXCEPT !.batch = x].round = locals.round
         /\ [locals EXCEPT !.data = x].round = locals.round
         /\ [locals EXCEPT !.mined = x].round = locals.round
         /\ [locals EXCEPT !.round = x] =
              [tag |-> locals.tag, batch |-> locals.batch, usable |-> locals.usable,
               data |-> locals.data, mined |-> locals.mined, round |-> x]
<1>1. locals = [tag |-> locals.tag, batch |-> locals.batch, usable |-> locals.usable,
               data |-> locals.data, mined |-> locals.mined, round |-> locals.round]
  BY DEF Form
<1> QED
  BY <1>1

LEMMA PlainChecks ==
  ASSUME Form, Rounds,
         \/ NodeInfo \/ Accounting \/ Postage \/ GetTag \/ Offline \/ BatchReads
         \/ ReadBack \/ GetPin \/ SocRoundTrip \/ StreamRoundTrip \/ EncryptedRoundTrip
         \/ PssSmoke \/ Mine \/ Diluted
         \/ CreateTag \/ DeleteTag \/ UploadData \/ Pin \/ Unpin
         \/ ReuseBatch \/ BuyStorage \/ TopUp
  PROVE  Advances /\ Rounds'
<1>1. Passes \/ Fails
  BY DEF NodeInfo, Accounting, Postage, GetTag, Offline, BatchReads, ReadBack, GetPin,
     SocRoundTrip, StreamRoundTrip, EncryptedRoundTrip, PssSmoke, Mine, Diluted, Reads,
     CreateTag, DeleteTag, UploadData, Pin, Unpin, ReuseBatch, BuyStorage, TopUp, Calls
<1>2. at \in {"info", "accounting", "postage", "getTag", "hash", "batchReads", "readBack",
              "getPin", "soc", "stream", "encrypted", "pss", "mine", "diluted",
              "createTag", "deleteTag", "upload", "pin", "unpin", "batch", "topUp"}
  BY DEF NodeInfo, Accounting, Postage, GetTag, Offline, BatchReads, ReadBack, GetPin,
     SocRoundTrip, StreamRoundTrip, EncryptedRoundTrip, PssSmoke, Mine, Diluted,
     CreateTag, DeleteTag, UploadData, Pin, Unpin, ReuseBatch, BuyStorage, TopUp, Run
<1>3. PICK i \in 1..28 : at = Checks[i]
  BY <1>2, Numbers
<1>4. locals.round = 0
  BY <1>2 DEF Rounds
<1>5. \/ locals' = locals
      \/ \E x : locals' \in {[locals EXCEPT !.tag = x], [locals EXCEPT !.batch = x],
                             [locals EXCEPT !.data = x], [locals EXCEPT !.mined = x]}
  BY DEF NodeInfo, Accounting, Postage, GetTag, Offline, BatchReads, ReadBack, GetPin,
     SocRoundTrip, StreamRoundTrip, EncryptedRoundTrip, PssSmoke, Mine, Diluted, Reads,
     CreateTag, DeleteTag, UploadData, Pin, Unpin, ReuseBatch, BuyStorage, TopUp, Calls
<1>6. locals'.round = 0
  BY <1>4, <1>5, OtherRound
<1> QED
  BY <1>1, <1>3, <1>6, NextCheck

(* A check that is skipped has not begun.                                  *)
LEMMA SkippedChecks ==
  ASSUME Form, Rounds, Skip \/ WaitNoBatch
  PROVE  Advances /\ Rounds'
<1>1. CASE Skip
  <2>1. PICK i \in 10..28 : at = Checks[i]
    BY <1>1 DEF Skip, Gated
  <2>2. at # "wait"
    <3>1. i # 9 /\ 9 \in 1..29
      OBVIOUS
    <3> QED
      BY <2>1, <3>1, Distinct, Numbers
  <2>3. locals.round = 0 /\ locals' = locals /\ Passes
    BY <1>1, <2>2 DEF Skip, Rounds
  <2> QED
    BY <2>1, <2>3, NextCheck
<1>2. CASE WaitNoBatch
  <2>1. at = Checks[9] /\ locals.batch = "zero" /\ locals' = locals /\ Passes
    BY <1>2, Numbers DEF WaitNoBatch, Run
  <2>2. locals.round = 0
    BY <1>2, <2>1 DEF WaitNoBatch, Run, Rounds
  <2> QED
    BY <2>1, <2>2, NextCheck
<1> QED
  BY <1>1, <1>2

(* The end of the program, planned or not.                                 *)
LEMMA LastChecks ==
  ASSUME Form, Rounds, FeedUpdate \/ Addresses \/ Gsoc \/ Dilute \/ End
  PROVE  Advances /\ Rounds'
<1>1. at \in {"feedUpdate", "addresses", "gsoc", "dilute", "end"}
  BY DEF FeedUpdate, Addresses, Gsoc, Dilute, End, Run
<1>2. locals.round = 0 /\ locals' = locals
  BY <1>1 DEF Rounds, FeedUpdate, Addresses, Gsoc, Dilute, End
<1>3. CASE End
  <2>1. at' \in Ends /\ at = Checks[29] /\ 29 \in 1..29
    BY <1>3, Numbers DEF End, Ends
  <2>2. at \notin Ends
    BY <2>1, NoEnd
  <2> QED
    BY <1>2, <2>1, <2>2, RoundsFresh DEF Advances
<1>4. ASSUME FeedUpdate \/ Addresses \/ Gsoc \/ Dilute
      PROVE  Advances /\ Rounds'
  <2>1. at \in {"feedUpdate", "addresses", "gsoc", "dilute"}
    BY <1>4 DEF FeedUpdate, Addresses, Gsoc, Dilute, Run
  <2>2. PICK i \in 1..28 : at = Checks[i]
    BY <2>1, Numbers
  <2>3. at \notin Ends
    BY <2>2, NoEnd
  <2>4. CASE at' \in Ends
    BY <1>2, <2>3, <2>4, RoundsFresh DEF Advances
  <2>5. CASE Passes \/ Fails
    BY <1>2, <2>2, <2>5, NextCheck
  <2>6. CASE at = "dilute" /\ at' = "end"
    <3>1. 27 \in 1..28 /\ 29 \in (27 + 1)..29 /\ at = Checks[27] /\ at' = Checks[29]
      BY <2>6, Numbers
    <3> QED
      BY <1>2, <3>1, RoundsFresh DEF Advances
  <2>7. \/ at' \in Ends \/ Passes \/ Fails
        \/ at = "dilute" /\ at' = "end"
    BY <1>4 DEF FeedUpdate, Addresses, Gsoc, Dilute, Dies, Ends, Run
  <2> QED
    BY <2>4, <2>5, <2>6, <2>7
<1> QED
  BY <1>3, <1>4

(* A check with a loop ends, or goes round once more.                      *)
LEMMA LoopChecks ==
  ASSUME Form, Rounds, WaitUsable \/ FeedFetch \/ FeedRetrievable
  PROVE  (Advances \/ Repeats) /\ Rounds'
<1>1. /\ at \in {"wait", "feedFetch", "feedRetrievable"}
      /\ at = "wait" => WaitUsable
      /\ at # "wait" => FeedFetch \/ FeedRetrievable
  BY DEF WaitUsable, FeedFetch, FeedRetrievable, Run
<1>2. PICK i \in 1..28 : at = Checks[i]
  BY <1>1, Numbers
<1>3. at \notin Ends
  BY <1>2, NoEnd
<1>4. locals.round \in Nat /\ Polls \in Nat
  BY BoundsAssumption DEF Rounds
<1>5. /\ at = "wait" => locals.batch # "zero" /\ locals.round <= Polls
      /\ at # "wait" => locals.usable = "yes"
  <2>1. at # "wait" => at \in Gated
    <3>1. \/ at = Checks[20] /\ 20 \in 10..28
          \/ at = Checks[21] /\ 21 \in 10..28
          \/ at = "wait"
      BY <1>1, Numbers
    <3> QED
      BY <3>1 DEF Gated
  <2>2. at = "wait" => locals.round <= Polls
    BY <1>4 DEF Rounds
  <2> QED
    BY <1>1, <2>1, <2>2 DEF WaitUsable, FeedFetch, FeedRetrievable, Run
<1>6. \/ /\ Passes \/ Fails
         /\ \/ locals' = [locals EXCEPT !.round = 0]
            \/ locals' = [locals EXCEPT !.usable = "yes", !.round = 0]
      \/ /\ at' = at /\ locals' = [locals EXCEPT !.round = locals.round + 1]
         /\ IF at = "wait" THEN locals.round # Polls ELSE locals.round + 1 < Tries
  <2>1. CASE at = "wait"
    BY <1>1, <2>1 DEF WaitUsable, PassesOver, GivesUp, Further
  <2>2. CASE at # "wait"
    BY <1>1, <2>2 DEF FeedFetch, FeedRetrievable
  <2> QED
    BY <2>1, <2>2
<1>7. CASE /\ Passes \/ Fails
           /\ \/ locals' = [locals EXCEPT !.round = 0]
              \/ locals' = [locals EXCEPT !.usable = "yes", !.round = 0]
  <2>1. locals = [tag |-> locals.tag, batch |-> locals.batch, usable |-> locals.usable,
                  data |-> locals.data, mined |-> locals.mined, round |-> locals.round]
    BY DEF Form
  <2>2. /\ [locals EXCEPT !.round = 0].round = 0
        /\ [locals EXCEPT !.usable = "yes", !.round = 0].round = 0
    BY <2>1
  <2>3. locals'.round = 0
    BY <1>7, <2>2
  <2> QED
    BY <1>2, <1>7, <2>3, NextCheck
<1>8. CASE /\ at' = at /\ locals' = [locals EXCEPT !.round = locals.round + 1]
           /\ IF at = "wait" THEN locals.round # Polls ELSE locals.round + 1 < Tries
  <2>1. /\ locals'.round = locals.round + 1
        /\ locals'.batch = locals.batch /\ locals'.usable = locals.usable
    <3>1. locals' = [tag |-> locals.tag, batch |-> locals.batch, usable |-> locals.usable,
                     data |-> locals.data, mined |-> locals.mined, round |-> locals.round + 1]
      BY <1>8, OtherRound
    <3> QED
      BY <3>1
  <2>2. Repeats
    BY <1>3, <1>8, <2>1 DEF Repeats
  <2>3. locals'.round \in Nat
    BY <1>4, <2>1
  <2>4. IF at = "wait" THEN locals'.round <= Polls ELSE locals'.round < Tries
    <3>1. CASE at = "wait"
      BY <1>4, <1>5, <1>8, <2>1, <3>1
    <3>2. CASE at # "wait"
      BY <1>8, <2>1, <3>2
    <3> QED
      BY <3>1, <3>2
  <2>5. Rounds'
    BY <1>1, <1>5, <1>8, <2>1, <2>3, <2>4 DEF Rounds
  <2> QED
    BY <2>2, <2>5
<1> QED
  BY <1>6, <1>7, <1>8

LEMMA RoundsStep == CheckInv /\ Rounds /\ [CheckNext]_checkVars => Rounds'
<1> SUFFICES ASSUME CheckInv, Rounds, [CheckNext]_checkVars
             PROVE  Rounds'
  OBVIOUS
<1>1. Form
  BY DEF CheckInv
<1>2. CASE Step
  BY <1>1, <1>2, PlainChecks, SkippedChecks, LastChecks, LoopChecks DEF Step
<1>3. CASE NodeConfirms \/ OtherRun \/ UNCHANGED checkVars
  <2>1. UNCHANGED <<at, locals>>
    BY <1>3 DEF NodeConfirms, OtherRun, checkVars
  <2> QED
    BY <2>1 DEF Rounds
<1> QED
  BY <1>2, <1>3 DEF CheckNext

LEMMA StepAdvances == CheckInv /\ Rounds /\ Step => Advances \/ Repeats
<1> SUFFICES ASSUME CheckInv, Rounds, Step
             PROVE  Advances \/ Repeats
  OBVIOUS
<1>1. Form
  BY DEF CheckInv
<1> QED
  BY <1>1, PlainChecks, SkippedChecks, LastChecks, LoopChecks DEF Step

(***************************************************************************)
(* Whatever the node answers, every step of the program leads to a later   *)
(* check or to its end, or is one more poll or look-up of the few its loop *)
(* makes; no check is made twice, and the program is never back where it   *)
(* was.  A program that takes its steps therefore ends.                    *)
(***************************************************************************)
THEOREM RunAdvances ==
  CheckSpec => []Rounds /\ [][Step => Advances \/ Repeats]_checkVars
<1>1. CheckInit => Rounds
  <2> SUFFICES ASSUME CheckInit
               PROVE  Rounds
    OBVIOUS
  <2>1. locals.round = 0 /\ at = "info" /\ 0 \in Nat /\ 0 <= Polls
    BY BoundsAssumption DEF CheckInit
  <2> QED
    BY <2>1 DEF Rounds
<1>2. CheckInv /\ Rounds /\ [CheckNext]_checkVars => (Step => Advances \/ Repeats)
  BY StepAdvances
<1> QED
  BY <1>1, <1>2, RoundsStep, CheckInvHolds, PTL DEF CheckSpec

=============================================================================
