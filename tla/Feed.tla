--------------------------------- MODULE Feed ---------------------------------
(***************************************************************************)
(* The updates of one feed, pkg/file/feed.go and feed_rw.go.  An update is *)
(* a chunk at an address computed from the feed and an index.  UpdateFeed  *)
(* asks the node for the next index, then uploads the chunk: two requests, *)
(* and between them, or before an answer that never comes, anything may    *)
(* happen.  Writers are the goroutines or programs that hold the feed's    *)
(* key; a reader checks the updates up to an index, one by one.  A chunk   *)
(* uploaded to an address that is taken replaces what is there or is       *)
(* dropped: either way one of the two updates is lost.                     *)
(*                                                                         *)
(* A call whose answer is lost ends with an error at the client, but the   *)
(* node may have served its request, or serve it later.                    *)
(***************************************************************************)
EXTENDS Integers, Sequences

CONSTANTS
  Writers,    (* those who write to the feed                               *)
  MaxIndex,   (* bound: the largest index written to                       *)
  MaxCalls,   (* bound: updates attempted                                  *)
  Statuses,   (* statuses the node may answer with when it fails           *)
  Lagging,    (* whether a look-up may miss the newest updates             *)
  Explicit,   (* whether writers also choose indexes themselves            *)
  Checking    (* whether anyone checks the feed                            *)

ASSUME ConstantsAssumption ==
  /\ MaxIndex \in Nat
  /\ MaxCalls \in Nat
  /\ Statuses \subseteq {"500", "503"}
  /\ Lagging \in BOOLEAN
  /\ Explicit \in BOOLEAN
  /\ Checking \in BOOLEAN

VARIABLES
  feed,      (* the indexes the node holds an update at                    *)
  requests,  (* uploads sent and not served yet, their writers still       *)
             (* waiting or not                                             *)
  pc,        (* pc[w]: where writer w stands in its call                   *)
  job,       (* job[w]: the upload it makes                                *)
  calls,     (* number of updates attempted                                *)
  probe,     (* the index the retrievability check is at                   *)
  target,    (* the index it goes up to                                    *)
  verdict,   (* what it returned, "running" before, "none" if none ran     *)
  served,    (* history: the uploads the node served, in order             *)
  acked      (* history: the uploads acknowledged to their writers         *)

checker == <<probe, target, verdict>>
writers == <<pc, job, calls>>
history == <<served, acked>>
vars    == <<feed, requests, writers, checker, history>>

(* How a writer came by its index: the node found updates, or none, or not *)
(* the newest, or it failed, or the caller gave it.                        *)
Bases == {"found", "missing", "stale", "failed", "given"}

(* seen is history: the number of uploads served before the look-up.       *)
Upload == [id : Nat, writer : Writers, index : Nat, basis : Bases, seen : Nat]

Idle == [id |-> 0]

Init ==
  /\ feed = {}
  /\ requests = {}
  /\ pc = [w \in Writers |-> "idle"]
  /\ job = [w \in Writers |-> Idle]
  /\ calls = 0
  /\ probe = 0
  /\ target = 0
  /\ verdict = "none"
  /\ served = <<>>
  /\ acked = <<>>

-----------------------------------------------------------------------------
(* The node's look-up of a sequence feed: it probes from the start.        *)

Length ==
  CHOOSE n \in 0..(MaxIndex + 1) : n \notin feed /\ 0..(n-1) \subseteq feed

(* The numbers of updates a look-up may see.                               *)
Visible == IF Lagging THEN 0..Length ELSE {Length}

(* A definition between a helper's comment and the helper is a seeded      *)
(* fault of it.                                                            *)

(* The swarm-feed-index-next header when the node sees n updates.          *)
LatestIndex(n) == n - 1
SkipOne(n) == n + 1
IndexNext(n) == n

(* Statuses that read as a feed without updates.                           *)
NoUpdates == {"404", "500"}

-----------------------------------------------------------------------------
(* The writers.                                                            *)

(* Writer w has an index for a new upload.                                 *)
Gets(w, index, basis) ==
  /\ pc[w] = "idle"
  /\ calls < MaxCalls
  /\ index \in 0..MaxIndex
  /\ calls' = calls + 1
  /\ pc' = [pc EXCEPT ![w] = "ready"]
  /\ job' = [job EXCEPT ![w] = [id |-> calls + 1, writer |-> w, index |-> index,
                                basis |-> basis, seen |-> Len(served)]]
  /\ UNCHANGED <<feed, requests, checker, history>>

(* FindNextIndex, answered with the latest update the node sees.           *)
FindNext(w) ==
  \E n \in Visible \ {0} : Gets(w, IndexNext(n), IF n = Length THEN "found" ELSE "stale")

(* FindNextIndex, answered with 404.                                       *)
FindNone(w) ==
  /\ 0 \in Visible
  /\ "404" \in NoUpdates
  /\ Gets(w, 0, IF Length = 0 THEN "missing" ELSE "stale")

(* FindNextIndex, while the node fails.  A failure that does not read as   *)
(* an empty feed ends the call, which changes nothing.                     *)
FindFails(w) == Statuses \cap NoUpdates # {} /\ Gets(w, 0, "failed")

(* UpdateFeedWithIndex, UploadAtIndex.                                     *)
GiveIndex(w) == Explicit /\ \E i \in 0..MaxIndex : Gets(w, i, "given")

(* UpdateFeedWithIndex signs the chunk and sends it.                       *)
Send(w) ==
  /\ pc[w] = "ready"
  /\ pc' = [pc EXCEPT ![w] = "sent"]
  /\ requests' = requests \cup {job[w]}
  /\ UNCHANGED <<feed, job, calls, checker, history>>

Ends(w) ==
  /\ pc[w] = "sent"
  /\ pc' = [pc EXCEPT ![w] = "idle"]
  /\ job' = [job EXCEPT ![w] = Idle]
  /\ UNCHANGED <<feed, requests, calls, checker, served>>

Acknowledged(w) ==
  /\ \E i \in 1..Len(served) : served[i] = job[w]
  /\ acked' = Append(acked, job[w])
  /\ Ends(w)

(* The answer is lost or too late: the request may be served all the same. *)
GivesUp(w) == Ends(w) /\ UNCHANGED acked

-----------------------------------------------------------------------------
(* The node.                                                               *)

Serve(request) ==
  /\ requests' = requests \ {request}
  /\ served' = Append(served, request)
  /\ feed' = feed \cup {request.index}
  /\ UNCHANGED <<writers, checker, acked>>

-----------------------------------------------------------------------------
(* The readers.                                                            *)

(* The check has looked at the last index.                                 *)
DoneEarly == probe + 1 >= target
Done == probe >= target

(* IsFeedRetrievable with an index.                                        *)
StartCheck ==
  /\ Checking
  /\ verdict # "running"
  /\ verdict' = "running"
  /\ probe' = 0
  /\ target' \in 0..MaxIndex
  /\ UNCHANGED <<feed, requests, writers, history>>

Concludes(value) ==
  /\ verdict' = value
  /\ probe' = 0
  /\ target' = IF value = "true" THEN target ELSE 0
  /\ UNCHANGED <<feed, requests, writers, history>>

ProbeFound ==
  /\ verdict = "running"
  /\ probe \in feed
  /\ IF Done
     THEN Concludes("true")
     ELSE /\ probe' = probe + 1
          /\ UNCHANGED <<feed, requests, writers, target, verdict, history>>

ProbeMissing ==
  /\ verdict = "running"
  /\ probe \notin feed
  /\ Concludes("false")

ProbeFails ==
  /\ verdict = "running"
  /\ \E status \in Statuses :
       Concludes(IF status \in NoUpdates THEN "false" ELSE "error")

Next ==
  \/ \E w \in Writers :
       \/ FindNext(w)
       \/ FindNone(w)
       \/ FindFails(w)
       \/ GiveIndex(w)
       \/ Send(w)
       \/ Acknowledged(w)
       \/ GivesUp(w)
  \/ \E request \in requests : Serve(request)
  \/ StartCheck
  \/ ProbeFound
  \/ ProbeMissing
  \/ ProbeFails

Spec == Init /\ [][Next]_vars

-----------------------------------------------------------------------------

(* Types of the variables.                                                 *)
TypeOK ==
  /\ feed \subseteq 0..MaxIndex
  /\ requests \subseteq Upload
  /\ pc \in [Writers -> {"idle", "ready", "sent"}]
  /\ job \in [Writers -> Upload \cup {Idle}]
  /\ calls \in Nat
  /\ probe \in 0..MaxIndex
  /\ target \in 0..MaxIndex
  /\ verdict \in {"none", "running", "true", "false", "error"}
  /\ served \in Seq(Upload)
  /\ acked \in Seq(Upload)

(* Two uploads hit the same index only if the later one was told so by its *)
(* caller, looked the feed up while the node failed or lagged behind, or   *)
(* had looked before the earlier one was served: another writer, or the    *)
(* same one whose earlier call had given up.                               *)
OverwriteExplained ==
  \A i, j \in 1..Len(served) :
    i < j /\ served[i].index = served[j].index =>
      served[j].basis \in {"given", "failed", "stale"} \/ i > served[j].seen

(* An index that was looked up never leaves a hole below it, whatever      *)
(* races, failures and stale answers went before: a sequential reader      *)
(* would never get past one.                                               *)
NoHoles ==
  \A j \in 1..Len(served) :
    served[j].basis # "given" => 0..(served[j].index - 1) \subseteq feed

(* A writer's acknowledged updates get ascending indexes, whoever else     *)
(* writes and however many of its own calls were lost, as long as its      *)
(* look-ups are answered, and up to date.                                  *)
OwnUpdatesAscend ==
  \A a, b \in 1..Len(acked) :
    a < b /\ acked[a].writer = acked[b].writer /\ acked[a].basis # "given"
          /\ acked[b].basis \in {"found", "missing"} =>
      acked[a].index < acked[b].index

(* A check that answers true has seen every update up to its index.        *)
RetrievableMeansAll == verdict = "true" => 0..target \subseteq feed

(* What the doc of FindNextIndex says of the index 0: the feed has no      *)
(* updates yet.                                                            *)
ZeroMeansEmpty ==
  \A w \in Writers :
    pc[w] = "ready" /\ job[w].index = 0 /\ job[w].basis # "given" =>
      \A i \in 1..job[w].seen : served[i].index # 0

=============================================================================
