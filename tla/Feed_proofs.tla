------------------------------ MODULE Feed_proofs ------------------------------
(***************************************************************************)
(* Proofs about Feed, for any number of writers, any lag of the node and   *)
(* any loss of answers.  What a look-up told a writer stays true of the    *)
(* upload it makes, however late it is served, because the node never      *)
(* forgets an update: everything below follows from LookedUp.              *)
(***************************************************************************)
EXTENDS Feed, SequenceTheorems, WellFoundedInduction, TLAPS

(* What an upload u that is under way owes to its look-up, when the node   *)
(* holds updates at the indexes f and has served s.                        *)
LookedUp(u, f, s) ==
  /\ u.index <= MaxIndex
  /\ u.seen <= Len(s)
  /\ u.basis \in {"found", "missing"} => \A i \in 1..u.seen : s[i].index # u.index
  /\ u.basis # "given" => 0..(u.index - 1) \subseteq f

Busy == {w \in Writers : pc[w] # "idle"}

JobsOK ==
  \A w \in Busy : /\ job[w] \in Upload
                  /\ job[w].writer = w
                  /\ LookedUp(job[w], feed, served)

RequestsOK == \A u \in requests : LookedUp(u, feed, served)

ServedKept == \A i \in 1..Len(served) : served[i].index \in feed

(* An acknowledged update is there, and no hole below it.                  *)
AckedKept ==
  \A a \in 1..Len(acked) :
    /\ acked[a].index \in feed
    /\ acked[a].basis # "given" => 0..(acked[a].index - 1) \subseteq feed

(* A writer's next update lands above those it has had acknowledged.       *)
JobsAscend ==
  \A w \in Busy : \A a \in 1..Len(acked) :
    acked[a].writer = w /\ acked[a].basis # "given"
        /\ job[w].basis \in {"found", "missing"} =>
      acked[a].index < job[w].index

ProbedKept == verdict = "running" => 0..(probe - 1) \subseteq feed

FeedInv ==
  /\ TypeOK
  /\ JobsOK
  /\ RequestsOK
  /\ ServedKept
  /\ AckedKept
  /\ JobsAscend
  /\ ProbedKept
  /\ OverwriteExplained
  /\ NoHoles
  /\ OwnUpdatesAscend
  /\ RetrievableMeansAll

LEMMA FeedInvInit == Init => FeedInv
<1> SUFFICES ASSUME Init PROVE FeedInv
  OBVIOUS
<1>1. TypeOK
  BY ConstantsAssumption DEF Init, TypeOK
<1> QED
  BY <1>1 DEF Init, FeedInv, JobsOK, RequestsOK, ServedKept, AckedKept, JobsAscend, ProbedKept,
     Busy, OverwriteExplained, NoHoles, OwnUpdatesAscend, RetrievableMeansAll

(***************************************************************************)
(* The node's next index exists: the updates up to it are there and it is  *)
(* not.                                                                    *)
(***************************************************************************)
LEMMA LengthIsFree ==
  ASSUME feed \subseteq 0..MaxIndex
  PROVE  /\ Length \in Nat
         /\ Length \notin feed
         /\ 0..(Length - 1) \subseteq feed
<1> DEFINE Free == (0..(MaxIndex + 1)) \ feed
<1>0. MaxIndex \in Nat
  BY ConstantsAssumption
<1>1. Free # {} /\ Free \subseteq Nat
  BY <1>0
<1>2. PICK n \in Free : \A m \in Free : ~ (<<m, n>> \in OpToRel(<, Nat))
  BY <1>1, WFMin, NatLessThanWellFounded
<1>3. \A m \in Free : ~ (m < n)
  BY <1>1, <1>2 DEF OpToRel
<1>4. /\ n \in 0..(MaxIndex + 1)
      /\ n \notin feed
      /\ 0..(n - 1) \subseteq feed
  BY <1>0, <1>3
<1> QED
  BY <1>0, <1>4 DEF Length

(* Whatever the node sees of its updates has no hole.                      *)
LEMMA VisibleIsFull ==
  ASSUME feed \subseteq 0..MaxIndex, NEW n \in Visible
  PROVE  n \in Nat /\ 0..(n - 1) \subseteq feed
BY LengthIsFree DEF Visible

(* What a look-up told stays true when the node serves another upload e.   *)
LEMMA LookedUpStays ==
  ASSUME NEW f, NEW g, f \subseteq g,
         NEW s \in Seq(Upload), NEW e \in Upload,
         NEW u \in Upload, LookedUp(u, f, s)
  PROVE  LookedUp(u, g, Append(s, e))
<1>1. u.seen \in Nat /\ u.seen <= Len(s)
  BY DEF Upload, LookedUp
<1>2. Len(Append(s, e)) = Len(s) + 1 /\ Len(s) \in Nat
  BY AppendProperties, LenProperties
<1>3. \A i \in 1..u.seen : Append(s, e)[i] = s[i]
  BY <1>1, AppendProperties
<1> QED
  BY <1>1, <1>2, <1>3 DEF LookedUp

(* A writer that obtains an index: without a hole below it unless it chose *)
(* the index, and free if the look-up was answered, and up to date.        *)
LEMMA GetsStep ==
  ASSUME FeedInv,
         NEW w \in Writers, NEW index \in Nat, NEW basis \in Bases,
         Gets(w, index, basis),
         basis # "given" => 0..(index - 1) \subseteq feed,
         basis \in {"found", "missing"} => index \notin feed
  PROVE  FeedInv'
<1> DEFINE u == [id |-> calls + 1, writer |-> w, index |-> index,
                 basis |-> basis, seen |-> Len(served)]
<1>1. /\ pc' = [pc EXCEPT ![w] = "ready"]
      /\ job' = [job EXCEPT ![w] = u]
      /\ calls' = calls + 1
      /\ index <= MaxIndex
      /\ UNCHANGED <<feed, requests, probe, target, verdict, served, acked>>
  BY ConstantsAssumption DEF Gets, checker, history
<1>2. /\ served \in Seq(Upload) /\ acked \in Seq(Upload)
      /\ calls \in Nat
      /\ pc \in [Writers -> {"idle", "ready", "sent"}]
      /\ job \in [Writers -> Upload \cup {Idle}]
      /\ feed \subseteq 0..MaxIndex
  BY DEF FeedInv, TypeOK
<1>3. Len(served) \in Nat
  BY <1>2, LenProperties
<1>4. u \in Upload
  BY <1>2, <1>3 DEF Upload
<1>5. LookedUp(u, feed, served)
  BY <1>1, <1>3 DEF FeedInv, ServedKept, LookedUp
<1> HIDE DEF u
<1>6. /\ job'[w] = u
      /\ \A v \in Writers : v # w => job'[v] = job[v] /\ pc'[v] = pc[v]
  BY <1>1, <1>2
<1>7. TypeOK'
  BY <1>1, <1>2, <1>4 DEF FeedInv, TypeOK
<1>8. JobsOK'
  <2> SUFFICES ASSUME NEW v \in Busy'
               PROVE  job'[v] \in Upload /\ job'[v].writer = v /\ LookedUp(job'[v], feed', served')
    BY DEF JobsOK
  <2>1. CASE v = w
    BY <2>1, <1>1, <1>4, <1>5, <1>6 DEF u
  <2>2. CASE v # w
    BY <2>2, <1>1, <1>6 DEF FeedInv, JobsOK, Busy
  <2> QED
    BY <2>1, <2>2
<1>9. JobsAscend'
  <2> SUFFICES ASSUME NEW v \in Busy', NEW a \in 1..Len(acked),
                      acked[a].writer = v, acked[a].basis # "given",
                      job'[v].basis \in {"found", "missing"}
               PROVE  acked[a].index < job'[v].index
    BY <1>1 DEF JobsAscend
  <2>1. CASE v = w
    <3>1. acked[a].index \in feed /\ 0..(acked[a].index - 1) \subseteq feed
      BY DEF FeedInv, AckedKept
    <3>2. acked[a].index \in Nat
      <4>1. acked[a] \in Upload
        BY <1>2
      <4> QED
        BY <4>1 DEF Upload
    <3>3. job'[v].index = index /\ job'[v].basis = basis
      BY <2>1, <1>6 DEF u
    <3> QED
      BY <3>1, <3>2, <3>3
  <2>2. CASE v # w
    BY <2>2, <1>6 DEF FeedInv, JobsAscend, Busy
  <2> QED
    BY <2>1, <2>2
<1> QED
  BY <1>1, <1>7, <1>8, <1>9 DEF FeedInv, RequestsOK, ServedKept, AckedKept, ProbedKept,
     OverwriteExplained, NoHoles, OwnUpdatesAscend, RetrievableMeansAll

(* A step that leaves the uploads, the answers and the feed alone and      *)
(* makes no writer busy.                                                   *)
LEMMA QuietStep ==
  ASSUME FeedInv, TypeOK', Busy' \subseteq Busy, requests' \subseteq requests,
         \A w \in Busy' : job'[w] = job[w],
         UNCHANGED <<feed, served, acked>>,
         ProbedKept', RetrievableMeansAll'
  PROVE  FeedInv'
BY DEF FeedInv, JobsOK, RequestsOK, ServedKept, AckedKept, JobsAscend,
   OverwriteExplained, NoHoles, OwnUpdatesAscend

LEMMA SendStep ==
  ASSUME FeedInv, NEW w \in Writers, Send(w)
  PROVE  FeedInv'
<1>1. /\ pc[w] = "ready"
      /\ pc' = [pc EXCEPT ![w] = "sent"]
      /\ requests' = requests \cup {job[w]}
      /\ UNCHANGED <<feed, job, calls, probe, target, verdict, served, acked>>
  BY DEF Send, checker, history
<1>2. pc \in [Writers -> {"idle", "ready", "sent"}]
  BY DEF FeedInv, TypeOK
<1>3. w \in Busy /\ Busy' = Busy
  BY <1>1, <1>2 DEF Busy
<1>4. job[w] \in Upload /\ LookedUp(job[w], feed, served)
  BY <1>3 DEF FeedInv, JobsOK
<1>5. TypeOK'
  BY <1>1, <1>2, <1>4 DEF FeedInv, TypeOK
<1>6. RequestsOK'
  BY <1>1, <1>4 DEF FeedInv, RequestsOK
<1> QED
  BY <1>1, <1>3, <1>5, <1>6 DEF FeedInv, JobsOK, ServedKept, AckedKept, JobsAscend, ProbedKept,
     OverwriteExplained, NoHoles, OwnUpdatesAscend, RetrievableMeansAll

(* The end of a call, without its acknowledgement.                         *)
LEMMA EndsFacts ==
  ASSUME FeedInv, NEW w \in Writers, Ends(w)
  PROVE  /\ w \in Busy
         /\ Busy' = Busy \ {w}
         /\ \A v \in Busy' : job'[v] = job[v]
         /\ pc' \in [Writers -> {"idle", "ready", "sent"}]
         /\ job' \in [Writers -> Upload \cup {Idle}]
         /\ UNCHANGED <<feed, requests, calls, probe, target, verdict, served>>
<1>1. /\ pc[w] = "sent"
      /\ pc' = [pc EXCEPT ![w] = "idle"]
      /\ job' = [job EXCEPT ![w] = Idle]
      /\ UNCHANGED <<feed, requests, calls, probe, target, verdict, served>>
  BY DEF Ends, checker
<1>2. pc \in [Writers -> {"idle", "ready", "sent"}] /\ job \in [Writers -> Upload \cup {Idle}]
  BY DEF FeedInv, TypeOK
<1>3. w \in Busy /\ Busy' = Busy \ {w}
  BY <1>1, <1>2 DEF Busy
<1> QED
  BY <1>1, <1>2, <1>3 DEF Busy

LEMMA GivesUpStep ==
  ASSUME FeedInv, NEW w \in Writers, GivesUp(w)
  PROVE  FeedInv'
<1>1. Ends(w) /\ UNCHANGED acked
  BY DEF GivesUp
<1>2. TypeOK'
  BY <1>1, EndsFacts DEF FeedInv, TypeOK
<1>3. ProbedKept' /\ RetrievableMeansAll'
  BY <1>1, EndsFacts DEF FeedInv, ProbedKept, RetrievableMeansAll
<1> QED
  BY <1>1, <1>2, <1>3, EndsFacts, QuietStep

LEMMA AcknowledgedStep ==
  ASSUME FeedInv, NEW w \in Writers, Acknowledged(w)
  PROVE  FeedInv'
<1> DEFINE u == job[w]
<1>1. /\ Ends(w)
      /\ acked' = Append(acked, u)
      /\ \E i \in 1..Len(served) : served[i] = u
  BY DEF Acknowledged
<1>2. /\ w \in Busy
      /\ \A v \in Busy' : v \in Busy /\ v # w /\ job'[v] = job[v]
      /\ UNCHANGED <<feed, requests, calls, probe, target, verdict, served>>
  BY <1>1, EndsFacts
<1>3. u \in Upload /\ u.writer = w /\ LookedUp(u, feed, served)
  BY <1>2 DEF FeedInv, JobsOK
<1>4. u.index \in feed
  BY <1>1 DEF FeedInv, ServedKept
<1>5. acked \in Seq(Upload)
  BY DEF FeedInv, TypeOK
<1> DEFINE n == Len(acked)
<1>6. /\ n \in Nat
      /\ Len(acked') = n + 1
      /\ acked'[n + 1] = u
      /\ \A a \in 1..n : acked'[a] = acked[a]
      /\ acked' \in Seq(Upload)
  BY <1>1, <1>3, <1>5, AppendProperties, LenProperties
<1>7. \A a \in 1..Len(acked') : a \in 1..n \/ a = n + 1
  BY <1>6
<1>8. TypeOK'
  BY <1>1, <1>6, EndsFacts DEF FeedInv, TypeOK
<1>9. JobsOK' /\ RequestsOK' /\ ServedKept' /\ ProbedKept'
  BY <1>2 DEF FeedInv, JobsOK, RequestsOK, ServedKept, ProbedKept
<1>10. AckedKept'
  <2> SUFFICES ASSUME NEW a \in 1..Len(acked')
               PROVE  /\ acked'[a].index \in feed
                      /\ acked'[a].basis # "given" => 0..(acked'[a].index - 1) \subseteq feed
    BY <1>2 DEF AckedKept
  <2>1. CASE a \in 1..n
    BY <2>1, <1>6 DEF FeedInv, AckedKept
  <2>2. CASE a = n + 1
    BY <2>2, <1>3, <1>4, <1>6 DEF LookedUp
  <2> QED
    BY <2>1, <2>2, <1>7
<1>11. JobsAscend'
  <2> SUFFICES ASSUME NEW v \in Busy', NEW a \in 1..Len(acked'),
                      acked'[a].writer = v, acked'[a].basis # "given",
                      job'[v].basis \in {"found", "missing"}
               PROVE  acked'[a].index < job'[v].index
    BY DEF JobsAscend
  <2>1. a # n + 1
    BY <1>2, <1>3, <1>6
  <2> QED
    BY <2>1, <1>2, <1>6, <1>7 DEF FeedInv, JobsAscend
<1>12. OwnUpdatesAscend'
  <2> SUFFICES ASSUME NEW a \in 1..Len(acked'), NEW b \in 1..Len(acked'),
                      a < b, acked'[a].writer = acked'[b].writer,
                      acked'[a].basis # "given",
                      acked'[b].basis \in {"found", "missing"}
               PROVE  acked'[a].index < acked'[b].index
    BY DEF OwnUpdatesAscend
  <2>1. a \in 1..n
    BY <1>6, <1>7
  <2>2. CASE b \in 1..n
    BY <2>1, <2>2, <1>6 DEF FeedInv, OwnUpdatesAscend
  <2>3. CASE b = n + 1
    BY <2>1, <2>3, <1>2, <1>3, <1>6 DEF FeedInv, JobsAscend
  <2> QED
    BY <2>2, <2>3, <1>7
<1>13. OverwriteExplained' /\ NoHoles' /\ RetrievableMeansAll'
  BY <1>2 DEF FeedInv, OverwriteExplained, NoHoles, RetrievableMeansAll
<1> QED
  BY <1>8, <1>9, <1>10, <1>11, <1>12, <1>13 DEF FeedInv

LEMMA ServeStep ==
  ASSUME FeedInv, NEW u \in requests, Serve(u)
  PROVE  FeedInv'
<1>1. /\ requests' = requests \ {u}
      /\ served' = Append(served, u)
      /\ feed' = feed \cup {u.index}
      /\ UNCHANGED <<pc, job, calls, probe, target, verdict, acked>>
  BY DEF Serve, writers, checker
<1>2. /\ served \in Seq(Upload)
      /\ u \in Upload
      /\ requests \subseteq Upload
      /\ feed \subseteq 0..MaxIndex
      /\ LookedUp(u, feed, served)
  BY DEF FeedInv, TypeOK, RequestsOK
<1>3. u.index \in 0..MaxIndex
  BY <1>2, ConstantsAssumption DEF Upload, LookedUp
<1> DEFINE n == Len(served)
<1>4. /\ n \in Nat
      /\ Len(served') = n + 1
      /\ served'[n + 1] = u
      /\ \A i \in 1..n : served'[i] = served[i]
      /\ served' \in Seq(Upload)
  BY <1>1, <1>2, AppendProperties, LenProperties
<1>5. \A i \in 1..Len(served') : i \in 1..n \/ i = n + 1
  BY <1>4
<1>6. Busy' = Busy
  BY <1>1 DEF Busy
<1>7. TypeOK'
  BY <1>1, <1>2, <1>3, <1>4 DEF FeedInv, TypeOK
<1>8. \A x \in Upload : LookedUp(x, feed, served) => LookedUp(x, feed', served')
  BY <1>1, <1>2, LookedUpStays
<1>9. JobsOK'
  BY <1>1, <1>6, <1>8 DEF FeedInv, JobsOK
<1>10. RequestsOK'
  BY <1>1, <1>2, <1>8 DEF FeedInv, RequestsOK
<1>11. ServedKept'
  BY <1>1, <1>4, <1>5 DEF FeedInv, ServedKept
<1>12. AckedKept' /\ ProbedKept' /\ RetrievableMeansAll'
  BY <1>1 DEF FeedInv, AckedKept, ProbedKept, RetrievableMeansAll
<1>13. JobsAscend' /\ OwnUpdatesAscend'
  BY <1>1, <1>6 DEF FeedInv, JobsAscend, OwnUpdatesAscend
<1>14. OverwriteExplained'
  <2> SUFFICES ASSUME NEW i \in 1..Len(served'), NEW j \in 1..Len(served'),
                      i < j, served'[i].index = served'[j].index,
                      served'[j].basis \notin {"given", "failed", "stale"}
               PROVE  i > served'[j].seen
    BY DEF OverwriteExplained
  <2>1. i \in 1..n
    BY <1>4, <1>5
  <2>2. CASE j \in 1..n
    BY <2>1, <2>2, <1>4 DEF FeedInv, OverwriteExplained
  <2>3. CASE j = n + 1
    <3>1. u.basis \in {"found", "missing"} /\ u.seen \in Nat
      BY <2>3, <1>2, <1>4 DEF Upload, Bases
    <3>2. \A k \in 1..u.seen : served[k].index # u.index
      BY <3>1, <1>2 DEF LookedUp
    <3> QED
      BY <2>1, <2>3, <3>1, <3>2, <1>4
  <2> QED
    BY <2>2, <2>3, <1>5
<1>15. NoHoles'
  <2> SUFFICES ASSUME NEW j \in 1..Len(served'), served'[j].basis # "given"
               PROVE  0..(served'[j].index - 1) \subseteq feed'
    BY DEF NoHoles
  <2>1. CASE j \in 1..n
    BY <2>1, <1>1, <1>4 DEF FeedInv, NoHoles
  <2>2. CASE j = n + 1
    BY <2>2, <1>1, <1>2, <1>4 DEF LookedUp
  <2> QED
    BY <2>1, <2>2, <1>5
<1> QED
  BY <1>7, <1>9, <1>10, <1>11, <1>12, <1>13, <1>14, <1>15 DEF FeedInv

LEMMA CheckSteps ==
  ASSUME FeedInv, StartCheck \/ ProbeFound \/ ProbeMissing \/ ProbeFails
  PROVE  FeedInv'
<1>0. /\ probe \in 0..MaxIndex /\ target \in 0..MaxIndex /\ MaxIndex \in Nat
      /\ verdict = "running" => 0..(probe - 1) \subseteq feed
      /\ verdict = "true" => 0..target \subseteq feed
  BY ConstantsAssumption DEF FeedInv, TypeOK, ProbedKept, RetrievableMeansAll
<1>1. UNCHANGED <<feed, requests, pc, job, calls, served, acked>>
  BY DEF StartCheck, ProbeFound, ProbeMissing, ProbeFails, Concludes, writers, history
<1>2. /\ probe' \in 0..MaxIndex /\ target' \in 0..MaxIndex
      /\ verdict' \in {"none", "running", "true", "false", "error"}
      /\ verdict' = "running" => 0..(probe' - 1) \subseteq feed
      /\ verdict' = "true" => 0..target' \subseteq feed
  <2>1. CASE StartCheck
    BY <2>1, <1>0 DEF StartCheck
  <2>2. CASE ProbeFound /\ Done
    BY <2>2, <1>0 DEF ProbeFound, Done, Concludes
  <2>3. CASE ProbeFound /\ ~Done
    BY <2>3, <1>0 DEF ProbeFound, Done
  <2>4. CASE ProbeMissing
    BY <2>4, <1>0 DEF ProbeMissing, Concludes
  <2>5. CASE ProbeFails
    BY <2>5, <1>0 DEF ProbeFails, Concludes
  <2> QED
    BY <2>1, <2>2, <2>3, <2>4, <2>5
<1>3. Busy' = Busy
  BY <1>1 DEF Busy
<1>4. TypeOK' /\ ProbedKept' /\ RetrievableMeansAll'
  BY <1>1, <1>2 DEF FeedInv, TypeOK, ProbedKept, RetrievableMeansAll
<1> QED
  BY <1>1, <1>3, <1>4, QuietStep

LEMMA FeedInvStep == FeedInv /\ [Next]_vars => FeedInv'
<1> SUFFICES ASSUME FeedInv, [Next]_vars PROVE FeedInv'
  OBVIOUS
<1>0. feed \subseteq 0..MaxIndex
  BY DEF FeedInv, TypeOK
<1>1. ASSUME NEW w \in Writers, FindNext(w) PROVE FeedInv'
  <2>1. PICK n \in Visible \ {0} :
          Gets(w, n, IF n = Length THEN "found" ELSE "stale")
    BY <1>1 DEF FindNext, IndexNext
  <2>2. n \in Nat /\ 0..(n - 1) \subseteq feed
    BY <1>0, VisibleIsFull
  <2>3. CASE n = Length
    <3>1. n \notin feed /\ Gets(w, n, "found")
      BY <1>0, <2>1, <2>3, LengthIsFree
    <3> QED
      BY <2>2, <3>1, GetsStep DEF Bases
  <2>4. CASE n # Length
    BY <2>1, <2>2, <2>4, GetsStep DEF Bases
  <2> QED
    BY <2>3, <2>4
<1>2. ASSUME NEW w \in Writers, FindNone(w) PROVE FeedInv'
  <2>1. 0..(0 - 1) \subseteq feed
    OBVIOUS
  <2>2. CASE Length = 0
    <3>1. 0 \notin feed /\ Gets(w, 0, "missing")
      BY <1>0, <1>2, <2>2, LengthIsFree DEF FindNone
    <3> QED
      BY <2>1, <3>1, GetsStep DEF Bases
  <2>3. CASE Length # 0
    BY <1>2, <2>1, <2>3, GetsStep DEF FindNone, Bases
  <2> QED
    BY <2>2, <2>3
<1>3. ASSUME NEW w \in Writers, FindFails(w) PROVE FeedInv'
  <2>1. Gets(w, 0, "failed") /\ 0..(0 - 1) \subseteq feed
    BY <1>3 DEF FindFails
  <2> QED
    BY <2>1, GetsStep DEF Bases
<1>4. ASSUME NEW w \in Writers, GiveIndex(w) PROVE FeedInv'
  <2>1. PICK i \in 0..MaxIndex : Gets(w, i, "given")
    BY <1>4 DEF GiveIndex
  <2>2. i \in Nat
    BY ConstantsAssumption
  <2> QED
    BY <2>1, <2>2, GetsStep DEF Bases
<1>5. CASE UNCHANGED vars
  <2>1. UNCHANGED <<feed, requests, pc, job, calls, probe, target, verdict, served, acked>>
    BY <1>5 DEF vars, writers, checker, history
  <2> QED
    BY <2>1 DEF FeedInv, TypeOK, JobsOK, RequestsOK, ServedKept, AckedKept, JobsAscend,
       ProbedKept, Busy, OverwriteExplained, NoHoles, OwnUpdatesAscend, RetrievableMeansAll
<1> QED
  BY <1>1, <1>2, <1>3, <1>4, <1>5, SendStep, AcknowledgedStep, GivesUpStep, ServeStep, CheckSteps
     DEF Next

-----------------------------------------------------------------------------

LEMMA FeedInvAlways == Spec => []FeedInv
BY FeedInvInit, FeedInvStep, PTL DEF Spec

(***************************************************************************)
(* Every variable keeps its type; in particular no upload, and no step of  *)
(* a check, goes past the last index.                                      *)
(***************************************************************************)
THEOREM FeedTypes == Spec => []TypeOK
<1>1. FeedInv => TypeOK
  BY DEF FeedInv
<1> QED
  BY <1>1, FeedInvAlways, PTL

(***************************************************************************)
(* Of two updates at one index, the later one was told the index by its    *)
(* caller, looked the feed up while the node failed or lagged, or had      *)
(* looked before the earlier one was served: UpdateFeed never overwrites   *)
(* what its look-up could have seen.                                       *)
(***************************************************************************)
THEOREM OverwritesExplained == Spec => []OverwriteExplained
<1>1. FeedInv => OverwriteExplained
  BY DEF FeedInv
<1> QED
  BY <1>1, FeedInvAlways, PTL

(***************************************************************************)
(* UpdateFeed leaves no hole below the update it writes, whatever it was   *)
(* answered and whenever its upload is served.                             *)
(***************************************************************************)
THEOREM NoHolesBelow == Spec => []NoHoles
<1>1. FeedInv => NoHoles
  BY DEF FeedInv
<1> QED
  BY <1>1, FeedInvAlways, PTL

(***************************************************************************)
(* The updates a writer has had acknowledged ascend as long as the feed is *)
(* looked up and found as it is, whatever other writers and its own lost   *)
(* calls did.                                                              *)
(***************************************************************************)
THEOREM AcknowledgedAscend == Spec => []OwnUpdatesAscend
<1>1. FeedInv => OwnUpdatesAscend
  BY DEF FeedInv
<1> QED
  BY <1>1, FeedInvAlways, PTL

(***************************************************************************)
(* A check that answers true is right: all the updates up to its index are *)
(* there.                                                                  *)
(***************************************************************************)
THEOREM RetrievableIsAll == Spec => []RetrievableMeansAll
<1>1. FeedInv => RetrievableMeansAll
  BY DEF FeedInv
<1> QED
  BY <1>1, FeedInvAlways, PTL

=============================================================================
