-------------------------- MODULE Subscription_proofs --------------------------
(***************************************************************************)
(* Proofs about Subscription, for any number of goroutines that call       *)
(* Cancel, any buffer and any traffic.  Numbering relates what is still on *)
(* the wire to what left it, and Causes the goroutines to the context that *)
(* ends them; the safety properties follow from the two.  Endings says how *)
(* the goroutines end: none waits for what nobody does, and their steps    *)
(* run out.  At the end, and only there, the program is PssReceive with    *)
(* its single caller of Cancel.                                            *)
(***************************************************************************)
EXTENDS PssReceive, SequenceTheorems, TLAPS

(* The reader has not decided to end.                                      *)
Active == reader \in {"unborn", "reading", "handing"}

(* The number of messages before frame j of the wire.                      *)
Before(j) == IF j = 1 THEN Delivered ELSE wire[j-1].n

(* The number of messages up to the last frame of the wire.                *)
Reached == IF wire = <<>> THEN Delivered ELSE wire[Len(wire)].n

(* Frame j of the wire counts on from what is before it.                   *)
Counts(j) ==
  /\ wire[j].n = Before(j) + (IF wire[j].kind = "message" THEN 1 ELSE 0)
  /\ wire[j].n <= sent

Numbering ==
  /\ InOrder
  /\ held = 0 <=> reader # "handing"
  /\ link \in {"none", "refused"} => wire = <<>> /\ sent = 0
  /\ Active => \A j \in 1..Len(wire) : Counts(j)
  /\ Active /\ link \in {"up", "ended"} => sent = Reached

(* Only a done context closes the connection from this side, and only a    *)
(* done context or a reported error ends the reader.                       *)
Causes ==
  /\ connClosed => subDone
  /\ \A c \in Callers : canceller[c] = "closing" => subDone
  /\ ~Active => subDone \/ errs > 0 \/ sawError
  /\ errsClosed => ~Active
  /\ link \in {"none", "refused"} => reader = "unborn"
  /\ SilentCancel

SubInv == TypeOK /\ Numbering /\ Causes

USE DEF Active, LinkOver, Reports, MayGiveUp, Return, ErrorReady

LEMMA SubInvInit == Init => SubInv
BY DEF Init, SubInv, TypeOK, Numbering, Causes, InOrder, Delivered, SilentCancel, Before, Events,
   connClosed, subDone, errsClosed, sawError

LEMMA TypeStep == TypeOK /\ [Next]_vars => TypeOK'
<1> SUFFICES ASSUME TypeOK, [Next]_vars PROVE TypeOK'
  OBVIOUS
<1>0. /\ wire \in Seq(Frame) /\ frames \in Nat /\ sent \in Nat /\ errs \in Nat
      /\ got \in Seq(Nat) /\ msgs \in Seq(Nat) /\ held \in Nat
  BY DEF TypeOK
<1> USE DEF node, Happens
<1>1. ASSUME NEW kind \in {"message", "empty"}, NodeSends(kind) PROVE TypeOK'
  <2> DEFINE f == [n |-> sent', kind |-> kind]
  <2>1. frames' \in Nat /\ sent' \in Nat
    BY <1>0, <1>1 DEF NodeSends
  <2>2. f \in Frame
    BY <2>1 DEF Frame
  <2>3. wire' = Append(wire, f)
    BY <1>1 DEF NodeSends
  <2> HIDE DEF f
  <2>4. wire' \in Seq(Frame)
    BY <1>0, <2>2, <2>3, AppendProperties
  <2>5. UNCHANGED <<link, past, canceller, reader, held, watcher, msgs, errs, got>>
    BY <1>1 DEF NodeSends
  <2> QED
    BY <2>1, <2>4, <2>5 DEF TypeOK
<1>2. CASE LinkBreaks
  <2>1. PICK k \in 0..Len(wire) : wire' = SubSeq(wire, 1, k)
    BY <1>2 DEF LinkBreaks
  <2>2. wire' \in Seq(Frame)
    BY <1>0, <2>1, LenProperties, SubSeqProperties
  <2>3. link' = "broken" /\ UNCHANGED <<frames, sent, past, canceller, reader, held, watcher,
                                        msgs, errs, got>>
    BY <1>2 DEF LinkBreaks
  <2> QED
    BY <2>2, <2>3 DEF TypeOK
<1>3. CASE Subscribe \/ SubscribeFails \/ NodeCloses
  BY <1>3 DEF Subscribe, SubscribeFails, NodeCloses, TypeOK
<1>4. CASE ReadFrame
  <2>1. Head(wire) \in Frame /\ wire' \in Seq(Frame)
    BY <1>0, <1>4, HeadTailProperties DEF ReadFrame
  <2>2. Head(wire).n \in Nat
    BY <2>1 DEF Frame
  <2> DEFINE n == Head(wire).n
  <2>5. held' \in {held, n} /\ reader' \in {"reading", "handing"}
    BY <1>4 DEF ReadFrame
  <2> HIDE DEF n
  <2>3. held' \in Nat /\ reader' \in {"reading", "handing"}
    BY <1>0, <2>2, <2>5 DEF n
  <2>4. UNCHANGED <<link, frames, sent, past, canceller, watcher, msgs, errs, got>>
    BY <1>4 DEF ReadFrame
  <2> QED
    BY <2>1, <2>3, <2>4 DEF TypeOK
<1>5. CASE HandOver
  <2>1. msgs' \in Seq(Nat)
    BY <1>0, <1>5, AppendProperties DEF HandOver
  <2>2. /\ held' = 0 /\ reader' = "reading"
        /\ UNCHANGED <<link, wire, frames, sent, past, canceller, watcher, errs, got>>
    BY <1>5 DEF HandOver
  <2> QED
    BY <2>1, <2>2 DEF TypeOK
<1>6. CASE ReadFails \/ GiveUp
  <2>1. /\ held' \in Nat /\ errs' \in Nat /\ reader' = "closing errors"
        /\ UNCHANGED <<link, wire, frames, sent, past, canceller, watcher, msgs, got>>
    <3>1. CASE ReadFails
      <4>1. errs' = errs \/ errs' = errs + 1
        BY <3>1 DEF ReadFails
      <4>2. /\ held' = held /\ reader' = "closing errors"
            /\ UNCHANGED <<link, wire, frames, sent, past, canceller, watcher, msgs, got>>
        BY <3>1 DEF ReadFails
      <4> QED
        <5>1. errs' \in Nat
          BY <1>0, <4>1
        <5> QED
          BY <1>0, <4>2, <5>1
    <3>2. CASE GiveUp
      BY <1>0, <3>2 DEF GiveUp
    <3> QED
      BY <1>6, <3>1, <3>2
  <2> QED
    BY <2>1 DEF TypeOK
<1>7. CASE CtxDone \/ Propagate \/ CloseErrors \/ CloseMessages \/ Watcher
  BY <1>7 DEF CtxDone, Propagate, CloseErrors, CloseMessages, Watcher, TypeOK, Events
<1>8. CASE TakeMessage
  <2>1. msgs' \in Seq(Nat) /\ got' \in Seq(Nat)
    BY <1>0, <1>8, HeadTailProperties, AppendProperties DEF TakeMessage
  <2>2. UNCHANGED <<link, wire, frames, sent, past, canceller, reader, held, watcher, errs>>
    BY <1>8 DEF TakeMessage
  <2> QED
    BY <2>1, <2>2 DEF TypeOK
<1>9. CASE TakeError
  <2>1. /\ errs' \in Nat /\ past' = past \cup {"error received"}
        /\ UNCHANGED <<link, wire, frames, sent, canceller, reader, held, watcher, msgs, got>>
    <3>1. errs > 0 /\ errs' = errs - 1
      BY <1>9 DEF TakeError
    <3>2. /\ past' = past \cup {"error received"}
          /\ UNCHANGED <<link, wire, frames, sent, canceller, reader, held, watcher, msgs, got>>
      BY <1>9 DEF TakeError
    <3>3. errs' \in Nat
      BY <1>0, <3>1
    <3> QED
      BY <3>2, <3>3
  <2> QED
    BY <2>1 DEF TypeOK, Events
<1>10. ASSUME NEW c \in Callers, CancelEnters(c) \/ CancelRuns(c) PROVE TypeOK'
  BY <1>10 DEF CancelEnters, CancelRuns, CancelMarks, CancelContext, CancelCloses, TypeOK, Events
<1>11. CASE UNCHANGED vars
  BY <1>11 DEF vars, TypeOK
<1> QED
  BY <1>1, <1>2, <1>3, <1>4, <1>5, <1>6, <1>7, <1>8, <1>9, <1>10, <1>11
     DEF Next, Environment, Reader

LEMMA OneError ==
  ASSUME NEW e \in Nat, NEW f, f = IF e < 1 THEN e + 1 ELSE e
  PROVE  f > 0
OBVIOUS

LEMMA CausesStep == TypeOK /\ Causes /\ [Next]_vars => Causes'
<1> SUFFICES ASSUME TypeOK, Causes, [Next]_vars PROVE Causes'
  OBVIOUS
<1>0. errs \in Nat /\ canceller \in [Callers -> {"idle", "marking", "cancelling", "closing",
                                                 "returned"}]
  BY DEF TypeOK
<1> USE <1>0 DEF Causes, SilentCancel, node, Happens, subDone, connClosed, errsClosed, sawError
<1>1. CASE Environment
  <2>1. CASE Subscribe
    BY <2>1 DEF Subscribe
  <2>2. ASSUME NEW kind \in {"message", "empty"}, NodeSends(kind) PROVE Causes'
    <3>1. UNCHANGED <<link, past, canceller, reader, errs>>
      BY <2>2 DEF NodeSends
    <3> QED
      BY <3>1
  <2>3. CASE LinkBreaks
    <3>1. link = "up" /\ link' = "broken" /\ UNCHANGED <<past, canceller, reader, errs>>
      BY <2>3 DEF LinkBreaks
    <3> QED
      BY <3>1
  <2>4. CASE SubscribeFails \/ NodeCloses \/ CtxDone
    BY <2>4 DEF SubscribeFails, NodeCloses, CtxDone
  <2> QED
    BY <1>1, <2>1, <2>2, <2>3, <2>4 DEF Environment
<1>2. CASE ReadFrame \/ HandOver
  <2>1. UNCHANGED <<link, past, canceller, errs>> /\ Active /\ Active'
    BY <1>2 DEF ReadFrame, HandOver
  <2>2. reader # "unborn"
    BY <1>2 DEF ReadFrame, HandOver
  <2> QED
    BY <2>1, <2>2
<1>6. CASE ReadFails
  <2>1. /\ reader = "reading" /\ reader' = "closing errors"
        /\ UNCHANGED <<link, past, canceller>>
        /\ connClosed \/ link \in {"ended", "broken"}
        /\ errs' = IF ~subDone /\ errs < 1 THEN errs + 1 ELSE errs
    BY <1>6 DEF ReadFails
  <2>2. CASE subDone
    <3>1. errs' = errs
      BY <2>1, <2>2
    <3> QED
      BY <2>1, <2>2, <3>1
  <2>3. CASE ~subDone
    <3>1. link \in {"ended", "broken"}
      BY <2>1, <2>3
    <3>2. errs' > 0
      <4>1. errs' = IF errs < 1 THEN errs + 1 ELSE errs
        BY <2>1, <2>3
      <4> QED
        BY <1>0, <4>1, OneError
    <3> QED
      BY <2>1, <3>1, <3>2
  <2> QED
    BY <2>2, <2>3
<1>7. CASE GiveUp
  BY <1>7 DEF GiveUp
<1>8. CASE CloseErrors \/ CloseMessages
  BY <1>8 DEF CloseErrors, CloseMessages
<1>3. CASE TakeMessage \/ TakeError
  BY <1>3 DEF TakeMessage, TakeError
<1>4. ASSUME NEW c \in Callers, CancelEnters(c) \/ CancelRuns(c) PROVE Causes'
  BY <1>4 DEF CancelEnters, CancelRuns, CancelMarks, CancelContext, CancelCloses
<1>5. CASE Propagate \/ Watcher \/ UNCHANGED vars
  BY <1>5 DEF Propagate, Watcher, vars
<1> QED
  BY <1>1, <1>2, <1>3, <1>4, <1>5, <1>6, <1>7, <1>8 DEF Next, Reader

LEMMA NumberingStep == TypeOK /\ Numbering /\ [Next]_vars => Numbering'
<1> SUFFICES ASSUME TypeOK, Numbering, [Next]_vars PROVE Numbering'
  OBVIOUS
<1>0. /\ wire \in Seq(Frame) /\ sent \in Nat /\ held \in Nat
      /\ got \in Seq(Nat) /\ msgs \in Seq(Nat)
      /\ Len(got) \in Nat /\ Len(msgs) \in Nat /\ Len(wire) \in Nat /\ Delivered \in Nat
      /\ \A j \in 1..Len(wire) : wire[j].n \in Nat
  <2>1. wire \in Seq(Frame) /\ sent \in Nat /\ held \in Nat /\ got \in Seq(Nat) /\ msgs \in Seq(Nat)
    BY DEF TypeOK
  <2>2. \A j \in 1..Len(wire) : wire[j] \in Frame
    BY <2>1, ElementOfSeq
  <2>3. \A j \in 1..Len(wire) : wire[j].n \in Nat
    BY <2>2 DEF Frame
  <2> QED
    BY <2>1, <2>3, LenProperties DEF Delivered
<1> USE DEF node
<1>1. ASSUME UNCHANGED <<link, wire, sent, reader, held, msgs, got>> PROVE Numbering'
  BY <1>1 DEF Numbering, InOrder, Before, Counts, Reached, Delivered
<1>2. ASSUME NEW kind \in {"message", "empty"}, NodeSends(kind) PROVE Numbering'
  <2> DEFINE f == [n |-> sent', kind |-> kind]
             last == Len(wire) + 1
  <2>1. sent' = sent + (IF kind = "message" THEN 1 ELSE 0) /\ link = "up"
    BY <1>0, <1>2 DEF NodeSends
  <2>2. UNCHANGED <<link, reader, held, msgs, got>> /\ wire' = Append(wire, f)
    BY <1>2 DEF NodeSends
  <2>3. f \in Frame /\ f.n = sent' /\ f.kind = kind
    BY <1>0, <2>1 DEF Frame
  <2> HIDE DEF f
  <2>4. /\ Len(wire') = last /\ wire'[last] = f
        /\ \A j \in 1..Len(wire) : wire'[j] = wire[j]
    BY <1>0, <2>2, <2>3, AppendProperties
  <2>5. UNCHANGED Delivered /\ InOrder'
    BY <1>0, <2>1, <2>2 DEF Numbering, InOrder, Delivered
  <2>6. ASSUME NEW j \in 1..last PROVE Before(j)' = Before(j)
    BY <1>0, <2>4, <2>5, <2>6 DEF Before
  <2>7. ASSUME Active, NEW j \in 1..Len(wire') PROVE Counts(j)'
    <3>1. CASE j = last
      <4>1. sent = Before(last) /\ Before(last) \in Nat
        BY <1>0, <2>1, <2>7, EmptySeq DEF Numbering, Reached, Before
      <4>2. Before(j)' = sent
        BY <1>0, <2>6, <3>1, <4>1
      <4>3. wire'[j].n = sent' /\ wire'[j].kind = kind
        BY <2>3, <2>4, <3>1
      <4> QED
        BY <1>0, <2>1, <4>2, <4>3 DEF Counts
    <3>2. CASE j \in 1..Len(wire)
      <4>1. Counts(j)
        BY <2>7, <3>2 DEF Numbering
      <4>2. wire[j].n <= sent'
        BY <1>0, <2>1, <3>2, <4>1 DEF Counts
      <4> QED
        BY <1>0, <2>4, <2>6, <3>2, <4>1, <4>2 DEF Counts
    <3> QED
      BY <1>0, <2>4, <3>1, <3>2
  <2>8. sent' = Reached'
    <3>1. wire' # <<>> /\ wire'[Len(wire')].n = sent'
      BY <1>0, <2>3, <2>4, EmptySeq
    <3> QED
      BY <3>1 DEF Reached
  <2> QED
    BY <2>1, <2>2, <2>5, <2>7, <2>8 DEF Numbering
<1>3. CASE LinkBreaks
  <2>1. PICK k \in 0..Len(wire) : wire' = SubSeq(wire, 1, k)
    BY <1>3 DEF LinkBreaks
  <2>2. Len(wire') = k /\ \A j \in 1..k : wire'[j] = wire[j]
    BY <1>0, <2>1, SubSeqProperties
  <2>3. link' = "broken" /\ UNCHANGED <<sent, reader, held, msgs, got>>
    BY <1>3 DEF LinkBreaks
  <2>4. InOrder' /\ UNCHANGED Delivered
    BY <2>3 DEF Numbering, InOrder, Delivered
  <2>5. ASSUME Active, NEW j \in 1..k PROVE Counts(j)'
    <3>1. Counts(j)
      BY <1>0, <2>5 DEF Numbering
    <3>2. Before(j)' = Before(j)
      BY <1>0, <2>2, <2>4 DEF Before
    <3> QED
      BY <2>2, <2>3, <3>1, <3>2 DEF Counts
  <2> QED
    BY <2>2, <2>3, <2>4, <2>5 DEF Numbering
<1>4. CASE Subscribe
  <2>1. wire = <<>> /\ sent = 0 /\ Delivered = 0 /\ held = 0
    BY <1>0, <1>4 DEF Subscribe, Numbering, InOrder, Delivered
  <2>2. link' = "up" /\ reader' = "reading" /\ UNCHANGED <<wire, sent, held, msgs, got>>
    BY <1>4 DEF Subscribe
  <2>3. InOrder' /\ Delivered' = 0
    BY <2>1, <2>2 DEF Numbering, InOrder, Delivered
  <2>4. Len(wire') = 0 /\ sent' = Reached'
    BY <2>1, <2>2, <2>3, EmptySeq DEF Reached
  <2> QED
    BY <2>1, <2>2, <2>3, <2>4 DEF Numbering
<1>5. CASE SubscribeFails \/ NodeCloses
  <2>1. /\ link' \in {"refused", "ended"} /\ UNCHANGED <<wire, sent, reader, held, msgs, got>>
        /\ link' = "refused" => link = "none"
        /\ link' = "ended" => link = "up"
    BY <1>5 DEF SubscribeFails, NodeCloses
  <2> QED
    BY <2>1 DEF Numbering, InOrder, Before, Counts, Reached, Delivered
<1>6. CASE ReadFrame
  <2>1. reader = "reading" /\ wire # <<>> /\ wire' = Tail(wire) /\ Head(wire) = wire[1]
    BY <1>0, <1>6 DEF ReadFrame
  <2>2. UNCHANGED <<link, sent, msgs, got>>
    BY <1>6 DEF ReadFrame
  <2>3. /\ Len(wire) # 0 /\ Len(wire') = Len(wire) - 1
        /\ \A j \in 1..Len(wire') : wire'[j] = wire[j+1]
    BY <1>0, <2>1, HeadTailProperties, EmptySeq
  <2>4. Active /\ held = 0 /\ InOrder
    BY <2>1 DEF Numbering
  <2>5. Counts(1) /\ wire[1].n \in Nat
    BY <1>0, <2>3, <2>4 DEF Numbering
  <2>6. /\ reader' = (IF wire[1].kind = "empty" THEN "reading" ELSE "handing")
        /\ held' = (IF wire[1].kind = "empty" THEN 0 ELSE wire[1].n)
    BY <1>6, <2>1, <2>4 DEF ReadFrame
  <2>7. wire[1].kind \in {"message", "empty"}
    <3>1. wire[1] \in Frame
      BY <1>0, <2>3, ElementOfSeq
    <3> QED
      BY <3>1 DEF Frame
  <2>8. InOrder' /\ Delivered' = wire[1].n /\ (held' = 0 <=> reader' # "handing")
    BY <1>0, <2>2, <2>4, <2>5, <2>6, <2>7 DEF Counts, Before, InOrder, Delivered
  <2>9. ASSUME NEW j \in 1..(Len(wire') + 1) PROVE Before(j)' = Before(j + 1)
    <3>1. CASE j = 1
      BY <2>8, <3>1 DEF Before
    <3>2. CASE j # 1
      <4>1. j - 1 \in 1..Len(wire') /\ j + 1 # 1 /\ (j - 1) + 1 = j /\ (j + 1) - 1 = j
        BY <1>0, <2>3, <2>9, <3>2
      <4>2. wire'[j - 1] = wire[j]
        BY <2>3, <4>1
      <4> QED
        BY <3>2, <4>1, <4>2 DEF Before
    <3> QED
      BY <3>1, <3>2
  <2>10. ASSUME NEW j \in 1..Len(wire') PROVE Counts(j)'
    <3>1. Counts(j + 1) /\ wire'[j] = wire[j + 1] /\ Before(j)' = Before(j + 1)
      BY <1>0, <2>3, <2>4, <2>9 DEF Numbering
    <3> QED
      BY <2>2, <3>1 DEF Counts
  <2>11. link \in {"up", "ended"} => sent' = Reached'
    <3>1. link \in {"up", "ended"} => sent = wire[Len(wire)].n
      BY <2>1, <2>4 DEF Numbering, Reached
    <3>2. CASE Len(wire) = 1
      <4>1. wire' = <<>>
        <5>1. wire' \in Seq(Frame) /\ Len(wire') = 0
          BY <1>0, <2>1, <2>3, <3>2, HeadTailProperties
        <5> QED
          BY <5>1, EmptySeq
      <4> QED
        BY <2>2, <2>8, <3>1, <3>2, <4>1 DEF Reached
    <3>3. CASE Len(wire) # 1
      <4>1. Len(wire') \in 1..Len(wire') /\ Len(wire') + 1 = Len(wire)
        BY <1>0, <2>3, <3>3
      <4>2. wire' # <<>> /\ wire'[Len(wire')] = wire[Len(wire)]
        BY <2>3, <4>1, EmptySeq
      <4> QED
        BY <2>2, <3>1, <4>2 DEF Reached
    <3> QED
      BY <3>2, <3>3
  <2>12. link \notin {"none", "refused"}
    BY <2>1 DEF Numbering
  <2> QED
    BY <2>2, <2>8, <2>10, <2>11, <2>12 DEF Numbering
<1>7. CASE HandOver
  <2>1. /\ reader = "handing" /\ reader' = "reading" /\ held' = 0 /\ UNCHANGED <<link, wire, sent, got>>
        /\ msgs' = Append(msgs, held) /\ held # 0
    BY <1>7 DEF HandOver, Numbering
  <2>2. /\ Len(msgs') = Len(msgs) + 1 /\ msgs'[Len(msgs) + 1] = held
        /\ \A k \in 1..Len(msgs) : msgs'[k] = msgs[k]
    BY <1>0, <2>1, AppendProperties
  <2>3. InOrder' /\ Delivered' = Delivered
    <3>1. InOrder /\ held = Len(got) + Len(msgs) + 1
      BY <2>1 DEF Numbering, InOrder
    <3>2. Delivered' = Delivered
      BY <1>0, <2>1, <2>2 DEF Delivered
    <3>3. ASSUME NEW k \in 1..Len(msgs') PROVE msgs'[k] = Len(got) + k
      <4>1. CASE k = Len(msgs) + 1
        BY <2>2, <3>1, <4>1
      <4>2. CASE k \in 1..Len(msgs)
        BY <2>2, <3>1, <4>2 DEF InOrder
      <4> QED
        BY <1>0, <2>2, <4>1, <4>2
    <3> QED
      BY <2>1, <3>1, <3>2, <3>3 DEF InOrder
  <2> QED
    BY <2>1, <2>3 DEF Numbering, Before, Counts, Reached
<1>8. CASE GiveUp
  <2>1. ~Active' /\ held' = 0 /\ UNCHANGED <<link, wire, sent, msgs, got>>
    BY <1>8 DEF GiveUp
  <2>2. InOrder'
    <3>1. Delivered' \in Nat /\ Delivered' <= Delivered
      BY <1>0, <2>1 DEF Delivered
    <3>2. InOrder
      BY DEF Numbering
    <3> QED
      BY <1>0, <2>1, <3>1, <3>2 DEF InOrder
  <2> QED
    BY <2>1, <2>2 DEF Numbering
<1>9. CASE ReadFails \/ CloseErrors \/ CloseMessages
  <2>1. /\ ~Active' /\ reader # "handing" /\ reader' # "handing"
        /\ UNCHANGED <<link, wire, sent, held, msgs, got>>
    BY <1>9 DEF ReadFails, CloseErrors, CloseMessages
  <2> QED
    BY <2>1 DEF Numbering, InOrder, Delivered
<1>10. CASE TakeMessage
  <2>1. /\ UNCHANGED <<link, wire, sent, reader, held>> /\ msgs # <<>>
        /\ msgs' = Tail(msgs) /\ got' = Append(got, Head(msgs))
    BY <1>10 DEF TakeMessage
  <2>2. /\ Len(msgs) # 0 /\ Len(msgs') = Len(msgs) - 1 /\ Head(msgs) = msgs[1] /\ Head(msgs) \in Nat
        /\ \A k \in 1..Len(msgs') : msgs'[k] = msgs[k + 1]
    BY <1>0, <2>1, HeadTailProperties, EmptySeq
  <2>3. /\ Len(got') = Len(got) + 1 /\ got'[Len(got) + 1] = msgs[1]
        /\ \A k \in 1..Len(got) : got'[k] = got[k]
    BY <1>0, <2>1, <2>2, AppendProperties
  <2>4. InOrder' /\ Delivered' = Delivered
    BY <1>0, <2>1, <2>2, <2>3 DEF Numbering, InOrder, Delivered
  <2> QED
    BY <2>1, <2>4 DEF Numbering, Before, Counts, Reached
<1>11. ASSUME NEW c \in Callers, CancelEnters(c) \/ CancelRuns(c) PROVE Numbering'
  BY <1>1, <1>11 DEF CancelEnters, CancelRuns, CancelMarks, CancelContext, CancelCloses
<1>12. CASE CtxDone \/ Propagate \/ Watcher \/ TakeError \/ UNCHANGED vars
  BY <1>1, <1>12 DEF CtxDone, Propagate, Watcher, TakeError, vars
<1> QED
  BY <1>2, <1>3, <1>4, <1>5, <1>6, <1>7, <1>8, <1>9, <1>10, <1>11, <1>12
     DEF Next, Environment, Reader

LEMMA SubInvStep == SubInv /\ [Next]_vars => SubInv'
BY TypeStep, CausesStep, NumberingStep DEF SubInv

(***************************************************************************)
(* Every variable keeps its type.                                          *)
(***************************************************************************)
THEOREM SubscriptionTypes == Spec => []TypeOK
<1>1. SubInv => TypeOK
  BY DEF SubInv
<1> QED
  BY <1>1, SubInvInit, SubInvStep, PTL DEF Spec

(***************************************************************************)
(* The consumer sees the node's messages from the first one on, in order,  *)
(* once each (subscribe.go 82-101), however Cancel, the context and the    *)
(* connection interleave.                                                  *)
(***************************************************************************)
THEOREM MessagesInOrder == Spec => []InOrder
<1>1. SubInv => InOrder
  BY DEF SubInv, Numbering
<1> QED
  BY <1>1, SubInvInit, SubInvStep, PTL DEF Spec

(***************************************************************************)
(* Errors is never closed without the error of the connection in it, or    *)
(* received from it, unless the context is done (subscribe.go 84-92).      *)
(***************************************************************************)
THEOREM EndAlwaysExplained == Spec => []EndExplained
<1>1. SubInv => EndExplained
  BY DEF SubInv, Causes, EndExplained
<1> QED
  BY <1>1, SubInvInit, SubInvStep, PTL DEF Spec

(***************************************************************************)
(* A subscription that was cancelled reports no connection error: Cancel   *)
(* and the watcher close the connection after the context is done.         *)
(***************************************************************************)
THEOREM CancelIsSilent == Spec => []SilentCancel
<1>1. SubInv => SilentCancel
  BY DEF SubInv, Causes
<1> QED
  BY <1>1, SubInvInit, SubInvStep, PTL DEF Spec

-----------------------------------------------------------------------------
(* Nobody waits for what nobody does: the part of CancelEnds and           *)
(* NodeEndDelivers that holds without fairness.  A goroutine that is not   *)
(* done can take a step once there is a reason to end, and the steps they  *)
(* can take are finitely many.                                             *)

(* The reader, or the watcher, can take a step.                            *)
ReaderReady ==
  \/ reader = "reading" /\ (wire # <<>> \/ connClosed \/ LinkOver)
  \/ reader = "handing" /\ (Len(msgs) < Capacity \/ MayGiveUp)
  \/ reader \in {"closing errors", "closing messages"}
WatcherReady == watcher = "waiting" /\ subDone

Ended == reader = "done" /\ watcher = "done" /\ connClosed /\ errsClosed /\ msgsClosed

(* After a cancellation somebody can go on until all has ended.            *)
CancelGoesOn == subDone => Ended \/ ReaderReady \/ WatcherReady

(* After the node has ended the connection somebody can go on, if only the *)
(* consumer, until all it sent was received.                               *)
NodeEndGoesOn ==
  link = "ended" /\ ~ subDone =>
    \/ reader = "done" /\ Len(got) = sent
    \/ ReaderReady \/ msgs # <<>>

(* How the goroutines start and end: together, and each with its closes    *)
(* behind it.  A reader that was not cancelled ends with nothing left on a *)
(* connection the node ended.                                              *)
Endings ==
  /\ frames <= MaxFrames
  /\ link \in {"none", "refused"} <=> reader = "unborn"
  /\ reader = "unborn" <=> watcher = "unborn"
  /\ reader = "unborn" => ~ subDone /\ \A c \in Callers : canceller[c] = "idle"
  /\ watcher = "done" => connClosed
  /\ reader \in {"closing messages", "done"} => errsClosed
  /\ reader = "done" => msgsClosed
  /\ ~ Active /\ link = "ended" /\ ~ subDone => Delivered = sent

LEMMA EndingsInit == Init => Endings
BY ConstantsAssumption
   DEF Init, Endings, Delivered, subDone, connClosed, errsClosed, msgsClosed

(* What was delivered changes only where a message enters or is given up.  *)
LEMMA StillDelivered ==
  ASSUME TypeOK, Numbering, HandOver \/ TakeMessage
  PROVE  Delivered' = Delivered
<1>0. held \in Nat /\ got \in Seq(Nat) /\ msgs \in Seq(Nat)
  BY DEF TypeOK
<1>1. Len(got) \in Nat /\ Len(msgs) \in Nat
  BY <1>0, LenProperties
<1>2. CASE HandOver
  <2>1. held # 0 /\ held' = 0 /\ got' = got /\ msgs' = Append(msgs, held)
    BY <1>2 DEF HandOver, Numbering
  <2>2. Len(msgs') = Len(msgs) + 1
    BY <1>0, <2>1, AppendProperties
  <2> QED
    BY <1>1, <2>1, <2>2 DEF Delivered
<1>3. CASE TakeMessage
  <2>1. msgs # <<>> /\ msgs' = Tail(msgs) /\ got' = Append(got, Head(msgs)) /\ held' = held
    BY <1>3 DEF TakeMessage
  <2>2. Len(msgs') = Len(msgs) - 1 /\ Head(msgs) \in Nat
    BY <1>0, <2>1, HeadTailProperties
  <2>3. Len(got') = Len(got) + 1
    BY <1>0, <2>1, <2>2, AppendProperties
  <2> QED
    BY <1>1, <2>1, <2>2, <2>3 DEF Delivered
<1> QED
  BY <1>2, <1>3

LEMMA OneMore ==
  ASSUME NEW a \in Nat, NEW m \in Nat, a < m
  PROVE  a + 1 <= m
OBVIOUS

LEMMA EndingsStep == SubInv /\ Endings /\ [Next]_vars => Endings'
<1> SUFFICES ASSUME SubInv, Endings, [Next]_vars PROVE Endings'
  OBVIOUS
<1>0. TypeOK /\ Numbering /\ Causes
  BY DEF SubInv
<1>T. frames \in Nat /\ MaxFrames \in Nat
      /\ canceller \in [Callers -> {"idle", "marking", "cancelling", "closing", "returned"}]
  BY <1>0, ConstantsAssumption DEF TypeOK
<1> USE DEF Endings, node, Happens, subDone, connClosed, errsClosed, msgsClosed
<1>1. ASSUME NEW kind \in {"message", "empty"}, NodeSends(kind) PROVE Endings'
  <2>1. /\ UNCHANGED <<link, past, canceller, reader, held, watcher, msgs, got>>
        /\ link = "up" /\ frames < MaxFrames /\ frames' = frames + 1
    BY <1>1 DEF NodeSends
  <2>2. frames' <= MaxFrames
    <3>1. frames < MaxFrames /\ frames' = frames + 1
      BY <2>1
    <3>2. frames + 1 <= MaxFrames
      BY <1>T, <3>1, OneMore
    <3> QED
      BY <3>1, <3>2
  <2>3. ~ Active => subDone
    <3>1. ~ Active => subDone \/ errs > 0 \/ sawError
      BY <1>0 DEF Causes
    <3>2. errs > 0 \/ sawError => link \in {"ended", "broken"}
      BY <1>0 DEF Causes, SilentCancel
    <3> QED
      BY <2>1, <3>1, <3>2
  <2> QED
    BY <2>1, <2>2, <2>3
<1>2. CASE LinkBreaks
  <2>1. /\ link = "up" /\ link' = "broken"
        /\ UNCHANGED <<frames, past, canceller, reader, watcher>>
    BY <1>2 DEF LinkBreaks
  <2> QED
    BY <2>1
<1>3. CASE Subscribe
  <2>1. /\ link = "none" /\ link' = "up" /\ reader' = "reading" /\ watcher' = "waiting"
        /\ UNCHANGED <<frames, past, canceller>>
    BY <1>3 DEF Subscribe
  <2> QED
    BY <2>1
<1>4. CASE SubscribeFails
  BY <1>4 DEF SubscribeFails, Delivered
<1>5. CASE NodeCloses
  <2>1. /\ link = "up" /\ link' = "ended"
        /\ UNCHANGED <<frames, past, canceller, reader, watcher>>
    BY <1>5 DEF NodeCloses
  <2>2. ~ Active => subDone \/ errs > 0 \/ sawError
    BY <1>0 DEF Causes
  <2>3. errs > 0 \/ sawError => link \in {"ended", "broken"}
    BY <1>0 DEF Causes, SilentCancel
  <2>4. ~ Active => subDone
    BY <2>1, <2>2, <2>3
  <2> QED
    BY <2>1, <2>4
<1>6. CASE CtxDone \/ Propagate \/ TakeError \/ UNCHANGED vars
  BY <1>6 DEF CtxDone, Propagate, TakeError, vars, Delivered
<1>7. CASE ReadFrame
  <2>1. /\ reader = "reading" /\ reader' \in {"reading", "handing"}
        /\ UNCHANGED <<link, frames, past, canceller, watcher>>
    BY <1>7 DEF ReadFrame
  <2> QED
    BY <2>1
<1>8. CASE ReadFails
  <2>1. /\ reader = "reading" /\ reader' = "closing errors" /\ (connClosed \/ LinkOver)
        /\ UNCHANGED <<link, frames, sent, held, past, canceller, watcher, msgs, got>>
    BY <1>8 DEF ReadFails
  <2>2. link = "ended" /\ ~ subDone => Delivered = sent
    <3>1. link = "ended" => sent = Reached
      BY <1>0, <2>1 DEF Numbering
    <3>2. connClosed => subDone
      BY <1>0 DEF Causes
    <3> QED
      BY <2>1, <3>1, <3>2 DEF Reached
  <2>3. Delivered' = Delivered
    BY <2>1 DEF Delivered
  <2> QED
    BY <2>1, <2>2, <2>3
<1>9. CASE GiveUp
  <2>1. /\ reader = "handing" /\ reader' = "closing errors" /\ subDone
        /\ UNCHANGED <<link, frames, past, canceller, watcher>>
    BY <1>9 DEF GiveUp
  <2> QED
    BY <2>1
<1>10. CASE CloseErrors \/ CloseMessages
  <2>1. UNCHANGED <<link, frames, sent, canceller, watcher, held, msgs, got>>
    BY <1>10 DEF CloseErrors, CloseMessages
  <2>2. Delivered' = Delivered
    BY <2>1 DEF Delivered
  <2> QED
    BY <1>10, <2>1, <2>2 DEF CloseErrors, CloseMessages
<1>11. CASE HandOver \/ TakeMessage
  <2>1. Delivered' = Delivered
    BY <1>0, <1>11, StillDelivered
  <2>2. /\ UNCHANGED <<link, frames, sent, past, canceller, watcher>>
        /\ \/ reader' = reader
           \/ reader = "handing" /\ reader' = "reading"
    BY <1>11 DEF HandOver, TakeMessage
  <2> QED
    BY <2>1, <2>2
<1>12. CASE Watcher
  <2>1. UNCHANGED <<link, frames, sent, canceller, reader, held, msgs, got>>
        /\ watcher = "waiting" /\ watcher' = "done" /\ past' = past \cup {"conn closed"}
    BY <1>12 DEF Watcher
  <2>2. Delivered' = Delivered
    BY <2>1 DEF Delivered
  <2> QED
    BY <2>1, <2>2
<1>13. ASSUME NEW c \in Callers, CancelEnters(c) \/ CancelRuns(c) PROVE Endings'
  <2>1. UNCHANGED <<link, frames, sent, reader, watcher, held, msgs, got>>
    BY <1>13 DEF CancelEnters, CancelRuns, CancelMarks, CancelContext, CancelCloses
  <2>2. Delivered' = Delivered
    BY <2>1 DEF Delivered
  <2>3. reader # "unborn" /\ past \subseteq past'
    BY <1>13 DEF CancelEnters, CancelRuns, CancelMarks, CancelContext, CancelCloses
  <2> QED
    BY <2>1, <2>2, <2>3
<1> QED
  BY <1>1, <1>2, <1>3, <1>4, <1>5, <1>6, <1>7, <1>8, <1>9, <1>10, <1>11, <1>12, <1>13
     DEF Next, Environment, Reader

LEMMA EndingsGoOn == SubInv /\ Endings => CancelGoesOn
<1> SUFFICES ASSUME SubInv, Endings, subDone PROVE Ended \/ ReaderReady \/ WatcherReady
  BY DEF CancelGoesOn
<1>1. /\ reader \in {"unborn", "reading", "handing", "closing errors", "closing messages", "done"}
      /\ watcher \in {"unborn", "waiting", "done"}
  BY DEF SubInv, TypeOK
<1>2. watcher \in {"waiting", "done"} /\ reader # "unborn"
  BY <1>1 DEF Endings
<1>3. CASE watcher = "waiting"
  BY <1>3 DEF WatcherReady
<1>4. CASE watcher = "done"
  <2>1. connClosed
    BY <1>4 DEF Endings
  <2> QED
    BY <1>1, <1>2, <1>4, <2>1 DEF Endings, Ended, ReaderReady
<1> QED
  BY <1>2, <1>3, <1>4

LEMMA EndingsAlways == Spec => [](SubInv /\ Endings)
<1>1. SubInv /\ Endings /\ [Next]_vars => (SubInv /\ Endings)'
  BY SubInvStep, EndingsStep
<1> QED
  BY <1>1, SubInvInit, EndingsInit, PTL DEF Spec

(***************************************************************************)
(* Whoever cancels, and wherever the goroutines are then, in a read from a *)
(* silent node or in a send to a consumer that stopped: as long as not all *)
(* is closed, one of them can go on without anybody's help.                *)
(***************************************************************************)
THEOREM CancelNeverStuck == Spec => []CancelGoesOn
BY EndingsGoOn, EndingsAlways, PTL

(***************************************************************************)
(* When the node ends the connection, the consumer that keeps receiving    *)
(* misses nothing: until it has all that was sent there is a message for   *)
(* it, or the reader can go on.                                            *)
(***************************************************************************)
THEOREM NodeEndNeverStuck == Spec => []NodeEndGoesOn
<1>1. SubInv /\ Endings => NodeEndGoesOn
  <2> SUFFICES ASSUME SubInv, Endings, link = "ended", ~ subDone, ~ ReaderReady, msgs = <<>>
               PROVE  reader = "done" /\ Len(got) = sent
    BY DEF NodeEndGoesOn
  <2>1. reader \in {"reading", "handing", "closing errors", "closing messages", "done"}
    BY DEF SubInv, TypeOK, Endings
  <2>2. Len(msgs) = 0 /\ msgs \in Seq(Nat) /\ got \in Seq(Nat)
    BY DEF SubInv, TypeOK
  <2>3. reader = "done"
    <3>1. 0 < Capacity
      BY ConstantsAssumption
    <3> QED
      BY <2>1, <2>2, <3>1 DEF ReaderReady
  <2>4. Delivered = sent /\ held = 0
    BY <2>3 DEF Endings, SubInv, Numbering
  <2>5. Len(got) \in Nat
    BY <2>2, LenProperties
  <2> QED
    BY <2>2, <2>3, <2>4, <2>5 DEF Delivered
<1> QED
  BY <1>1, EndingsAlways, PTL

(* The steps that the goroutines can still take.                           *)
ReaderLeft ==
  IF reader = "handing" THEN 5
  ELSE IF reader \in {"unborn", "reading"} THEN 3
  ELSE IF reader = "closing errors" THEN 2
  ELSE IF reader = "closing messages" THEN 1
  ELSE 0
WatcherLeft == IF watcher = "done" THEN 0 ELSE 1
StepsLeft == 4 * (MaxFrames - frames) + 3 * Len(wire) + ReaderLeft + WatcherLeft

(* The frames read, handed over and skipped, and the closes, take what is  *)
(* left of them; nobody else adds to it.                                   *)
LEMMA LeftIs ==
  ASSUME TypeOK
  PROVE  /\ frames \in Nat /\ Len(wire) \in Nat /\ ReaderLeft \in 0..5 /\ WatcherLeft \in 0..1
         /\ wire \in Seq(Frame)
<1>1. frames \in Nat /\ wire \in Seq(Frame)
  BY DEF TypeOK
<1> QED
  BY <1>1, LenProperties DEF ReaderLeft, WatcherLeft

LEMMA GoroutinesDescend ==
  ASSUME TypeOK, Reader \/ Watcher
  PROVE  StepsLeft' < StepsLeft
<1> DEFINE n == Len(wire)
           n2 == Len(wire')
<1>0. frames \in Nat /\ n \in Nat /\ ReaderLeft \in 0..5 /\ WatcherLeft \in 0..1
      /\ wire \in Seq(Frame) /\ MaxFrames \in Nat
  BY LeftIs, ConstantsAssumption
<1>1. CASE ReadFrame
  <2>1. /\ wire # <<>> /\ wire' = Tail(wire) /\ frames' = frames /\ watcher' = watcher
        /\ reader = "reading" /\ reader' \in {"reading", "handing"}
    BY <1>1 DEF ReadFrame
  <2>2. n2 = n - 1
    BY <1>0, <2>1, HeadTailProperties
  <2>3. ReaderLeft = 3 /\ ReaderLeft' \in {3, 5} /\ WatcherLeft' = WatcherLeft
    BY <2>1 DEF ReaderLeft, WatcherLeft
  <2> HIDE DEF n, n2
  <2>4. 3 * n2 = 3 * n - 3
    BY <1>0, <2>2
  <2>5. frames' = frames
    BY <2>1
  <2> QED
    BY <1>0, <2>3, <2>4, <2>5 DEF StepsLeft, n, n2
<1>2. CASE Reader /\ ~ ReadFrame
  <2>1. UNCHANGED <<wire, frames, watcher>>
    BY <1>2 DEF Reader, ReadFails, HandOver, GiveUp, CloseErrors, CloseMessages, node
  <2>2. ReaderLeft' < ReaderLeft /\ ReaderLeft' \in 0..5
    <3>1. \/ reader = "reading" /\ reader' = "closing errors"
          \/ reader = "handing" /\ reader' \in {"reading", "closing errors"}
          \/ reader = "closing errors" /\ reader' = "closing messages"
          \/ reader = "closing messages" /\ reader' = "done"
      BY <1>2 DEF Reader, ReadFails, HandOver, GiveUp, CloseErrors, CloseMessages
    <3> QED
      <4>1. CASE reader = "reading" /\ reader' = "closing errors"
        <5>1. ReaderLeft = 3 /\ ReaderLeft' = 2
          BY <4>1 DEF ReaderLeft
        <5> QED
          BY <5>1
      <4>2. CASE reader = "handing" /\ reader' \in {"reading", "closing errors"}
        <5>1. ReaderLeft = 5 /\ ReaderLeft' \in {3, 2}
          BY <4>2 DEF ReaderLeft
        <5> QED
          BY <5>1
      <4>3. CASE reader = "closing errors" /\ reader' = "closing messages"
        <5>1. ReaderLeft = 2 /\ ReaderLeft' = 1
          BY <4>3 DEF ReaderLeft
        <5> QED
          BY <5>1
      <4>4. CASE reader = "closing messages" /\ reader' = "done"
        <5>1. ReaderLeft = 1 /\ ReaderLeft' = 0
          BY <4>4 DEF ReaderLeft
        <5> QED
          BY <5>1
      <4> QED
        BY <3>1, <4>1, <4>2, <4>3, <4>4
  <2>3. WatcherLeft' = WatcherLeft
    BY <2>1 DEF WatcherLeft
  <2> QED
    BY <1>0, <2>1, <2>2, <2>3 DEF StepsLeft
<1>3. CASE Watcher
  <2>1. UNCHANGED <<wire, frames, reader>> /\ watcher = "waiting" /\ watcher' = "done"
    BY <1>3 DEF Watcher, node
  <2>2. WatcherLeft = 1 /\ WatcherLeft' = 0 /\ ReaderLeft' = ReaderLeft
    BY <2>1 DEF WatcherLeft, ReaderLeft
  <2> QED
    BY <1>0, <2>1, <2>2 DEF StepsLeft
<1> QED
  BY <1>1, <1>2, <1>3

LEMMA OthersDescend ==
  ASSUME TypeOK, Endings, [Next]_vars
  PROVE  StepsLeft' <= StepsLeft
<1> DEFINE n == Len(wire)
           n2 == Len(wire')
<1>0. frames \in Nat /\ n \in Nat /\ ReaderLeft \in 0..5 /\ WatcherLeft \in 0..1
      /\ wire \in Seq(Frame) /\ MaxFrames \in Nat
  BY LeftIs, ConstantsAssumption
<1>1. CASE Reader \/ Watcher
  <2>1. StepsLeft' < StepsLeft
    BY <1>1, GoroutinesDescend
  <2>2. TypeOK'
    BY TypeStep
  <2>3. StepsLeft \in Int /\ StepsLeft' \in Int
    <3>1. frames' \in Nat /\ n2 \in Nat /\ ReaderLeft' \in 0..5 /\ WatcherLeft' \in 0..1
      <4>1. frames' \in Nat /\ wire' \in Seq(Frame)
        BY <2>2 DEF TypeOK
      <4> QED
        BY <4>1, LenProperties DEF ReaderLeft, WatcherLeft
    <3> QED
      BY <1>0, <3>1 DEF StepsLeft
  <2> QED
    BY <2>1, <2>3
<1>2. ASSUME NEW kind \in {"message", "empty"}, NodeSends(kind) PROVE StepsLeft' <= StepsLeft
  <2> DEFINE f == [n |-> sent', kind |-> kind]
  <2>1. wire' = Append(wire, f) /\ frames' = frames + 1 /\ UNCHANGED <<reader, watcher>>
    BY <1>2 DEF NodeSends
  <2>2. sent' \in Nat
    <3>1. sent \in Nat /\ sent' = IF kind = "message" THEN sent + 1 ELSE sent
      BY <1>2 DEF NodeSends, TypeOK
    <3> QED
      BY <3>1
  <2>3. n2 = n + 1
    BY <1>0, <2>1, <2>2, AppendProperties DEF Frame
  <2>4. ReaderLeft' = ReaderLeft /\ WatcherLeft' = WatcherLeft
    BY <2>1 DEF ReaderLeft, WatcherLeft
  <2>5. frames' = frames + 1
    BY <2>1
  <2> HIDE DEF f, n, n2
  <2> QED
    BY <1>0, <2>3, <2>4, <2>5 DEF StepsLeft, n, n2
<1>3. CASE LinkBreaks
  <2>1. PICK k \in 0..Len(wire) : wire' = SubSeq(wire, 1, k)
    BY <1>3 DEF LinkBreaks
  <2>2. n2 = k /\ k \in 0..n
    BY <1>0, <2>1, SubSeqProperties
  <2>3. UNCHANGED <<frames, reader, watcher>>
    BY <1>3 DEF LinkBreaks
  <2>4. ReaderLeft' = ReaderLeft /\ WatcherLeft' = WatcherLeft
    BY <2>3 DEF ReaderLeft, WatcherLeft
  <2> HIDE DEF n, n2
  <2> QED
    BY <1>0, <2>2, <2>3, <2>4 DEF StepsLeft, n, n2
<1>4. CASE Subscribe
  <2>1. UNCHANGED <<wire, frames>> /\ reader' = "reading" /\ watcher' = "waiting"
    BY <1>4 DEF Subscribe
  <2>2. reader = "unborn" /\ watcher = "unborn"
    BY <1>4 DEF Subscribe, Endings
  <2>3. ReaderLeft' = ReaderLeft /\ WatcherLeft' = WatcherLeft
    BY <2>1, <2>2 DEF ReaderLeft, WatcherLeft
  <2> QED
    BY <1>0, <2>1, <2>3 DEF StepsLeft
<1>5. CASE UNCHANGED <<wire, frames, reader, watcher>>
  BY <1>0, <1>5 DEF StepsLeft, ReaderLeft, WatcherLeft
<1>6. ASSUME NEW c \in Callers, CancelEnters(c) \/ CancelRuns(c)
      PROVE  UNCHANGED <<wire, frames, reader, watcher>>
  BY <1>6 DEF CancelEnters, CancelRuns, CancelMarks, CancelContext, CancelCloses, node
<1>7. CASE SubscribeFails \/ NodeCloses \/ CtxDone \/ Propagate \/ TakeMessage \/ TakeError
           \/ UNCHANGED vars
  BY <1>5, <1>7 DEF SubscribeFails, NodeCloses, CtxDone, Propagate, TakeMessage, TakeError, node,
     vars
<1> QED
  BY <1>1, <1>2, <1>3, <1>4, <1>5, <1>6, <1>7 DEF Next, Environment

(***************************************************************************)
(* The two goroutines take no more steps than StepsLeft, whatever the node,*)
(* the consumer and the callers of Cancel do in between: so they end.      *)
(***************************************************************************)
THEOREM GoroutinesTire ==
  Spec => /\ [](StepsLeft \in Nat)
          /\ [][StepsLeft' <= StepsLeft /\ (Reader \/ Watcher => StepsLeft' < StepsLeft)]_vars
<1>1. SubInv /\ Endings /\ [Next]_vars =>
        [StepsLeft' <= StepsLeft /\ (Reader \/ Watcher => StepsLeft' < StepsLeft)]_vars
  BY OthersDescend, GoroutinesDescend DEF SubInv
<1>2. SubInv /\ Endings => StepsLeft \in Nat
  <2> SUFFICES ASSUME SubInv, Endings PROVE StepsLeft \in Nat
    OBVIOUS
  <2>1. /\ frames \in Nat /\ Len(wire) \in Nat /\ ReaderLeft \in 0..5 /\ WatcherLeft \in 0..1
        /\ MaxFrames \in Nat /\ frames <= MaxFrames
    BY LeftIs, ConstantsAssumption DEF SubInv, Endings
  <2> QED
    BY <2>1 DEF StepsLeft
<1> QED
  BY <1>1, <1>2, EndingsAlways, PTL DEF Spec

-----------------------------------------------------------------------------
(* PssReceive is one of the programs Subscription allows for, so what is   *)
(* proved above holds in it; Untouched adds that it takes nothing before   *)
(* it returns.                                                             *)

(* Until it has a result it has received nothing and cancelled nothing.    *)
Untouched ==
  result = "none" =>
    /\ got = <<>>
    /\ ~ sawError
    /\ canceller["receive"] = "idle"
    /\ subDone => ctxDone

ReceiveInv == SubInv /\ Untouched /\ FirstMessage /\ NilNeedsCtx

(***************************************************************************)
(* A step of PssReceive is a step of a subscription, or changes nothing of *)
(* it.                                                                     *)
(***************************************************************************)
LEMMA ReceiveSteps == [ReceiveNext]_receiveVars => [Next]_vars
<1> SUFFICES ASSUME [ReceiveNext]_receiveVars PROVE [Next]_vars
  OBVIOUS
<1>1. CASE World
  BY <1>1 DEF World, Next, Environment
<1>2. CASE Library
  BY <1>2, OneCaller DEF Library, Next
<1>3. CASE DialFails
  BY <1>3 DEF DialFails, Next, Environment
<1>4. CASE TimerFires \/ UNCHANGED receiveVars
  BY <1>4 DEF TimerFires, receiveVars
<1>5. CASE Select
  BY <1>5 DEF Select, SelectMessage, SelectClosedMessages, SelectError, SelectTimer, SelectCtx,
     Next
<1> QED
  BY <1>1, <1>2, <1>3, <1>4, <1>5 DEF ReceiveNext

(***************************************************************************)
(* Before PssReceive has a result only the caller's context can end the    *)
(* subscription: Cancel is not called.                                     *)
(***************************************************************************)
LEMMA UntouchedStep ==
  SubInv /\ Untouched /\ [ReceiveNext]_receiveVars => Untouched'
<1> SUFFICES ASSUME Untouched, [ReceiveNext]_receiveVars, result' = "none"
             PROVE  /\ got' = <<>>
                    /\ ~ sawError'
                    /\ canceller'["receive"] = "idle"
                    /\ subDone' => ctxDone'
  BY DEF Untouched
<1> USE DEF Happens, ctxDone, subDone, sawError
<1>1. CASE World /\ UNCHANGED <<timer, result>>
  BY <1>1 DEF World, Subscribe, NodeSends, NodeCloses, LinkBreaks, CtxDone, Untouched, node
<1>2. CASE Library /\ UNCHANGED <<timer, result>>
  <2>0. /\ result = "none" /\ got = <<>> /\ ~ sawError
        /\ canceller["receive"] = "idle"
        /\ subDone => ctxDone
    BY <1>2 DEF Untouched
  <2>1. CASE Propagate
    BY <2>0, <2>1 DEF Propagate, node
  <2>2. CASE Reader
    BY <2>0, <2>2 DEF Reader, ReadFrame, ReadFails, HandOver, GiveUp, CloseErrors, CloseMessages, node
  <2>3. CASE Watcher
    BY <2>0, <2>3 DEF Watcher, node
  <2>4. ~ CancelRuns("receive")
    BY <2>0 DEF CancelRuns, CancelMarks, CancelContext, CancelCloses
  <2> QED
    BY <1>2, <2>0, <2>1, <2>2, <2>3, <2>4 DEF Library
<1>3. CASE TimerFires \/ UNCHANGED receiveVars
  BY <1>3 DEF TimerFires, receiveVars, vars, Untouched
<1>4. ~ DialFails /\ ~ Select
  BY DEF DialFails, Select, SelectMessage, SelectClosedMessages, SelectError, SelectTimer, SelectCtx,
     Returns
<1> QED
  BY <1>1, <1>2, <1>3, <1>4 DEF ReceiveNext

(* What happened to the context and what was received stays.               *)
LEMMA Settled ==
  ASSUME [ReceiveNext]_receiveVars, result # "none"
  PROVE  /\ result' = result \/ result' = "error"
         /\ got' = got
         /\ ctxDone => ctxDone'
<1> USE DEF Happens, ctxDone
<1>1. CASE World /\ UNCHANGED <<timer, result>>
  BY <1>1 DEF World, Subscribe, NodeSends, NodeCloses, LinkBreaks, CtxDone
<1>2. CASE Library /\ UNCHANGED <<timer, result>>
  BY <1>2 DEF Library, Propagate, Reader, ReadFrame, ReadFails, HandOver, GiveUp, CloseErrors,
     CloseMessages, Watcher, CancelEnters, CancelRuns, CancelMarks, CancelContext, CancelCloses
<1>3. CASE DialFails
  BY <1>3 DEF DialFails, SubscribeFails
<1>4. CASE TimerFires \/ UNCHANGED receiveVars
  BY <1>4 DEF TimerFires, receiveVars, vars
<1>5. ~ Select
  BY DEF Select, SelectMessage, SelectClosedMessages, SelectError, SelectTimer, SelectCtx,
     Returns, Waiting
<1> QED
  BY <1>1, <1>2, <1>3, <1>4, <1>5 DEF ReceiveNext

(***************************************************************************)
(* The message returned is the first of the channel, and the channel has   *)
(* them in order.                                                          *)
(***************************************************************************)
LEMMA SelectedMessage ==
  ASSUME SubInv, SubInv', Untouched, SelectMessage
  PROVE  got' = <<1>>
<1>1. result = "none"
  BY DEF SelectMessage, Returns, Waiting
<1>2. got = <<>> /\ msgs # <<>> /\ got' = Append(got, Head(msgs))
  BY <1>1 DEF SelectMessage, TakeMessage, Untouched
<1>3. msgs \in Seq(Nat)
  BY DEF SubInv, TypeOK
<1>4. Head(msgs) = msgs[1] /\ Len(msgs) \in Nat /\ Len(msgs) # 0
  BY <1>2, <1>3, HeadTailProperties, LenProperties, EmptySeq
<1>5. msgs[1] = Len(got) + 1
  BY <1>4 DEF SubInv, Numbering, InOrder
<1> QED
  BY <1>2, <1>4, <1>5

(***************************************************************************)
(* A nil error comes from the closed Errors channel: the reader has ended  *)
(* and no error was seen, so it is the context that is done.               *)
(***************************************************************************)
LEMMA SelectedNil ==
  ASSUME SubInv, Untouched, result = "none", errs = 0, errsClosed
  PROVE  ctxDone
<1>1. ~ sawError /\ (subDone => ctxDone)
  BY DEF Untouched
<1>2. subDone \/ errs > 0 \/ sawError
  BY DEF SubInv, Causes
<1> QED
  BY <1>1, <1>2

LEMMA ReceiveInvStep == ReceiveInv /\ [ReceiveNext]_receiveVars => ReceiveInv'
<1> SUFFICES ASSUME ReceiveInv, [ReceiveNext]_receiveVars PROVE ReceiveInv'
  OBVIOUS
<1>0. SubInv /\ Untouched
  BY DEF ReceiveInv
<1>1. SubInv'
  BY <1>0, ReceiveSteps, SubInvStep
<1>2. Untouched'
  BY <1>0, UntouchedStep
<1>3. CASE result # "none"
  <2>1. (result' = result \/ result' = "error") /\ got' = got /\ (ctxDone => ctxDone')
    BY <1>3, Settled
  <2>2. FirstMessage' /\ NilNeedsCtx'
    BY <2>1 DEF ReceiveInv, FirstMessage, NilNeedsCtx
  <2> QED
    BY <1>1, <1>2, <2>2 DEF ReceiveInv
<1>4. CASE result = "none"
  <2>1. CASE SelectMessage
    <3>1. got' = <<1>> /\ result' = "message"
      BY <2>1, <1>0, <1>1, SelectedMessage DEF SelectMessage, Returns
    <3> QED
      BY <1>1, <1>2, <3>1 DEF ReceiveInv, FirstMessage, NilNeedsCtx
  <2>2. ASSUME ~ SelectMessage PROVE result' # "message"
    <3>1. CASE (World \/ Library) /\ UNCHANGED <<timer, result>>
      BY <3>1, <1>4
    <3>2. CASE DialFails \/ TimerFires \/ UNCHANGED receiveVars
      BY <3>2, <1>4 DEF DialFails, TimerFires, receiveVars
    <3>3. CASE SelectClosedMessages
      BY <3>3 DEF SelectClosedMessages, Returns
    <3>4. CASE SelectError \/ SelectTimer \/ SelectCtx
      BY <3>4 DEF SelectError, SelectTimer, SelectCtx, Returns
    <3> QED
      BY <2>2, <3>1, <3>2, <3>3, <3>4 DEF ReceiveNext, Select
  <2>3. ASSUME result' = "nil, nil" PROVE ctxDone'
    <3>1. errs = 0 /\ errsClosed /\ UNCHANGED vars
      <4>1. CASE (World \/ Library) /\ UNCHANGED <<timer, result>>
        BY <4>1, <1>4, <2>3
      <4>2. CASE DialFails \/ TimerFires \/ UNCHANGED receiveVars
        BY <4>2, <1>4, <2>3 DEF DialFails, TimerFires, receiveVars
      <4>3. CASE SelectClosedMessages
        BY <4>3, <2>3 DEF SelectClosedMessages, Returns
      <4>4. CASE SelectError
        BY <4>4, <2>3 DEF SelectError, Returns
      <4>5. CASE SelectMessage \/ SelectTimer \/ SelectCtx
        BY <4>5, <2>3 DEF SelectMessage, SelectTimer, SelectCtx, Returns
      <4> QED
        BY <4>1, <4>2, <4>3, <4>4, <4>5 DEF ReceiveNext, Select
    <3>2. past' = past
      BY <3>1 DEF vars
    <3> QED
      BY <1>0, <1>4, <3>1, <3>2, SelectedNil DEF ctxDone
  <2>4. CASE ~ SelectMessage
    BY <2>2, <2>3, <2>4, <1>1, <1>2 DEF ReceiveInv, FirstMessage, NilNeedsCtx
  <2> QED
    BY <2>1, <2>4
<1> QED
  BY <1>3, <1>4

LEMMA ReceiveInvInit == ReceiveInit => ReceiveInv
<1> SUFFICES ASSUME ReceiveInit PROVE ReceiveInv
  OBVIOUS
<1>1. Init /\ result = "none"
  BY DEF ReceiveInit
<1>2. SubInv
  BY <1>1, SubInvInit
<1>3. Untouched
  BY <1>1, OneCaller DEF Init, Untouched, sawError, subDone
<1> QED
  BY <1>1, <1>2, <1>3 DEF ReceiveInv, FirstMessage, NilNeedsCtx

LEMMA ReceiveInvAlways == ReceiveSpec => []ReceiveInv
BY ReceiveInvInit, ReceiveInvStep, PTL DEF ReceiveSpec

(***************************************************************************)
(* PssReceive uses its subscription as Subscription lets a program use it. *)
(***************************************************************************)
THEOREM ReceiveIsSubscription == ReceiveSpec => Spec
<1>1. ReceiveInit => Init
  BY DEF ReceiveInit
<1> QED
  BY <1>1, ReceiveSteps, PTL DEF ReceiveSpec, Spec

(***************************************************************************)
(* A message that PssReceive returns is the first the node sent.           *)
(***************************************************************************)
THEOREM ReceivesFirst == ReceiveSpec => []FirstMessage
<1>1. ReceiveInv => FirstMessage
  BY DEF ReceiveInv
<1> QED
  BY <1>1, ReceiveInvAlways, PTL

(***************************************************************************)
(* PssReceive returns neither a message nor an error only if its context   *)
(* is done: not because its own Cancel, the node or the network ended the  *)
(* subscription.                                                           *)
(***************************************************************************)
THEOREM NilMeansContext == ReceiveSpec => []NilNeedsCtx
<1>1. ReceiveInv => NilNeedsCtx
  BY DEF ReceiveInv
<1> QED
  BY <1>1, ReceiveInvAlways, PTL

-----------------------------------------------------------------------------
(* The same of PssReceive: it returns, and leaves nothing running.         *)

(* A case of its select is ready; it can go on in its deferred Cancel.     *)
SelectReady == msgs # <<>> \/ errs > 0 \/ errsClosed \/ timer = "fired" \/ ctxDone
CancelReady ==
  \/ link # "refused" /\ result # "none" /\ canceller["receive"] = "idle"
  \/ canceller["receive"] \in {"marking", "cancelling", "closing"}

(* With a reason to return, it can, or its timer or its reader goes on.    *)
ReturnGoesOn ==
  Waiting /\ (timer # "none" \/ ctxDone \/ link \in {"ended", "broken"}) =>
    SelectReady \/ timer = "pending" \/ ReaderReady

(* After it has returned, somebody goes on until all has ended.            *)
LeaveGoesOn ==
  result # "none" =>
    \/ link = "refused" \/ Ended
    \/ CancelReady \/ ReaderReady \/ WatcherReady

(* Its Cancel is the only one, so it does not return before its time.      *)
OwnCancel ==
  /\ timer \in {"none", "pending", "fired"}
  /\ result # "none" => link # "none"
  /\ closed => canceller["receive"] # "idle"
  /\ canceller["receive"] \in {"closing", "returned"} => subDone

LEMMA OwnCancelStep ==
  SubInv /\ OwnCancel /\ [ReceiveNext]_receiveVars => OwnCancel'
<1> SUFFICES ASSUME SubInv, OwnCancel, [ReceiveNext]_receiveVars PROVE OwnCancel'
  OBVIOUS
<1>0. canceller \in [Callers -> {"idle", "marking", "cancelling", "closing", "returned"}]
      /\ "receive" \in Callers
  BY OneCaller DEF SubInv, TypeOK
<1> USE DEF OwnCancel, Happens, closed, subDone
<1>1. CASE World /\ UNCHANGED <<timer, result>>
  <2>1. canceller' = canceller /\ (past' = past \/ past' = past \cup {"ctx done"})
    BY <1>1 DEF World, Subscribe, NodeSends, NodeCloses, LinkBreaks, CtxDone, node
  <2>2. link' # "none" \/ link' = link
    BY <1>1 DEF World, Subscribe, NodeSends, NodeCloses, LinkBreaks, CtxDone, node
  <2> QED
    BY <1>1, <2>1, <2>2
<1>2. CASE (Propagate \/ Reader \/ Watcher) /\ UNCHANGED <<timer, result>>
  <2>1. /\ UNCHANGED <<link, canceller>>
        /\ \/ past' = past
           \/ \E e \in {"sub done", "conn closed", "errors closed", "messages closed"} :
                past' = past \cup {e}
    BY <1>2 DEF Propagate, Reader, ReadFrame, ReadFails, HandOver, GiveUp, CloseErrors,
       CloseMessages, Watcher, node
  <2> QED
    BY <1>2, <2>1
<1>3. CASE CancelEnters("receive") /\ UNCHANGED <<timer, result>>
  BY <1>0, <1>3 DEF CancelEnters, node
<1>4. CASE CancelRuns("receive") /\ UNCHANGED <<timer, result>>
  <2>1. CASE CancelMarks("receive")
    BY <1>0, <1>4, <2>1 DEF CancelMarks, node
  <2>2. CASE CancelContext("receive")
    BY <1>0, <1>4, <2>2 DEF CancelContext, node
  <2>3. CASE CancelCloses("receive")
    BY <1>0, <1>4, <2>3 DEF CancelCloses, node
  <2> QED
    BY <1>4, <2>1, <2>2, <2>3 DEF CancelRuns
<1>5. CASE DialFails
  BY <1>5 DEF DialFails, SubscribeFails
<1>6. CASE TimerFires \/ UNCHANGED receiveVars
  BY <1>6 DEF TimerFires, receiveVars, vars, node
<1>7. CASE Select
  <2>1. link # "none" /\ timer' = timer
    BY <1>7 DEF Select, SelectMessage, SelectClosedMessages, SelectError, SelectTimer, SelectCtx,
       Returns, Waiting
  <2>2. /\ UNCHANGED <<link, canceller>>
        /\ past' = past \/ past' = past \cup {"error received"}
    BY <1>7 DEF Select, SelectMessage, SelectClosedMessages, SelectError, SelectTimer, SelectCtx,
       TakeMessage, TakeError, vars, node
  <2> QED
    BY <2>1, <2>2
<1> QED
  BY <1>1, <1>2, <1>3, <1>4, <1>5, <1>6, <1>7 DEF ReceiveNext, Library

LEMMA ReceiveEnds == ReceiveSpec => [](SubInv /\ Endings /\ OwnCancel)
<1>1. ReceiveInit => SubInv /\ Endings /\ OwnCancel
  <2> SUFFICES ASSUME ReceiveInit PROVE OwnCancel
    BY SubInvInit, EndingsInit DEF ReceiveInit
  <2> QED
    BY OneCaller DEF ReceiveInit, Init, OwnCancel, closed
<1>2. SubInv /\ Endings /\ OwnCancel /\ [ReceiveNext]_receiveVars
        => (SubInv /\ Endings /\ OwnCancel)'
  BY ReceiveSteps, SubInvStep, EndingsStep, OwnCancelStep
<1> QED
  BY <1>1, <1>2, PTL DEF ReceiveSpec

(***************************************************************************)
(* PssReceive never waits in vain: with a timeout, a context that is done  *)
(* or a connection that is gone, it can return, or its timer will fire, or *)
(* its reader will tell.                                                   *)
(***************************************************************************)
THEOREM ReceiveNeverStuck == ReceiveSpec => []ReturnGoesOn
<1>1. SubInv /\ Endings /\ OwnCancel => ReturnGoesOn
  <2> SUFFICES ASSUME SubInv, Endings, OwnCancel, Waiting, ~ SelectReady, timer # "pending",
                      timer # "none" \/ ctxDone \/ link \in {"ended", "broken"}
               PROVE  ReaderReady
    BY DEF ReturnGoesOn
  <2>1. timer = "none" /\ ~ ctxDone /\ msgs = <<>> /\ ~ errsClosed /\ link \in {"ended", "broken"}
    BY DEF SelectReady, OwnCancel
  <2>2. reader \in {"reading", "handing", "closing errors", "closing messages", "done"}
    BY DEF SubInv, TypeOK, Endings, Waiting
  <2>3. Len(msgs) < Capacity
    BY <2>1, ConstantsAssumption
  <2> QED
    BY <2>1, <2>2, <2>3 DEF Endings, ReaderReady
<1> QED
  BY <1>1, ReceiveEnds, PTL

(***************************************************************************)
(* On every way out of PssReceive its Cancel is run, and nothing stops     *)
(* half-way: until both goroutines have returned and the connection and    *)
(* the channels are closed, one of the three can go on.                    *)
(***************************************************************************)
THEOREM ReceiveLeavesNothing == ReceiveSpec => []LeaveGoesOn
<1>1. SubInv /\ Endings /\ OwnCancel => LeaveGoesOn
  <2> SUFFICES ASSUME SubInv, Endings, OwnCancel, result # "none", link # "refused", ~ CancelReady
               PROVE  Ended \/ ReaderReady \/ WatcherReady
    BY DEF LeaveGoesOn
  <2>1. canceller["receive"] = "returned"
    BY OneCaller DEF SubInv, TypeOK, CancelReady
  <2>2. subDone
    BY <2>1 DEF OwnCancel
  <2>3. CancelGoesOn
    BY EndingsGoOn
  <2> QED
    BY <2>2, <2>3 DEF CancelGoesOn
<1> QED
  BY <1>1, ReceiveEnds, PTL

=============================================================================
