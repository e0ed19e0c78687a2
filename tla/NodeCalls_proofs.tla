--------------------------- MODULE NodeCalls_proofs ---------------------------
(***************************************************************************)
(* NodeCalls: a call sends at most one transaction and returns its hash,   *)
(* and what it returns was true of the node while it ran: for any number   *)
(* of callers and calls, any losses and late requests.                     *)
(***************************************************************************)
EXTENDS NodeCalls, TLAPS

Paying == {"pay", "CancelPendingTransaction"}
Fields == {"pins", "tags", "made", "sent", "pending", "info", "ready"}

NodeShaped(n) == n = [f \in Fields |-> n[f]] /\ n.sent \in Nat

(* A call under way may be extended by a witness, so its fields matter.    *)
SentShaped(c) ==
  c = [at |-> "sent", id |-> c.id, request |-> c.request, true |-> c.true]

CallInv(c, n, sent) ==
  /\ c.at \in {"none", "sent", "answered", "done"}
  /\ c.at = "sent" => SentShaped(c)
  /\ c.at # "none" => c.id \in 1..n
  /\ c.at \in {"answered", "done"} /\ c.request.do \in Paying /\ c.answer.is = "ok"
       => <<c.id, c.answer.body>> \in sent
  /\ c.at = "done" => c.result = Result(c.request, c.answer)

IdsUnique ==
  \A p, q \in Callers :
    call[p].at # "none" /\ call[q].at # "none" /\ call[p].id = call[q].id => p = q

(* A request is under way or late, not both, and late once.                *)
LateInv ==
  /\ \A l \in late : l[1] \in 1..calls
  /\ \A l, k \in late : l[1] = k[1] => l = k
  /\ \A l \in late, p \in Callers : call[p].at = "sent" => call[p].id # l[1]

(* Hashes are numbered as they are sent; no request that the node may yet  *)
(* serve has sent one.                                                     *)
HashInv ==
  /\ \A h \in hashes : h[1] \in 1..calls /\ h[2] \in 1..node.sent
  /\ \A g, h \in hashes : g[1] = h[1] \/ g[2] = h[2] => g = h
  /\ \A h \in hashes, l \in late : h[1] # l[1]
  /\ \A h \in hashes, p \in Callers : call[p].at = "sent" => h[1] # call[p].id

PaidInv ==
  /\ NodeShaped(node)
  /\ calls \in Nat
  /\ call = [p \in Callers |-> call[p]]
  /\ \A p \in Callers : CallInv(call[p], calls, hashes)
  /\ IdsUnique
  /\ LateInv
  /\ HashInv

-----------------------------------------------------------------------------
(* What the node does, and how a method reads the answer.                  *)

(* A payment and a cancellation send one transaction, no other request     *)
(* sends any.                                                              *)
LEMMA EffectSends ==
  ASSUME NEW n, NEW r, NodeShaped(n)
  PROVE  /\ NodeShaped(Effect(n, r))
         /\ r.do \in Paying => Effect(n, r).sent = n.sent + 1
         /\ r.do \notin Paying => Effect(n, r).sent = n.sent
<1> DEFINE e == Effect(n, r)
<1>0. n = [f \in Fields |-> n[f]] /\ n.sent \in Nat
  BY DEF NodeShaped
<1>1. CASE r.do = "pay"
  <2>1. e = [n EXCEPT !.sent = @ + 1, !.pending = @ \cup {n.sent + 1}]
    BY <1>1 DEF Effect
  <2>2. DOMAIN n = Fields /\ "sent" \in Fields
    BY <1>0 DEF Fields
  <2>3. e.sent = n.sent + 1
    BY <2>1, <2>2
  <2>4. e = [f \in Fields |-> e[f]]
    BY <2>1, <2>2
  <2> QED BY <1>0, <1>1, <2>3, <2>4 DEF NodeShaped, Paying
<1>2. CASE r.do = "CancelPendingTransaction"
  <2>1. e = [n EXCEPT !.sent = @ + 1, !.pending = (@ \ {r.to}) \cup {n.sent + 1}]
    BY <1>2 DEF Effect
  <2>2. DOMAIN n = Fields /\ "sent" \in Fields
    BY <1>0 DEF Fields
  <2>3. e.sent = n.sent + 1
    BY <2>1, <2>2
  <2>4. e = [f \in Fields |-> e[f]]
    BY <2>1, <2>2
  <2> QED BY <1>0, <1>2, <2>3, <2>4 DEF NodeShaped, Paying
<1>3. CASE r.do \notin Paying
  <2>1. \/ e = [n EXCEPT !.made = @ + 1, !.tags = @ \cup {n.made + 1}]
        \/ e = [n EXCEPT !.tags = @ \ {r.to}]
        \/ e = [n EXCEPT !.info = r.to]
        \/ e = [n EXCEPT !.pins = @ \cup {r.to}]
        \/ e = [n EXCEPT !.pins = @ \ {r.to}]
        \/ e = n
    BY <1>3 DEF Effect, Paying
  <2> QED BY <1>0, <1>3, <2>1 DEF NodeShaped, Fields, Paying
<1> QED BY <1>1, <1>2, <1>3 DEF Paying

(* What a call on the node does to the hashes.                             *)
LEMMA DoneSends ==
  ASSUME NodeShaped(node), NEW id, NEW r, Done(id, r)
  PROVE  /\ NodeShaped(node')
         /\ \/ node'.sent = node.sent /\ hashes' = hashes
            \/ node'.sent = node.sent + 1 /\ hashes' = hashes \cup {<<id, node.sent + 1>>}
         /\ r.do \in Paying /\ Found(node, r) =>
              hashes' = hashes \cup {<<id, node.sent + 1>>}
<1>1. CASE Found(node, r)
  <2>1. node' = Effect(node, r)
    BY <1>1 DEF Done
  <2>2. hashes' = hashes \cup {<<id, h>> : h \in (node.sent + 1)..node'.sent}
    BY <1>1, <2>1 DEF Done
  <2>3. NodeShaped(node')
    BY <2>1, EffectSends
  <2>4. node.sent \in Nat
    BY DEF NodeShaped
  <2>5. CASE r.do \in Paying
    <3>1. node'.sent = node.sent + 1
      BY <2>1, <2>5, EffectSends
    <3>2. (node.sent + 1)..node'.sent = {node.sent + 1}
      BY <2>4, <3>1
    <3> QED BY <2>2, <2>3, <3>1, <3>2
  <2>6. CASE r.do \notin Paying
    <3>1. node'.sent = node.sent
      BY <2>1, <2>6, EffectSends
    <3>2. (node.sent + 1)..node'.sent = {}
      BY <2>4, <3>1
    <3> QED BY <2>2, <2>3, <2>6, <3>1, <3>2
  <2> QED BY <2>5, <2>6
<1>2. CASE ~Found(node, r)
  <2>1. node' = node
    BY <1>2 DEF Done
  <2>2. hashes' = hashes \cup {<<id, h>> : h \in (node.sent + 1)..node.sent}
    BY <1>2, <2>1 DEF Done
  <2>3. (node.sent + 1)..node.sent = {}
    BY DEF NodeShaped
  <2> QED BY <1>2, <2>1, <2>2, <2>3
<1> QED BY <1>1, <1>2

(* A good answer to a payment is the hash of what was just sent.           *)
LEMMA AnswerIsHash ==
  ASSUME NEW r, r.do \in Paying, NEW a \in Answers(r), a.is = "ok"
  PROVE  Found(node, r) /\ a.body = node.sent + 1
<1>1. CASE ~Found(node, r)
  <2>1. a \in {[is |-> "404"]}
    BY <1>1 DEF Answers, Paying
  <2>2. a.is = "404"
    BY <2>1
  <2> QED BY <2>2
<1>2. CASE Found(node, r)
  <2>1. a \in {[is |-> "ok", body |-> Body(node, r)], [is |-> "garbled"], [is |-> "keyless"],
              [is |-> "2xx"]}
    BY <1>2 DEF Answers, Paying
  <2>2. a = [is |-> "ok", body |-> Body(node, r)]
    BY <2>1
  <2>3. Body(node, r) = node.sent + 1
    BY DEF Body, Paying, PinLists, TagLists, TransactionLists
  <2> QED BY <1>2, <2>2, <2>3
<1> QED BY <1>1, <1>2

(* A payment's method returns what the answer says.                        *)
LEMMA ResultIsBody ==
  ASSUME NEW r, r.do \in Paying, NEW a, Result(r, a).is = "ok", a.is # "keyless"
  PROVE  a.is = "ok" /\ Result(r, a).value = a.body
<1>1. Result(r, a) = Plain(a)
  BY DEF Result, Paying
<1>2. a.is = "ok"
  BY <1>1 DEF Plain, Decoded, Error, Ok
<1>3. Plain(a) = [is |-> "ok", value |-> a.body]
  BY <1>2 DEF Plain, Decoded, Ok
<1> QED BY <1>1, <1>2, <1>3

(* A witness changes nothing else of a call, and nothing of one that is    *)
(* not under way.                                                          *)
LEMMA WitnessedKeeps ==
  ASSUME NEW running, NEW n, NEW p \in Callers,
         running[p].at = "sent" => SentShaped(running[p])
  PROVE  LET w == Witnessed(running, n) IN
         /\ w[p].at = running[p].at
         /\ w[p].id = running[p].id
         /\ w[p].at = "sent" => SentShaped(w[p])
         /\ w[p].at # "sent" => w[p] = running[p]
<1> DEFINE w == Witnessed(running, n)
<1>1. CASE running[p].at = "sent"
  <2>1. PICK t : w[p] = [running[p] EXCEPT !.true = t]
    BY <1>1 DEF Witnessed
  <2>2. w[p] = [at |-> "sent", id |-> running[p].id, request |-> running[p].request, true |-> t]
    BY <1>1, <2>1 DEF SentShaped
  <2> QED BY <1>1, <2>2 DEF SentShaped
<1>2. CASE running[p].at # "sent"
  BY <1>2 DEF Witnessed
<1> QED BY <1>1, <1>2

(* A step that starts no call, sends no transaction and gives up none.     *)
LEMMA QuietStep ==
  ASSUME PaidInv, NodeShaped(node'), node'.sent = node.sent,
         calls' = calls, late' = late, hashes' = hashes,
         call' = [q \in Callers |-> call'[q]],
         \A q \in Callers :
           /\ CallInv(call[q], calls, hashes)'
           /\ call'[q].at # "none" => call[q].at # "none" /\ call'[q].id = call[q].id
           /\ call'[q].at = "sent" => call[q].at = "sent"
  PROVE  PaidInv'
<1>1. IdsUnique'
  BY DEF PaidInv, IdsUnique
<1>2. LateInv'
  BY DEF PaidInv, LateInv
<1>3. HashInv'
  BY DEF PaidInv, HashInv
<1> QED BY <1>1, <1>2, <1>3 DEF PaidInv

(* One caller's call moves on: what the others need not prove again.       *)
LEMMA OneMoves ==
  ASSUME PaidInv, NEW p \in Callers, NEW c, call' = [call EXCEPT ![p] = c],
         calls' \in {calls, calls + 1}, hashes' = hashes
  PROVE  /\ call' = [q \in Callers |-> call'[q]]
         /\ call'[p] = c
         /\ \A q \in Callers \ {p} : call'[q] = call[q]
         /\ \A q \in Callers \ {p} : CallInv(call[q], calls, hashes)'
<1>1. call = [q \in Callers |-> call[q]]
  BY DEF PaidInv
<1>2. call' = [q \in Callers |-> IF q = p THEN c ELSE call[q]]
  BY <1>1
<1>3. \A q \in Callers \ {p} : call'[q] = call[q]
  BY <1>2
<1>4. \A q \in Callers : CallInv(call[q], calls, hashes)
  BY DEF PaidInv
<1>5. ASSUME NEW q \in Callers \ {p} PROVE CallInv(call[q], calls, hashes)'
  BY <1>3, <1>4, <1>5 DEF CallInv, PaidInv
<1> QED BY <1>2, <1>3, <1>5

-----------------------------------------------------------------------------
(* The steps.                                                              *)

LEMMA InitPaid == Init => PaidInv
<1> SUFFICES ASSUME Init PROVE PaidInv
  OBVIOUS
<1>1. NodeShaped(node)
  BY DEF Init, NodeShaped, Fields
<1>2. call = [p \in Callers |-> call[p]] /\ \A p \in Callers : call[p].at = "none"
  BY DEF Init, Silent
<1> QED BY <1>1, <1>2 DEF Init, PaidInv, CallInv, IdsUnique, LateInv, HashInv

(* A call gets an id that no call, late request or transaction has.        *)
LEMMA StartKeeps == ASSUME PaidInv, NEW p \in Callers, Start(p) PROVE PaidInv'
<1>1. PICK r, t : call' = [call EXCEPT ![p] = [at |-> "sent", id |-> calls + 1, request |-> r,
                                               true |-> t]]
  BY DEF Start
<1> DEFINE c == [at |-> "sent", id |-> calls + 1, request |-> r, true |-> t]
<1>2. calls' = calls + 1 /\ calls \in Nat /\ node' = node /\ late' = late /\ hashes' = hashes
  BY DEF Start, PaidInv
<1>3. /\ call' = [q \in Callers |-> call'[q]]
      /\ call'[p] = c
      /\ \A q \in Callers \ {p} : call'[q] = call[q]
      /\ \A q \in Callers \ {p} : CallInv(call[q], calls, hashes)'
  BY <1>1, <1>2, OneMoves
<1>4. c.at = "sent" /\ c.id = calls + 1 /\ SentShaped(c)
  BY DEF SentShaped
<1> HIDE DEF c
<1>5. CallInv(call[p], calls, hashes)'
  BY <1>2, <1>3, <1>4 DEF CallInv
<1>6. \A q \in Callers : call[q].at # "none" => call[q].id \in 1..calls
  BY DEF PaidInv, CallInv
<1>7. IdsUnique'
  BY <1>2, <1>3, <1>4, <1>6 DEF PaidInv, IdsUnique
<1>8. LateInv'
  BY <1>2, <1>3, <1>4 DEF PaidInv, LateInv
<1>9. HashInv'
  BY <1>2, <1>3, <1>4 DEF PaidInv, HashInv
<1>10. NodeShaped(node')
  BY <1>2 DEF PaidInv
<1> QED BY <1>2, <1>3, <1>5, <1>7, <1>8, <1>9, <1>10 DEF PaidInv

LEMMA RefuseKeeps == ASSUME PaidInv, NEW p \in Callers, Refuse(p) PROVE PaidInv'
<1> DEFINE c == Answered(call[p], [is |-> "5xx"])
<1>1. /\ call[p].at = "sent" /\ call' = [call EXCEPT ![p] = c]
      /\ node' = node /\ late' = late /\ calls' = calls /\ hashes' = hashes
  BY DEF Refuse
<1>2. c.at = "answered" /\ c.id = call[p].id /\ c.answer.is = "5xx"
  BY DEF Answered
<1> HIDE DEF c
<1>3. /\ call' = [q \in Callers |-> call'[q]]
      /\ call'[p] = c
      /\ \A q \in Callers \ {p} : call'[q] = call[q]
      /\ \A q \in Callers \ {p} : CallInv(call[q], calls, hashes)'
  BY <1>1, OneMoves
<1>4. CallInv(call[p], calls, hashes)'
  BY <1>1, <1>2, <1>3 DEF PaidInv, CallInv
<1>5. NodeShaped(node') /\ node'.sent = node.sent
  BY <1>1 DEF PaidInv
<1> QED BY <1>1, <1>2, <1>3, <1>4, <1>5, QuietStep

LEMMA ReceiveKeeps == ASSUME PaidInv, NEW p \in Callers, Receive(p) PROVE PaidInv'
<1> DEFINE c == Ended(call[p], call[p].answer)
<1>1. /\ call[p].at = "answered" /\ call' = [call EXCEPT ![p] = c]
      /\ node' = node /\ late' = late /\ calls' = calls /\ hashes' = hashes
  BY DEF Receive
<1>2. /\ c.at = "done" /\ c.id = call[p].id /\ c.request = call[p].request
      /\ c.answer = call[p].answer /\ c.result = Result(c.request, c.answer)
  BY DEF Ended
<1> HIDE DEF c
<1>3. /\ call' = [q \in Callers |-> call'[q]]
      /\ call'[p] = c
      /\ \A q \in Callers \ {p} : call'[q] = call[q]
      /\ \A q \in Callers \ {p} : CallInv(call[q], calls, hashes)'
  BY <1>1, OneMoves
<1>4. CallInv(call[p], calls, hashes)'
  BY <1>1, <1>2, <1>3 DEF PaidInv, CallInv
<1>5. NodeShaped(node') /\ node'.sent = node.sent
  BY <1>1 DEF PaidInv
<1> QED BY <1>1, <1>2, <1>3, <1>4, <1>5, QuietStep

(* A request given up takes its id along; its call has no good answer.     *)
LEMMA LoseKeeps == ASSUME PaidInv, NEW p \in Callers, Lose(p) PROVE PaidInv'
<1> DEFINE c == GivenUp(call[p])
           gone == {<<call[p].id, call[p].request>> : x \in {"sent"} \cap {call[p].at}}
<1>1. /\ call[p].at \in {"sent", "answered"} /\ call' = [call EXCEPT ![p] = c]
      /\ node' = node /\ late' = late \cup gone /\ calls' = calls /\ hashes' = hashes
  BY DEF Lose
<1>2. /\ c.at = "done" /\ c.id = call[p].id /\ c.answer.is = "none"
      /\ c.result = Result(c.request, c.answer)
  BY DEF GivenUp, Ended
<1>3. \A l \in gone : call[p].at = "sent" /\ l = <<call[p].id, call[p].request>>
  OBVIOUS
<1> HIDE DEF c, gone
<1>4. /\ call' = [q \in Callers |-> call'[q]]
      /\ call'[p] = c
      /\ \A q \in Callers \ {p} : call'[q] = call[q]
      /\ \A q \in Callers \ {p} : CallInv(call[q], calls, hashes)'
  BY <1>1, OneMoves
<1>5. CallInv(call[p], calls, hashes)'
  BY <1>1, <1>2, <1>4 DEF PaidInv, CallInv
<1>6. call[p].id \in 1..calls
  BY <1>1 DEF PaidInv, CallInv
<1>7. \A l \in gone : call[p].at = "sent" /\ l[1] = call[p].id
  BY <1>3
<1>8. IdsUnique'
  BY <1>1, <1>2, <1>4 DEF PaidInv, IdsUnique
<1>9. LateInv'
  <2>1. \A l \in late' : l[1] \in 1..calls'
    BY <1>1, <1>6, <1>7 DEF PaidInv, LateInv
  <2>2. \A l, k \in late' : l[1] = k[1] => l = k
    BY <1>1, <1>3, <1>7 DEF PaidInv, LateInv
  <2>3. \A l \in late', q \in Callers : call'[q].at = "sent" => call'[q].id # l[1]
    BY <1>1, <1>2, <1>4, <1>7 DEF PaidInv, LateInv, IdsUnique
  <2> QED BY <2>1, <2>2, <2>3 DEF LateInv
<1>10. HashInv'
  BY <1>1, <1>2, <1>4, <1>7 DEF PaidInv, HashInv
<1>11. NodeShaped(node')
  BY <1>1 DEF PaidInv
<1> QED BY <1>1, <1>4, <1>5, <1>8, <1>9, <1>10, <1>11 DEF PaidInv

(* The request of id i is served: no other may have sent or send for i.    *)
LEMMA ServedHashes ==
  ASSUME PaidInv, NEW i \in 1..calls, calls' = calls, node'.sent \in Nat,
         \A h \in hashes : h[1] # i,
         \/ node'.sent = node.sent /\ hashes' = hashes
         \/ node'.sent = node.sent + 1 /\ hashes' = hashes \cup {<<i, node.sent + 1>>}
  PROVE  /\ \A h \in hashes' : h[1] \in 1..calls' /\ h[2] \in 1..node'.sent
         /\ \A g, h \in hashes' : g[1] = h[1] \/ g[2] = h[2] => g = h
         /\ \A h \in hashes' : h \in hashes \/ h[1] = i
         /\ hashes \subseteq hashes'
<1>1. node.sent \in Nat /\ HashInv
  BY DEF PaidInv, NodeShaped
<1>2. CASE node'.sent = node.sent /\ hashes' = hashes
  BY <1>1, <1>2 DEF HashInv
<1>3. CASE node'.sent = node.sent + 1 /\ hashes' = hashes \cup {<<i, node.sent + 1>>}
  <2> DEFINE new == <<i, node.sent + 1>>
  <2>1. new[1] = i /\ new[2] = node.sent + 1
    OBVIOUS
  <2>2. hashes' = hashes \cup {new}
    BY <1>3
  <2> HIDE DEF new
  <2>3. \A h \in hashes : h[1] # new[1] /\ h[2] # new[2]
    BY <1>1, <2>1 DEF HashInv
  <2>4. \A h \in hashes' : h[1] \in 1..calls' /\ h[2] \in 1..node'.sent
    BY <1>1, <1>3, <2>1, <2>2 DEF HashInv
  <2>5. \A g, h \in hashes' : g[1] = h[1] \/ g[2] = h[2] => g = h
    BY <1>1, <2>2, <2>3 DEF HashInv
  <2> QED BY <2>1, <2>2, <2>4, <2>5
<1> QED BY <1>2, <1>3

(* Witnesses disturb nothing, whatever transactions are added.             *)
LEMMA WitnessedInv ==
  ASSUME NEW running, NEW n, NEW p \in Callers, NEW sent, NEW more, sent \subseteq more,
         CallInv(running[p], calls, sent)
  PROVE  /\ CallInv(Witnessed(running, n)[p], calls, more)
         /\ Witnessed(running, n)[p].at = running[p].at
         /\ running[p].at # "none" => Witnessed(running, n)[p].id = running[p].id
<1> DEFINE w == Witnessed(running, n)[p]
<1>1. running[p].at = "sent" => SentShaped(running[p])
  BY DEF CallInv
<1>2. /\ w.at = running[p].at /\ w.id = running[p].id
      /\ w.at = "sent" => SentShaped(w)
      /\ w.at # "sent" => w = running[p]
  BY <1>1, WitnessedKeeps
<1> HIDE DEF w
<1>3. CallInv(w, calls, more)
  BY <1>2 DEF CallInv
<1> QED BY <1>2, <1>3 DEF w

LEMMA NodeMovesKeeps == ASSUME PaidInv, NodeMoves PROVE PaidInv'
<1>1. /\ call' = Witnessed(call, node') /\ late' = late /\ calls' = calls /\ hashes' = hashes
  BY DEF NodeMoves
<1>2. NodeShaped(node') /\ node'.sent = node.sent
  <2>1. NodeShaped(node) /\ DOMAIN node = Fields
    BY DEF PaidInv, NodeShaped
  <2>2. \/ \E v : node' = [node EXCEPT !.pending = v]
        \/ \E v : node' = [node EXCEPT !.info = v]
        \/ \E v : node' = [node EXCEPT !.ready = v]
    BY DEF NodeMoves
  <2> QED BY <2>1, <2>2 DEF NodeShaped, Fields
<1>3. call' = [q \in Callers |-> call'[q]]
  BY <1>1 DEF Witnessed
<1>4. ASSUME NEW q \in Callers
      PROVE  /\ CallInv(call[q], calls, hashes)'
             /\ call'[q].at = call[q].at
             /\ call[q].at # "none" => call'[q].id = call[q].id
  <2>1. CallInv(call[q], calls, hashes)
    BY DEF PaidInv
  <2> QED BY <1>1, <2>1, WitnessedInv
<1> QED BY <1>1, <1>2, <1>3, <1>4, QuietStep

(* A request served is under way no more; a good answer to a payment is    *)
(* the hash of the transaction it has just sent.                           *)
LEMMA ServeKeeps == ASSUME PaidInv, NEW p \in Callers, Serve(p) PROVE PaidInv'
<1> DEFINE i == call[p].id
           r == call[p].request
<1>1. /\ call[p].at = "sent" /\ Done(i, r) /\ late' = late /\ calls' = calls
  BY DEF Serve
<1>2. PICK a \in Answers(r) : call' = Witnessed([call EXCEPT ![p] = Answered(call[p], a)], node')
  BY DEF Serve
<1> DEFINE c == Answered(call[p], a)
           mid == [call EXCEPT ![p] = c]
<1>3. c.at = "answered" /\ c.id = i /\ c.request = r /\ c.answer = a
  BY DEF Answered
<1>4. i \in 1..calls /\ (\A h \in hashes : h[1] # i)
  BY <1>1 DEF PaidInv, CallInv, HashInv
<1>5. /\ NodeShaped(node')
      /\ \/ node'.sent = node.sent /\ hashes' = hashes
         \/ node'.sent = node.sent + 1 /\ hashes' = hashes \cup {<<i, node.sent + 1>>}
      /\ r.do \in Paying /\ Found(node, r) => hashes' = hashes \cup {<<i, node.sent + 1>>}
  BY <1>1, DoneSends DEF PaidInv
<1>6. /\ \A h \in hashes' : h[1] \in 1..calls' /\ h[2] \in 1..node'.sent
      /\ \A g, h \in hashes' : g[1] = h[1] \/ g[2] = h[2] => g = h
      /\ \A h \in hashes' : h \in hashes \/ h[1] = i
      /\ hashes \subseteq hashes'
  BY <1>1, <1>4, <1>5, ServedHashes DEF NodeShaped
<1>7. r.do \in Paying /\ a.is = "ok" => <<i, a.body>> \in hashes'
  <2> SUFFICES ASSUME r.do \in Paying, a.is = "ok" PROVE <<i, a.body>> \in hashes'
    OBVIOUS
  <2>1. Found(node, r) /\ a.body = node.sent + 1
    BY <1>2, AnswerIsHash
  <2> QED BY <1>5, <2>1
<1>8. mid[p] = c /\ \A q \in Callers \ {p} : mid[q] = call[q]
  BY DEF PaidInv
<1> HIDE DEF c, mid
<1>9. CallInv(mid[p], calls, hashes')
  BY <1>3, <1>4, <1>7, <1>8 DEF CallInv
<1>10. \A q \in Callers \ {p} : CallInv(mid[q], calls, hashes')
  BY <1>6, <1>8 DEF PaidInv, CallInv
<1>11. call' = Witnessed(mid, node')
  BY <1>2 DEF mid, c
<1>12. ASSUME NEW q \in Callers
       PROVE  /\ CallInv(call[q], calls, hashes)'
              /\ call'[q].at = mid[q].at
              /\ mid[q].at # "none" => call'[q].id = mid[q].id
  <2>1. CallInv(mid[q], calls, hashes')
    BY <1>9, <1>10
  <2> QED BY <1>1, <1>11, <2>1, WitnessedInv
<1>13. \A q \in Callers :
         /\ call'[q].at # "none" => call[q].at # "none" /\ call'[q].id = call[q].id
         /\ call'[q].at = "sent" => call[q].at = "sent" /\ q # p
  BY <1>1, <1>3, <1>8, <1>12
<1>14. IdsUnique'
  BY <1>13 DEF PaidInv, IdsUnique
<1>15. LateInv'
  BY <1>1, <1>13 DEF PaidInv, LateInv
<1>16. HashInv'
  <2>1. \A h \in hashes', l \in late' : h[1] # l[1]
    BY <1>1, <1>6 DEF PaidInv, HashInv, LateInv
  <2>2. \A h \in hashes', q \in Callers : call'[q].at = "sent" => h[1] # call'[q].id
    BY <1>1, <1>6, <1>13 DEF PaidInv, HashInv, IdsUnique
  <2> QED BY <1>6, <2>1, <2>2 DEF HashInv
<1>17. call' = [q \in Callers |-> call'[q]]
  BY <1>11 DEF Witnessed
<1> QED BY <1>1, <1>5, <1>12, <1>14, <1>15, <1>16, <1>17 DEF PaidInv

(* The same for a request whose caller has gone.                           *)
LEMMA ServeLateKeeps == ASSUME PaidInv, ServeLate PROVE PaidInv'
<1>1. PICK l \in late :
        /\ late' = late \ {l} /\ Done(l[1], l[2])
        /\ call' = Witnessed(call, node') /\ calls' = calls
  BY DEF ServeLate
<1>2. l[1] \in 1..calls /\ (\A h \in hashes : h[1] # l[1])
  BY DEF PaidInv, LateInv, HashInv
<1>3. /\ NodeShaped(node')
      /\ \/ node'.sent = node.sent /\ hashes' = hashes
         \/ node'.sent = node.sent + 1 /\ hashes' = hashes \cup {<<l[1], node.sent + 1>>}
  BY <1>1, DoneSends DEF PaidInv
<1>4. /\ \A h \in hashes' : h[1] \in 1..calls' /\ h[2] \in 1..node'.sent
      /\ \A g, h \in hashes' : g[1] = h[1] \/ g[2] = h[2] => g = h
      /\ \A h \in hashes' : h \in hashes \/ h[1] = l[1]
      /\ hashes \subseteq hashes'
  BY <1>1, <1>2, <1>3, ServedHashes DEF NodeShaped
<1>5. ASSUME NEW q \in Callers
      PROVE  /\ CallInv(call[q], calls, hashes)'
             /\ call'[q].at = call[q].at
             /\ call[q].at # "none" => call'[q].id = call[q].id
  <2>1. CallInv(call[q], calls, hashes)
    BY DEF PaidInv
  <2> QED BY <1>1, <1>4, <2>1, WitnessedInv
<1>6. IdsUnique'
  BY <1>5 DEF PaidInv, IdsUnique
<1>7. LateInv'
  BY <1>1, <1>5 DEF PaidInv, LateInv
<1>8. HashInv'
  <2>1. \A h \in hashes', k \in late' : h[1] # k[1]
    BY <1>1, <1>4 DEF PaidInv, HashInv, LateInv
  <2>2. \A h \in hashes', q \in Callers : call'[q].at = "sent" => h[1] # call'[q].id
    BY <1>4, <1>5 DEF PaidInv, HashInv, LateInv
  <2> QED BY <1>4, <2>1, <2>2 DEF HashInv
<1>9. call' = [q \in Callers |-> call'[q]]
  BY <1>1 DEF Witnessed
<1> QED BY <1>1, <1>3, <1>5, <1>6, <1>7, <1>8, <1>9 DEF PaidInv

-----------------------------------------------------------------------------

LEMMA NextKeeps == PaidInv /\ [Next]_vars => PaidInv'
<1> SUFFICES ASSUME PaidInv, [Next]_vars PROVE PaidInv'
  OBVIOUS
<1>1. ASSUME NEW p \in Callers, Start(p) PROVE PaidInv'
  BY <1>1, StartKeeps
<1>2. ASSUME NEW p \in Callers, Serve(p) PROVE PaidInv'
  BY <1>2, ServeKeeps
<1>3. ASSUME NEW p \in Callers, Refuse(p) PROVE PaidInv'
  BY <1>3, RefuseKeeps
<1>4. ASSUME NEW p \in Callers, Receive(p) PROVE PaidInv'
  BY <1>4, ReceiveKeeps
<1>5. ASSUME NEW p \in Callers, Lose(p) PROVE PaidInv'
  BY <1>5, LoseKeeps
<1>6. CASE ServeLate
  BY <1>6, ServeLateKeeps
<1>7. CASE NodeMoves
  BY <1>7, NodeMovesKeeps
<1>8. CASE UNCHANGED vars
  BY <1>8 DEF vars, PaidInv, NodeShaped, CallInv, SentShaped, IdsUnique, LateInv, HashInv
<1> QED BY <1>1, <1>2, <1>3, <1>4, <1>5, <1>6, <1>7, <1>8 DEF Next

(* A payment, a withdrawal, a stake or a cancellation is sent to the chain *)
(* at most once per call of its method, although answers are lost and      *)
(* requests served after their callers gave them up; and the hash that the *)
(* method returns is of the transaction that its own request sent: for any *)
(* callers, calls and interleaving.                                        *)
THEOREM PaymentsOnce == Spec => []PaidOnce
<1>1. PaidInv => PaidOnce
  <2> SUFFICES ASSUME PaidInv PROVE PaidOnce
    OBVIOUS
  <2>1. \A g, h \in hashes : g[1] = h[1] \/ g[2] = h[2] => g = h
    BY DEF PaidInv, HashInv
  <2>2. ASSUME NEW p \in Callers, call[p].at = "done", call[p].request.do \in Paying,
               call[p].result.is = "ok", call[p].answer.is # "keyless"
        PROVE  <<call[p].id, call[p].result.value>> \in hashes
    <3>1. CallInv(call[p], calls, hashes)
      BY DEF PaidInv
    <3>2. call[p].result = Result(call[p].request, call[p].answer)
      BY <2>2, <3>1 DEF CallInv
    <3>3. call[p].answer.is = "ok" /\ call[p].result.value = call[p].answer.body
      BY <2>2, <3>2, ResultIsBody
    <3> QED BY <2>2, <3>1, <3>3 DEF CallInv
  <2> QED BY <2>1, <2>2 DEF PaidOnce, Paying
<1> QED BY <1>1, InitPaid, NextKeeps, PTL DEF Spec

-----------------------------------------------------------------------------
(* What is returned was true: the invariant.                               *)

RequestTyped(r) == r.do = "set" => r.to \in Nat
NodeTyped(n) == n.info \in Nat /\ n.ready \in {"yes", "no"}

(* What an answer with a status tells is among the truths of its call.     *)
Honest(r, a, truths) ==
  /\ r.do \in {"read", "ChequebookAddress"} \cup Lists /\ a.is = "ok" => a.body \in truths
  /\ r.do = "GetPin" /\ StatusOK(a) => "yes" \in truths
  /\ r.do = "GetPin" /\ a.is = "404" => "no" \in truths
  /\ r.do = "Readiness" /\ StatusOK(a) => "yes" \in truths
  /\ r.do = "ChainState" /\ a.is = "ok" => a.body \in truths /\ a.body \in Nat
  /\ r.do = "CheckPins" /\ a.is = "ok" => a.body \in Nat \X {0, 1}

TrueCall(c, n) ==
  /\ c.at # "none" => RequestTyped(c.request)
  /\ c.at = "sent" => Truth(n, c.request) \in c.true
  /\ c.at \in {"answered", "done"} => Honest(c.request, c.answer, c.true)

TrueInv ==
  /\ NodeTyped(node)
  /\ \A l \in late : RequestTyped(l[2])
  /\ \A p \in Callers : TrueCall(call[p], node)

(* Only a setting that is sent is put into the node.                       *)
LEMMA RequestsTyped ==
  ASSUME NEW method \in Methods, NEW r \in Requests(method)
  PROVE  RequestTyped(r)
<1>1. method # "set"
  BY DEF Methods, Reads, Payments, Creations, Settings, PinRequests, PinLookups, TagRequests,
         TransactionRequests, Lists, Others, HealthReads, StatusReads, WelcomeReads, NodeReads,
         NetworkReads, WalletReads, ChequebookReads, SettlementReads, ChequeReads,
         PeerChequeReads, BalanceReads, AccountingReads, StakeReads, WithdrawableReads,
         RedistributionReads, PeerReads, PeerPings, LoggerReads, SampleReads, GranteeReads,
         StewardReads, BatchReads, GlobalBatchReads, BucketReads, WalletPayments,
         ChequebookPayments, CashoutPayments, StakePayments, StakeWithdrawals, BatchPayments,
         TagCreations, GranteeCreations, EnvelopeCreations, WelcomeSettings, LoggerSettings,
         TagSettings, PeerSettings, StewardSettings, PinLists, TagLists, TransactionLists
<1>2. \/ r \in [do : {"read"}, to : {0}] \/ r \in [do : {"pay"}, to : {0}]
      \/ r \in [do : {"create"}, to : {0}] \/ r \in [do : {"set"}, to : 0..MaxInfo]
      \/ r \in [do : {method}, to : Refs] \/ r \in [do : {method}, to : 1..MaxCalls]
      \/ r \in [do : {method}, to : {0}]
  BY DEF Requests
<1>3. r.do = "set" => r.to \in 0..MaxInfo
  BY <1>1, <1>2
<1> QED BY <1>3 DEF RequestTyped

LEMMA EffectTyped ==
  ASSUME NEW n, NEW r, NodeShaped(n), NodeTyped(n), RequestTyped(r)
  PROVE  NodeTyped(Effect(n, r))
<1> DEFINE e == Effect(n, r)
<1>1. DOMAIN n = Fields /\ "info" \in Fields /\ "ready" \in Fields
  BY DEF NodeShaped, Fields
<1>2. CASE r.do = "pay"
  <2>1. e = [n EXCEPT !.sent = @ + 1, !.pending = @ \cup {n.sent + 1}]
    BY <1>2 DEF Effect
  <2>2. e.info = n.info /\ e.ready = n.ready
    BY <1>1, <2>1
  <2> QED BY <2>2 DEF NodeTyped
<1>3. CASE r.do = "CancelPendingTransaction"
  <2>1. e = [n EXCEPT !.sent = @ + 1, !.pending = (@ \ {r.to}) \cup {n.sent + 1}]
    BY <1>3 DEF Effect
  <2>2. e.info = n.info /\ e.ready = n.ready
    BY <1>1, <2>1
  <2> QED BY <2>2 DEF NodeTyped
<1>4. CASE r.do = "set"
  <2>1. e = [n EXCEPT !.info = r.to]
    BY <1>4 DEF Effect
  <2>2. e.info = r.to /\ e.ready = n.ready
    BY <1>1, <2>1
  <2> QED BY <1>4, <2>2 DEF NodeTyped, RequestTyped
<1>5. CASE r.do \notin Paying /\ r.do # "set"
  <2>1. \/ e = [n EXCEPT !.made = @ + 1, !.tags = @ \cup {n.made + 1}]
        \/ e = [n EXCEPT !.tags = @ \ {r.to}]
        \/ e = [n EXCEPT !.pins = @ \cup {r.to}]
        \/ e = [n EXCEPT !.pins = @ \ {r.to}]
        \/ e = n
    BY <1>5 DEF Effect, Paying
  <2>2. e.info = n.info /\ e.ready = n.ready
    BY <1>1, <2>1
  <2> QED BY <2>2 DEF NodeTyped
<1> QED BY <1>2, <1>3, <1>4, <1>5 DEF Paying

LEMMA DoneTyped ==
  ASSUME NodeShaped(node), NodeTyped(node), NEW id, NEW r, RequestTyped(r), Done(id, r)
  PROVE  NodeTyped(node')
<1>1. node' = Effect(node, r) \/ node' = node
  BY DEF Done
<1>2. NodeTyped(Effect(node, r))
  BY EffectTyped
<1> QED BY <1>1, <1>2

(* The node answers what is true of it.                                    *)
LEMMA AnswersHonest ==
  ASSUME NodeTyped(node), NEW r, NEW a \in Answers(r)
  PROVE  Honest(r, a, {Truth(node, r)})
<1>1. ASSUME r.do \in {"read", "ChequebookAddress"} \cup Lists, a.is = "ok"
      PROVE  a.body = Truth(node, r)
  <2> USE <1>1 DEF Lists, PinLists, TagLists, TransactionLists
  <2>1. Truth(node, r) = Body(node, r)
    BY DEF Truth
  <2>2. a \in {[is |-> "404"]} \/ a \in {[is |-> "5xx"]} \/
        a \in {[is |-> "ok", body |-> Body(node, r)], [is |-> "garbled"], [is |-> "keyless"],
              [is |-> "2xx"]}
    BY DEF Answers
  <2> QED BY <2>1, <2>2
<1>2. ASSUME r.do = "GetPin"
      PROVE  /\ StatusOK(a) => Truth(node, r) = "yes"
             /\ a.is = "404" => Truth(node, r) = "no"
  <2>1. Truth(node, r) = IF r.to \in node.pins THEN "yes" ELSE "no"
    BY <1>2 DEF Truth
  <2>2. Found(node, r) <=> r.to \in node.pins
    BY <1>2 DEF Found, TagRequests, TransactionRequests
  <2>3. CASE Found(node, r)
    <3>1. a \in {[is |-> "ok", body |-> Body(node, r)], [is |-> "garbled"], [is |-> "keyless"],
                [is |-> "2xx"]}
      BY <1>2, <2>3 DEF Answers
    <3>2. a.is # "404"
      BY <3>1
    <3> QED BY <2>1, <2>2, <2>3, <3>2
  <2>4. CASE ~Found(node, r)
    <3>1. a \in {[is |-> "404"]}
      BY <1>2, <2>4 DEF Answers
    <3> QED BY <2>1, <2>2, <2>4, <3>1 DEF StatusOK
  <2> QED BY <2>3, <2>4
<1>3. ASSUME r.do = "Readiness", StatusOK(a)
      PROVE  Truth(node, r) = "yes"
  <2>1. CASE node.ready = "no"
    <3>1. a \in {[is |-> "404"]} \/ a \in {[is |-> "5xx"]}
      BY <1>3, <2>1 DEF Answers
    <3> QED BY <1>3, <3>1 DEF StatusOK
  <2>2. CASE node.ready = "yes"
    BY <1>3, <2>2 DEF Truth
  <2> QED BY <2>1, <2>2 DEF NodeTyped
<1>4. ASSUME r.do = "ChainState", a.is = "ok"
      PROVE  a.body = Truth(node, r) /\ a.body \in Nat
  <2>1. Truth(node, r) = node.info
    BY <1>4 DEF Truth, Body, PinLists, TagLists, TransactionLists
  <2>2. Body(node, r) = node.info
    BY <1>4 DEF Body, PinLists, TagLists, TransactionLists
  <2>3. a \in {[is |-> "404"]} \/
        a \in {[is |-> "ok", body |-> Body(node, r)], [is |-> "garbled"], [is |-> "keyless"],
              [is |-> "2xx"]}
    BY <1>4 DEF Answers
  <2> QED BY <1>4, <2>1, <2>2, <2>3 DEF NodeTyped
<1>5. ASSUME r.do = "CheckPins", a.is = "ok"
      PROVE  a.body \in Nat \X {0, 1}
  <2>1. \/ a \in {[is |-> "404"]}
        \/ a \in [is : {"ok"}, body : (0..MaxRows) \X {0, 1}] \cup {[is |-> "garbled"]}
    BY <1>5 DEF Answers
  <2>2. a \in [is : {"ok"}, body : (0..MaxRows) \X {0, 1}]
    BY <1>5, <2>1
  <2>3. a.body \in (0..MaxRows) \X {0, 1}
    BY <2>2
  <2>4. 0..MaxRows \subseteq Nat
    BY NodeCallsAssumption
  <2> QED BY <2>3, <2>4
<1> QED BY <1>1, <1>2, <1>3, <1>4, <1>5 DEF Honest

LEMMA HonestGrows ==
  ASSUME NEW r, NEW a, NEW some, NEW more, some \subseteq more, Honest(r, a, some)
  PROVE  Honest(r, a, more)
<1>1. \A v \in some : v \in more
  OBVIOUS
<1> QED BY <1>1 DEF Honest

(* Every caller under way is a witness of what the node becomes.           *)
LEMMA WitnessedTrue ==
  ASSUME NEW running, NEW m, NEW n, NEW p \in Callers, TrueCall(running[p], m),
         running[p].at = "sent" => SentShaped(running[p])
  PROVE  TrueCall(Witnessed(running, n)[p], n)
<1> DEFINE w == Witnessed(running, n)[p]
<1>1. CASE running[p].at = "sent"
  <2> DEFINE t == running[p].true \cup {Truth(n, running[p].request)}
  <2>1. w = [running[p] EXCEPT !.true = t]
    BY <1>1 DEF Witnessed
  <2> HIDE DEF t
  <2>2. w = [at |-> "sent", id |-> running[p].id, request |-> running[p].request, true |-> t]
    BY <1>1, <2>1 DEF SentShaped
  <2>3. w.at = "sent" /\ w.request = running[p].request /\ Truth(n, w.request) \in w.true
    BY <2>2 DEF t
  <2> HIDE DEF w
  <2>4. TrueCall(w, n)
    BY <1>1, <2>3 DEF TrueCall
  <2> QED BY <2>4 DEF w
<1>2. CASE running[p].at # "sent"
  <2>1. w = running[p]
    BY <1>2 DEF Witnessed
  <2> QED BY <1>2, <2>1 DEF TrueCall
<1> QED BY <1>1, <1>2

(* A step of one caller that the node does not notice.                     *)
LEMMA UnnoticedStep ==
  ASSUME PaidInv, TrueInv, NEW p \in Callers, NEW c, call' = [call EXCEPT ![p] = c],
         node' = node, \A l \in late' : RequestTyped(l[2]), TrueCall(c, node)
  PROVE  TrueInv'
<1>1. call = [q \in Callers |-> call[q]]
  BY DEF PaidInv
<1>2. call'[p] = c /\ \A q \in Callers \ {p} : call'[q] = call[q]
  BY <1>1
<1>3. \A q \in Callers : TrueCall(call'[q], node)
  BY <1>2 DEF TrueInv
<1>4. \A q \in Callers : TrueCall(call[q], node)'
  BY <1>3
<1>5. NodeTyped(node)'
  BY DEF TrueInv
<1> QED BY <1>4, <1>5 DEF TrueInv

LEMMA InitTrue == Init => TrueInv
<1> SUFFICES ASSUME Init PROVE TrueInv
  OBVIOUS
<1>1. NodeTyped(node) /\ late = {} /\ \A p \in Callers : call[p].at = "none"
  BY DEF Init, Silent, NodeTyped
<1> QED BY <1>1 DEF TrueInv, TrueCall

LEMMA TrueKept == PaidInv /\ TrueInv /\ [Next]_vars => TrueInv'
<1> SUFFICES ASSUME PaidInv, TrueInv, [Next]_vars PROVE TrueInv'
  OBVIOUS
<1>0. /\ NodeShaped(node) /\ NodeTyped(node) /\ \A l \in late : RequestTyped(l[2])
      /\ \A p \in Callers : TrueCall(call[p], node)
      /\ \A p \in Callers : call[p].at = "sent" => SentShaped(call[p])
  BY DEF PaidInv, TrueInv, CallInv
<1>1. ASSUME NEW p \in Callers, Start(p) PROVE TrueInv'
  <2>1. PICK method \in Methods : \E r \in Requests(method) :
          call' = [call EXCEPT ![p] = [at |-> "sent", id |-> calls + 1, request |-> r,
                                       true |-> {Truth(node, r)}]]
    BY <1>1 DEF Start
  <2>2. PICK r \in Requests(method) :
          call' = [call EXCEPT ![p] = [at |-> "sent", id |-> calls + 1, request |-> r,
                                       true |-> {Truth(node, r)}]]
    BY <2>1
  <2> DEFINE c == [at |-> "sent", id |-> calls + 1, request |-> r, true |-> {Truth(node, r)}]
  <2>3. RequestTyped(r)
    BY RequestsTyped
  <2>4. c.at = "sent" /\ c.request = r /\ Truth(node, c.request) \in c.true
    OBVIOUS
  <2>5. call' = [call EXCEPT ![p] = c]
    BY <2>2
  <2> HIDE DEF c
  <2>6. TrueCall(c, node)
    BY <2>3, <2>4 DEF TrueCall
  <2>7. node' = node /\ late' = late
    BY <1>1 DEF Start
  <2> QED BY <1>0, <2>5, <2>6, <2>7, UnnoticedStep
<1>2. ASSUME NEW p \in Callers, Refuse(p) PROVE TrueInv'
  <2> DEFINE c == Answered(call[p], [is |-> "5xx"])
  <2>1. c.at = "answered" /\ c.request = call[p].request /\ c.answer.is = "5xx"
    BY DEF Answered
  <2>2. /\ call[p].at = "sent" /\ call' = [call EXCEPT ![p] = c]
        /\ node' = node /\ late' = late
    BY <1>2 DEF Refuse
  <2> HIDE DEF c
  <2>3. Honest(c.request, c.answer, c.true)
    BY <2>1 DEF Honest, StatusOK
  <2>4. TrueCall(c, node)
    BY <1>0, <2>1, <2>2, <2>3 DEF TrueCall
  <2> QED BY <1>0, <2>2, <2>4, UnnoticedStep
<1>3. ASSUME NEW p \in Callers, Receive(p) PROVE TrueInv'
  <2> DEFINE c == Ended(call[p], call[p].answer)
  <2>1. /\ c.at = "done" /\ c.request = call[p].request /\ c.answer = call[p].answer
        /\ c.true = call[p].true
    BY DEF Ended
  <2>2. /\ call[p].at = "answered" /\ call' = [call EXCEPT ![p] = c]
        /\ node' = node /\ late' = late
    BY <1>3 DEF Receive
  <2> HIDE DEF c
  <2>3. TrueCall(c, node)
    BY <1>0, <2>1, <2>2 DEF TrueCall
  <2> QED BY <1>0, <2>2, <2>3, UnnoticedStep
<1>4. ASSUME NEW p \in Callers, Lose(p) PROVE TrueInv'
  <2> DEFINE c == GivenUp(call[p])
  <2>1. c.at = "done" /\ c.request = call[p].request /\ c.answer.is = "none"
    BY DEF GivenUp, Ended
  <2>2. /\ call[p].at # "none" /\ call' = [call EXCEPT ![p] = c] /\ node' = node
        /\ late' = late \cup {<<call[p].id, call[p].request>> : x \in {"sent"} \cap {call[p].at}}
    BY <1>4 DEF Lose
  <2> HIDE DEF c
  <2>3. RequestTyped(call[p].request)
    BY <1>0, <2>2 DEF TrueCall
  <2>4. \A l \in late' : l \in late \/ l[2] = call[p].request
    BY <2>2
  <2>5. \A l \in late' : RequestTyped(l[2])
    BY <1>0, <2>3, <2>4
  <2>6. Honest(c.request, c.answer, c.true)
    BY <2>1 DEF Honest, StatusOK
  <2>7. TrueCall(c, node)
    BY <2>1, <2>3, <2>6 DEF TrueCall
  <2> QED BY <2>2, <2>5, <2>7, UnnoticedStep
<1>5. ASSUME NEW p \in Callers, Serve(p) PROVE TrueInv'
  <2> DEFINE r == call[p].request
  <2>1. call[p].at = "sent" /\ Done(call[p].id, r) /\ late' = late
    BY <1>5 DEF Serve
  <2>2. PICK a \in Answers(r) :
          call' = Witnessed([call EXCEPT ![p] = Answered(call[p], a)], node')
    BY <1>5 DEF Serve
  <2> DEFINE c == Answered(call[p], a)
             mid == [call EXCEPT ![p] = c]
  <2>3. c.at = "answered" /\ c.request = r /\ c.answer = a /\ c.true = call[p].true
    BY DEF Answered
  <2>4. RequestTyped(r) /\ Truth(node, r) \in call[p].true
    BY <1>0, <2>1 DEF TrueCall
  <2>5. Honest(r, a, call[p].true)
    <3>1. Honest(r, a, {Truth(node, r)})
      BY <1>0, AnswersHonest
    <3>2. {Truth(node, r)} \subseteq call[p].true
      BY <2>4
    <3> QED BY <3>1, <3>2, HonestGrows
  <2>6. mid[p] = c /\ \A q \in Callers \ {p} : mid[q] = call[q]
    BY DEF PaidInv
  <2>7. call' = Witnessed(mid, node')
    BY <2>2
  <2> HIDE DEF c, mid
  <2>8. TrueCall(c, node)
    BY <2>3, <2>4, <2>5 DEF TrueCall
  <2>9. ASSUME NEW q \in Callers PROVE TrueCall(call[q], node)'
    <3>1. TrueCall(mid[q], node) /\ (mid[q].at = "sent" => SentShaped(mid[q]))
      BY <1>0, <2>3, <2>6, <2>8
    <3>2. TrueCall(Witnessed(mid, node')[q], node')
      BY <3>1, WitnessedTrue
    <3> QED BY <2>7, <3>2
  <2>10. NodeTyped(node')
    BY <1>0, <2>1, <2>4, DoneTyped
  <2> QED BY <1>0, <2>1, <2>9, <2>10 DEF TrueInv
<1>6. CASE ServeLate
  <2>1. PICK l \in late :
          late' = late \ {l} /\ Done(l[1], l[2]) /\ call' = Witnessed(call, node')
    BY <1>6 DEF ServeLate
  <2>2. NodeTyped(node')
    BY <1>0, <2>1, DoneTyped
  <2>3. ASSUME NEW q \in Callers PROVE TrueCall(call[q], node)'
    <3>1. TrueCall(Witnessed(call, node')[q], node')
      BY <1>0, WitnessedTrue
    <3> QED BY <2>1, <3>1
  <2> QED BY <1>0, <2>1, <2>2, <2>3 DEF TrueInv
<1>7. CASE NodeMoves
  <2>1. call' = Witnessed(call, node') /\ late' = late
    BY <1>7 DEF NodeMoves
  <2>2. NodeTyped(node')
    <3>1. DOMAIN node = Fields /\ "info" \in Fields /\ "ready" \in Fields
      BY <1>0 DEF NodeShaped, Fields
    <3>2. \/ \E v : node' = [node EXCEPT !.pending = v]
          \/ node' = [node EXCEPT !.info = @ + 1]
          \/ node' = [node EXCEPT !.ready = IF @ = "yes" THEN "no" ELSE "yes"]
      BY <1>7 DEF NodeMoves
    <3> QED BY <1>0, <3>1, <3>2 DEF NodeTyped
  <2>3. ASSUME NEW q \in Callers PROVE TrueCall(call[q], node)'
    <3>1. TrueCall(Witnessed(call, node')[q], node')
      BY <1>0, WitnessedTrue
    <3> QED BY <2>1, <3>1
  <2> QED BY <1>0, <2>1, <2>2, <2>3 DEF TrueInv
<1>8. CASE UNCHANGED vars
  BY <1>8 DEF vars, TrueInv
<1> QED BY <1>1, <1>2, <1>3, <1>4, <1>5, <1>6, <1>7, <1>8 DEF Next

-----------------------------------------------------------------------------
(* What is returned was true: the results of honest answers.               *)

(* A price that is not below the range has lost its high bits.             *)
LEMMA PriceKept ==
  ASSUME NEW v \in Nat, NEW m \in Nat \ {0}
  PROVE  v % m = v \/ v >= m
OBVIOUS

LEMMA ResultsTrue ==
  ASSUME NEW r, NEW a, NEW truths, Honest(r, a, truths),
         Result(r, a).is = "ok", a.is # "keyless"
  PROVE  /\ r.do \in {"read", "ChequebookAddress", "GetPin"} \cup Lists =>
              Result(r, a).value \in truths
         /\ r.do = "Readiness" /\ Result(r, a).value = "yes" => "yes" \in truths
         /\ r.do = "ChainState" =>
              Result(r, a).value \in truths \/ \E t \in truths : t >= PriceRange
<1>1. ASSUME r.do \in {"read"} \cup Lists PROVE Result(r, a).value \in truths
  <2>1. Result(r, a) = Plain(a)
    BY <1>1 DEF Result, Lists, PinLists, TagLists, TransactionLists
  <2>2. a.is = "ok"
    BY <2>1 DEF Plain, Decoded, Error, Ok
  <2>3. Plain(a) = [is |-> "ok", value |-> a.body]
    BY <2>2 DEF Plain, Decoded, Ok
  <2> QED BY <1>1, <2>1, <2>2, <2>3 DEF Honest
<1>2. ASSUME r.do = "ChequebookAddress" PROVE Result(r, a).value \in truths
  <2>1. Result(r, a) = ChequebookAddress(a)
    BY <1>2 DEF Result
  <2>2. a.is = "ok" /\ Result(r, a).value = a.body
    BY <2>1 DEF ChequebookAddress, Error, Ok
  <2> QED BY <1>2, <2>2 DEF Honest
<1>3. ASSUME r.do = "GetPin" PROVE Result(r, a).value \in truths
  <2>1. Result(r, a) = GetPin(a)
    BY <1>3 DEF Result
  <2>2. \/ StatusOK(a) /\ Result(r, a).value = "yes"
        \/ a.is = "404" /\ Result(r, a).value = "no"
    <3>1. CASE StatusOK(a)
      <4>1. a.is # "404"
        BY <3>1 DEF StatusOK
      <4>2. GetPin(a) = Ok("yes")
        BY <3>1, <4>1 DEF GetPin
      <4> QED BY <2>1, <3>1, <4>2 DEF Ok
    <3>2. CASE a.is = "404"
      <4>1. ~StatusOK(a)
        BY <3>2 DEF StatusOK
      <4>2. GetPin(a) = Ok("no")
        BY <3>2, <4>1 DEF GetPin
      <4> QED BY <2>1, <3>2, <4>2 DEF Ok
    <3>3. CASE ~StatusOK(a) /\ a.is # "404"
      <4>1. GetPin(a) = Error
        BY <3>3 DEF GetPin
      <4> QED BY <2>1, <4>1 DEF Error
    <3> QED BY <3>1, <3>2, <3>3
  <2> QED BY <1>3, <2>2 DEF Honest
<1>4. ASSUME r.do = "Readiness", Result(r, a).value = "yes" PROVE "yes" \in truths
  <2>1. Result(r, a) = Readiness(a)
    BY <1>4 DEF Result
  <2>2. StatusOK(a)
    <3>1. CASE ~StatusOK(a) /\ a.is = "none"
      <4>1. Readiness(a) = Error
        BY <3>1 DEF Readiness
      <4> QED BY <2>1, <4>1 DEF Error
    <3>2. CASE ~StatusOK(a) /\ a.is # "none"
      <4>1. Readiness(a) = Ok("no")
        BY <3>2 DEF Readiness
      <4> QED BY <1>4, <2>1, <4>1 DEF Ok
    <3> QED BY <3>1, <3>2
  <2> QED BY <1>4, <2>2 DEF Honest
<1>5. ASSUME r.do = "ChainState"
      PROVE  Result(r, a).value \in truths \/ \E t \in truths : t >= PriceRange
  <2>1. Result(r, a) = ChainState(a)
    BY <1>5 DEF Result
  <2>2. a.is = "ok"
    BY <2>1 DEF ChainState, Decoded, Error, Ok
  <2>3. Result(r, a).value = a.body % PriceRange
    BY <2>1, <2>2 DEF ChainState, Ok
  <2>4. a.body \in truths /\ a.body \in Nat
    BY <1>5, <2>2 DEF Honest
  <2>5. PriceRange \in Nat \ {0}
    BY NodeCallsAssumption
  <2>6. a.body % PriceRange = a.body \/ a.body >= PriceRange
    BY <2>4, <2>5, PriceKept
  <2> QED BY <2>3, <2>4, <2>6
<1> QED BY <1>1, <1>2, <1>3, <1>4, <1>5

(* What a call returns was true of the node while it ran: neither losses   *)
(* nor late requests nor other callers make an answer false.               *)
THEOREM AnswersAreTrue == Spec => []AnswersTrue
<1>1. PaidInv /\ TrueInv => AnswersTrue
  <2> SUFFICES ASSUME PaidInv, TrueInv, NEW p \in Callers, call[p].at = "done",
                      call[p].result.is = "ok", call[p].answer.is # "keyless"
               PROVE  LET c == call[p] IN
                      /\ c.request.do \in {"read", "ChequebookAddress", "GetPin"} \cup Lists =>
                           c.result.value \in c.true
                      /\ c.request.do = "Readiness" /\ c.result.value = "yes" => "yes" \in c.true
                      /\ c.request.do = "ChainState" =>
                           c.result.value \in c.true \/ \E t \in c.true : t >= PriceRange
    BY DEF AnswersTrue
  <2>1. call[p].result = Result(call[p].request, call[p].answer)
    BY DEF PaidInv, CallInv
  <2>2. Honest(call[p].request, call[p].answer, call[p].true)
    BY DEF TrueInv, TrueCall
  <2> QED BY <2>1, <2>2, ResultsTrue
<1>2. Init => PaidInv /\ TrueInv
  BY InitPaid, InitTrue
<1>3. PaidInv /\ TrueInv /\ [Next]_vars => (PaidInv /\ TrueInv)'
  BY NextKeeps, TrueKept
<1> QED BY <1>1, <1>2, <1>3, PTL DEF Spec

-----------------------------------------------------------------------------
(* Rows of a pin check.                                                    *)

(* Rows without blanks: w whole rows and the first rest bytes of one more  *)
(* fill the reader, one byte behind the limit.                             *)
LEMMA RowsFill ==
  ASSUME NEW b \in Nat, NEW n \in Nat \ {0}
  PROVE  LET w == (b + 1) \div (n + 1)
             rest == b + 1 - w * (n + 1)
         IN  w \in Nat /\ rest \in 0..n
OBVIOUS

LEMMA CheckedAll ==
  ASSUME NEW rows \in Nat, CheckPins(rows, 0).is = "ok"
  PROVE  CheckPins(rows, 0).value = rows
<1> DEFINE w == RowsWithin(0)
           rest == BodyBytes + 1 - w * (RowBytes + 1)
           read == IF rows <= w THEN rows ELSE w + (IF rest >= RowBytes THEN 1 ELSE 0)
<1>0. BodyBytes \in Nat /\ RowBytes \in Nat \ {0}
  BY NodeCallsAssumption
<1>1. w = (BodyBytes + 1) \div (RowBytes + 1)
  BY <1>0 DEF RowsWithin
<1>2. w \in Nat /\ rest \in 0..RowBytes
  BY <1>0, <1>1, RowsFill
<1>3. CheckPins(rows, 0) =
        IF read * (RowBytes + 1) > BodyBytes \/ (rows > w /\ rest \in 1..(RowBytes - 1))
        THEN Error ELSE Ok(read)
  BY <1>0 DEF CheckPins, Counted
<1> HIDE DEF w, rest
<1>4. ~(read * (RowBytes + 1) > BodyBytes \/ (rows > w /\ rest \in 1..(RowBytes - 1)))
  BY <1>3 DEF Error
<1>5. CheckPins(rows, 0).value = read
  BY <1>3, <1>4 DEF Ok
<1>6. CASE rows <= w
  BY <1>5, <1>6
<1>7. CASE rows > w
  <2>1. rest = 0 \/ rest = RowBytes
    BY <1>0, <1>2, <1>4, <1>7
  <2>2. w * (RowBytes + 1) = BodyBytes + 1 - rest
    BY <1>0, <1>2 DEF rest
  <2>3. read * (RowBytes + 1) > BodyBytes
    <3>1. CASE rest = 0
      <4>1. read = w
        BY <1>0, <1>7, <1>2, <3>1
      <4> QED BY <1>0, <2>2, <3>1, <4>1
    <3>2. CASE rest = RowBytes
      <4>1. read = w + 1
        BY <1>0, <1>7, <1>2, <3>2
      <4>2. (w + 1) * (RowBytes + 1) = w * (RowBytes + 1) + RowBytes + 1
        BY <1>0, <1>2
      <4> QED BY <1>0, <2>2, <3>2, <4>1, <4>2
    <3> QED BY <2>1, <3>1, <3>2
  <2> QED BY <1>4, <2>3
<1> QED BY <1>0, <1>2, <1>6, <1>7

(* A pin check of rows without blanks reports every row or an error, for   *)
(* every size of a row and every limit on the body.                        *)
THEOREM PinChecksComplete == Spec => []PinsChecked
<1>1. PaidInv /\ TrueInv => PinsChecked
  <2> SUFFICES ASSUME PaidInv, TrueInv, NEW p \in Callers, call[p].at = "done",
                      call[p].request.do = "CheckPins", call[p].result.is = "ok",
                      call[p].answer.is = "ok", ~(call[p].answer.body[2] > 0)
               PROVE  call[p].result.value = call[p].answer.body[1]
    BY DEF PinsChecked
  <2> DEFINE a == call[p].answer
  <2>1. call[p].result = Result(call[p].request, a)
    BY DEF PaidInv, CallInv
  <2>2. Honest(call[p].request, a, call[p].true)
    BY DEF TrueInv, TrueCall
  <2>3. a.body \in Nat \X {0, 1}
    BY <2>2 DEF Honest
  <2>4. a.body[1] \in Nat /\ a.body[2] = 0
    BY <2>3
  <2>5. Result(call[p].request, a) = CheckPins(a.body[1], a.body[2])
    BY DEF Result
  <2> QED BY <2>1, <2>4, <2>5, CheckedAll
<1>2. Init => PaidInv /\ TrueInv
  BY InitPaid, InitTrue
<1>3. PaidInv /\ TrueInv /\ [Next]_vars => (PaidInv /\ TrueInv)'
  BY NextKeeps, TrueKept
<1> QED BY <1>1, <1>2, <1>3, PTL DEF Spec

=============================================================================
