------------------------ MODULE StorageExtension_proofs ------------------------
(***************************************************************************)
(* Proofs about StorageExtension, for any callers, kinds of calls, prices  *)
(* and sizes.                                                              *)
(*                                                                         *)
(* A call asks for a dilution only with the answer to its top-up in hand,  *)
(* and an answer says what was served, however late the requests are       *)
(* served and whoever has given up meanwhile.  So the balance is at any    *)
(* time worth the blocks the batch had, for the depth it has and for every *)
(* depth that a dilution on its way will give it; and, as long as calls do *)
(* not overlap, worth the blocks that were promised too.                   *)
(***************************************************************************)
EXTENDS StorageExtension, WellFoundedInduction, TLAPS

-----------------------------------------------------------------------------
(* The powers of two.                                                      *)

(* A least counterexample, in place of an induction.                       *)
LEMMA LeastNatural ==
  ASSUME NEW S \in SUBSET Nat, S # {}
  PROVE  \E n \in S : \A m \in S : n <= m
<1>1. PICK n \in S : \A m \in S : ~ (<<m, n>> \in OpToRel(<, Nat))
  BY WFMin, NatLessThanWellFounded
<1>2. \A m \in S : ~ (m < n)
  BY <1>1 DEF OpToRel
<1> QED
  BY <1>2

(* f lists the powers up to the n-th.                                      *)
Doubles(f, n) ==
  /\ f \in [0..n -> Nat]
  /\ f[0] = 1
  /\ \A i \in 1..n : f[i] = 2 * f[i - 1]

LEMMA DoublesExist ==
  ASSUME NEW n \in Nat
  PROVE  \E f : Doubles(f, n)
<1> DEFINE Bad == {k \in Nat : ~ \E f : Doubles(f, k)}
<1> SUFFICES ASSUME Bad # {} PROVE FALSE
  OBVIOUS
<1>1. PICK k \in Bad : \A m \in Bad : k <= m
  BY LeastNatural
<1>2. k # 0
  <2> DEFINE f == [i \in 0..0 |-> 1]
  <2>1. f \in [0..0 -> Nat] /\ f[0] = 1
    OBVIOUS
  <2>2. Doubles(f, 0)
    BY <2>1 DEF Doubles
  <2> QED
    BY <2>2
<1>3. k - 1 \in Nat /\ k - 1 \notin Bad
  BY <1>1, <1>2
<1>4. PICK f : Doubles(f, k - 1)
  BY <1>3
<1> DEFINE g == [i \in 0..k |-> IF i = k THEN 2 * f[k - 1] ELSE f[i]]
<1>5. Doubles(g, k)
  BY <1>2, <1>3, <1>4 DEF Doubles
<1> QED
  BY <1>5

LEMMA DoublesAgree ==
  ASSUME NEW n \in Nat, NEW m \in Nat, NEW f, NEW g, Doubles(f, n), Doubles(g, m),
         NEW i \in Nat, i <= n, i <= m
  PROVE  f[i] = g[i]
<1> DEFINE Bad == {k \in Nat : k <= n /\ k <= m /\ f[k] # g[k]}
<1> SUFFICES ASSUME Bad # {} PROVE FALSE
  OBVIOUS
<1>1. PICK k \in Bad : \A j \in Bad : k <= j
  BY LeastNatural
<1>2. k # 0
  BY DEF Doubles
<1>3. k - 1 \in Nat /\ k - 1 \notin Bad /\ k \in 1..n /\ k \in 1..m
  BY <1>1, <1>2
<1>4. f[k - 1] = g[k - 1]
  BY <1>3
<1> QED
  BY <1>3, <1>4 DEF Doubles

(* The definition by recursion defines something.                          *)
LEMMA PowerLaw ==
  /\ PowerOfTwo[0] = 1
  /\ \A n \in Nat : PowerOfTwo[n + 1] = 2 * PowerOfTwo[n]
<1> DEFINE List(n) == CHOOSE f : Doubles(f, n)
           F == [n \in Nat |-> List(n)[n]]
<1>1. \A n \in Nat : Doubles(List(n), n)
  BY DoublesExist
<1> HIDE DEF List
<1>2. F[0] = 1
  BY <1>1 DEF Doubles
<1>3. ASSUME NEW n \in Nat, n # 0 PROVE F[n] = 2 * F[n - 1]
  <2>1. n \in 1..n /\ n - 1 \in Nat
    BY <1>3
  <2>2. List(n)[n] = 2 * List(n)[n - 1]
    BY <1>1, <2>1 DEF Doubles
  <2>3. List(n)[n - 1] = List(n - 1)[n - 1]
    BY <1>1, <2>1, DoublesAgree
  <2> QED
    BY <2>1, <2>2, <2>3
<1>4. F = [n \in Nat |-> IF n = 0 THEN 1 ELSE 2 * F[n - 1]]
  <2>1. \A n \in Nat : F[n] = IF n = 0 THEN 1 ELSE 2 * F[n - 1]
    BY <1>2, <1>3
  <2> QED
    BY <2>1
<1> HIDE DEF F
<1>5. \E p : p = [n \in Nat |-> IF n = 0 THEN 1 ELSE 2 * p[n - 1]]
  BY <1>4
<1>6. PowerOfTwo = [n \in Nat |-> IF n = 0 THEN 1 ELSE 2 * PowerOfTwo[n - 1]]
  BY <1>5 DEF PowerOfTwo
<1>7. PowerOfTwo[0] = 1
  BY <1>6
<1>8. ASSUME NEW n \in Nat PROVE PowerOfTwo[n + 1] = 2 * PowerOfTwo[n]
  <2>1. n + 1 \in Nat /\ n + 1 # 0 /\ n + 1 - 1 = n
    OBVIOUS
  <2> QED
    BY <1>6, <2>1
<1> QED
  BY <1>7, <1>8

LEMMA PowerNatural ==
  ASSUME NEW n \in Nat
  PROVE  PowerOfTwo[n] \in Nat \ {0}
<1> DEFINE Bad == {k \in Nat : PowerOfTwo[k] \notin Nat \ {0}}
<1> SUFFICES ASSUME Bad # {} PROVE FALSE
  OBVIOUS
<1>1. PICK k \in Bad : \A j \in Bad : k <= j
  BY LeastNatural
<1>2. k # 0
  BY PowerLaw
<1>3. k - 1 \in Nat /\ k - 1 \notin Bad
  BY <1>1, <1>2
<1> DEFINE p == PowerOfTwo[k - 1]
<1>4. PowerOfTwo[k - 1 + 1] = 2 * p /\ k - 1 + 1 = k
  BY <1>3, PowerLaw
<1>5. p \in Nat \ {0}
  BY <1>3
<1> HIDE DEF p
<1>6. PowerOfTwo[k] = 2 * p
  BY <1>4
<1> QED
  BY <1>5, <1>6

LEMMA PowerSum ==
  ASSUME NEW m \in Nat, NEW n \in Nat
  PROVE  PowerOfTwo[m + n] = PowerOfTwo[m] * PowerOfTwo[n]
<1> DEFINE Bad == {k \in Nat : PowerOfTwo[m + k] # PowerOfTwo[m] * PowerOfTwo[k]}
           x == PowerOfTwo[m]
<1>0. x \in Nat
  BY PowerNatural
<1> SUFFICES ASSUME Bad # {} PROVE FALSE
  OBVIOUS
<1>1. PICK k \in Bad : \A j \in Bad : k <= j
  BY LeastNatural
<1>2. k # 0
  BY <1>0, PowerLaw
<1>3. k - 1 \in Nat /\ k - 1 \notin Bad
  BY <1>1, <1>2
<1> DEFINE y == PowerOfTwo[k - 1]
           z == PowerOfTwo[m + (k - 1)]
<1>4. y \in Nat /\ z \in Nat /\ z = x * y
  BY <1>3, PowerNatural
<1>5. PowerOfTwo[k - 1 + 1] = 2 * y /\ PowerOfTwo[m + (k - 1) + 1] = 2 * z
  BY <1>3, PowerLaw
<1>6. k - 1 + 1 = k /\ m + (k - 1) + 1 = m + k
  OBVIOUS
<1>7. 2 * z = x * (2 * y)
  <2> HIDE DEF x, y, z
  <2> QED
    BY <1>0, <1>4
<1>8. PowerOfTwo[m + k] = x * PowerOfTwo[k]
  BY <1>5, <1>6, <1>7
<1> QED
  BY <1>8

LEMMA PowerGrows ==
  ASSUME NEW m \in Nat, NEW n \in Nat, m <= n
  PROVE  PowerOfTwo[m] <= PowerOfTwo[n]
<1> DEFINE d == n - m
           x == PowerOfTwo[m]
           y == PowerOfTwo[d]
<1>1. d \in Nat /\ m + d = n
  OBVIOUS
<1>2. x \in Nat /\ y \in Nat \ {0} /\ PowerOfTwo[m + d] = x * y
  BY <1>1, PowerNatural, PowerSum
<1> HIDE DEF d, x, y
<1>3. x <= x * y
  BY <1>2
<1> QED
  BY <1>1, <1>2, <1>3 DEF x

-----------------------------------------------------------------------------
(* That a dilution follows its top-up.                                     *)

AnswersTrue == \A a \in answers : a.op = "topUp" /\ a.ok = TRUE => a.id \in funded

DilutionsPaid == \A r \in requests : r.op = "dilute" => r.id \in funded

FundedInv == AnswersTrue /\ DilutionsPaid /\ DilutionFunded

LEMMA FundedInvInit == Init => FundedInv
BY DEF Init, FundedInv, AnswersTrue, DilutionsPaid, DilutionFunded

(* The steps of a caller: only DiluteBatch asks for a dilution.            *)
LEMMA CallerStep ==
  ASSUME FundedInv, NEW c \in Callers,
         \/ ExtendStorage(c) \/ ExtendStorageSize(c) \/ ExtendStorageDuration(c)
         \/ GetPostageBatch(c) \/ ChainPrice(c) \/ ReadFails(c)
         \/ Decline(c) \/ NothingToDo(c) \/ TopUpBatch(c) \/ DiluteBatch(c)
         \/ Return(c) \/ ReturnError(c)
  PROVE  FundedInv'
<1>0. AnswersTrue /\ DilutionsPaid /\ DilutionFunded
  BY DEF FundedInv
<1>1. UNCHANGED <<answers, funded, unfunded>>
  BY DEF ExtendStorage, ExtendStorageSize, ExtendStorageDuration, Starts, GetPostageBatch,
     ChainPrice, ReadFails, Decline, NothingToDo, TopUpBatch, DiluteBatch, Sends, Return,
     ReturnError, history
<1>2. DilutionsPaid'
  <2>1. CASE TopUpBatch(c)
    <3> DEFINE e == [id |-> call[c].id, op |-> "topUp", argument |-> TopUp(call[c])]
    <3>1. requests' = requests \cup {e}
      BY <2>1 DEF TopUpBatch, Sends
    <3>2. e.op = "topUp"
      OBVIOUS
    <3> HIDE DEF e
    <3> QED
      BY <3>1, <3>2, <1>0, <1>1 DEF DilutionsPaid
  <2>2. CASE DiluteBatch(c)
    <3> DEFINE a == [id |-> call[c].id, op |-> "topUp", ok |-> TRUE]
    <3>1. a \in answers
      BY <2>2 DEF DiluteBatch, Answered
    <3>2. call[c].id \in funded
      BY <3>1, <1>0 DEF AnswersTrue
    <3>3. requests' = requests \cup
            {[id |-> call[c].id, op |-> "dilute", argument |-> call[c].size]}
      BY <2>2 DEF DiluteBatch, Sends
    <3> QED
      BY <3>2, <3>3, <1>0, <1>1 DEF DilutionsPaid
  <2>3. CASE ~ TopUpBatch(c) /\ ~ DiluteBatch(c)
    <3>1. requests' = requests
      BY <2>3 DEF ExtendStorage, ExtendStorageSize, ExtendStorageDuration, Starts,
         GetPostageBatch, ChainPrice, ReadFails, Decline, NothingToDo, Return, ReturnError
    <3> QED
      BY <3>1, <1>0, <1>1 DEF DilutionsPaid
  <2> QED
    BY <2>1, <2>2, <2>3
<1> QED
  BY <1>0, <1>1, <1>2 DEF FundedInv, AnswersTrue, DilutionFunded

LEMMA ServeTopUpStep ==
  ASSUME FundedInv, NEW r \in requests, ServeTopUp(r)
  PROVE  FundedInv'
<1>1. /\ requests' = requests \ {r}
      /\ answers' = answers \cup {[id |-> r.id, op |-> r.op, ok |-> TRUE]}
      /\ funded' = funded \cup {r.id}
      /\ unfunded' = unfunded
  BY DEF ServeTopUp, Serve
<1>2. AnswersTrue'
  <2> DEFINE e == [id |-> r.id, op |-> r.op, ok |-> TRUE]
  <2>1. e.id = r.id
    OBVIOUS
  <2>2. answers' = answers \cup {e}
    BY <1>1
  <2> HIDE DEF e
  <2> QED
    BY <2>1, <2>2, <1>1 DEF FundedInv, AnswersTrue
<1> QED
  BY <1>1, <1>2 DEF FundedInv, DilutionsPaid, DilutionFunded

LEMMA ServeDiluteStep ==
  ASSUME FundedInv, NEW r \in requests, ServeDilute(r)
  PROVE  FundedInv'
<1>1. r.op = "dilute" /\ r.id \in funded
  BY DEF ServeDilute, FundedInv, DilutionsPaid
<1>2. PICK ok \in {TRUE, FALSE} :
        /\ requests' = requests \ {r}
        /\ answers' = answers \cup {[id |-> r.id, op |-> r.op, ok |-> ok]}
  BY DEF ServeDilute, Serve
<1>3. funded' = funded
  BY DEF ServeDilute
<1>4. unfunded' = unfunded \/ unfunded' = unfunded \cup ({r.id} \ funded)
  BY DEF ServeDilute
<1>5. DilutionFunded'
  BY <1>1, <1>4 DEF FundedInv, DilutionFunded
<1>6. AnswersTrue'
  <2> DEFINE e == [id |-> r.id, op |-> r.op, ok |-> ok]
  <2>1. e.id = r.id
    OBVIOUS
  <2>2. answers' = answers \cup {e}
    BY <1>2
  <2> HIDE DEF e
  <2> QED
    BY <2>1, <2>2, <1>1, <1>3 DEF FundedInv, AnswersTrue
<1>7. DilutionsPaid'
  BY <1>2, <1>3 DEF FundedInv, DilutionsPaid
<1> QED
  BY <1>5, <1>6, <1>7 DEF FundedInv

LEMMA FundedInvStep == FundedInv /\ [Next]_vars => FundedInv'
<1> SUFFICES ASSUME FundedInv, [Next]_vars PROVE FundedInv'
  OBVIOUS
<1>1. CASE Block \/ SetPrice \/ UNCHANGED vars
  <2>1. UNCHANGED <<requests, answers, funded, unfunded>>
    BY <1>1 DEF Block, SetPrice, vars, history
  <2> QED
    BY <2>1 DEF FundedInv, AnswersTrue, DilutionsPaid, DilutionFunded
<1> QED
  BY <1>1, CallerStep, ServeTopUpStep, ServeDiluteStep DEF Next

(***************************************************************************)
(* No dilution is served before the top-up of its call, so the batch never *)
(* pays for the larger size with the lifetime it had.                      *)
(***************************************************************************)
THEOREM DilutionsFunded == Spec => []DilutionFunded
<1>1. FundedInv => DilutionFunded
  BY DEF FundedInv
<1> QED
  BY <1>1, FundedInvInit, FundedInvStep, PTL DEF Spec

-----------------------------------------------------------------------------
(* The balance.  As long as the price stays, the batch has what it had     *)
(* without extensions, in whole blocks, times every dilution that is still *)
(* to come; the top-ups of calls under way are worth at least that.        *)

Busied == {c \in Callers : pc[c] # "idle"}

(* An id belongs to one call, which has read the price before it tops up,  *)
(* and nothing was sent for it before its top-up.  A top-up or a dilution  *)
(* on its way is the one its call sent.                                    *)
Owned ==
  /\ \A c \in Callers : pc[c] # "idle" => call[c] \in Call /\ call[c].id <= calls
  /\ \A c \in Callers : pc[c] \in {"decide", "toppingUp", "diluting"} => call[c].price \in Prices
  /\ \A c \in Busied : call[c].kind = "duration" => call[c].size = 0
  /\ \A c, d \in Busied : call[c].id = call[d].id => c = d
  /\ \A i \in funded : i <= calls
  /\ \A r \in requests :
       /\ r.id <= calls
       /\ \A c \in Busied :
            r.id = call[c].id =>
              /\ r.op = "topUp" =>
                   pc[c] \in {"toppingUp", "diluting"} /\ r.argument = TopUp(call[c])
              /\ r.op = "dilute" => pc[c] = "diluting" /\ r.argument = call[c].size
  /\ \A c \in Busied :
       call[c].id \in funded => pc[c] \in {"toppingUp", "diluting"}

(* What a dilution to the depth s divides the balance by.                  *)
Times(s) == IF s > depth THEN PowerOfTwo[s - depth] ELSE 1

Paid(c) ==
  \/ pc[c] = "diluting"
  \/ pc[c] = "toppingUp" /\ call[c].id \in funded

Lasts(amount) ==
  /\ balance >= amount
  /\ \A r \in requests : r.op = "dilute" => balance >= amount * Times(r.argument)
  /\ \A c \in Callers : Paid(c) => balance >= amount * Times(call[c].size)

Left == baseline \div price

Read == {c \in Callers : pc[c] \in {"readPrice", "decide", "toppingUp"} /\ call[c].kind # "duration"}

Unextended ==
  /\ Lasts(Left * price)
  /\ \A c \in Read : call[c].depth <= depth /\ call[c].ttl \div BlockTime >= Left
  /\ \A c \in Callers : pc[c] \in {"decide", "toppingUp"} => call[c].price = price

(* Without overlaps, one call is under way, and what is sent is its own.   *)
Promise == IF "extend" \in Kinds THEN promised["extend"] ELSE 0

More(k) == IF k.kind = "extend" THEN k.duration \div BlockTime ELSE 0

Extended ==
  /\ \A c, d \in Busied : c = d
  /\ \A c \in Busied, r \in requests : r.id = call[c].id
  /\ Lasts((Left + Promise) * price)
  /\ \A c \in Callers :
       Paid(c) => balance >= (Left + Promise + More(call[c])) * price * Times(call[c].size)
  /\ \A c \in Read : ~ Paid(c) => call[c].ttl \div BlockTime >= balance \div price

(* What calls, requests and answers are, and whose.                        *)
Known == TypeOK /\ Owned /\ FundedInv

BalanceInv ==
  /\ Known
  /\ "price" \notin disturbed => Unextended
  /\ disturbed = {} => Extended

-----------------------------------------------------------------------------
(* Types and owners.                                                       *)

Stages == {"idle", "readBatch", "readPrice", "decide", "toppingUp", "diluting"}

LEMMA TopUpType ==
  ASSUME ConstantsAssumption, NEW k \in Call, k.price # 0
  PROVE  TopUp(k) \in Nat
<1> DEFINE cur == CurrentAmount(k)
           m == Multiplier(k)
<1>1. \A s, p \in Nat, b \in Nat : b # 0 => AmountForDuration(s, p, b) \in Nat
  BY DEF AmountForDuration
<1>2. cur \in Nat
  BY <1>1 DEF ConstantsAssumption, CurrentAmount, Call
<1>3. m \in Nat \ {0}
  BY PowerNatural DEF Multiplier, Call
<1>4. AmountForDuration(k.duration, k.price, BlockTime) \in Nat
  BY <1>1 DEF ConstantsAssumption, Call
<1> DEFINE amount == AmountForDuration(k.duration, k.price, BlockTime)
<1>5. CASE k.kind = "extend"
  <2>1. TopUp(k) = AmountDelta(k)
    BY <1>5 DEF TopUp
  <2>2. AmountDelta(k) = IF k.duration = 0 THEN cur * m - cur ELSE (cur + amount) * m - cur
    BY DEF AmountDelta
  <2> HIDE DEF cur, m, amount
  <2>3. cur * m >= cur /\ cur * m \in Nat
    BY <1>2, <1>3
  <2>4. (cur + amount) * m >= cur /\ (cur + amount) * m \in Nat
    <3> DEFINE both == cur + amount
    <3>1. both \in Nat /\ both >= cur
      BY <1>2, <1>4 DEF amount
    <3> HIDE DEF both
    <3>2. both * m >= both /\ both * m \in Nat
      BY <1>3, <3>1
    <3>3. both * m >= cur
      BY <1>2, <3>1, <3>2
    <3> QED
      BY <3>2, <3>3 DEF both
  <2> QED
    BY <1>2, <2>1, <2>2, <2>3, <2>4
<1>6. CASE k.kind = "size"
  <2>1. TopUp(k) = cur * (m - 1) + 1
    BY <1>6 DEF TopUp
  <2> HIDE DEF cur, m
  <2>2. m - 1 \in Nat
    BY <1>3
  <2> QED
    BY <1>2, <2>1, <2>2
<1>7. CASE k.kind = "duration"
  <2>1. TopUp(k) = AmountForDuration(k.duration, BlockTime, k.price)
    BY <1>7 DEF TopUp
  <2>2. k.duration \in Nat /\ BlockTime \in Nat /\ k.price \in Nat /\ k.price # 0
    BY DEF ConstantsAssumption, Call
  <2> QED
    BY <2>1, <2>2, <1>1
<1>8. k.kind \in {"extend", "size", "duration"}
  BY DEF ConstantsAssumption, Call
<1> QED
  BY <1>5, <1>6, <1>7, <1>8

LEMMA Priced ==
  ASSUME ConstantsAssumption, TypeOK, Owned, NEW c \in Callers,
         pc[c] \in {"decide", "toppingUp", "diluting"}
  PROVE  /\ call[c] \in Call /\ call[c].price # 0
         /\ TopUp(call[c]) \in Nat
<1>1. call[c] \in Call /\ call[c].price # 0
  BY DEF ConstantsAssumption, Owned
<1> QED
  BY <1>1, TopUpType

LEMMA KnownInit == Init => Known
<1> SUFFICES ASSUME Init PROVE Known
  OBVIOUS
<1>1. TypeOK
  BY ConstantsAssumption DEF Init, TypeOK
<1>2. Owned
  BY DEF Init, Owned, Busied
<1> QED
  BY <1>1, <1>2, FundedInvInit DEF Known

(* The caller c alone moves.                                               *)
LEMMA OneMoves ==
  ASSUME TypeOK, NEW c \in Callers, NEW stage \in Stages, pc' = [pc EXCEPT ![c] = stage]
  PROVE  /\ pc' \in [Callers -> Stages]
         /\ pc'[c] = stage
         /\ \A d \in Callers : d # c => pc'[d] = pc[d]
BY DEF TypeOK, Stages

LEMMA StartKnown ==
  ASSUME Known, NEW c \in Callers, NEW kind \in Kinds, NEW size \in Nat, NEW duration \in Nat,
         Starts(c, kind, size, duration), kind = "duration" => size = 0
  PROVE  /\ TypeOK' /\ Owned'
         /\ pc[c] = "idle" /\ pc'[c] \in {"readBatch", "readPrice"}
         /\ \A d \in Callers : d # c => pc'[d] = pc[d] /\ call'[d] = call[d]
         /\ call'[c].id = calls + 1 /\ call'[c].kind = kind
         /\ pc'[c] = "readPrice" => kind = "duration"
<1> DEFINE e == [id |-> calls + 1, kind |-> kind, size |-> size, duration |-> duration,
                 depth |-> 0, ttl |-> 0, price |-> 0]
           stage == IF kind = "duration" THEN "readPrice" ELSE "readBatch"
<1>1. /\ calls \in Nat /\ e \in Call
      /\ e.id = calls + 1 /\ e.kind = kind /\ e.size = size
  BY DEF Known, TypeOK, Call
<1>2. /\ pc[c] = "idle" /\ pc' = [pc EXCEPT ![c] = stage]
      /\ call' = [call EXCEPT ![c] = e]
      /\ calls' = calls + 1
      /\ disturbed' \in {disturbed, disturbed \cup {"overlap"}}
      /\ UNCHANGED <<batch, chain, requests, answers, history>>
  BY DEF Starts, Moves
<1> HIDE DEF e
<1>3. stage \in Stages /\ stage \in {"readBatch", "readPrice"}
  BY DEF Stages
<1>4. stage = "readPrice" => kind = "duration"
  OBVIOUS
<1> HIDE DEF stage
<1>5. /\ pc' \in [Callers -> Stages]
      /\ pc'[c] = stage
      /\ \A d \in Callers : d # c => pc'[d] = pc[d]
  BY <1>2, <1>3, OneMoves DEF Known
<1>6. /\ call' \in [Callers -> Call \cup {Idle}]
      /\ call'[c] = e
      /\ \A d \in Callers : d # c => call'[d] = call[d]
  BY <1>1, <1>2 DEF Known, TypeOK
<1>7. TypeOK'
  BY <1>1, <1>2, <1>5, <1>6 DEF Known, TypeOK, Stages, batch, chain, history
<1>8. \A d \in Callers : pc[d] # "idle" => call[d].id \in Nat /\ call[d].id <= calls
  BY DEF Known, Owned, Call
<1>9. /\ \A r \in requests : r.id \in Nat /\ r.id <= calls
      /\ \A i \in funded : i \in Nat /\ i <= calls
  BY DEF Known, Owned, TypeOK
<1>10. Owned'
  <2>1. \A d \in Callers : pc'[d] # "idle" => call'[d] \in Call /\ call'[d].id <= calls'
    BY <1>1, <1>2, <1>5, <1>6, <1>8 DEF Known, Owned
  <2>2. \A d \in Callers : pc'[d] \in {"decide", "toppingUp", "diluting"} =>
                             d # c /\ call'[d].price \in Prices
    BY <1>3, <1>5, <1>6 DEF Known, Owned
  <2>3. \A d, f \in Busied' : call'[d].id = call'[f].id => d = f
    BY <1>1, <1>5, <1>6, <1>8 DEF Known, Owned, Busied
  <2>4. (\A i \in funded : i <= calls)' /\ (\A r \in requests : r.id <= calls)'
    BY <1>1, <1>2, <1>9 DEF history
  <2>5. \A r \in requests' : r.id # calls + 1
    BY <1>1, <1>2, <1>9
  <2>6. calls + 1 \notin funded'
    BY <1>1, <1>2, <1>9 DEF history
  <2>7. \A d \in Busied' : \/ d = c /\ call'[d].id = calls + 1
                           \/ d \in Busied /\ pc'[d] = pc[d] /\ call'[d] = call[d]
    BY <1>1, <1>5, <1>6 DEF Busied
  <2>8. requests' = requests /\ funded' = funded
    BY <1>2 DEF history
  <2>9. \A r \in requests' : \A d \in Busied' :
          r.id = call'[d].id =>
            /\ r.op = "topUp" => pc'[d] \in {"toppingUp", "diluting"} /\ r.argument = TopUp(call'[d])
            /\ r.op = "dilute" => pc'[d] = "diluting" /\ r.argument = call'[d].size
    BY <2>5, <2>7, <2>8 DEF Known, Owned
  <2>10. \A d \in Busied' : call'[d].id \in funded' => pc'[d] \in {"toppingUp", "diluting"}
    BY <2>6, <2>7, <2>8 DEF Known, Owned
  <2>11. \A d \in Busied' : call'[d].kind = "duration" => call'[d].size = 0
    BY <1>1, <1>6, <2>7 DEF Known, Owned
  <2> QED
    BY <2>1, <2>2, <2>3, <2>4, <2>9, <2>10, <2>11 DEF Owned, TopUp, AmountDelta, CurrentAmount,
       Multiplier, AmountForDuration
<1> QED
  BY <1>1, <1>2, <1>3, <1>4, <1>5, <1>6, <1>7, <1>10

(* A call that has sent nothing owns no request.                           *)
LEMMA Unsent ==
  ASSUME Owned, NEW c \in Busied, pc[c] \in {"readBatch", "readPrice", "decide"}
  PROVE  /\ call[c].id \notin funded
         /\ \A r \in requests : r.id = call[c].id => r.op \notin {"topUp", "dilute"}
BY DEF Owned

LEMMA ReadKnown ==
  ASSUME Known, NEW c \in Callers, NEW k \in Call, NEW stage \in {"readPrice", "decide"},
         pc[c] \in {"readBatch", "readPrice"},
         k.id = call[c].id, k.kind = call[c].kind, k.size = call[c].size,
         stage = "decide" => k.price \in Prices,
         call' = [call EXCEPT ![c] = k], pc' = [pc EXCEPT ![c] = stage],
         UNCHANGED <<batch, chain, calls, requests, answers, history, disturbed>>
  PROVE  TypeOK' /\ Owned'
<1>1. /\ pc' \in [Callers -> Stages]
      /\ pc'[c] = stage
      /\ \A d \in Callers : d # c => pc'[d] = pc[d]
  BY OneMoves DEF Known, Stages
<1>2. /\ call' \in [Callers -> Call \cup {Idle}]
      /\ call'[c] = k
      /\ \A d \in Callers : d # c => call'[d] = call[d]
  BY DEF Known, TypeOK
<1>3. TypeOK'
  BY <1>1, <1>2 DEF Known, TypeOK, Stages, batch, chain, history
<1>4. c \in Busied
  BY DEF Busied
<1>5. \A d \in Busied' : d \in Busied /\ call'[d].id = call[d].id
  BY <1>1, <1>2, <1>4 DEF Busied
<1>6. requests' = requests /\ funded' = funded /\ calls' = calls
  BY DEF history
<1>7. Owned'
  <2>1. \A d \in Callers : pc'[d] # "idle" => call'[d] \in Call /\ call'[d].id <= calls'
    BY <1>1, <1>2, <1>4, <1>6 DEF Known, Owned, Busied
  <2>2. \A d \in Callers : pc'[d] \in {"decide", "toppingUp", "diluting"} =>
                             call'[d].price \in Prices
    BY <1>1, <1>2 DEF Known, Owned
  <2>3. \A d, f \in Busied' : call'[d].id = call'[f].id => d = f
    BY <1>5 DEF Known, Owned
  <2>4. (\A i \in funded : i <= calls)' /\ (\A r \in requests : r.id <= calls)'
    BY <1>6 DEF Known, Owned
  <2>5. \A r \in requests' : \A d \in Busied' :
          r.id = call'[d].id =>
            /\ r.op = "topUp" => pc'[d] \in {"toppingUp", "diluting"} /\ r.argument = TopUp(call'[d])
            /\ r.op = "dilute" => pc'[d] = "diluting" /\ r.argument = call'[d].size
    <3> SUFFICES ASSUME NEW r \in requests, NEW d \in Busied', r.id = call'[d].id
                 PROVE  /\ r.op = "topUp" => /\ pc'[d] \in {"toppingUp", "diluting"}
                                             /\ r.argument = TopUp(call'[d])
                        /\ r.op = "dilute" => pc'[d] = "diluting" /\ r.argument = call'[d].size
      BY <1>6
    <3>1. CASE d = c
      BY <1>2, <1>4, <3>1, Unsent DEF Known
    <3>2. CASE d # c
      <4>1. d \in Busied /\ pc'[d] = pc[d] /\ call'[d] = call[d]
        BY <1>1, <1>2, <1>5, <3>2 DEF Busied
      <4> QED
        BY <4>1 DEF Known, Owned
    <3> QED
      BY <3>1, <3>2
  <2>6. \A d \in Busied' : call'[d].id \in funded' => pc'[d] \in {"toppingUp", "diluting"}
    BY <1>1, <1>2, <1>4, <1>5, <1>6, Unsent DEF Known, Owned, Busied
  <2>7. \A d \in Busied' : call'[d].kind = "duration" => call'[d].size = 0
    BY <1>2, <1>5 DEF Known, Owned
  <2> QED
    BY <2>1, <2>2, <2>3, <2>4, <2>5, <2>6, <2>7 DEF Owned, TopUp, AmountDelta, CurrentAmount,
       Multiplier, AmountForDuration
<1> QED
  BY <1>3, <1>7

(* What the two reads learn.                                               *)
LEMMA BatchRead ==
  ASSUME Known, NEW c \in Callers, GetPostageBatch(c)
  PROVE  \E k \in Call :
           /\ call' = [call EXCEPT ![c] = k]
           /\ k.id = call[c].id /\ k.kind = call[c].kind
           /\ k.size = call[c].size /\ k.duration = call[c].duration
           /\ k.depth = depth /\ k.ttl = Ttl
<1> DEFINE o == call[c]
           k == [id |-> o.id, kind |-> o.kind, size |-> o.size, duration |-> o.duration,
                 depth |-> depth, ttl |-> Ttl, price |-> o.price]
<1>1. o \in Call
  BY DEF GetPostageBatch, Moves, Known, Owned
<1>2. Ttl \in Nat /\ depth \in Nat
  BY ConstantsAssumption DEF Ttl, Known, TypeOK, ConstantsAssumption
<1>3. k \in Call
  BY <1>1, <1>2 DEF Call
<1>4. [[o EXCEPT !.depth = depth] EXCEPT !.ttl = Ttl] = k
  <2> DEFINE d == [o EXCEPT !.depth = depth]
  <2>1. d = [id |-> o.id, kind |-> o.kind, size |-> o.size, duration |-> o.duration,
             depth |-> depth, ttl |-> o.ttl, price |-> o.price]
    BY <1>1 DEF Call
  <2> HIDE DEF d, o
  <2>2. [d EXCEPT !.ttl = Ttl] = k
    BY <2>1
  <2> QED
    BY <2>2 DEF d
<1>5. call' = [call EXCEPT ![c].depth = depth, ![c].ttl = Ttl]
  BY DEF GetPostageBatch
<1>6. call' = [call EXCEPT ![c] = k]
  BY <1>4, <1>5 DEF Known, TypeOK
<1> QED
  BY <1>3, <1>6

LEMMA PriceRead ==
  ASSUME Known, NEW c \in Callers, ChainPrice(c)
  PROVE  \E k \in Call :
           /\ call' = [call EXCEPT ![c] = k]
           /\ k.id = call[c].id /\ k.kind = call[c].kind
           /\ k.size = call[c].size /\ k.duration = call[c].duration
           /\ k.depth = call[c].depth /\ k.ttl = call[c].ttl /\ k.price = price
<1> DEFINE o == call[c]
           k == [id |-> o.id, kind |-> o.kind, size |-> o.size, duration |-> o.duration,
                 depth |-> o.depth, ttl |-> o.ttl, price |-> price]
<1>1. o \in Call
  BY DEF ChainPrice, Moves, Known, Owned
<1>2. price \in Nat
  BY ConstantsAssumption DEF Known, TypeOK, ConstantsAssumption
<1>3. k \in Call
  BY <1>1, <1>2 DEF Call
<1>4. [o EXCEPT !.price = price] = k
  BY <1>1 DEF Call
<1>5. call' = [call EXCEPT ![c].price = price]
  BY DEF ChainPrice
<1>6. call' = [call EXCEPT ![c] = k]
  BY <1>4, <1>5 DEF Known, TypeOK
<1> QED
  BY <1>3, <1>6

LEMMA EndKnown ==
  ASSUME Known, NEW c \in Callers,
         pc' = [pc EXCEPT ![c] = "idle"], call' = [call EXCEPT ![c] = Idle],
         promised' \in [Kinds -> Nat],
         UNCHANGED <<batch, chain, calls, requests, answers, funded, unfunded, disturbed>>
  PROVE  /\ TypeOK' /\ Owned'
         /\ pc'[c] = "idle"
         /\ \A d \in Callers : d # c => pc'[d] = pc[d] /\ call'[d] = call[d]
<1>1. /\ pc' \in [Callers -> Stages]
      /\ pc'[c] = "idle"
      /\ \A d \in Callers : d # c => pc'[d] = pc[d]
  BY OneMoves DEF Known, Stages
<1>2. /\ call' \in [Callers -> Call \cup {Idle}]
      /\ \A d \in Callers : d # c => call'[d] = call[d]
  BY DEF Known, TypeOK
<1>3. TypeOK'
  BY <1>1, <1>2 DEF Known, TypeOK, Stages, batch, chain
<1>4. \A d \in Busied' : d \in Busied /\ d # c /\ pc'[d] = pc[d] /\ call'[d] = call[d]
  BY <1>1, <1>2 DEF Busied
<1>5. \A d \in Callers : pc'[d] # "idle" => d \in Busied'
  BY DEF Busied
<1>6. Owned'
  <2>1. \A d \in Callers : pc'[d] # "idle" => call'[d] \in Call /\ call'[d].id <= calls'
    BY <1>4, <1>5 DEF Known, Owned, Busied
  <2>2. \A d \in Callers : pc'[d] \in {"decide", "toppingUp", "diluting"} =>
                             call'[d].price \in Prices
    BY <1>1, <1>2 DEF Known, Owned
  <2>3. \A d, f \in Busied' : call'[d].id = call'[f].id => d = f
    BY <1>4 DEF Known, Owned
  <2>4. (\A i \in funded : i <= calls)' /\ (\A r \in requests : r.id <= calls)'
    BY DEF Known, Owned
  <2>5. \A r \in requests' : \A d \in Busied' :
          r.id = call'[d].id =>
            /\ r.op = "topUp" => pc'[d] \in {"toppingUp", "diluting"} /\ r.argument = TopUp(call'[d])
            /\ r.op = "dilute" => pc'[d] = "diluting" /\ r.argument = call'[d].size
    BY <1>4 DEF Known, Owned
  <2>6. \A d \in Busied' : call'[d].id \in funded' => pc'[d] \in {"toppingUp", "diluting"}
    BY <1>4 DEF Known, Owned
  <2>7. \A d \in Busied' : call'[d].kind = "duration" => call'[d].size = 0
    BY <1>4 DEF Known, Owned
  <2> QED
    BY <2>1, <2>2, <2>3, <2>4, <2>5, <2>6, <2>7 DEF Owned, TopUp, AmountDelta, CurrentAmount,
       Multiplier, AmountForDuration
<1> QED
  BY <1>1, <1>2, <1>3, <1>6

(* What a success promises.                                                *)
LEMMA SucceedsPromises ==
  ASSUME Known, NEW c \in Callers, pc[c] # "idle", Succeeds(c)
  PROVE  /\ call[c] \in Call
         /\ call[c].duration \div BlockTime \in Nat
         /\ promised' \in [Kinds -> Nat]
         /\ \A k \in Kinds : promised'[k] =
              IF k = call[c].kind THEN promised[k] + call[c].duration \div BlockTime ELSE promised[k]
<1>1. call[c] \in Call
  BY DEF Known, Owned
<1> DEFINE kind == call[c].kind
           more == call[c].duration \div BlockTime
<1>2. kind \in Kinds /\ more \in Nat
  BY <1>1, ConstantsAssumption DEF Call, ConstantsAssumption
<1>3. promised' = [promised EXCEPT ![kind] = @ + more]
  BY DEF Succeeds
<1> HIDE DEF kind, more
<1>4. promised \in [Kinds -> Nat]
  BY DEF Known, TypeOK
<1>5. /\ promised' \in [Kinds -> Nat]
      /\ \A k \in Kinds : promised'[k] = IF k = kind THEN promised[k] + more ELSE promised[k]
  BY <1>2, <1>3, <1>4
<1> QED
  BY <1>1, <1>2, <1>5 DEF kind, more

(* A request is sent.                                                      *)
LEMMA SendKnown ==
  ASSUME Known, NEW c \in Callers, NEW op \in {"topUp", "dilute"}, NEW n \in Nat,
         NEW stage \in {"toppingUp", "diluting"},
         pc[c] \in {"decide", "toppingUp"}, pc' = [pc EXCEPT ![c] = stage],
         Sends(c, op, n),
         op = "topUp" => stage = "toppingUp" /\ n = TopUp(call[c]),
         op = "dilute" => pc[c] = "toppingUp" /\ stage = "diluting" /\ n = call[c].size
  PROVE  /\ TypeOK' /\ Owned'
         /\ pc'[c] = stage
         /\ \A d \in Callers : d # c => pc'[d] = pc[d]
         /\ \E r : requests' = requests \cup {r} /\ r.id = call[c].id /\ r.op = op /\ r.argument = n
<1> DEFINE e == [id |-> call[c].id, op |-> op, argument |-> n]
<1>1. /\ pc' \in [Callers -> Stages]
      /\ pc'[c] = stage
      /\ \A d \in Callers : d # c => pc'[d] = pc[d]
  BY OneMoves DEF Known, Stages
<1>2. call[c] \in Call /\ call[c].id \in Nat /\ call[c].id <= calls /\ call[c].price \in Prices
  BY DEF Known, Owned, Call
<1>3. /\ requests' = requests \cup {e}
      /\ UNCHANGED <<batch, chain, calls, call, answers, history, disturbed>>
  BY DEF Sends
<1>4. e \in [id : Nat, op : {"topUp", "dilute"}, argument : Nat]
  BY <1>2
<1>5. e.id = call[c].id /\ e.op = op /\ e.argument = n
  OBVIOUS
<1> HIDE DEF e
<1>6. TypeOK'
  BY <1>1, <1>3, <1>4 DEF Known, TypeOK, Stages, batch, chain, history
<1>7. c \in Busied /\ Busied' = Busied
  BY <1>1 DEF Busied
<1>8. call' = call /\ funded' = funded /\ calls' = calls
  BY <1>3 DEF history
<1>9. Owned'
  <2>1. \A d \in Callers : pc'[d] # "idle" => call'[d] \in Call /\ call'[d].id <= calls'
    BY <1>7, <1>8 DEF Known, Owned, Busied
  <2>2. \A d \in Callers : pc'[d] \in {"decide", "toppingUp", "diluting"} =>
                             call'[d].price \in Prices
    BY <1>1, <1>2, <1>8 DEF Known, Owned
  <2>3. \A d, f \in Busied' : call'[d].id = call'[f].id => d = f
    BY <1>7, <1>8 DEF Known, Owned
  <2>4. (\A i \in funded : i <= calls)' /\ (\A r \in requests : r.id <= calls)'
    BY <1>2, <1>3, <1>5, <1>8 DEF Known, Owned
  <2>5. \A r \in requests' : \A d \in Busied' :
          r.id = call'[d].id =>
            /\ r.op = "topUp" => pc'[d] \in {"toppingUp", "diluting"} /\ r.argument = TopUp(call'[d])
            /\ r.op = "dilute" => pc'[d] = "diluting" /\ r.argument = call'[d].size
    <3> SUFFICES ASSUME NEW r \in requests', NEW d \in Busied, r.id = call[d].id
                 PROVE  /\ r.op = "topUp" => /\ pc'[d] \in {"toppingUp", "diluting"}
                                             /\ r.argument = TopUp(call[d])
                        /\ r.op = "dilute" => pc'[d] = "diluting" /\ r.argument = call[d].size
      BY <1>7, <1>8
    <3>1. CASE r = e
      <4>1. d = c
        BY <1>5, <1>7, <3>1 DEF Known, Owned
      <4> QED
        BY <1>1, <1>5, <3>1, <4>1
    <3>2. CASE r \in requests
      <4>1. /\ r.op = "topUp" => pc[d] \in {"toppingUp", "diluting"} /\ r.argument = TopUp(call[d])
            /\ r.op = "dilute" => pc[d] = "diluting" /\ r.argument = call[d].size
        BY <3>2 DEF Known, Owned
      <4>2. d # c => pc'[d] = pc[d]
        BY <1>1 DEF Busied
      <4> QED
        BY <1>1, <4>1, <4>2
    <3> QED
      BY <1>3, <3>1, <3>2
  <2>6. \A d \in Busied' : call'[d].id \in funded' => pc'[d] \in {"toppingUp", "diluting"}
    BY <1>1, <1>7, <1>8 DEF Known, Owned, Busied
  <2>7. \A d \in Busied' : call'[d].kind = "duration" => call'[d].size = 0
    BY <1>7, <1>8 DEF Known, Owned
  <2> QED
    BY <2>1, <2>2, <2>3, <2>4, <2>5, <2>6, <2>7 DEF Owned, TopUp, AmountDelta, CurrentAmount,
       Multiplier, AmountForDuration
<1> QED
  BY <1>1, <1>3, <1>5, <1>6, <1>9

LEMMA ServeKnown ==
  ASSUME Known, NEW r \in requests, NEW ok \in BOOLEAN, Serve(r, ok),
         depth' \in Nat, balance' \in Nat, unfunded' \subseteq Nat,
         \/ funded' = funded
         \/ funded' = funded \cup {r.id} /\ r.op = "topUp"
  PROVE  /\ TypeOK' /\ Owned'
         /\ UNCHANGED <<chain, callers, promised, disturbed>>
         /\ requests' = requests \ {r}
<1>1. /\ requests' = requests \ {r}
      /\ answers' = answers \cup {[id |-> r.id, op |-> r.op, ok |-> ok]}
      /\ UNCHANGED <<chain, callers, promised, disturbed>>
  BY DEF Serve
<1>2. r.id \in Nat /\ r.op \in {"topUp", "dilute"} /\ r.id <= calls
  BY DEF Known, TypeOK, Owned
<1>3. TypeOK'
  <2> DEFINE e == [id |-> r.id, op |-> r.op, ok |-> ok]
  <2>1. e \in [id : Nat, op : {"topUp", "dilute"}, ok : BOOLEAN]
    BY <1>2
  <2>2. answers' = answers \cup {e}
    BY <1>1
  <2> HIDE DEF e
  <2>3. answers' \subseteq [id : Nat, op : {"topUp", "dilute"}, ok : BOOLEAN]
    BY <2>1, <2>2 DEF Known, TypeOK
  <2>4. funded' \subseteq Nat
    BY <1>2 DEF Known, TypeOK
  <2>5. requests' \subseteq [id : Nat, op : {"topUp", "dilute"}, argument : Nat]
    BY <1>1 DEF Known, TypeOK
  <2> QED
    BY <1>1, <2>3, <2>4, <2>5 DEF Known, TypeOK, chain, callers
<1>4. calls' = calls /\ pc' = pc /\ call' = call /\ Busied' = Busied
  BY <1>1 DEF callers, Busied
<1>5. Owned'
  <2>1. \A d \in Callers : pc'[d] # "idle" => call'[d] \in Call /\ call'[d].id <= calls'
    BY <1>4 DEF Known, Owned
  <2>2. \A d \in Callers : pc'[d] \in {"decide", "toppingUp", "diluting"} =>
                             call'[d].price \in Prices
    BY <1>4 DEF Known, Owned
  <2>3. \A d, f \in Busied' : call'[d].id = call'[f].id => d = f
    BY <1>4 DEF Known, Owned
  <2>4. (\A i \in funded : i <= calls)' /\ (\A q \in requests : q.id <= calls)'
    BY <1>1, <1>2, <1>4 DEF Known, Owned
  <2>5. \A q \in requests' : \A d \in Busied' :
          q.id = call'[d].id =>
            /\ q.op = "topUp" => pc'[d] \in {"toppingUp", "diluting"} /\ q.argument = TopUp(call'[d])
            /\ q.op = "dilute" => pc'[d] = "diluting" /\ q.argument = call'[d].size
    BY <1>1, <1>4 DEF Known, Owned
  <2>6. \A d \in Busied' : call'[d].id \in funded' => pc'[d] \in {"toppingUp", "diluting"}
    BY <1>4 DEF Known, Owned
  <2>7. \A d \in Busied' : call'[d].kind = "duration" => call'[d].size = 0
    BY <1>4 DEF Known, Owned
  <2> QED
    BY <2>1, <2>2, <2>3, <2>4, <2>5, <2>6, <2>7 DEF Owned, TopUp, AmountDelta, CurrentAmount,
       Multiplier, AmountForDuration
<1> QED
  BY <1>1, <1>3, <1>5

LEMMA ServeTopUpKnown ==
  ASSUME Known, NEW r \in requests, ServeTopUp(r)
  PROVE  /\ TypeOK' /\ Owned'
         /\ UNCHANGED <<depth, chain, callers, promised, disturbed>>
         /\ requests' = requests \ {r}
         /\ funded' = funded \cup {r.id}
         /\ r.op = "topUp" /\ r.argument \in Nat /\ balance' = balance + r.argument
<1>1. /\ r.op = "topUp" /\ balance' = balance + r.argument /\ funded' = funded \cup {r.id}
      /\ UNCHANGED <<depth, unfunded>> /\ Serve(r, TRUE)
  BY DEF ServeTopUp
<1>2. r.argument \in Nat /\ balance' \in Nat /\ depth' \in Nat /\ unfunded' \subseteq Nat
  BY <1>1 DEF Known, TypeOK
<1> QED
  BY <1>1, <1>2, ServeKnown

LEMMA ServeDiluteKnown ==
  ASSUME Known, NEW r \in requests, ServeDilute(r)
  PROVE  /\ TypeOK' /\ Owned'
         /\ UNCHANGED <<chain, callers, promised, disturbed, funded>>
         /\ requests' = requests \ {r}
         /\ r.op = "dilute" /\ r.argument \in Nat
         /\ IF r.argument > depth
            THEN depth' = r.argument /\ balance' = balance \div PowerOfTwo[r.argument - depth]
            ELSE UNCHANGED batch
<1>1. r.id \in Nat /\ r.argument \in Nat /\ depth \in Nat /\ balance \in Nat
  BY DEF Known, TypeOK
<1>2. CASE r.argument > depth
  <2>1. r.argument - depth \in Nat
    BY <1>1, <1>2
  <2> DEFINE p == PowerOfTwo[r.argument - depth]
  <2>2. p \in Nat \ {0}
    BY <2>1, PowerNatural
  <2>3. /\ r.op = "dilute" /\ depth' = r.argument /\ balance' = balance \div p
        /\ unfunded' = unfunded \cup ({r.id} \ funded) /\ funded' = funded
        /\ Serve(r, TRUE)
    BY <1>2 DEF ServeDilute
  <2>4. depth' \in Nat /\ balance' \in Nat /\ unfunded' \subseteq Nat
    <3> HIDE DEF p
    <3>1. balance \div p \in Nat
      BY <1>1, <2>2
    <3>2. unfunded \subseteq Nat
      BY DEF Known, TypeOK
    <3> QED
      BY <1>1, <2>3, <3>1, <3>2
  <2> QED
    BY <1>1, <1>2, <2>3, <2>4, ServeKnown
<1>3. CASE ~ (r.argument > depth)
  <2>1. r.op = "dilute" /\ UNCHANGED <<batch, unfunded, funded>> /\ Serve(r, FALSE)
    BY <1>3 DEF ServeDilute
  <2>2. depth' \in Nat /\ balance' \in Nat /\ unfunded' \subseteq Nat
    BY <2>1 DEF batch, Known, TypeOK
  <2> QED
    BY <1>1, <1>3, <2>1, <2>2, ServeKnown
<1> QED
  BY <1>2, <1>3

(* The chain moves no call and no request.                                 *)
LEMMA ChainKnown ==
  ASSUME Known, Block \/ SetPrice
  PROVE  TypeOK' /\ Owned'
<1>1. UNCHANGED <<depth, callers, requests, answers, history>>
  BY DEF Block, SetPrice, batch
<1>2. TypeOK'
  <2>1. CASE Block
    <3>1. /\ balance >= price /\ baseline >= price
          /\ balance' = balance - price /\ baseline' = baseline - price
          /\ blocks' = blocks + 1 /\ UNCHANGED <<price, disturbed>>
      BY <2>1 DEF Block
    <3>2. price \in Nat
      BY ConstantsAssumption DEF Known, TypeOK, ConstantsAssumption
    <3>3. balance' \in Nat /\ baseline' \in Nat /\ blocks' \in Nat
      BY <3>1, <3>2 DEF Known, TypeOK
    <3> QED
      BY <1>1, <3>1, <3>3 DEF Known, TypeOK, callers, history
  <2>2. CASE SetPrice
    <3>1. /\ price' \in Prices /\ disturbed' = disturbed \cup {"price"}
          /\ UNCHANGED <<balance, blocks, baseline>>
      BY <2>2 DEF SetPrice, batch
    <3> QED
      BY <1>1, <3>1 DEF Known, TypeOK, callers, history
  <2> QED
    BY <2>1, <2>2
<1>3. Owned'
  <2>1. /\ calls' = calls /\ pc' = pc /\ call' = call /\ Busied' = Busied
        /\ requests' = requests /\ funded' = funded
    BY <1>1 DEF callers, history, Busied
  <2>2. \A q \in requests' : \A d \in Busied' :
          q.id = call'[d].id =>
            /\ q.op = "topUp" => pc'[d] \in {"toppingUp", "diluting"} /\ q.argument = TopUp(call'[d])
            /\ q.op = "dilute" => pc'[d] = "diluting" /\ q.argument = call'[d].size
    BY <2>1 DEF Known, Owned
  <2>3. /\ \A d \in Callers : pc'[d] # "idle" => call'[d] \in Call /\ call'[d].id <= calls'
        /\ \A d \in Callers : pc'[d] \in {"decide", "toppingUp", "diluting"} =>
                               call'[d].price \in Prices
        /\ \A d, f \in Busied' : call'[d].id = call'[f].id => d = f
        /\ \A d \in Busied' : call'[d].id \in funded' => pc'[d] \in {"toppingUp", "diluting"}
    BY <2>1 DEF Known, Owned
  <2>4. (\A i \in funded : i <= calls)' /\ (\A q \in requests : q.id <= calls)'
    BY <2>1 DEF Known, Owned
  <2>5. \A d \in Busied' : call'[d].kind = "duration" => call'[d].size = 0
    BY <2>1 DEF Known, Owned
  <2> QED
    BY <2>2, <2>3, <2>4, <2>5 DEF Owned, TopUp, AmountDelta, CurrentAmount, Multiplier, AmountForDuration
<1> QED
  BY <1>2, <1>3

-----------------------------------------------------------------------------
(* The arithmetic of top-ups and dilutions.                                *)

LEMMA Quotient ==
  ASSUME NEW x \in Nat, NEW y \in Nat \ {0}
  PROVE  /\ x \div y \in Nat
         /\ (x \div y) * y <= x
         /\ \A q \in Nat : q * y <= x => q <= x \div y
         /\ (x * y) \div y = x
<1>1. x \div y \in Nat /\ (x \div y) * y <= x
  BY SMTT(30)
<1>2. ASSUME NEW q \in Nat, q * y <= x PROVE q <= x \div y
  BY <1>2, SMTT(30)
<1>3. (x * y) \div y = x
  BY SMTT(30)
<1> QED
  BY <1>1, <1>2, <1>3

LEMMA QuotientLess ==
  ASSUME NEW x \in Nat, NEW y \in Nat \ {0}, x >= y
  PROVE  (x - y) \div y = (x \div y) - 1
BY SMTT(30)

LEMMA ProductGrows ==
  ASSUME NEW x \in Nat, NEW y \in Nat, NEW m \in Nat, NEW n \in Nat, x <= y, m <= n
  PROVE  x * m <= y * n /\ x * m \in Nat /\ y * n \in Nat
<1>1. x * m <= y * m
  BY SMTT(30)
<1>2. y * m <= y * n
  BY SMTT(30)
<1> QED
  BY <1>1, <1>2

LEMMA TimesNatural ==
  ASSUME depth \in Nat, NEW s \in Nat
  PROVE  Times(s) \in Nat \ {0}
<1>1. CASE s > depth
  <2>1. s - depth \in Nat
    BY <1>1
  <2> QED
    BY <1>1, <2>1, PowerNatural DEF Times
<1>2. CASE ~ (s > depth)
  BY <1>2 DEF Times
<1> QED
  BY <1>1, <1>2

(* A dilution to the depth a takes its share of what is there for it, and  *)
(* leaves that of the dilutions to come.                                   *)
LEMMA Diluted ==
  ASSUME depth \in Nat, balance \in Nat, NEW a \in Nat, a > depth,
         depth' = a, balance' = balance \div PowerOfTwo[a - depth],
         NEW amount \in Nat, balance >= amount * Times(a)
  PROVE  /\ balance' >= amount
         /\ \A s \in Nat : balance >= amount * Times(s) => balance' >= amount * Times(s)'
<1> DEFINE p == PowerOfTwo[a - depth]
<1>1. a - depth \in Nat
  OBVIOUS
<1>2. p \in Nat \ {0}
  BY <1>1, PowerNatural
<1>3. Times(a) = p
  BY DEF Times
<1>4. ASSUME NEW q \in Nat, balance >= q * p PROVE balance' >= q
  <2> HIDE DEF p
  <2>1. balance' = balance \div p
    BY DEF p
  <2> QED
    BY <1>2, <1>4, <2>1, Quotient, ZenonT(30)
<1>5. balance' >= amount
  BY <1>3, <1>4
<1>6. ASSUME NEW s \in Nat, balance >= amount * Times(s) PROVE balance' >= amount * Times(s)'
  <2>1. CASE s > a
    <3> DEFINE t == PowerOfTwo[s - a]
    <3>1. s - a \in Nat /\ (a - depth) + (s - a) = s - depth /\ s > depth
      BY <2>1
    <3>2. t \in Nat \ {0} /\ Times(s)' = t
      BY <2>1, <3>1, PowerNatural DEF Times
    <3>3. Times(s) = p * t
      BY <1>1, <3>1, PowerSum DEF Times
    <3> HIDE DEF p, t
    <3> DEFINE q == amount * t
    <3>4. q \in Nat /\ amount * (p * t) = q * p
      BY <1>2, <3>2
    <3>5. balance >= q * p
      BY <1>6, <3>3, <3>4
    <3> QED
      BY <1>4, <3>2, <3>4, <3>5
  <2>2. CASE ~ (s > a)
    <3>1. Times(s)' = 1
      BY <2>2 DEF Times
    <3> QED
      BY <1>5, <3>1
  <2> QED
    BY <2>1, <2>2
<1> QED
  BY <1>5, <1>6

(* What a call asks for, at least, comes with its top-up: its blocks on    *)
(* top of those the batch had, times the dilution that follows.            *)
LEMMA Worth ==
  ASSUME NEW n \in Nat, NEW b \in Nat, NEW d \in Nat, NEW y \in Nat, NEW m \in Nat \ {0},
         NEW e \in Nat, b <= n, NEW x \in Nat, x >= b * y
  PROVE  x + ((n * y + 1 + d * y + e) * m - (n * y + 1)) >= (b + d) * y * m
<1>1. PICK k \in Nat : n = b + k
  <2>1. n - b \in Nat /\ n = b + (n - b)
    OBVIOUS
  <2> QED
    BY <2>1
<1> DEFINE by == b * y
           ky == k * y
           dy == d * y
<1>2. by \in Nat /\ ky \in Nat /\ dy \in Nat
  OBVIOUS
<1>3. n * y = by + ky /\ (b + d) * y = by + dy
  BY <1>1
<1> HIDE DEF by, ky, dy
<1>4. (by + ky + 1 + dy + e) * m = (by + dy) * m + ky * m + m + e * m
  BY <1>2
<1>5. ky * m >= ky /\ e * m >= 0 /\ ky * m \in Nat /\ e * m \in Nat /\ (by + dy) * m \in Nat
  BY <1>2
<1>6. x >= by
  BY DEF by
<1>7. x + ((by + dy) * m + ky * m + m + e * m - (by + ky + 1)) >= (by + dy) * m
  <2> DEFINE l == (by + dy) * m
             u == ky * m
             w == e * m
  <2>1. l \in Nat /\ u \in Nat /\ w \in Nat /\ u >= ky
    BY <1>5
  <2> HIDE DEF l, u, w
  <2>2. x + (l + u + m + w - (by + ky + 1)) >= l
    BY <1>2, <1>6, <2>1
  <2> QED
    BY <2>2 DEF l, u, w
<1> QED
  BY <1>3, <1>4, <1>7

LEMMA MultiplierCovers ==
  ASSUME depth \in Nat, NEW k \in Call, k.depth <= depth
  PROVE  /\ Multiplier(k) \in Nat \ {0}
         /\ Times(k.size) \in Nat \ {0}
         /\ Times(k.size) <= Multiplier(k)
<1>1. k.size \in Nat /\ k.depth \in Nat
  BY DEF Call
<1>2. Times(k.size) \in Nat \ {0}
  BY <1>1, TimesNatural
<1>3. CASE k.size > k.depth
  <2>1. k.size - k.depth \in Nat /\ Multiplier(k) = PowerOfTwo[k.size - k.depth]
    BY <1>1, <1>3 DEF Multiplier
  <2>2. Multiplier(k) \in Nat \ {0}
    BY <2>1, PowerNatural
  <2>3. CASE k.size > depth
    <3>1. k.size - depth \in Nat /\ k.size - depth <= k.size - k.depth
      BY <1>1, <2>3
    <3>2. Times(k.size) = PowerOfTwo[k.size - depth]
      BY <2>3 DEF Times
    <3> QED
      BY <1>2, <2>1, <2>2, <3>1, <3>2, PowerGrows
  <2>4. CASE ~ (k.size > depth)
    BY <1>2, <2>2, <2>4 DEF Times
  <2> QED
    BY <2>3, <2>4
<1>4. CASE ~ (k.size > k.depth)
  BY <1>1, <1>2, <1>4 DEF Multiplier, Times
<1> QED
  BY <1>3, <1>4

LEMMA TopUpWorth ==
  ASSUME balance \in Nat, price \in Nat \ {0}, NEW k \in Call,
         k.kind \in {"extend", "size"}, k.price = price, Multiplier(k) \in Nat \ {0},
         NEW b \in Nat, b <= k.ttl \div BlockTime, b * price <= balance
  PROVE  /\ More(k) \in Nat
         /\ balance + TopUp(k) >= (b + More(k)) * price * Multiplier(k)
<1> DEFINE n == k.ttl \div BlockTime
           d == k.duration \div BlockTime
           m == Multiplier(k)
           cur == n * price + 1
<1>1. BlockTime \in Nat \ {0}
  BY ConstantsAssumption DEF ConstantsAssumption
<1>2. n \in Nat /\ d \in Nat /\ k.duration \in Nat
  BY <1>1, Quotient DEF Call
<1>3. k.duration = 0 => d = 0
  <2>1. ASSUME k.duration = 0 PROVE d = 0
    BY <1>1, <2>1
  <2> QED
    BY <2>1
<1>4. CurrentAmount(k) = cur
  BY DEF CurrentAmount, AmountForDuration
<1>5. AmountForDuration(k.duration, k.price, BlockTime) = d * price + 1
  BY DEF AmountForDuration
<1>6. CASE k.kind = "extend" /\ k.duration = 0
  <2>1. TopUp(k) = cur * m - cur /\ More(k) = 0
    BY <1>3, <1>4, <1>6 DEF TopUp, AmountDelta, More
  <2>2. balance + ((n * price + 1 + 0 * price + 0) * m - (n * price + 1)) >= (b + 0) * price * m
    <3> HIDE DEF n, m
    <3> QED
      BY <1>2, Worth DEF n, m
  <2>3. n * price + 1 + 0 * price + 0 = cur
    <3> HIDE DEF n
    <3> QED
      BY <1>2
  <2> QED
    BY <2>1, <2>2, <2>3
<1>7. CASE k.kind = "extend" /\ k.duration # 0
  <2>1. TopUp(k) = (cur + (d * price + 1)) * m - cur /\ More(k) = d
    BY <1>4, <1>5, <1>7 DEF TopUp, AmountDelta, More
  <2>2. balance + ((n * price + 1 + d * price + 1) * m - (n * price + 1)) >= (b + d) * price * m
    <3> HIDE DEF n, m, d
    <3> QED
      BY <1>2, Worth DEF n, m
  <2>3. n * price + 1 + d * price + 1 = cur + (d * price + 1)
    <3> HIDE DEF n, d
    <3> QED
      BY <1>2
  <2> QED
    BY <1>2, <2>1, <2>2, <2>3
<1>8. CASE k.kind = "size"
  <2>1. TopUp(k) = cur * (m - 1) + 1 /\ More(k) = 0
    BY <1>4, <1>8 DEF TopUp, More
  <2>2. balance + ((n * price + 1 + 0 * price + 0) * m - (n * price + 1)) >= (b + 0) * price * m
    <3> HIDE DEF n, m
    <3> QED
      BY <1>2, Worth DEF n, m
  <2>3. n * price + 1 + 0 * price + 0 = cur /\ cur \in Nat
    <3> HIDE DEF n
    <3> QED
      BY <1>2
  <2>4. cur * (m - 1) = cur * m - cur /\ cur * m \in Nat /\ (b + 0) * price * m \in Nat
    <3> HIDE DEF cur, m
    <3> QED
      BY <2>3 DEF m
  <2> HIDE DEF cur, m
  <2>5. balance + (cur * m - cur) >= (b + 0) * price * m
    BY <2>2, <2>3 DEF cur, m
  <2>6. balance + TopUp(k) >= (b + 0) * price * m
    BY <2>1, <2>3, <2>4, <2>5
  <2> QED
    BY <2>1, <2>6 DEF m
<1> QED
  BY <1>6, <1>7, <1>8

(* The same for the dilution that is left to do when the top-up is served. *)
LEMMA TopUpCovers ==
  ASSUME balance \in Nat, depth \in Nat, price \in Nat \ {0}, NEW k \in Call,
         k.kind \in {"extend", "size"}, k.price = price, k.depth <= depth,
         NEW b \in Nat, b <= k.ttl \div BlockTime, b * price <= balance
  PROVE  balance + TopUp(k) >= (b + More(k)) * price * Times(k.size)
<1> DEFINE m == Multiplier(k)
           t == Times(k.size)
           d == More(k)
<1>1. m \in Nat \ {0} /\ t \in Nat \ {0} /\ t <= m
  BY MultiplierCovers
<1>2. d \in Nat /\ balance + TopUp(k) >= (b + d) * price * m
  BY <1>1, TopUpWorth
<1>3. TopUp(k) \in Nat
  BY ConstantsAssumption, TopUpType
<1> HIDE DEF m, t, d
<1> DEFINE z == (b + d) * price
<1>4. z \in Nat
  BY <1>2
<1>5. balance + TopUp(k) >= z * m
  BY <1>2
<1> HIDE DEF z
<1>6. z * t <= z * m /\ z * m \in Nat /\ z * t \in Nat
  BY <1>1, <1>4, ProductGrows
<1>7. balance + TopUp(k) >= z * t
  BY <1>3, <1>5, <1>6
<1> QED
  BY <1>7 DEF z, t, d

(* ExtendStorage has nothing to do only if it is asked for no time.        *)
LEMMA NothingAsked ==
  ASSUME NEW k \in Call, k.kind = "extend", TopUp(k) = 0
  PROVE  More(k) = 0
<1>1. BlockTime \in Nat \ {0}
  BY ConstantsAssumption DEF ConstantsAssumption
<1>2. CASE k.duration = 0
  BY <1>1, <1>2 DEF More
<1>3. CASE k.duration # 0
  <2> DEFINE n == k.ttl \div BlockTime
             d == k.duration \div BlockTime
             m == Multiplier(k)
             y == k.price
             u == n * y
             w == d * y
  <2>1. n \in Nat /\ d \in Nat /\ y \in Nat
    BY <1>1, Quotient DEF Call
  <2>2. m \in Nat \ {0}
    BY PowerNatural DEF Multiplier, Call
  <2>3. (u + 1 + (w + 1)) * m - (u + 1) = 0
    BY <1>3 DEF TopUp, AmountDelta, CurrentAmount, AmountForDuration
  <2> HIDE DEF n, d, m, y
  <2>4. u \in Nat /\ w \in Nat
    BY <2>1
  <2> HIDE DEF u, w
  <2> DEFINE z == u + 1 + (w + 1)
  <2>5. z \in Nat /\ z > u + 1
    BY <2>4
  <2> HIDE DEF z
  <2>6. z * m >= z /\ z * m \in Nat
    BY <2>2, <2>5
  <2>7. z * m - (u + 1) = 0
    BY <2>3 DEF z
  <2> QED
    BY <2>4, <2>5, <2>6, <2>7
<1> QED
  BY <1>2, <1>3

-----------------------------------------------------------------------------
(* The steps of a caller leave the batch and the chain alone.              *)

Frame(c) ==
  /\ UNCHANGED <<depth, balance, price, baseline, funded>>
  /\ disturbed \subseteq disturbed'
  /\ \A d \in Callers : d # c => pc'[d] = pc[d] /\ call'[d] = call[d]
  /\ Paid(c)' => Paid(c) /\ call'[c] = call[c]
  /\ c \in Read' =>
       \/ /\ c \in Read /\ ~ Paid(c)
          /\ call'[c].depth = call[c].depth /\ call'[c].ttl = call[c].ttl
       \/ call'[c].depth = depth /\ call'[c].ttl = Ttl
  /\ pc'[c] \in {"decide", "toppingUp"} =>
       \/ call'[c].price = price
       \/ pc[c] \in {"decide", "toppingUp"} /\ call'[c].price = call[c].price
  /\ \A r \in requests' : r.op = "dilute" =>
       \/ r \in requests
       \/ Paid(c) /\ r.argument = call[c].size

LEMMA FrameLasts ==
  ASSUME NEW c \in Callers, Frame(c), NEW amount, Lasts(amount)
  PROVE  /\ balance' >= amount
         /\ \A r \in requests' : r.op = "dilute" => balance' >= amount * Times(r.argument)'
         /\ \A d \in Callers : Paid(d)' => balance' >= amount * Times(call[d].size)'
<1>1. balance' = balance /\ \A s : Times(s)' = Times(s)
  BY DEF Frame, Times
<1>2. \A d \in Callers : Paid(d)' => Paid(d) /\ call'[d] = call[d]
  <2>1. \A d \in Callers : d # c => (Paid(d)' <=> Paid(d)) /\ call'[d] = call[d]
    BY DEF Frame, Paid
  <2> QED
    BY <2>1 DEF Frame
<1>3. balance' >= amount
  BY <1>1 DEF Lasts
<1>4. ASSUME NEW r \in requests', r.op = "dilute" PROVE balance' >= amount * Times(r.argument)'
  <2>1. r \in requests \/ (Paid(c) /\ r.argument = call[c].size)
    BY <1>4 DEF Frame
  <2>2. balance >= amount * Times(r.argument)
    BY <1>4, <2>1 DEF Lasts
  <2> QED
    BY <1>1, <2>2
<1>5. ASSUME NEW d \in Callers, Paid(d)' PROVE balance' >= amount * Times(call[d].size)'
  <2>1. Paid(d) /\ call'[d] = call[d]
    BY <1>2, <1>5
  <2>2. balance >= amount * Times(call[d].size)
    BY <2>1 DEF Lasts
  <2> QED
    BY <1>1, <2>1, <2>2
<1> QED
  BY <1>3, <1>4, <1>5

(* The remaining time in blocks.                                           *)
LEMMA TtlBlocks ==
  ASSUME TypeOK
  PROVE  /\ price \in Nat \ {0} /\ Ttl \div BlockTime = balance \div price
         /\ Left \in Nat /\ balance \div price \in Nat
         /\ \A q \in Nat : balance >= q * price => q <= balance \div price
         /\ Left * price <= baseline /\ (balance \div price) * price <= balance
<1>1. price \in Nat \ {0} /\ BlockTime \in Nat \ {0} /\ balance \in Nat /\ baseline \in Nat
  BY ConstantsAssumption DEF ConstantsAssumption, TypeOK
<1>2. balance \div price \in Nat /\ Left \in Nat
  BY <1>1, Quotient DEF Left
<1>3. Ttl \div BlockTime = balance \div price
  <2> DEFINE n == balance \div price
  <2>1. n \in Nat
    BY <1>2
  <2> HIDE DEF n
  <2>2. (n * BlockTime) \div BlockTime = n
    BY <1>1, <2>1, Quotient
  <2> QED
    BY <2>2 DEF n, Ttl
<1> QED
  BY <1>1, <1>2, <1>3, Quotient DEF Left

LEMMA FrameUnextended ==
  ASSUME Known, Unextended, NEW c \in Callers, Frame(c)
  PROVE  Unextended'
<1>1. Left' = Left /\ price' = price /\ depth' = depth
  BY DEF Frame, Left
<1>2. Lasts(Left * price)'
  <2> DEFINE a == Left * price
  <2>1. Lasts(a) /\ a = Left' * price'
    BY <1>1 DEF Unextended
  <2> HIDE DEF a
  <2>2. /\ balance' >= a
        /\ \A r \in requests' : r.op = "dilute" => balance' >= a * Times(r.argument)'
        /\ \A d \in Callers : Paid(d)' => balance' >= a * Times(call[d].size)'
    BY <2>1, FrameLasts
  <2> QED
    BY <2>1, <2>2 DEF Lasts
<1>3. Ttl \div BlockTime >= Left
  BY TtlBlocks DEF Known, Unextended, Lasts
<1>4. depth \in Nat
  BY DEF Known, TypeOK
<1>5. ASSUME NEW d \in Read' PROVE call'[d].depth <= depth' /\ call'[d].ttl \div BlockTime >= Left'
  <2>1. CASE d = c
    BY <1>1, <1>3, <1>4, <1>5, <2>1 DEF Frame, Unextended
  <2>2. CASE d # c
    <3>1. d \in Read /\ call'[d] = call[d]
      BY <1>5, <2>2 DEF Frame, Read
    <3> QED
      BY <1>1, <3>1 DEF Unextended
  <2> QED
    BY <2>1, <2>2
<1>6. ASSUME NEW d \in Callers, pc'[d] \in {"decide", "toppingUp"} PROVE call'[d].price = price'
  BY <1>1, <1>6 DEF Frame, Unextended
<1> QED
  BY <1>2, <1>5, <1>6 DEF Unextended

(* The caller that moves is, or becomes, the only one.                     *)
Alone(c) ==
  /\ \A d \in Callers : d # c => pc[d] = "idle"
  /\ \A r \in requests' : r.id = call'[c].id

LEMMA FrameExtended ==
  ASSUME Known, Extended, NEW c \in Callers, Frame(c), Promise' = Promise, Promise \in Nat,
         pc[c] # "idle" \/ pc'[c] # "idle", pc'[c] # "idle" => Alone(c)
  PROVE  Extended'
<1>1. Left' = Left /\ price' = price /\ depth' = depth /\ balance' = balance
  BY DEF Frame, Left
<1>2. Lasts((Left + Promise) * price)'
  <2> DEFINE a == (Left + Promise) * price
  <2>1. Lasts(a) /\ a = (Left' + Promise') * price'
    BY <1>1 DEF Extended
  <2> HIDE DEF a
  <2>2. /\ balance' >= a
        /\ \A r \in requests' : r.op = "dilute" => balance' >= a * Times(r.argument)'
        /\ \A d \in Callers : Paid(d)' => balance' >= a * Times(call[d].size)'
    BY <2>1, FrameLasts
  <2> QED
    BY <2>1, <2>2 DEF Lasts
<1>3. \A d \in Callers : Paid(d)' => Paid(d) /\ call'[d] = call[d]
  <2>1. \A d \in Callers : d # c => (Paid(d)' <=> Paid(d)) /\ call'[d] = call[d]
    BY DEF Frame, Paid
  <2> QED
    BY <2>1 DEF Frame
<1>4. \A d \in Callers :
        (Paid(d) => balance >= (Left + Promise + More(call[d])) * price * Times(call[d].size))'
  <2>1. \A s : Times(s)' = Times(s)
    BY <1>1 DEF Times
  <2> SUFFICES ASSUME NEW d \in Callers, Paid(d)'
               PROVE  balance' >= (Left' + Promise' + More(call'[d])) * price' * Times(call[d].size)'
    BY DEF More
  <2>2. Paid(d) /\ call'[d] = call[d]
    BY <1>3
  <2>3. balance >= (Left + Promise + More(call[d])) * price * Times(call[d].size)
    BY <2>2 DEF Extended
  <2> QED
    BY <1>1, <2>1, <2>2, <2>3
<1>5. \A d, f \in Busied' : d = f
  <2>1. \A d \in Callers : d # c => pc'[d] = pc[d]
    BY DEF Frame
  <2>2. CASE pc'[c] = "idle"
    <3>1. Busied' \subseteq Busied
      BY <2>1, <2>2 DEF Busied
    <3> QED
      BY <3>1 DEF Extended
  <2>3. CASE pc'[c] # "idle"
    BY <2>1, <2>3 DEF Alone, Busied
  <2> QED
    BY <2>2, <2>3
<1>6. \A d \in Read' : ~ Paid(d)' => call'[d].ttl \div BlockTime >= balance' \div price'
  <2> SUFFICES ASSUME NEW d \in Read', ~ Paid(d)'
               PROVE  call'[d].ttl \div BlockTime >= balance \div price
    BY <1>1
  <2>1. balance \div price \in Nat /\ Ttl \div BlockTime = balance \div price
    BY TtlBlocks DEF Known
  <2>2. CASE d = c
    BY <2>1, <2>2 DEF Frame, Extended
  <2>3. CASE d # c
    <3>1. d \in Read /\ ~ Paid(d) /\ call'[d] = call[d]
      BY <2>3 DEF Frame, Read, Paid
    <3> QED
      BY <3>1 DEF Extended
  <2> QED
    BY <2>2, <2>3
<1>7. \A d \in Busied', r \in requests' : r.id = call'[d].id
  <2> SUFFICES ASSUME NEW d \in Busied', NEW r \in requests' PROVE r.id = call'[d].id
    OBVIOUS
  <2>1. d # c => d \in Busied
    BY DEF Frame, Busied
  <2>2. CASE pc'[c] = "idle"
    <3>1. d # c /\ c \in Busied
      BY <2>2 DEF Busied
    <3> QED
      BY <2>1, <3>1 DEF Extended
  <2>3. CASE pc'[c] # "idle"
    BY <2>1, <2>3 DEF Alone, Busied
  <2> QED
    BY <2>2, <2>3
<1> QED
  BY <1>2, <1>4, <1>5, <1>6, <1>7 DEF Extended

LEMMA PromiseNatural ==
  ASSUME TypeOK
  PROVE  Promise \in Nat
BY DEF TypeOK, Promise

(* A call that succeeds has paid for what it promises.                     *)
LEMMA SuccessExtended ==
  ASSUME Known, Extended, NEW c \in Callers, Paid(c), Frame(c), requests' = requests,
         pc'[c] = "idle", Promise' = Promise + More(call[c]), More(call[c]) \in Nat
  PROVE  Extended'
<1>1. Left' = Left /\ price' = price /\ depth' = depth /\ balance' = balance
  BY DEF Frame, Left
<1>2. c \in Busied /\ call[c] \in Call
  BY DEF Paid, Busied, Known, Owned
<1>3. Busied' = {}
  BY <1>2 DEF Extended, Busied, Frame
<1>4. /\ price \in Nat \ {0} /\ Left \in Nat /\ Promise \in Nat
      /\ depth \in Nat /\ balance \in Nat /\ call[c].size \in Nat
  BY <1>2, TtlBlocks, PromiseNatural DEF Known, TypeOK, Call
<1> DEFINE z == (Left + Promise + More(call[c])) * price
           t == Times(call[c].size)
<1>5. z = (Left' + Promise') * price'
  BY <1>1, <1>4
<1>6. balance >= z * t
  BY DEF Extended
<1>7. z \in Nat /\ t \in Nat \ {0}
  BY <1>4, TimesNatural
<1>8. \A s : Times(s)' = Times(s)
  BY <1>1 DEF Times
<1>9. ASSUME NEW r \in requests, r.op = "dilute" PROVE r.argument = call[c].size
  <2>1. r.id = call[c].id
    BY <1>2 DEF Extended
  <2> QED
    BY <1>2, <1>9, <2>1 DEF Known, Owned
<1>10. \A d \in Callers : ~ Paid(d)'
  BY <1>3 DEF Paid, Busied
<1> HIDE DEF z, t
<1>11. balance >= z
  BY <1>4, <1>6, <1>7
<1>12. Lasts((Left + Promise) * price)'
  <2>1. \A r \in requests' : r.op = "dilute" => balance' >= z * Times(r.argument)'
    BY <1>1, <1>6, <1>8, <1>9 DEF t
  <2> QED
    BY <1>1, <1>5, <1>10, <1>11, <2>1 DEF Lasts
<1>13. Read' \subseteq Busied'
  BY DEF Read, Busied
<1> QED
  BY <1>3, <1>10, <1>12, <1>13 DEF Extended

-----------------------------------------------------------------------------
(* The steps of the callers.                                               *)

LEMMA TopUpFrame ==
  ASSUME Known, NEW c \in Callers, TopUpBatch(c)
  PROVE  /\ TypeOK' /\ Owned' /\ Frame(c) /\ Promise' = Promise /\ disturbed' = disturbed
         /\ c \in Busied
         /\ \A r \in requests' : r \in requests \/ r.id = call'[c].id
         /\ call' = call
<1>1. /\ pc[c] = "decide" /\ pc' = [pc EXCEPT ![c] = "toppingUp"]
      /\ Sends(c, "topUp", TopUp(call[c]))
  BY DEF TopUpBatch, Moves
<1>2. TopUp(call[c]) \in Nat
  BY <1>1, ConstantsAssumption, Priced DEF Known
<1>3. /\ TypeOK' /\ Owned'
      /\ pc'[c] = "toppingUp"
      /\ \A d \in Callers : d # c => pc'[d] = pc[d]
      /\ \E r : requests' = requests \cup {r} /\ r.id = call[c].id /\ r.op = "topUp"
  <2> DEFINE n == TopUp(call[c])
  <2>1. n \in Nat /\ Sends(c, "topUp", n) /\ n = TopUp(call[c])
    BY <1>1, <1>2
  <2> HIDE DEF n
  <2>2. /\ TypeOK' /\ Owned'
        /\ pc'[c] = "toppingUp"
        /\ \A d \in Callers : d # c => pc'[d] = pc[d]
        /\ \E r : requests' = requests \cup {r} /\ r.id = call[c].id /\ r.op = "topUp"
                    /\ r.argument = n
    BY <1>1, <2>1, SendKnown, ZenonT(30)
  <2> QED
    BY <2>2
<1>4. UNCHANGED <<batch, chain, calls, call, answers, history, disturbed>>
  BY <1>1 DEF Sends
<1>5. c \in Busied /\ call[c].id \notin funded
  BY <1>1, Unsent DEF Busied, Known
<1>6. ~ Paid(c) /\ ~ Paid(c)'
  BY <1>1, <1>3, <1>4, <1>5 DEF Paid, history
<1>7. c \in Read' => c \in Read
  BY <1>1, <1>4 DEF Read
<1>8. Frame(c)
  BY <1>1, <1>3, <1>4, <1>6, <1>7 DEF Frame, batch, chain, history
<1> QED
  BY <1>3, <1>4, <1>5, <1>8 DEF history, Promise

LEMMA DiluteFrame ==
  ASSUME Known, NEW c \in Callers, DiluteBatch(c)
  PROVE  /\ TypeOK' /\ Owned' /\ Frame(c) /\ Promise' = Promise /\ disturbed' = disturbed
         /\ c \in Busied
         /\ \A r \in requests' : r \in requests \/ r.id = call'[c].id
         /\ call' = call
<1>1. /\ pc[c] = "toppingUp" /\ pc' = [pc EXCEPT ![c] = "diluting"]
      /\ Sends(c, "dilute", call[c].size)
      /\ Answered(c, "topUp", TRUE)
  BY DEF DiluteBatch, Moves
<1>2. c \in Busied /\ call[c].size \in Nat
  BY <1>1 DEF Busied, Known, Owned, Call
<1>3. /\ TypeOK' /\ Owned'
      /\ pc'[c] = "diluting"
      /\ \A d \in Callers : d # c => pc'[d] = pc[d]
      /\ \E r : requests' = requests \cup {r} /\ r.id = call[c].id /\ r.op = "dilute"
                  /\ r.argument = call[c].size
  BY <1>1, <1>2, SendKnown, ZenonT(30)
<1>4. UNCHANGED <<batch, chain, calls, call, answers, history, disturbed>>
  BY <1>1 DEF Sends
<1>5. call[c].id \in funded
  <2> DEFINE a == [id |-> call[c].id, op |-> "topUp", ok |-> TRUE]
  <2>1. a \in answers /\ a.op = "topUp" /\ a.ok = TRUE /\ a.id = call[c].id
    BY <1>1 DEF Answered
  <2> HIDE DEF a
  <2> QED
    BY <2>1 DEF Known, FundedInv, AnswersTrue
<1>6. Paid(c)
  BY <1>1, <1>5 DEF Paid
<1>7. c \notin Read' /\ pc'[c] \notin {"decide", "toppingUp"}
  BY <1>3 DEF Read
<1>8. Frame(c)
  BY <1>3, <1>4, <1>6, <1>7 DEF Frame, batch, chain, history
<1> QED
  BY <1>2, <1>3, <1>4, <1>8 DEF history, Promise

LEMMA EndFrame ==
  ASSUME Known, NEW c \in Callers,
         pc' = [pc EXCEPT ![c] = "idle"], call' = [call EXCEPT ![c] = Idle],
         promised' \in [Kinds -> Nat],
         UNCHANGED <<batch, chain, calls, requests, answers, funded, unfunded, disturbed>>
  PROVE  TypeOK' /\ Owned' /\ Frame(c) /\ pc'[c] = "idle" /\ requests' = requests
<1>1. /\ TypeOK' /\ Owned'
      /\ pc'[c] = "idle"
      /\ \A d \in Callers : d # c => pc'[d] = pc[d] /\ call'[d] = call[d]
  BY EndKnown
<1>2. c \notin Read' /\ ~ Paid(c)' /\ pc'[c] \notin {"decide", "toppingUp"}
  BY <1>1 DEF Read, Paid
<1>3. Frame(c)
  BY <1>1, <1>2 DEF Frame, batch, chain
<1> QED
  BY <1>1, <1>3

LEMMA BatchFrame ==
  ASSUME Known, NEW c \in Callers, GetPostageBatch(c)
  PROVE  /\ TypeOK' /\ Owned' /\ Frame(c) /\ Promise' = Promise /\ disturbed' = disturbed
         /\ c \in Busied /\ call'[c].id = call[c].id /\ requests' = requests
<1>1. /\ pc[c] = "readBatch" /\ pc' = [pc EXCEPT ![c] = "readPrice"]
      /\ UNCHANGED <<batch, chain, calls, requests, answers, history, disturbed>>
  BY DEF GetPostageBatch, Moves
<1>2. PICK k \in Call :
        /\ call' = [call EXCEPT ![c] = k]
        /\ k.id = call[c].id /\ k.kind = call[c].kind /\ k.size = call[c].size
        /\ k.depth = depth /\ k.ttl = Ttl
  BY BatchRead
<1>3. TypeOK' /\ Owned'
  BY <1>1, <1>2, ReadKnown
<1>4. /\ pc'[c] = "readPrice"
      /\ \A d \in Callers : d # c => pc'[d] = pc[d]
  BY <1>1, OneMoves DEF Known, Stages
<1>5. call'[c] = k /\ \A d \in Callers : d # c => call'[d] = call[d]
  BY <1>2 DEF Known, TypeOK
<1>6. c \in Busied /\ ~ Paid(c)'
  BY <1>1, <1>4 DEF Busied, Paid
<1>7. Frame(c)
  BY <1>1, <1>2, <1>4, <1>5, <1>6 DEF Frame, batch, chain, history
<1> QED
  BY <1>1, <1>2, <1>3, <1>5, <1>6, <1>7 DEF history, Promise

LEMMA PriceFrame ==
  ASSUME Known, NEW c \in Callers, ChainPrice(c)
  PROVE  /\ TypeOK' /\ Owned' /\ Frame(c) /\ Promise' = Promise /\ disturbed' = disturbed
         /\ c \in Busied /\ call'[c].id = call[c].id /\ requests' = requests
<1>1. /\ pc[c] = "readPrice" /\ pc' = [pc EXCEPT ![c] = "decide"]
      /\ UNCHANGED <<batch, chain, calls, requests, answers, history, disturbed>>
  BY DEF ChainPrice, Moves
<1>2. PICK k \in Call :
        /\ call' = [call EXCEPT ![c] = k]
        /\ k.id = call[c].id /\ k.kind = call[c].kind /\ k.size = call[c].size
        /\ k.depth = call[c].depth /\ k.ttl = call[c].ttl /\ k.price = price
  BY PriceRead
<1>3. TypeOK' /\ Owned'
  <2>1. price \in Prices
    BY DEF Known, TypeOK
  <2> QED
    BY <1>1, <1>2, <2>1, ReadKnown
<1>4. /\ pc'[c] = "decide"
      /\ \A d \in Callers : d # c => pc'[d] = pc[d]
  BY <1>1, OneMoves DEF Known, Stages
<1>5. call'[c] = k /\ \A d \in Callers : d # c => call'[d] = call[d]
  BY <1>2 DEF Known, TypeOK
<1>6. c \in Busied /\ ~ Paid(c) /\ ~ Paid(c)' /\ (c \in Read' => c \in Read)
  BY <1>1, <1>2, <1>4, <1>5 DEF Busied, Paid, Read
<1>7. Frame(c)
  BY <1>1, <1>2, <1>4, <1>5, <1>6 DEF Frame, batch, chain, history
<1> QED
  BY <1>1, <1>2, <1>3, <1>5, <1>6, <1>7 DEF history, Promise

LEMMA StartFrame ==
  ASSUME Known, NEW c \in Callers, NEW kind \in Kinds, NEW size \in Nat, NEW duration \in Nat,
         Starts(c, kind, size, duration), kind = "duration" => size = 0
  PROVE  /\ TypeOK' /\ Owned' /\ Frame(c) /\ Promise' = Promise
         /\ pc'[c] # "idle"
         /\ IF Busy THEN "overlap" \in disturbed' ELSE Alone(c)
<1>1. /\ TypeOK' /\ Owned'
      /\ pc[c] = "idle" /\ pc'[c] \in {"readBatch", "readPrice"}
      /\ \A d \in Callers : d # c => pc'[d] = pc[d] /\ call'[d] = call[d]
      /\ call'[c].id = calls + 1 /\ call'[c].kind = kind
      /\ pc'[c] = "readPrice" => kind = "duration"
  BY StartKnown
<1>2. /\ disturbed' = IF Busy THEN disturbed \cup {"overlap"} ELSE disturbed
      /\ UNCHANGED <<batch, chain, requests, answers, history>>
  BY DEF Starts
<1>3. ~ Paid(c)' /\ c \notin Read' /\ pc'[c] \notin {"decide", "toppingUp"}
  BY <1>1 DEF Paid, Read
<1>4. Frame(c)
  BY <1>1, <1>2, <1>3 DEF Frame, batch, chain, history
<1>5. ~ Busy => Alone(c)
  BY <1>2 DEF Busy, Alone
<1> QED
  BY <1>1, <1>2, <1>4, <1>5 DEF history, Promise

(* A caller's step to which Extended owes nothing new.                     *)
LEMMA FrameBalance ==
  ASSUME BalanceInv, NEW c \in Callers, Frame(c), Promise' = Promise,
         pc[c] # "idle" \/ pc'[c] # "idle",
         disturbed' = {} => (pc'[c] # "idle" => Alone(c))
  PROVE  /\ "price" \notin disturbed' => Unextended'
         /\ disturbed' = {} => Extended'
<1>1. Known /\ Promise \in Nat
  BY PromiseNatural DEF BalanceInv, Known
<1>2. disturbed \subseteq disturbed'
  BY DEF Frame
<1>3. ASSUME "price" \notin disturbed' PROVE Unextended'
  BY <1>1, <1>2, <1>3, FrameUnextended DEF BalanceInv
<1>4. ASSUME disturbed' = {} PROVE Extended'
  <2>1. Extended
    BY <1>2, <1>4 DEF BalanceInv
  <2> QED
    BY <1>1, <1>4, <2>1, FrameExtended
<1> QED
  BY <1>3, <1>4

LEMMA SoleCaller ==
  ASSUME BalanceInv, NEW c \in Callers, c \in Busied, disturbed = {},
         \A r \in requests' : r \in requests \/ r.id = call'[c].id, call'[c].id = call[c].id
  PROVE  Alone(c)
BY DEF BalanceInv, Extended, Alone, Busied

LEMMA StartBalance ==
  ASSUME BalanceInv, NEW c \in Callers,
         ExtendStorage(c) \/ ExtendStorageSize(c) \/ ExtendStorageDuration(c)
  PROVE  /\ TypeOK' /\ Owned'
         /\ "price" \notin disturbed' => Unextended'
         /\ disturbed' = {} => Extended'
<1>1. PICK kind \in Kinds, size \in Nat, duration \in Nat :
        Starts(c, kind, size, duration) /\ (kind = "duration" => size = 0)
  BY ConstantsAssumption DEF ExtendStorage, ExtendStorageSize, ExtendStorageDuration,
     ConstantsAssumption
<1>2. /\ TypeOK' /\ Owned' /\ Frame(c) /\ Promise' = Promise
      /\ pc'[c] # "idle"
      /\ IF Busy THEN "overlap" \in disturbed' ELSE Alone(c)
  BY <1>1, StartFrame DEF BalanceInv
<1> QED
  BY <1>2, FrameBalance

LEMMA WorkBalance ==
  ASSUME BalanceInv, NEW c \in Callers,
         GetPostageBatch(c) \/ ChainPrice(c) \/ TopUpBatch(c) \/ DiluteBatch(c)
  PROVE  /\ TypeOK' /\ Owned'
         /\ "price" \notin disturbed' => Unextended'
         /\ disturbed' = {} => Extended'
<1>1. /\ TypeOK' /\ Owned' /\ Frame(c) /\ Promise' = Promise /\ disturbed' = disturbed
      /\ c \in Busied
      /\ \A r \in requests' : r \in requests \/ r.id = call'[c].id
      /\ call'[c].id = call[c].id
  BY BatchFrame, PriceFrame, TopUpFrame, DiluteFrame DEF BalanceInv
<1>2. pc[c] # "idle"
  BY <1>1 DEF Busied
<1>3. disturbed' = {} => Alone(c)
  BY <1>1, SoleCaller
<1> QED
  BY <1>1, <1>2, <1>3, FrameBalance

LEMMA FailBalance ==
  ASSUME BalanceInv, NEW c \in Callers, ReadFails(c) \/ Decline(c) \/ ReturnError(c)
  PROVE  /\ TypeOK' /\ Owned'
         /\ "price" \notin disturbed' => Unextended'
         /\ disturbed' = {} => Extended'
<1>1. /\ pc' = [pc EXCEPT ![c] = "idle"] /\ call' = [call EXCEPT ![c] = Idle]
      /\ promised' = promised
      /\ UNCHANGED <<batch, chain, calls, requests, answers, funded, unfunded, disturbed>>
      /\ pc[c] # "idle"
  BY DEF ReadFails, Decline, ReturnError, Fails
<1>2. promised' \in [Kinds -> Nat] /\ Promise' = Promise
  BY <1>1 DEF BalanceInv, Known, TypeOK, Promise
<1>3. TypeOK' /\ Owned' /\ Frame(c) /\ pc'[c] = "idle"
  BY <1>1, <1>2, EndFrame DEF BalanceInv
<1> QED
  BY <1>1, <1>2, <1>3, FrameBalance

LEMMA SucceedBalance ==
  ASSUME BalanceInv, NEW c \in Callers, NothingToDo(c) \/ Return(c)
  PROVE  /\ TypeOK' /\ Owned'
         /\ "price" \notin disturbed' => Unextended'
         /\ disturbed' = {} => Extended'
<1>1. /\ Succeeds(c) /\ pc[c] # "idle"
      /\ UNCHANGED <<batch, chain, calls, requests, answers, funded, unfunded, disturbed>>
  BY DEF NothingToDo, Return
<1>2. /\ call[c] \in Call
      /\ call[c].duration \div BlockTime \in Nat
      /\ promised' \in [Kinds -> Nat]
      /\ \A k \in Kinds : promised'[k] =
           IF k = call[c].kind THEN promised[k] + call[c].duration \div BlockTime ELSE promised[k]
  BY <1>1, SucceedsPromises DEF BalanceInv
<1>3. /\ pc' = [pc EXCEPT ![c] = "idle"] /\ call' = [call EXCEPT ![c] = Idle]
  BY <1>1 DEF Succeeds
<1>4. TypeOK' /\ Owned' /\ Frame(c) /\ pc'[c] = "idle" /\ requests' = requests
  BY <1>1, <1>2, <1>3, EndFrame DEF BalanceInv
<1>5. More(call[c]) \in Nat /\ Promise' = Promise + More(call[c])
  <2>1. call[c].kind \in Kinds /\ Promise \in Nat
    BY <1>2, PromiseNatural DEF Call, BalanceInv, Known
  <2>2. CASE call[c].kind = "extend"
    BY <1>2, <2>1, <2>2 DEF More, Promise
  <2>3. CASE call[c].kind # "extend"
    <3>1. More(call[c]) = 0
      BY <2>3 DEF More
    <3>2. Promise' = Promise
      BY <1>2, <2>3 DEF Promise
    <3> QED
      BY <2>1, <3>1, <3>2
  <2> QED
    BY <2>2, <2>3
<1>6. CASE NothingToDo(c)
  <2>1. More(call[c]) = 0
    BY <1>2, <1>6, NothingAsked DEF NothingToDo
  <2>2. Promise' = Promise
    BY <1>5, <2>1, PromiseNatural DEF BalanceInv, Known
  <2> QED
    BY <1>1, <1>4, <2>2, FrameBalance
<1>7. CASE Return(c)
  <2>1. Paid(c)
    <3> DEFINE a == [id |-> call[c].id, op |-> "topUp", ok |-> TRUE]
    <3>1. a.op = "topUp" /\ a.ok = TRUE /\ a.id = call[c].id
      OBVIOUS
    <3>2. pc[c] = "diluting" \/ (pc[c] = "toppingUp" /\ a \in answers)
      BY <1>7 DEF Return, Answered
    <3> HIDE DEF a
    <3> QED
      BY <3>1, <3>2 DEF Paid, BalanceInv, Known, FundedInv, AnswersTrue
  <2>2. ASSUME "price" \notin disturbed' PROVE Unextended'
    BY <1>1, <1>4, <2>2, FrameUnextended DEF BalanceInv
  <2>3. ASSUME disturbed' = {} PROVE Extended'
    BY <1>1, <1>4, <1>5, <2>1, <2>3, SuccessExtended DEF BalanceInv
  <2> QED
    BY <1>4, <2>2, <2>3
<1> QED
  BY <1>6, <1>7

-----------------------------------------------------------------------------
(* The steps of the node and the chain.                                    *)

LEMMA TopUpBalance ==
  ASSUME BalanceInv, NEW r \in requests, ServeTopUp(r)
  PROVE  /\ TypeOK' /\ Owned'
         /\ "price" \notin disturbed' => Unextended'
         /\ disturbed' = {} => Extended'
<1>1. /\ TypeOK' /\ Owned'
      /\ UNCHANGED <<depth, chain, callers, promised, disturbed>>
      /\ requests' = requests \ {r}
      /\ funded' = funded \cup {r.id}
      /\ r.op = "topUp" /\ r.argument \in Nat /\ balance' = balance + r.argument
  BY ServeTopUpKnown DEF BalanceInv
<1>2. /\ Left' = Left /\ price' = price /\ pc' = pc /\ call' = call /\ Promise' = Promise
      /\ Read' = Read /\ Busied' = Busied
  BY <1>1 DEF chain, callers, Left, Promise, Read, Busied
<1>3. \A s : Times(s)' = Times(s)
  BY <1>1 DEF Times
<1>4. /\ balance \in Nat /\ depth \in Nat /\ price \in Nat \ {0} /\ Left \in Nat /\ Promise \in Nat
  BY TtlBlocks, PromiseNatural DEF BalanceInv, Known, TypeOK
<1>5. \A d \in Callers : Paid(d) => Paid(d)'
  BY <1>1, <1>2 DEF Paid
(* What is paid for by this top-up.                                        *)
<1>6. \A d \in Callers : Paid(d)' /\ ~ Paid(d) =>
        /\ pc[d] = "toppingUp" /\ d \in Busied /\ call[d].id = r.id /\ r.argument = TopUp(call[d])
        /\ call[d] \in Call
  BY <1>1, <1>2 DEF Paid, Busied, BalanceInv, Known, Owned
<1>7. \A d \in Callers : Paid(d)' => call[d].size \in Nat /\ call[d] \in Call
  BY <1>2 DEF Paid, BalanceInv, Known, Owned, Call
<1>8. ASSUME NEW amount \in Nat, Lasts(amount),
             \A d \in Callers : Paid(d)' /\ ~ Paid(d) => balance' >= amount * Times(call[d].size)
      PROVE  /\ balance' >= amount
             /\ \A q \in requests' : q.op = "dilute" => balance' >= amount * Times(q.argument)
             /\ \A d \in Callers : Paid(d)' => balance' >= amount * Times(call[d].size)
  <2>1. \A x \in Nat : balance >= x => balance' >= x
    BY <1>1, <1>4
  <2>2. \A q \in requests : q.argument \in Nat
    BY DEF BalanceInv, Known, TypeOK
  <2>3. ASSUME NEW s \in Nat PROVE amount * Times(s) \in Nat
    <3>1. Times(s) \in Nat
      BY <1>4, TimesNatural
    <3> QED
      BY <3>1
  <2>4. balance' >= amount
    BY <1>8, <2>1 DEF Lasts
  <2>5. ASSUME NEW q \in requests', q.op = "dilute" PROVE balance' >= amount * Times(q.argument)
    <3>1. q \in requests
      BY <1>1
    <3>2. balance >= amount * Times(q.argument)
      BY <1>8, <2>5, <3>1 DEF Lasts
    <3>3. amount * Times(q.argument) \in Nat
      BY <2>2, <2>3, <3>1
    <3> QED
      BY <2>1, <3>2, <3>3
  <2>6. ASSUME NEW d \in Callers, Paid(d)' PROVE balance' >= amount * Times(call[d].size)
    <3>1. CASE Paid(d)
      <4>1. balance >= amount * Times(call[d].size)
        BY <1>8, <3>1 DEF Lasts
      <4>2. amount * Times(call[d].size) \in Nat
        BY <1>7, <2>3, <2>6
      <4> QED
        BY <2>1, <4>1, <4>2
    <3>2. CASE ~ Paid(d)
      BY <1>8, <2>6, <3>2
    <3> QED
      BY <3>1, <3>2
  <2> QED
    BY <2>4, <2>5, <2>6
<1>9. ASSUME NEW d \in Callers, Paid(d)', ~ Paid(d), call[d].price = price,
             NEW b \in Nat, b * price <= balance,
             call[d].kind # "duration" =>
               call[d].depth <= depth /\ b <= call[d].ttl \div BlockTime
      PROVE  /\ balance' >= (b + More(call[d])) * price * Times(call[d].size)
             /\ balance' >= b * price * Times(call[d].size)
  <2>1. d \in Busied /\ r.argument = TopUp(call[d]) /\ call[d] \in Call
    BY <1>6, <1>9
  <2>2. CASE call[d].kind = "duration"
    <3>1. call[d].size = 0
      BY <2>1, <2>2 DEF BalanceInv, Known, Owned
    <3>2. Times(call[d].size) = 1 /\ More(call[d]) = 0
      BY <1>4, <2>2, <3>1 DEF Times, More
    <3> DEFINE x == b * price
    <3>3. x \in Nat /\ (b + 0) * price * 1 = x /\ x * 1 = x
      BY <1>4
    <3>4. balance' >= x
      <4> HIDE DEF x
      <4>1. x <= balance
        BY <1>9 DEF x
      <4> QED
        BY <1>1, <1>4, <3>3, <4>1
    <3> QED
      BY <3>2, <3>3, <3>4
  <2>3. CASE call[d].kind # "duration"
    <3> DEFINE k == call[d]
               m == More(k)
               t == Times(k.size)
    <3>1. k.kind \in {"extend", "size"}
      BY <2>1, <2>3, ConstantsAssumption DEF Call, ConstantsAssumption
    <3>2. balance + TopUp(k) >= (b + m) * price * t
      BY <1>4, <1>9, <2>1, <2>3, <3>1, TopUpCovers
    <3>3. m \in Nat
      <4>1. BlockTime \in Nat \ {0} /\ k.duration \in Nat
        BY <2>1, ConstantsAssumption DEF Call, ConstantsAssumption
      <4> QED
        BY <4>1, Quotient DEF More
    <3>4. t \in Nat \ {0}
      BY <1>4, <2>1, TimesNatural DEF Call
    <3>5. balance' = balance + TopUp(k)
      BY <1>1, <2>1
    <3>6. balance' \in Nat
      BY <1>1 DEF TypeOK
    <3> HIDE DEF k, m, t
    <3> DEFINE x == b * price
               y == (b + m) * price
    <3>7. x \in Nat /\ y \in Nat /\ x <= y
      <4>1. b <= b + m /\ b + m \in Nat /\ price <= price /\ price \in Nat
        BY <1>4, <3>3
      <4> QED
        BY <4>1, ProductGrows
    <3> HIDE DEF x, y
    <3>8. x * t <= y * t /\ x * t \in Nat /\ y * t \in Nat
      BY <3>4, <3>7, ProductGrows
    <3>9. balance' >= y * t
      BY <3>2, <3>5 DEF y
    <3>10. balance' >= x * t
      BY <3>6, <3>8, <3>9
    <3> QED
      BY <3>9, <3>10 DEF x, y, k, m, t
  <2> QED
    BY <2>2, <2>3
<1>10. ASSUME "price" \notin disturbed' PROVE Unextended'
  <2> DEFINE a == Left * price
  <2>1. Unextended
    BY <1>1, <1>10 DEF BalanceInv
  <2>2. a \in Nat /\ Lasts(a) /\ a <= balance
    BY <1>4, <2>1 DEF Unextended, Lasts
  <2>3. ASSUME NEW d \in Callers, Paid(d)', ~ Paid(d)
        PROVE  balance' >= a * Times(call[d].size)
    <3>1. call[d].price = price
      BY <1>6, <2>1, <2>3 DEF Unextended
    <3>2. call[d].kind # "duration" => call[d].depth <= depth /\ Left <= call[d].ttl \div BlockTime
      <4> SUFFICES ASSUME call[d].kind # "duration"
                   PROVE  call[d].depth <= depth /\ Left <= call[d].ttl \div BlockTime
        OBVIOUS
      <4>1. d \in Read
        BY <1>6, <2>3 DEF Read
      <4>2. call[d].ttl \div BlockTime \in Nat
        BY <1>6, <2>3, Quotient, ConstantsAssumption DEF Call, ConstantsAssumption
      <4> QED
        BY <1>4, <2>1, <4>1, <4>2 DEF Unextended
    <3> QED
      BY <1>4, <1>9, <2>2, <2>3, <3>1, <3>2
  <2> HIDE DEF a
  <2>4. /\ balance' >= a
        /\ \A q \in requests' : q.op = "dilute" => balance' >= a * Times(q.argument)
        /\ \A d \in Callers : Paid(d)' => balance' >= a * Times(call[d].size)
    BY <1>8, <2>2, <2>3
  <2>5. Left' * price' = a
    BY <1>2 DEF a
  <2>6. Lasts(Left * price)'
    BY <1>2, <1>3, <2>4, <2>5 DEF Lasts
  <2> QED
    BY <1>1, <1>2, <2>1, <2>6 DEF Unextended
<1>11. ASSUME disturbed' = {} PROVE Extended'
  <2> DEFINE a == (Left + Promise) * price
  <2>1. Extended /\ Unextended
    BY <1>1, <1>11 DEF BalanceInv
  <2>2. Left + Promise \in Nat /\ a \in Nat /\ Lasts(a) /\ a <= balance
    BY <1>4, <2>1 DEF Extended, Lasts
  <2>3. Left + Promise <= balance \div price
    BY <2>2, TtlBlocks DEF BalanceInv, Known
  <2>4. ASSUME NEW d \in Callers, Paid(d)', ~ Paid(d)
        PROVE  /\ balance' >= (Left + Promise + More(call[d])) * price * Times(call[d].size)
               /\ balance' >= a * Times(call[d].size)
    <3>1. call[d].price = price
      BY <1>6, <2>1, <2>4 DEF Unextended
    <3>2. call[d].kind # "duration" =>
            call[d].depth <= depth /\ Left + Promise <= call[d].ttl \div BlockTime
      <4> SUFFICES ASSUME call[d].kind # "duration"
                   PROVE  /\ call[d].depth <= depth
                          /\ Left + Promise <= call[d].ttl \div BlockTime
        OBVIOUS
      <4>1. d \in Read
        BY <1>6, <2>4 DEF Read
      <4>2. call[d].ttl \div BlockTime \in Nat /\ balance \div price \in Nat
        BY <1>4, <1>6, <2>4, Quotient, ConstantsAssumption DEF Call, ConstantsAssumption
      <4>3. call[d].depth <= depth /\ call[d].ttl \div BlockTime >= balance \div price
        BY <2>1, <2>4, <4>1 DEF Unextended, Extended
      <4> QED
        BY <2>2, <2>3, <4>2, <4>3
    <3> QED
      BY <1>9, <2>2, <2>4, <3>1, <3>2
  <2>5. ASSUME NEW d \in Callers, Paid(d)'
        PROVE  balance' >= (Left + Promise + More(call[d])) * price * Times(call[d].size)
    <3>1. CASE Paid(d)
      <4> DEFINE x == (Left + Promise + More(call[d])) * price * Times(call[d].size)
      <4>1. balance >= x
        BY <2>1, <3>1 DEF Extended
      <4>2. More(call[d]) \in Nat
        <5>1. BlockTime \in Nat \ {0} /\ call[d].duration \in Nat
          BY <1>7, <2>5, ConstantsAssumption DEF Call, ConstantsAssumption
        <5> QED
          BY <5>1, Quotient DEF More
      <4>3. Times(call[d].size) \in Nat
        BY <1>4, <1>7, <2>5, TimesNatural
      <4>4. x \in Nat
        BY <1>4, <4>2, <4>3
      <4> HIDE DEF x
      <4>5. balance' >= x
        BY <1>1, <1>4, <4>1, <4>4
      <4> QED
        BY <4>5 DEF x
    <3>2. CASE ~ Paid(d)
      BY <2>4, <2>5, <3>2
    <3> QED
      BY <3>1, <3>2
  <2> HIDE DEF a
  <2>6. /\ balance' >= a
        /\ \A q \in requests' : q.op = "dilute" => balance' >= a * Times(q.argument)
        /\ \A d \in Callers : Paid(d)' => balance' >= a * Times(call[d].size)
    BY <1>8, <2>2, <2>4
  <2>7. (Left' + Promise') * price' = a
    BY <1>2 DEF a
  <2>8. Lasts((Left + Promise) * price)'
    BY <1>2, <1>3, <2>6, <2>7 DEF Lasts
  <2>9. \A d \in Read' : Paid(d)'
    <3> SUFFICES ASSUME NEW d \in Read PROVE Paid(d)'
      BY <1>2
    <3>1. d \in Busied /\ d \in Callers
      BY DEF Read, Busied
    <3>2. r.id = call[d].id
      BY <2>1, <3>1 DEF Extended
    <3>3. pc[d] = "toppingUp"
      BY <1>1, <3>1, <3>2, Unsent DEF Read, BalanceInv, Known
    <3> QED
      BY <1>1, <1>2, <3>2, <3>3 DEF Paid
  <2>10. \A d \in Callers :
           (Paid(d) => balance >= (Left + Promise + More(call[d])) * price * Times(call[d].size))'
    <3> SUFFICES ASSUME NEW d \in Callers, Paid(d)'
                 PROVE  balance' >= (Left' + Promise' + More(call'[d])) * price'
                                      * Times(call[d].size)'
      BY <1>2 DEF More
    <3> QED
      BY <1>2, <1>3, <2>5
  <2> QED
    BY <1>1, <1>2, <2>1, <2>8, <2>9, <2>10 DEF Extended
<1> QED
  BY <1>1, <1>10, <1>11

LEMMA DiluteBalance ==
  ASSUME BalanceInv, NEW r \in requests, ServeDilute(r)
  PROVE  /\ TypeOK' /\ Owned'
         /\ "price" \notin disturbed' => Unextended'
         /\ disturbed' = {} => Extended'
<1>1. /\ TypeOK' /\ Owned'
      /\ UNCHANGED <<chain, callers, promised, disturbed, funded>>
      /\ requests' = requests \ {r}
      /\ r.op = "dilute" /\ r.argument \in Nat
      /\ IF r.argument > depth
         THEN depth' = r.argument /\ balance' = balance \div PowerOfTwo[r.argument - depth]
         ELSE UNCHANGED batch
  BY ServeDiluteKnown DEF BalanceInv
<1>2. /\ Left' = Left /\ price' = price /\ pc' = pc /\ call' = call /\ Promise' = Promise
      /\ Read' = Read /\ Busied' = Busied /\ \A d \in Callers : Paid(d)' <=> Paid(d)
  BY <1>1 DEF chain, callers, Left, Promise, Read, Busied, Paid
<1>3. /\ balance \in Nat /\ depth \in Nat /\ price \in Nat \ {0} /\ Left \in Nat /\ Promise \in Nat
  BY TtlBlocks, PromiseNatural DEF BalanceInv, Known, TypeOK
<1>4. depth <= depth' /\ depth' \in Nat
  BY <1>1, <1>3 DEF batch
<1>5. \A d \in Callers : Paid(d) => /\ call[d].size \in Nat /\ call[d] \in Call /\ d \in Busied
  BY DEF Paid, BalanceInv, Known, Owned, Call, Busied
<1>6. \A q \in requests : q.argument \in Nat
  BY DEF BalanceInv, Known, TypeOK
(* What was there for this dilution is left in full.                       *)
<1>7. ASSUME NEW amount \in Nat, balance >= amount, balance >= amount * Times(r.argument)
      PROVE  /\ balance' >= amount
             /\ \A s \in Nat : balance >= amount * Times(s) => balance' >= amount * Times(s)'
  <2>1. CASE r.argument > depth
    BY <1>1, <1>3, <1>7, <2>1, Diluted
  <2>2. CASE ~ (r.argument > depth)
    <3>1. balance' = balance /\ \A s : Times(s)' = Times(s)
      BY <1>1, <2>2 DEF batch, Times
    <3> QED
      BY <1>7, <3>1
  <2> QED
    BY <2>1, <2>2
<1>8. ASSUME NEW amount \in Nat, Lasts(amount)
      PROVE  /\ balance' >= amount
             /\ \A q \in requests' : q.op = "dilute" => balance' >= amount * Times(q.argument)'
             /\ \A d \in Callers : Paid(d)' => balance' >= amount * Times(call[d].size)'
  <2>1. balance >= amount /\ balance >= amount * Times(r.argument)
    BY <1>1, <1>8 DEF Lasts
  <2>2. \A s \in Nat : balance >= amount * Times(s) => balance' >= amount * Times(s)'
    BY <1>7, <2>1
  <2>3. ASSUME NEW q \in requests', q.op = "dilute"
        PROVE  balance' >= amount * Times(q.argument)'
    <3>1. q \in requests /\ balance >= amount * Times(q.argument)
      BY <1>1, <1>8, <2>3 DEF Lasts
    <3> QED
      BY <1>6, <2>2, <3>1
  <2>4. ASSUME NEW d \in Callers, Paid(d)'
        PROVE  balance' >= amount * Times(call[d].size)'
    <3> DEFINE s == call[d].size
    <3>1. s \in Nat /\ balance >= amount * Times(s) /\ call'[d].size = s
      BY <1>2, <1>5, <1>8, <2>4 DEF Lasts
    <3>2. \A x \in Nat : x = s => balance' >= amount * Times(x)'
      BY <2>2, <3>1
    <3> QED
      BY <1>2, <3>1, <3>2 DEF Times
  <2> QED
    BY <1>7, <2>1, <2>3, <2>4
<1>9. ASSUME "price" \notin disturbed' PROVE Unextended'
  <2> DEFINE a == Left * price
  <2>1. Unextended
    BY <1>1, <1>9 DEF BalanceInv
  <2>2. a \in Nat /\ Lasts(a) /\ a = Left' * price'
    BY <1>2, <1>3, <2>1 DEF Unextended
  <2> HIDE DEF a
  <2>3. Lasts(Left * price)'
    BY <1>8, <2>2 DEF Lasts
  <2>4. ASSUME NEW d \in Read' PROVE call'[d].depth <= depth' /\ call'[d].ttl \div BlockTime >= Left'
    <3>1. d \in Read /\ call[d].depth \in Nat
      BY <1>2, <2>4 DEF Read, BalanceInv, Known, Owned, Call
    <3>2. call[d].depth <= depth /\ call[d].ttl \div BlockTime >= Left
      BY <2>1, <3>1 DEF Unextended
    <3> QED
      BY <1>2, <1>3, <1>4, <3>1, <3>2
  <2> QED
    BY <1>2, <2>1, <2>3, <2>4 DEF Unextended
<1>10. ASSUME disturbed' = {} PROVE Extended'
  <2> DEFINE a == (Left + Promise) * price
  <2>1. Extended
    BY <1>1, <1>10 DEF BalanceInv
  <2>2. a \in Nat /\ Lasts(a) /\ a = (Left' + Promise') * price'
    BY <1>2, <1>3, <2>1 DEF Extended
  <2> HIDE DEF a
  <2>3. Lasts((Left + Promise) * price)'
    BY <1>8, <2>2 DEF Lasts
  <2>4. \A d \in Busied : pc[d] = "diluting" /\ call[d].size = r.argument
    BY <1>1, <2>1 DEF Extended, BalanceInv, Known, Owned
  <2>5. Read' = {}
    BY <1>2, <2>4 DEF Read, Busied
  <2>6. ASSUME NEW d \in Callers, Paid(d)
        PROVE  balance' >= (Left + Promise + More(call[d])) * price * Times(call[d].size)'
    <3> DEFINE z == (Left + Promise + More(call[d])) * price
    <3>1. More(call[d]) \in Nat
      <4>1. BlockTime \in Nat \ {0} /\ call[d].duration \in Nat
        BY <1>5, <2>6, ConstantsAssumption DEF Call, ConstantsAssumption
      <4> QED
        BY <4>1, Quotient DEF More
    <3>2. z \in Nat
      BY <1>3, <3>1
    <3>3. call[d].size = r.argument /\ balance >= z * Times(r.argument)
      BY <1>5, <2>1, <2>4, <2>6 DEF Extended
    <3> HIDE DEF z
    <3>4. balance >= z
      <4>1. Times(r.argument) \in Nat \ {0}
        BY <1>1, <1>3, TimesNatural
      <4> QED
        BY <1>3, <3>2, <3>3, <4>1
    <3>5. balance' >= z * Times(r.argument)'
      BY <1>1, <1>7, <3>2, <3>3, <3>4
    <3>6. call'[d].size = r.argument
      BY <1>2, <3>3
    <3> QED
      BY <3>5, <3>6 DEF z, Times
  <2>7. \A d \in Callers :
          (Paid(d) => balance >= (Left + Promise + More(call[d])) * price * Times(call[d].size))'
    <3> SUFFICES ASSUME NEW d \in Callers, Paid(d)'
                 PROVE  balance' >= (Left' + Promise' + More(call'[d])) * price'
                                      * Times(call[d].size)'
      BY DEF More
    <3> QED
      BY <1>2, <2>6
  <2> QED
    BY <1>1, <1>2, <2>1, <2>3, <2>5, <2>7 DEF Extended
<1> QED
  BY <1>1, <1>9, <1>10

(* A block takes one price from the balance, and no more than one from     *)
(* what is owed.                                                           *)
LEMMA Drawn ==
  ASSUME NEW x \in Nat, NEW y \in Nat, NEW t \in Nat \ {0}, NEW b \in Nat,
         y <= x, b >= x * t
  PROVE  b - y >= (x - y) * t
<1>1. PICK z \in Nat : x = y + z
  <2>1. x - y \in Nat /\ x = y + (x - y)
    OBVIOUS
  <2> QED
    BY <2>1
<1>2. (y + z) * t = y * t + z * t /\ y * t >= y /\ z * t \in Nat /\ y * t \in Nat
  BY <1>1
<1>3. x - y = z
  BY <1>1
<1>4. b >= y * t + z * t
  BY <1>1, <1>2
<1>5. b - y >= z * t
  <2> DEFINE u == y * t
             w == z * t
  <2>1. u >= y /\ w \in Nat /\ u \in Nat /\ b >= u + w
    BY <1>2, <1>4
  <2> HIDE DEF u, w
  <2>2. b - y >= w
    BY <2>1
  <2> QED
    BY <2>2 DEF w
<1> QED
  BY <1>3, <1>5

LEMMA BlockBalance ==
  ASSUME BalanceInv, Block
  PROVE  /\ TypeOK' /\ Owned'
         /\ "price" \notin disturbed' => Unextended'
         /\ disturbed' = {} => Extended'
<1>1. /\ TypeOK' /\ Owned'
      /\ balance >= price /\ baseline >= price
      /\ balance' = balance - price /\ baseline' = baseline - price
      /\ UNCHANGED <<depth, price, callers, requests, answers, history, disturbed>>
  BY ChainKnown DEF BalanceInv, Block
<1>2. /\ price' = price /\ depth' = depth /\ pc' = pc /\ call' = call /\ Promise' = Promise
      /\ requests' = requests /\ Read' = Read /\ Busied' = Busied
      /\ \A d \in Callers : Paid(d)' <=> Paid(d)
      /\ \A s : Times(s)' = Times(s)
  BY <1>1 DEF callers, history, Promise, Read, Busied, Paid, Times
<1>3. /\ balance \in Nat /\ baseline \in Nat /\ depth \in Nat
      /\ price \in Nat \ {0} /\ Left \in Nat /\ Promise \in Nat
  BY TtlBlocks, PromiseNatural DEF BalanceInv, Known, TypeOK
<1>4. /\ Left' = Left - 1 /\ Left' \in Nat
      /\ balance' \div price' = (balance \div price) - 1 /\ balance \div price \in Nat
  <2>1. Left' = Left - 1
    BY <1>1, <1>2, <1>3, QuotientLess DEF Left
  <2>2. Left' \in Nat
    <3>1. baseline' \in Nat /\ price' \in Nat \ {0}
      BY <1>1, <1>2, <1>3 DEF TypeOK
    <3> QED
      BY <3>1, Quotient DEF Left
  <2> QED
    BY <1>1, <1>2, <1>3, <2>1, <2>2, Quotient, QuotientLess
<1>5. \A d \in Callers : Paid(d) => /\ call[d].size \in Nat /\ call[d] \in Call
  BY DEF Paid, BalanceInv, Known, Owned, Call
<1>6. \A q \in requests : q.argument \in Nat
  BY DEF BalanceInv, Known, TypeOK
<1>7. ASSUME NEW n \in Nat, n >= 1
      PROVE  /\ (n - 1) * price = n * price - price
             /\ n * price \in Nat /\ price <= n * price
  <2>1. PICK m \in Nat : n = m + 1
    <3>1. n - 1 \in Nat /\ n = (n - 1) + 1
      BY <1>7
    <3> QED
      BY <3>1
  <2>2. (m + 1) * price = m * price + price /\ m * price \in Nat
    BY <1>3
  <2>3. n - 1 = m
    BY <2>1
  <2> QED
    BY <1>3, <2>1, <2>2, <2>3
<1>8. ASSUME NEW n \in Nat, n >= 1, NEW s \in Nat, balance >= n * price * Times(s)
      PROVE  balance' >= (n - 1) * price * Times(s)
  <2> DEFINE x == n * price
             t == Times(s)
  <2>1. t \in Nat \ {0} /\ x \in Nat /\ price <= x /\ (n - 1) * price = x - price
    BY <1>3, <1>7, <1>8, TimesNatural
  <2>2. balance >= x * t
    BY <1>8
  <2> HIDE DEF x, t
  <2>3. balance - price >= (x - price) * t
    BY <1>3, <2>1, <2>2, Drawn
  <2> QED
    BY <1>1, <2>1, <2>3 DEF t
<1>9. ASSUME NEW n \in Nat, n >= 1, Lasts(n * price)
      PROVE  /\ balance' >= (n - 1) * price
             /\ \A q \in requests : q.op = "dilute" =>
                  balance' >= (n - 1) * price * Times(q.argument)
             /\ \A d \in Callers : Paid(d) => balance' >= (n - 1) * price * Times(call[d].size)
  <2>1. balance' >= (n - 1) * price
    <3>1. balance >= n * price
      BY <1>9 DEF Lasts
    <3>2. (n - 1) * price = n * price - price /\ n * price \in Nat
      BY <1>7, <1>9
    <3> QED
      BY <1>1, <1>3, <3>1, <3>2
  <2>2. ASSUME NEW q \in requests, q.op = "dilute"
        PROVE  balance' >= (n - 1) * price * Times(q.argument)
    BY <1>6, <1>8, <1>9, <2>2 DEF Lasts
  <2>3. ASSUME NEW d \in Callers, Paid(d)
        PROVE  balance' >= (n - 1) * price * Times(call[d].size)
    BY <1>5, <1>8, <1>9, <2>3 DEF Lasts
  <2> QED
    BY <2>1, <2>2, <2>3
<1>10. Left >= 1
  BY <1>3, <1>4
<1>11. ASSUME "price" \notin disturbed' PROVE Unextended'
  <2>1. Unextended
    BY <1>1, <1>11 DEF BalanceInv
  <2>2. /\ balance' >= Left' * price
        /\ \A q \in requests : q.op = "dilute" => balance' >= Left' * price * Times(q.argument)
        /\ \A d \in Callers : Paid(d) => balance' >= Left' * price * Times(call[d].size)
    BY <1>3, <1>4, <1>9, <1>10, <2>1 DEF Unextended
  <2>3. Lasts(Left * price)'
    BY <1>2, <2>2 DEF Lasts
  <2>4. ASSUME NEW d \in Read' PROVE call'[d].depth <= depth' /\ call'[d].ttl \div BlockTime >= Left'
    <3>1. d \in Read /\ call[d] \in Call
      BY <1>2, <2>4 DEF Read, BalanceInv, Known, Owned, Call
    <3>2. call[d].depth <= depth /\ call[d].ttl \div BlockTime >= Left
      BY <2>1, <3>1 DEF Unextended
    <3>3. call[d].ttl \div BlockTime \in Nat
      BY <3>1, Quotient, ConstantsAssumption DEF Call, ConstantsAssumption
    <3> QED
      BY <1>2, <1>3, <1>4, <3>2, <3>3
  <2> QED
    BY <1>2, <2>1, <2>3, <2>4 DEF Unextended
<1>12. ASSUME disturbed' = {} PROVE Extended'
  <2>1. Extended
    BY <1>1, <1>12 DEF BalanceInv
  <2> DEFINE n == Left + Promise
  <2>2. n \in Nat /\ n >= 1 /\ n - 1 = Left' + Promise' /\ Lasts(n * price)
    BY <1>2, <1>3, <1>4, <1>10, <2>1 DEF Extended
  <2> HIDE DEF n
  <2>3. /\ balance' >= (n - 1) * price
        /\ \A q \in requests : q.op = "dilute" => balance' >= (n - 1) * price * Times(q.argument)
        /\ \A d \in Callers : Paid(d) => balance' >= (n - 1) * price * Times(call[d].size)
    BY <1>9, <2>2
  <2>4. Lasts((Left + Promise) * price)'
    BY <1>2, <2>2, <2>3 DEF Lasts
  <2>5. ASSUME NEW d \in Read', ~ Paid(d)'
        PROVE  call'[d].ttl \div BlockTime >= balance' \div price'
    <3>1. d \in Read /\ ~ Paid(d) /\ call[d] \in Call
      BY <1>2, <2>5 DEF Read, BalanceInv, Known, Owned
    <3>2. call[d].ttl \div BlockTime \in Nat
      BY <3>1, Quotient, ConstantsAssumption DEF Call, ConstantsAssumption
    <3>3. call[d].ttl \div BlockTime >= balance \div price
      BY <2>1, <3>1 DEF Extended
    <3> QED
      BY <1>2, <1>4, <3>2, <3>3
  <2>6. ASSUME NEW d \in Callers, Paid(d)
        PROVE  balance' >= (Left' + Promise' + More(call[d])) * price * Times(call[d].size)
    <3> DEFINE m == More(call[d])
               k == Left + Promise + m
    <3>1. m \in Nat
      <4>1. BlockTime \in Nat \ {0} /\ call[d].duration \in Nat
        BY <1>5, <2>6, ConstantsAssumption DEF Call, ConstantsAssumption
      <4> QED
        BY <4>1, Quotient DEF More
    <3>2. k \in Nat /\ k >= 1 /\ k - 1 = Left' + Promise' + m
      <4> HIDE DEF m
      <4> QED
        BY <1>2, <1>3, <1>4, <1>10, <3>1
    <3>3. balance >= k * price * Times(call[d].size)
      BY <2>1, <2>6 DEF Extended
    <3> HIDE DEF k
    <3>4. balance' >= (k - 1) * price * Times(call[d].size)
      BY <1>5, <1>8, <2>6, <3>2, <3>3
    <3> QED
      BY <3>2, <3>4
  <2>7. \A d \in Callers :
          (Paid(d) => balance >= (Left + Promise + More(call[d])) * price * Times(call[d].size))'
    <3> SUFFICES ASSUME NEW d \in Callers, Paid(d)'
                 PROVE  balance' >= (Left' + Promise' + More(call'[d])) * price'
                                      * Times(call[d].size)'
      BY DEF More
    <3> QED
      BY <1>2, <2>6
  <2> QED
    BY <1>1, <1>2, <2>1, <2>4, <2>5, <2>7 DEF Extended
<1> QED
  BY <1>1, <1>11, <1>12

LEMMA BalanceInvInit == Init => BalanceInv
<1> SUFFICES ASSUME Init PROVE BalanceInv
  OBVIOUS
<1>1. Known
  BY KnownInit
<1>2. /\ balance = FirstBalance /\ baseline = FirstBalance
      /\ \A c \in Callers : pc[c] = "idle"
      /\ requests = {} /\ Promise = 0
  BY DEF Init, Promise
<1>3. price \in Nat \ {0} /\ Left \in Nat /\ Left * price <= baseline
  BY <1>1, TtlBlocks DEF Known
<1>4. Busied = {} /\ Read = {} /\ \A c \in Callers : ~ Paid(c)
  BY <1>2 DEF Busied, Read, Paid
<1>5. Lasts(Left * price)
  BY <1>2, <1>3, <1>4 DEF Lasts
<1>6. Unextended
  BY <1>2, <1>4, <1>5 DEF Unextended
<1>7. (Left + Promise) * price = Left * price
  BY <1>2, <1>3
<1>8. Extended
  BY <1>2, <1>4, <1>5, <1>7 DEF Extended
<1> QED
  BY <1>1, <1>6, <1>8 DEF BalanceInv

(* A step of anybody.                                                      *)
LEMMA NextBalance ==
  ASSUME BalanceInv, Next
  PROVE  /\ TypeOK' /\ Owned'
         /\ "price" \notin disturbed' => Unextended'
         /\ disturbed' = {} => Extended'
<1>1. CASE SetPrice
  <2>1. TypeOK' /\ Owned'
    BY <1>1, ChainKnown DEF BalanceInv
  <2>2. "price" \in disturbed'
    BY <1>1 DEF SetPrice
  <2> QED
    BY <2>1, <2>2
<1>2. CASE Block
  BY <1>2, BlockBalance
<1>3. ASSUME NEW c \in Callers,
             \/ ExtendStorage(c) \/ ExtendStorageSize(c) \/ ExtendStorageDuration(c)
             \/ GetPostageBatch(c) \/ ChainPrice(c) \/ ReadFails(c)
             \/ Decline(c) \/ NothingToDo(c) \/ TopUpBatch(c) \/ DiluteBatch(c)
             \/ Return(c) \/ ReturnError(c)
      PROVE  /\ TypeOK' /\ Owned'
             /\ "price" \notin disturbed' => Unextended'
             /\ disturbed' = {} => Extended'
  <2>1. CASE ExtendStorage(c) \/ ExtendStorageSize(c) \/ ExtendStorageDuration(c)
    BY <2>1, StartBalance
  <2>2. CASE GetPostageBatch(c) \/ ChainPrice(c) \/ TopUpBatch(c) \/ DiluteBatch(c)
    BY <2>2, WorkBalance
  <2>3. CASE ReadFails(c) \/ Decline(c) \/ ReturnError(c)
    BY <2>3, FailBalance
  <2>4. CASE NothingToDo(c) \/ Return(c)
    BY <2>4, SucceedBalance
  <2> QED
    BY <1>3, <2>1, <2>2, <2>3, <2>4
<1>4. ASSUME NEW r \in requests, ServeTopUp(r) \/ ServeDilute(r)
      PROVE  /\ TypeOK' /\ Owned'
             /\ "price" \notin disturbed' => Unextended'
             /\ disturbed' = {} => Extended'
  BY <1>4, TopUpBalance, DiluteBalance
<1> QED
  BY <1>1, <1>2, <1>3, <1>4 DEF Next

LEMMA BalanceInvStep == BalanceInv /\ [Next]_vars => BalanceInv'
<1> SUFFICES ASSUME BalanceInv, [Next]_vars PROVE BalanceInv'
  OBVIOUS
<1>1. FundedInv'
  BY FundedInvStep DEF BalanceInv, Known
<1>2. CASE Next
  BY <1>1, <1>2, NextBalance DEF BalanceInv, Known
<1>3. CASE UNCHANGED vars
  <2>1. /\ depth' = depth /\ balance' = balance /\ price' = price /\ blocks' = blocks
        /\ baseline' = baseline /\ calls' = calls /\ pc' = pc /\ call' = call
        /\ requests' = requests /\ answers' = answers /\ promised' = promised
        /\ funded' = funded /\ unfunded' = unfunded /\ disturbed' = disturbed
    BY <1>3 DEF vars, batch, chain, callers, history
  <2>2. TypeOK'
    BY <2>1 DEF BalanceInv, Known, TypeOK
  <2>3. Owned'
    <3>1. Busied' = Busied /\ \A k : TopUp(k)' = TopUp(k)
      BY <2>1 DEF Busied, TopUp, AmountDelta, CurrentAmount, Multiplier, AmountForDuration
    <3>2. \A r \in requests : \A c \in Busied :
            r.id = call[c].id =>
              /\ r.op = "topUp" => pc[c] \in {"toppingUp", "diluting"} /\ r.argument = TopUp(call[c])
              /\ r.op = "dilute" => pc[c] = "diluting" /\ r.argument = call[c].size
      BY DEF BalanceInv, Known, Owned
    <3>3. \A r \in requests' : \A c \in Busied' :
            r.id = call'[c].id =>
              /\ r.op = "topUp" => pc'[c] \in {"toppingUp", "diluting"} /\ r.argument = TopUp(call'[c])
              /\ r.op = "dilute" => pc'[c] = "diluting" /\ r.argument = call'[c].size
      BY <2>1, <3>1, <3>2
    <3>4. /\ \A c \in Callers : pc'[c] # "idle" => call'[c] \in Call /\ call'[c].id <= calls'
          /\ \A c \in Callers : pc'[c] \in {"decide", "toppingUp", "diluting"} =>
                                 call'[c].price \in Prices
          /\ \A c \in Busied' : call'[c].kind = "duration" => call'[c].size = 0
          /\ \A c, d \in Busied' : call'[c].id = call'[d].id => c = d
          /\ \A i \in funded' : i <= calls'
          /\ \A r \in requests' : r.id <= calls'
          /\ \A c \in Busied' : call'[c].id \in funded' => pc'[c] \in {"toppingUp", "diluting"}
      BY <2>1, <3>1 DEF BalanceInv, Known, Owned
    <3> QED
      BY <3>3, <3>4 DEF Owned, TopUp, AmountDelta, CurrentAmount, Multiplier, AmountForDuration
  <2>4. Left' = Left /\ Promise' = Promise /\ Read' = Read /\ Busied' = Busied
    BY <2>1 DEF Left, Promise, Read, Busied
  <2>5. Unextended' <=> Unextended
    BY <2>1, <2>4 DEF Unextended, Lasts, Paid, Times
  <2>6. Extended' <=> Extended
    BY <2>1, <2>4 DEF Extended, Lasts, Paid, Times, More
  <2> QED
    BY <1>1, <2>1, <2>2, <2>3, <2>5, <2>6 DEF BalanceInv, Known
<1> QED
  BY <1>2, <1>3

LEMMA BalanceInvHolds == Spec => []BalanceInv
BY BalanceInvInit, BalanceInvStep, PTL DEF Spec

(* The variables keep their types.                                         *)
THEOREM TypeCorrect == Spec => []TypeOK
<1>1. BalanceInv => TypeOK
  BY DEF BalanceInv, Known
<1> QED
  BY <1>1, BalanceInvHolds, PTL

(***************************************************************************)
(* Calls that fail half-way, come late or overlap never cost the batch a   *)
(* whole block of what it had, as long as the price stays.                 *)
(***************************************************************************)
THEOREM NeverShorterHolds == Spec => []NeverShorter
<1>1. BalanceInv => NeverShorter
  <2> SUFFICES ASSUME BalanceInv, "price" \notin disturbed
               PROVE  (balance \div price) >= Left
    BY DEF NeverShorter, Left
  <2>1. balance >= Left * price
    BY DEF BalanceInv, Unextended, Lasts
  <2>2. Left \in Nat /\ balance \div price \in Nat /\ Left <= balance \div price
    BY <2>1, TtlBlocks DEF BalanceInv, Known
  <2> QED
    BY <2>2
<1> QED
  BY <1>1, BalanceInvHolds, PTL

(***************************************************************************)
(* As long as the price stays and calls do not overlap, the batch lasts    *)
(* for all that the calls of ExtendStorage that succeeded promised.        *)
(***************************************************************************)
THEOREM ExtendedAsPromisedHolds == Spec => []ExtendedAsPromised
<1>1. BalanceInv => ExtendedAsPromised
  <2> SUFFICES ASSUME BalanceInv, disturbed = {}
               PROVE  (balance \div price) >= Left + Promise
    BY DEF ExtendedAsPromised, Left, Promise
  <2>1. balance >= (Left + Promise) * price
    BY DEF BalanceInv, Extended, Lasts
  <2>2. TypeOK /\ Left \in Nat /\ Promise \in Nat /\ balance \div price \in Nat
    BY TtlBlocks, PromiseNatural DEF BalanceInv, Known
  <2>3. Left + Promise \in Nat
    BY <2>2
  <2>4. Left + Promise <= balance \div price
    BY <2>1, <2>2, <2>3, TtlBlocks
  <2> QED
    BY <2>2, <2>3, <2>4
<1> QED
  BY <1>1, BalanceInvHolds, PTL

-----------------------------------------------------------------------------
(* Quotes.                                                                 *)

Growth(s, d) == IF s > d THEN PowerOfTwo[s - d] ELSE 1

(* The chunks of the batch as it is, times what a chunk lacks, is what all *)
(* chunks cost after the call less what they have.                         *)
LEMMA Quoted ==
  ASSUME NEW d \in Nat, NEW s \in Nat, NEW cur \in Nat, NEW extra \in Nat
  PROVE  Cost(d, (cur + extra) * Growth(s, d) - cur)
           = Cost(Larger(s, d), cur + extra) - Cost(d, cur)
<1> DEFINE m == Growth(s, d)
           p == PowerOfTwo[d]
           q == PowerOfTwo[Larger(s, d)]
<1>1. m \in Nat /\ p \in Nat /\ q = p * m
  <2>1. CASE s > d
    <3>1. s - d \in Nat /\ d + (s - d) = s
      BY <2>1
    <3>2. PowerOfTwo[d + (s - d)] = p * PowerOfTwo[s - d]
      BY <3>1, PowerSum
    <3>3. m = PowerOfTwo[s - d] /\ q = PowerOfTwo[s]
      BY <2>1 DEF Larger, Growth
    <3>4. m \in Nat /\ p \in Nat
      BY <3>1, <3>3, PowerNatural
    <3> QED
      BY <3>1, <3>2, <3>3, <3>4
  <2>2. CASE ~ (s > d)
    BY <2>2, PowerNatural DEF Larger, Growth
  <2> QED
    BY <2>1, <2>2
<1> DEFINE x == cur + extra
<1>2. x \in Nat
  OBVIOUS
<1>3. p * (x * m - cur) = q * x - p * cur
  <2> HIDE DEF m, p, q, x
  <2> DEFINE y == x * m
  <2>1. y \in Nat /\ q * x = p * y
    BY <1>1, <1>2
  <2> HIDE DEF y
  <2>2. p * (y - cur) = p * y - p * cur
    BY <1>1, <2>1
  <2> QED
    BY <2>1, <2>2 DEF y
<1> QED
  BY <1>3 DEF Cost

(***************************************************************************)
(* Whatever the node reports, the money an extension is about to spend is  *)
(* what the cost functions quote.                                          *)
(***************************************************************************)
THEOREM QuoteHoldsAlways == Spec => []QuoteHolds
<1>1. BalanceInv => QuoteHolds
  <2> SUFFICES ASSUME BalanceInv, NEW c \in Callers, pc[c] = "decide"
               PROVE  CASE call[c].kind = "extend"   ->
                             Cost(call[c].depth, TopUp(call[c])) = ExtensionCost(call[c])
                        [] call[c].kind = "size"     ->
                             Dilutes(call[c]) =>
                               Cost(call[c].depth, TopUp(call[c]) - 1) = SizeExtensionCost(call[c])
                        [] call[c].kind = "duration" -> TRUE
    BY DEF QuoteHolds
  <2> DEFINE k == call[c]
             cur == CurrentAmount(k)
             m == Multiplier(k)
             more == AmountForDuration(k.duration, k.price, BlockTime)
             extra == IF k.duration = 0 THEN 0 ELSE more
  <2>1. k \in Call /\ k.price # 0
    BY Priced, ConstantsAssumption DEF BalanceInv, Known
  <2>2. cur \in Nat /\ extra \in Nat /\ k.depth \in Nat /\ k.size \in Nat
    <3>1. \A s, p \in Nat, b \in Nat : b # 0 => AmountForDuration(s, p, b) \in Nat
      BY DEF AmountForDuration
    <3> QED
      BY <2>1, <3>1, ConstantsAssumption DEF Call, ConstantsAssumption, CurrentAmount
  <2>3. k.kind \in {"extend", "size", "duration"}
    BY <2>1, ConstantsAssumption DEF Call, ConstantsAssumption
  <2>4. m = Growth(k.size, k.depth)
    BY DEF Multiplier, Growth
  <2>5. ASSUME k.kind = "extend" PROVE Cost(k.depth, TopUp(k)) = ExtensionCost(k)
    <3>1. TopUp(k) = (cur + extra) * m - cur
      <4>1. cur + 0 = cur
        BY <2>2
      <4>2. TopUp(k) = IF k.duration = 0 THEN cur * m - cur ELSE (cur + more) * m - cur
        BY <2>5 DEF TopUp, AmountDelta
      <4> QED
        BY <4>1, <4>2
    <3>2. ExtensionCost(k) = Cost(Larger(k.size, k.depth), cur + extra) - Cost(k.depth, cur)
      BY DEF ExtensionCost
    <3> HIDE DEF cur, extra, m, k
    <3>3. Cost(k.depth, (cur + extra) * Growth(k.size, k.depth) - cur)
            = Cost(Larger(k.size, k.depth), cur + extra) - Cost(k.depth, cur)
      <4>1. PICK d \in Nat, s \in Nat, x \in Nat, y \in Nat :
              d = k.depth /\ s = k.size /\ x = cur /\ y = extra
        BY <2>2, Zenon
      <4>2. Cost(d, (x + y) * Growth(s, d) - x) = Cost(Larger(s, d), x + y) - Cost(d, x)
        BY Quoted
      <4> QED
        BY <4>1, <4>2, Zenon
    <3> QED
      BY <2>4, <3>1, <3>2, <3>3
  <2>6. ASSUME k.kind = "size", Dilutes(k)
        PROVE  Cost(k.depth, TopUp(k) - 1) = SizeExtensionCost(k)
    <3>1. k.size > k.depth /\ Larger(k.size, k.depth) = k.size
      BY <2>6 DEF Dilutes, Larger
    <3>2. m \in Nat
      BY <2>2, <2>4, <3>1, PowerNatural DEF Growth
    <3>3. TopUp(k) = cur * (m - 1) + 1
      BY <2>6 DEF TopUp
    <3>4. TopUp(k) - 1 = (cur + 0) * m - cur
      <4> HIDE DEF cur, m, k
      <4>1. cur * (m - 1) = cur * m - cur /\ cur * m \in Nat
        BY <2>2, <3>2
      <4>2. cur + 0 = cur
        BY <2>2
      <4> QED
        BY <2>2, <3>3, <4>1, <4>2
    <3>5. Cost(k.depth, TopUp(k) - 1) = Cost(Larger(k.size, k.depth), cur + 0) - Cost(k.depth, cur)
      <4> HIDE DEF cur, extra, m, k
      <4>1. PICK d \in Nat, s \in Nat, x \in Nat : d = k.depth /\ s = k.size /\ x = cur
        BY <2>2, Zenon
      <4>2. PICK y \in Nat : y = 0
        OBVIOUS
      <4>3. Cost(d, (x + y) * Growth(s, d) - x) = Cost(Larger(s, d), x + y) - Cost(d, x)
        BY Quoted
      <4>4. Cost(k.depth, (cur + 0) * Growth(k.size, k.depth) - cur)
              = Cost(Larger(k.size, k.depth), cur + 0) - Cost(k.depth, cur)
        BY <4>1, <4>2, <4>3, Zenon
      <4> QED
        BY <2>4, <3>4, <4>4
    <3>6. cur + 0 = cur
      BY <2>2
    <3> QED
      BY <3>1, <3>5, <3>6 DEF SizeExtensionCost
  <2> QED
    BY <2>3, <2>5, <2>6
<1> QED
  BY <1>1, BalanceInvHolds, PTL

=============================================================================
