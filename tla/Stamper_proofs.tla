---------------------------- MODULE Stamper_proofs -----------------------------
(***************************************************************************)
(* Proofs about Stamper, for any number of goroutines, any buckets and any *)
(* batch.  As long as no two calls count on a bucket at the same time, its *)
(* counter is above every index that is issued or about to be signed, and  *)
(* is the next one of the call that counts on it.                          *)
(***************************************************************************)
EXTENDS Stamper, SequenceTheorems, FiniteSetTheorems, TLAPS

Signing(t, b) == pc[t] = "sign" /\ bucket[t] = b

Issued(i, b) == issued[i].bucket = b

(* The call that counts on b is alone and holds the counter.               *)
CounterHeld(b) ==
  \A t \in Threads : Counting(t, b) =>
    /\ height[t] = buckets[b]
    /\ pc[t] = "store" => loaded[t] = buckets[b]
    /\ \A u \in Threads : Counting(u, b) => u = t

(* What is about to be signed is below the counter, and each its own.      *)
SigningBelow(b) ==
  \A t \in Threads : Signing(t, b) =>
    /\ height[t] < buckets[b]
    /\ \A u \in Threads : Signing(u, b) /\ height[u] = height[t] => u = t

(* So is what is issued, and none of it is signed again.                   *)
IssuedBelow(b) ==
  \A i \in 1..Len(issued) : Issued(i, b) =>
    /\ issued[i].height < buckets[b]
    /\ \A t \in Threads : Signing(t, b) => issued[i].height # height[t]
    /\ \A j \in 1..Len(issued) : issued[j] = issued[i] => i = j

Apart == \A b \in Buckets \ raced : CounterHeld(b) /\ SigningBelow(b) /\ IssuedBelow(b)

(* Past the check of the limit a height is below it.                       *)
Checked == \A t \in Threads : pc[t] \in {"load", "store", "sign"} => height[t] < MaxSlot

StamperInv == TypeOK /\ Apart /\ Checked /\ HeightInRange

LEMMA LimitIsInt == MaxSlot \in Int
BY DepthAssumption, BoundsAssumption DEF MaxSlot

LEMMA StamperInvInit == Init => StamperInv
<1> SUFFICES ASSUME Init PROVE StamperInv
  OBVIOUS
<1>1. TypeOK
  BY DEF Init, TypeOK
<1>2. Apart /\ Checked /\ HeightInRange
  BY DEF Init, Apart, CounterHeld, SigningBelow, IssuedBelow, Counting, Signing, Checked, HeightInRange
<1> QED
  BY <1>1, <1>2 DEF StamperInv

LEMMA TypeFacts ==
  ASSUME TypeOK
  PROVE  /\ buckets \in [Buckets -> Nat]
         /\ pc \in [Threads -> {"idle", "check", "load", "store", "sign"}]
         /\ bucket \in [Threads -> Buckets]
         /\ height \in [Threads -> Nat]
         /\ loaded \in [Threads -> Nat]
         /\ issued \in Seq(Index)
         /\ Len(issued) \in Nat
BY LenProperties DEF TypeOK

LEMMA TypeStep == TypeOK /\ [Next]_vars => TypeOK'
<1> SUFFICES ASSUME TypeOK, [Next]_vars PROVE TypeOK'
  OBVIOUS
<1> USE TypeFacts DEF TypeOK, Moves, history
<1>1. ASSUME NEW t \in Threads, NEW b \in Buckets, Stamp(t, b) PROVE TypeOK'
  <2>1. raced' \subseteq Buckets
    BY <1>1 DEF Stamp
  <2>2. calls' \in Nat
    BY <1>1 DEF Stamp
  <2>3. /\ pc' = [pc EXCEPT ![t] = "check"]
        /\ bucket' = [bucket EXCEPT ![t] = b]
        /\ height' = [height EXCEPT ![t] = buckets[b]]
        /\ UNCHANGED <<buckets, loaded, issued, burnt, refused>>
    BY <1>1 DEF Stamp
  <2> QED
    BY <2>1, <2>2, <2>3
<1>2. ASSUME NEW t \in Threads, Refuse(t) PROVE TypeOK'
  BY <1>2 DEF Refuse
<1>3. ASSUME NEW t \in Threads, Proceed(t) PROVE TypeOK'
  BY <1>3 DEF Proceed
<1>4. ASSUME NEW t \in Threads, Load(t) PROVE TypeOK'
  BY <1>4 DEF Load
<1>5. ASSUME NEW t \in Threads, Store(t) PROVE TypeOK'
  <2>1. buckets' \in [Buckets -> Nat]
    BY <1>5 DEF Store, Stores
  <2> QED
    BY <1>5, <2>1 DEF Store
<1>6. ASSUME NEW t \in Threads, Sign(t) PROVE TypeOK'
  <2>1. [bucket |-> bucket[t], height |-> height[t]] \in Index
    BY DEF Index
  <2>2. issued' \in Seq(Index)
    BY <1>6, <2>1, AppendProperties DEF Sign
  <2> QED
    BY <1>6, <2>2 DEF Sign
<1>7. ASSUME NEW t \in Threads, SignFails(t) PROVE TypeOK'
  BY <1>7 DEF SignFails
<1>8. CASE UNCHANGED vars
  BY <1>8 DEF vars, local
<1> QED
  BY <1>1, <1>2, <1>3, <1>4, <1>5, <1>6, <1>7, <1>8 DEF Next

(***************************************************************************)
(* On a bucket where the counter and the issued indexes stay, a step may   *)
(* only take calls away, or let one load the counter.                      *)
(***************************************************************************)
LEMMA BucketStays ==
  ASSUME NEW b, CounterHeld(b), SigningBelow(b), IssuedBelow(b),
         UNCHANGED <<buckets, height, issued>>,
         \A t \in Threads :
           /\ Counting(t, b)' => Counting(t, b)
           /\ Counting(t, b)' /\ pc'[t] = "store" =>
                (pc[t] = "store" /\ loaded'[t] = loaded[t]) \/ loaded'[t] = buckets[b]
           /\ Signing(t, b)' => Signing(t, b)
  PROVE  CounterHeld(b)' /\ SigningBelow(b)' /\ IssuedBelow(b)'
<1>1. CounterHeld(b)'
  BY DEF CounterHeld
<1>2. SigningBelow(b)' /\ IssuedBelow(b)'
  BY DEF SigningBelow, IssuedBelow, Issued
<1> QED
  BY <1>1, <1>2

LEMMA StampApart ==
  ASSUME TypeOK, Apart, NEW t \in Threads, NEW c \in Buckets, Stamp(t, c)
  PROVE  Apart'
<1>1. /\ pc[t] = "idle"
      /\ pc' = [pc EXCEPT ![t] = "check"]
      /\ bucket' = [bucket EXCEPT ![t] = c]
      /\ height' = [height EXCEPT ![t] = buckets[c]]
      /\ raced' = IF \E u \in Threads : Counting(u, c) THEN raced \cup {c} ELSE raced
      /\ UNCHANGED <<buckets, loaded, issued>>
  BY DEF Stamp, Moves
<1>2. \A u \in Threads : u # t =>
        pc'[u] = pc[u] /\ bucket'[u] = bucket[u] /\ height'[u] = height[u]
  BY <1>1, TypeFacts
<1>3. pc'[t] = "check" /\ bucket'[t] = c /\ height'[t] = buckets[c]
  BY <1>1, TypeFacts
<1> SUFFICES ASSUME NEW b \in Buckets \ raced'
             PROVE  CounterHeld(b)' /\ SigningBelow(b)' /\ IssuedBelow(b)'
  BY DEF Apart
<1>4. b \notin raced /\ (b = c => \A u \in Threads : ~ Counting(u, b))
  BY <1>1
<1>5. CounterHeld(b) /\ SigningBelow(b) /\ IssuedBelow(b)
  BY <1>4 DEF Apart
<1>6. \A u \in Threads : u # t => (Counting(u, b)' <=> Counting(u, b))
  BY <1>2 DEF Counting
<1>7. \A u \in Threads : Signing(u, b)' <=> Signing(u, b) /\ u # t
  BY <1>1, <1>2, <1>3 DEF Signing
<1>8. CounterHeld(b)'
  <2>1. CASE b = c
    BY <2>1, <1>1, <1>3, <1>4, <1>6 DEF CounterHeld
  <2>2. CASE b # c
    <3>1. ~ Counting(t, b)'
      BY <2>2, <1>3 DEF Counting
    <3> QED
      BY <3>1, <1>1, <1>2, <1>5, <1>6 DEF CounterHeld
  <2> QED
    BY <2>1, <2>2
<1>9. SigningBelow(b)'
  BY <1>1, <1>2, <1>5, <1>7 DEF SigningBelow
<1>10. IssuedBelow(b)'
  BY <1>1, <1>2, <1>5, <1>7 DEF IssuedBelow, Issued
<1> QED
  BY <1>8, <1>9, <1>10

(* The steps of a call that leave the counters alone.                      *)
LEMMA QuietApart ==
  ASSUME TypeOK, Apart, NEW t \in Threads,
         Refuse(t) \/ Proceed(t) \/ Load(t) \/ SignFails(t)
  PROVE  Apart'
<1>1. UNCHANGED <<buckets, bucket, height, issued, raced>>
  BY DEF Refuse, Proceed, Load, SignFails, history
<1> SUFFICES ASSUME NEW b \in Buckets \ raced
             PROVE  CounterHeld(b)' /\ SigningBelow(b)' /\ IssuedBelow(b)'
  BY <1>1 DEF Apart
<1>2. CounterHeld(b) /\ SigningBelow(b) /\ IssuedBelow(b)
  BY DEF Apart
<1>3. \A u \in Threads : u # t => pc'[u] = pc[u] /\ loaded'[u] = loaded[u]
  BY TypeFacts DEF Refuse, Proceed, Load, SignFails, Moves
<1>4. /\ pc'[t] \in {"check", "load", "store"} => pc[t] \in {"check", "load", "store"}
      /\ pc'[t] = "store" => loaded'[t] = buckets[bucket[t]]
      /\ pc'[t] # "sign"
  BY TypeFacts DEF Refuse, Proceed, Load, SignFails, Moves
<1>5. ASSUME NEW u \in Threads
      PROVE  /\ Counting(u, b)' => Counting(u, b)
             /\ Counting(u, b)' /\ pc'[u] = "store" =>
                  (pc[u] = "store" /\ loaded'[u] = loaded[u]) \/ loaded'[u] = buckets[b]
             /\ Signing(u, b)' => Signing(u, b)
  <2>1. CASE u = t
    BY <2>1, <1>1, <1>4 DEF Counting, Signing
  <2>2. CASE u # t
    BY <2>2, <1>1, <1>3 DEF Counting, Signing
  <2> QED
    BY <2>1, <2>2
<1> QED
  BY <1>1, <1>2, <1>5, BucketStays

(* The counter passes the height of the call that stores it.               *)
LEMMA StoreApart ==
  ASSUME TypeOK, Apart, NEW t \in Threads, Store(t)
  PROVE  Apart'
<1> DEFINE c == bucket[t]
<1>1. /\ pc[t] = "store"
      /\ pc' = [pc EXCEPT ![t] = "sign"]
      /\ buckets' = [buckets EXCEPT ![c] = loaded[t] + 1]
      /\ UNCHANGED <<bucket, height, loaded, issued, raced>>
  BY DEF Store, Stores, Moves, history
<1>2. pc'[t] = "sign" /\ \A u \in Threads : u # t => pc'[u] = pc[u]
  BY <1>1, TypeFacts
<1>3. Counting(t, c)
  BY <1>1 DEF Counting
<1> SUFFICES ASSUME NEW b \in Buckets \ raced
             PROVE  CounterHeld(b)' /\ SigningBelow(b)' /\ IssuedBelow(b)'
  BY <1>1 DEF Apart
<1>4. CounterHeld(b) /\ SigningBelow(b) /\ IssuedBelow(b)
  BY DEF Apart
<1>5. \A u \in Threads : Counting(u, b)' => Counting(u, b) /\ u # t
  BY <1>1, <1>2 DEF Counting
<1>6. \A u \in Threads :
        /\ u # t => (Signing(u, b)' <=> Signing(u, b))
        /\ u = t => (Signing(u, b)' <=> b = c)
  <2>1. \A u \in Threads : u # t => (Signing(u, b)' <=> Signing(u, b))
    BY <1>1, <1>2 DEF Signing
  <2>2. Signing(t, b)' <=> b = c
    BY <1>1, <1>2 DEF Signing
  <2> QED
    BY <2>1, <2>2
<1>7. CASE b # c
  <2>1. buckets'[b] = buckets[b]
    BY <1>1, <1>7, TypeFacts
  <2>2. CounterHeld(b)'
    BY <2>1, <1>1, <1>2, <1>4, <1>5 DEF CounterHeld
  <2>3. SigningBelow(b)' /\ IssuedBelow(b)'
    BY <2>1, <1>1, <1>4, <1>6, <1>7 DEF SigningBelow, IssuedBelow, Issued
  <2> QED
    BY <2>2, <2>3
<1>8. CASE b = c
  <2>1. height[t] = buckets[b] /\ loaded[t] = buckets[b] /\ \A u \in Threads : Counting(u, b) => u = t
    BY <1>1, <1>3, <1>4, <1>8 DEF CounterHeld
  <2>2. buckets[b] \in Nat /\ buckets'[b] = buckets[b] + 1
    BY <2>1, <1>1, <1>8, TypeFacts
  <2>3. CounterHeld(b)'
    BY <2>1, <1>5 DEF CounterHeld
  <2>4. \A u \in Threads : height[u] \in Nat
    BY TypeFacts
  <2>5. \A u \in Threads : Signing(u, b)' /\ u # t => height[u] < buckets[b]
    BY <1>4, <1>6 DEF SigningBelow
  <2>6. SigningBelow(b)'
    <3>1. \A u \in Threads : Signing(u, b)' => height'[u] < buckets'[b]
      BY <2>1, <2>2, <2>4, <2>5, <1>1
    <3>2. ASSUME NEW u \in Threads, NEW v \in Threads,
                 Signing(u, b)', Signing(v, b)', height[u] = height[v]
          PROVE  u = v
      <4>1. CASE u = t \/ v = t
        BY <3>2, <4>1, <2>1, <2>2, <2>5
      <4>2. CASE u # t /\ v # t
        BY <3>2, <4>2, <1>4, <1>6 DEF SigningBelow
      <4> QED
        BY <4>1, <4>2
    <3> QED
      BY <3>1, <3>2, <1>1 DEF SigningBelow
  <2>7. IssuedBelow(b)'
    <3> SUFFICES ASSUME NEW i \in 1..Len(issued), Issued(i, b)
                 PROVE  /\ issued[i].height < buckets'[b]
                        /\ \A u \in Threads : Signing(u, b)' => issued[i].height # height[u]
                        /\ \A j \in 1..Len(issued) : issued[j] = issued[i] => i = j
      BY <1>1 DEF IssuedBelow, Issued
    <3>1. issued[i] \in Index
      BY TypeFacts
    <3>2. issued[i].height \in Nat
      BY <3>1 DEF Index
    <3>3. /\ issued[i].height < buckets[b]
          /\ \A u \in Threads : Signing(u, b) => issued[i].height # height[u]
          /\ \A j \in 1..Len(issued) : issued[j] = issued[i] => i = j
      BY <1>4 DEF IssuedBelow
    <3>4. issued[i].height < buckets'[b] /\ issued[i].height # height[t]
      BY <3>2, <3>3, <2>1, <2>2
    <3> QED
      BY <3>3, <3>4, <1>6
  <2> QED
    BY <2>3, <2>6, <2>7
<1> QED
  BY <1>7, <1>8

LEMMA SignApart ==
  ASSUME TypeOK, Apart, NEW t \in Threads, Sign(t)
  PROVE  Apart'
<1> DEFINE c == bucket[t]
           e == [bucket |-> c, height |-> height[t]]
           n == Len(issued)
<1>1. /\ pc[t] = "sign"
      /\ pc' = [pc EXCEPT ![t] = "idle"]
      /\ issued' = Append(issued, e)
      /\ UNCHANGED <<buckets, bucket, height, loaded, raced>>
  BY DEF Sign, Moves
<1>2. pc'[t] = "idle" /\ \A u \in Threads : u # t => pc'[u] = pc[u]
  BY <1>1, TypeFacts
<1>3. e \in Index
  BY TypeFacts DEF Index
<1>4. /\ n \in Nat
      /\ Len(issued') = n + 1
      /\ issued'[n + 1] = e
      /\ \A i \in 1..n : issued'[i] = issued[i]
  BY <1>1, <1>3, TypeFacts, AppendProperties
<1>5. \A i \in 1..Len(issued') : i \in 1..n \/ i = n + 1
  BY <1>4
<1>6. Signing(t, c)
  BY <1>1 DEF Signing
<1> SUFFICES ASSUME NEW b \in Buckets \ raced
             PROVE  CounterHeld(b)' /\ SigningBelow(b)' /\ IssuedBelow(b)'
  BY <1>1 DEF Apart
<1>7. CounterHeld(b) /\ SigningBelow(b) /\ IssuedBelow(b)
  BY DEF Apart
<1>8. \A u \in Threads : Counting(u, b)' => Counting(u, b) /\ u # t
  BY <1>1, <1>2 DEF Counting
<1>9. \A u \in Threads : Signing(u, b)' => Signing(u, b) /\ u # t
  BY <1>1, <1>2 DEF Signing
<1>10. CounterHeld(b)'
  BY <1>1, <1>2, <1>7, <1>8 DEF CounterHeld
<1>11. SigningBelow(b)'
  BY <1>1, <1>7, <1>9 DEF SigningBelow
<1>12. ASSUME c = b
       PROVE  /\ height[t] < buckets[b]
              /\ \A u \in Threads : Signing(u, b)' => height[t] # height[u]
              /\ \A j \in 1..n : issued[j] # e
  <2>1. height[t] < buckets[b] /\ \A u \in Threads : Signing(u, b)' => height[t] # height[u]
    BY <1>6, <1>7, <1>9, <1>12 DEF SigningBelow
  <2>2. \A j \in 1..n : Issued(j, b) => issued[j].height # height[t]
    BY <1>6, <1>7, <1>12 DEF IssuedBelow
  <2>3. \A j \in 1..n : issued[j] = e => Issued(j, b)
    BY <1>12 DEF Issued
  <2> QED
    BY <2>1, <2>2, <2>3
<1> HIDE DEF e
<1>13. e.bucket = c /\ e.height = height[t]
  BY DEF e
<1>14. IssuedBelow(b)'
  <2> SUFFICES ASSUME NEW i \in 1..Len(issued'), issued'[i].bucket = b
               PROVE  /\ issued'[i].height < buckets[b]
                      /\ \A u \in Threads : Signing(u, b)' => issued'[i].height # height[u]
                      /\ \A j \in 1..Len(issued') : issued'[j] = issued'[i] => i = j
    BY <1>1 DEF IssuedBelow, Issued
  <2>1. CASE i \in 1..n
    <3>1. issued'[i] = issued[i]
      BY <2>1, <1>4
    <3>2. Issued(i, b)
      BY <3>1 DEF Issued
    <3>3. /\ issued[i].height < buckets[b]
          /\ \A u \in Threads : Signing(u, b)' => issued[i].height # height[u]
          /\ \A j \in 1..n : issued[j] = issued[i] => i = j
      BY <2>1, <3>2, <1>7, <1>9 DEF IssuedBelow
    <3>4. issued'[n + 1] # issued'[i]
      BY <2>1, <3>1, <1>4, <1>12, <1>13
    <3> QED
      BY <3>1, <3>3, <3>4, <1>4, <1>5
  <2>2. CASE i = n + 1
    <3>1. issued'[i] = e /\ c = b
      BY <2>2, <1>4, <1>13
    <3>2. \A j \in 1..n : issued'[j] # e
      BY <3>1, <1>4, <1>12
    <3> QED
      BY <3>1, <3>2, <2>2, <1>5, <1>12, <1>13
  <2> QED
    BY <2>1, <2>2, <1>5
<1> QED
  BY <1>10, <1>11, <1>14

LEMMA ApartStep == TypeOK /\ Apart /\ [Next]_vars => Apart'
<1> SUFFICES ASSUME TypeOK, Apart, [Next]_vars PROVE Apart'
  OBVIOUS
<1>1. CASE UNCHANGED vars
  BY <1>1 DEF vars, local, history, Apart, CounterHeld, SigningBelow, IssuedBelow, Counting,
     Signing, Issued
<1>2. CASE Next
  BY <1>2, StampApart, QuietApart, StoreApart, SignApart DEF Next
<1> QED
  BY <1>1, <1>2

(***************************************************************************)
(* A call gets past the check only with a height below the limit, and      *)
(* keeps it until the stamp is returned.                                   *)
(***************************************************************************)
LEMMA RangeStep ==
  TypeOK /\ Checked /\ HeightInRange /\ [Next]_vars => Checked' /\ HeightInRange'
<1> SUFFICES ASSUME TypeOK, Checked, HeightInRange, [Next]_vars
             PROVE  Checked' /\ HeightInRange'
  OBVIOUS
<1>1. ASSUME NEW t \in Threads, NEW b \in Buckets, Stamp(t, b)
      PROVE  Checked' /\ HeightInRange'
  BY <1>1, TypeFacts DEF Stamp, Moves, Checked, HeightInRange
<1>2. ASSUME NEW t \in Threads, Refuse(t)
      PROVE  Checked' /\ HeightInRange'
  BY <1>2, TypeFacts DEF Refuse, Moves, Checked, HeightInRange
<1>3. ASSUME NEW t \in Threads, Proceed(t)
      PROVE  Checked' /\ HeightInRange'
  <2>1. height[t] < MaxSlot
    BY <1>3, TypeFacts, LimitIsInt DEF Proceed, IsFull
  <2> QED
    BY <1>3, <2>1, TypeFacts DEF Proceed, Moves, history, Checked, HeightInRange
<1>4. ASSUME NEW t \in Threads, Load(t)
      PROVE  Checked' /\ HeightInRange'
  BY <1>4, TypeFacts DEF Load, Moves, history, Checked, HeightInRange
<1>5. ASSUME NEW t \in Threads, Store(t)
      PROVE  Checked' /\ HeightInRange'
  BY <1>5, TypeFacts DEF Store, Moves, history, Checked, HeightInRange
<1>6. ASSUME NEW t \in Threads, Sign(t)
      PROVE  Checked' /\ HeightInRange'
  <2> DEFINE e == [bucket |-> bucket[t], height |-> height[t]]
  <2>1. Checked'
    BY <1>6, TypeFacts DEF Sign, Moves, Checked
  <2>2. e \in Index /\ e.height < MaxSlot
    BY <1>6, TypeFacts DEF Sign, Moves, Index, Checked
  <2>3. issued' = Append(issued, e)
    BY <1>6 DEF Sign
  <2> HIDE DEF e
  <2>4. /\ Len(issued') = Len(issued) + 1
        /\ issued'[Len(issued) + 1] = e
        /\ \A i \in 1..Len(issued) : issued'[i] = issued[i]
    BY <2>2, <2>3, TypeFacts, AppendProperties
  <2>5. HeightInRange'
    <3> SUFFICES ASSUME NEW i \in 1..Len(issued')
                 PROVE  issued'[i].height < MaxSlot
      BY DEF HeightInRange
    <3>1. CASE i \in 1..Len(issued)
      BY <3>1, <2>4 DEF HeightInRange
    <3>2. CASE i = Len(issued) + 1
      BY <3>2, <2>2, <2>4
    <3> QED
      BY <3>1, <3>2, <2>4, TypeFacts
  <2> QED
    BY <2>1, <2>5
<1>7. ASSUME NEW t \in Threads, SignFails(t)
      PROVE  Checked' /\ HeightInRange'
  BY <1>7, TypeFacts DEF SignFails, Moves, Checked, HeightInRange
<1>8. CASE UNCHANGED vars
  BY <1>8 DEF vars, local, history, Checked, HeightInRange
<1> QED
  BY <1>1, <1>2, <1>3, <1>4, <1>5, <1>6, <1>7, <1>8 DEF Next

-----------------------------------------------------------------------------

LEMMA StamperInvAlways == Spec => []StamperInv
<1>1. StamperInv /\ [Next]_vars => StamperInv'
  BY TypeStep, ApartStep, RangeStep DEF StamperInv
<1> QED
  BY <1>1, StamperInvInit, PTL DEF Spec

(* Every variable keeps its type.                                          *)
THEOREM StamperTypes == Spec => []TypeOK
<1>1. StamperInv => TypeOK
  BY DEF StamperInv
<1> QED
  BY <1>1, StamperInvAlways, PTL

(***************************************************************************)
(* Two stamps share an index only in a bucket on which two calls of Stamp  *)
(* counted at the same time, whatever other buckets were raced on and      *)
(* however the calls that sign overlap or fail.                            *)
(***************************************************************************)
THEOREM IndexesUnique == Spec => []UniqueIndex
<1>1. StamperInv => UniqueIndex
  <2> SUFFICES ASSUME StamperInv, NEW i \in 1..Len(issued), NEW j \in 1..Len(issued),
                      i # j, issued[i] = issued[j], issued[i].bucket \notin raced
               PROVE  FALSE
    BY DEF UniqueIndex
  <2>1. issued[i] \in Index
    BY TypeFacts DEF StamperInv
  <2>2. issued[i].bucket \in Buckets \ raced
    BY <2>1 DEF Index
  <2>3. IssuedBelow(issued[i].bucket)
    BY <2>2 DEF StamperInv, Apart
  <2> QED
    BY <2>3 DEF IssuedBelow, Issued
<1> QED
  BY <1>1, StamperInvAlways, PTL

(***************************************************************************)
(* No stamp has a height beyond its bucket, also when calls race.          *)
(***************************************************************************)
THEOREM HeightsInRange == Spec => []HeightInRange
<1>1. StamperInv => HeightInRange
  BY DEF StamperInv
<1> QED
  BY <1>1, StamperInvAlways, PTL

-----------------------------------------------------------------------------
(* Counting the indexes.                                                   *)

IssuedOf(b) == {i \in 1..Len(issued) : issued[i].bucket = b}
SigningOf(b) == {t \in Threads : pc[t] = "sign" /\ bucket[t] = b}

(* Without a race the counter is the number of indexes spent, and a bucket *)
(* that was reported full has reached the limit.                           *)
Tallied(b) ==
  /\ Spent(b) = buckets[b]
  /\ buckets[b] <= MaxSlot
  /\ b \in refused => buckets[b] >= MaxSlot

Tally == \A b \in Buckets \ raced : Tallied(b)

LEMMA SpentParts ==
  ASSUME TypeOK, NEW b
  PROVE  /\ Spent(b) = Cardinality(IssuedOf(b)) + burnt[b] + Cardinality(SigningOf(b))
         /\ IsFiniteSet(IssuedOf(b)) /\ Cardinality(IssuedOf(b)) \in Nat
         /\ IsFiniteSet(SigningOf(b)) /\ Cardinality(SigningOf(b)) \in Nat
<1>1. IsFiniteSet(1..Len(issued))
  BY TypeFacts, FS_Interval
<1>2. IsFiniteSet(IssuedOf(b))
  BY <1>1, FS_Subset DEF IssuedOf
<1>3. IsFiniteSet(SigningOf(b))
  BY BoundsAssumption, FS_Subset DEF SigningOf
<1>4. Spent(b) = Cardinality(IssuedOf(b)) + burnt[b] + Cardinality(SigningOf(b))
  BY DEF Spent, IssuedOf, SigningOf
<1> QED
  BY <1>2, <1>3, <1>4, FS_CardinalityType

LEMMA TallyInit == Init => Tally
<1> SUFFICES ASSUME Init, NEW b \in Buckets PROVE Tallied(b)
  BY DEF Tally
<1>1. TypeOK
  BY StamperInvInit DEF StamperInv
<1>2. IssuedOf(b) = {} /\ SigningOf(b) = {}
  BY DEF Init, IssuedOf, SigningOf
<1>3. Spent(b) = 0
  BY <1>1, <1>2, SpentParts, FS_EmptySet DEF Init
<1>4. MaxSlot >= 0
  BY DepthAssumption, BoundsAssumption DEF MaxSlot
<1> QED
  BY <1>3, <1>4 DEF Init, Tallied

(* A step that spends no index of b and lets none be signed.               *)
LEMMA TallyStays ==
  ASSUME NEW b, Tallied(b), SigningOf(b)' = SigningOf(b),
         buckets' = buckets, issued' = issued, burnt' = burnt,
         b \in refused' => b \in refused \/ buckets[b] >= MaxSlot
  PROVE  Tallied(b)'
<1>1. Spent(b)' = Spent(b)
  BY DEF Spent, SigningOf
<1> QED
  BY <1>1 DEF Tallied

(* The index that a call has counted on is about to be signed.             *)
LEMMA TallyStore ==
  ASSUME StamperInv, TypeOK', NEW t \in Threads, Store(t), NEW b \in Buckets \ raced, Tallied(b)
  PROVE  Tallied(b)'
<1>0. TypeOK /\ TypeOK'
  BY DEF StamperInv
<1>1. /\ pc[t] = "store" /\ pc' = [pc EXCEPT ![t] = "sign"]
      /\ buckets' = [buckets EXCEPT ![bucket[t]] = loaded[t] + 1]
      /\ bucket' = bucket /\ issued' = issued /\ burnt' = burnt /\ refused' = refused
  BY DEF Store, Stores, Moves, history
<1>2. CASE bucket[t] = b
  <2>1. Counting(t, b)
    BY <1>1, <1>2 DEF Counting
  <2>2. loaded[t] = buckets[b] /\ height[t] = buckets[b]
    BY <1>1, <2>1 DEF StamperInv, Apart, CounterHeld
  <2>3. height[t] < MaxSlot
    BY <1>1 DEF StamperInv, Checked
  <2>4. buckets[b] \in Nat /\ buckets'[b] = buckets[b] + 1
    BY <1>0, <1>1, <1>2, <2>2 DEF TypeOK
  <2>5. SigningOf(b)' = SigningOf(b) \cup {t} /\ t \notin SigningOf(b)
    BY <1>0, <1>1, <1>2 DEF SigningOf, TypeOK
  <2>6. Cardinality(SigningOf(b)') = Cardinality(SigningOf(b)) + 1
    BY <1>0, <2>5, SpentParts, FS_AddElement
  <2>7. IssuedOf(b)' = IssuedOf(b)
    BY <1>1 DEF IssuedOf
  <2>8. Spent(b)' = Cardinality(IssuedOf(b)) + burnt[b] + Cardinality(SigningOf(b)')
    BY <1>1, <2>7 DEF Spent, IssuedOf, SigningOf
  <2>9. Spent(b)' = Spent(b) + 1
    <3>1. burnt[b] \in Nat
      BY <1>0 DEF TypeOK
    <3>2. /\ Cardinality(IssuedOf(b)) \in Nat /\ Cardinality(SigningOf(b)) \in Nat
          /\ Spent(b) = Cardinality(IssuedOf(b)) + burnt[b] + Cardinality(SigningOf(b))
      BY <1>0, SpentParts
    <3> QED
      BY <2>6, <2>8, <3>1, <3>2
  <2>10. buckets'[b] <= MaxSlot
    BY <2>2, <2>3, <2>4, LimitIsInt
  <2>11. b \notin refused'
    BY <1>1, <2>2, <2>3, <2>4, LimitIsInt DEF Tallied
  <2> QED
    BY <2>4, <2>9, <2>10, <2>11 DEF Tallied
<1>3. CASE bucket[t] # b
  <2>1. SigningOf(b)' = SigningOf(b)
    BY <1>0, <1>1, <1>3 DEF SigningOf, TypeOK
  <2>2. Spent(b)' = Spent(b)
    BY <1>1, <2>1 DEF Spent, SigningOf
  <2>3. buckets'[b] = buckets[b]
    BY <1>0, <1>1, <1>3 DEF TypeOK
  <2> QED
    BY <1>1, <2>2, <2>3 DEF Tallied
<1> QED
  BY <1>2, <1>3

(* Signed or not, the index moves from those to be signed to the others.   *)
LEMMA TallySigned ==
  ASSUME StamperInv, TypeOK', NEW t \in Threads, Sign(t) \/ SignFails(t),
         NEW b \in Buckets \ raced, Tallied(b)
  PROVE  Tallied(b)'
<1>0. TypeOK /\ TypeOK'
  BY DEF StamperInv
<1>1. /\ pc[t] = "sign" /\ pc' = [pc EXCEPT ![t] = "idle"]
      /\ buckets' = buckets /\ bucket' = bucket /\ refused' = refused
  BY DEF Sign, SignFails, Moves
<1>2. IssuedOf(b) \subseteq 1..Len(issued) /\ Len(issued) \in Nat
  BY <1>0, TypeFacts DEF IssuedOf
<1>3. CASE bucket[t] = b
  <2>1. SigningOf(b)' = SigningOf(b) \ {t} /\ t \in SigningOf(b)
    BY <1>0, <1>1, <1>3 DEF SigningOf, TypeOK
  <2>2. Cardinality(SigningOf(b)') = Cardinality(SigningOf(b)) - 1
    BY <1>0, <2>1, SpentParts, FS_RemoveElement
  <2>0. Cardinality(IssuedOf(b)) \in Nat
    BY <1>0, SpentParts
  <2>5. burnt'[b] \in Nat /\ burnt[b] \in Nat
    BY <1>0 DEF TypeOK
  <2>3. Cardinality(IssuedOf(b)') + burnt'[b] = Cardinality(IssuedOf(b)) + burnt[b] + 1
    <3>1. CASE Sign(t)
      <4> DEFINE e == [bucket |-> bucket[t], height |-> height[t]]
      <4>1. e \in Index /\ e.bucket = b
        BY <1>0, <1>3 DEF Index, TypeOK
      <4>2. issued' = Append(issued, e) /\ burnt' = burnt
        BY <3>1 DEF Sign
      <4> HIDE DEF e
      <4>3. /\ Len(issued') = Len(issued) + 1
            /\ issued'[Len(issued) + 1] = e
            /\ \A i \in 1..Len(issued) : issued'[i] = issued[i]
        BY <1>0, <4>1, <4>2, TypeFacts, AppendProperties
      <4>4. IssuedOf(b)' = IssuedOf(b) \cup {Len(issued) + 1}
        BY <1>2, <4>1, <4>3 DEF IssuedOf
      <4>5. Len(issued) + 1 \notin IssuedOf(b)
        BY <1>2
      <4>6. Cardinality(IssuedOf(b)') = Cardinality(IssuedOf(b)) + 1
        BY <1>0, <4>4, <4>5, SpentParts, FS_AddElement
      <4> QED
        BY <4>2, <4>6, <2>5, <2>0
    <3>2. CASE SignFails(t)
      <4>1. issued' = issued /\ burnt' = [burnt EXCEPT ![bucket[t]] = @ + 1]
        BY <3>2 DEF SignFails
      <4>2. burnt'[b] = burnt[b] + 1
        BY <1>0, <1>3, <4>1 DEF TypeOK
      <4>3. IssuedOf(b)' = IssuedOf(b)
        BY <4>1 DEF IssuedOf
      <4> QED
        BY <4>2, <4>3, <2>5, <2>0
    <3> QED
      BY <3>1, <3>2
  <2>4. Spent(b)' = Cardinality(IssuedOf(b)') + burnt'[b] + Cardinality(SigningOf(b)')
    BY DEF Spent, IssuedOf, SigningOf
  <2>6. IsFiniteSet(IssuedOf(b)') /\ Cardinality(IssuedOf(b)') \in Nat
    <3>1. IsFiniteSet((1..Len(issued))')
      BY <1>0, FS_Interval, LenProperties DEF TypeOK
    <3>2. IsFiniteSet(IssuedOf(b)')
      BY <3>1, FS_Subset DEF IssuedOf
    <3> QED
      BY <3>2, FS_CardinalityType
  <2>7. Spent(b)' = Spent(b)
    BY <1>0, <2>2, <2>3, <2>4, <2>5, <2>6, SpentParts
  <2> QED
    BY <1>1, <2>7 DEF Tallied
<1>4. CASE bucket[t] # b
  <2>1. SigningOf(b)' = SigningOf(b)
    BY <1>0, <1>1, <1>4 DEF SigningOf, TypeOK
  <2>2. IssuedOf(b)' = IssuedOf(b) /\ burnt'[b] = burnt[b]
    <3>1. CASE Sign(t)
      <4> DEFINE e == [bucket |-> bucket[t], height |-> height[t]]
      <4>1. e \in Index /\ e.bucket # b
        BY <1>0, <1>4 DEF Index, TypeOK
      <4>2. issued' = Append(issued, e) /\ burnt' = burnt
        BY <3>1 DEF Sign
      <4> HIDE DEF e
      <4>3. /\ Len(issued') = Len(issued) + 1
            /\ issued'[Len(issued) + 1] = e
            /\ \A i \in 1..Len(issued) : issued'[i] = issued[i]
        BY <1>0, <4>1, <4>2, TypeFacts, AppendProperties
      <4> QED
        BY <1>2, <4>1, <4>2, <4>3 DEF IssuedOf
    <3>2. CASE SignFails(t)
      <4>1. issued' = issued /\ burnt' = [burnt EXCEPT ![bucket[t]] = @ + 1]
        BY <3>2 DEF SignFails
      <4> QED
        BY <1>0, <1>4, <4>1 DEF IssuedOf, TypeOK
    <3> QED
      BY <3>1, <3>2
  <2>3. Spent(b)' = Cardinality(IssuedOf(b)') + burnt'[b] + Cardinality(SigningOf(b)')
    BY DEF Spent, IssuedOf, SigningOf
  <2>4. Spent(b)' = Spent(b)
    BY <1>0, <2>1, <2>2, <2>3, SpentParts
  <2> QED
    BY <1>1, <2>4 DEF Tallied
<1> QED
  BY <1>3, <1>4

LEMMA TallyStep == StamperInv /\ Tally /\ [Next]_vars => Tally'
<1> SUFFICES ASSUME StamperInv, Tally, [Next]_vars, NEW b \in Buckets \ raced'
             PROVE  Tallied(b)'
  BY DEF Tally
<1>0. TypeOK /\ TypeOK'
  BY TypeStep DEF StamperInv
<1>1. raced \subseteq raced'
  BY DEF Next, Stamp, Refuse, Proceed, Load, Store, Sign, SignFails, vars, history
<1>2. Tallied(b) /\ b \in Buckets \ raced
  BY <1>1 DEF Tally
<1>3. ASSUME NEW t \in Threads, NEW c \in Buckets, Stamp(t, c) PROVE Tallied(b)'
  <2>1. /\ pc[t] = "idle" /\ pc' = [pc EXCEPT ![t] = "check"]
        /\ bucket' = [bucket EXCEPT ![t] = c]
        /\ buckets' = buckets /\ issued' = issued /\ burnt' = burnt /\ refused' = refused
    BY <1>3 DEF Stamp, Moves
  <2>2. SigningOf(b)' = SigningOf(b)
    BY <1>0, <2>1 DEF SigningOf, TypeOK
  <2> QED
    BY <1>2, <2>1, <2>2, TallyStays
<1>4. ASSUME NEW t \in Threads, Refuse(t) PROVE Tallied(b)'
  <2>1. /\ pc[t] = "check" /\ pc' = [pc EXCEPT ![t] = "idle"] /\ bucket' = bucket
        /\ buckets' = buckets /\ issued' = issued /\ burnt' = burnt
        /\ refused' = refused \cup {bucket[t]} /\ height[t] >= MaxSlot
    BY <1>4 DEF Refuse, Moves, IsFull
  <2>2. SigningOf(b)' = SigningOf(b)
    BY <1>0, <2>1 DEF SigningOf, TypeOK
  <2>3. bucket[t] = b => height[t] = buckets[b]
    BY <1>2, <2>1 DEF StamperInv, Apart, CounterHeld, Counting
  <2> QED
    BY <1>2, <2>1, <2>2, <2>3, TallyStays
<1>5. ASSUME NEW t \in Threads, Proceed(t) \/ Load(t) PROVE Tallied(b)'
  <2>1. /\ pc[t] \in {"check", "load"}
        /\ \E to \in {"load", "store"} : pc' = [pc EXCEPT ![t] = to]
        /\ bucket' = bucket /\ buckets' = buckets
        /\ issued' = issued /\ burnt' = burnt /\ refused' = refused
    BY <1>5 DEF Proceed, Load, Moves, history
  <2>2. SigningOf(b)' = SigningOf(b)
    BY <1>0, <2>1 DEF SigningOf, TypeOK
  <2> QED
    BY <1>2, <2>1, <2>2, TallyStays
<1>6. ASSUME NEW t \in Threads, Store(t) PROVE Tallied(b)'
  BY <1>0, <1>2, <1>6, TallyStore
<1>7. ASSUME NEW t \in Threads, Sign(t) \/ SignFails(t) PROVE Tallied(b)'
  BY <1>0, <1>2, <1>7, TallySigned
<1>8. CASE UNCHANGED vars
  BY <1>2, <1>8, TallyStays DEF vars, local, history, SigningOf
<1> QED
  BY <1>3, <1>4, <1>5, <1>6, <1>7, <1>8 DEF Next

(***************************************************************************)
(* Without a race, a bucket is reported full only when its indexes are     *)
(* spent, all that the batch has: signed, lost to failed signatures or     *)
(* about to be signed; as long as their number fits the word of the        *)
(* counter, which NewStamper does not ask for.                             *)
(***************************************************************************)
THEOREM FullBucketsSpent ==
  ASSUME 2^(Depth - BucketBits) \in 0..(Word - 1)
  PROVE  Spec => []FullMeansSpent
<1>1. MaxSlot = 2^(Depth - BucketBits)
  BY BoundsAssumption DEF MaxSlot
<1>2. StamperInv /\ Tally => FullMeansSpent
  <2> SUFFICES ASSUME StamperInv, Tally, NEW b \in refused \ raced
               PROVE  Spent(b) = MaxSlot
    BY <1>1 DEF FullMeansSpent
  <2>1. TypeOK
    BY DEF StamperInv
  <2>2. b \in Buckets \ raced /\ buckets[b] \in Nat
    BY <2>1 DEF TypeOK
  <2>3. Tallied(b)
    BY <2>2 DEF Tally
  <2> QED
    BY <2>2, <2>3, LimitIsInt DEF Tallied
<1>3. StamperInv /\ [Next]_vars => StamperInv'
  BY TypeStep, ApartStep, RangeStep DEF StamperInv
<1> QED
  BY <1>2, <1>3, StamperInvInit, TallyInit, TallyStep, PTL DEF Spec

=============================================================================
