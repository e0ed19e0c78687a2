-------------------------- MODULE FileChunker_proofs --------------------------
(***************************************************************************)
(* Theorems about FileChunker, for every chunk size and fan-out: first the *)
(* level stack and the references in it, then the coverage of the input,   *)
(* then that the chunks are those of FileHash, and last that every step of *)
(* a call brings it nearer to its return.                                  *)
(***************************************************************************)
EXTENDS FileChunkerRefinement, WellFoundedInduction, SequenceTheorems, TLAPS

USE DEF Room, IsFull, Emptied, Unfed, PartialLeaf, NextLevel

(***************************************************************************)
(* A nonempty set of naturals has a least element.  It replaces induction  *)
(* over the length of a sequence: a counterexample would have a shortest   *)
(* one.                                                                    *)
(***************************************************************************)
LEMMA LeastNatural ==
  ASSUME NEW S \in SUBSET Nat, S # {}
  PROVE  \E n \in S : \A m \in S : n <= m
<1>1. PICK n \in S : \A m \in S : ~ (<<m, n>> \in OpToRel(<, Nat))
  BY WFMin, NatLessThanWellFounded
<1>2. \A m \in S : ~ (m < n)
  BY <1>1 DEF OpToRel
<1> QED
  BY <1>2

(***************************************************************************)
(* The running totals that define TotalSpan exist.                         *)
(***************************************************************************)
LEMMA RunningTotals ==
  ASSUME NEW refs \in Seq(Ref)
  PROVE  \E f \in [0..Len(refs) -> Nat] :
           f = [i \in 0..Len(refs) |-> IF i = 0 THEN 0 ELSE f[i-1] + refs[i].span]
<1> DEFINE OK(k) == \E f \in [0..k -> Nat] :
                      f = [i \in 0..k |-> IF i = 0 THEN 0 ELSE f[i-1] + refs[i].span]
           Bad   == {k \in 0..Len(refs) : ~ OK(k)}
<1>1. SUFFICES ASSUME Bad # {} PROVE FALSE
  <2>1. SUFFICES OK(Len(refs))
    OBVIOUS
  <2> HIDE DEF OK
  <2> QED
    BY LenProperties
<1>2. PICK k \in Bad : \A m \in Bad : k <= m
  <2> HIDE DEF OK
  <2> Bad \in SUBSET Nat
    BY LenProperties
  <2> QED
    BY <1>1, LeastNatural
<1>3. k # 0
  <2> DEFINE f == [i \in 0..0 |-> 0]
  <2>1. f \in [0..0 -> Nat]
    OBVIOUS
  <2>2. f = [i \in 0..0 |-> IF i = 0 THEN 0 ELSE f[i-1] + refs[i].span]
    OBVIOUS
  <2> QED
    BY <2>1, <2>2
<1>4. k - 1 \in Nat /\ k \in 1..Len(refs) /\ OK(k - 1)
  <2> HIDE DEF OK
  <2> QED
    BY <1>2, <1>3, LenProperties
<1>5. PICK f \in [0..(k-1) -> Nat] :
        f = [i \in 0..(k-1) |-> IF i = 0 THEN 0 ELSE f[i-1] + refs[i].span]
  BY <1>4
<1> DEFINE g == [i \in 0..k |-> IF i = k THEN f[k-1] + refs[k].span ELSE f[i]]
<1>6. g \in [0..k -> Nat]
  <2>1. refs[k] \in Ref
    BY <1>4, ElementOfSeq
  <2> QED
    BY <1>4, <2>1, SMTT(20) DEF Ref
<1>7. g = [i \in 0..k |-> IF i = 0 THEN 0 ELSE g[i-1] + refs[i].span]
  <2> \A i \in 0..k : g[i] = IF i = 0 THEN 0 ELSE g[i-1] + refs[i].span
    BY <1>4, <1>5
  <2> QED
    BY Zenon
<1> QED
  BY <1>6, <1>7

(***************************************************************************)
(* If c counts up by the span of each reference in turn, TotalSpan is the  *)
(* distance from its first value to its last.                              *)
(***************************************************************************)
LEMMA TotalSpanTelescopes ==
  ASSUME NEW refs \in Seq(Ref), NEW c \in [0..Len(refs) -> Nat],
         \A i \in 1..Len(refs) : c[i] = c[i-1] + refs[i].span
  PROVE  TotalSpan(refs) = c[Len(refs)] - c[0]
<1> DEFINE n == Len(refs)
           sum[i \in 0..n] == IF i = 0 THEN 0 ELSE sum[i-1] + refs[i].span
<1>0. n \in Nat
  BY LenProperties
<1>1. TotalSpan(refs) = sum[n]
  BY DEF TotalSpan
<1>2. sum = [i \in 0..n |-> IF i = 0 THEN 0 ELSE sum[i-1] + refs[i].span]
  <2>1. \E f : f = [i \in 0..n |-> IF i = 0 THEN 0 ELSE f[i-1] + refs[i].span]
    BY RunningTotals
  <2> QED
    BY <2>1
<1> HIDE DEF sum
<1>3. \A i \in 1..n : refs[i].span \in Nat
  <2> TAKE i \in 1..n
  <2>1. refs[i] \in Ref
    BY ElementOfSeq
  <2> QED
    BY <2>1 DEF Ref
<1> DEFINE Bad == {i \in 0..n : sum[i] # c[i] - c[0]}
<1>4. Bad = {}
  <2>1. SUFFICES ASSUME Bad # {} PROVE FALSE
    OBVIOUS
  <2>2. PICK k \in Bad : \A m \in Bad : k <= m
    <3> Bad \in SUBSET Nat
      BY <1>0
    <3> QED
      BY <2>1, LeastNatural
  <2>3. k # 0
    BY <1>0, <1>2
  <2>4. k - 1 \in 0..n /\ sum[k-1] = c[k-1] - c[0]
    BY <1>0, <2>2, <2>3
  <2>5. sum[k] = sum[k-1] + refs[k].span
    BY <1>0, <1>2, <2>3
  <2>6. k \in 1..n /\ c[k] = c[k-1] + refs[k].span
    BY <1>0, <2>3
  <2>7. c[0] \in Nat /\ c[k-1] \in Nat /\ refs[k].span \in Nat
    BY <1>0, <1>3, <2>4, <2>6
  <2>8. sum[k] # c[k] - c[0]
    BY <2>2
  <2> QED
    BY <2>4, <2>5, <2>6, <2>7, <2>8
<1> QED
  BY <1>0, <1>1, <1>4

LEMMA TotalSpanType ==
  ASSUME NEW refs \in Seq(Ref), refs # <<>>
  PROVE  TotalSpan(refs) \in Nat \ {0}
<1> DEFINE n == Len(refs)
<1>0. n \in Nat \ {0}
  BY LenProperties, EmptySeq
<1>1. PICK f \in [0..n -> Nat] :
        f = [i \in 0..n |-> IF i = 0 THEN 0 ELSE f[i-1] + refs[i].span]
  BY RunningTotals
<1>2. f[0] = 0 /\ \A i \in 1..n : f[i] = f[i-1] + refs[i].span
  BY <1>0, <1>1
<1>3. TotalSpan(refs) = f[n] - f[0]
  BY <1>2, TotalSpanTelescopes
<1>4. f[n] = f[n-1] + refs[n].span /\ f[n-1] \in Nat
  BY <1>0, <1>2
<1>5. refs[n].span \in Nat \ {0}
  <2>1. refs[n] \in Ref
    BY <1>0, ElementOfSeq
  <2> QED
    BY <2>1 DEF Ref
<1> QED
  BY <1>2, <1>3, <1>4, <1>5

-----------------------------------------------------------------------------
(***************************************************************************)
(* The level stack after a push.                                           *)
(***************************************************************************)
LEMMA PushProperties ==
  ASSUME NEW lv \in Seq(Seq(Ref)), NEW l \in 1..(Len(lv) + 1), NEW ref \in Ref
  PROVE  /\ Push(lv, l, ref) \in Seq(Seq(Ref))
         /\ Len(Push(lv, l, ref)) = IF l > Len(lv) THEN l ELSE Len(lv)
         /\ Push(lv, l, ref)[l] = Append(IF l > Len(lv) THEN <<>> ELSE lv[l], ref)
         /\ \A i \in 1..Len(lv) : i # l => Push(lv, l, ref)[i] = lv[i]
<1> DEFINE g == Grow(lv, l, <<>>)
<1>0. Len(lv) \in Nat /\ l \in Nat
  BY LenProperties
<1>1. /\ g \in Seq(Seq(Ref))
      /\ Len(g) = IF l > Len(lv) THEN l ELSE Len(lv)
      /\ g[l] = IF l > Len(lv) THEN <<>> ELSE lv[l]
      /\ \A i \in 1..Len(lv) : g[i] = lv[i]
  <2>1. <<>> \in Seq(Ref)
    BY EmptySeq
  <2>2. CASE l > Len(lv)
    <3>1. l = Len(lv) + 1 /\ g = Append(lv, <<>>)
      BY <1>0, <2>2 DEF Grow
    <3> HIDE DEF g
    <3> QED
      BY <1>0, <2>1, <2>2, <3>1, AppendProperties
  <2>3. CASE ~ (l > Len(lv))
    BY <2>3 DEF Grow
  <2> QED
    BY <2>2, <2>3
<1> HIDE DEF g
<1>2. l \in 1..Len(g)
  BY <1>0, <1>1
<1>3. g[l] \in Seq(Ref)
  BY <1>1, <1>2, ElementOfSeq
<1>4. Append(g[l], ref) \in Seq(Ref)
  BY <1>3, AppendProperties
<1>5. Push(lv, l, ref) = [g EXCEPT ![l] = Append(g[l], ref)]
  BY DEF Push, g
<1>6. /\ Push(lv, l, ref) \in Seq(Seq(Ref))
      /\ Len(Push(lv, l, ref)) = Len(g)
      /\ \A j \in 1..Len(g) : Push(lv, l, ref)[j] = IF j = l THEN Append(g[l], ref) ELSE g[j]
  BY <1>1, <1>2, <1>4, <1>5, ExceptSeq, SMTT(60)
<1>7. Push(lv, l, ref)[l] = Append(g[l], ref)
  BY <1>2, <1>6
<1>8. \A i \in 1..Len(lv) : i # l => Push(lv, l, ref)[i] = lv[i]
  BY <1>0, <1>1, <1>6
<1> QED
  BY <1>1, <1>6, <1>7, <1>8

-----------------------------------------------------------------------------
(***************************************************************************)
(* What the points of the control flow guarantee.                          *)
(***************************************************************************)
Control ==
  /\ leafBuf <= written
  /\ pc # "leaf" => leafBuf < ChunkSize
  /\ pc = "leaf" => leafBuf > 0
  /\ pc = "collapse" => level \in 1..Len(levels) /\ levels[level] # <<>>
  /\ pc = "scan" => scan > 0 /\ levels # <<>>
  /\ Len(edge) = Len(levels) + 1

StackInv == TypeOK /\ Control /\ ReferencesEmitted /\ LevelsBounded

LEMMA StackInvInit == Init => StackInv
<1> SUFFICES ASSUME Init PROVE StackInv
  OBVIOUS
<1>1. TypeOK
  <2>1. levels \in Seq(Seq(Ref)) /\ store \in Seq(Chunk)
    BY EmptySeq DEF Init
  <2>2. edge \in Seq(Nat)
    BY DEF Init
  <2>3. leafBuf \in 0..ChunkSize
    BY ConstantsAssumption DEF Init
  <2> QED
    BY <2>1, <2>2, <2>3 DEF Init, TypeOK
<1>2. Control
  BY ConstantsAssumption DEF Init, Control
<1>3. ReferencesEmitted /\ LevelsBounded
  BY DEF Init, ReferencesEmitted, LevelsBounded, NoRef
<1> QED
  BY <1>1, <1>2, <1>3 DEF StackInv

(***************************************************************************)
(* A chunk that is accepted, once its children were, joins a level stack   *)
(* whose other references were accepted too.                               *)
(***************************************************************************)
LEMMA EmitStack ==
  ASSUME StackInv,
         NEW lv \in Seq(Seq(Ref)), NEW l \in 1..(Len(lv) + 1), NEW chunk \in Chunk,
         \A i \in 1..Len(lv) : Len(lv[i]) < MaxBranches,
         \A i \in 1..Len(lv) : \A k \in 1..Len(lv[i]) : EmittedIn(store, lv[i][k]),
         \A k \in 1..Len(chunk.kids) : chunk.kids[k] <= Len(store),
         Emit(chunk, lv, l)
  PROVE  /\ store' \in Seq(Chunk)
         /\ levels' \in Seq(Seq(Ref))
         /\ level' \in Nat /\ scan' \in Nat
         /\ pc' \in {"fill", "collapse", "scan"}
         /\ Len(levels') = IF l > Len(lv) THEN l ELSE Len(lv)
         /\ pc' = "collapse" => level' \in 1..Len(levels') /\ levels'[level'] # <<>>
         /\ pc' = "scan" => scan' > 0 /\ levels' # <<>>
         /\ ReferencesEmitted' /\ LevelsBounded'
<1> DEFINE ref == [addr |-> Len(store) + 1, span |-> chunk.span]
<1>1. /\ store \in Seq(Chunk) /\ Len(store) \in Nat
      /\ level \in Nat /\ scan \in Nat
      /\ root \in Ref \cup {NoRef} /\ root' = root
  BY LenProperties DEF StackInv, TypeOK, Emit, results
<1>2. ref \in Ref
  BY <1>1 DEF Ref, Chunk
<1>3. /\ store' \in Seq(Chunk)
      /\ Len(store') = Len(store) + 1
      /\ \A a \in 1..Len(store) : store'[a] = store[a]
      /\ store'[Len(store) + 1] = chunk
  BY <1>1, AppendProperties DEF Emit
<1>4. levels' = Push(lv, l, ref)
  BY DEF Emit
<1> HIDE DEF ref
<1>5. /\ levels' \in Seq(Seq(Ref))
      /\ Len(levels') = IF l > Len(lv) THEN l ELSE Len(lv)
      /\ levels'[l] = Append(IF l > Len(lv) THEN <<>> ELSE lv[l], ref)
      /\ \A i \in 1..Len(lv) : i # l => levels'[i] = lv[i]
  <2> DEFINE p == Push(lv, l, ref)
  <2>1. /\ p \in Seq(Seq(Ref))
        /\ Len(p) = IF l > Len(lv) THEN l ELSE Len(lv)
        /\ p[l] = Append(IF l > Len(lv) THEN <<>> ELSE lv[l], ref)
        /\ \A i \in 1..Len(lv) : i # l => p[i] = lv[i]
    BY <1>2, PushProperties
  <2> HIDE DEF p
  <2>2. levels' = p
    BY <1>4 DEF p
  <2> QED
    BY <2>1, <2>2
<1>6. Len(lv) \in Nat /\ l \in 1..Len(levels')
  BY <1>5, LenProperties
<1>7. PICK old \in Seq(Ref) :
        /\ old = IF l > Len(lv) THEN <<>> ELSE lv[l]
        /\ Len(old) < MaxBranches
        /\ \A k \in 1..Len(old) : EmittedIn(store, old[k])
  <2>1. CASE l > Len(lv)
    <3>1. <<>> \in Seq(Ref) /\ Len(<<>>) = 0
      BY EmptySeq
    <3>2. \A k \in 1..Len(<<>>) : EmittedIn(store, (<<>>)[k])
      BY <3>1
    <3>3. Len(<<>>) < MaxBranches
      BY <3>1, ConstantsAssumption
    <3> QED
      BY <2>1, <3>1, <3>2, <3>3
  <2>2. CASE ~ (l > Len(lv))
    BY <2>2, <1>6, ElementOfSeq
  <2> QED
    BY <2>1, <2>2
<1>8. /\ levels'[l] \in Seq(Ref)
      /\ levels'[l] # <<>>
      /\ Len(levels'[l]) = Len(old) + 1
      /\ \A k \in 1..Len(old) : levels'[l][k] = old[k]
      /\ levels'[l][Len(old) + 1] = ref
  <2>1. levels'[l] = Append(old, ref)
    BY <1>5, <1>7
  <2> QED
    BY <1>2, <2>1, AppendProperties
<1>9. Len(old) \in Nat
  BY <1>7, LenProperties
<1>10. LevelsBounded'
  <2> SUFFICES ASSUME NEW i \in 1..Len(levels')
               PROVE  \/ Len(levels'[i]) < MaxBranches
                      \/ Len(levels'[i]) = MaxBranches /\ pc' = "collapse" /\ level' = i
    BY DEF LevelsBounded
  <2>1. CASE i = l
    BY <2>1, <1>7, <1>8, <1>9, ConstantsAssumption DEF Emit
  <2>2. CASE i # l
    BY <2>2, <1>5, <1>6
  <2> QED
    BY <2>1, <2>2
<1>11. \A r : EmittedIn(store, r) => EmittedIn(store', r)
  BY <1>1, <1>3 DEF EmittedIn
<1>12. EmittedIn(store', ref)
  BY <1>1, <1>3 DEF EmittedIn, ref
<1>13. \A i \in 1..Len(levels') : \A k \in 1..Len(levels'[i]) : EmittedIn(store', levels'[i][k])
  <2> TAKE i \in 1..Len(levels')
  <2> TAKE k \in 1..Len(levels'[i])
  <2>1. CASE i = l
    <3>1. CASE k = Len(old) + 1
      BY <2>1, <3>1, <1>8, <1>12
    <3>2. CASE k # Len(old) + 1
      <4>1. k \in 1..Len(old) /\ levels'[i][k] = old[k]
        BY <2>1, <3>2, <1>8, <1>9
      <4> QED
        BY <4>1, <1>7, <1>11
    <3> QED
      BY <3>1, <3>2
  <2>2. CASE i # l
    <3>1. i \in 1..Len(lv) /\ levels'[i] = lv[i]
      BY <2>2, <1>5, <1>6
    <3> QED
      BY <3>1, <1>11
  <2> QED
    BY <2>1, <2>2
<1>14. root # NoRef => EmittedIn(store', root)
  BY <1>1, <1>11 DEF StackInv, ReferencesEmitted
<1>15. \A a \in 1..Len(store') : \A k \in 1..Len(store'[a].kids) : store'[a].kids[k] < a
  <2> TAKE a \in 1..Len(store')
  <2>1. CASE a = Len(store) + 1
    <3> SUFFICES ASSUME NEW k \in 1..Len(chunk.kids) PROVE chunk.kids[k] < a
      BY <2>1, <1>3
    <3>1. chunk.kids[k] \in Nat \ {0}
      BY ElementOfSeq DEF Chunk
    <3> QED
      BY <2>1, <1>1, <3>1
  <2>2. CASE a # Len(store) + 1
    <3>1. a \in 1..Len(store) /\ store'[a] = store[a]
      BY <2>2, <1>1, <1>3
    <3> QED
      BY <3>1 DEF StackInv, ReferencesEmitted
  <2> QED
    BY <2>1, <2>2
<1>16. ReferencesEmitted'
  BY <1>1, <1>13, <1>14, <1>15 DEF ReferencesEmitted
<1>17. /\ level' \in Nat /\ scan' \in Nat
       /\ pc' \in {"fill", "collapse", "scan"}
       /\ pc' = "collapse" => level' \in 1..Len(levels') /\ levels'[level'] # <<>>
  BY <1>1, <1>6, <1>8, SMTT(20) DEF Emit
<1>18. pc' = "scan" => scan' > 0 /\ levels' # <<>>
  <2> SUFFICES ASSUME pc' = "scan" PROVE scan' > 0 /\ levels' # <<>>
    OBVIOUS
  <2>1. scan' = scan + 1
    BY DEF Emit
  <2>2. levels' # <<>>
    BY <1>5, <1>6, EmptySeq
  <2> QED
    BY <1>1, <2>1, <2>2
<1> QED
  BY <1>3, <1>5, <1>10, <1>16, <1>17, <1>18

(***************************************************************************)
(* The history variable keeps one edge per level and one above them.       *)
(***************************************************************************)
LEMMA RaiseProperties ==
  ASSUME NEW e \in Seq(Nat), NEW l \in 1..Len(e), NEW v \in Nat
  PROVE  /\ Raise(e, l, v) \in Seq(Nat)
         /\ Len(Raise(e, l, v)) = IF l = Len(e) THEN l + 1 ELSE Len(e)
         /\ \A i \in 1..Len(e) : i # l => Raise(e, l, v)[i] = e[i]
         /\ Raise(e, l, v)[l] = v
         /\ l = Len(e) => Raise(e, l, v)[l + 1] = 0
<1> DEFINE g == Grow(e, l + 1, 0)
<1>0. Len(e) \in Nat /\ l \in Nat
  BY LenProperties
<1>1. /\ g \in Seq(Nat)
      /\ Len(g) = IF l = Len(e) THEN l + 1 ELSE Len(e)
      /\ \A i \in 1..Len(e) : g[i] = e[i]
      /\ l = Len(e) => g[l + 1] = 0
  <2>1. CASE l = Len(e)
    <3>1. g = Append(e, 0)
      BY <1>0, <2>1 DEF Grow
    <3> HIDE DEF g
    <3> QED
      BY <2>1, <3>1, AppendProperties
  <2>2. CASE l # Len(e)
    BY <1>0, <2>2 DEF Grow
  <2> QED
    BY <2>1, <2>2
<1> HIDE DEF g
<1>2. l \in 1..Len(g)
  BY <1>0, <1>1
<1> DEFINE h == [g EXCEPT ![l] = v]
<1>3. /\ h \in Seq(Nat)
      /\ Len(h) = Len(g)
      /\ \A j \in 1..Len(g) : h[j] = IF j = l THEN v ELSE g[j]
  BY <1>1, <1>2, ExceptSeq
<1> HIDE DEF h
<1>4. /\ h \in Seq(Nat)
      /\ Len(h) = IF l = Len(e) THEN l + 1 ELSE Len(e)
      /\ \A i \in 1..Len(e) : i # l => h[i] = e[i]
      /\ h[l] = v
      /\ l = Len(e) => h[l + 1] = 0
  BY <1>0, <1>1, <1>2, <1>3, SMTT(20)
<1> QED
  BY <1>4 DEF h, g, Raise

LEMMA FlushLeafStack == StackInv /\ FlushLeaf => StackInv'
<1> SUFFICES ASSUME StackInv, FlushLeaf PROVE StackInv'
  OBVIOUS
<1> DEFINE chunk == Leaf(written - leafBuf, leafBuf)
<1>1. /\ levels \in Seq(Seq(Ref)) /\ Len(levels) \in Nat
      /\ edge \in Seq(Nat) /\ Len(edge) = Len(levels) + 1
      /\ leafBuf \in Nat \ {0} /\ written \in Nat /\ leafBuf <= written
      /\ pc = "leaf" /\ leafBuf' = 0
  BY LenProperties, ConstantsAssumption DEF StackInv, TypeOK, Control, FlushLeaf
<1>2. chunk \in Chunk
  BY <1>1 DEF Chunk, Leaf
<1>3. /\ \A i \in 1..Len(levels) : Len(levels[i]) < MaxBranches
      /\ \A i \in 1..Len(levels) : \A k \in 1..Len(levels[i]) : EmittedIn(store, levels[i][k])
  BY <1>1 DEF StackInv, LevelsBounded, ReferencesEmitted
<1>4. \A k \in 1..Len(chunk.kids) : chunk.kids[k] <= Len(store)
  BY DEF Leaf
<1>5. CASE /\ Emit(chunk, levels, 1)
           /\ edge' = Raise(edge, 1, written)
  <2> HIDE DEF chunk
  <2>1. /\ store' \in Seq(Chunk)
        /\ levels' \in Seq(Seq(Ref))
        /\ level' \in Nat /\ scan' \in Nat
        /\ pc' \in {"fill", "collapse", "scan"}
        /\ Len(levels') = IF 1 > Len(levels) THEN 1 ELSE Len(levels)
        /\ pc' = "collapse" => level' \in 1..Len(levels') /\ levels'[level'] # <<>>
        /\ pc' = "scan" => scan' > 0 /\ levels' # <<>>
        /\ ReferencesEmitted' /\ LevelsBounded'
    <3>1. 1 \in 1..(Len(levels) + 1)
      BY <1>1
    <3> QED
      BY <1>1, <1>2, <1>3, <1>4, <1>5, <3>1, EmitStack
  <2>2. edge' \in Seq(Nat) /\ Len(edge') = Len(levels') + 1
    <3>1. 1 \in 1..Len(edge) /\ written \in Nat
      BY <1>1
    <3> DEFINE raised == Raise(edge, 1, written)
    <3>2. raised \in Seq(Nat) /\ Len(raised) = IF 1 = Len(edge) THEN 2 ELSE Len(edge)
      <4> DEFINE l == 1
      <4>1. l \in 1..Len(edge)
        BY <3>1
      <4>2. l + 1 = 2
        OBVIOUS
      <4> HIDE DEF l
      <4>3. /\ Raise(edge, l, written) \in Seq(Nat)
            /\ Len(Raise(edge, l, written)) = IF l = Len(edge) THEN l + 1 ELSE Len(edge)
        BY <1>1, <3>1, <4>1, RaiseProperties
      <4> QED
        BY <4>2, <4>3 DEF l
    <3> HIDE DEF raised
    <3>3. edge' = raised
      BY <1>5 DEF raised
    <3> QED
      BY <1>1, <2>1, <3>2, <3>3
  <2>3. TypeOK'
    BY <1>1, <1>5, <2>1, <2>2, ConstantsAssumption
    DEF StackInv, TypeOK, Emit, results
  <2>4. Control'
    BY <1>1, <1>5, <2>1, <2>2, ConstantsAssumption DEF Control, Emit
  <2> QED
    BY <2>1, <2>3, <2>4 DEF StackInv
<1>6. CASE Reject /\ UNCHANGED levels
  <2>1. TypeOK'
    BY <1>1, <1>6, ConstantsAssumption DEF StackInv, TypeOK, Reject
  <2>2. Control'
    BY <1>1, <1>6, ConstantsAssumption DEF StackInv, Control, Reject
  <2>3. ReferencesEmitted' /\ LevelsBounded'
    BY <1>3, <1>6 DEF StackInv, ReferencesEmitted, LevelsBounded, Reject
  <2> QED
    BY <2>1, <2>2, <2>3 DEF StackInv
<1> QED
  BY <1>5, <1>6 DEF FlushLeaf

LEMMA CollapseLevelStack == StackInv /\ CollapseLevel => StackInv'
<1> SUFFICES ASSUME StackInv, CollapseLevel PROVE StackInv'
  OBVIOUS
<1> DEFINE refs == levels[level]
           chunk == Parent(level, refs)
           lv == [levels EXCEPT ![level] = <<>>]
<1>1. /\ levels \in Seq(Seq(Ref)) /\ Len(levels) \in Nat
      /\ edge \in Seq(Nat) /\ Len(edge) = Len(levels) + 1
      /\ store \in Seq(Chunk) /\ Len(store) \in Nat
      /\ level \in 1..Len(levels) /\ refs # <<>>
      /\ pc = "collapse" /\ leafBuf' = leafBuf
  BY LenProperties DEF StackInv, TypeOK, Control, CollapseLevel
<1>2. refs \in Seq(Ref)
  BY <1>1, ElementOfSeq
<1>3. Len(refs) \in Nat \ {0} /\ \A k \in 1..Len(refs) : refs[k] \in Ref
  BY <1>1, <1>2, EmptySeq, ElementOfSeq
<1>4. \A k \in 1..Len(refs) : EmittedIn(store, refs[k])
  BY <1>1 DEF StackInv, ReferencesEmitted
<1>5. chunk \in Chunk
  <2>1. TotalSpan(refs) \in Nat \ {0}
    BY <1>1, <1>2, TotalSpanType
  <2>2. store[refs[1].addr] \in Chunk
    <3>1. refs[1].addr \in 1..Len(store)
      BY <1>3, <1>4 DEF EmittedIn
    <3> QED
      BY <1>1, <3>1, ElementOfSeq
  <2>3. Lo(store, refs[1].addr) \in Nat
    BY <2>2 DEF Lo, Chunk
  <2>4. Addrs(refs) \in Seq(Nat \ {0})
    BY <1>3 DEF Ref, Addrs
  <2>5. level \in Nat
    BY <1>1
  <2> HIDE DEF refs
  <2> QED
    BY <2>1, <2>3, <2>4, <2>5 DEF Chunk, Parent
<1>6. /\ lv \in Seq(Seq(Ref)) /\ Len(lv) = Len(levels)
      /\ \A i \in 1..Len(levels) : lv[i] = IF i = level THEN <<>> ELSE levels[i]
  <2>1. <<>> \in Seq(Ref)
    BY EmptySeq
  <2>2. /\ lv \in Seq(Seq(Ref)) /\ Len(lv) = Len(levels)
        /\ \A j \in 1..Len(levels) : lv[j] = IF j = level THEN <<>> ELSE levels[j]
    <3> HIDE DEF refs
    <3> QED
      BY <1>1, <2>1, ExceptSeq, SMTT(40)
  <2> QED
    BY <2>2
<1>7. \A i \in 1..Len(lv) : Len(lv[i]) < MaxBranches
  BY <1>1, <1>6, EmptySeq, ConstantsAssumption DEF StackInv, LevelsBounded
<1>8. \A i \in 1..Len(lv) : \A k \in 1..Len(lv[i]) : EmittedIn(store, lv[i][k])
  BY <1>1, <1>6, EmptySeq DEF StackInv, ReferencesEmitted
<1>9. \A k \in 1..Len(chunk.kids) : chunk.kids[k] <= Len(store)
  <2>1. Len(chunk.kids) = Len(refs) /\ \A k \in 1..Len(refs) : chunk.kids[k] = refs[k].addr
    BY <1>3 DEF Parent, Addrs
  <2> HIDE DEF chunk, refs
  <2> QED
    BY <1>4, <2>1 DEF EmittedIn
<1>10. CASE /\ Emit(chunk, lv, level + 1)
            /\ edge' = Raise(edge, level + 1, edge[level])
  <2> HIDE DEF chunk, lv, refs
  <2>1. level + 1 \in 1..(Len(lv) + 1)
    BY <1>1, <1>6
  <2>2. /\ store' \in Seq(Chunk)
        /\ levels' \in Seq(Seq(Ref))
        /\ level' \in Nat /\ scan' \in Nat
        /\ pc' \in {"fill", "collapse", "scan"}
        /\ Len(levels') = IF level + 1 > Len(lv) THEN level + 1 ELSE Len(lv)
        /\ pc' = "collapse" => level' \in 1..Len(levels') /\ levels'[level'] # <<>>
        /\ pc' = "scan" => scan' > 0 /\ levels' # <<>>
        /\ ReferencesEmitted' /\ LevelsBounded'
    BY <1>5, <1>6, <1>7, <1>8, <1>9, <1>10, <2>1, EmitStack
  <2>3. edge' \in Seq(Nat) /\ Len(edge') = Len(levels') + 1
    <3> DEFINE above == level + 1
               low   == edge[level]
    <3>1. low \in Nat /\ above \in 1..Len(edge) /\ edge \in Seq(Nat)
      BY <1>1, ElementOfSeq
    <3> DEFINE raised == Raise(edge, above, low)
    <3> HIDE DEF above, low
    <3>2. /\ raised \in Seq(Nat)
          /\ Len(raised) = IF above = Len(edge) THEN above + 1 ELSE Len(edge)
      BY <3>1, RaiseProperties, Zenon
    <3> USE DEF above, low
    <3> HIDE DEF raised
    <3>3. edge' = raised
      BY <1>10 DEF raised
    <3>4. Len(levels') = IF level + 1 > Len(levels) THEN level + 1 ELSE Len(levels)
      BY <1>6, <2>2
    <3>5. Len(edge) = Len(levels) + 1 /\ Len(levels) \in Nat /\ level \in 1..Len(levels)
      BY <1>1
    <3>6. Len(edge') = Len(levels') + 1
      <4>1. CASE level = Len(levels)
        BY <3>2, <3>3, <3>4, <3>5, <4>1
      <4>2. CASE level # Len(levels)
        BY <3>2, <3>3, <3>4, <3>5, <4>2
      <4> QED
        BY <4>1, <4>2
    <3> QED
      BY <3>2, <3>3, <3>6
  <2>4. TypeOK'
    BY <1>1, <1>10, <2>2, <2>3 DEF StackInv, TypeOK, Emit, results
  <2>5. Control'
    BY <1>1, <1>10, <2>2, <2>3 DEF StackInv, Control, Emit
  <2> QED
    BY <2>2, <2>4, <2>5 DEF StackInv
<1>11. CASE Reject /\ levels' = lv
  <2> HIDE DEF lv
  <2>1. TypeOK'
    BY <1>1, <1>6, <1>11 DEF StackInv, TypeOK, Reject
  <2>2. Control'
    BY <1>1, <1>6, <1>11 DEF StackInv, Control, Reject
  <2>3. ReferencesEmitted' /\ LevelsBounded'
    BY <1>7, <1>8, <1>11 DEF StackInv, ReferencesEmitted, LevelsBounded, Reject
  <2> QED
    BY <2>1, <2>2, <2>3 DEF StackInv
<1> QED
  BY <1>10, <1>11 DEF CollapseLevel

(***************************************************************************)
(* The steps that leave the stack and the store alone.                     *)
(***************************************************************************)
LEMMA StackUnchanged ==
  ASSUME StackInv, UNCHANGED <<levels, store, edge>>, root' = root,
         pc' # "collapse", pc # "collapse"
  PROVE  ReferencesEmitted' /\ LevelsBounded'
BY DEF StackInv, ReferencesEmitted, LevelsBounded

LEMMA StackInvStep == StackInv /\ [Next]_vars => StackInv'
<1> SUFFICES ASSUME StackInv, [Next]_vars PROVE StackInv'
  OBVIOUS
<1>0. TypeOK /\ Control /\ Len(levels) \in Nat
  BY LenProperties DEF StackInv, TypeOK
<1>1. ASSUME NEW n \in 1..MaxBytes, Write(n) PROVE StackInv'
  <2>1. TypeOK'
    BY <1>0, <1>1, ConstantsAssumption DEF TypeOK, Write, chunker
  <2>2. Control'
    BY <1>0, <1>1 DEF Control, Write, chunker
  <2>3. ReferencesEmitted' /\ LevelsBounded'
    BY <1>1, StackUnchanged DEF Write, chunker
  <2> QED
    BY <2>1, <2>2, <2>3 DEF StackInv
<1>2. CASE Fill
  <2>1. leafBuf \in 0..ChunkSize /\ leafBuf < ChunkSize /\ todo \in Nat /\ written \in Nat
    BY <1>0, <1>2 DEF TypeOK, Control, Fill
  <2>2. /\ leafBuf' \in 0..ChunkSize /\ leafBuf' > 0
        /\ todo' \in Nat /\ written' \in Nat /\ leafBuf' <= written'
    BY <1>0, <1>2, <2>1, ConstantsAssumption DEF Control, Fill
  <2>3. TypeOK'
    BY <1>0, <1>2, <2>2 DEF TypeOK, Fill, results
  <2>4. Control'
    BY <1>0, <1>2, <2>2, ConstantsAssumption DEF Control, Fill
  <2>5. ReferencesEmitted' /\ LevelsBounded'
    BY <1>2, StackUnchanged DEF Fill, results
  <2> QED
    BY <2>3, <2>4, <2>5 DEF StackInv
<1>3. CASE WriteReturns
  <2>1. TypeOK'
    BY <1>0, <1>3 DEF TypeOK, WriteReturns, chunker
  <2>2. Control'
    BY <1>0, <1>3 DEF Control, WriteReturns, chunker
  <2>3. ReferencesEmitted' /\ LevelsBounded'
    BY <1>3, StackUnchanged DEF WriteReturns, chunker
  <2> QED
    BY <2>1, <2>2, <2>3 DEF StackInv
<1>4. CASE FinalizeEmpty
  <2>1. TypeOK'
    BY <1>0, <1>4 DEF TypeOK, FinalizeEmpty, chunker, control
  <2>2. Control'
    BY <1>0, <1>4 DEF Control, FinalizeEmpty, chunker, control
  <2>3. ReferencesEmitted' /\ LevelsBounded'
    BY <1>4, StackUnchanged DEF FinalizeEmpty, chunker, control
  <2> QED
    BY <2>1, <2>2, <2>3 DEF StackInv
<1>5. CASE Finalize
  <2>1. TypeOK'
    BY <1>0, <1>5 DEF TypeOK, Finalize, chunker
  <2>2. Control'
    <3>1. leafBuf \in Nat
      BY <1>0, ConstantsAssumption DEF TypeOK
    <3> QED
      BY <1>0, <1>5, <3>1 DEF Control, Finalize, chunker
  <2>3. ReferencesEmitted' /\ LevelsBounded'
    BY <1>5, StackUnchanged DEF Finalize, chunker
  <2> QED
    BY <2>1, <2>2, <2>3 DEF StackInv
<1>6. CASE FlushLeaf
  BY <1>6, FlushLeafStack
<1>7. CASE CollapseLevel
  BY <1>7, CollapseLevelStack
<1>8. CASE Scan
  <2>1. scan \in 1..Len(levels) /\ pc = "scan"
    BY <1>0, <1>8 DEF TypeOK, Control, Scan, ScanEnds
  <2>2. TypeOK'
    BY <1>0, <1>8, <2>1, SMTT(40) DEF TypeOK, Scan, chunker, results
  <2>3. Control'
    <3>1. UNCHANGED <<leafBuf, levels, written, edge>>
      BY <1>8 DEF Scan, chunker
    <3>2. CASE levels[scan] = <<>>
      <4>1. pc' = "scan" /\ scan' = scan + 1
        BY <1>8, <2>1, <3>2 DEF Scan
      <4> QED
        BY <1>0, <2>1, <3>1, <4>1 DEF Control
    <3>3. CASE levels[scan] # <<>>
      <4>1. pc' = "collapse" /\ level' = scan
        BY <1>8, <3>3 DEF Scan
      <4> QED
        BY <1>0, <2>1, <3>1, <3>3, <4>1 DEF Control
    <3> QED
      BY <3>2, <3>3
  <2>4. ReferencesEmitted'
    BY <1>8 DEF StackInv, ReferencesEmitted, Scan, chunker, results
  <2>5. LevelsBounded'
    BY <1>8, <2>1 DEF StackInv, LevelsBounded, Scan, chunker
  <2> QED
    BY <2>2, <2>3, <2>4, <2>5 DEF StackInv
<1>9. CASE FinalizeReturns
  <2> DEFINE top == levels[Len(levels)]
  <2>1. Len(levels) \in 1..Len(levels) /\ levels # <<>> /\ pc = "scan"
    BY <1>0, <1>9, EmptySeq DEF TypeOK, Control, FinalizeReturns
  <2>2. top \in Seq(Ref)
    BY <1>0, <2>1, ElementOfSeq DEF TypeOK
  <2>3. top # <<>> => 1 \in 1..Len(top) /\ top[1] \in Ref /\ EmittedIn(store, top[1])
    <3>1. top # <<>> => 1 \in 1..Len(top)
      <4> HIDE DEF top
      <4> QED
        BY <2>2, EmptySeq
    <3>2. 1 \in 1..Len(top) => EmittedIn(store, top[1])
      BY <2>1 DEF StackInv, ReferencesEmitted
    <3>3. 1 \in 1..Len(top) => top[1] \in Ref
      <4> HIDE DEF top
      <4> QED
        BY <2>2, ElementOfSeq
    <3> QED
      BY <3>1, <3>2, <3>3
  <2>4. root' \in Ref \cup {NoRef} /\ (root' # NoRef => EmittedIn(store, root'))
    <3>1. CASE top = <<>>
      BY <1>0, <1>9, <3>1 DEF TypeOK, FinalizeReturns, StackInv, ReferencesEmitted
    <3>2. CASE top # <<>>
      BY <1>9, <2>1, <2>3, <3>2 DEF FinalizeReturns
    <3> QED
      BY <3>1, <3>2
  <2>5. TypeOK'
    BY <1>0, <1>9, <2>4 DEF TypeOK, FinalizeReturns, chunker
  <2>6. Control'
    BY <1>0, <1>9, <2>1 DEF Control, FinalizeReturns, chunker
  <2>7. ReferencesEmitted' /\ LevelsBounded'
    BY <1>9, <2>1, <2>4 DEF StackInv, ReferencesEmitted, LevelsBounded, FinalizeReturns, chunker
  <2> QED
    BY <2>5, <2>6, <2>7 DEF StackInv
<1>10. CASE UNCHANGED vars
  <2> USE <1>10 DEF vars, chunker, control, results
  <2>1. TypeOK' /\ Control'
    BY <1>0 DEF TypeOK, Control
  <2>2. ReferencesEmitted' /\ LevelsBounded'
    BY DEF StackInv, ReferencesEmitted, LevelsBounded
  <2> QED
    BY <2>1, <2>2 DEF StackInv
<1> QED
  BY <1>1, <1>2, <1>3, <1>4, <1>5, <1>6, <1>7, <1>8, <1>9, <1>10 DEF Next, Internal

(***************************************************************************)
(* Every variable keeps its type.                                          *)
(***************************************************************************)
THEOREM TypeCorrect == Spec => []TypeOK
<1>1. StackInv => TypeOK
  BY DEF StackInv
<1> QED
  BY <1>1, StackInvInit, StackInvStep, PTL DEF Spec

(***************************************************************************)
(* Whatever OnChunk rejects, no queued or returned reference dangles and   *)
(* no parent is uploaded before its children (file_chunker.go 143-152,     *)
(* 190-200: the callback runs before the reference is appended).           *)
(***************************************************************************)
THEOREM ReferencesAlwaysEmitted == Spec => []ReferencesEmitted
<1>1. StackInv => ReferencesEmitted
  BY DEF StackInv
<1> QED
  BY <1>1, StackInvInit, StackInvStep, PTL DEF Spec

(***************************************************************************)
(* No level ever holds more references than one parent payload can carry.  *)
(***************************************************************************)
THEOREM LevelsAlwaysBounded == Spec => []LevelsBounded
<1>1. StackInv => LevelsBounded
  BY DEF StackInv
<1> QED
  BY <1>1, StackInvInit, StackInvStep, PTL DEF Spec

-----------------------------------------------------------------------------
(* No byte is lost: as long as OnChunk does not fail, the level stack and  *)
(* the leaf buffer tile the input, and Finalize returns a root covering    *)
(* all of it.                                                              *)

(***************************************************************************)
(* Tiling is not disturbed by chunks added to the store.                   *)
(***************************************************************************)
LEMMA TilesExtend ==
  ASSUME NEW st, NEW st2, NEW n \in Nat,
         \A a \in 1..n : st2[a] = st[a],
         NEW addrs \in Seq(1..n), NEW from, NEW to,
         Tiles(st, addrs, from, to)
  PROVE  Tiles(st2, addrs, from, to)
<1>1. Len(addrs) \in Nat /\ \A k \in 1..Len(addrs) : addrs[k] \in 1..n
  BY LenProperties, ElementOfSeq
<1>2. CASE addrs = <<>>
  BY <1>2 DEF Tiles
<1>3. CASE addrs # <<>>
  <2>1. Len(addrs) > 0
    BY <1>3, EmptySeq
  <2>2. \A k \in 1..Len(addrs) : /\ Lo(st2, addrs[k]) = Lo(st, addrs[k])
                                 /\ Hi(st2, addrs[k]) = Hi(st, addrs[k])
    BY <1>1 DEF Lo, Hi
  <2>3. \A k \in 1..(Len(addrs) - 1) : k \in 1..Len(addrs) /\ k + 1 \in 1..Len(addrs)
    BY <1>1
  <2>4. 1 \in 1..Len(addrs) /\ Len(addrs) \in 1..Len(addrs)
    BY <1>1, <2>1
  <2> QED
    BY <1>3, <2>2, <2>3, <2>4 DEF Tiles
<1> QED
  BY <1>2, <1>3

LEMMA AddrsProperties ==
  ASSUME NEW st \in Seq(Chunk), NEW refs \in Seq(Ref),
         \A k \in 1..Len(refs) : EmittedIn(st, refs[k])
  PROVE  /\ Addrs(refs) \in Seq(1..Len(st))
         /\ Len(Addrs(refs)) = Len(refs)
         /\ \A k \in 1..Len(refs) : Addrs(refs)[k] = refs[k].addr
         /\ Addrs(refs) = <<>> <=> refs = <<>>
<1>1. Len(refs) \in Nat /\ Len(st) \in Nat
  BY LenProperties
<1>2. \A k \in 1..Len(refs) : refs[k].addr \in 1..Len(st)
  BY DEF EmittedIn
<1>3. /\ Addrs(refs) \in Seq(1..Len(st))
      /\ Len(Addrs(refs)) = Len(refs)
      /\ \A k \in 1..Len(refs) : Addrs(refs)[k] = refs[k].addr
  BY <1>1, <1>2 DEF Addrs
<1>4. Addrs(refs) = <<>> <=> Len(Addrs(refs)) = 0
  BY <1>3, EmptySeq
<1>5. refs = <<>> <=> Len(refs) = 0
  BY EmptySeq
<1> QED
  BY <1>3, <1>4, <1>5

(***************************************************************************)
(* One more adjacent chunk extends a tiling.                               *)
(***************************************************************************)
LEMMA TilesAppend ==
  ASSUME NEW st \in Seq(Chunk), NEW refs \in Seq(Ref), NEW ref \in Ref,
         \A k \in 1..Len(refs) : EmittedIn(st, refs[k]),
         EmittedIn(st, ref),
         NEW from, NEW mid, NEW to,
         Tiles(st, Addrs(refs), from, mid),
         Lo(st, ref.addr) = mid, Hi(st, ref.addr) = to
  PROVE  Tiles(st, Addrs(Append(refs, ref)), from, to)
<1> DEFINE more == Append(refs, ref)
<1>1. /\ more \in Seq(Ref) /\ more # <<>>
      /\ Len(refs) \in Nat /\ Len(more) = Len(refs) + 1
      /\ \A k \in 1..Len(refs) : more[k] = refs[k]
      /\ more[Len(refs) + 1] = ref
  BY AppendProperties, LenProperties
<1> HIDE DEF more
<1>2. \A k \in 1..Len(more) : EmittedIn(st, more[k])
  <2> TAKE k \in 1..Len(more)
  <2>1. CASE k = Len(more)
    BY <1>1, <2>1
  <2>2. CASE k # Len(more)
    BY <1>1, <2>2
  <2> QED
    BY <2>1, <2>2
<1>3. /\ Len(Addrs(refs)) = Len(refs)
      /\ \A k \in 1..Len(refs) : Addrs(refs)[k] = refs[k].addr
      /\ Addrs(refs) = <<>> <=> refs = <<>>
  BY AddrsProperties
<1>4. /\ Len(Addrs(more)) = Len(refs) + 1
      /\ \A k \in 1..Len(refs) : Addrs(more)[k] = Addrs(refs)[k]
      /\ Addrs(more)[Len(refs) + 1] = ref.addr
      /\ Addrs(more) # <<>>
  <2>1. /\ Len(Addrs(more)) = Len(more)
        /\ \A k \in 1..Len(more) : Addrs(more)[k] = more[k].addr
        /\ Addrs(more) = <<>> <=> more = <<>>
    BY <1>1, <1>2, AddrsProperties
  <2> QED
    BY <1>1, <1>3, <2>1, SMTT(20)
<1>5. CASE refs = <<>>
  <2>1. Len(refs) = 0 /\ from = mid
    BY <1>3, <1>5, EmptySeq DEF Tiles
  <2>2. Len(Addrs(more)) = 1 /\ Addrs(more)[1] = ref.addr /\ Addrs(more) # <<>>
    BY <1>4, <2>1
  <2> QED
    BY <2>1, <2>2 DEF Tiles, more
<1>6. CASE refs # <<>>
  <2>1. Len(refs) \in Nat \ {0}
    BY <1>6, EmptySeq
  <2>2. /\ Lo(st, Addrs(refs)[1]) = from
        /\ \A k \in 1..(Len(refs) - 1) : Lo(st, Addrs(refs)[k+1]) = Hi(st, Addrs(refs)[k])
        /\ Hi(st, Addrs(refs)[Len(refs)]) = mid
    BY <1>3, <1>6 DEF Tiles
  <2>3. Lo(st, Addrs(more)[1]) = from
    BY <1>4, <2>1, <2>2
  <2>4. Hi(st, Addrs(more)[Len(refs) + 1]) = to
    BY <1>4
  <2>5. ASSUME NEW k \in 1..Len(refs)
        PROVE  Lo(st, Addrs(more)[k+1]) = Hi(st, Addrs(more)[k])
    <3>1. CASE k = Len(refs)
      BY <1>4, <2>1, <2>2, <3>1
    <3>2. CASE k # Len(refs)
      <4>1. k \in 1..(Len(refs) - 1) /\ k + 1 \in 1..Len(refs)
        BY <2>1, <3>2
      <4> QED
        BY <1>4, <2>2, <4>1
    <3> QED
      BY <3>1, <3>2
  <2>6. Len(Addrs(more)) - 1 = Len(refs)
    BY <1>4, <2>1
  <2>7. Tiles(st, Addrs(more), from, to)
    BY <1>4, <2>3, <2>4, <2>5, <2>6 DEF Tiles
  <2> QED
    BY <2>7 DEF more
<1> QED
  BY <1>5, <1>6

(***************************************************************************)
(* The span collapseLevel adds up is the length of the interval its        *)
(* references tile.                                                        *)
(***************************************************************************)
LEMMA TilesSpan ==
  ASSUME NEW st \in Seq(Chunk), NEW refs \in Seq(Ref), refs # <<>>,
         \A k \in 1..Len(refs) : EmittedIn(st, refs[k]),
         NEW from \in Nat, NEW to \in Nat,
         Tiles(st, Addrs(refs), from, to)
  PROVE  TotalSpan(refs) = to - from /\ Lo(st, refs[1].addr) = from
<1>1. Len(refs) \in Nat \ {0}
  BY EmptySeq
<1>2. /\ Len(Addrs(refs)) = Len(refs)
      /\ \A k \in 1..Len(refs) : Addrs(refs)[k] = refs[k].addr
      /\ Addrs(refs) # <<>>
  BY AddrsProperties
<1>3. /\ Lo(st, refs[1].addr) = from
      /\ \A k \in 1..(Len(refs) - 1) : Lo(st, refs[k+1].addr) = Hi(st, refs[k].addr)
      /\ Hi(st, refs[Len(refs)].addr) = to
  <2>1. /\ Lo(st, Addrs(refs)[1]) = from
        /\ \A k \in 1..(Len(refs) - 1) : Lo(st, Addrs(refs)[k+1]) = Hi(st, Addrs(refs)[k])
        /\ Hi(st, Addrs(refs)[Len(refs)]) = to
    BY <1>2 DEF Tiles
  <2>2. \A k \in 1..(Len(refs) - 1) : k \in 1..Len(refs) /\ k + 1 \in 1..Len(refs)
    BY <1>1
  <2> QED
    BY <1>1, <1>2, <2>1, <2>2
<1>4. \A k \in 1..Len(refs) :
        /\ Lo(st, refs[k].addr) \in Nat
        /\ Hi(st, refs[k].addr) = Lo(st, refs[k].addr) + refs[k].span
        /\ refs[k].span \in Nat
  <2> TAKE k \in 1..Len(refs)
  <2>1. refs[k].addr \in 1..Len(st) /\ st[refs[k].addr].span = refs[k].span
    BY DEF EmittedIn
  <2>2. st[refs[k].addr] \in Chunk
    BY <2>1, ElementOfSeq
  <2> QED
    BY <2>1, <2>2 DEF Chunk, Lo, Hi
<1> DEFINE c == [i \in 0..Len(refs) |-> IF i = 0 THEN from ELSE Hi(st, refs[i].addr)]
<1>5. c \in [0..Len(refs) -> Nat]
  <2> SUFFICES ASSUME NEW i \in 0..Len(refs), i # 0 PROVE Hi(st, refs[i].addr) \in Nat
    OBVIOUS
  <2>1. i \in 1..Len(refs)
    BY <1>1
  <2> QED
    BY <1>4, <2>1
<1>6. \A i \in 1..Len(refs) : c[i] = c[i-1] + refs[i].span
  <2> TAKE i \in 1..Len(refs)
  <2>1. c[i] = Lo(st, refs[i].addr) + refs[i].span
    BY <1>1, <1>4
  <2>2. CASE i = 1
    BY <1>1, <1>3, <2>1, <2>2
  <2>3. CASE i # 1
    <3>1. i - 1 \in 1..(Len(refs) - 1) /\ (i - 1) + 1 = i
      BY <1>1, <2>3
    <3>2. Lo(st, refs[i].addr) = Hi(st, refs[i-1].addr)
      BY <1>3, <3>1
    <3>3. c[i-1] = Hi(st, refs[i-1].addr)
      BY <1>1, <3>1
    <3> QED
      BY <2>1, <3>2, <3>3
  <2> QED
    BY <2>2, <2>3
<1>7. c[0] = from /\ c[Len(refs)] = to
  BY <1>1, <1>3
<1> HIDE DEF c
<1>8. TotalSpan(refs) = c[Len(refs)] - c[0]
  BY <1>5, <1>6, TotalSpanTelescopes
<1> QED
  BY <1>3, <1>7, <1>8

-----------------------------------------------------------------------------
(***************************************************************************)
(* An emitted chunk that covers [edge of its level above.., its new edge)  *)
(* keeps the stack a tiling.                                               *)
(***************************************************************************)
LEMMA EmitTiles ==
  ASSUME StackInv,
         NEW lv \in Seq(Seq(Ref)), NEW l \in 1..(Len(lv) + 1), NEW chunk \in Chunk,
         \A i \in 1..Len(lv) : \A k \in 1..Len(lv[i]) : EmittedIn(store, lv[i][k]),
         Emit(chunk, lv, l),
         NEW e \in Seq(Nat),
         \A i \in 1..Len(lv) : i # l => Tiles(store, Addrs(lv[i]), e[i+1], e[i]),
         l <= Len(lv) => Tiles(store, Addrs(lv[l]), e[l+1], chunk.lo),
         l > Len(lv) => chunk.lo = e[l+1],
         chunk.lo + chunk.span = e[l]
  PROVE  \A i \in 1..Len(levels') : Tiles(store', Addrs(levels'[i]), e[i+1], e[i])
<1> DEFINE ref == [addr |-> Len(store) + 1, span |-> chunk.span]
           p   == Push(lv, l, ref)
<1>1. store \in Seq(Chunk) /\ Len(store) \in Nat /\ Len(lv) \in Nat
  BY LenProperties DEF StackInv, TypeOK
<1>2. ref \in Ref
  BY <1>1, SMTT(20) DEF Ref, Chunk
<1>3. /\ store' \in Seq(Chunk)
      /\ Len(store') = Len(store) + 1
      /\ \A a \in 1..Len(store) : store'[a] = store[a]
      /\ store'[Len(store) + 1] = chunk
  BY <1>1, AppendProperties DEF Emit
<1>4. levels' = p
  BY DEF Emit
<1>5. /\ EmittedIn(store', ref)
      /\ Lo(store', ref.addr) = chunk.lo
      /\ Hi(store', ref.addr) = e[l]
  BY <1>1, <1>3 DEF EmittedIn, Lo, Hi
<1> HIDE DEF ref
<1>6. /\ Len(p) = IF l > Len(lv) THEN l ELSE Len(lv)
      /\ p[l] = Append(IF l > Len(lv) THEN <<>> ELSE lv[l], ref)
      /\ \A i \in 1..Len(lv) : i # l => p[i] = lv[i]
  BY <1>2, PushProperties
<1> HIDE DEF p
<1>7. ASSUME NEW refs \in Seq(Ref), NEW from, NEW to,
             \A k \in 1..Len(refs) : EmittedIn(store, refs[k]),
             Tiles(store, Addrs(refs), from, to)
      PROVE  /\ Tiles(store', Addrs(refs), from, to)
             /\ \A k \in 1..Len(refs) : EmittedIn(store', refs[k])
  <2>1. Addrs(refs) \in Seq(1..Len(store))
    BY <1>1, <1>7, AddrsProperties
  <2>2. Tiles(store', Addrs(refs), from, to)
    BY <1>1, <1>3, <1>7, <2>1, TilesExtend
  <2>3. \A k \in 1..Len(refs) : EmittedIn(store', refs[k])
    <3> TAKE k \in 1..Len(refs)
    <3>1. refs[k].addr \in 1..Len(store) /\ store[refs[k].addr].span = refs[k].span
      BY <1>7 DEF EmittedIn
    <3> QED
      BY <1>1, <1>3, <3>1 DEF EmittedIn
  <2> QED
    BY <2>2, <2>3
<1> SUFFICES ASSUME NEW i \in 1..Len(p)
             PROVE  Tiles(store', Addrs(p[i]), e[i+1], e[i])
  BY <1>4
<1>8. CASE i = l /\ l <= Len(lv)
  <2>1. lv[l] \in Seq(Ref) /\ p[l] = Append(lv[l], ref)
    BY <1>1, <1>6, <1>8, ElementOfSeq, SMTT(20)
  <2>2. \A k \in 1..Len(lv[l]) : EmittedIn(store, lv[l][k])
    BY <1>1, <1>8, SMTT(20)
  <2>3. /\ Tiles(store', Addrs(lv[l]), e[l+1], chunk.lo)
        /\ \A k \in 1..Len(lv[l]) : EmittedIn(store', lv[l][k])
    BY <1>7, <1>8, <2>1, <2>2
  <2>4. Tiles(store', Addrs(Append(lv[l], ref)), e[l+1], e[l])
    BY <1>2, <1>3, <1>5, <2>1, <2>3, TilesAppend
  <2> QED
    BY <1>8, <2>1, <2>4
<1>9. CASE i = l /\ l > Len(lv)
  <2>1. <<>> \in Seq(Ref) /\ Len(<<>>) = 0 /\ p[l] = Append(<<>>, ref)
    BY <1>6, <1>9, EmptySeq
  <2>2. \A k \in 1..Len(<<>>) : EmittedIn(store', (<<>>)[k])
    BY <2>1
  <2>3. Addrs(<<>>) = <<>>
    BY <1>3, <2>1, <2>2, AddrsProperties
  <2>4. Tiles(store', Addrs(<<>>), e[l+1], chunk.lo)
    BY <1>9, <2>3 DEF Tiles
  <2> DEFINE none == <<>>
  <2>5. /\ none \in Seq(Ref)
        /\ \A k \in 1..Len(none) : EmittedIn(store', none[k])
        /\ Tiles(store', Addrs(none), e[l+1], chunk.lo)
        /\ p[l] = Append(none, ref)
    BY <2>1, <2>2, <2>4
  <2> HIDE DEF none
  <2>6. Tiles(store', Addrs(Append(none, ref)), e[l+1], e[l])
    BY <1>2, <1>3, <1>5, <2>5, TilesAppend
  <2> QED
    BY <1>9, <2>5, <2>6
<1>10. CASE i # l
  <2>0. i \in 1..Len(lv)
    <3>1. CASE l > Len(lv)
      BY <1>1, <1>6, <1>10, <3>1
    <3>2. CASE ~ (l > Len(lv))
      BY <1>1, <1>6, <1>10, <3>2
    <3> QED
      BY <3>1, <3>2
  <2>1. i \in 1..Len(lv) /\ p[i] = lv[i]
    BY <1>6, <1>10, <2>0
  <2>2. lv[i] \in Seq(Ref) /\ \A k \in 1..Len(lv[i]) : EmittedIn(store, lv[i][k])
    BY <2>1, ElementOfSeq
  <2>3. Tiles(store, Addrs(lv[i]), e[i+1], e[i])
    BY <1>10, <2>1
  <2> QED
    BY <1>7, <2>1, <2>2, <2>3
<1> QED
  BY <1>1, <1>8, <1>9, <1>10

LEMMA EmitParents ==
  ASSUME StackInv, ParentsTile, NEW chunk \in Chunk,
         store' = Append(store, chunk),
         chunk.kids \in Seq(1..Len(store)),
         chunk.height > 0 =>
           /\ chunk.kids # <<>>
           /\ Tiles(store, chunk.kids, chunk.lo, chunk.lo + chunk.span)
  PROVE  ParentsTile'
<1>1. store \in Seq(Chunk) /\ Len(store) \in Nat
  BY LenProperties DEF StackInv, TypeOK
<1>2. /\ store' \in Seq(Chunk)
      /\ Len(store') = Len(store) + 1
      /\ \A a \in 1..Len(store) : store'[a] = store[a]
      /\ store'[Len(store) + 1] = chunk
  BY <1>1, AppendProperties
<1> SUFFICES ASSUME NEW a \in 1..Len(store'), store'[a].height > 0
             PROVE  /\ store'[a].kids # <<>>
                    /\ Tiles(store', store'[a].kids, Lo(store', a), Hi(store', a))
  BY DEF ParentsTile
<1>3. CASE a = Len(store) + 1
  <2>1. Tiles(store', chunk.kids, chunk.lo, chunk.lo + chunk.span)
    BY <1>1, <1>2, <1>3, TilesExtend
  <2> QED
    BY <1>2, <1>3, <2>1 DEF Lo, Hi
<1>4. CASE a # Len(store) + 1
  <2>1. a \in 1..Len(store) /\ store'[a] = store[a]
    BY <1>1, <1>2, <1>4
  <2>2. store[a].kids # <<>> /\ Tiles(store, store[a].kids, Lo(store, a), Hi(store, a))
    BY <2>1 DEF ParentsTile
  <2>3. store[a].kids \in Seq(Nat \ {0})
    <3>1. store[a] \in Chunk
      BY <1>1, <2>1, ElementOfSeq
    <3> QED
      BY <3>1 DEF Chunk
  <2>4. \A k \in 1..Len(store[a].kids) : store[a].kids[k] \in 1..Len(store)
    <3> TAKE k \in 1..Len(store[a].kids)
    <3>1. store[a].kids[k] \in Nat \ {0}
      BY <2>3, ElementOfSeq
    <3>2. store[a].kids[k] < a
      BY <2>1 DEF StackInv, ReferencesEmitted
    <3> QED
      BY <1>1, <2>1, <3>1, <3>2
  <2>5. store[a].kids \in Seq(1..Len(store))
    <3> DEFINE kids == store[a].kids
    <3>1. kids \in [1..Len(kids) -> 1..Len(store)] /\ Len(kids) \in Nat
      BY <2>3, <2>4, LenProperties
    <3> HIDE DEF kids
    <3>2. kids = [k \in 1..Len(kids) |-> kids[k]]
      BY <3>1
    <3>3. [k \in 1..Len(kids) |-> kids[k]] \in Seq(1..Len(store))
      BY <3>1
    <3> QED
      BY <3>2, <3>3 DEF kids
  <2>6. Tiles(store', store[a].kids, Lo(store, a), Hi(store, a))
    BY <1>1, <1>2, <2>2, <2>5, TilesExtend
  <2> QED
    BY <2>1, <2>2, <2>6 DEF Lo, Hi
<1> QED
  BY <1>3, <1>4

-----------------------------------------------------------------------------
(***************************************************************************)
(* The cascade and the scan work upwards: what lies below them is empty.   *)
(***************************************************************************)
Descent ==
  /\ pc \in {"collapse", "scan"} => leafBuf = 0
  /\ pc = "scan" => call = "finalize"
  /\ pc = "fill" => call = "write"
  /\ pc \in {"leaf", "collapse"} => call # "none"
  /\ pc = "leaf" /\ call = "finalize" => scan = 0
  /\ pc = "collapse" => \A i \in 1..Len(levels) : i < level => levels[i] = <<>>
  /\ pc = "collapse" /\ call = "finalize" => scan <= level
  /\ pc = "scan" => \A i \in 1..Len(levels) : i < scan => levels[i] = <<>>
  /\ outcome # "none" => pc \in {"ready", "panicked"}
  /\ outcome = "sealed" => root # NoRef

(***************************************************************************)
(* What holds as long as no OnChunk has failed.                            *)
(***************************************************************************)
TopOccupied == levels # <<>> => levels[Len(levels)] # <<>>

EdgeFlat ==
  pc \in {"collapse", "scan"} /\ call = "finalize" =>
    \A i \in 1..Len(edge) : i <= scan => edge[i] = edge[1]

Returned ==
  /\ pc # "panicked"
  /\ outcome = "sealed" => Lo(store, root.addr) = 0 /\ root.span = written
  /\ outcome = "empty" => written = 0

Lossless == LevelsTile /\ ParentsTile /\ TopOccupied /\ EdgeFlat /\ Returned

FileInv == StackInv /\ Descent /\ (faults = 0 => Lossless)

LEMMA FileInvInit == Init => FileInv
<1> SUFFICES ASSUME Init PROVE FileInv
  OBVIOUS
<1>1. StackInv
  BY StackInvInit
<1>2. Descent
  BY DEF Init, Descent
<1>3. LevelsTile /\ ParentsTile
  BY DEF Init, LevelsTile, ParentsTile
<1>4. TopOccupied /\ EdgeFlat /\ Returned
  BY DEF Init, TopOccupied, EdgeFlat, Returned
<1> QED
  BY <1>1, <1>2, <1>3, <1>4 DEF FileInv, Lossless

LEMMA AppendNotEmpty ==
  ASSUME NEW S, NEW s \in Seq(S), NEW e \in S
  PROVE  Append(s, e) # <<>>
<1>1. Len(Append(s, e)) = Len(s) + 1 /\ Len(s) \in Nat
  BY AppendProperties, LenProperties
<1>2. Len(<<>>) = 0
  OBVIOUS
<1> QED
  BY <1>1, <1>2

(***************************************************************************)
(* The emission of a chunk at level l, below which everything is empty.    *)
(***************************************************************************)
LEMMA EmitDescent ==
  ASSUME StackInv, Descent,
         NEW lv \in Seq(Seq(Ref)), NEW l \in 1..(Len(lv) + 1), NEW chunk \in Chunk,
         \A i \in 1..Len(lv) : i < l => lv[i] = <<>>,
         call # "none", outcome = "none",
         call = "finalize" => scan < l,
         leafBuf' = 0,
         Emit(chunk, lv, l)
  PROVE  /\ Descent'
         /\ \A i \in 1..Len(lv) : i # l => levels'[i] = lv[i]
         /\ levels'[l] # <<>>
         /\ Len(levels') = IF l > Len(lv) THEN l ELSE Len(lv)
<1> DEFINE ref == [addr |-> Len(store) + 1, span |-> chunk.span]
           p   == Push(lv, l, ref)
<1>1. Len(store) \in Nat /\ Len(lv) \in Nat /\ scan \in Nat /\ call \in {"write", "finalize"}
  BY LenProperties DEF StackInv, TypeOK
<1>2. ref \in Ref
  BY <1>1 DEF Ref, Chunk
<1>3. levels' = p
  BY DEF Emit
<1> HIDE DEF ref
<1>4. /\ Len(p) = IF l > Len(lv) THEN l ELSE Len(lv)
      /\ p[l] = Append(IF l > Len(lv) THEN <<>> ELSE lv[l], ref)
      /\ \A i \in 1..Len(lv) : i # l => p[i] = lv[i]
  BY <1>2, PushProperties
<1> HIDE DEF p
<1>5. p[l] # <<>>
  <2>1. CASE l > Len(lv)
    <3>1. <<>> \in Seq(Ref)
      BY EmptySeq
    <3>2. p[l] = Append(<<>>, ref)
      BY <1>4, <2>1
    <3> QED
      BY <1>2, <3>1, <3>2, AppendNotEmpty, Zenon
  <2>2. CASE ~ (l > Len(lv))
    <3> DEFINE old == lv[l]
    <3>1. old \in Seq(Ref) /\ p[l] = Append(old, ref)
      BY <1>1, <1>4, <2>2, ElementOfSeq
    <3> HIDE DEF old
    <3> QED
      BY <1>2, <3>1, AppendNotEmpty, Zenon
  <2> QED
    BY <2>1, <2>2
<1>6. \A i \in 1..Len(p) : i < l => p[i] = <<>>
  BY <1>1, <1>4
<1>7. /\ UNCHANGED <<call, outcome, root>>
      /\ pc' \in {"fill", "collapse", "scan"}
      /\ pc' = "collapse" => level' = l /\ scan' = scan
      /\ pc' = "scan" => call = "finalize" /\ scan' = scan + 1
      /\ pc' = "fill" => call = "write"
  BY <1>1 DEF Emit, results
<1>8. Descent'
  BY <1>1, <1>3, <1>6, <1>7 DEF Descent
<1> QED
  BY <1>3, <1>4, <1>5, <1>8

(***************************************************************************)
(* The hypotheses under which an emission keeps the chunker lossless: lv   *)
(* is the stack without the references the chunk replaces, l the level it  *)
(* joins, e the edges afterwards.                                          *)
(***************************************************************************)
JoinsStack(lv, l) ==
  /\ Len(lv) = Len(levels)
  /\ \A i \in 1..Len(lv) : i < l => lv[i] = <<>>
  /\ \A i \in 1..Len(lv) : i > l => lv[i] = levels[i]
  /\ \A i \in 1..Len(lv) : \A k \in 1..Len(lv[i]) : EmittedIn(store, lv[i][k])

JoinsEdges(lv, l, chunk, e) ==
  /\ Len(e) = (IF l > Len(lv) THEN l ELSE Len(lv)) + 1
  /\ \A i \in 1..Len(edge) : i < l => e[i] = edge[i]
  /\ e[Len(e)] = 0
  /\ e[1] = written
  /\ \A i \in 1..Len(lv) : i # l => Tiles(store, Addrs(lv[i]), e[i+1], e[i])
  /\ l <= Len(lv) => Tiles(store, Addrs(lv[l]), e[l+1], chunk.lo)
  /\ l > Len(lv) => chunk.lo = e[l+1]
  /\ chunk.lo + chunk.span = e[l]

JoinsCall(l) ==
  /\ pc \in {"leaf", "collapse"}
  /\ call # "none" /\ outcome = "none"
  /\ pc = "collapse" => l > 1
  /\ call = "finalize" => scan < l
  /\ leafBuf' = 0

CoversKids(chunk) ==
  /\ chunk.kids \in Seq(1..Len(store))
  /\ chunk.height > 0 =>
       /\ chunk.kids # <<>>
       /\ Tiles(store, chunk.kids, chunk.lo, chunk.lo + chunk.span)

LEMMA EmitLossless ==
  ASSUME StackInv, Descent, Lossless,
         NEW lv \in Seq(Seq(Ref)), NEW l \in 1..(Len(lv) + 1), NEW chunk \in Chunk,
         JoinsStack(lv, l), JoinsCall(l), CoversKids(chunk),
         Emit(chunk, lv, l),
         edge' \in Seq(Nat), JoinsEdges(lv, l, chunk, edge')
  PROVE  Lossless'
<1>0. /\ Len(lv) = Len(levels) /\ Len(lv) \in Nat /\ l \in 1..(Len(lv) + 1)
      /\ \A i \in 1..Len(lv) : i > l => lv[i] = levels[i]
      /\ \A i \in 1..Len(lv) : i < l => lv[i] = <<>>
  BY LenProperties DEF JoinsStack
<1>1. /\ Len(levels) \in Nat /\ scan \in Nat /\ written \in Nat
      /\ call \in {"write", "finalize"}
      /\ Len(edge) = Len(levels) + 1
  BY LenProperties DEF StackInv, TypeOK, Control, JoinsCall
<1>2. /\ UNCHANGED <<written, call, outcome, root>>
      /\ store' = Append(store, chunk)
      /\ pc' \in {"fill", "collapse", "scan"}
      /\ pc' = "collapse" => scan' = scan
      /\ pc' = "scan" => call = "finalize" /\ scan' = scan + 1
  BY <1>1 DEF Emit, results
<1>3. /\ \A i \in 1..Len(lv) : i # l => levels'[i] = lv[i]
      /\ levels'[l] # <<>>
      /\ Len(levels') = IF l > Len(lv) THEN l ELSE Len(lv)
  BY <1>0, EmitDescent DEF JoinsCall
<1>4. \A i \in 1..Len(levels') : Tiles(store', Addrs(levels'[i]), edge'[i+1], edge'[i])
  <2> DEFINE e == edge'
  <2>1. /\ e \in Seq(Nat)
        /\ \A i \in 1..Len(lv) : i # l => Tiles(store, Addrs(lv[i]), e[i+1], e[i])
        /\ l <= Len(lv) => Tiles(store, Addrs(lv[l]), e[l+1], chunk.lo)
        /\ l > Len(lv) => chunk.lo = e[l+1]
        /\ chunk.lo + chunk.span = e[l]
    BY DEF JoinsEdges
  <2>2. \A i \in 1..Len(lv) : \A k \in 1..Len(lv[i]) : EmittedIn(store, lv[i][k])
    BY DEF JoinsStack
  <2> HIDE DEF e
  <2>3. \A i \in 1..Len(levels') : Tiles(store', Addrs(levels'[i]), e[i+1], e[i])
    BY <2>1, <2>2, EmitTiles
  <2> QED
    BY <2>3 DEF e
<1>5. LevelsTile'
  <2>1. /\ Len(edge') = Len(levels') + 1
        /\ edge'[1] = written' - leafBuf'
        /\ edge'[Len(edge')] = 0
    BY <1>1, <1>2, <1>3 DEF JoinsEdges, JoinsCall
  <2> QED
    BY <1>4, <2>1 DEF LevelsTile
<1>6. ParentsTile'
  BY <1>2, EmitParents DEF Lossless, CoversKids
<1>7. TopOccupied'
  <2>1. CASE Len(levels') = l
    BY <1>3, <2>1 DEF TopOccupied
  <2>2. CASE Len(levels') # l
    <3>1. Len(levels') = Len(lv) /\ Len(lv) > l /\ Len(lv) \in 1..Len(lv)
      BY <1>0, <1>3, <2>2
    <3>2. levels'[Len(levels')] = levels[Len(levels)]
      BY <1>0, <1>3, <3>1
    <3>3. levels # <<>>
      BY <1>0, <3>1, EmptySeq
    <3> QED
      BY <3>2, <3>3 DEF Lossless, TopOccupied
  <2> QED
    BY <2>1, <2>2
<1>8. EdgeFlat'
  <2> SUFFICES ASSUME pc' \in {"collapse", "scan"}, call = "finalize",
                      NEW i \in 1..Len(edge'), i <= scan'
               PROVE  edge'[i] = edge'[1]
    BY <1>2 DEF EdgeFlat
  <2>1. ASSUME NEW j \in 1..scan PROVE j < l /\ edge'[j] = edge'[1]
    <3>1. pc = "collapse" /\ j < l /\ 1 < l /\ j \in 1..Len(edge) /\ 1 \in 1..Len(edge)
      <4>1. scan > 0 /\ scan < l
        BY <1>1, <2>1 DEF JoinsCall
      <4>2. pc = "collapse"
        BY <4>1 DEF Descent, JoinsCall
      <4> QED
        BY <1>0, <1>1, <2>1, <4>1, <4>2 DEF JoinsCall
    <3>2. edge[j] = edge[1]
      BY <2>1, <3>1 DEF Lossless, EdgeFlat
    <3>3. edge'[j] = edge[j] /\ edge'[1] = edge[1]
      BY <3>1 DEF JoinsEdges
    <3> QED
      BY <3>1, <3>2, <3>3
  <2>2. CASE i <= scan
    BY <1>1, <2>1, <2>2
  <2>3. CASE ~ (i <= scan)
    <3>1. i = scan + 1
      BY <1>1, <1>2, <2>3
    <3>2. CASE scan = 0
      BY <3>1, <3>2
    <3>3. CASE scan # 0
      <4>1. scan \in 1..Len(lv) /\ scan < l /\ scan \in 1..Len(levels') /\ scan \in 1..scan
        BY <1>0, <1>1, <1>3, <3>3 DEF JoinsCall
      <4>2. levels'[scan] = <<>>
        BY <1>0, <1>3, <4>1
      <4>3. Tiles(store', Addrs(<<>>), edge'[scan + 1], edge'[scan])
        BY <1>4, <4>1, <4>2
      <4>4. Addrs(<<>>) = <<>>
        BY EmptySeq DEF Addrs
      <4>5. edge'[scan + 1] = edge'[scan]
        BY <4>3, <4>4 DEF Tiles
      <4> QED
        BY <2>1, <3>1, <4>1, <4>5
    <3> QED
      BY <3>2, <3>3
  <2> QED
    BY <2>2, <2>3
<1>9. Returned'
  BY <1>2 DEF Returned, JoinsCall
<1> QED
  BY <1>5, <1>6, <1>7, <1>8, <1>9 DEF Lossless

LEMMA FlushLeafFile ==
  ASSUME StackInv, Descent, FlushLeaf
  PROVE  Descent' /\ (faults = 0 /\ Lossless /\ faults' = 0 => Lossless')
<1> DEFINE chunk == Leaf(written - leafBuf, leafBuf)
<1>1. /\ levels \in Seq(Seq(Ref)) /\ Len(levels) \in Nat
      /\ edge \in Seq(Nat) /\ Len(edge) = Len(levels) + 1
      /\ leafBuf \in Nat \ {0} /\ written \in Nat /\ leafBuf <= written
      /\ faults \in Nat
      /\ pc = "leaf" /\ leafBuf' = 0
  BY LenProperties, ConstantsAssumption DEF StackInv, TypeOK, Control, FlushLeaf
<1>2. /\ chunk \in Chunk
      /\ chunk.lo = written - leafBuf /\ chunk.lo + chunk.span = written
      /\ chunk.kids = <<>> /\ chunk.height = 0
  BY <1>1 DEF Chunk, Leaf
<1>3. JoinsStack(levels, 1)
  BY <1>1 DEF JoinsStack, StackInv, ReferencesEmitted
<1>4. JoinsCall(1)
  BY <1>1 DEF JoinsCall, Descent
<1>5. CASE /\ Emit(chunk, levels, 1)
           /\ edge' = Raise(edge, 1, written)
  <2> HIDE DEF chunk
  <2> DEFINE l == 1
  <2>1. /\ l \in 1..(Len(levels) + 1) /\ l \in 1..Len(edge)
        /\ Emit(chunk, levels, l) /\ JoinsStack(levels, l) /\ JoinsCall(l)
        /\ edge' = Raise(edge, l, written)
    BY <1>1, <1>3, <1>4, <1>5
  <2>2. \A i \in 1..Len(levels) : i >= l
    OBVIOUS
  <2>4. l = 1
    OBVIOUS
  <2> HIDE DEF l
  <2>5. Descent'
    <3>1. \A i \in 1..Len(levels) : i < l => levels[i] = <<>>
      BY <2>1 DEF JoinsStack
    <3> QED
      BY <1>1, <1>2, <2>1, <3>1, EmitDescent DEF JoinsCall
  <2>6. ASSUME Lossless PROVE Lossless'
    <3> DEFINE e == Raise(edge, l, written)
    <3>1. /\ e \in Seq(Nat)
          /\ Len(e) = IF l = Len(edge) THEN l + 1 ELSE Len(edge)
          /\ \A i \in 1..Len(edge) : i # l => e[i] = edge[i]
          /\ e[l] = written
          /\ l = Len(edge) => e[l + 1] = 0
      <4>1. edge \in Seq(Nat) /\ l \in 1..Len(edge) /\ written \in Nat
        BY <1>1, <2>1
      <4> QED
        BY <4>1, RaiseProperties, Zenon
    <3> HIDE DEF e
    <3>2. /\ edge[Len(edge)] = 0
          /\ edge[1] = written - leafBuf
          /\ \A i \in 1..Len(levels) : Tiles(store, Addrs(levels[i]), edge[i+1], edge[i])
      BY <2>6 DEF Lossless, LevelsTile
    <3>3. Len(e) = (IF l > Len(levels) THEN l ELSE Len(levels)) + 1
      BY <1>1, <2>1, <3>1
    <3>4. e[Len(e)] = 0
      <4>1. CASE l = Len(edge)
        BY <3>1, <4>1
      <4>2. CASE l # Len(edge)
        BY <1>1, <3>1, <3>2, <4>2
      <4> QED
        BY <4>1, <4>2
    <3>5. \A i \in 1..Len(levels) : i # l => Tiles(store, Addrs(levels[i]), e[i+1], e[i])
      <4> TAKE i \in 1..Len(levels)
      <4> HAVE i # l
      <4>1. i \in 1..Len(edge) /\ i + 1 \in 1..Len(edge) /\ i + 1 # l
        BY <1>1, <2>2, <2>4
      <4>2. e[i] = edge[i] /\ e[i+1] = edge[i+1]
        BY <3>1, <4>1
      <4> QED
        BY <3>2, <4>2
    <3>6. l <= Len(levels) => Tiles(store, Addrs(levels[l]), e[l+1], chunk.lo)
      <4> HAVE l <= Len(levels)
      <4>1. l \in 1..Len(levels) /\ l + 1 \in 1..Len(edge) /\ l + 1 # l
        BY <1>1, <2>1
      <4>2. e[l+1] = edge[l+1] /\ chunk.lo = edge[l]
        BY <1>2, <2>4, <3>1, <3>2, <4>1
      <4> QED
        BY <3>2, <4>1, <4>2
    <3>7. l > Len(levels) => chunk.lo = e[l+1]
      <4> HAVE l > Len(levels)
      <4>1. l = Len(edge)
        BY <1>1, <2>1
      <4>2. chunk.lo = edge[Len(edge)]
        BY <1>2, <2>4, <3>2, <4>1
      <4> QED
        BY <3>1, <3>2, <4>1, <4>2
    <3>8. JoinsEdges(levels, l, chunk, e)
      BY <1>2, <2>4, <3>1, <3>3, <3>4, <3>5, <3>6, <3>7 DEF JoinsEdges
    <3>9. CoversKids(chunk)
      BY <1>2, EmptySeq DEF CoversKids
    <3>10. edge' \in Seq(Nat) /\ JoinsEdges(levels, l, chunk, edge')
      BY <2>1, <3>1, <3>8 DEF e
    <3> QED
      BY <1>1, <1>2, <2>1, <2>6, <3>9, <3>10, EmitLossless
  <2> QED
    BY <2>5, <2>6
<1>6. CASE Reject /\ UNCHANGED levels
  BY <1>1, <1>6 DEF Reject, Descent
<1> QED
  BY <1>5, <1>6 DEF FlushLeaf

LEMMA CollapseLevelFile ==
  ASSUME StackInv, Descent, CollapseLevel
  PROVE  Descent' /\ (faults = 0 /\ Lossless /\ faults' = 0 => Lossless')
<1> DEFINE refs  == levels[level]
           chunk == Parent(level, refs)
           lv    == [levels EXCEPT ![level] = <<>>]
           l     == level + 1
<1>1. /\ levels \in Seq(Seq(Ref)) /\ Len(levels) \in Nat
      /\ edge \in Seq(Nat) /\ Len(edge) = Len(levels) + 1
      /\ store \in Seq(Chunk) /\ Len(store) \in Nat
      /\ level \in 1..Len(levels) /\ refs # <<>>
      /\ written \in Nat /\ faults \in Nat
      /\ pc = "collapse" /\ leafBuf = 0 /\ leafBuf' = 0
      /\ call # "none" /\ outcome = "none" /\ (call = "finalize" => scan <= level)
  BY LenProperties DEF StackInv, TypeOK, Control, Descent, CollapseLevel
<1>2. refs \in Seq(Ref)
  BY <1>1, ElementOfSeq
<1>3. Len(refs) \in Nat \ {0} /\ \A k \in 1..Len(refs) : refs[k] \in Ref
  BY <1>1, <1>2, EmptySeq, ElementOfSeq
<1>4. \A k \in 1..Len(refs) : EmittedIn(store, refs[k])
  BY <1>1 DEF StackInv, ReferencesEmitted
<1>5. /\ Addrs(refs) \in Seq(1..Len(store)) /\ Addrs(refs) # <<>>
      /\ Len(Addrs(refs)) = Len(refs)
      /\ \A k \in 1..Len(refs) : Addrs(refs)[k] = refs[k].addr
  <2> HIDE DEF refs
  <2> QED
    BY <1>1, <1>2, <1>4, AddrsProperties
<1>6. chunk \in Chunk /\ chunk.kids = Addrs(refs) /\ chunk.span = TotalSpan(refs)
      /\ chunk.lo = Lo(store, refs[1].addr)
  <2>1. TotalSpan(refs) \in Nat \ {0}
    BY <1>1, <1>2, TotalSpanType
  <2>2. store[refs[1].addr] \in Chunk
    <3>1. refs[1].addr \in 1..Len(store)
      BY <1>3, <1>4 DEF EmittedIn
    <3> QED
      BY <1>1, <3>1, ElementOfSeq
  <2>3. Lo(store, refs[1].addr) \in Nat
    BY <2>2 DEF Lo, Chunk
  <2>4. Addrs(refs) \in Seq(Nat \ {0})
    BY <1>3 DEF Ref, Addrs
  <2>5. level \in Nat
    BY <1>1
  <2> HIDE DEF refs
  <2> QED
    BY <2>1, <2>3, <2>4, <2>5 DEF Chunk, Parent
<1>7. /\ lv \in Seq(Seq(Ref)) /\ Len(lv) = Len(levels)
      /\ \A i \in 1..Len(levels) : lv[i] = IF i = level THEN <<>> ELSE levels[i]
  <2>1. <<>> \in Seq(Ref)
    BY EmptySeq
  <2>2. /\ lv \in Seq(Seq(Ref)) /\ Len(lv) = Len(levels)
        /\ \A j \in 1..Len(levels) : lv[j] = IF j = level THEN <<>> ELSE levels[j]
    <3> HIDE DEF refs
    <3> QED
      BY <1>1, <2>1, ExceptSeq, SMTT(20)
  <2> QED
    BY <2>2
<1>8. CASE Reject /\ levels' = lv
  BY <1>1, <1>8 DEF Reject, Descent
<1>9. CASE Emit(chunk, lv, l) /\ edge' = Raise(edge, l, edge[level])
  <2> HIDE DEF chunk, lv, refs
  <2>1. l = level + 1 /\ l \in 1..(Len(lv) + 1) /\ l \in 1..Len(edge) /\ l > 1
    BY <1>1, <1>7
  <2> HIDE DEF l
  <2>2. JoinsStack(lv, l)
    <3>1. \A i \in 1..Len(lv) : i < l => lv[i] = <<>>
      <4> TAKE i \in 1..Len(lv)
      <4> HAVE i < l
      <4>1. i \in 1..Len(levels)
        BY <1>7
      <4>2. CASE i = level
        BY <1>7, <4>1, <4>2
      <4>3. CASE i # level
        <5>1. i < level /\ lv[i] = levels[i]
          BY <1>1, <1>7, <2>1, <4>1, <4>3
        <5> QED
          BY <1>1, <4>1, <5>1 DEF Descent
      <4> QED
        BY <4>2, <4>3
    <3>2. \A i \in 1..Len(lv) : i > l => lv[i] = levels[i]
      BY <1>1, <1>7, <2>1
    <3>3. \A i \in 1..Len(lv) : \A k \in 1..Len(lv[i]) : EmittedIn(store, lv[i][k])
      <4> TAKE i \in 1..Len(lv)
      <4> TAKE k \in 1..Len(lv[i])
      <4>1. i \in 1..Len(levels)
        BY <1>7
      <4>2. i # level
        <5>1. SUFFICES ASSUME i = level PROVE FALSE
          OBVIOUS
        <5>2. lv[i] = <<>> /\ Len(<<>>) = 0
          BY <1>7, <4>1, <5>1, EmptySeq
        <5>3. k \in 1..0
          BY <5>2
        <5> QED
          BY <5>3
      <4> QED
        BY <1>7, <4>1, <4>2 DEF StackInv, ReferencesEmitted
    <3> QED
      BY <1>7, <3>1, <3>2, <3>3 DEF JoinsStack
  <2>3. JoinsCall(l)
    <3>1. scan \in Nat
      BY DEF StackInv, TypeOK
    <3> QED
      BY <1>1, <2>1, <3>1 DEF JoinsCall
  <2>4. Descent'
    <3>1. \A i \in 1..Len(lv) : i < l => lv[i] = <<>>
      BY <2>2 DEF JoinsStack
    <3>2. call # "none" /\ outcome = "none" /\ (call = "finalize" => scan < l)
      BY <2>3 DEF JoinsCall
    <3> QED
      BY <1>1, <1>6, <1>7, <1>9, <2>1, <3>1, <3>2, EmitDescent
  <2>5. ASSUME Lossless PROVE Lossless'
    <3> DEFINE e == Raise(edge, l, edge[level])
    <3>1. /\ e \in Seq(Nat)
          /\ Len(e) = IF l = Len(edge) THEN l + 1 ELSE Len(edge)
          /\ \A i \in 1..Len(edge) : i # l => e[i] = edge[i]
          /\ e[l] = edge[level]
          /\ l = Len(edge) => e[l + 1] = 0
      <4>1. edge \in Seq(Nat) /\ l \in 1..Len(edge) /\ edge[level] \in Nat
        BY <1>1, <2>1, ElementOfSeq
      <4> QED
        BY <4>1, RaiseProperties, Zenon
    <3> HIDE DEF e
    <3>2. /\ edge[Len(edge)] = 0
          /\ edge[1] = written - leafBuf
          /\ \A i \in 1..Len(levels) : Tiles(store, Addrs(levels[i]), edge[i+1], edge[i])
      BY <2>5 DEF Lossless, LevelsTile
    <3>3. Tiles(store, Addrs(refs), edge[l], edge[level])
      BY <1>1, <2>1, <3>2 DEF refs
    <3>4. TotalSpan(refs) = edge[level] - edge[l] /\ chunk.lo = edge[l]
      <4>1. edge[l] \in Nat /\ edge[level] \in Nat
        BY <1>1, <2>1, ElementOfSeq, SMTT(20)
      <4> QED
        BY <1>1, <1>2, <1>4, <1>6, <3>3, <4>1, TilesSpan
    <3>5. chunk.lo + chunk.span = e[l]
      <4>1. edge[l] \in Nat /\ edge[level] \in Nat
        BY <1>1, <2>1, ElementOfSeq, SMTT(20)
      <4> QED
        BY <1>6, <3>1, <3>4, <4>1
    <3>6. /\ Len(e) = (IF l > Len(lv) THEN l ELSE Len(lv)) + 1
          /\ \A i \in 1..Len(edge) : i < l => e[i] = edge[i]
          /\ e[1] = written
      <4>1. Len(e) = (IF l > Len(lv) THEN l ELSE Len(lv)) + 1
        <5>1. CASE l = Len(edge)
          BY <1>1, <1>7, <2>1, <3>1, <5>1
        <5>2. CASE l # Len(edge)
          BY <1>1, <1>7, <2>1, <3>1, <5>2
        <5> QED
          BY <5>1, <5>2
      <4>2. \A i \in 1..Len(edge) : i < l => e[i] = edge[i]
        BY <1>1, <2>1, <3>1
      <4>3. e[1] = written
        <5>1. 1 \in 1..Len(edge) /\ 1 # l
          BY <1>1, <2>1
        <5>2. e[1] = edge[1]
          BY <3>1, <5>1
        <5> QED
          BY <1>1, <3>2, <5>2
      <4> QED
        BY <4>1, <4>2, <4>3
    <3>7. e[Len(e)] = 0
      <4>1. CASE l = Len(edge)
        BY <3>1, <4>1
      <4>2. CASE l # Len(edge)
        BY <1>1, <3>1, <3>2, <4>2
      <4> QED
        BY <4>1, <4>2
    <3>8. \A i \in 1..Len(lv) : i # l => Tiles(store, Addrs(lv[i]), e[i+1], e[i])
      <4> TAKE i \in 1..Len(lv)
      <4> HAVE i # l
      <4>1. CASE i = level
        <5>1. e[i+1] = e[i] /\ lv[i] = <<>>
          <6>1. i \in 1..Len(levels) /\ i \in 1..Len(edge) /\ i + 1 = l
            BY <1>1, <2>1, <4>1
          <6>2. e[i] = edge[i] /\ e[i+1] = edge[i]
            BY <3>1, <4>1, <6>1
          <6>3. lv[i] = <<>>
            BY <1>7, <4>1, <6>1
          <6> QED
            BY <6>2, <6>3
        <5>2. Addrs(<<>>) = <<>>
          BY EmptySeq DEF Addrs
        <5> QED
          BY <5>1, <5>2 DEF Tiles
      <4>2. CASE i # level
        <5>1. i \in 1..Len(levels) /\ lv[i] = levels[i]
          BY <1>7, <4>2
        <5>2. e[i] = edge[i] /\ e[i+1] = edge[i+1]
          <6>1. i \in 1..Len(edge) /\ i + 1 \in 1..Len(edge) /\ i + 1 # l
            BY <1>1, <2>1, <4>2, <5>1
          <6> QED
            BY <3>1, <6>1
        <5> QED
          BY <3>2, <5>1, <5>2
      <4> QED
        BY <4>1, <4>2
    <3>9. l <= Len(lv) => Tiles(store, Addrs(lv[l]), e[l+1], chunk.lo)
      <4> HAVE l <= Len(lv)
      <4>1. /\ l \in Nat /\ l \in 1..Len(levels) /\ l # level
            /\ l + 1 \in 1..Len(edge) /\ l + 1 # l
        <5>1. Len(lv) = Len(levels) /\ Len(edge) = Len(levels) + 1 /\ Len(levels) \in Nat
          BY <1>1, <1>7
        <5>2. level \in Nat /\ l = level + 1 /\ l \in 1..(Len(lv) + 1)
          BY <1>1, <2>1
        <5> QED
          BY <5>1, <5>2
      <4>2. lv[l] = levels[l]
        BY <1>7, <4>1
      <4>3. e[l+1] = edge[l+1]
        BY <3>1, <4>1
      <4> QED
        BY <3>2, <3>4, <4>1, <4>2, <4>3
    <3>10. l > Len(lv) => chunk.lo = e[l+1]
      <4> HAVE l > Len(lv)
      <4>1. l = Len(edge)
        BY <1>1, <1>7, <2>1
      <4> QED
        BY <3>1, <3>2, <3>4, <4>1
    <3>11. edge' \in Seq(Nat) /\ JoinsEdges(lv, l, chunk, edge')
      <4>1. JoinsEdges(lv, l, chunk, e)
        BY <3>5, <3>6, <3>7, <3>8, <3>9, <3>10 DEF JoinsEdges
      <4> QED
        BY <1>9, <3>1, <4>1 DEF e
    <3>12. CoversKids(chunk)
      BY <1>5, <1>6, <3>1, <3>3, <3>4, <3>5 DEF CoversKids
    <3> QED
      BY <1>6, <1>7, <1>9, <2>1, <2>2, <2>3, <2>5, <3>11, <3>12, EmitLossless
  <2> QED
    BY <2>4, <2>5
<1> QED
  BY <1>8, <1>9 DEF CollapseLevel

(***************************************************************************)
(* A step that touches neither the stack nor the store keeps the tilings.  *)
(***************************************************************************)
LEMMA TilingUnchanged ==
  ASSUME UNCHANGED <<levels, store, edge>>, Lossless,
         written' - leafBuf' = written - leafBuf
  PROVE  LevelsTile' /\ ParentsTile' /\ TopOccupied'
BY DEF Lossless, LevelsTile, ParentsTile, TopOccupied

LEMMA FileInvStep == FileInv /\ [Next]_vars => FileInv'
<1> SUFFICES ASSUME FileInv, [Next]_vars PROVE FileInv'
  OBVIOUS
<1>0. /\ StackInv /\ Descent /\ TypeOK /\ Control
      /\ StackInv'
      /\ faults = 0 => Lossless
      /\ Len(levels) \in Nat /\ Len(edge) = Len(levels) + 1
  BY StackInvStep, LenProperties DEF FileInv, StackInv, TypeOK, Control
<1> SUFFICES Descent' /\ (faults = 0 /\ Lossless /\ faults' = 0 => Lossless')
  <2>1. faults' = 0 => faults = 0
    BY <1>0 DEF Next, Internal, Write, Fill, WriteReturns, FinalizeEmpty, Finalize,
       FlushLeaf, CollapseLevel, Scan, FinalizeReturns, Emit, Reject, TypeOK,
       vars, results
  <2> QED
    BY <1>0, <2>1 DEF FileInv
<1>1. ASSUME NEW n \in 1..MaxBytes, Write(n)
      PROVE  Descent' /\ (Lossless => Lossless')
  <2>1. Descent'
    BY <1>0, <1>1 DEF Descent, Write, chunker
  <2>2. ASSUME Lossless PROVE Lossless'
    <3>1. LevelsTile' /\ ParentsTile' /\ TopOccupied'
      BY <1>1, <2>2, TilingUnchanged DEF Write, chunker
    <3>2. EdgeFlat' /\ Returned'
      BY <1>1, <2>2 DEF Lossless, EdgeFlat, Returned, Write, chunker
    <3> QED
      BY <3>1, <3>2 DEF Lossless
  <2> QED
    BY <2>1, <2>2
<1>2. CASE Fill
  <2>1. Descent'
    BY <1>0, <1>2 DEF Descent, Fill, results, TypeOK
  <2>2. ASSUME Lossless PROVE Lossless'
    <3>1. written' - leafBuf' = written - leafBuf
      BY <1>0, <1>2, ConstantsAssumption DEF TypeOK, Fill
    <3>2. LevelsTile' /\ ParentsTile' /\ TopOccupied'
      BY <1>2, <2>2, <3>1, TilingUnchanged DEF Fill, results
    <3>3. EdgeFlat' /\ Returned'
      BY <1>0, <1>2, <2>2 DEF Descent, Lossless, EdgeFlat, Returned, Fill, results
    <3> QED
      BY <3>2, <3>3 DEF Lossless
  <2> QED
    BY <2>1, <2>2
<1>3. CASE WriteReturns
  <2>1. Descent'
    BY <1>0, <1>3 DEF Descent, WriteReturns, chunker
  <2>2. ASSUME Lossless PROVE Lossless'
    <3>1. LevelsTile' /\ ParentsTile' /\ TopOccupied'
      BY <1>3, <2>2, TilingUnchanged DEF WriteReturns, chunker
    <3>2. EdgeFlat' /\ Returned'
      BY <1>3, <2>2 DEF Lossless, EdgeFlat, Returned, WriteReturns, chunker
    <3> QED
      BY <3>1, <3>2 DEF Lossless
  <2> QED
    BY <2>1, <2>2
<1>4. CASE FinalizeEmpty
  <2>1. Descent'
    BY <1>0, <1>4 DEF Descent, FinalizeEmpty, chunker, control
  <2>2. ASSUME Lossless PROVE Lossless'
    <3>1. LevelsTile' /\ ParentsTile' /\ TopOccupied'
      BY <1>4, <2>2, TilingUnchanged DEF FinalizeEmpty, chunker, control
    <3>2. written = 0
      <4>1. Len(edge) = 1 /\ leafBuf = 0
        BY <1>0, <1>4, EmptySeq DEF FinalizeEmpty
      <4>2. edge[1] = 0 /\ edge[1] = written - leafBuf /\ written \in Nat
        BY <1>0, <2>2, <4>1 DEF Lossless, LevelsTile, TypeOK
      <4> QED
        BY <4>1, <4>2
    <3>3. EdgeFlat' /\ Returned'
      BY <1>4, <2>2, <3>2
      DEF Lossless, EdgeFlat, Returned, FinalizeEmpty, chunker, control
    <3> QED
      BY <3>1, <3>3 DEF Lossless
  <2> QED
    BY <2>1, <2>2
<1>5. CASE Finalize
  <2>0. leafBuf \in Nat
    BY <1>0, ConstantsAssumption DEF TypeOK
  <2>1. Descent'
    BY <1>0, <1>5, <2>0 DEF Descent, Finalize, chunker
  <2>2. ASSUME Lossless PROVE Lossless'
    <3>1. LevelsTile' /\ ParentsTile' /\ TopOccupied'
      BY <1>5, <2>2, TilingUnchanged DEF Finalize, chunker
    <3>2. EdgeFlat'
      BY <1>0, <1>5, <2>2 DEF EdgeFlat, Finalize, chunker
    <3>3. Returned'
      BY <1>5, <2>2 DEF Lossless, Returned, Finalize, chunker
    <3> QED
      BY <3>1, <3>2, <3>3 DEF Lossless
  <2> QED
    BY <2>1, <2>2
<1>6. CASE FlushLeaf
  BY <1>0, <1>6, FlushLeafFile
<1>7. CASE CollapseLevel
  BY <1>0, <1>7, CollapseLevelFile
<1>8. CASE Scan
  <2>1. scan \in 1..Len(levels) /\ pc = "scan" /\ call = "finalize" /\ leafBuf = 0
    BY <1>0, <1>8 DEF TypeOK, Control, Descent, Scan, ScanEnds
  <2>2. UNCHANGED <<leafBuf, levels, store, written, call, root, outcome, faults, edge>>
    BY <1>8 DEF Scan, chunker, results
  <2>3. \/ levels[scan] = <<>> /\ pc' = "scan" /\ scan' = scan + 1
        \/ levels[scan] # <<>> /\ pc' = "collapse" /\ level' = scan /\ scan' = scan
    BY <1>8, <2>1 DEF Scan
  <2>4. outcome = "none"
    BY <1>0, <2>1 DEF Descent, TypeOK
  <2>5. Descent'
    <3>1. \A i \in 1..Len(levels) : i < scan => levels[i] = <<>>
      BY <1>0, <2>1 DEF Descent
    <3>2. pc' = "scan" => \A i \in 1..Len(levels) : i < scan' => levels[i] = <<>>
      <4> SUFFICES ASSUME pc' = "scan", NEW i \in 1..Len(levels), i < scan'
                   PROVE  levels[i] = <<>>
        OBVIOUS
      <4>1. i = scan \/ i < scan
        BY <2>1, <2>3
      <4> QED
        BY <2>3, <3>1, <4>1
    <3>3. pc' = "collapse" => /\ \A i \in 1..Len(levels) : i < level' => levels[i] = <<>>
                              /\ scan' <= level'
      BY <2>1, <2>3, <3>1
    <3> QED
      BY <2>1, <2>2, <2>3, <2>4, <3>2, <3>3 DEF Descent
  <2>6. ASSUME Lossless PROVE Lossless'
    <3>1. LevelsTile' /\ ParentsTile' /\ TopOccupied'
      BY <2>2, <2>6, TilingUnchanged
    <3>2. \A i \in 1..Len(edge) : i <= scan => edge[i] = edge[1]
      BY <2>1, <2>6 DEF Lossless, EdgeFlat
    <3>3. EdgeFlat'
      <4>1. CASE scan' = scan
        BY <2>2, <3>2, <4>1 DEF EdgeFlat
      <4>2. CASE levels[scan] = <<>> /\ scan' = scan + 1
        <5>1. Tiles(store, Addrs(<<>>), edge[scan + 1], edge[scan])
          BY <2>1, <2>6, <4>2 DEF Lossless, LevelsTile
        <5>2. Addrs(<<>>) = <<>>
          BY EmptySeq DEF Addrs
        <5>3. edge[scan + 1] = edge[scan] /\ edge[scan] = edge[1]
          BY <1>0, <2>1, <3>2, <5>1, <5>2 DEF Tiles
        <5>4. \A i \in 1..Len(edge) : i <= scan + 1 => edge[i] = edge[1]
          <6> TAKE i \in 1..Len(edge)
          <6> HAVE i <= scan + 1
          <6>1. i = scan + 1 \/ i <= scan
            BY <2>1
          <6> QED
            BY <3>2, <5>3, <6>1
        <5> QED
          BY <2>2, <4>2, <5>4 DEF EdgeFlat
      <4> QED
        BY <2>3, <4>1, <4>2
    <3>4. Returned'
      BY <2>2, <2>3, <2>4 DEF Returned
    <3> QED
      BY <3>1, <3>3, <3>4 DEF Lossless
  <2> QED
    BY <2>5, <2>6
<1>9. CASE FinalizeReturns
  <2>1. /\ pc = "scan" /\ call = "finalize" /\ leafBuf = 0 /\ scan \in Nat \ {0}
        /\ levels # <<>> /\ Len(levels) \in Nat \ {0}
    BY <1>0, <1>9, EmptySeq DEF TypeOK, Control, Descent, FinalizeReturns
  <2> DEFINE top == levels[Len(levels)]
  <2>2. UNCHANGED <<leafBuf, levels, store, written, faults, edge>>
    BY <1>9 DEF FinalizeReturns, chunker
  <2>3. \/ top = <<>> /\ pc' = "panicked" /\ outcome' = "panic"
        \/ top # <<>> /\ pc' = "ready" /\ outcome' = "sealed" /\ root' = top[1]
    BY <1>9, <2>1 DEF FinalizeReturns
  <2>4. top # <<>> => top \in Seq(Ref) /\ 1 \in 1..Len(top) /\ top[1] \in Ref
                      /\ EmittedIn(store, top[1])
    <3>1. top \in Seq(Ref)
      BY <1>0, <2>1, ElementOfSeq DEF TypeOK
    <3>2. top # <<>> => 1 \in 1..Len(top) /\ top[1] \in Ref
      <4> HIDE DEF top
      <4>1. top # <<>> => 1 \in 1..Len(top)
        BY <3>1, EmptySeq
      <4> QED
        BY <3>1, <4>1, ElementOfSeq
    <3> QED
      BY <1>0, <2>1, <3>1, <3>2 DEF StackInv, ReferencesEmitted
  <2>5. Descent'
    <3>1. top # <<>> => top[1] # NoRef
      BY <2>4 DEF Ref, NoRef
    <3> HIDE DEF top
    <3> QED
      BY <2>3, <3>1 DEF Descent
  <2>6. ASSUME Lossless PROVE Lossless'
    <3>1. LevelsTile' /\ ParentsTile' /\ TopOccupied'
      BY <2>2, <2>6, TilingUnchanged
    <3>2. top # <<>>
      BY <2>1, <2>6 DEF Lossless, TopOccupied
    <3>3. scan = Len(levels) /\ Len(top) = 1
      <4>1. ~ (scan > Len(levels))
        BY <1>0, <2>1, <3>2 DEF Descent
      <4> QED
        BY <1>9, <4>1 DEF FinalizeReturns, ScanEnds
    <3>4. edge[scan] = written /\ edge[scan + 1] = 0
      <4>1. scan \in 1..Len(edge) /\ scan + 1 = Len(edge)
        BY <1>0, <2>1, <3>3
      <4>2. edge[scan] = edge[1]
        BY <2>1, <2>6, <4>1 DEF Lossless, EdgeFlat
      <4>3. edge[1] = written - leafBuf /\ edge[Len(edge)] = 0 /\ written \in Nat
        BY <1>0, <2>6 DEF Lossless, LevelsTile, TypeOK
      <4> QED
        BY <2>1, <4>1, <4>2, <4>3
    <3>5. Tiles(store, Addrs(top), 0, written)
      <4>1. scan \in 1..Len(levels)
        BY <2>1, <3>3
      <4> QED
        BY <2>6, <3>3, <3>4, <4>1 DEF Lossless, LevelsTile
    <3>6. Lo(store, top[1].addr) = 0 /\ top[1].span = written
      <4>1. store \in Seq(Chunk) /\ \A k \in 1..Len(top) : EmittedIn(store, top[k])
        <5>1. Len(levels) \in 1..Len(levels)
          BY <1>0, <2>1, <3>3
        <5>2. store \in Seq(Chunk)
          BY <1>0 DEF TypeOK
        <5>3. \A k \in 1..Len(top) : EmittedIn(store, top[k])
          BY <1>0, <5>1 DEF StackInv, ReferencesEmitted
        <5> QED
          BY <5>2, <5>3
      <4>2. Len(Addrs(top)) = 1 /\ Addrs(top)[1] = top[1].addr /\ Addrs(top) # <<>>
        <5> HIDE DEF top
        <5> QED
          BY <2>4, <3>2, <3>3, <4>1, AddrsProperties
      <4>3. Lo(store, top[1].addr) = 0 /\ Hi(store, top[1].addr) = written
        <5> HIDE DEF top
        <5> QED
          BY <3>5, <4>2 DEF Tiles
      <4>4. top[1].span \in Nat /\ Hi(store, top[1].addr) = Lo(store, top[1].addr) + top[1].span
        <5> HIDE DEF top
        <5> QED
          BY <2>4, <3>2 DEF Ref, EmittedIn, Lo, Hi
      <4> QED
        BY <4>3, <4>4
    <3>7. pc' = "ready" /\ outcome' = "sealed" /\ root' = top[1]
      BY <2>3, <3>2
    <3>8. EdgeFlat' /\ Returned'
      <4> HIDE DEF top
      <4> QED
        BY <2>2, <3>6, <3>7 DEF EdgeFlat, Returned
    <3> QED
      BY <3>1, <3>8 DEF Lossless
  <2> QED
    BY <2>5, <2>6
<1>10. CASE UNCHANGED vars
  <2> USE <1>10 DEF vars, chunker, control, results
  <2>1. Descent'
    BY <1>0 DEF Descent
  <2>2. Lossless => Lossless'
    BY DEF Lossless, LevelsTile, ParentsTile, TopOccupied, EdgeFlat, Returned
  <2> QED
    BY <2>1, <2>2
<1> QED
  BY <1>1, <1>2, <1>3, <1>4, <1>5, <1>6, <1>7, <1>8, <1>9, <1>10 DEF Next, Internal

(***************************************************************************)
(* As long as OnChunk succeeds, every byte written is below exactly one    *)
(* queued reference or still in the leaf buffer, in input order, and each  *)
(* parent's span is the sum of what its children cover.                    *)
(***************************************************************************)
THEOREM ChunkerLosesNothing == Spec => []NothingLost
<1>1. FileInv => NothingLost
  BY DEF FileInv, Lossless, NothingLost
<1> QED
  BY <1>1, FileInvInit, FileInvStep, PTL DEF Spec

(***************************************************************************)
(* Finalize returns a reference whose subtree starts at the first byte and *)
(* spans all bytes written, for every way of cutting the input.            *)
(***************************************************************************)
THEOREM FinalizeCoversInput == Spec => []RootCoversInput
<1>1. FileInv => RootCoversInput
  BY DEF FileInv, Lossless, Returned, RootCoversInput
<1> QED
  BY <1>1, FileInvInit, FileInvStep, PTL DEF Spec

(***************************************************************************)
(* Finalize never indexes an empty level unless an OnChunk error came      *)
(* first (file_chunker.go 96).                                             *)
(***************************************************************************)
THEOREM PanicOnlyAfterFault == Spec => []PanicNeedsFault
<1>1. FileInv => PanicNeedsFault
  BY DEF FileInv, StackInv, TypeOK, Lossless, Returned, PanicNeedsFault
<1> QED
  BY <1>1, FileInvInit, FileInvStep, PTL DEF Spec

(***************************************************************************)
(* Without an OnChunk error, Finalize calls a payload empty only if no     *)
(* byte was ever written (file_chunker.go 73-75).                          *)
(***************************************************************************)
THEOREM EmptyOnlyWhenUnfed == Spec => []EmptyMeansEmpty
<1>1. FileInv => EmptyMeansEmpty
  BY DEF FileInv, Lossless, Returned, EmptyMeansEmpty
<1> QED
  BY <1>1, FileInvInit, FileInvStep, PTL DEF Spec

-----------------------------------------------------------------------------
(* The tree of the input.                                                  *)

LEMMA Quotients ==
  ASSUME NEW x \in Nat, NEW y \in Nat \ {0}
  PROVE  /\ x \div y \in Nat
         /\ (x \div y) * y <= x
         /\ \A q \in Nat : q * y <= x => q <= x \div y
<1>1. x \div y \in Nat /\ (x \div y) * y <= x
  BY SMTT(30)
<1>2. ASSUME NEW q \in Nat, q * y <= x PROVE q <= x \div y
  BY <1>2, SMTT(30)
<1> QED
  BY <1>1, <1>2

(* The bytes below a full chunk of height h.                               *)
Cap(h) == Hash!Capacity[h]

(* f lists the capacities of the heights up to h.                          *)
Scales(f, h) ==
  /\ f \in [0..h -> Nat]
  /\ f[0] = ChunkSize
  /\ \A i \in 1..h : f[i] = MaxBranches * f[i - 1]

LEMMA ScalesExist ==
  ASSUME NEW h \in Nat
  PROVE  \E f : Scales(f, h)
<1> DEFINE Bad == {k \in Nat : ~ \E f : Scales(f, k)}
<1> SUFFICES ASSUME Bad # {} PROVE FALSE
  OBVIOUS
<1>1. PICK k \in Bad : \A m \in Bad : k <= m
  BY LeastNatural
<1>2. k # 0
  <2> DEFINE f == [i \in 0..0 |-> ChunkSize]
  <2>1. f \in [0..0 -> Nat] /\ f[0] = ChunkSize
    BY ConstantsAssumption
  <2>2. Scales(f, 0)
    BY <2>1 DEF Scales
  <2> QED
    BY <2>2
<1>3. k - 1 \in Nat /\ k - 1 \notin Bad
  BY <1>1, <1>2
<1>4. PICK f : Scales(f, k - 1)
  BY <1>3
<1> DEFINE g == [i \in 0..k |-> IF i = k THEN MaxBranches * f[k - 1] ELSE f[i]]
<1>5. f[k - 1] \in Nat /\ MaxBranches \in Nat
  BY <1>3, <1>4, ConstantsAssumption DEF Scales
<1>6. MaxBranches * f[k - 1] \in Nat
  BY <1>5
<1>7. g \in [0..k -> Nat] /\ g[0] = ChunkSize
  BY <1>2, <1>3, <1>4, <1>6 DEF Scales
<1>8. ASSUME NEW i \in 1..k PROVE g[i] = MaxBranches * g[i - 1]
  <2>1. CASE i = k
    BY <1>3, <2>1
  <2>2. CASE i # k
    <3>1. i \in 1..(k - 1) /\ i - 1 \in 0..k /\ i - 1 # k /\ i \in 0..k
      BY <1>1, <2>2
    <3>2. g[i] = f[i] /\ g[i - 1] = f[i - 1]
      BY <2>2, <3>1
    <3> QED
      BY <1>4, <3>1, <3>2 DEF Scales
  <2> QED
    BY <2>1, <2>2
<1>9. Scales(g, k)
  BY <1>7, <1>8 DEF Scales
<1> QED
  BY <1>9

LEMMA ScalesAgree ==
  ASSUME NEW n \in Nat, NEW m \in Nat, NEW f, NEW g, Scales(f, n), Scales(g, m),
         NEW i \in Nat, i <= n, i <= m
  PROVE  f[i] = g[i]
<1> DEFINE Bad == {k \in Nat : k <= n /\ k <= m /\ f[k] # g[k]}
<1> SUFFICES ASSUME Bad # {} PROVE FALSE
  OBVIOUS
<1>1. PICK k \in Bad : \A j \in Bad : k <= j
  BY LeastNatural
<1>2. k # 0
  BY DEF Scales
<1>3. k - 1 \in Nat /\ k - 1 \notin Bad /\ k \in 1..n /\ k \in 1..m
  BY <1>1, <1>2
<1>4. f[k - 1] = g[k - 1]
  BY <1>3
<1> QED
  BY <1>3, <1>4 DEF Scales

(* Capacity, a function defined by recursion, satisfies its definition.    *)
LEMMA CapLaw ==
  /\ Cap(0) = ChunkSize
  /\ \A h \in Nat : Cap(h + 1) = MaxBranches * Cap(h)
<1> DEFINE List(n) == CHOOSE f : Scales(f, n)
           F == [n \in Nat |-> List(n)[n]]
<1>1. \A n \in Nat : Scales(List(n), n)
  BY ScalesExist
<1> HIDE DEF List
<1>2. F[0] = ChunkSize
  BY <1>1 DEF Scales
<1>3. ASSUME NEW n \in Nat, n # 0 PROVE F[n] = MaxBranches * F[n - 1]
  <2>1. n \in 1..n /\ n - 1 \in Nat
    BY <1>3
  <2>2. List(n)[n] = MaxBranches * List(n)[n - 1]
    BY <1>1, <2>1 DEF Scales
  <2>3. List(n)[n - 1] = List(n - 1)[n - 1]
    BY <1>1, <2>1, ScalesAgree
  <2> QED
    BY <2>1, <2>2, <2>3
<1>4. F = [n \in Nat |-> IF n = 0 THEN ChunkSize ELSE MaxBranches * F[n - 1]]
  <2>1. \A n \in Nat : F[n] = IF n = 0 THEN ChunkSize ELSE MaxBranches * F[n - 1]
    BY <1>2, <1>3
  <2> QED
    BY <2>1
<1> HIDE DEF F
<1> DEFINE P == Hash!Capacity
<1>5. \E p : p = [n \in Nat |-> IF n = 0 THEN ChunkSize ELSE MaxBranches * p[n - 1]]
  BY <1>4
<1>6. P = [n \in Nat |-> IF n = 0 THEN ChunkSize ELSE MaxBranches * P[n - 1]]
  BY <1>5 DEF Hash!Capacity
<1> HIDE DEF P
<1>7. P[0] = ChunkSize
  BY <1>6
<1>8. ASSUME NEW n \in Nat PROVE P[n + 1] = MaxBranches * P[n]
  <2>1. n + 1 \in Nat /\ n + 1 # 0 /\ n + 1 - 1 = n
    OBVIOUS
  <2> QED
    BY <1>6, <2>1
<1> QED
  BY <1>7, <1>8 DEF P, Cap

LEMMA CapNatural ==
  ASSUME NEW h \in Nat
  PROVE  Cap(h) \in Nat \ {0}
<1> DEFINE Bad == {k \in Nat : Cap(k) \notin Nat \ {0}}
<1> SUFFICES ASSUME Bad # {} PROVE FALSE
  OBVIOUS
<1>1. PICK k \in Bad : \A j \in Bad : k <= j
  BY LeastNatural
<1>2. k # 0
  BY CapLaw, ConstantsAssumption
<1>3. k - 1 \in Nat /\ k - 1 \notin Bad
  BY <1>1, <1>2
<1> DEFINE p == Cap(k - 1)
<1>4. Cap(k - 1 + 1) = MaxBranches * p /\ k - 1 + 1 = k
  BY <1>3, CapLaw
<1>5. p \in Nat \ {0}
  BY <1>3
<1> HIDE DEF p
<1>6. Cap(k) = MaxBranches * p
  BY <1>4
<1>7. MaxBranches * p \in Nat \ {0}
  BY <1>5, ConstantsAssumption
<1> QED
  BY <1>6, <1>7

(* A parent holds more than one of its children.                           *)
LEMMA CapStep ==
  ASSUME NEW h \in Nat
  PROVE  /\ Cap(h) \in Nat \ {0} /\ Cap(h + 1) \in Nat \ {0}
         /\ Cap(h + 1) = MaxBranches * Cap(h)
         /\ Cap(h + 1) > Cap(h)
<1> DEFINE x == Cap(h)
           y == Cap(h + 1)
<1>1. x \in Nat \ {0} /\ y \in Nat \ {0} /\ y = MaxBranches * x
  BY CapLaw, CapNatural
<1> HIDE DEF x, y
<1>2. y > x
  BY <1>1, ConstantsAssumption
<1> QED
  BY <1>1, <1>2 DEF x, y

LEMMA CapGrows ==
  ASSUME NEW g \in Nat, NEW h \in Nat, g <= h
  PROVE  Cap(g) <= Cap(h)
<1> DEFINE Bad == {k \in Nat : k >= g /\ Cap(g) > Cap(k)}
<1> SUFFICES ASSUME Bad # {} PROVE FALSE
  <2>1. Cap(g) \in Nat /\ Cap(h) \in Nat
    BY CapNatural
  <2> QED
    BY <2>1
<1>1. PICK k \in Bad : \A j \in Bad : k <= j
  BY LeastNatural
<1>2. k # g /\ Cap(g) \in Nat /\ Cap(k) \in Nat
  BY <1>1, CapNatural
<1>3. k - 1 \in Nat /\ k - 1 >= g /\ k - 1 \notin Bad /\ k - 1 + 1 = k
  BY <1>1, <1>2
<1>4. Cap(k) > Cap(k - 1) /\ Cap(k - 1) \in Nat
  BY <1>3, CapStep
<1>5. ~ (Cap(g) > Cap(k - 1))
  BY <1>3
<1> QED
  BY <1>2, <1>4, <1>5

LEMMA CapBeyond ==
  ASSUME NEW n \in Nat
  PROVE  Cap(n) > n
<1> DEFINE Bad == {k \in Nat : ~ (Cap(k) > k)}
<1> SUFFICES ASSUME Bad # {} PROVE FALSE
  OBVIOUS
<1>1. PICK k \in Bad : \A j \in Bad : k <= j
  BY LeastNatural
<1>2. k # 0
  BY <1>1, CapLaw, ConstantsAssumption
<1>3. k - 1 \in Nat /\ k - 1 \notin Bad /\ k - 1 + 1 = k
  BY <1>1, <1>2
<1>4. Cap(k) > Cap(k - 1) /\ Cap(k - 1) \in Nat /\ Cap(k) \in Nat
  BY <1>3, CapStep
<1>5. Cap(k - 1) > k - 1
  BY <1>3
<1> QED
  BY <1>3, <1>4, <1>5

-----------------------------------------------------------------------------
(* h is the first height at which one piece holds n bytes.                 *)
Tall(n, h) == h \in 0..n /\ Cap(h) >= n /\ \A g \in 0..(h - 1) : Cap(g) < n

LEMMA HeightTall ==
  ASSUME NEW n \in Nat
  PROVE  /\ Tall(n, Hash!Height(n))
         /\ \A h : Tall(n, h) => h = Hash!Height(n)
<1>1. \E h : Tall(n, h)
  <2> DEFINE S == {k \in Nat : Cap(k) >= n}
  <2>1. n \in S
    <3>1. Cap(n) > n /\ Cap(n) \in Nat
      BY CapBeyond, CapNatural
    <3> QED
      BY <3>1
  <2>2. PICK k \in S : \A j \in S : k <= j
    BY <2>1, LeastNatural
  <2>3. k <= n /\ k \in Nat
    BY <2>1, <2>2
  <2>4. \A g \in 0..(k - 1) : Cap(g) < n
    <3> TAKE g \in 0..(k - 1)
    <3>1. g \in Nat /\ g \notin S
      BY <2>2, <2>3
    <3>2. Cap(g) \in Nat
      BY <3>1, CapNatural
    <3> QED
      BY <3>1, <3>2
  <2>5. Tall(n, k)
    BY <2>2, <2>3, <2>4 DEF Tall
  <2> QED
    BY <2>5
<1>2. \A g, h : Tall(n, g) /\ Tall(n, h) => g = h
  <2> SUFFICES ASSUME NEW g, NEW h, Tall(n, g), Tall(n, h) PROVE g = h
    OBVIOUS
  <2>1. g \in Nat /\ h \in Nat /\ Cap(g) \in Nat /\ Cap(h) \in Nat
    BY CapNatural DEF Tall
  <2>2. ~ (g < h)
    <3>1. g < h => Cap(g) < n
      BY <2>1 DEF Tall
    <3>2. Cap(g) >= n
      BY DEF Tall
    <3> QED
      BY <2>1, <3>1, <3>2
  <2>3. ~ (h < g)
    <3>1. h < g => Cap(h) < n
      BY <2>1 DEF Tall
    <3>2. Cap(h) >= n
      BY DEF Tall
    <3> QED
      BY <2>1, <3>1, <3>2
  <2> QED
    BY <2>1, <2>2, <2>3
<1>3. Hash!Height(n) = CHOOSE h \in 0..n : Tall(n, h)
  BY DEF Hash!Height, Tall, Cap
<1>4. Tall(n, Hash!Height(n))
  <2>1. \E h \in 0..n : Tall(n, h)
    BY <1>1 DEF Tall
  <2> QED
    BY <1>3, <2>1
<1> QED
  BY <1>2, <1>4

(* Piece j of height h is in the tree of n bytes.                          *)
Fits(n, h, j) ==
  /\ h = 0 \/ Cap(h - 1) < n
  /\ j * Cap(h) < n

LEMMA PieceFields ==
  ASSUME NEW n \in Nat, NEW h \in Nat, NEW j \in Nat, j * Cap(h) < n
  PROVE  /\ Hash!Piece(n, h, j).height = h
         /\ Hash!Piece(n, h, j).lo = j * Cap(h)
         /\ Hash!Piece(n, h, j).span = IF (j + 1) * Cap(h) <= n THEN Cap(h) ELSE n - j * Cap(h)
BY DEF Hash!Piece, Cap

LEMMA HeightFits ==
  ASSUME NEW n \in Nat \ {0}, NEW h \in Nat
  PROVE  h <= Hash!Height(n) <=> (h = 0 \/ Cap(h - 1) < n)
<1> DEFINE t == Hash!Height(n)
<1>1. t \in Nat /\ Cap(t) >= n /\ \A g \in 0..(t - 1) : Cap(g) < n
  BY HeightTall DEF Tall
<1> HIDE DEF t
<1>2. ASSUME h <= t, h # 0 PROVE Cap(h - 1) < n
  BY <1>1, <1>2
<1>3. ASSUME h # 0, Cap(h - 1) < n PROVE h <= t
  <2> SUFFICES ASSUME h > t PROVE FALSE
    BY <1>1
  <2>1. h - 1 \in Nat /\ t <= h - 1
    BY <1>1, <1>3
  <2>2. Cap(t) <= Cap(h - 1) /\ Cap(t) \in Nat /\ Cap(h - 1) \in Nat
    BY <1>1, <2>1, CapGrows, CapNatural
  <2> QED
    BY <1>1, <1>3, <2>2
<1> QED
  BY <1>1, <1>2, <1>3 DEF t

LEMMA TreeIntro ==
  ASSUME NEW n \in Nat \ {0}, NEW h \in Nat, NEW j \in Nat, Fits(n, h, j)
  PROVE  Hash!Piece(n, h, j) \in Hash!Tree(n)
<1>1. h \in 0..Hash!Height(n)
  <2>1. Hash!Height(n) \in Nat
    BY HeightTall DEF Tall
  <2> QED
    BY <2>1, HeightFits DEF Fits
<1> DEFINE x == Cap(h)
<1>2. x \in Nat \ {0} /\ j * x < n
  BY CapNatural DEF Fits
<1> HIDE DEF x
<1>3. j \in 0..((n - 1) \div x)
  <2>1. j * x <= n - 1 /\ n - 1 \in Nat
    BY <1>2
  <2>2. j <= (n - 1) \div x /\ (n - 1) \div x \in Nat
    BY <1>2, <2>1, Quotients
  <2> QED
    BY <2>2
<1> QED
  BY <1>1, <1>3 DEF x, Cap, Hash!Tree

LEMMA TreeElim ==
  ASSUME NEW n \in Nat \ {0}, NEW c \in Hash!Tree(n)
  PROVE  \E h, j \in Nat : Fits(n, h, j) /\ c = Hash!Piece(n, h, j)
<1>1. PICK h \in 0..Hash!Height(n) : \E j \in 0..((n - 1) \div Cap(h)) : c = Hash!Piece(n, h, j)
  BY DEF Hash!Tree, Cap
<1>2. PICK j \in 0..((n - 1) \div Cap(h)) : c = Hash!Piece(n, h, j)
  BY <1>1
<1>3. h \in Nat /\ (h = 0 \/ Cap(h - 1) < n)
  <2>1. Hash!Height(n) \in Nat
    BY HeightTall DEF Tall
  <2>2. h \in Nat /\ h <= Hash!Height(n)
    BY <2>1
  <2> QED
    BY <2>2, HeightFits
<1> DEFINE x == Cap(h)
<1>4. x \in Nat \ {0} /\ j \in 0..((n - 1) \div x)
  BY <1>3, CapNatural
<1> HIDE DEF x
<1>5. j \in Nat /\ j * x < n
  <2>1. n - 1 \in Nat
    OBVIOUS
  <2>2. (n - 1) \div x \in Nat /\ ((n - 1) \div x) * x <= n - 1
    BY <1>4, <2>1, Quotients
  <2> DEFINE q == (n - 1) \div x
  <2>3. q \in Nat /\ q * x <= n - 1 /\ j \in Nat /\ j <= q
    BY <1>4, <2>2
  <2> HIDE DEF q
  <2>4. j * x <= q * x /\ j * x \in Nat /\ q * x \in Nat
    BY <1>4, <2>3, SMTT(30)
  <2> QED
    BY <2>3, <2>4
<1> QED
  BY <1>2, <1>3, <1>5 DEF x, Fits

(* A full piece stays one as the input grows.                              *)
LEMMA FullStays ==
  ASSUME NEW n \in Nat \ {0}, NEW m \in Nat, n <= m, NEW c \in Hash!Tree(n), Hash!Full(c)
  PROVE  c \in Hash!Tree(m)
<1>1. PICK h \in Nat, j \in Nat : Fits(n, h, j) /\ c = Hash!Piece(n, h, j)
  BY TreeElim
<1> DEFINE x == Cap(h)
<1>2. /\ x \in Nat \ {0} /\ j * x < n
      /\ c.height = h /\ c.lo = j * x
      /\ c.span = IF (j + 1) * x <= n THEN x ELSE n - j * x
  <2>1. j * Cap(h) < n /\ Cap(h) \in Nat \ {0}
    BY <1>1, CapNatural DEF Fits
  <2>2. /\ Hash!Piece(n, h, j).height = h
        /\ Hash!Piece(n, h, j).lo = j * Cap(h)
        /\ Hash!Piece(n, h, j).span = IF (j + 1) * Cap(h) <= n THEN Cap(h) ELSE n - j * Cap(h)
    BY DEF Hash!Piece, Cap
  <2> QED
    BY <1>1, <2>1, <2>2
<1>3. c.span = x
  BY <1>2 DEF Hash!Full, Cap
<1>4. (j + 1) * x <= n
  <2> HIDE DEF x
  <2>1. (j + 1) * x = j * x + x /\ j * x \in Nat
    BY <1>2
  <2> QED
    BY <1>2, <1>3, <2>1
<1>5. (j + 1) * x <= m /\ j * x < m
  <2> HIDE DEF x
  <2>1. (j + 1) * x \in Nat /\ j * x \in Nat
    BY <1>2
  <2> QED
    BY <1>2, <1>4, <2>1
<1>6. Hash!Piece(m, h, j) = c
  BY <1>1, <1>4, <1>5 DEF Hash!Piece, Cap
<1>7. Fits(m, h, j)
  <2>1. h = 0 \/ Cap(h - 1) < m
    <3>1. h # 0 => Cap(h - 1) \in Nat
      <4>1. h # 0 => h - 1 \in Nat
        OBVIOUS
      <4> QED
        BY <4>1, CapNatural
    <3> QED
      BY <1>1, <3>1 DEF Fits
  <2> QED
    BY <1>5, <2>1 DEF Fits
<1> QED
  BY <1>6, <1>7, TreeIntro

-----------------------------------------------------------------------------
(***************************************************************************)
(* TreeInv, the invariant the refinement rests on: as long as FileHash     *)
(* promises anything, the chunks so far are the pieces that lie below the  *)
(* edges of the levels, and nothing else.                                  *)
(***************************************************************************)

(* The chunks accepted so far.                                             *)
Shapes == {Shape(a) : a \in 1..Len(store)}

(* The promise stands.                                                     *)
Live == faults = 0 /\ ~reopened

(* No more bytes come before the root is out.                              *)
Ended == call = "finalize" \/ root # NoRef

(* The bound on the callers' bytes.                                        *)
Budget == written + todo <= MaxBytes

(* A level ends at a multiple of its pieces, but for the last byte.        *)
Cuts ==
  \A i \in 1..Len(edge) :
    \/ \E j \in Nat : edge[i] = j * Cap(i - 1)
    \/ Ended /\ edge[i] = written

(* A level of n references covers n pieces, the last of them maybe short.  *)
Counts ==
  \A i \in 1..Len(levels) :
    levels[i] # <<>> =>
      /\ (Len(levels[i]) - 1) * Cap(i - 1) < edge[i] - edge[i + 1]
      /\ edge[i] - edge[i + 1] <= Len(levels[i]) * Cap(i - 1)

(* A level exists only if a piece of the level below does not hold all.    *)
Reached ==
  /\ levels # <<>> => written > 0
  /\ \A i \in 2..Len(levels) : Cap(i - 2) < written

(* The references on a level are to chunks of its height.                  *)
Heights ==
  \A i \in 1..Len(levels) : \A k \in 1..Len(levels[i]) :
    store[levels[i][k].addr].height = i - 1

(* Every chunk is a piece, and a full one while more bytes may come.       *)
Canonical ==
  \A c \in Shapes : c \in Hash!Tree(written) /\ (~Ended => Hash!Full(c))

(* Every piece below the edge of its level is a chunk.                     *)
Complete ==
  \A i \in 1..Len(edge) : \A j \in Nat :
    j * Cap(i - 1) < edge[i] => Hash!Piece(written, i - 1, j) \in Shapes

(* Once the root is out, the stack holds it and nothing else.              *)
Sealed ==
  root # NoRef =>
    /\ pc \in {"ready", "scan"} /\ call # "write" /\ leafBuf = 0
    /\ levels # <<>>
    /\ \A i \in 1..(Len(levels) - 1) : levels[i] = <<>>
    /\ Len(levels[Len(levels)]) = 1
    /\ root = levels[Len(levels)][1]

(* A leaf or a group is emitted when it is full, or when the input ends.   *)
Due ==
  /\ pc = "ready" => call = "none"
  /\ pc = "leaf" /\ call = "write" => leafBuf = ChunkSize
  /\ pc = "collapse" =>
       /\ edge[level] = written
       /\ call = "write" => Len(levels[level]) = MaxBranches
       /\ level < Len(levels) \/ Len(levels[level]) > 1

Growing == Cuts /\ Counts /\ Reached /\ Heights /\ Canonical /\ Complete

TreeInv == FileInv /\ Budget /\ (Live => Growing /\ Sealed /\ Due)
-----------------------------------------------------------------------------

(* A chunk joins level l of lv, the stack without what is below it, as     *)
(* piece j of its height.                                                  *)
Joining(lv, l, chunk, j) ==
  /\ Len(lv) = Len(levels)
  /\ \A i \in 1..Len(lv) : lv[i] = IF i < l THEN <<>> ELSE levels[i]
  /\ Emit(chunk, lv, l)
  /\ edge' = Raise(edge, l, written)
  /\ root = NoRef
  /\ chunk.height = l - 1
  /\ chunk.lo = edge[l]
  /\ chunk.lo + chunk.span = written
  /\ edge[l] = j * Cap(l - 1)
  /\ chunk.span <= Cap(l - 1)
  /\ Ended \/ chunk.span = Cap(l - 1)
  /\ l = 1 \/ (Cap(l - 2) < written /\ edge[l - 1] = written)

(* What FileHash sees of a chunk.                                          *)
ShapeOf(chunk) == [height |-> chunk.height, lo |-> chunk.lo, span |-> chunk.span]

LEMMA JoinFrame ==
  ASSUME StackInv, NEW lv \in Seq(Seq(Ref)), NEW l \in 1..(Len(levels) + 1), NEW chunk \in Chunk,
         NEW j \in Nat, Joining(lv, l, chunk, j)
  PROVE  /\ Len(levels) \in Nat /\ l \in 1..Len(edge) /\ Len(edge) = Len(levels) + 1
         /\ Len(levels') = IF l > Len(levels) THEN l ELSE Len(levels)
         /\ \A i \in 1..Len(levels) : i # l => levels'[i] = IF i < l THEN <<>> ELSE levels[i]
         /\ levels'[l] = Append(IF l > Len(levels) THEN <<>> ELSE levels[l],
                                [addr |-> Len(store) + 1, span |-> chunk.span])
         /\ Len(edge') = Len(levels') + 1
         /\ \A i \in 1..Len(edge) : i # l => edge'[i] = edge[i]
         /\ edge'[l] = written
         /\ l = Len(edge) => edge'[l + 1] = 0
         /\ store \in Seq(Chunk) /\ Len(store) \in Nat /\ Len(store') = Len(store) + 1
         /\ \A a \in 1..Len(store) : store'[a] = store[a]
         /\ store'[Len(store) + 1] = chunk
         /\ UNCHANGED <<written, call, todo, root, faults, reopened>>
         /\ \A i \in 1..Len(edge) : edge[i] \in Nat
<1> DEFINE ref == [addr |-> Len(store) + 1, span |-> chunk.span]
<1>1. /\ store \in Seq(Chunk) /\ Len(store) \in Nat /\ Len(levels) \in Nat /\ written \in Nat
      /\ edge \in Seq(Nat) /\ Len(edge) = Len(levels) + 1
  BY LenProperties DEF StackInv, TypeOK, Control
<1>2. ref \in Ref
  BY <1>1 DEF Ref, Chunk
<1>3. /\ Len(lv) = Len(levels)
      /\ \A i \in 1..Len(lv) : lv[i] = IF i < l THEN <<>> ELSE levels[i]
      /\ levels' = Push(lv, l, ref)
      /\ store' = Append(store, chunk)
      /\ UNCHANGED <<written, call, todo, root, faults, reopened>>
      /\ edge' = Raise(edge, l, written)
  BY DEF Joining, Emit, results
<1> HIDE DEF ref
<1>4. /\ Len(levels') = IF l > Len(lv) THEN l ELSE Len(lv)
      /\ levels'[l] = Append(IF l > Len(lv) THEN <<>> ELSE lv[l], ref)
      /\ \A i \in 1..Len(lv) : i # l => levels'[i] = lv[i]
  BY <1>2, <1>3, PushProperties
<1>5. /\ Len(edge') = IF l = Len(edge) THEN l + 1 ELSE Len(edge)
      /\ \A i \in 1..Len(edge) : i # l => edge'[i] = edge[i]
      /\ edge'[l] = written
      /\ l = Len(edge) => edge'[l + 1] = 0
  <2> DEFINE e == Raise(edge, l, written)
  <2>1. edge \in Seq(Nat) /\ l \in 1..Len(edge) /\ written \in Nat
    BY <1>1
  <2>2. /\ e \in Seq(Nat)
        /\ Len(e) = IF l = Len(edge) THEN l + 1 ELSE Len(edge)
        /\ \A i \in 1..Len(edge) : i # l => e[i] = edge[i]
        /\ e[l] = written
        /\ l = Len(edge) => e[l + 1] = 0
    BY <2>1, RaiseProperties, ZenonT(40)
  <2>3. edge' = e
    BY <1>3
  <2> HIDE DEF e
  <2> QED
    BY <2>2, <2>3
<1>6. /\ Len(store') = Len(store) + 1
      /\ \A a \in 1..Len(store) : store'[a] = store[a]
      /\ store'[Len(store) + 1] = chunk
  BY <1>1, <1>3, AppendProperties
<1>7. \A i \in 1..Len(edge) : edge[i] \in Nat
  BY <1>1, ElementOfSeq
<1>8. levels'[l] = Append(IF l > Len(levels) THEN <<>> ELSE levels[l], ref)
  <2>1. CASE l > Len(levels)
    BY <1>3, <1>4, <2>1
  <2>2. CASE ~ (l > Len(levels))
    <3>1. l \in 1..Len(lv) /\ lv[l] = levels[l]
      BY <1>1, <1>3, <2>2
    <3> QED
      BY <1>3, <1>4, <2>2, <3>1
  <2> QED
    BY <2>1, <2>2
<1>9. Len(edge') = Len(levels') + 1
  <2>1. CASE l = Len(edge)
    BY <1>1, <1>3, <1>4, <1>5, <2>1
  <2>2. CASE l # Len(edge)
    BY <1>1, <1>3, <1>4, <1>5, <2>2
  <2> QED
    BY <2>1, <2>2
<1>10. l \in 1..Len(edge)
  BY <1>1
<1> QED
  BY <1>1, <1>3, <1>4, <1>5, <1>6, <1>7, <1>8, <1>9, <1>10 DEF ref

LEMMA JoinShapes ==
  ASSUME StackInv, NEW lv \in Seq(Seq(Ref)), NEW l \in 1..(Len(levels) + 1), NEW chunk \in Chunk,
         NEW j \in Nat, Joining(lv, l, chunk, j)
  PROVE  /\ Shapes' = Shapes \cup {ShapeOf(chunk)}
         /\ ShapeOf(chunk) = Hash!Piece(written, l - 1, j)
         /\ ShapeOf(chunk) \in Hash!Tree(written)
         /\ Ended \/ Hash!Full(ShapeOf(chunk))
         /\ written \in Nat \ {0}
<1>1. /\ Len(store) \in Nat /\ Len(store') = Len(store) + 1
      /\ \A a \in 1..Len(store) : store'[a] = store[a]
      /\ store'[Len(store) + 1] = chunk
  BY JoinFrame
<1>2. Shapes' = Shapes \cup {ShapeOf(chunk)}
  <2>1. PICK n \in Nat : n = Len(store)
    BY <1>1
  <2> DEFINE sh(a) == [height |-> store'[a].height, lo |-> store'[a].lo, span |-> store'[a].span]
  <2>2. \A a \in 1..n : sh(a) = Shape(a)
    BY <1>1, <2>1 DEF Shape
  <2>3. sh(n + 1) = ShapeOf(chunk)
    BY <1>1, <2>1 DEF ShapeOf
  <2>4. Shapes' = {sh(a) : a \in 1..(n + 1)}
    BY <1>1, <2>1 DEF Shapes, Shape
  <2>5. Shapes = {Shape(a) : a \in 1..n}
    BY <2>1 DEF Shapes
  <2>6. 1..(n + 1) = (1..n) \cup {n + 1}
    OBVIOUS
  <2> HIDE DEF sh
  <2>7. {sh(a) : a \in (1..n) \cup {n + 1}} = {sh(a) : a \in 1..n} \cup {sh(n + 1)}
    OBVIOUS
  <2>8. {sh(a) : a \in 1..n} = {Shape(a) : a \in 1..n}
    BY <2>2
  <2> QED
    BY <2>3, <2>4, <2>5, <2>6, <2>7, <2>8
<1> DEFINE x == Cap(l - 1)
           y == j * x
           s == chunk.span
<1>3. /\ x \in Nat \ {0} /\ s \in Nat \ {0} /\ written \in Nat
      /\ chunk.height = l - 1 /\ chunk.lo = y /\ y + s = written /\ s <= x
      /\ Ended \/ s = x
  BY CapNatural DEF Chunk, Joining, StackInv, TypeOK
<1>4. y \in Nat /\ (j + 1) * x = y + x
  <2> HIDE DEF x
  <2> QED
    BY <1>3
<1>5. written \in Nat \ {0} /\ y < written
  <2> HIDE DEF y, s, x
  <2> QED
    BY <1>3, <1>4
<1>6. s = IF (j + 1) * x <= written THEN x ELSE written - y
  <2> HIDE DEF y, s, x
  <2> QED
    BY <1>3, <1>4
<1>7. ShapeOf(chunk) = Hash!Piece(written, l - 1, j)
  BY <1>3, <1>6 DEF ShapeOf, Hash!Piece, Cap
<1>8. Fits(written, l - 1, j)
  <2>1. l - 1 = 0 \/ Cap(l - 1 - 1) < written
    <3>1. l - 1 - 1 = l - 2 /\ (l = 1 => l - 1 = 0)
      OBVIOUS
    <3> QED
      BY <3>1 DEF Joining
  <2> QED
    BY <1>5, <2>1 DEF Fits
<1>9. ShapeOf(chunk) \in Hash!Tree(written)
  BY <1>5, <1>7, <1>8, TreeIntro
<1>10. Ended \/ Hash!Full(ShapeOf(chunk))
  <2>1. ShapeOf(chunk).span = s /\ ShapeOf(chunk).height = l - 1
    BY <1>3 DEF ShapeOf
  <2> QED
    BY <1>3, <2>1 DEF Hash!Full, Cap
<1> QED
  BY <1>2, <1>5, <1>7, <1>9, <1>10

LEMMA JoinCuts ==
  ASSUME StackInv, NEW lv \in Seq(Seq(Ref)), NEW l \in 1..(Len(levels) + 1), NEW chunk \in Chunk,
         NEW j \in Nat, Joining(lv, l, chunk, j), Cuts
  PROVE  Cuts'
<1>1. /\ Len(levels) \in Nat /\ l \in 1..Len(edge) /\ Len(edge) = Len(levels) + 1
      /\ Len(levels') = IF l > Len(levels) THEN l ELSE Len(levels)
      /\ Len(edge') = Len(levels') + 1
      /\ \A i \in 1..Len(edge) : i # l => edge'[i] = edge[i]
      /\ edge'[l] = written
      /\ l = Len(edge) => edge'[l + 1] = 0
      /\ UNCHANGED <<written, call, root>>
  BY JoinFrame
<1>2. Ended' = Ended
  BY <1>1 DEF Ended
<1> SUFFICES ASSUME NEW i \in 1..Len(edge')
             PROVE  (\E k \in Nat : edge'[i] = k * Cap(i - 1)) \/ (Ended /\ edge'[i] = written)
  BY <1>1, <1>2 DEF Cuts
<1>3. CASE i = l
  <2>1. CASE Ended
    BY <1>1, <1>3, <2>1
  <2>2. CASE ~ Ended
    <3> DEFINE x == Cap(l - 1)
    <3>1. x \in Nat /\ edge[l] = j * x /\ chunk.span = x /\ chunk.lo = edge[l] /\ chunk.lo + chunk.span = written
      BY <2>2, CapNatural DEF Joining
    <3> HIDE DEF x
    <3>2. written = (j + 1) * x /\ j + 1 \in Nat
      BY <3>1
    <3> QED
      BY <1>1, <1>3, <3>2 DEF x
  <2> QED
    BY <2>1, <2>2
<1>4. CASE i # l /\ i \in 1..Len(edge)
  BY <1>1, <1>4 DEF Cuts
<1>5. CASE i # l /\ i \notin 1..Len(edge)
  <2>1. l = Len(edge) /\ i = l + 1
    BY <1>1, <1>5
  <2>2. edge'[i] = 0
    BY <1>1, <2>1
  <2> DEFINE x == Cap(i - 1)
  <2>3. x \in Nat
    BY <1>1, <2>1, CapNatural
  <2> HIDE DEF x
  <2>4. 0 = 0 * x
    BY <2>3
  <2> QED
    BY <2>2, <2>4 DEF x
<1> QED
  BY <1>3, <1>4, <1>5

(* m pieces of size x between two multiples of x.                          *)
LEMMA Aligned ==
  ASSUME NEW m \in Nat, NEW a \in Nat, NEW b \in Nat, NEW x \in Nat \ {0},
         (m - 1) * x < a * x - b * x, a * x - b * x <= m * x
  PROVE  a = b + m
<1>1. a * x - b * x = (a - b) * x
  BY SMTT(30)
<1>2. a - b <= m
  <2>1. SUFFICES ASSUME a - b >= m + 1 PROVE FALSE
    OBVIOUS
  <2>2. (a - b) * x >= (m + 1) * x
    BY <2>1, SMTT(30)
  <2>3. (m + 1) * x = m * x + x
    BY SMTT(30)
  <2> DEFINE p == (a - b) * x
             q == m * x
  <2>4. p \in Int /\ q \in Int /\ p >= q + x /\ p <= q
    BY <1>1, <2>2, <2>3
  <2> HIDE DEF p, q
  <2> QED
    BY <2>4
<1>3. a - b >= m
  <2>1. SUFFICES ASSUME a - b <= m - 1 PROVE FALSE
    OBVIOUS
  <2>2. (a - b) * x <= (m - 1) * x
    BY <2>1, SMTT(30)
  <2> DEFINE p == (a - b) * x
             q == (m - 1) * x
  <2>3. p \in Int /\ q \in Int /\ p <= q /\ q < p
    BY <1>1, <2>2
  <2> HIDE DEF p, q
  <2> QED
    BY <2>3
<1> QED
  BY <1>2, <1>3

LEMMA JoinCounts ==
  ASSUME StackInv, LevelsTile, NEW lv \in Seq(Seq(Ref)), NEW l \in 1..(Len(levels) + 1),
         NEW chunk \in Chunk, NEW j \in Nat, Joining(lv, l, chunk, j), Cuts, Counts
  PROVE  Counts'
<1>1. /\ Len(levels) \in Nat /\ l \in 1..Len(edge) /\ Len(edge) = Len(levels) + 1
      /\ Len(levels') = IF l > Len(levels) THEN l ELSE Len(levels)
      /\ \A i \in 1..Len(levels) : i # l => levels'[i] = IF i < l THEN <<>> ELSE levels[i]
      /\ levels'[l] = Append(IF l > Len(levels) THEN <<>> ELSE levels[l],
                             [addr |-> Len(store) + 1, span |-> chunk.span])
      /\ Len(edge') = Len(levels') + 1
      /\ \A i \in 1..Len(edge) : i # l => edge'[i] = edge[i]
      /\ edge'[l] = written
      /\ l = Len(edge) => edge'[l + 1] = 0
      /\ \A i \in 1..Len(edge) : edge[i] \in Nat
  BY JoinFrame
<1>2. levels \in Seq(Seq(Ref)) /\ store \in Seq(Chunk) /\ Len(store) \in Nat /\ written \in Nat
  BY LenProperties DEF StackInv, TypeOK
<1> SUFFICES ASSUME NEW i \in 1..Len(levels'), levels'[i] # <<>>
             PROVE  /\ (Len(levels'[i]) - 1) * Cap(i - 1) < edge'[i] - edge'[i + 1]
                    /\ edge'[i] - edge'[i + 1] <= Len(levels'[i]) * Cap(i - 1)
  BY DEF Counts
<1>3. CASE i # l
  <2>1. i \in 1..Len(levels)
    BY <1>1, <1>3
  <2>2. ~ (i < l) /\ levels'[i] = levels[i]
    BY <1>1, <1>3, <2>1
  <2>3. edge'[i] = edge[i] /\ edge'[i + 1] = edge[i + 1]
    <3>1. i \in 1..Len(edge) /\ i + 1 \in 1..Len(edge) /\ i # l /\ i + 1 # l
      BY <1>1, <1>3, <2>1, <2>2
    <3> QED
      BY <1>1, <3>1
  <2> QED
    BY <2>1, <2>2, <2>3 DEF Counts
<1>4. CASE i = l
  <2>1. PICK old \in Seq(Ref) : old = IF l > Len(levels) THEN <<>> ELSE levels[l]
    <3>1. <<>> \in Seq(Ref)
      BY EmptySeq
    <3>2. ~ (l > Len(levels)) => levels[l] \in Seq(Ref)
      BY <1>1, <1>2, ElementOfSeq
    <3> QED
      BY <3>1, <3>2
  <2>2. PICK m \in Nat : m = Len(old) /\ Len(levels'[l]) = m + 1
    <3> DEFINE ref == [addr |-> Len(store) + 1, span |-> chunk.span]
    <3>1. ref \in Ref
      BY <1>2 DEF Ref, Chunk
    <3>2. levels'[l] = Append(old, ref)
      BY <1>1, <2>1
    <3> HIDE DEF ref
    <3>3. Len(Append(old, ref)) = Len(old) + 1 /\ Len(old) \in Nat
      BY <3>1, AppendProperties, LenProperties
    <3> QED
      BY <3>2, <3>3
  <2>3. PICK x \in Nat \ {0} : x = Cap(l - 1)
    <3>1. l \in Nat \ {0}
      BY <1>1
    <3>2. l - 1 \in Nat
      BY <3>1
    <3> QED
      BY <3>2, CapNatural
  <2>4. PICK s \in Nat \ {0} : s = chunk.span /\ s <= x /\ written = edge[l] + s /\ edge[l] = j * x
    BY <1>1, <2>3 DEF Chunk, Joining
  <2>5. edge'[l + 1] + m * x = edge[l] /\ edge'[l + 1] \in Nat
    <3>1. CASE l > Len(levels)
      <4>1. l = Len(edge) /\ edge[l] = 0 /\ edge'[l + 1] = 0
        BY <1>1, <3>1 DEF LevelsTile
      <4>2. m = 0
        BY <2>1, <2>2, <3>1, EmptySeq
      <4> QED
        BY <2>3, <4>1, <4>2
    <3>2. CASE ~ (l > Len(levels))
      <4>1. l \in 1..Len(levels) /\ l + 1 \in 1..Len(edge) /\ l + 1 # l /\ old = levels[l]
        BY <1>1, <2>1, <3>2
      <4>2. edge'[l + 1] = edge[l + 1] /\ edge[l + 1] \in Nat
        BY <1>1, <4>1
      <4>3. CASE old = <<>>
        <5>1. m = 0
          BY <2>2, <4>3, EmptySeq
        <5>2. Addrs(levels[l]) = <<>>
          BY <4>1, <4>3, EmptySeq DEF Addrs
        <5>3. edge[l + 1] = edge[l]
          BY <4>1, <5>2 DEF LevelsTile, Tiles
        <5> QED
          BY <2>3, <4>2, <5>1, <5>3
      <4>4. CASE old # <<>>
        <5>1. /\ (m - 1) * x < edge[l] - edge[l + 1]
              /\ edge[l] - edge[l + 1] <= m * x
          BY <2>2, <2>3, <4>1, <4>4 DEF Counts
        <5>2. m # 0
          BY <2>2, <4>4, EmptySeq
        <5>3. (m - 1) * x \in Nat
          <6>1. m - 1 \in Nat
            BY <5>2
          <6>2. \A q \in Nat : q * x \in Nat
            OBVIOUS
          <6> QED
            BY <6>1, <6>2
        <5>4. edge[l] > edge[l + 1] /\ edge[l + 1] # written
          <6> DEFINE p == (m - 1) * x
          <6>1. p \in Nat /\ p < edge[l] - edge[l + 1] /\ edge[l] \in Nat
            BY <1>1, <5>1, <5>3
          <6> HIDE DEF p
          <6>2. edge[l] > edge[l + 1] /\ edge[l + 1] \in Nat
            BY <4>2, <6>1
          <6>3. written > edge[l]
            BY <2>4, <6>1
          <6> QED
            BY <1>2, <6>1, <6>2, <6>3
        <5>5. PICK k \in Nat : edge[l + 1] = k * Cap(l)
          <6>1. l + 1 - 1 = l
            BY <1>1
          <6> QED
            BY <4>1, <5>4, <6>1 DEF Cuts
        <5>6. Cap(l) = MaxBranches * x
          <6>1. l - 1 \in Nat /\ l - 1 + 1 = l
            <7>1. l \in Nat \ {0}
              BY <1>1
            <7> QED
              BY <7>1
          <6>2. Cap(l - 1 + 1) = MaxBranches * Cap(l - 1)
            BY <6>1, CapLaw
          <6> QED
            BY <2>3, <6>1, <6>2
        <5>7. PICK b \in Nat : b = k * MaxBranches
          BY ConstantsAssumption
        <5>8. edge[l + 1] = b * x
          BY <2>3, <5>5, <5>6, <5>7, ConstantsAssumption, SMTT(30)
        <5>9. j = b + m
          BY <2>4, <5>1, <5>8, Aligned
        <5> QED
          <6>1. j * x = b * x + m * x
            BY <5>9, SMTT(30)
          <6> QED
            BY <2>4, <4>2, <5>8, <6>1
      <4> QED
        BY <4>3, <4>4
    <3> QED
      BY <3>1, <3>2
  <2>6. (m + 1) * x = m * x + x /\ m * x \in Nat /\ m + 1 - 1 = m
    BY SMTT(30)
  <2>7. PICK w \in Nat : w = m * x
    BY <2>6
  <2>8. edge[l] \in Nat
    BY <1>1
  <2>9. m * x < edge'[l] - edge'[l + 1] /\ edge'[l] - edge'[l + 1] <= (m + 1) * x
    <3>1. edge'[l] = edge[l] + s /\ edge[l] = edge'[l + 1] + w /\ (m + 1) * x = w + x
      BY <1>1, <2>4, <2>5, <2>6, <2>7
    <3>2. PICK p \in Nat, q \in Nat : p = edge'[l] /\ q = edge'[l + 1]
      BY <1>1, <1>2, <2>5
    <3>3. p = q + w + s
      BY <2>5, <3>1, <3>2
    <3>4. w < p - q /\ p - q <= w + x
      <4>1. s \in Nat \ {0} /\ s <= x
        BY <2>4
      <4> QED
        BY <3>3, <4>1
    <3>5. w < edge'[l] - edge'[l + 1] /\ edge'[l] - edge'[l + 1] <= w + x
      BY <3>2, <3>4
    <3> QED
      BY <2>7, <3>1, <3>5
  <2> QED
    BY <1>4, <2>2, <2>3, <2>6, <2>9
<1> QED
  BY <1>3, <1>4

LEMMA JoinReached ==
  ASSUME StackInv, NEW lv \in Seq(Seq(Ref)), NEW l \in 1..(Len(levels) + 1), NEW chunk \in Chunk,
         NEW j \in Nat, Joining(lv, l, chunk, j), Reached
  PROVE  Reached'
<1>1. /\ Len(levels) \in Nat /\ written' = written
      /\ Len(levels') = IF l > Len(levels) THEN l ELSE Len(levels)
  BY JoinFrame
<1>2. written \in Nat \ {0}
  BY JoinShapes
<1>3. ASSUME NEW i \in 2..Len(levels') PROVE Cap(i - 2) < written
  <2>1. CASE i \in 2..Len(levels)
    BY <2>1 DEF Reached
  <2>2. CASE i \notin 2..Len(levels)
    <3>1. i = l /\ l # 1
      BY <1>1, <2>2
    <3> QED
      BY <3>1 DEF Joining
  <2> QED
    BY <2>1, <2>2
<1> QED
  BY <1>1, <1>2, <1>3 DEF Reached

LEMMA JoinHeights ==
  ASSUME StackInv, NEW lv \in Seq(Seq(Ref)), NEW l \in 1..(Len(levels) + 1), NEW chunk \in Chunk,
         NEW j \in Nat, Joining(lv, l, chunk, j), Heights
  PROVE  Heights'
<1>1. /\ Len(levels) \in Nat
      /\ Len(levels') = IF l > Len(levels) THEN l ELSE Len(levels)
      /\ \A i \in 1..Len(levels) : i # l => levels'[i] = IF i < l THEN <<>> ELSE levels[i]
      /\ levels'[l] = Append(IF l > Len(levels) THEN <<>> ELSE levels[l],
                             [addr |-> Len(store) + 1, span |-> chunk.span])
      /\ store \in Seq(Chunk) /\ Len(store) \in Nat
      /\ \A a \in 1..Len(store) : store'[a] = store[a]
      /\ store'[Len(store) + 1] = chunk
  BY JoinFrame
<1>2. levels \in Seq(Seq(Ref)) /\ l \in Nat \ {0}
  BY <1>1 DEF StackInv, TypeOK
<1>3. chunk.height = l - 1
  BY DEF Joining
<1>4. ASSUME NEW i \in 1..Len(levels), NEW k \in 1..Len(levels[i])
      PROVE  store'[levels[i][k].addr].height = i - 1
  <2>1. levels[i][k].addr \in 1..Len(store)
    BY <1>4 DEF StackInv, ReferencesEmitted, EmittedIn
  <2> QED
    BY <1>1, <1>4, <2>1 DEF Heights
<1> SUFFICES ASSUME NEW i \in 1..Len(levels'), NEW k \in 1..Len(levels'[i])
             PROVE  store'[levels'[i][k].addr].height = i - 1
  BY DEF Heights
<1>5. CASE i # l
  <2>1. i \in 1..Len(levels)
    BY <1>1, <1>5
  <2>2. ~ (i < l)
    <3>1. SUFFICES ASSUME i < l PROVE FALSE
      OBVIOUS
    <3>2. levels'[i] = <<>> /\ Len(<<>>) = 0
      BY <1>1, <1>5, <2>1, <3>1, EmptySeq
    <3>3. k \in 1..0
      BY <3>2
    <3> QED
      BY <3>3
  <2>3. levels'[i] = levels[i]
    BY <1>1, <1>5, <2>1, <2>2
  <2> QED
    BY <1>4, <2>1, <2>3
<1>6. CASE i = l
  <2>1. PICK old \in Seq(Ref) : old = IF l > Len(levels) THEN <<>> ELSE levels[l]
    <3>1. <<>> \in Seq(Ref)
      BY EmptySeq
    <3>2. ~ (l > Len(levels)) => levels[l] \in Seq(Ref)
      BY <1>1, <1>2, ElementOfSeq
    <3> QED
      BY <3>1, <3>2
  <2>2. PICK ref \in Ref : ref = [addr |-> Len(store) + 1, span |-> chunk.span]
    <3>1. Len(store) + 1 \in Nat \ {0} /\ chunk.span \in Nat \ {0}
      BY <1>1, SMTT(40) DEF Chunk
    <3>2. [addr |-> Len(store) + 1, span |-> chunk.span] \in Ref
      BY <3>1 DEF Ref
    <3> QED
      BY <3>2
  <2>3. ref.addr = Len(store) + 1
    BY <2>2
  <2>4. levels'[l] = Append(old, ref)
    BY <1>1, <2>1, <2>2
  <2>5. /\ Len(Append(old, ref)) = Len(old) + 1 /\ Len(old) \in Nat
        /\ \A q \in 1..Len(old) : Append(old, ref)[q] = old[q]
        /\ Append(old, ref)[Len(old) + 1] = ref
    BY AppendProperties, LenProperties
  <2>6. k \in 1..(Len(old) + 1)
    BY <1>6, <2>4, <2>5
  <2>7. CASE k = Len(old) + 1
    BY <1>1, <1>3, <1>6, <2>3, <2>4, <2>5, <2>7
  <2>8. CASE k # Len(old) + 1
    <3>1. k \in 1..Len(old) /\ Append(old, ref)[k] = old[k]
      BY <2>5, <2>6, <2>8
    <3>2. ~ (l > Len(levels))
      <4>1. SUFFICES ASSUME l > Len(levels) PROVE FALSE
        OBVIOUS
      <4>2. Len(old) = 0
        BY <2>1, <4>1, EmptySeq
      <4> QED
        BY <3>1, <4>2
    <3>3. l \in 1..Len(levels) /\ old = levels[l]
      BY <1>1, <1>2, <2>1, <3>2
    <3> QED
      BY <1>4, <1>6, <2>4, <3>1, <3>3
  <2> QED
    BY <2>7, <2>8
<1> QED
  BY <1>5, <1>6

LEMMA JoinCanonical ==
  ASSUME StackInv, NEW lv \in Seq(Seq(Ref)), NEW l \in 1..(Len(levels) + 1), NEW chunk \in Chunk,
         NEW j \in Nat, Joining(lv, l, chunk, j), Canonical
  PROVE  Canonical'
<1>1. UNCHANGED <<written, call, root>>
  BY JoinFrame
<1>2. Ended' = Ended
  BY <1>1 DEF Ended
<1>3. /\ Shapes' = Shapes \cup {ShapeOf(chunk)}
      /\ ShapeOf(chunk) \in Hash!Tree(written)
      /\ Ended \/ Hash!Full(ShapeOf(chunk))
  BY JoinShapes
<1>4. \A c \in Shapes : c \in Hash!Tree(written) /\ (~Ended => Hash!Full(c))
  BY DEF Canonical
<1>5. Canonical' = \A c \in Shapes' : c \in Hash!Tree(written) /\ (~Ended => Hash!Full(c))
  BY <1>1, <1>2 DEF Canonical
<1> QED
  BY <1>3, <1>4, <1>5

LEMMA JoinComplete ==
  ASSUME StackInv, NEW lv \in Seq(Seq(Ref)), NEW l \in 1..(Len(levels) + 1), NEW chunk \in Chunk,
         NEW j \in Nat, Joining(lv, l, chunk, j), Complete
  PROVE  Complete'
<1>1. /\ Len(levels) \in Nat /\ l \in 1..Len(edge) /\ Len(edge) = Len(levels) + 1
      /\ Len(levels') = IF l > Len(levels) THEN l ELSE Len(levels)
      /\ Len(edge') = Len(levels') + 1
      /\ \A i \in 1..Len(edge) : i # l => edge'[i] = edge[i]
      /\ edge'[l] = written
      /\ l = Len(edge) => edge'[l + 1] = 0
      /\ written' = written
  BY JoinFrame
<1>2. /\ Shapes' = Shapes \cup {ShapeOf(chunk)}
      /\ ShapeOf(chunk) = Hash!Piece(written, l - 1, j)
      /\ written \in Nat \ {0}
  BY JoinShapes
<1> SUFFICES ASSUME NEW i \in 1..Len(edge'), NEW k \in Nat, k * Cap(i - 1) < edge'[i]
             PROVE  Hash!Piece(written, i - 1, k) \in Shapes'
  BY <1>1 DEF Complete
<1>3. CASE i # l /\ i \in 1..Len(edge)
  BY <1>1, <1>2, <1>3 DEF Complete
<1>4. CASE i # l /\ i \notin 1..Len(edge)
  <2>1. l = Len(edge) /\ i = l + 1
    BY <1>1, <1>4
  <2>2. edge'[i] = 0
    BY <1>1, <2>1
  <2> DEFINE x == Cap(i - 1)
  <2>3. x \in Nat
    BY <1>1, <2>1, CapNatural
  <2> HIDE DEF x
  <2>4. k * x \in Nat
    BY <2>3
  <2>5. ~ (k * x < 0)
    BY <2>4
  <2> QED
    BY <2>2, <2>5 DEF x
<1>5. CASE i = l
  <2>1. PICK x \in Nat \ {0} : x = Cap(l - 1)
    <3>1. l - 1 \in Nat
      BY <1>1
    <3> QED
      BY <3>1, CapNatural
  <2>2. CASE k < j
    <3>1. k * x < j * x
      BY <2>2, SMTT(30)
    <3>2. k * Cap(l - 1) < edge[l]
      BY <2>1, <3>1 DEF Joining
    <3>3. Hash!Piece(written, l - 1, k) \in Shapes
      BY <1>1, <3>2 DEF Complete
    <3> QED
      BY <1>2, <1>5, <3>3
  <2>3. CASE k = j
    BY <1>2, <1>5, <2>3
  <2>4. CASE k > j
    <3>1. k * x >= (j + 1) * x
      BY <2>4, SMTT(30)
    <3>2. (j + 1) * x = j * x + x /\ j * x \in Nat /\ k * x \in Nat
      BY SMTT(30)
    <3>3. PICK p \in Nat, q \in Nat : p = j * x /\ q = k * x
      BY <3>2
    <3>4. PICK s \in Nat : s = chunk.span /\ s <= x /\ p + s = written
      BY <2>1, <3>3 DEF Joining, Chunk
    <3>5. q < written
      BY <1>1, <1>5, <2>1, <3>3
    <3>6. q >= p + x
      BY <3>1, <3>2, <3>3
    <3>7. s <= x /\ p + s = written
      BY <3>4
    <3>8. ~ (q < p + s)
      BY <3>6, <3>7
    <3> QED
      BY <3>5, <3>7, <3>8
  <2> QED
    BY <2>2, <2>3, <2>4
<1> QED
  BY <1>3, <1>4, <1>5

LEMMA JoinDue ==
  ASSUME StackInv, NEW lv \in Seq(Seq(Ref)), NEW l \in 1..(Len(levels) + 1), NEW chunk \in Chunk,
         NEW j \in Nat, Joining(lv, l, chunk, j)
  PROVE  Due'
<1>1. /\ edge'[l] = written /\ written' = written
  BY JoinFrame
<1>2. /\ pc' \in {"collapse", "fill", "scan"}
      /\ pc' = "collapse" => level' = l /\ Len(levels'[l]) = MaxBranches
  BY DEF Joining, Emit, IsFull
<1>3. MaxBranches \in Nat /\ MaxBranches > 1
  BY ConstantsAssumption
<1> QED
  BY <1>1, <1>2, <1>3 DEF Due

(* An emission keeps the tree canonical.                                   *)
LEMMA JoinGrowing ==
  ASSUME StackInv, LevelsTile, NEW lv \in Seq(Seq(Ref)), NEW l \in 1..(Len(levels) + 1),
         NEW chunk \in Chunk, NEW j \in Nat, Joining(lv, l, chunk, j), Growing
  PROVE  Growing' /\ Due' /\ Sealed'
<1>1. Cuts /\ Counts /\ Reached /\ Heights /\ Canonical /\ Complete
  BY DEF Growing
<1>2. Cuts' /\ Counts'
  BY <1>1, JoinCuts, JoinCounts
<1>3. Reached' /\ Heights'
  BY <1>1, JoinReached, JoinHeights
<1>4. Canonical' /\ Complete'
  BY <1>1, JoinCanonical, JoinComplete
<1>5. Due'
  BY JoinDue
<1>6. Sealed'
  <2>1. root = NoRef /\ root' = root
    BY JoinFrame DEF Joining
  <2> QED
    BY <2>1 DEF Sealed
<1> QED
  BY <1>2, <1>3, <1>4, <1>5, <1>6 DEF Growing

LEMMA FlushLeafJoins ==
  ASSUME StackInv, Descent, Lossless, Live, Growing, Sealed, Due, FlushLeaf, faults' = 0
  PROVE  \E lv \in Seq(Seq(Ref)), l \in 1..(Len(levels) + 1), chunk \in Chunk, j \in Nat :
           Joining(lv, l, chunk, j)
<1> DEFINE chunk == Leaf(written - leafBuf, leafBuf)
<1>1. /\ levels \in Seq(Seq(Ref)) /\ Len(levels) \in Nat
      /\ Len(edge) = Len(levels) + 1 /\ edge[1] = written - leafBuf
      /\ leafBuf \in Nat \ {0} /\ leafBuf <= ChunkSize /\ written \in Nat /\ leafBuf <= written
      /\ pc = "leaf" /\ faults = 0 /\ call \in {"none", "write", "finalize"}
  BY LenProperties, ConstantsAssumption
     DEF StackInv, TypeOK, Control, FlushLeaf, Live, Lossless, LevelsTile
<1>2. /\ chunk \in Chunk
      /\ chunk.lo = edge[1] /\ chunk.lo + chunk.span = written
      /\ chunk.height = 0 /\ chunk.span = leafBuf
  BY <1>1 DEF Chunk, Leaf
<1>3. Emit(chunk, levels, 1) /\ edge' = Raise(edge, 1, written)
  <2>1. ~ Reject
    BY <1>1 DEF Reject
  <2> QED
    BY <2>1 DEF FlushLeaf
<1> HIDE DEF chunk
<1>4. root = NoRef
  BY <1>1 DEF Sealed
<1>5. Cap(0) = ChunkSize
  BY CapLaw
<1>6. PICK j \in Nat : edge[1] = j * Cap(0)
  <2>1. 1 \in 1..Len(edge) /\ edge[1] # written /\ 1 - 1 = 0
    BY <1>1
  <2> QED
    BY <2>1 DEF Growing, Cuts
<1>7. Ended \/ chunk.span = Cap(0)
  <2>1. CASE call = "finalize"
    BY <2>1 DEF Ended
  <2>2. CASE call = "write"
    BY <1>1, <1>2, <1>5, <2>2 DEF Due
  <2>3. call # "none"
    BY <1>1 DEF Descent
  <2> QED
    BY <1>1, <2>1, <2>2, <2>3
<1>8. \A i \in 1..Len(levels) : levels[i] = IF i < 1 THEN <<>> ELSE levels[i]
  OBVIOUS
<1>9. Joining(levels, 1, chunk, j)
  BY <1>1, <1>2, <1>3, <1>4, <1>5, <1>6, <1>7, <1>8 DEF Joining
<1> QED
  BY <1>1, <1>2, <1>9

LEMMA CollapseJoins ==
  ASSUME StackInv, Descent, Lossless, Live, Growing, Sealed, Due, CollapseLevel, faults' = 0
  PROVE  \E lv \in Seq(Seq(Ref)), l \in 1..(Len(levels) + 1), chunk \in Chunk, j \in Nat :
           Joining(lv, l, chunk, j)
<1> DEFINE refs  == levels[level]
           chunk == Parent(level, refs)
           lv    == [levels EXCEPT ![level] = <<>>]
           l     == level + 1
<1>1. /\ levels \in Seq(Seq(Ref)) /\ Len(levels) \in Nat
      /\ edge \in Seq(Nat) /\ Len(edge) = Len(levels) + 1
      /\ store \in Seq(Chunk) /\ Len(store) \in Nat
      /\ level \in 1..Len(levels) /\ refs # <<>>
      /\ written \in Nat /\ faults = 0
      /\ pc = "collapse" /\ call \in {"write", "finalize"}
      /\ edge[level] = written
  BY LenProperties DEF StackInv, TypeOK, Control, Descent, CollapseLevel, Live, Due
<1>2. refs \in Seq(Ref)
  BY <1>1, ElementOfSeq
<1>3. Len(refs) \in Nat \ {0} /\ \A k \in 1..Len(refs) : refs[k] \in Ref
  BY <1>1, <1>2, EmptySeq, ElementOfSeq
<1>4. \A k \in 1..Len(refs) : EmittedIn(store, refs[k])
  BY <1>1 DEF StackInv, ReferencesEmitted
<1>5. /\ l \in 1..(Len(levels) + 1) /\ l \in Nat /\ l - 1 = level /\ l - 2 = level - 1 /\ l > 1
      /\ level \in 1..Len(edge) /\ l \in 1..Len(edge)
  BY <1>1
<1>6. edge[l] \in Nat
  BY <1>1, <1>5, ElementOfSeq
<1>7. TotalSpan(refs) = written - edge[l] /\ Lo(store, refs[1].addr) = edge[l]
  <2>1. Tiles(store, Addrs(refs), edge[level + 1], edge[level])
    BY <1>1 DEF Lossless, LevelsTile
  <2> HIDE DEF refs
  <2>2. Tiles(store, Addrs(refs), edge[l], written)
    BY <1>1, <2>1
  <2> HIDE DEF l
  <2> QED
    BY <1>1, <1>2, <1>4, <1>6, <2>2, TilesSpan
<1>8. PICK s \in Nat \ {0} : s = TotalSpan(refs)
  <2> HIDE DEF refs
  <2> QED
    BY <1>1, <1>2, TotalSpanType
<1>9. chunk \in Chunk /\ chunk.height = level /\ chunk.lo = edge[l] /\ chunk.span = s
  <2>1. Addrs(refs) \in Seq(Nat \ {0})
    BY <1>3 DEF Ref, Addrs
  <2>2. level \in Nat
    BY <1>1
  <2> HIDE DEF refs, l
  <2> QED
    BY <1>6, <1>7, <1>8, <2>1, <2>2 DEF Chunk, Parent
<1>10. /\ lv \in Seq(Seq(Ref)) /\ Len(lv) = Len(levels)
       /\ \A i \in 1..Len(levels) : lv[i] = IF i = level THEN <<>> ELSE levels[i]
  <2>1. <<>> \in Seq(Ref)
    BY EmptySeq
  <2>2. /\ lv \in Seq(Seq(Ref)) /\ Len(lv) = Len(levels)
        /\ \A j \in 1..Len(levels) : lv[j] = IF j = level THEN <<>> ELSE levels[j]
    <3> HIDE DEF refs
    <3> QED
      BY <1>1, <2>1, ExceptSeq, SMTT(20)
  <2> QED
    BY <2>2
<1>11. Emit(chunk, lv, l) /\ edge' = Raise(edge, l, written)
  <2>1. ~ Reject
    BY <1>1 DEF Reject
  <2> QED
    BY <1>1, <2>1 DEF CollapseLevel, Emptied
<1> HIDE DEF chunk, lv
<1>12. \A i \in 1..Len(lv) : lv[i] = IF i < l THEN <<>> ELSE levels[i]
  <2> TAKE i \in 1..Len(lv)
  <2>1. i \in 1..Len(levels)
    BY <1>10
  <2>2. CASE i = level
    BY <1>5, <1>10, <2>1, <2>2
  <2>3. CASE i < level
    <3>1. levels[i] = <<>>
      BY <1>1, <2>1, <2>3 DEF Descent
    <3> QED
      BY <1>1, <1>5, <1>10, <2>1, <2>3, <3>1
  <2>4. CASE i > level
    BY <1>1, <1>5, <1>10, <2>1, <2>4
  <2> QED
    BY <1>1, <2>1, <2>2, <2>3, <2>4
<1>13. root = NoRef
  BY <1>1 DEF Sealed
<1>14. PICK j \in Nat : edge[l] = j * Cap(level)
  <2>1. edge[l] # written
    BY <1>1, <1>6, <1>7, <1>8
  <2> QED
    BY <1>5, <2>1 DEF Growing, Cuts
<1>15. PICK x \in Nat \ {0} : x = Cap(level - 1) /\ Cap(level) = MaxBranches * x
  <2>1. level - 1 \in Nat /\ level - 1 + 1 = level
    BY <1>1
  <2>2. Cap(level - 1) \in Nat \ {0} /\ Cap(level - 1 + 1) = MaxBranches * Cap(level - 1)
    BY <2>1, CapNatural, CapLaw
  <2> QED
    BY <2>1, <2>2
<1>16. PICK m \in Nat \ {0} : m = Len(refs)
  BY <1>3
<1>17. (m - 1) * x < s /\ s <= m * x
  <2>1. /\ (Len(levels[level]) - 1) * Cap(level - 1) < edge[level] - edge[level + 1]
        /\ edge[level] - edge[level + 1] <= Len(levels[level]) * Cap(level - 1)
    BY <1>1 DEF Growing, Counts
  <2>2. edge[level] - edge[level + 1] = s
    BY <1>1, <1>7, <1>8
  <2> QED
    BY <1>15, <1>16, <2>1, <2>2
<1>18. m <= MaxBranches /\ MaxBranches \in Nat /\ MaxBranches > 1
  <2>1. MaxBranches \in Nat /\ MaxBranches > 1 /\ level \in 1..Len(levels)
    BY <1>1, ConstantsAssumption
  <2>2. Len(levels[level]) < MaxBranches \/ Len(levels[level]) = MaxBranches
    BY <2>1 DEF StackInv, LevelsBounded
  <2> QED
    BY <1>16, <2>1, <2>2
<1>19. s <= Cap(level)
  <2>1. m * x <= MaxBranches * x /\ m * x \in Nat /\ MaxBranches * x \in Nat
    BY <1>18, SMTT(30)
  <2> QED
    BY <1>15, <1>17, <2>1
<1>20. Ended \/ s = Cap(level)
  <2>1. CASE call = "finalize"
    BY <2>1 DEF Ended
  <2>2. CASE call = "write"
    <3>1. m = MaxBranches
      BY <1>1, <1>16, <2>2 DEF Due
    <3>2. ~ Ended
      BY <1>13, <2>2 DEF Ended
    <3>3. PICK a \in Nat : written = a * x
      BY <1>1, <1>5, <1>15, <3>2 DEF Growing, Cuts
    <3>4. PICK b \in Nat : b = j * MaxBranches
      BY <1>18
    <3>5. edge[l] = b * x
      BY <1>14, <1>15, <1>18, <3>4, SMTT(30)
    <3>6. s = a * x - b * x
      BY <1>7, <1>8, <3>3, <3>5
    <3>7. a = b + m
      BY <1>17, <3>6, Aligned
    <3>8. s = m * x
      BY <3>6, <3>7, SMTT(30)
    <3> QED
      BY <1>15, <3>1, <3>8
  <2> QED
    BY <1>1, <2>1, <2>2
<1>21. Cap(level - 1) < written
  <2>1. CASE level < Len(levels)
    <3>1. level + 1 \in 2..Len(levels) /\ level + 1 - 2 = level - 1
      BY <1>1, <2>1
    <3>2. \A i \in 2..Len(levels) : Cap(i - 2) < written
      BY DEF Growing, Reached
    <3>3. PICK i \in 2..Len(levels) : i = level + 1
      BY <3>1
    <3>4. i - 2 = level - 1
      BY <1>1, <3>3
    <3> QED
      BY <3>2, <3>3, <3>4
  <2>2. CASE m > 1
    <3>1. x <= (m - 1) * x
      BY <2>2, SMTT(30)
    <3>2. PICK p \in Nat : p = (m - 1) * x
      <4>1. m - 1 \in Nat
        OBVIOUS
      <4>2. \A q \in Nat : q * x \in Nat
        OBVIOUS
      <4> QED
        BY <4>1, <4>2
    <3>3. x < s
      BY <1>17, <3>1, <3>2
    <3>4. s <= written
      BY <1>1, <1>6, <1>7, <1>8
    <3>5. x < written /\ x = Cap(level - 1)
      BY <1>1, <1>15, <3>3, <3>4
    <3> QED
      BY <3>5
  <2> QED
    BY <1>1, <1>16, <2>1, <2>2 DEF Due
<1>22. Joining(lv, l, chunk, j)
  <2>1. chunk.lo + chunk.span = written
    BY <1>1, <1>6, <1>7, <1>8, <1>9, SMTT(40)
  <2>2. l = 1 \/ (Cap(l - 2) < written /\ edge[l - 1] = written)
    BY <1>1, <1>5, <1>21
  <2>3. /\ Len(lv) = Len(levels)
        /\ chunk.height = l - 1
        /\ edge[l] = j * Cap(l - 1)
        /\ chunk.span <= Cap(l - 1)
        /\ Ended \/ chunk.span = Cap(l - 1)
    BY <1>5, <1>9, <1>10, <1>14, <1>19, <1>20
  <2> HIDE DEF l
  <2> QED
    BY <1>9, <1>11, <1>12, <1>13, <2>1, <2>2, <2>3 DEF Joining
<1> QED
  BY <1>5, <1>9, <1>10, <1>22

LEMMA TreeOfNothing == Hash!Tree(0) = {}
<1> DEFINE x == Cap(0)
<1>1. Hash!Height(0) = 0
  BY HeightTall DEF Tall
<1>2. x \in Nat \ {0}
  BY CapNatural
<1> HIDE DEF x
<1>3. (0 - 1) \div x = -1
  BY <1>2, SMTT(30)
<1>4. 0..((0 - 1) \div x) = {}
  BY <1>3
<1>5. \A h \in 0..Hash!Height(0) : h = 0
  BY <1>1
<1>6. \A h \in 0..Hash!Height(0) : 0..((0 - 1) \div Cap(h)) = {}
  BY <1>4, <1>5 DEF x
<1> QED
  BY <1>6 DEF Hash!Tree, Cap

-----------------------------------------------------------------------------
(* What is promised no more is not promised again.                         *)
LEMMA LiveBack == StackInv /\ [Next]_vars /\ Live' => Live
<1> SUFFICES ASSUME StackInv, [Next]_vars, Live' PROVE Live
  OBVIOUS
<1>1. faults \in Nat /\ reopened \in BOOLEAN
  BY DEF StackInv, TypeOK
<1>2. faults' = faults \/ faults' = faults + 1
  BY DEF Next, Internal, Write, FinalizeEmpty, Finalize, Fill, WriteReturns, FlushLeaf, CollapseLevel,
         Scan, FinalizeReturns, Emit, Reject, results, vars
<1>3. reopened => reopened'
  <2>1. ASSUME NEW n \in 1..MaxBytes, Write(n) PROVE reopened => reopened'
    BY <2>1, Zenon DEF Write
  <2>2. CASE FinalizeEmpty \/ Finalize \/ Internal \/ UNCHANGED vars
    <3>1. reopened' = reopened
      BY <2>2 DEF Internal, FinalizeEmpty, Finalize, Fill, WriteReturns, FlushLeaf, CollapseLevel,
                  Scan, FinalizeReturns, Emit, Reject, results, vars
    <3> QED
      BY <3>1
  <2> QED
    BY <2>1, <2>2 DEF Next
<1> QED
  BY <1>1, <1>2, <1>3 DEF Live

LEMMA GrowingUnchanged ==
  ASSUME Growing, UNCHANGED <<levels, store, edge, written>>, Ended => Ended'
  PROVE  Growing'
<1>1. Shapes' = Shapes
  BY DEF Shapes, Shape
<1>2. Cuts' /\ Counts' /\ Reached' /\ Heights'
  BY DEF Growing, Cuts, Counts, Reached, Heights
<1>3. Canonical'
  <2>1. \A c \in Shapes : c \in Hash!Tree(written) /\ (~Ended => Hash!Full(c))
    BY DEF Growing, Canonical
  <2>2. Canonical' = \A c \in Shapes' : c \in Hash!Tree(written) /\ (~Ended' => Hash!Full(c))
    BY DEF Canonical
  <2> QED
    BY <1>1, <2>1, <2>2
<1>4. Complete'
  BY <1>1 DEF Growing, Complete
<1> QED
  BY <1>2, <1>3, <1>4 DEF Growing

LEMMA FillUnended ==
  ASSUME Descent, Sealed, Fill
  PROVE  /\ call = "write" /\ call' = "write" /\ root = NoRef /\ root' = NoRef
         /\ ~Ended /\ ~Ended'
<1>1. call = "write" /\ call' = call /\ root' = root /\ pc = "fill"
  BY DEF Descent, Fill, results
<1>2. root = NoRef
  BY <1>1 DEF Sealed
<1> QED
  BY <1>1, <1>2 DEF Ended

(* Every chunk so far is full, and stays where it is.                      *)
LEMMA FillGrowing ==
  ASSUME StackInv, Descent, Sealed, Growing, Fill
  PROVE  Growing'
<1>1. /\ UNCHANGED <<levels, store, edge>>
      /\ written \in Nat /\ written' \in Nat /\ written' >= written
      /\ Len(levels) \in Nat /\ Len(edge) = Len(levels) + 1
      /\ \A i \in 1..Len(edge) : edge[i] \in Nat
  <2>1. /\ written \in Nat /\ todo \in Nat /\ leafBuf \in Nat /\ pc = "fill" /\ leafBuf < ChunkSize
        /\ levels \in Seq(Seq(Ref)) /\ edge \in Seq(Nat)
        /\ Len(edge) = Len(levels) + 1 /\ ChunkSize \in Nat
    BY ConstantsAssumption DEF StackInv, TypeOK, Control, Fill
  <2>2. /\ written' = written + (IF todo <= ChunkSize - leafBuf THEN todo ELSE ChunkSize - leafBuf)
        /\ UNCHANGED <<levels, store, edge>>
    BY DEF Fill, Room
  <2>3. Len(levels) \in Nat /\ \A i \in 1..Len(edge) : edge[i] \in Nat
    BY <2>1, LenProperties, ElementOfSeq
  <2> QED
    BY <2>1, <2>2, <2>3
<1>2. ~Ended /\ ~Ended'
  BY FillUnended
<1>3. Shapes' = Shapes
  BY <1>1 DEF Shapes, Shape
<1>4. Cuts'
  BY <1>1, <1>2 DEF Growing, Cuts
<1>5. Counts' /\ Heights'
  BY <1>1 DEF Growing, Counts, Heights
<1>6. Reached'
  <2>1. levels # <<>> => written > 0
    BY DEF Growing, Reached
  <2>2. ASSUME NEW i \in 2..Len(levels) PROVE Cap(i - 2) < written'
    <3>1. Cap(i - 2) < written
      BY <2>2 DEF Growing, Reached
    <3>2. i - 2 \in Nat
      OBVIOUS
    <3>3. Cap(i - 2) \in Nat
      BY <3>2, CapNatural
    <3> QED
      BY <1>1, <3>1, <3>3
  <2> QED
    BY <1>1, <2>1, <2>2 DEF Reached
<1>7. ASSUME NEW c \in Shapes PROVE c \in Hash!Tree(written') /\ Hash!Full(c) /\ c \in Hash!Tree(written)
  <2>1. c \in Hash!Tree(written) /\ Hash!Full(c)
    BY <1>2 DEF Growing, Canonical
  <2>2. written # 0
    <3>1. \E a \in 1..Len(store) : TRUE
      BY <1>7 DEF Shapes
    <3> QED
      BY <2>1, TreeOfNothing
  <2> QED
    BY <1>1, <2>1, <2>2, FullStays
<1>8. Canonical'
  BY <1>3, <1>7 DEF Canonical
<1>9. ASSUME NEW i \in 1..Len(edge), NEW j \in Nat, j * Cap(i - 1) < edge[i]
      PROVE  Hash!Piece(written', i - 1, j) \in Shapes
  <2>1. PICK c \in Shapes : c = Hash!Piece(written, i - 1, j)
    BY <1>9 DEF Growing, Complete
  <2>2. PICK x \in Nat \ {0} : x = Cap(i - 1)
    <3>1. i - 1 \in Nat
      OBVIOUS
    <3> QED
      BY <3>1, CapNatural
  <2>3. PICK y \in Nat : y = j * x /\ (j + 1) * x = y + x
    BY SMTT(30)
  <2>4. c = [height |-> i - 1, lo |-> y,
             span |-> IF (j + 1) * x <= written THEN x ELSE written - y]
    BY <2>1, <2>2, <2>3 DEF Hash!Piece, Cap
  <2>5. c.span = x
    <3>1. Hash!Full(c) /\ c.height = i - 1
      BY <1>7, <2>4
    <3> QED
      BY <2>2, <3>1 DEF Hash!Full, Cap
  <2>6. y + x <= written
    <3>1. c.span = IF y + x <= written THEN x ELSE written - y
      BY <2>3, <2>4
    <3> QED
      BY <1>1, <2>5, <3>1
  <2>7. (j + 1) * x <= written /\ (j + 1) * x <= written'
    BY <1>1, <2>3, <2>6
  <2>8. Hash!Piece(written', i - 1, j) = c
    BY <2>2, <2>3, <2>4, <2>7 DEF Hash!Piece, Cap
  <2> QED
    BY <2>8
<1>10. Complete'
  BY <1>1, <1>3, <1>9 DEF Complete
<1> QED
  BY <1>4, <1>5, <1>6, <1>8, <1>10 DEF Growing

LEMMA BudgetStep == StackInv /\ Budget /\ [Next]_vars => Budget'
<1> SUFFICES ASSUME StackInv, Budget, [Next]_vars PROVE Budget'
  OBVIOUS
<1>1. written \in Nat /\ todo \in Nat /\ MaxBytes \in Nat /\ leafBuf \in 0..ChunkSize /\ ChunkSize \in Nat
  BY ConstantsAssumption DEF StackInv, TypeOK
<1>2. ASSUME NEW n \in 1..MaxBytes, Write(n) PROVE Budget'
  BY <1>1, <1>2 DEF Write, Budget, chunker
<1>3. CASE Fill
  <2> DEFINE take == IF todo <= ChunkSize - leafBuf THEN todo ELSE ChunkSize - leafBuf
  <2>1. written' = written + take /\ todo' = todo - take
    BY <1>3 DEF Fill, Room
  <2>2. take \in Int
    BY <1>1
  <2> HIDE DEF take
  <2> QED
    BY <1>1, <2>1, <2>2 DEF Budget
<1>4. CASE FlushLeaf \/ CollapseLevel
  <2>1. written' = written /\ (todo' = todo \/ todo' = 0)
    BY <1>4 DEF FlushLeaf, CollapseLevel, Emit, Reject
  <2> QED
    BY <1>1, <2>1 DEF Budget
<1>5. CASE FinalizeEmpty \/ Finalize \/ WriteReturns \/ Scan \/ FinalizeReturns \/ UNCHANGED vars
  <2>1. written' = written /\ todo' = todo
    BY <1>5 DEF FinalizeEmpty, Finalize, WriteReturns, Scan, FinalizeReturns, chunker, control, vars
  <2> QED
    BY <2>1 DEF Budget
<1> QED
  BY <1>2, <1>3, <1>4, <1>5 DEF Next, Internal

(* The stack is down to one reference when Finalize returns.               *)
LEMMA LastIsRoot ==
  ASSUME StackInv, Descent, Lossless, Lossless', FinalizeReturns
  PROVE  /\ pc = "scan" /\ call = "finalize" /\ leafBuf = 0
         /\ Len(levels) \in Nat \ {0} /\ scan = Len(levels)
         /\ levels # <<>>
         /\ \A i \in 1..(Len(levels) - 1) : levels[i] = <<>>
         /\ Len(levels[Len(levels)]) = 1
         /\ root' = levels[Len(levels)][1]
         /\ root' \in Ref /\ EmittedIn(store, root')
         /\ pc' = "ready" /\ call' = "none" /\ outcome' = "sealed"
         /\ UNCHANGED <<leafBuf, levels, store, written, faults, reopened, edge>>
<1>1. /\ pc = "scan" /\ call = "finalize" /\ leafBuf = 0 /\ levels # <<>>
      /\ scan \in Nat \ {0} /\ levels \in Seq(Seq(Ref))
      /\ \A i \in 1..Len(levels) : i < scan => levels[i] = <<>>
      /\ UNCHANGED <<leafBuf, levels, store, written, faults, reopened, edge>>
      /\ call' = "none"
  BY DEF StackInv, TypeOK, Control, Descent, FinalizeReturns, chunker
<1>2. Len(levels) \in Nat \ {0}
  BY <1>1, LenProperties, EmptySeq
<1>3. levels[Len(levels)] # <<>> /\ pc' = "ready" /\ root' = levels[Len(levels)][1] /\ outcome' = "sealed"
  BY DEF FinalizeReturns, Lossless, Returned
<1>4. scan = Len(levels) /\ Len(levels[scan]) = 1
  <2>1. ~ (scan > Len(levels))
    BY <1>1, <1>2, <1>3
  <2> QED
    BY <2>1 DEF FinalizeReturns, ScanEnds
<1>5. \A i \in 1..(Len(levels) - 1) : levels[i] = <<>>
  <2> TAKE i \in 1..(Len(levels) - 1)
  <2>1. i \in 1..Len(levels) /\ i < scan
    BY <1>2, <1>4
  <2> QED
    BY <1>1, <2>1
<1>6. root' \in Ref /\ EmittedIn(store, root')
  <2>1. Len(levels) \in 1..Len(levels) /\ 1 \in 1..Len(levels[Len(levels)])
    BY <1>2, <1>4
  <2>2. levels[Len(levels)] \in Seq(Ref)
    BY <1>1, <2>1, ElementOfSeq
  <2>3. levels[Len(levels)][1] \in Ref
    BY <2>1, <2>2, ElementOfSeq
  <2> QED
    BY <1>3, <2>1, <2>3 DEF StackInv, ReferencesEmitted
<1> QED
  BY <1>1, <1>2, <1>3, <1>4, <1>5, <1>6

LEMMA TreeStep ==
  ASSUME StackInv, Descent, Lossless, Lossless', Live, Live', Growing, Sealed, Due, [Next]_vars
  PROVE  Growing' /\ Sealed' /\ Due'
<1>1. ASSUME NEW n \in 1..MaxBytes, Write(n) PROVE Growing' /\ Sealed' /\ Due'
  <2>1. /\ UNCHANGED <<levels, store, edge, written, root>>
        /\ pc = "ready" /\ pc' = "fill" /\ call' = "write"
    BY <1>1 DEF Write, chunker
  <2>2. root = NoRef
    <3>1. root # NoRef => reopened'
      BY <1>1, Zenon DEF Write
    <3> QED
      BY <3>1 DEF Live
  <2>3. ~Ended
    BY <2>1, <2>2 DEF Due, Ended
  <2>4. Growing'
    BY <2>1, <2>3, GrowingUnchanged
  <2> QED
    BY <2>1, <2>2, <2>4 DEF Sealed, Due
<1>2. CASE Fill
  <2>1. Growing'
    BY <1>2, FillGrowing
  <2>2. root' = NoRef
    BY <1>2, FillUnended
  <2>3. Due'
    BY <1>2 DEF Fill, Due
  <2> QED
    BY <2>1, <2>2, <2>3 DEF Sealed
<1>3. CASE WriteReturns
  <2>1. /\ UNCHANGED <<levels, store, edge, written, root>>
        /\ pc = "fill" /\ pc' = "ready" /\ call' = "none" /\ call = "write"
    BY <1>3 DEF WriteReturns, chunker, Descent
  <2>2. root = NoRef
    BY <2>1 DEF Sealed
  <2>3. ~Ended
    BY <2>1, <2>2 DEF Ended
  <2>4. Growing'
    BY <2>1, <2>3, GrowingUnchanged
  <2> QED
    BY <2>1, <2>2, <2>4 DEF Sealed, Due
<1>4. CASE FinalizeEmpty \/ UNCHANGED vars
  <2>1. UNCHANGED <<leafBuf, levels, store, edge, written, root, pc, call, level>>
    BY <1>4 DEF FinalizeEmpty, chunker, control, results, vars
  <2>2. Ended' = Ended
    BY <2>1 DEF Ended
  <2>3. Growing'
    BY <2>1, <2>2, GrowingUnchanged
  <2> QED
    BY <2>1, <2>3 DEF Sealed, Due
<1>5. CASE Finalize
  <2>1. /\ UNCHANGED <<leafBuf, levels, store, edge, written, root>>
        /\ call' = "finalize"
        /\ pc' = IF leafBuf > 0 THEN "leaf" ELSE "scan"
    BY <1>5 DEF Finalize, chunker, PartialLeaf
  <2>2. Ended'
    BY <2>1 DEF Ended
  <2>3. Growing'
    BY <2>1, <2>2, GrowingUnchanged
  <2>4. Sealed'
    BY <2>1 DEF Sealed
  <2>5. Due'
    BY <2>1 DEF Due
  <2> QED
    BY <2>3, <2>4, <2>5
<1>6. CASE FlushLeaf
  <2>1. PICK lv \in Seq(Seq(Ref)), l \in 1..(Len(levels) + 1), chunk \in Chunk, j \in Nat :
          Joining(lv, l, chunk, j)
    <3>1. faults' = 0
      BY DEF Live
    <3> QED
      BY <1>6, <3>1, FlushLeafJoins
  <2> QED
    BY <2>1, JoinGrowing DEF Lossless
<1>7. CASE CollapseLevel
  <2>1. PICK lv \in Seq(Seq(Ref)), l \in 1..(Len(levels) + 1), chunk \in Chunk, j \in Nat :
          Joining(lv, l, chunk, j)
    <3>1. faults' = 0
      BY DEF Live
    <3> QED
      BY <1>7, <3>1, CollapseJoins
  <2> QED
    BY <2>1, JoinGrowing DEF Lossless
<1>8. CASE Scan
  <2>1. /\ UNCHANGED <<leafBuf, levels, store, edge, written, root, call>>
        /\ pc = "scan" /\ call = "finalize" /\ leafBuf = 0
        /\ scan \in Nat \ {0} /\ levels \in Seq(Seq(Ref)) /\ Len(levels) \in Nat
    BY <1>8, LenProperties DEF Scan, chunker, results, Descent, StackInv, TypeOK, Control
  <2>2. Ended'
    BY <2>1 DEF Ended
  <2>3. Growing'
    BY <2>1, <2>2, GrowingUnchanged
  <2>4. /\ scan <= Len(levels)
        /\ scan < Len(levels) \/ Len(levels[scan]) # 1
        /\ \/ levels[scan] = <<>> /\ pc' = "scan"
           \/ levels[scan] # <<>> /\ pc' = "collapse" /\ level' = scan
    BY <1>8, <2>1 DEF Scan, ScanEnds
  <2>5. Sealed'
    <3>1. SUFFICES ASSUME root # NoRef PROVE pc' = "scan"
      BY <2>1 DEF Sealed
    <3>2. levels[scan] = <<>>
      <4>1. SUFFICES ASSUME scan = Len(levels) PROVE FALSE
        BY <2>1, <2>4, <3>1 DEF Sealed
      <4> QED
        BY <2>1, <2>4, <3>1, <4>1 DEF Sealed
    <3> QED
      BY <2>4, <3>2
  <2>6. Due'
    <3>1. SUFFICES ASSUME pc' = "collapse"
                   PROVE  edge[scan] = written /\ (scan < Len(levels) \/ Len(levels[scan]) > 1)
      BY <2>1, <2>4 DEF Due
    <3>2. edge[scan] = written
      <4>1. Len(edge) = Len(levels) + 1 /\ edge[1] = written - leafBuf /\ written \in Nat
        BY DEF StackInv, TypeOK, Control, Lossless, LevelsTile
      <4>2. scan \in 1..Len(edge)
        BY <2>1, <2>4, <4>1
      <4>3. edge[scan] = edge[1]
        BY <2>1, <4>2 DEF Lossless, EdgeFlat
      <4> QED
        BY <2>1, <4>1, <4>3
    <3>3. scan < Len(levels) \/ Len(levels[scan]) > 1
      <4>1. scan \in 1..Len(levels) /\ levels[scan] # <<>>
        BY <2>1, <2>4, <3>1
      <4>2. levels[scan] \in Seq(Ref)
        BY <2>1, <4>1, ElementOfSeq
      <4>3. Len(levels[scan]) \in Nat \ {0}
        BY <4>1, <4>2, LenProperties, EmptySeq
      <4>4. PICK m \in Nat \ {0} : m = Len(levels[scan])
        BY <4>3
      <4>5. scan < Len(levels) \/ m # 1
        BY <2>4, <4>4
      <4>6. scan < Len(levels) \/ m > 1
        BY <4>5
      <4> QED
        BY <4>4, <4>6
    <3> QED
      BY <3>2, <3>3
  <2> QED
    BY <2>3, <2>5, <2>6
<1>9. CASE FinalizeReturns
  <2>1. /\ call = "finalize" /\ leafBuf = 0 /\ levels # <<>>
        /\ \A i \in 1..(Len(levels) - 1) : levels[i] = <<>>
        /\ Len(levels[Len(levels)]) = 1
        /\ root' = levels[Len(levels)][1] /\ root' \in Ref
        /\ pc' = "ready" /\ call' = "none"
        /\ UNCHANGED <<leafBuf, levels, store, written, edge>>
    BY <1>9, LastIsRoot
  <2>2. root' # NoRef
    BY <2>1 DEF Ref, NoRef
  <2>3. Ended'
    BY <2>2 DEF Ended
  <2>4. Growing'
    BY <2>1, <2>3, GrowingUnchanged
  <2> QED
    BY <2>1, <2>4 DEF Sealed, Due
<1> QED
  BY <1>1, <1>2, <1>3, <1>4, <1>5, <1>6, <1>7, <1>8, <1>9 DEF Next, Internal

LEMMA TreeInvInit == Init => TreeInv
<1> SUFFICES ASSUME Init PROVE TreeInv
  OBVIOUS
<1>1. FileInv
  BY FileInvInit
<1>2. /\ leafBuf = 0 /\ levels = <<>> /\ store = <<>> /\ written = 0 /\ call = "none" /\ todo = 0
      /\ pc = "ready" /\ root = NoRef /\ edge = <<0>> /\ Len(<<>>) = 0 /\ Len(<<0>>) = 1
  BY EmptySeq DEF Init
<1>3. Budget
  BY <1>2, ConstantsAssumption DEF Budget
<1>4. Cap(0) \in Nat
  BY CapNatural
<1>5. edge[1] = 0
  BY <1>2
<1>6. Cuts
  <2>1. SUFFICES ASSUME NEW i \in 1..Len(edge) PROVE \E j \in Nat : edge[i] = j * Cap(i - 1)
    BY DEF Cuts
  <2>2. i = 1 /\ i - 1 = 0
    BY <1>2
  <2>3. 0 * Cap(0) = 0
    BY <1>4
  <2>4. edge[i] = 0 * Cap(i - 1)
    BY <1>5, <2>2, <2>3
  <2> QED
    BY <2>4
<1>7. Counts /\ Reached /\ Heights
  BY <1>2 DEF Counts, Reached, Heights
<1>8. Shapes = {}
  BY <1>2 DEF Shapes
<1>9. Canonical
  BY <1>8 DEF Canonical
<1>10. Complete
  <2>1. SUFFICES ASSUME NEW i \in 1..Len(edge), NEW j \in Nat, j * Cap(i - 1) < edge[i] PROVE FALSE
    BY DEF Complete
  <2>2. i = 1 /\ i - 1 = 0
    BY <1>2
  <2>3. PICK x \in Nat : x = Cap(0)
    BY <1>4
  <2>4. j * x \in Nat
    OBVIOUS
  <2>5. j * x < 0
    BY <1>5, <2>1, <2>2, <2>3
  <2> QED
    BY <2>4, <2>5
<1>11. Sealed /\ Due
  BY <1>2 DEF Sealed, Due
<1> QED
  BY <1>1, <1>3, <1>6, <1>7, <1>9, <1>10, <1>11 DEF TreeInv, Growing

LEMMA TreeInvStep == TreeInv /\ [Next]_vars => TreeInv'
<1> SUFFICES ASSUME TreeInv, [Next]_vars PROVE TreeInv'
  OBVIOUS
<1>1. FileInv /\ FileInv' /\ StackInv
  BY FileInvStep DEF TreeInv, FileInv
<1>2. Budget'
  BY <1>1, BudgetStep DEF TreeInv
<1>3. ASSUME Live' PROVE Growing' /\ Sealed' /\ Due'
  <2>1. Live
    BY <1>1, <1>3, LiveBack
  <2>2. Lossless /\ Descent
    BY <1>1, <2>1 DEF FileInv, Live
  <2>3. Lossless'
    BY <1>1, <1>3 DEF FileInv, Live
  <2> QED
    BY <1>1, <1>3, <2>1, <2>2, <2>3, TreeStep DEF TreeInv
<1> QED
  BY <1>1, <1>2, <1>3 DEF TreeInv

-----------------------------------------------------------------------------
(* Every step is a step of FileHash, or none of its steps.                 *)
(* The variables of FileHash.                                              *)
HashBytes  == IF void THEN 0 ELSE written
HashChunks == IF void THEN {} ELSE Shapes
HashRoot   == IF void \/ root = NoRef THEN [height |-> 0, lo |-> 0, span |-> 0] ELSE Shape(root.addr)

LEMMA HashVars ==
  ASSUME HashBytes' = HashBytes, HashChunks' = HashChunks, HashRoot' = HashRoot,
         phaseBar' = phaseBar
  PROVE  UNCHANGED Hash!vars
BY DEF HashBytes, HashChunks, HashRoot, Hash!vars, Shapes

LEMMA Phases ==
  ASSUME StackInv
  PROVE  /\ void <=> ~Live
         /\ Live => phaseBar = IF root # NoRef THEN "sealed"
                               ELSE IF call = "finalize" THEN "sealing" ELSE "open"
<1>1. faults \in Nat /\ reopened \in BOOLEAN
  BY DEF StackInv, TypeOK
<1> QED
  BY <1>1 DEF void, phaseBar, Live

LEMMA PhasesNext ==
  ASSUME StackInv'
  PROVE  /\ void' <=> ~Live'
         /\ Live' => phaseBar' = IF root' # NoRef THEN "sealed"
                                 ELSE IF call' = "finalize" THEN "sealing" ELSE "open"
<1>1. faults' \in Nat /\ reopened' \in BOOLEAN
  BY DEF StackInv, TypeOK
<1> QED
  BY <1>1 DEF void, phaseBar, Live

(* Nothing the promise is about changes.                                   *)
LEMMA LiveStutter ==
  ASSUME StackInv, StackInv', Live, Live', UNCHANGED <<written, store, root>>, phaseBar' = phaseBar
  PROVE  UNCHANGED Hash!vars
<1>1. ~void /\ ~void'
  BY Phases, PhasesNext
<1>2. Shapes' = Shapes
  BY DEF Shapes, Shape
<1>3. HashBytes' = HashBytes /\ HashChunks' = HashChunks
  BY <1>1, <1>2 DEF HashBytes, HashChunks
<1>4. HashRoot' = HashRoot
  BY <1>1 DEF HashRoot, Shape
<1> QED
  BY <1>3, <1>4, HashVars

LEMMA JoinEmits ==
  ASSUME StackInv, StackInv', Live, Live', Complete,
         NEW lv \in Seq(Seq(Ref)), NEW l \in 1..(Len(levels) + 1), NEW chunk \in Chunk,
         NEW j \in Nat, Joining(lv, l, chunk, j)
  PROVE  [Hash!Next]_Hash!vars
<1> DEFINE c == ShapeOf(chunk)
<1>1. /\ UNCHANGED <<written, call, root>>
      /\ l \in 1..Len(edge)
  BY JoinFrame
<1>2. root = NoRef /\ chunk.height = l - 1 /\ chunk.lo + chunk.span = written
      /\ (l = 1 \/ edge[l - 1] = written)
  BY DEF Joining
<1>3. /\ Shapes' = Shapes \cup {c}
      /\ c \in Hash!Tree(written)
      /\ Ended \/ Hash!Full(c)
      /\ written \in Nat \ {0}
  BY JoinShapes
<1>4. c.height = l - 1 /\ c.lo + c.span = written
  BY <1>2 DEF ShapeOf
<1>5. /\ ~void /\ ~void'
      /\ phaseBar = IF call = "finalize" THEN "sealing" ELSE "open"
      /\ phaseBar' = phaseBar
  BY <1>1, <1>2, Phases, PhasesNext
<1> HIDE DEF c
<1>6. Hash!Children(c, Hash!Tree(written)) \subseteq Shapes
  <2> SUFFICES ASSUME NEW d \in Hash!Tree(written), d.height = c.height - 1,
                      d.lo < c.lo + c.span
               PROVE  d \in Shapes
    BY DEF Hash!Children
  <2>1. PICK h \in Nat, k \in Nat : Fits(written, h, k) /\ d = Hash!Piece(written, h, k)
    BY <1>3, TreeElim
  <2>2. d.height = h
    BY <2>1 DEF Hash!Piece
  <2>3. l > 1 /\ l - 1 \in 1..Len(edge) /\ l - 1 - 1 = h
    BY <1>1, <1>4, <2>2
  <2>4. k * Cap(h) < edge[l - 1]
    BY <1>2, <2>1, <2>3 DEF Fits
  <2>5. Hash!Piece(written, h, k) \in Shapes
    <3>1. PICK i \in 1..Len(edge) : i = l - 1 /\ i - 1 = h
      BY <2>3
    <3> QED
      BY <2>4, <3>1 DEF Complete
  <2> QED
    BY <2>1, <2>5
<1>7. HashBytes' = HashBytes /\ HashRoot' = HashRoot
  BY <1>1, <1>2, <1>5 DEF HashBytes, HashRoot
<1>8. HashBytes = written /\ HashChunks = Shapes /\ HashChunks' = Shapes \cup {c}
  BY <1>3, <1>5 DEF HashBytes, HashChunks
<1>9. CASE c \in Shapes
  <2>1. HashChunks' = HashChunks
    BY <1>8, <1>9
  <2> QED
    BY <1>5, <1>7, <2>1, HashVars
<1>10. CASE c \notin Shapes
  <2>1. phaseBar = "open" => Hash!Full(c)
    BY <1>2, <1>3, <1>5 DEF Ended
  <2>2. phaseBar \in {"open", "sealing"}
    BY <1>5
  <2>3. c \in Hash!Tree(HashBytes) \ HashChunks
        /\ Hash!Children(c, Hash!Tree(HashBytes)) \subseteq HashChunks
        /\ HashChunks' = HashChunks \cup {c}
    BY <1>3, <1>6, <1>8, <1>10
  <2>4. Hash!Emit
    BY <1>5, <1>7, <2>1, <2>2, <2>3 DEF Hash!Emit, HashBytes, HashChunks, HashRoot, Shapes
  <2> QED
    BY <2>4 DEF Hash!Next
<1> QED
  BY <1>9, <1>10

LEMMA FillAppends ==
  ASSUME StackInv, StackInv', Descent, Budget', Live, Live', Sealed, Fill
  PROVE  [Hash!Next]_Hash!vars
<1>1. /\ call = "write" /\ call' = "write" /\ root = NoRef /\ root' = NoRef
  BY FillUnended
<1>2. /\ ~void /\ ~void' /\ phaseBar = "open" /\ phaseBar' = "open"
  BY <1>1, Phases, PhasesNext
<1>3. HashChunks' = HashChunks /\ HashRoot' = HashRoot
  <2>1. Shapes' = Shapes
    BY DEF Fill, Shapes, Shape
  <2> QED
    BY <1>1, <1>2, <2>1 DEF HashChunks, HashRoot
<1>4. HashBytes = written /\ HashBytes' = written'
  BY <1>2 DEF HashBytes
<1>5. written' \in (written + 1)..MaxBytes
  <2>1. /\ written \in Nat /\ todo \in Nat \ {0} /\ leafBuf \in Nat /\ leafBuf < ChunkSize /\ ChunkSize \in Nat
        /\ MaxBytes \in Nat /\ todo' \in Nat
    BY ConstantsAssumption DEF StackInv, TypeOK, Control, Fill
  <2>2. written' = written + (IF todo <= ChunkSize - leafBuf THEN todo ELSE ChunkSize - leafBuf)
    BY DEF Fill, Room
  <2>3. written' \in Nat /\ written' > written
    BY <2>1, <2>2
  <2>4. written' + todo' <= MaxBytes
    BY DEF Budget
  <2>5. PICK w \in Nat, v \in Nat, d \in Nat : w = written /\ v = written' /\ d = todo'
    BY <2>1, <2>3
  <2>6. v + d <= MaxBytes /\ v > w
    BY <2>3, <2>4, <2>5
  <2>7. v >= w + 1 /\ v <= MaxBytes
    BY <2>1, <2>6
  <2>8. v \in (w + 1)..MaxBytes
    BY <2>1, <2>7
  <2> QED
    BY <2>5, <2>8
<1>6. Hash!Append
  BY <1>2, <1>3, <1>4, <1>5 DEF Hash!Append, HashBytes, HashChunks, HashRoot, Shapes
<1> QED
  BY <1>6 DEF Hash!Next

LEMMA FinalizeCloses ==
  ASSUME StackInv, StackInv', Growing, Due, Live, Live', Finalize
  PROVE  [Hash!Next]_Hash!vars
<1>1. /\ UNCHANGED <<written, store, root>> /\ call' = "finalize" /\ call = "none"
  BY DEF Finalize, chunker, Due
<1>2. CASE root # NoRef
  <2>1. phaseBar' = phaseBar
    BY <1>1, <1>2, Phases, PhasesNext
  <2> QED
    BY <1>1, <2>1, LiveStutter
<1>3. CASE root = NoRef
  <2>1. ~void /\ ~void' /\ phaseBar = "open" /\ phaseBar' = "sealing"
    BY <1>1, <1>3, Phases, PhasesNext
  <2>2. Shapes' = Shapes
    BY <1>1 DEF Shapes, Shape
  <2>3. HashBytes' = HashBytes /\ HashChunks' = HashChunks /\ HashRoot' = HashRoot
    BY <1>1, <1>3, <2>1, <2>2 DEF HashBytes, HashChunks, HashRoot
  <2>4. HashBytes > 0
    <3>1. written > 0
      <4>1. CASE levels # <<>>
        BY <4>1 DEF Growing, Reached
      <4>2. CASE levels = <<>>
        BY <4>2, ConstantsAssumption DEF Finalize, Unfed, StackInv, TypeOK, Control
      <4> QED
        BY <4>1, <4>2
    <3> QED
      BY <2>1, <3>1 DEF HashBytes
  <2>5. Hash!Close
    BY <2>1, <2>3, <2>4 DEF Hash!Close, HashBytes, HashChunks, HashRoot, Shapes
  <2> QED
    BY <2>5 DEF Hash!Next
<1> QED
  BY <1>2, <1>3

(* The whole tree is out when the stack is down to one reference.          *)
LEMMA StackTop ==
  ASSUME StackInv, Descent, Lossless, Lossless', Growing, FinalizeReturns
  PROVE  /\ written \in Nat \ {0}
         /\ Hash!Height(written) = Len(levels) - 1
         /\ Shapes = Hash!Tree(written)
         /\ Shape(root'.addr) = Hash!Piece(written, Len(levels) - 1, 0)
<1>1. /\ pc = "scan" /\ call = "finalize" /\ leafBuf = 0
      /\ Len(levels) \in Nat \ {0} /\ scan = Len(levels)
      /\ levels # <<>>
      /\ Len(levels[Len(levels)]) = 1
      /\ root' = levels[Len(levels)][1]
      /\ root' \in Ref /\ EmittedIn(store, root')
      /\ outcome' = "sealed"
      /\ UNCHANGED <<store, written>>
  BY LastIsRoot
<1>2. PICK t \in Nat \ {0} : t = Len(levels)
  BY <1>1
<1>3. written \in Nat \ {0}
  <2>1. written \in Nat
    BY DEF StackInv, TypeOK
  <2> QED
    BY <1>1, <2>1 DEF Growing, Reached
<1>4. /\ Len(edge) = t + 1 /\ edge[t + 1] = 0
      /\ \A i \in 1..t : edge[i] = written
  <2>1. Len(edge) = t + 1 /\ edge[Len(edge)] = 0 /\ edge[1] = written - leafBuf
    BY <1>2 DEF Lossless, LevelsTile
  <2>2. \A i \in 1..t : edge[i] = edge[1]
    <3> TAKE i \in 1..t
    <3>1. i \in 1..Len(edge) /\ i <= scan
      BY <1>1, <1>2, <2>1
    <3> QED
      BY <1>1, <3>1 DEF Lossless, EdgeFlat
  <2> QED
    BY <1>1, <1>3, <2>1, <2>2
<1>5. PICK x \in Nat \ {0} : x = Cap(t - 1)
  <2>1. t - 1 \in Nat
    OBVIOUS
  <2> QED
    BY <2>1, CapNatural
<1>6. written <= x
  <2>1. t \in 1..Len(levels) /\ levels[t] # <<>>
    BY <1>1, <1>2, EmptySeq
  <2>2. edge[t] - edge[t + 1] <= Len(levels[t]) * Cap(t - 1)
    BY <2>1 DEF Growing, Counts
  <2>3. edge[t] = written /\ edge[t + 1] = 0 /\ Len(levels[t]) = 1 /\ 1 * x = x /\ written - 0 = written
    BY <1>1, <1>2, <1>3, <1>4
  <2> QED
    BY <1>5, <2>2, <2>3
<1>7. ASSUME NEW g \in 0..(t - 2) PROVE Cap(g) < written
  <2>1. t \in 2..Len(levels) /\ t - 2 \in Nat /\ g \in Nat /\ g <= t - 2
    BY <1>2
  <2>2. Cap(t - 2) < written
    BY <2>1 DEF Growing, Reached
  <2>3. Cap(g) <= Cap(t - 2) /\ Cap(g) \in Nat /\ Cap(t - 2) \in Nat
    BY <2>1, CapGrows, CapNatural
  <2> QED
    BY <1>3, <2>2, <2>3
<1>8. Tall(written, t - 1)
  <2>1. t - 1 \in 0..written
    <3>1. CASE t = 1
      BY <1>3, <3>1
    <3>2. CASE t # 1
      <4>1. t - 2 \in Nat /\ t - 2 \in 0..(t - 2)
        BY <3>2
      <4>2. Cap(t - 2) < written /\ Cap(t - 2) > t - 2 /\ Cap(t - 2) \in Nat
        BY <1>7, <4>1, CapBeyond, CapNatural
      <4> QED
        BY <1>3, <4>1, <4>2
    <3> QED
      BY <3>1, <3>2
  <2>2. Cap(t - 1) >= written
    BY <1>3, <1>5, <1>6
  <2>3. t - 1 - 1 = t - 2
    OBVIOUS
  <2> QED
    BY <1>7, <2>1, <2>2, <2>3 DEF Tall
<1>9. Hash!Height(written) = t - 1
  BY <1>3, <1>8, HeightTall
<1>10. ASSUME NEW c \in Hash!Tree(written) PROVE c \in Shapes
  <2>1. PICK h \in Nat, k \in Nat : Fits(written, h, k) /\ c = Hash!Piece(written, h, k)
    BY <1>3, TreeElim
  <2>2. h <= t - 1
    BY <1>3, <1>9, <2>1, HeightFits DEF Fits
  <2>3. PICK i \in 1..t : i = h + 1 /\ i - 1 = h
    BY <2>2
  <2>4. i \in 1..Len(edge) /\ k * Cap(h) < edge[i]
    BY <1>4, <2>1, <2>3 DEF Fits
  <2> QED
    BY <2>1, <2>3, <2>4 DEF Growing, Complete
<1>11. Shapes = Hash!Tree(written)
  BY <1>10 DEF Growing, Canonical
<1>12. Shape(root'.addr) = Hash!Piece(written, t - 1, 0)
  <2>1. store[root'.addr].height = t - 1
    <3>1. t \in 1..Len(levels) /\ 1 \in 1..Len(levels[t])
      BY <1>1, <1>2
    <3>2. store[levels[t][1].addr].height = t - 1
      BY <3>1 DEF Growing, Heights
    <3> QED
      BY <1>1, <1>2, <3>2
  <2>2. store[root'.addr].lo = 0 /\ root'.span = written
    <3>1. Lo(store', root'.addr) = 0 /\ root'.span = written'
      BY <1>1 DEF Lossless, Returned
    <3> QED
      BY <1>1, <3>1 DEF Lo
  <2>3. store[root'.addr].span = written
    BY <1>1, <2>2 DEF EmittedIn
  <2>4. 0 * x = 0 /\ (0 + 1) * x = x /\ written - 0 = written
    BY <1>3
  <2>5. written = IF (0 + 1) * x <= written THEN x ELSE written - 0 * x
    BY <1>3, <1>6, <2>4
  <2> QED
    BY <1>5, <2>1, <2>2, <2>3, <2>4, <2>5 DEF Shape, Hash!Piece, Cap
<1> QED
  BY <1>2, <1>3, <1>9, <1>11, <1>12

LEMMA FinalizeSeals ==
  ASSUME StackInv, StackInv', Descent, Lossless, Lossless', Growing, Sealed, Live, Live',
         FinalizeReturns
  PROVE  [Hash!Next]_Hash!vars
<1>1. /\ call = "finalize"
      /\ levels # <<>>
      /\ root' = levels[Len(levels)][1] /\ root' \in Ref
      /\ UNCHANGED <<written, store>>
  BY LastIsRoot
<1>2. root' # NoRef
  BY <1>1 DEF Ref, NoRef
<1>3. CASE root # NoRef
  <2>1. root' = root
    BY <1>1, <1>3 DEF Sealed
  <2>2. phaseBar' = phaseBar
    BY <1>2, <1>3, Phases, PhasesNext
  <2> QED
    BY <1>1, <2>1, <2>2, LiveStutter
<1>4. CASE root = NoRef
  <2>1. ~void /\ ~void' /\ phaseBar = "sealing" /\ phaseBar' = "sealed"
    BY <1>1, <1>2, <1>4, Phases, PhasesNext
  <2>2. /\ Shapes = Hash!Tree(written)
        /\ Shape(root'.addr) = Hash!Piece(written, Hash!Height(written), 0)
    BY StackTop
  <2>3. Shapes' = Shapes /\ HashRoot' = Shape(root'.addr)
    BY <1>1, <1>2, <2>1 DEF Shapes, Shape, HashRoot
  <2>4. HashBytes = written /\ HashBytes' = HashBytes /\ HashChunks = Shapes /\ HashChunks' = HashChunks
    BY <1>1, <2>1, <2>3 DEF HashBytes, HashChunks
  <2>5. HashChunks = Hash!Tree(HashBytes) /\ HashRoot' = Hash!Piece(HashBytes, Hash!Height(HashBytes), 0)
    BY <2>2, <2>3, <2>4
  <2>6. Hash!Seal
    BY <2>1, <2>4, <2>5 DEF Hash!Seal, HashBytes, HashChunks, HashRoot, Shapes
  <2> QED
    BY <2>6 DEF Hash!Next
<1> QED
  BY <1>3, <1>4


LEMMA HashStep ==
  ASSUME TreeInv, TreeInv', [Next]_vars
  PROVE  [Hash!Next]_Hash!vars
<1>1. FileInv /\ FileInv' /\ StackInv /\ StackInv' /\ Descent /\ Budget'
  BY DEF TreeInv, FileInv
<1>2. CASE ~Live
  <2>1. ~Live'
    BY <1>1, <1>2, LiveBack
  <2>2. void /\ void'
    BY <1>1, <1>2, <2>1, Phases, PhasesNext
  <2>3. UNCHANGED Hash!vars
    <3>1. phaseBar' = phaseBar
      BY <2>2 DEF void
    <3>2. HashBytes' = HashBytes /\ HashChunks' = HashChunks /\ HashRoot' = HashRoot
      BY <2>2 DEF HashBytes, HashChunks, HashRoot
    <3> QED
      BY <3>1, <3>2, HashVars
  <2> QED
    BY <2>3
<1>3. CASE Live /\ ~Live'
  <2>1. void'
    BY <1>1, <1>3, PhasesNext
  <2>2. phaseBar' = "void"
    BY <2>1 DEF void
  <2>3. Hash!Abandon
    BY <2>1, <2>2 DEF Hash!Abandon, Hash!NoRoot
  <2> QED
    BY <2>3 DEF Hash!Next
<1>4. CASE Live /\ Live'
  <2>1. Growing /\ Sealed /\ Due /\ Lossless /\ Lossless'
    BY <1>1, <1>4 DEF TreeInv, FileInv, Live
  <2>2. ASSUME NEW n \in 1..MaxBytes, Write(n) PROVE [Hash!Next]_Hash!vars
    <3>1. /\ UNCHANGED <<written, store, root>>
          /\ pc = "ready" /\ call' = "write"
      BY <2>2 DEF Write, chunker
    <3>2. root = NoRef
      <4>1. root # NoRef => reopened'
        BY <2>2, Zenon DEF Write
      <4> QED
        BY <1>4, <4>1 DEF Live
    <3>3. call = "none"
      BY <2>1, <3>1 DEF Due
    <3>4. phaseBar' = phaseBar
      BY <1>1, <1>4, <3>1, <3>2, <3>3, Phases, PhasesNext
    <3> QED
      BY <1>1, <1>4, <3>1, <3>4, LiveStutter
  <2>3. CASE Fill
    BY <1>1, <1>4, <2>1, <2>3, FillAppends
  <2>4. CASE WriteReturns
    <3>1. /\ UNCHANGED <<written, store, root>>
          /\ call = "write" /\ call' = "none"
      BY <1>1, <2>4 DEF WriteReturns, chunker, Descent
    <3>2. phaseBar' = phaseBar
      BY <1>1, <1>4, <3>1, Phases, PhasesNext
    <3> QED
      BY <1>1, <1>4, <3>1, <3>2, LiveStutter
  <2>5. CASE FinalizeEmpty \/ Scan \/ UNCHANGED vars
    <3>1. UNCHANGED <<written, store, root, call>>
      BY <2>5 DEF FinalizeEmpty, Scan, chunker, control, results, vars
    <3>2. phaseBar' = phaseBar
      BY <1>1, <1>4, <3>1, Phases, PhasesNext
    <3> QED
      BY <1>1, <1>4, <3>1, <3>2, LiveStutter
  <2>6. CASE Finalize
    BY <1>1, <1>4, <2>1, <2>6, FinalizeCloses
  <2>7. CASE FlushLeaf
    <3>1. PICK lv \in Seq(Seq(Ref)), l \in 1..(Len(levels) + 1), chunk \in Chunk, j \in Nat :
            Joining(lv, l, chunk, j)
      <4>1. faults' = 0
        BY <1>4 DEF Live
      <4> QED
        BY <1>1, <1>4, <2>1, <2>7, <4>1, FlushLeafJoins
    <3>2. Complete
      BY <2>1 DEF Growing
    <3> QED
      BY <1>1, <1>4, <3>1, <3>2, JoinEmits
  <2>8. CASE CollapseLevel
    <3>1. PICK lv \in Seq(Seq(Ref)), l \in 1..(Len(levels) + 1), chunk \in Chunk, j \in Nat :
            Joining(lv, l, chunk, j)
      <4>1. faults' = 0
        BY <1>4 DEF Live
      <4> QED
        BY <1>1, <1>4, <2>1, <2>8, <4>1, CollapseJoins
    <3>2. Complete
      BY <2>1 DEF Growing
    <3> QED
      BY <1>1, <1>4, <3>1, <3>2, JoinEmits
  <2>9. CASE FinalizeReturns
    BY <1>1, <1>4, <2>1, <2>9, FinalizeSeals
  <2> QED
    BY <2>2, <2>3, <2>4, <2>5, <2>6, <2>7, <2>8, <2>9 DEF Next, Internal
<1> QED
  BY <1>2, <1>3, <1>4

LEMMA HashInit == Init => Hash!Init
<1> SUFFICES ASSUME Init PROVE Hash!Init
  OBVIOUS
<1>1. ~void /\ written = 0 /\ {Shape(a) : a \in 1..Len(store)} = {} /\ root = NoRef /\ phaseBar = "open"
  BY DEF Init, void, phaseBar
<1> QED
  BY <1>1 DEF Hash!Init, Hash!NoRoot

(***************************************************************************)
(* The chunks the chunker emits, their order and the root it returns are   *)
(* those FileHash promises, for every chunk size, fan-out and way of       *)
(* cutting the input into Write calls (file_chunker.go 45-205).            *)
(***************************************************************************)
THEOREM ChunkerImplementsFileHash == Spec => ImplementsFileHash
<1>1. Spec => []TreeInv
  BY TreeInvInit, TreeInvStep, PTL DEF Spec
<1>2. TreeInv /\ TreeInv' /\ [Next]_vars => [Hash!Next]_Hash!vars
  BY HashStep
<1> QED
  BY <1>1, <1>2, HashInit, PTL DEF Spec, ImplementsFileHash, Hash!Spec

-----------------------------------------------------------------------------
(***************************************************************************)
(* That no call runs for ever, the part of CallsReturn that holds without  *)
(* fairness.  Finalize's loop goes up a stack that it may itself make      *)
(* higher, but only once: the level it adds holds one reference, above     *)
(* levels that are all empty, and the loop stops there.                    *)
(***************************************************************************)
Running == pc \notin {"ready", "panicked"}

(* The stack is nothing but a root.                                        *)
Bare ==
  /\ levels # <<>> /\ Len(levels[Len(levels)]) = 1
  /\ \A i \in 1..(Len(levels) - 1) : levels[i] = <<>>

(* What is left to do: bytes to buffer, or the last leaf to flush; levels  *)
(* to scan, with the one that may be added; and, between two turns of a    *)
(* loop, levels that a cascade can still reach.                            *)
BytesLeft == IF call = "write" THEN todo ELSE IF pc = "leaf" THEN 1 ELSE 0
LevelsLeft ==
  IF call = "write" \/ pc = "leaf" THEN 0
  ELSE Len(levels) + 1 - scan + (IF Bare THEN 0 ELSE 1)
CascadeLeft ==
  IF pc = "leaf" THEN Len(levels) + 2
  ELSE IF pc = "collapse" THEN Len(levels) + 1 - level
  ELSE IF pc = "scan" THEN Len(levels) + 1 ELSE 0

(* Less is left, in lexicographic order.                                   *)
Tires ==
  \/ BytesLeft' < BytesLeft
  \/ BytesLeft' = BytesLeft /\ LevelsLeft' < LevelsLeft
  \/ BytesLeft' = BytesLeft /\ LevelsLeft' = LevelsLeft /\ CascadeLeft' < CascadeLeft

(* The loop does not outrun the stack, and no root is collapsed.           *)
LoopStands ==
  /\ pc = "collapse" => level < Len(levels) \/ Len(levels[level]) # 1
  /\ pc = "scan" => scan <= Len(levels) + 1

(* A chunk that joins level l, below which lv is empty.                    *)
LEMMA EmitRises ==
  ASSUME StackInv,
         NEW lv \in Seq(Seq(Ref)), NEW l \in 1..(Len(lv) + 1), NEW chunk \in Chunk,
         \A i \in 1..Len(lv) : i < l => lv[i] = <<>>,
         Emit(chunk, lv, l)
  PROVE  /\ UNCHANGED <<call, todo>> /\ scan' \in {scan, scan + 1}
         /\ \/ /\ pc' = "collapse" /\ level' = l /\ scan' = scan
               /\ l <= Len(lv) /\ Len(levels') = Len(lv)
               /\ Len(levels'[l]) # 1
            \/ /\ pc' = IF call = "write" THEN "fill" ELSE "scan"
               /\ call # "write" => scan' = scan + 1
               /\ IF l <= Len(lv) THEN Len(levels') = Len(lv)
                  ELSE Len(levels') = Len(lv) + 1 /\ Bare'
<1> DEFINE ref == [addr |-> Len(store) + 1, span |-> chunk.span]
           p   == Push(lv, l, ref)
<1>1. Len(store) \in Nat /\ Len(lv) \in Nat
  BY LenProperties DEF StackInv, TypeOK
<1>2. ref \in Ref
  BY <1>1 DEF Ref, Chunk
<1>3. /\ levels' = p
      /\ IF Len(p[l]) = MaxBranches
         THEN pc' = "collapse" /\ level' = l /\ scan' = scan
         ELSE /\ pc' = (IF call = "write" THEN "fill" ELSE "scan")
              /\ scan' = (IF call = "write" THEN scan ELSE scan + 1)
      /\ UNCHANGED <<call, todo>>
  BY DEF Emit
<1> HIDE DEF ref
<1>4. /\ Len(p) = IF l > Len(lv) THEN l ELSE Len(lv)
      /\ p[l] = Append(IF l > Len(lv) THEN <<>> ELSE lv[l], ref)
      /\ \A i \in 1..Len(lv) : i # l => p[i] = lv[i]
  BY <1>2, PushProperties
<1> HIDE DEF p
<1>5. CASE l > Len(lv)
  <2>1. l = Len(lv) + 1 /\ Len(p) = l /\ p[l] = <<ref>>
    BY <1>1, <1>4, <1>5
  <2>2. Len(p[l]) = 1 /\ MaxBranches # 1
    BY <2>1, ConstantsAssumption
  <2>3. ASSUME NEW i \in 1..(Len(p) - 1) PROVE p[i] = <<>>
    <3>1. i \in 1..Len(lv) /\ i < l /\ i # l
      <4>1. Len(p) = Len(lv) + 1 /\ l = Len(lv) + 1
        BY <2>1
      <4> HIDE DEF p
      <4> QED
        BY <1>1, <4>1
    <3>2. lv[i] = <<>>
      BY <3>1
    <3> QED
      BY <1>4, <3>1, <3>2, Zenon
  <2>4. p # <<>>
    BY <1>1, <2>1, EmptySeq
  <2>5. Bare'
    BY <1>3, <2>1, <2>2, <2>3, <2>4 DEF Bare
  <2> QED
    BY <1>1, <1>3, <1>5, <2>1, <2>2, <2>5
<1>6. CASE l <= Len(lv)
  <2>1. Len(p) = Len(lv)
    BY <1>1, <1>4, <1>6
  <2>2. MaxBranches # 1
    BY ConstantsAssumption
  <2> QED
    BY <1>3, <1>6, <2>1, <2>2
<1> QED
  BY <1>1, <1>5, <1>6

LEMMA FlushTires ==
  ASSUME StackInv, Descent, FlushLeaf
  PROVE  ~ Running' \/ (Tires /\ LoopStands')
<1>1. /\ levels \in Seq(Seq(Ref)) /\ Len(levels) \in Nat
      /\ leafBuf \in Nat \ {0} /\ written \in Nat /\ leafBuf <= written /\ pc = "leaf"
      /\ call \in {"write", "finalize"} /\ todo \in Nat
      /\ call = "finalize" => scan = 0
  BY LenProperties, ConstantsAssumption DEF StackInv, TypeOK, Control, Descent, FlushLeaf
<1> DEFINE chunk == Leaf(written - leafBuf, leafBuf)
<1>2. chunk \in Chunk
  BY <1>1 DEF Chunk, Leaf
<1> HIDE DEF chunk
<1>3. CASE Emit(chunk, levels, 1)
  <2>1. 1 \in 1..(Len(levels) + 1) /\ \A i \in 1..Len(levels) : i < 1 => levels[i] = <<>>
    BY <1>1
  <2>2. /\ UNCHANGED <<call, todo>>
        /\ \/ /\ pc' = "collapse" /\ level' = 1 /\ 1 <= Len(levels) /\ Len(levels') = Len(levels)
              /\ Len(levels'[1]) # 1
           \/ /\ pc' = IF call = "write" THEN "fill" ELSE "scan"
              /\ call # "write" => scan' = scan + 1
              /\ Len(levels') \in Nat
    <3>1. /\ UNCHANGED <<call, todo>>
          /\ \/ /\ pc' = "collapse" /\ level' = 1 /\ scan' = scan
                /\ 1 <= Len(levels) /\ Len(levels') = Len(levels)
                /\ Len(levels'[1]) # 1
             \/ /\ pc' = IF call = "write" THEN "fill" ELSE "scan"
                /\ call # "write" => scan' = scan + 1
                /\ IF 1 <= Len(levels) THEN Len(levels') = Len(levels)
                   ELSE Len(levels') = Len(levels) + 1 /\ Bare'
      BY <1>1, <1>2, <1>3, <2>1, EmitRises
    <3> QED
      BY <1>1, <3>1
  <2>3. LoopStands'
    BY <1>1, <2>2 DEF LoopStands
  <2>4. CASE call = "finalize"
    <3>1. BytesLeft = 1 /\ BytesLeft' = 0
      BY <1>1, <2>2, <2>4 DEF BytesLeft
    <3> QED
      BY <2>3, <3>1 DEF Tires
  <2>5. CASE call = "write"
    <3>1. /\ BytesLeft = todo /\ BytesLeft' = todo /\ LevelsLeft = 0 /\ LevelsLeft' = 0
          /\ CascadeLeft = Len(levels) + 2
      BY <1>1, <2>2, <2>5 DEF BytesLeft, LevelsLeft, CascadeLeft
    <3>2. CascadeLeft' \in {0, Len(levels) + 1 - 1}
      BY <1>1, <2>2, <2>5 DEF CascadeLeft
    <3> QED
      BY <1>1, <2>3, <3>1, <3>2 DEF Tires
  <2> QED
    BY <1>1, <2>3, <2>4, <2>5
<1>4. CASE Reject
  BY <1>4 DEF Reject, Running
<1> QED
  BY <1>3, <1>4 DEF FlushLeaf, chunk

LEMMA CollapseTires ==
  ASSUME StackInv, Descent, LoopStands, CollapseLevel
  PROVE  ~ Running' \/ (Tires /\ LoopStands')
<1> DEFINE refs  == levels[level]
           chunk == Parent(level, refs)
           lv    == [levels EXCEPT ![level] = <<>>]
<1>1. /\ levels \in Seq(Seq(Ref)) /\ Len(levels) \in Nat /\ store \in Seq(Chunk)
      /\ level \in 1..Len(levels) /\ refs # <<>> /\ pc = "collapse" /\ scan \in Nat
      /\ call \in {"write", "finalize"} /\ todo \in Nat
      /\ call = "finalize" => scan <= level
      /\ \A i \in 1..Len(levels) : i < level => levels[i] = <<>>
  BY LenProperties DEF StackInv, TypeOK, Control, Descent, CollapseLevel
<1>2. refs \in Seq(Ref)
  BY <1>1, ElementOfSeq
<1>3. Len(refs) \in Nat \ {0} /\ \A k \in 1..Len(refs) : refs[k] \in Ref
  BY <1>1, <1>2, EmptySeq, ElementOfSeq
<1>4. chunk \in Chunk
  <2>1. TotalSpan(refs) \in Nat \ {0}
    BY <1>1, <1>2, TotalSpanType
  <2>2. store[refs[1].addr] \in Chunk
    <3>1. refs[1].addr \in 1..Len(store)
      BY <1>1, <1>3 DEF StackInv, ReferencesEmitted, EmittedIn
    <3> QED
      BY <1>1, <3>1, ElementOfSeq
  <2>3. Lo(store, refs[1].addr) \in Nat
    BY <2>2 DEF Lo, Chunk
  <2>4. Addrs(refs) \in Seq(Nat \ {0})
    BY <1>3 DEF Ref, Addrs
  <2>5. level \in Nat
    BY <1>1
  <2> HIDE DEF refs
  <2> QED
    BY <2>1, <2>3, <2>4, <2>5 DEF Chunk, Parent
<1>5. /\ lv \in Seq(Seq(Ref)) /\ Len(lv) = Len(levels)
      /\ \A i \in 1..Len(levels) : lv[i] = IF i = level THEN <<>> ELSE levels[i]
  <2>1. <<>> \in Seq(Ref)
    BY EmptySeq
  <2> HIDE DEF refs
  <2> QED
    BY <1>1, <2>1, ExceptSeq, SMTT(40)
<1>6. /\ level + 1 \in 1..(Len(lv) + 1)
      /\ \A i \in 1..Len(lv) : i < level + 1 => lv[i] = <<>>
  BY <1>1, <1>5
<1>7. ~ Bare
  <2>1. ASSUME level < Len(levels) PROVE level \in 1..(Len(levels) - 1)
    BY <1>1, <2>1
  <2>2. level < Len(levels) \/ (level = Len(levels) /\ Len(levels[level]) # 1)
    BY <1>1 DEF LoopStands
  <2> QED
    BY <1>1, <2>1, <2>2 DEF Bare
<1>8. CASE Emit(chunk, lv, level + 1)
  <2> HIDE DEF chunk, lv, refs
  <2>1. /\ UNCHANGED <<call, todo>>
        /\ \/ /\ pc' = "collapse" /\ level' = level + 1 /\ scan' = scan
              /\ level + 1 <= Len(levels) /\ Len(levels') = Len(levels)
              /\ Len(levels'[level + 1]) # 1
           \/ /\ pc' = IF call = "write" THEN "fill" ELSE "scan"
              /\ call # "write" => scan' = scan + 1
              /\ IF level + 1 <= Len(levels) THEN Len(levels') = Len(levels)
                 ELSE Len(levels') = Len(levels) + 1 /\ Bare'
    <3>1. /\ UNCHANGED <<call, todo>>
          /\ \/ /\ pc' = "collapse" /\ level' = level + 1 /\ scan' = scan
                /\ level + 1 <= Len(lv) /\ Len(levels') = Len(lv)
                /\ Len(levels'[level + 1]) # 1
             \/ /\ pc' = IF call = "write" THEN "fill" ELSE "scan"
                /\ call # "write" => scan' = scan + 1
                /\ IF level + 1 <= Len(lv) THEN Len(levels') = Len(lv)
                   ELSE Len(levels') = Len(lv) + 1 /\ Bare'
      BY <1>4, <1>5, <1>6, <1>8, EmitRises
    <3> QED
      BY <1>5, <3>1
  <2>2. LoopStands'
    BY <1>1, <2>1 DEF LoopStands
  <2>3. BytesLeft' = BytesLeft
    BY <1>1, <2>1 DEF BytesLeft
  <2>4. CascadeLeft = Len(levels) + 1 - level
    BY <1>1 DEF CascadeLeft
  <2>5. CASE call = "write"
    <3>1. LevelsLeft = 0 /\ LevelsLeft' = 0
      BY <2>1, <2>5 DEF LevelsLeft
    <3>2. CascadeLeft' < CascadeLeft
      <4>1. CascadeLeft' = 0 \/ CascadeLeft' = Len(levels) + 1 - (level + 1)
        BY <2>1, <2>5 DEF CascadeLeft
      <4> QED
        BY <1>1, <2>4, <4>1
    <3> QED
      BY <2>2, <2>3, <3>1, <3>2 DEF Tires
  <2>6. CASE call = "finalize"
    <3>1. LevelsLeft = Len(levels) + 1 - scan + 1
      BY <1>1, <1>7, <2>6 DEF LevelsLeft
    <3>2. LevelsLeft' = Len(levels') + 1 - scan' + (IF Bare' THEN 0 ELSE 1)
      BY <1>1, <2>1, <2>6 DEF LevelsLeft
    <3>3. CASE pc' = "collapse"
      <4>1. /\ scan' = scan /\ Len(levels') = Len(levels) /\ level' = level + 1
        BY <2>1, <2>6, <3>3
      <4>2. CascadeLeft' = Len(levels) + 1 - (level + 1)
        BY <3>3, <4>1 DEF CascadeLeft
      <4>3. CascadeLeft' < CascadeLeft
        BY <1>1, <2>4, <4>2
      <4>4. LevelsLeft' < LevelsLeft \/ LevelsLeft' = LevelsLeft
        BY <1>1, <3>1, <3>2, <4>1
      <4> QED
        BY <2>2, <2>3, <4>3, <4>4 DEF Tires
    <3>4. CASE pc' # "collapse"
      <4>1. /\ scan' = scan + 1
            /\ \/ Len(levels') = Len(levels)
               \/ Len(levels') = Len(levels) + 1 /\ Bare'
        BY <2>1, <2>6, <3>4
      <4>2. LevelsLeft' < LevelsLeft
        BY <1>1, <3>1, <3>2, <4>1
      <4> QED
        BY <2>2, <2>3, <4>2 DEF Tires
    <3> QED
      BY <3>3, <3>4
  <2> QED
    BY <1>1, <2>5, <2>6
<1>9. CASE Reject
  BY <1>9 DEF Reject, Running
<1> QED
  BY <1>8, <1>9 DEF CollapseLevel

LEMMA ScanTires ==
  ASSUME StackInv, Descent, LoopStands, Scan
  PROVE  Tires /\ LoopStands'
<1>1. /\ Len(levels) \in Nat /\ scan \in Nat \ {0} /\ pc = "scan" /\ call = "finalize"
      /\ UNCHANGED <<levels, call, todo>>
  BY LenProperties DEF StackInv, TypeOK, Control, Descent, Scan, chunker
<1>2. scan < Len(levels) \/ (scan = Len(levels) /\ Len(levels[scan]) # 1)
  BY <1>1 DEF Scan, ScanEnds
<1>3. /\ BytesLeft = 0 /\ LevelsLeft = Len(levels) + 1 - scan + (IF Bare THEN 0 ELSE 1)
      /\ CascadeLeft = Len(levels) + 1
  BY <1>1 DEF BytesLeft, LevelsLeft, CascadeLeft
<1>4. Bare' <=> Bare
  BY <1>1 DEF Bare
<1>5. CASE NextLevel /\ UNCHANGED <<pc, level>>
  <2>1. LoopStands'
    BY <1>1, <1>2, <1>5 DEF LoopStands
  <2>2. BytesLeft' = 0 /\ LevelsLeft' = Len(levels) + 1 - (scan + 1) + (IF Bare THEN 0 ELSE 1)
    BY <1>1, <1>4, <1>5 DEF BytesLeft, LevelsLeft
  <2>3. LevelsLeft' < LevelsLeft
    BY <1>1, <1>3, <2>2
  <2> QED
    BY <1>3, <2>1, <2>2, <2>3 DEF Tires
<1>6. CASE pc' = "collapse" /\ level' = scan /\ UNCHANGED scan
  <2>1. LoopStands'
    BY <1>1, <1>2, <1>6 DEF LoopStands
  <2>2. /\ BytesLeft' = 0 /\ LevelsLeft' = Len(levels) + 1 - scan + (IF Bare THEN 0 ELSE 1)
        /\ CascadeLeft' = Len(levels) + 1 - scan
    BY <1>1, <1>4, <1>6 DEF BytesLeft, LevelsLeft, CascadeLeft
  <2>3. CascadeLeft' < CascadeLeft
    BY <1>1, <1>3, <2>2
  <2> QED
    BY <1>3, <2>1, <2>2, <2>3 DEF Tires
<1> QED
  BY <1>5, <1>6 DEF Scan

LEMMA FillTires ==
  ASSUME StackInv, Descent, Fill
  PROVE  Tires /\ LoopStands'
<1>1. /\ leafBuf \in Nat /\ leafBuf < ChunkSize /\ todo \in Nat /\ todo > 0 /\ ChunkSize \in Nat
      /\ call = "write" /\ call' = call
      /\ todo' = todo - (IF todo <= Room THEN todo ELSE Room)
      /\ pc' \in {"leaf", "fill"}
  BY ConstantsAssumption DEF StackInv, TypeOK, Control, Descent, Fill
<1>2. todo' < todo
  BY <1>1
<1>3. BytesLeft = todo /\ BytesLeft' = todo'
  BY <1>1 DEF BytesLeft
<1>4. LoopStands'
  BY <1>1 DEF LoopStands
<1> QED
  BY <1>2, <1>3, <1>4 DEF Tires

LEMMA CallStep ==
  ASSUME StackInv, Descent, LoopStands, [Next]_vars
  PROVE  LoopStands' /\ (Running => ~ Running' \/ Tires \/ UNCHANGED vars)
<1>1. CASE Internal
  <2>1. pc' \in {"ready", "panicked"} => LoopStands'
    BY DEF LoopStands
  <2>2. CASE WriteReturns \/ FinalizeReturns
    <3>1. pc' \in {"ready", "panicked"}
      BY <2>2 DEF WriteReturns, FinalizeReturns
    <3> QED
      BY <2>1, <3>1 DEF Running
  <2>3. ~ Running' => LoopStands'
    BY <2>1 DEF Running
  <2> QED
    BY <1>1, <2>2, <2>3, FillTires, FlushTires, CollapseTires, ScanTires DEF Internal
<1>2. CASE (\E n \in 1..MaxBytes : Write(n)) \/ FinalizeEmpty \/ Finalize
  <2>1. pc = "ready"
    BY <1>2 DEF Write, FinalizeEmpty, Finalize
  <2>2. ~ Running
    BY <2>1 DEF Running
  <2>3. /\ pc' \in {"ready", "fill", "leaf", "scan"}
        /\ pc' = "scan" => scan' = 1 /\ levels' = levels
    BY <1>2, <2>1 DEF Write, FinalizeEmpty, Finalize, chunker, control
  <2>4. Len(levels) \in Nat
    BY LenProperties DEF StackInv, TypeOK
  <2> QED
    BY <2>2, <2>3, <2>4 DEF LoopStands
<1>3. CASE UNCHANGED vars
  BY <1>3 DEF LoopStands, vars, chunker, control
<1> QED
  BY <1>1, <1>2, <1>3 DEF Next

LEMMA LeftIsNatural ==
  ASSUME StackInv, Descent, LoopStands, Running
  PROVE  BytesLeft \in Nat /\ LevelsLeft \in Nat /\ CascadeLeft \in Nat
<1>1. /\ Len(levels) \in Nat /\ scan \in Nat /\ level \in Nat /\ todo \in Nat
      /\ pc \in {"fill", "leaf", "collapse", "scan"} /\ call \in {"write", "finalize"}
      /\ pc = "fill" => call = "write"
      /\ pc = "collapse" => level <= Len(levels) /\ (call = "finalize" => scan <= level)
      /\ pc = "scan" => scan <= Len(levels) + 1
  <2>1. /\ Len(levels) \in Nat /\ scan \in Nat /\ level \in Nat /\ todo \in Nat
        /\ pc \in {"fill", "leaf", "collapse", "scan"}
    BY LenProperties DEF StackInv, TypeOK, Running
  <2>2. call \in {"write", "finalize"}
    BY <2>1 DEF StackInv, TypeOK, Descent
  <2>3. /\ pc = "fill" => call = "write"
        /\ pc = "collapse" => level <= Len(levels) /\ (call = "finalize" => scan <= level)
    BY <2>1 DEF StackInv, Control, Descent
  <2> QED
    BY <2>1, <2>2, <2>3 DEF LoopStands
<1>2. LevelsLeft \in Nat
  <2>1. CASE call = "write" \/ pc = "leaf"
    BY <2>1 DEF LevelsLeft
  <2>2. CASE ~ (call = "write" \/ pc = "leaf")
    <3>1. scan <= Len(levels) + 1
      BY <1>1, <2>2
    <3>2. LevelsLeft = Len(levels) + 1 - scan + (IF Bare THEN 0 ELSE 1)
      BY <2>2 DEF LevelsLeft
    <3> QED
      BY <1>1, <3>1, <3>2
  <2> QED
    BY <2>1, <2>2
<1> QED
  BY <1>1, <1>2 DEF BytesLeft, CascadeLeft

(***************************************************************************)
(* A call that runs comes nearer to its return with every step, wherever   *)
(* OnChunk fails and whatever state an earlier failure left behind: what   *)
(* is left, three naturals, falls in lexicographic order, so the loop of   *)
(* Write, the cascade and the loop of Finalize over the stack it extends   *)
(* all come to an end.                                                     *)
(***************************************************************************)
THEOREM CallsTire ==
  Spec => /\ [](Running => BytesLeft \in Nat /\ LevelsLeft \in Nat /\ CascadeLeft \in Nat)
          /\ [][Running => ~ Running' \/ Tires]_vars
<1>1. Init => LoopStands
  BY DEF Init, LoopStands
<1>2. FileInv /\ LoopStands /\ [Next]_vars => LoopStands'
  BY CallStep DEF FileInv
<1>3. FileInv /\ LoopStands =>
        (Running => BytesLeft \in Nat /\ LevelsLeft \in Nat /\ CascadeLeft \in Nat)
  BY LeftIsNatural DEF FileInv
<1>4. FileInv /\ LoopStands /\ [Next]_vars => [Running => ~ Running' \/ Tires]_vars
  BY CallStep DEF FileInv
<1> QED
  BY <1>1, <1>2, <1>3, <1>4, FileInvInit, FileInvStep, PTL DEF Spec

=============================================================================
