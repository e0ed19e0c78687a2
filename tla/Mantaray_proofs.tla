---------------------------- MODULE Mantaray_proofs ----------------------------
(***************************************************************************)
(* Proofs about the manifest trie, and about the uploads of directories    *)
(* that build one: for any bytes, paths, length of a prefix, contents of   *)
(* files, number of calls and failures.                                    *)
(*                                                                         *)
(* A trie stands if every node hangs, by the first byte of its path, below *)
(* its parent, and heights can be given to the nodes that grow from child  *)
(* to parent.  Attach and SplitForks take it apart and put it together:    *)
(* in between some nodes hang nowhere and one fork leads to anything.      *)
(* What is found at a path is the reference of the node whose own path,    *)
(* from the root, it is; there is one at most.  Adding keeps the path and  *)
(* the reference of every node there was, and the new ones lie on the way  *)
(* to the path that is added.                                              *)
(*                                                                         *)
(* What is uploaded under an address is the node as it is, as long as      *)
(* nothing changes below an address: so a reader that goes from chunk to   *)
(* chunk takes the same steps as one that goes from node to node.          *)
(***************************************************************************)
EXTENDS DirectoryUpload, SequenceTheorems, FiniteSetTheorems, WellFoundedInduction, TLAPS

-----------------------------------------------------------------------------
(* Paths.                                                                  *)

(* A least counterexample, in place of an induction.                       *)
LEMMA LeastNatural ==
  ASSUME NEW S \in SUBSET Nat, S # {}
  PROVE  \E n \in S : \A m \in S : n <= m
<1>1. PICK n \in S : \A m \in S : ~ (<<m, n>> \in OpToRel(<, Nat))
  BY WFMin, NatLessThanWellFounded
<1>2. \A m \in S : ~ (m < n)
  BY <1>1 DEF OpToRel
<1> QED
  BY <1>2

LEMMA RestProperties ==
  ASSUME NEW path \in Seq(Bytes), NEW n \in 0..Len(path)
  PROVE  /\ Rest(path, n) \in Seq(Bytes)
         /\ Len(Rest(path, n)) = Len(path) - n
         /\ \A i \in 1..(Len(path) - n) : Rest(path, n)[i] = path[n + i]
<1>1. Len(path) \in Nat /\ \A i \in 1..Len(path) : path[i] \in Bytes
  BY LenProperties, ElementOfSeq
<1> DEFINE m == n + 1
           l == Len(path)
<1>2. m \in Int /\ l \in Int /\ \A i \in m..l : path[i] \in Bytes
  BY <1>1
<1>3. /\ SubSeq(path, m, l) \in Seq(Bytes)
      /\ Len(SubSeq(path, m, l)) = IF m <= l THEN l - m + 1 ELSE 0
      /\ \A i \in 1..(l - m + 1) : SubSeq(path, m, l)[i] = path[m + i - 1]
  BY <1>2, SubSeqProperties
<1>4. Rest(path, n) = SubSeq(path, m, l)
  BY DEF Rest
<1>5. l - m + 1 = l - n /\ \A i \in Nat : m + i - 1 = n + i
  BY <1>1
<1> HIDE DEF m
<1>6. (IF m <= l THEN l - m + 1 ELSE 0) = l - n
  BY <1>1 DEF m
<1>7. ASSUME NEW i \in 1..(Len(path) - n) PROVE Rest(path, n)[i] = path[n + i]
  BY <1>1, <1>3, <1>4, <1>5
<1> QED
  BY <1>3, <1>4, <1>6, <1>7

LEMMA PrefixIs ==
  ASSUME NEW s \in Seq(Bytes), NEW p \in Seq(Bytes)
  PROVE  IsPrefix(s, p) <=> Len(s) <= Len(p) /\ \A i \in 1..Len(s) : s[i] = p[i]
<1>1. /\ Len(s) \in Nat /\ \A i \in 1..Len(s) : s[i] \in Bytes
      /\ Len(p) \in Nat /\ \A i \in 1..Len(p) : p[i] \in Bytes
  BY LenProperties, ElementOfSeq
<1>2. SubSeq(s, 1, Len(s)) = s
  BY SubSeqFull
<1>3. ASSUME Len(s) <= Len(p)
      PROVE  /\ SubSeq(p, 1, Len(s)) \in Seq(Bytes)
             /\ Len(SubSeq(p, 1, Len(s))) = Len(s)
             /\ \A i \in 1..Len(s) : SubSeq(p, 1, Len(s))[i] = p[i]
  <2> DEFINE l == Len(s)
  <2>1. 1 \in Int /\ l \in Int /\ \A i \in 1..l : p[i] \in Bytes
    BY <1>1, <1>3
  <2>2. /\ SubSeq(p, 1, l) \in Seq(Bytes)
        /\ Len(SubSeq(p, 1, l)) = IF 1 <= l THEN l - 1 + 1 ELSE 0
        /\ \A i \in 1..(l - 1 + 1) : SubSeq(p, 1, l)[i] = p[1 + i - 1]
    BY <2>1, SubSeqProperties
  <2> QED
    BY <1>1, <2>2
<1>4. ASSUME Len(s) <= Len(p), \A i \in 1..Len(s) : s[i] = p[i]
      PROVE  s = SubSeq(p, 1, Len(s))
  BY <1>3, <1>4, SeqEqual
<1> QED
  BY <1>1, <1>2, <1>3, <1>4 DEF IsPrefix

LEMMA SamePath ==
  ASSUME NEW s \in Seq(Bytes), NEW p \in Seq(Bytes), IsPrefix(s, p), Len(s) = Len(p)
  PROVE  s = p
<1>1. \A i \in 1..Len(s) : s[i] = p[i]
  BY PrefixIs
<1> QED
  BY <1>1, SeqEqual

LEMMA FirstPart ==
  ASSUME NEW s \in Seq(Bytes), NEW n \in 0..Len(s)
  PROVE  /\ SubSeq(s, 1, n) \in Seq(Bytes)
         /\ Len(SubSeq(s, 1, n)) = n
         /\ \A i \in 1..n : SubSeq(s, 1, n)[i] = s[i]
<1>1. n \in Nat /\ 1 \in Int /\ n \in Int /\ \A i \in 1..n : s[i] \in Bytes
  BY LenProperties, ElementOfSeq
<1>2. /\ SubSeq(s, 1, n) \in Seq(Bytes)
      /\ Len(SubSeq(s, 1, n)) = IF 1 <= n THEN n - 1 + 1 ELSE 0
      /\ \A i \in 1..(n - 1 + 1) : SubSeq(s, 1, n)[i] = s[1 + i - 1]
  BY <1>1, SubSeqProperties
<1> QED
  BY <1>1, <1>2

(* The common prefix of two paths, and where they part.                    *)
LEMMA CommonPrefix ==
  ASSUME NEW s \in Seq(Bytes), NEW p \in Seq(Bytes)
  PROVE  LET c == LongestCommonPrefix({s, p}) IN
         /\ c \in Seq(Bytes) /\ IsPrefix(c, s) /\ IsPrefix(c, p)
         /\ (Len(c) < Len(s) /\ Len(c) < Len(p)) => s[Len(c) + 1] # p[Len(c) + 1]
<1> DEFINE C == CommonPrefixes({s, p})
           Longest(c) == \A o \in C : Len(o) <= Len(c)
<1>0. Len(s) \in Nat /\ Len(p) \in Nat
  BY LenProperties
<1>1. ASSUME NEW c \in C PROVE c \in Seq(Bytes) /\ IsPrefix(c, s) /\ IsPrefix(c, p)
  <2>1. IsPrefix(c, s) /\ IsPrefix(c, p)
    BY DEF CommonPrefixes
  <2>2. PICK q \in {s, p} : \E l \in 0..Len(q) : c = SubSeq(q, 1, l)
    BY DEF CommonPrefixes, Prefixes
  <2>3. PICK l \in 0..Len(q) : c = SubSeq(q, 1, l)
    BY <2>2
  <2>4. c \in Seq(Bytes)
    BY <2>2, <2>3, FirstPart
  <2> QED
    BY <2>1, <2>4
<1>2. ASSUME NEW n \in 0..Len(s), n <= Len(p), \A i \in 1..n : s[i] = p[i]
      PROVE  SubSeq(s, 1, n) \in C
  <2> DEFINE d == SubSeq(s, 1, n)
  <2>1. d \in Seq(Bytes) /\ Len(d) = n /\ \A i \in 1..n : d[i] = s[i]
    BY FirstPart
  <2>2. d \in Prefixes(s)
    BY DEF Prefixes
  <2> HIDE DEF d
  <2>3. IsPrefix(d, s) /\ IsPrefix(d, p)
    BY <1>2, <2>1, PrefixIs
  <2>4. d \in C
    BY <2>2, <2>3 DEF CommonPrefixes
  <2> QED
    BY <2>4 DEF d
<1>3. \E c \in C : Longest(c)
  <2> DEFINE Gaps == {Len(s) - Len(c) : c \in C}
  <2>1. ASSUME NEW c \in C PROVE Len(c) \in Nat /\ Len(c) <= Len(s)
    BY <1>1, PrefixIs, LenProperties
  <2>2. C # {}
    <3>1. PICK n \in 0..Len(s) : n = 0
      BY <1>0
    <3>2. n <= Len(p) /\ \A i \in 1..n : s[i] = p[i]
      BY <1>0, <3>1
    <3> HIDE DEF C
    <3> QED
      BY <1>2, <3>2
  <2>3. Gaps \in SUBSET Nat /\ Gaps # {}
    <3> HIDE DEF C
    <3> QED
      BY <1>0, <2>1, <2>2
  <2>4. PICK g \in Gaps : \A h \in Gaps : g <= h
    BY <2>3, LeastNatural
  <2>5. PICK c \in C : g = Len(s) - Len(c)
    OBVIOUS
  <2>6. ASSUME NEW o \in C PROVE Len(o) <= Len(c)
    <3>1. Len(s) - Len(c) <= Len(s) - Len(o)
      BY <2>4, <2>5
    <3> HIDE DEF C
    <3> QED
      BY <1>0, <2>1, <3>1
  <2> QED
    BY <2>6
<1>4. PICK c \in C : c = LongestCommonPrefix({s, p}) /\ Longest(c)
  <2> HIDE DEF C
  <2>1. LongestCommonPrefix({s, p}) = CHOOSE c \in C : Longest(c)
    BY DEF LongestCommonPrefix, C
  <2> QED
    BY <1>3, <2>1
<1>5. c \in Seq(Bytes) /\ IsPrefix(c, s) /\ IsPrefix(c, p) /\ Len(c) \in Nat
  BY <1>1, LenProperties
<1>6. ASSUME Len(c) < Len(s), Len(c) < Len(p), s[Len(c) + 1] = p[Len(c) + 1]
      PROVE  FALSE
  <2> DEFINE n == Len(c) + 1
  <2>1. \A i \in 1..Len(c) : c[i] = s[i] /\ c[i] = p[i]
    BY <1>5, PrefixIs
  <2>2. n \in 0..Len(s) /\ n <= Len(p)
    BY <1>0, <1>5, <1>6
  <2>3. ASSUME NEW i \in 1..n PROVE s[i] = p[i]
    <3>1. CASE i = n
      BY <1>6, <3>1
    <3>2. CASE i # n
      BY <1>5, <2>1, <3>2
    <3> QED
      BY <3>1, <3>2
  <2> HIDE DEF n
  <2>4. SubSeq(s, 1, n) \in C /\ Len(SubSeq(s, 1, n)) = n
    BY <1>2, <2>2, <2>3, FirstPart
  <2>5. n <= Len(c)
    BY <1>4, <2>4
  <2> QED
    BY <1>5, <2>5 DEF n
<1> QED
  BY <1>4, <1>5, <1>6

(* A number for a new node.                                                *)
LEMMA FreshNumber ==
  ASSUME NEW t, IsFiniteSet(DOMAIN t)
  PROVE  Fresh(t) \in Nat \ {0} /\ Fresh(t) \notin DOMAIN t
<1> DEFINE k == Cardinality(DOMAIN t)
           I == 1..(k + 1)
<1>1. k \in Nat
  BY FS_CardinalityType
<1>2. IsFiniteSet(I) /\ Cardinality(I) = k + 1
  BY <1>1, FS_Interval
<1>3. ~ (I \subseteq DOMAIN t)
  <2>1. SUFFICES ASSUME I \subseteq DOMAIN t PROVE FALSE
    OBVIOUS
  <2>2. Cardinality(I) <= k
    BY <2>1, FS_Subset
  <2> QED
    BY <1>1, <1>2, <2>2
<1>4. \E i \in I : i \notin DOMAIN t
  BY <1>3
<1>5. Fresh(t) \in I /\ Fresh(t) \notin DOMAIN t
  BY <1>4 DEF Fresh
<1> QED
  BY <1>1, <1>5

-----------------------------------------------------------------------------
(* Tries.                                                                  *)

Forks == UNION {[S -> Nat \ {0}] : S \in SUBSET Bytes}

(* Nodes with entries in E, whose cached addresses are in X.               *)
Node(E, X) == [path : Seq(Bytes), entry : E, forks : Forks, self : SUBSET X, parent : Nat]

Trie(t, E, X) ==
  /\ DOMAIN t \in SUBSET (Nat \ {0})
  /\ IsFiniteSet(DOMAIN t)
  /\ 1 \in DOMAIN t
  /\ t \in [DOMAIN t -> Node(E, X)]

ShortPath == {path \in Seq(Bytes) : Len(path) \in 1..MaxPrefixLength}

(* Fork x of q is not fork b of p.                                         *)
Other(q, x, p, b) == q # p \/ x # b

(* Node c hangs below its parent, by another fork than b of p.             *)
Hanging(t, c, p, b) ==
  LET q == t[c].parent
      x == t[c].path[1]
  IN  /\ t[c].path \in ShortPath
      /\ q \in DOMAIN t /\ x \in DOMAIN t[q].forks /\ t[q].forks[x] = c
      /\ Other(q, x, p, b)

(* Fork x of n leads to a node below n, one that is not in L.              *)
Leading(t, n, x, L) ==
  LET c == t[n].forks[x]
  IN  c \in DOMAIN t \ ({1} \cup L) /\ t[c].path[1] = x /\ t[c].parent = n

(* A trie in which the nodes of L hang nowhere, and fork b of p anything.  *)
(* The heights h grow from the leaves to the root.                         *)
Open(t, L, p, b, h) ==
  /\ t[1].path = <<>> /\ t[1].parent = 0
  /\ \A c \in DOMAIN t \ ({1} \cup L) : Hanging(t, c, p, b) /\ h[c] < h[t[c].parent]
  /\ \A n \in DOMAIN t : \A x \in DOMAIN t[n].forks : Other(n, x, p, b) => Leading(t, n, x, L)

Sound(t, h) == Open(t, {}, 0, 0, h)

LEMMA ForksAre ==
  ASSUME NEW f \in Forks
  PROVE  /\ DOMAIN f \in SUBSET Bytes
         /\ \A x \in DOMAIN f : f[x] \in Nat \ {0}
         /\ f \in [DOMAIN f -> Nat \ {0}]
<1>1. PICK S \in SUBSET Bytes : f \in [S -> Nat \ {0}]
  BY DEF Forks
<1> QED
  BY <1>1

LEMMA AreForks ==
  ASSUME NEW f, DOMAIN f \in SUBSET Bytes, f \in [DOMAIN f -> Nat \ {0}]
  PROVE  f \in Forks
BY DEF Forks

LEMMA NoForks == <<>> \in Forks /\ DOMAIN <<>> = {}
<1>1. DOMAIN <<>> = {}
  OBVIOUS
<1>2. <<>> \in [{} -> Nat \ {0}]
  OBVIOUS
<1> QED
  BY <1>1, <1>2 DEF Forks

LEMMA PutForks ==
  ASSUME NEW f \in Forks, NEW x \in Bytes, NEW c \in Nat \ {0}
  PROVE  Put(f, x, c) \in Forks
<1> DEFINE g == Put(f, x, c)
<1>1. DOMAIN f \in SUBSET Bytes /\ \A y \in DOMAIN f : f[y] \in Nat \ {0}
  BY ForksAre
<1>2. g = [y \in DOMAIN f \cup {x} |-> IF y = x THEN c ELSE f[y]]
  BY DEF Put
<1> HIDE DEF g
<1>3. DOMAIN g = DOMAIN f \cup {x} /\ \A y \in DOMAIN f \cup {x} : g[y] = IF y = x THEN c ELSE f[y]
  BY <1>2
<1>4. g \in [DOMAIN g -> Nat \ {0}]
  BY <1>1, <1>2, <1>3
<1>5. DOMAIN g \in SUBSET Bytes
  BY <1>1, <1>3
<1>6. g \in Forks
  BY <1>4, <1>5, AreForks
<1> QED
  BY <1>3, <1>6 DEF g

LEMMA DropAt ==
  ASSUME NEW f, NEW ks
  PROVE  /\ DOMAIN Drop(f, ks) = DOMAIN f \ ks
         /\ \A y \in DOMAIN f \ ks : Drop(f, ks)[y] = f[y]
BY DEF Drop

LEMMA DropForks ==
  ASSUME NEW f \in Forks, NEW ks
  PROVE  Drop(f, ks) \in Forks
<1> DEFINE g == Drop(f, ks)
<1>1. DOMAIN f \in SUBSET Bytes /\ \A y \in DOMAIN f : f[y] \in Nat \ {0}
  BY ForksAre
<1>2. g = [y \in DOMAIN f \ ks |-> f[y]]
  BY DEF Drop
<1> HIDE DEF g
<1>3. DOMAIN g = DOMAIN f \ ks /\ \A y \in DOMAIN f \ ks : g[y] = f[y]
  BY <1>2
<1>4. g \in [DOMAIN g -> Nat \ {0}] /\ DOMAIN g \in SUBSET Bytes
  BY <1>1, <1>2, <1>3
<1>5. g \in Forks
  BY <1>4, AreForks
<1> QED
  BY <1>3, <1>5 DEF g

LEMMA FirstByte ==
  ASSUME NEW path \in Seq(Bytes), path # <<>>
  PROVE  path[1] \in Bytes
<1>1. 1 \in 1..Len(path)
  BY EmptySeq
<1> QED
  BY <1>1, ElementOfSeq

LEMMA TrieNode ==
  ASSUME NEW t, NEW E, NEW X, Trie(t, E, X), NEW n \in DOMAIN t
  PROVE  /\ n \in Nat \ {0} /\ t[n] \in Node(E, X)
         /\ t[n].path \in Seq(Bytes) /\ t[n].entry \in E /\ t[n].forks \in Forks
         /\ t[n].self \in SUBSET X /\ t[n].parent \in Nat
BY DEF Trie, Node

(* What Hang changes.                                                      *)
HangFacts(t, q, c, path) ==
  LET u == Hang(t, q, c, path) IN
  /\ DOMAIN u = DOMAIN t
  /\ u[c].path = path /\ u[c].parent = q /\ u[c].forks = t[c].forks
  /\ u[q].forks = Put(t[q].forks, path[1], c)
  /\ u[q].path = t[q].path /\ u[q].parent = t[q].parent
  /\ \A n \in DOMAIN t : u[n].self = t[n].self /\ u[n].entry = t[n].entry
  /\ \A n \in DOMAIN t \ {c, q} : u[n] = t[n]

LEMMA HangChanges ==
  ASSUME NEW t, NEW E, NEW X, Trie(t, E, X), NEW q \in DOMAIN t, NEW c \in DOMAIN t, q # c,
         NEW path \in Seq(Bytes), path # <<>>
  PROVE  Trie(Hang(t, q, c, path), E, X) /\ HangFacts(t, q, c, path)
<1> DEFINE f == Put(t[q].forks, path[1], c)
           u == Hang(t, q, c, path)
           C == [t[c] EXCEPT !.path = path, !.parent = q]
           Q == [t[q] EXCEPT !.forks = f]
<1>1. /\ t[c] \in Node(E, X) /\ t[q] \in Node(E, X) /\ c \in Nat \ {0} /\ q \in Nat \ {0}
      /\ t[q].forks \in Forks
  BY TrieNode
<1>2. f \in Forks
  BY <1>1, FirstByte, PutForks
<1>3. u = [n \in DOMAIN t |-> IF n = c THEN C ELSE IF n = q THEN Q ELSE t[n]]
  BY <1>1 DEF Hang, Trie
<1> HIDE DEF f
<1>4. /\ C \in Node(E, X) /\ C.path = path /\ C.parent = q /\ C.forks = t[c].forks
      /\ C.self = t[c].self /\ C.entry = t[c].entry
  BY <1>1 DEF Node
<1>5. /\ Q \in Node(E, X) /\ Q.forks = f /\ Q.path = t[q].path /\ Q.parent = t[q].parent
      /\ Q.self = t[q].self /\ Q.entry = t[q].entry
  BY <1>1, <1>2 DEF Node
<1> HIDE DEF C, Q, u
<1>6. DOMAIN u = DOMAIN t /\ u[c] = C /\ u[q] = Q /\ \A n \in DOMAIN t \ {c, q} : u[n] = t[n]
  BY <1>3
<1>7. \A n \in DOMAIN t : u[n] \in Node(E, X)
  BY <1>4, <1>5, <1>6, TrieNode
<1>8. u \in [DOMAIN t -> Node(E, X)]
  BY <1>3, <1>7
<1>9. Trie(u, E, X)
  BY <1>6, <1>8 DEF Trie
<1>10. \A n \in DOMAIN t : u[n].self = t[n].self /\ u[n].entry = t[n].entry
  BY <1>4, <1>5, <1>6
<1> QED
  BY <1>4, <1>5, <1>6, <1>9, <1>10 DEF u, f, HangFacts

NewNodeFacts(t, i, path, entry, parent) ==
  LET u == Put(t, i, NewNode(path, entry, parent)) IN
  /\ DOMAIN u = DOMAIN t \cup {i}
  /\ u[i].path = path /\ u[i].parent = parent /\ u[i].forks = <<>>
  /\ \A n \in DOMAIN t : u[n] = t[n]

LEMMA NewNodeTrie ==
  ASSUME NEW t, NEW E, NEW X, Trie(t, E, X), NEW i \in Nat \ {0}, i \notin DOMAIN t,
         NEW path \in Seq(Bytes), NEW entry \in E, NEW parent \in Nat
  PROVE  /\ Trie(Put(t, i, NewNode(path, entry, parent)), E, X)
         /\ NewNodeFacts(t, i, path, entry, parent)
<1> DEFINE N == NewNode(path, entry, parent)
           u == Put(t, i, N)
<1>1. N \in Node(E, X) /\ N.path = path /\ N.parent = parent /\ N.forks = <<>>
  BY NoForks DEF NewNode, Node
<1>2. u = [n \in DOMAIN t \cup {i} |-> IF n = i THEN N ELSE t[n]]
  BY DEF Put
<1> HIDE DEF N, u
<1>3. DOMAIN u = DOMAIN t \cup {i} /\ u[i] = N /\ \A n \in DOMAIN t : u[n] = t[n]
  BY <1>2
<1>4. \A n \in DOMAIN u : u[n] \in Node(E, X)
  BY <1>1, <1>3, TrieNode
<1>5. u \in [DOMAIN u -> Node(E, X)]
  BY <1>2, <1>3, <1>4
<1>6. IsFiniteSet(DOMAIN u)
  BY <1>3, FS_AddElement DEF Trie
<1>7. Trie(u, E, X)
  BY <1>3, <1>5, <1>6 DEF Trie
<1> QED
  BY <1>1, <1>3, <1>7 DEF u, N, NewNodeFacts

LEMMA InvalidateChanges ==
  ASSUME NEW t, NEW E, NEW X, Trie(t, E, X), NEW m
  PROVE  LET u == Invalidate(t, m) IN
         /\ Trie(u, E, X) /\ DOMAIN u = DOMAIN t
         /\ \A n \in DOMAIN t : u[n].path = t[n].path /\ u[n].forks = t[n].forks /\ u[n].parent = t[n].parent
<1> DEFINE u == Invalidate(t, m)
           M == [t[m] EXCEPT !.self = {}]
<1>1. u = [n \in DOMAIN t |-> IF n = m THEN M ELSE t[n]]
  BY DEF Invalidate, Trie
<1>2. ASSUME m \in DOMAIN t
      PROVE  M \in Node(E, X) /\ M.path = t[m].path /\ M.forks = t[m].forks /\ M.parent = t[m].parent
  <2>1. t[m] \in Node(E, X)
    BY <1>2, TrieNode
  <2> QED
    BY <2>1 DEF Node
<1> HIDE DEF M, u
<1>3. DOMAIN u = DOMAIN t /\ \A n \in DOMAIN t : u[n] = IF n = m THEN M ELSE t[n]
  BY <1>1
<1>4. \A n \in DOMAIN t : u[n] \in Node(E, X)
  BY <1>2, <1>3, TrieNode
<1>5. u \in [DOMAIN t -> Node(E, X)]
  BY <1>1, <1>4
<1>6. Trie(u, E, X)
  BY <1>3, <1>5 DEF Trie
<1> QED
  BY <1>2, <1>3, <1>6 DEF u

(* Soundness is a matter of paths, forks and parents.                      *)
LEMMA OpenSame ==
  ASSUME NEW t, NEW u, DOMAIN u = DOMAIN t, 1 \in DOMAIN t,
         \A n \in DOMAIN t : u[n].path = t[n].path /\ u[n].forks = t[n].forks /\ u[n].parent = t[n].parent,
         NEW L, NEW p, NEW b, NEW h, Open(t, L, p, b, h)
  PROVE  Open(u, L, p, b, h)
<1>1. u[1].path = <<>> /\ u[1].parent = 0
  BY DEF Open
<1>2. ASSUME NEW c \in DOMAIN u \ ({1} \cup L) PROVE Hanging(u, c, p, b) /\ h[c] < h[u[c].parent]
  <2>1. c \in DOMAIN t /\ Hanging(t, c, p, b) /\ h[c] < h[t[c].parent]
    BY <1>2 DEF Open
  <2> QED
    BY <2>1 DEF Hanging
<1>3. ASSUME NEW n \in DOMAIN u, NEW x \in DOMAIN u[n].forks, Other(n, x, p, b)
      PROVE  Leading(u, n, x, L)
  <2>1. n \in DOMAIN t /\ x \in DOMAIN t[n].forks /\ u[n].forks = t[n].forks
    BY <1>3
  <2>2. Leading(t, n, x, L)
    BY <1>3, <2>1 DEF Open
  <2> QED
    BY <2>1, <2>2 DEF Leading
<1> QED
  BY <1>1, <1>2, <1>3 DEF Open

LEMMA NewNodeOpen ==
  ASSUME NEW t, NEW E, NEW X, Trie(t, E, X), NEW i \in Nat \ {0}, i \notin DOMAIN t,
         NEW path \in Seq(Bytes), NEW entry \in E, NEW parent \in Nat,
         NEW L, NEW p, NEW b, NEW h, Open(t, L, p, b, h)
  PROVE  Open(Put(t, i, NewNode(path, entry, parent)), L \cup {i}, p, b, h)
<1> DEFINE u == Put(t, i, NewNode(path, entry, parent))
<1>1. /\ DOMAIN u = DOMAIN t \cup {i} /\ u[i].forks = <<>>
      /\ \A n \in DOMAIN t : u[n] = t[n]
  <2>1. NewNodeFacts(t, i, path, entry, parent)
    BY NewNodeTrie
  <2> QED
    BY <2>1 DEF NewNodeFacts
<1> HIDE DEF u
<1>2. u[1].path = <<>> /\ u[1].parent = 0
  BY <1>1 DEF Open, Trie
<1>3. ASSUME NEW c \in DOMAIN u \ ({1} \cup (L \cup {i}))
      PROVE  Hanging(u, c, p, b) /\ h[c] < h[u[c].parent]
  <2>1. c \in DOMAIN t /\ u[c] = t[c] /\ Hanging(t, c, p, b) /\ h[c] < h[t[c].parent]
    BY <1>1, <1>3 DEF Open
  <2>2. t[c].parent \in DOMAIN t
    BY <2>1 DEF Hanging
  <2> QED
    BY <1>1, <2>1, <2>2 DEF Hanging
<1>4. ASSUME NEW n \in DOMAIN u, NEW x \in DOMAIN u[n].forks, Other(n, x, p, b)
      PROVE  Leading(u, n, x, L \cup {i})
  <2>1. n # i
    BY <1>1, <1>4, NoForks
  <2>2. n \in DOMAIN t /\ u[n] = t[n] /\ Leading(t, n, x, L)
    BY <1>1, <1>4, <2>1 DEF Open
  <2> QED
    BY <1>1, <2>2 DEF Leading
<1>5. Open(u, L \cup {i}, p, b, h)
  BY <1>2, <1>3, <1>4 DEF Open
<1> QED
  BY <1>5 DEF u

(* A loose node is hung below another by a fork that is free.              *)
LEMMA HangLoose ==
  ASSUME NEW t, NEW E, NEW X, Trie(t, E, X),
         NEW L, NEW p, NEW b, NEW h, Open(t, L, p, b, h),
         NEW q \in DOMAIN t, NEW c \in DOMAIN t, c \in L, c # 1, q # c,
         NEW path \in ShortPath, Other(q, path[1], p, b), path[1] \notin DOMAIN t[q].forks, h[c] < h[q]
  PROVE  Open(Hang(t, q, c, path), L \ {c}, p, b, h)
<1> DEFINE u == Hang(t, q, c, path)
           y == path[1]
<1>0. path \in Seq(Bytes) /\ path # <<>> /\ t[q].forks \in Forks /\ c \in Nat \ {0}
  BY TrieNode, EmptySeq DEF ShortPath
<1>1. /\ DOMAIN u = DOMAIN t
      /\ u[c].path = path /\ u[c].parent = q /\ u[c].forks = t[c].forks
      /\ u[q].forks = Put(t[q].forks, y, c)
      /\ u[q].path = t[q].path /\ u[q].parent = t[q].parent
      /\ \A n \in DOMAIN t \ {c, q} : u[n] = t[n]
  BY <1>0, HangChanges DEF HangFacts
<1> HIDE DEF u
<1>b. /\ DOMAIN Put(t[q].forks, y, c) = DOMAIN t[q].forks \cup {y}
      /\ Put(t[q].forks, y, c)[y] = c
      /\ \A x \in DOMAIN t[q].forks : x # y => Put(t[q].forks, y, c)[x] = t[q].forks[x]
  BY DEF Put
<1>2. /\ DOMAIN u[q].forks = DOMAIN t[q].forks \cup {y} /\ u[q].forks[y] = c
      /\ \A x \in DOMAIN t[q].forks : x # y /\ u[q].forks[x] = t[q].forks[x]
  BY <1>1, <1>b
<1>3. u[1].path = <<>> /\ u[1].parent = 0
  BY <1>1 DEF Open, Trie
<1>4. ASSUME NEW n \in DOMAIN t, NEW x \in DOMAIN t[n].forks
      PROVE  x \in DOMAIN u[n].forks /\ u[n].forks[x] = t[n].forks[x]
  BY <1>1, <1>2, <1>4
<1>5. ASSUME NEW d \in DOMAIN u \ ({1} \cup (L \ {c}))
      PROVE  Hanging(u, d, p, b) /\ h[d] < h[u[d].parent]
  <2>1. CASE d = c
    BY <1>1, <1>2, <2>1 DEF Hanging
  <2>2. CASE d # c
    <3>1. d \in DOMAIN t /\ Hanging(t, d, p, b) /\ h[d] < h[t[d].parent]
      BY <1>1, <1>5, <2>2 DEF Open
    <3>2. u[d].path = t[d].path /\ u[d].parent = t[d].parent
      BY <1>1, <2>2, <3>1
    <3> QED
      BY <1>1, <1>4, <3>1, <3>2 DEF Hanging
  <2> QED
    BY <2>1, <2>2
<1>6. ASSUME NEW n \in DOMAIN u, NEW x \in DOMAIN u[n].forks, Other(n, x, p, b)
      PROVE  Leading(u, n, x, L \ {c})
  <2>1. CASE n = q /\ x = y
    BY <1>1, <1>2, <2>1 DEF Leading
  <2>2. CASE ~ (n = q /\ x = y)
    <3>1. n \in DOMAIN t /\ x \in DOMAIN t[n].forks
      BY <1>1, <1>2, <1>6, <2>2
    <3>2. Leading(t, n, x, L)
      BY <1>6, <3>1 DEF Open
    <3>3. u[n].forks[x] = t[n].forks[x]
      BY <1>4, <3>1
    <3> DEFINE d == t[n].forks[x]
    <3>4. d \in DOMAIN t /\ d # c /\ d \notin {1} \cup L /\ t[d].path[1] = x /\ t[d].parent = n
      BY <3>2 DEF Leading
    <3>5. u[d].path = t[d].path /\ u[d].parent = t[d].parent
      BY <1>1, <3>4
    <3> HIDE DEF d
    <3>6. d \in DOMAIN u \ ({1} \cup (L \ {c})) /\ u[d].path[1] = x /\ u[d].parent = n
      BY <1>1, <3>4, <3>5
    <3>7. u[n].forks[x] = d
      BY <3>3 DEF d
    <3> QED
      BY <3>6, <3>7 DEF Leading
  <2> QED
    BY <2>1, <2>2
<1>7. Open(u, L \ {c}, p, b, h)
  BY <1>3, <1>5, <1>6 DEF Open
<1> QED
  BY <1>7 DEF u

(* The last loose node is hung by the open fork.                           *)
LEMMA HangLast ==
  ASSUME NEW t, NEW E, NEW X, Trie(t, E, X),
         NEW p \in DOMAIN t, NEW b, NEW h, NEW c \in DOMAIN t, c # 1, p # c, Open(t, {c}, p, b, h),
         NEW path \in ShortPath, path[1] = b, h[c] < h[p]
  PROVE  Sound(Hang(t, p, c, path), h)
<1> DEFINE u == Hang(t, p, c, path)
<1>0. path \in Seq(Bytes) /\ path # <<>> /\ t[p].forks \in Forks /\ c \in Nat \ {0} /\ p # 0
  BY TrieNode, EmptySeq DEF ShortPath
<1>1. /\ DOMAIN u = DOMAIN t
      /\ u[c].path = path /\ u[c].parent = p /\ u[c].forks = t[c].forks
      /\ u[p].forks = Put(t[p].forks, b, c)
      /\ u[p].path = t[p].path /\ u[p].parent = t[p].parent
      /\ \A n \in DOMAIN t \ {c, p} : u[n] = t[n]
  BY <1>0, HangChanges DEF HangFacts
<1> HIDE DEF u
<1>b. /\ DOMAIN Put(t[p].forks, b, c) = DOMAIN t[p].forks \cup {b}
      /\ Put(t[p].forks, b, c)[b] = c
      /\ \A x \in DOMAIN t[p].forks : x # b => Put(t[p].forks, b, c)[x] = t[p].forks[x]
  BY DEF Put
<1>2. /\ DOMAIN u[p].forks = DOMAIN t[p].forks \cup {b} /\ u[p].forks[b] = c
      /\ \A x \in DOMAIN t[p].forks : x # b => u[p].forks[x] = t[p].forks[x]
  BY <1>1, <1>b
<1>3. u[1].path = <<>> /\ u[1].parent = 0
  BY <1>1 DEF Open, Trie
<1>4. ASSUME NEW n \in DOMAIN t, NEW x \in DOMAIN t[n].forks, Other(n, x, p, b)
      PROVE  x \in DOMAIN u[n].forks /\ u[n].forks[x] = t[n].forks[x]
  BY <1>1, <1>2, <1>4 DEF Other
<1>5. ASSUME NEW d \in DOMAIN u \ ({1} \cup {})
      PROVE  Hanging(u, d, 0, 0) /\ h[d] < h[u[d].parent]
  <2>1. CASE d = c
    BY <1>0, <1>1, <1>2, <2>1 DEF Hanging, Other
  <2>2. CASE d # c
    <3>1. d \in DOMAIN t /\ Hanging(t, d, p, b) /\ h[d] < h[t[d].parent]
      BY <1>1, <1>5, <2>2 DEF Open
    <3>2. u[d].path = t[d].path /\ u[d].parent = t[d].parent
      BY <1>1, <2>2, <3>1
    <3>3. t[d].parent # 0
      BY <3>1, TrieNode DEF Hanging
    <3> QED
      BY <1>1, <1>4, <3>1, <3>2, <3>3 DEF Hanging, Other
  <2> QED
    BY <2>1, <2>2
<1>6. ASSUME NEW n \in DOMAIN u, NEW x \in DOMAIN u[n].forks, Other(n, x, 0, 0)
      PROVE  Leading(u, n, x, {})
  <2>1. CASE n = p /\ x = b
    BY <1>1, <1>2, <2>1 DEF Leading
  <2>2. CASE ~ (n = p /\ x = b)
    <3>1. n \in DOMAIN t /\ x \in DOMAIN t[n].forks
      BY <1>1, <1>2, <1>6, <2>2
    <3>a. Other(n, x, p, b)
      BY <2>2 DEF Other
    <3>2. Leading(t, n, x, {c})
      BY <3>1, <3>a DEF Open
    <3>3. u[n].forks[x] = t[n].forks[x]
      BY <1>4, <3>1, <3>a
    <3> DEFINE d == t[n].forks[x]
    <3>4. d \in DOMAIN t /\ d # c /\ d # 1 /\ t[d].path[1] = x /\ t[d].parent = n
      BY <3>2 DEF Leading
    <3>5. u[d].path = t[d].path /\ u[d].parent = t[d].parent
      BY <1>1, <3>4
    <3> HIDE DEF d
    <3>6. d \in DOMAIN u \ ({1} \cup {}) /\ u[d].path[1] = x /\ u[d].parent = n
      BY <1>1, <3>4, <3>5
    <3>7. u[n].forks[x] = d
      BY <3>3 DEF d
    <3> QED
      BY <3>6, <3>7 DEF Leading
  <2> QED
    BY <2>1, <2>2
<1>7. Open(u, {}, 0, 0, h)
  BY <1>3, <1>5, <1>6 DEF Open
<1> QED
  BY <1>7 DEF u, Sound

(* The nodes of a trie can be given heights that grow towards the root.    *)
Standing(t) ==
  \E h \in [Nat -> Nat], top \in Nat : Sound(t, h) /\ \A n \in DOMAIN t : h[n] <= top

Starts(path, b) == path[1] = b
Leads(t, n, b, c) == b \in DOMAIN t[n].forks /\ t[n].forks[b] = c

LEMMA Loosen ==
  ASSUME NEW t, NEW E, NEW X, Trie(t, E, X), NEW h, Sound(t, h),
         NEW p \in DOMAIN t, NEW b, NEW c, Leads(t, p, b, c)
  PROVE  /\ Open(t, {c}, p, b, h) /\ c \in DOMAIN t /\ c # 1
         /\ t[c].path \in ShortPath /\ Starts(t[c].path, b) /\ t[c].parent = p /\ h[c] < h[p]
<1>0. p # 0 /\ Other(p, b, 0, 0)
  BY TrieNode DEF Other
<1>1. /\ t[1].path = <<>> /\ t[1].parent = 0
      /\ \A d \in DOMAIN t \ ({1} \cup {}) : Hanging(t, d, 0, 0) /\ h[d] < h[t[d].parent]
      /\ \A n \in DOMAIN t : \A x \in DOMAIN t[n].forks : Other(n, x, 0, 0) => Leading(t, n, x, {})
  BY DEF Sound, Open
<1>2. Leading(t, p, b, {})
  BY <1>0, <1>1 DEF Leads
<1>3. c \in DOMAIN t \ {1} /\ t[c].path[1] = b /\ t[c].parent = p
  BY <1>2 DEF Leading, Leads
<1>4. Hanging(t, c, 0, 0) /\ h[c] < h[p]
  BY <1>1, <1>3
<1>5. t[c].path \in ShortPath
  BY <1>4 DEF Hanging
<1>6. ASSUME NEW d \in DOMAIN t \ ({1} \cup {c}) PROVE Hanging(t, d, p, b) /\ h[d] < h[t[d].parent]
  <2>1. Hanging(t, d, 0, 0) /\ h[d] < h[t[d].parent]
    BY <1>1
  <2>2. Other(t[d].parent, t[d].path[1], p, b)
    BY <2>1 DEF Hanging, Other, Leads
  <2> QED
    BY <2>1, <2>2 DEF Hanging
<1>7. ASSUME NEW n \in DOMAIN t, NEW x \in DOMAIN t[n].forks, Other(n, x, p, b)
      PROVE  Leading(t, n, x, {c})
  <2>1. Leading(t, n, x, {})
    BY <1>1, TrieNode DEF Other
  <2>2. t[n].forks[x] # c
    BY <1>3, <1>7, <2>1 DEF Leading, Other
  <2> QED
    BY <2>1, <2>2 DEF Leading
<1>8. Open(t, {c}, p, b, h)
  BY <1>1, <1>6, <1>7 DEF Open
<1> QED
  BY <1>3, <1>4, <1>5, <1>8 DEF Starts

LEMMA LoosenNothing ==
  ASSUME NEW t, NEW E, NEW X, Trie(t, E, X), NEW h, Sound(t, h),
         NEW p \in DOMAIN t, NEW b, b \notin DOMAIN t[p].forks
  PROVE  Open(t, {}, p, b, h)
<1>1. /\ t[1].path = <<>> /\ t[1].parent = 0
      /\ \A d \in DOMAIN t \ ({1} \cup {}) : Hanging(t, d, 0, 0) /\ h[d] < h[t[d].parent]
      /\ \A n \in DOMAIN t : \A x \in DOMAIN t[n].forks : Other(n, x, 0, 0) => Leading(t, n, x, {})
  BY DEF Sound, Open
<1>2. ASSUME NEW d \in DOMAIN t \ ({1} \cup {}) PROVE Hanging(t, d, p, b) /\ h[d] < h[t[d].parent]
  <2>1. Hanging(t, d, 0, 0) /\ h[d] < h[t[d].parent]
    BY <1>1
  <2>2. Other(t[d].parent, t[d].path[1], p, b)
    BY <2>1 DEF Hanging, Other
  <2> QED
    BY <2>1, <2>2 DEF Hanging
<1>3. ASSUME NEW n \in DOMAIN t, NEW x \in DOMAIN t[n].forks PROVE Leading(t, n, x, {})
  BY <1>1, TrieNode DEF Other
<1> QED
  BY <1>1, <1>2, <1>3 DEF Open

LEMMA Rescale ==
  ASSUME NEW t, NEW E, NEW X, Trie(t, E, X), NEW L, NEW p, NEW b,
         NEW h \in [Nat -> Nat], NEW g \in [Nat -> Nat], Open(t, L, p, b, h),
         \A n \in DOMAIN t : g[n] = 3 * h[n] + 1
  PROVE  Open(t, L, p, b, g)
<1>1. ASSUME NEW c \in DOMAIN t \ ({1} \cup L) PROVE Hanging(t, c, p, b) /\ g[c] < g[t[c].parent]
  <2>1. Hanging(t, c, p, b) /\ h[c] < h[t[c].parent]
    BY DEF Open
  <2>2. c \in DOMAIN t /\ t[c].parent \in DOMAIN t
    BY <2>1 DEF Hanging
  <2>3. c \in Nat /\ t[c].parent \in Nat
    BY <2>2, TrieNode
  <2>4. h[c] \in Nat /\ h[t[c].parent] \in Nat
    BY <2>3
  <2> QED
    BY <2>1, <2>2, <2>4
<1> QED
  BY <1>1 DEF Open

(* What a trie t has become that nodes of S were added to.                 *)
Grown(t, S, v, E, X) == Trie(v, E, X) /\ Standing(v) /\ DOMAIN v = DOMAIN t \cup S

WithNew(t, new, path, entry, tip) == Put(t, new, NewNode(path, entry, tip))

(* A new node is added below tip by a fork that is free.                   *)
LEMMA AttachFree ==
  ASSUME NEW t, NEW E, NEW X, Trie(t, E, X), Standing(t), NEW tip \in DOMAIN t,
         NEW path \in ShortPath, NEW entry \in E, path[1] \notin DOMAIN t[tip].forks,
         NEW new \in Nat \ {0}, new \notin DOMAIN t
  PROVE  Grown(t, {new}, Hang(WithNew(t, new, path, entry, tip), tip, new, path), E, X)
<1> DEFINE t1 == Put(t, new, NewNode(path, entry, tip))
           v == Hang(t1, tip, new, path)
           b == path[1]
<1>1. PICK h \in [Nat -> Nat], top \in Nat : Sound(t, h) /\ \A n \in DOMAIN t : h[n] <= top
  BY DEF Standing
<1> DEFINE g == [n \in Nat |-> IF n = new THEN 0 ELSE 3 * h[n] + 1]
<1>2. g \in [Nat -> Nat] /\ g[new] = 0 /\ \A n \in DOMAIN t : n \in Nat /\ g[n] = 3 * h[n] + 1
  <2>1. \A n \in DOMAIN t : n \in Nat /\ n # new
    BY TrieNode
  <2>2. \A n \in Nat : (IF n = new THEN 0 ELSE 3 * h[n] + 1) \in Nat
    OBVIOUS
  <2> QED
    BY <2>1, <2>2
<1> HIDE DEF g
<1>3. path \in Seq(Bytes) /\ path # <<>> /\ tip \in Nat /\ 1 \in DOMAIN t
  BY TrieNode, EmptySeq DEF ShortPath, Trie
<1>4. Open(t, {}, tip, b, g)
  BY <1>1, <1>2, LoosenNothing, Rescale
<1>5. Trie(t1, E, X) /\ NewNodeFacts(t, new, path, entry, tip)
  BY <1>3, NewNodeTrie
<1>6. DOMAIN t1 = DOMAIN t \cup {new} /\ \A n \in DOMAIN t : t1[n] = t[n]
  BY <1>5 DEF NewNodeFacts
<1>7. Open(t1, {} \cup {new}, tip, b, g)
  BY <1>3, <1>4, NewNodeOpen
<1>8. {} \cup {new} = {new} /\ new \in DOMAIN t1 /\ tip \in DOMAIN t1 /\ tip # new /\ new # 1
  BY <1>3, <1>6
<1>9. g[new] < g[tip]
  BY <1>2
<1> HIDE DEF t1, b
<1>10. b = path[1]
  BY DEF b
<1>11. Open(t1, {new}, tip, b, g)
  BY <1>7, <1>8
<1>12. Sound(v, g)
  BY <1>5, <1>8, <1>9, <1>10, <1>11, HangLast
<1>13. Trie(v, E, X) /\ HangFacts(t1, tip, new, path)
  BY <1>3, <1>5, <1>8, HangChanges
<1>14. DOMAIN v = DOMAIN t \cup {new}
  BY <1>6, <1>13 DEF HangFacts
<1> HIDE DEF v
<1>15. PICK m \in Nat : m = 3 * top + 1
  OBVIOUS
<1>16. \A n \in DOMAIN v : g[n] <= m
  BY <1>1, <1>2, <1>14, <1>15
<1>17. Standing(v)
  BY <1>2, <1>12, <1>16 DEF Standing
<1> QED
  BY <1>13, <1>14, <1>17 DEF v, t1, Grown, WithNew

LEMMA RestShort ==
  ASSUME NEW path \in ShortPath, NEW n \in Nat, n < Len(path)
  PROVE  Rest(path, n) \in ShortPath /\ Rest(path, n)[1] = path[n + 1]
<1>1. path \in Seq(Bytes) /\ Len(path) \in 1..MaxPrefixLength /\ n \in 0..Len(path)
  BY DEF ShortPath
<1>2. /\ Rest(path, n) \in Seq(Bytes)
      /\ Len(Rest(path, n)) = Len(path) - n
      /\ \A i \in 1..(Len(path) - n) : Rest(path, n)[i] = path[n + i]
  BY <1>1, RestProperties
<1>3. Len(path) - n \in 1..MaxPrefixLength /\ 1 \in 1..(Len(path) - n)
  BY <1>1, ConstantsAssumption
<1> QED
  BY <1>2, <1>3 DEF ShortPath

(* Heights with room for two more nodes: branch just above a node of       *)
(* height low, and new below everything.                                   *)
Below(S, h, top) == \A n \in S : h[n] <= top

Wider(S, h, low, branch, new, g, m) ==
  /\ \A n \in S : g[n] = 3 * h[n] + 1
  /\ g[branch] = 3 * low + 2
  /\ new # branch => g[new] = 0
  /\ \A n \in S \cup {branch, new} : g[n] <= m

LEMMA Spread ==
  ASSUME NEW S \in SUBSET Nat, NEW h \in [Nat -> Nat], NEW top \in Nat, Below(S, h, top),
         NEW low \in Nat, low <= top, NEW branch \in Nat \ S, NEW new \in Nat \ S
  PROVE  \E g \in [Nat -> Nat], m \in Nat : Wider(S, h, low, branch, new, g, m)
<1> DEFINE k == 3 * low + 2
           g == [n \in Nat |-> IF n = branch THEN k ELSE IF n = new THEN 0 ELSE 3 * h[n] + 1]
           m == 3 * top + 2
<1>1. k \in Nat /\ m \in Nat /\ k <= m
  OBVIOUS
<1>2. ASSUME NEW n \in Nat PROVE 3 * h[n] + 1 \in Nat
  <2>1. h[n] \in Nat
    OBVIOUS
  <2> QED
    BY <2>1
<1>3. ASSUME NEW n \in S PROVE 3 * h[n] + 1 <= m
  <2>1. h[n] \in Nat /\ h[n] <= top
    BY DEF Below
  <2> QED
    BY <2>1
<1> HIDE DEF k, m
<1>4. g \in [Nat -> Nat]
  BY <1>1, <1>2
<1>5. /\ \A n \in S : g[n] = 3 * h[n] + 1
      /\ g[branch] = k /\ (new # branch => g[new] = 0)
  OBVIOUS
<1> HIDE DEF g
<1>6. \A n \in S \cup {branch, new} : g[n] <= m
  BY <1>1, <1>3, <1>5
<1> QED
  BY <1>1, <1>4, <1>5, <1>6 DEF k, Wider

Shorter(s, p) == Len(s) < Len(p)

(* Two paths part after the first bytes that are common.                   *)
Part(common, s, p) ==
  Shorter(common, s) /\ Shorter(common, p) /\ s[Len(common) + 1] # p[Len(common) + 1]

HasPath(t, n, path) == t[n].path = path
PartsFrom(t, c, common, path) == Part(common, path, t[c].path)

(* The new node, with old below it.                                        *)
Lowered(t, new, path, entry, tip, old) ==
  Hang(WithNew(t, new, path, entry, tip), new, old, Rest(t[old].path, Len(path)))

(* A branch, with the new node and old below it.                           *)
Branched(t, new, path, entry, tip, old, common, branch) ==
  LET s1 == Put(WithNew(t, new, path, entry, tip), branch, NewNode(common, NoEntry, 0))
      s2 == Hang(s1, branch, new, Rest(path, Len(common)))
  IN  Hang(s2, branch, old, Rest(t[old].path, Len(common)))

(* A new node is added between tip and the node old below it.              *)
LEMMA AttachAbove ==
  ASSUME NEW t, NEW E, NEW X, Trie(t, E, X), Standing(t), NEW tip \in DOMAIN t,
         NEW path \in ShortPath, NEW entry \in E, NEW b, Starts(path, b),
         NEW old, Leads(t, tip, b, old), Shorter(path, t[old].path),
         NEW new \in Nat \ {0}, new \notin DOMAIN t
  PROVE  LET u == Lowered(t, new, path, entry, tip, old) IN
         HasPath(u, new, path) /\ Grown(t, {new}, Hang(u, tip, new, path), E, X)
<1> DEFINE t1 == Put(t, new, NewNode(path, entry, tip))
           rest == Rest(t[old].path, Len(path))
           u == Hang(t1, new, old, rest)
           v == Hang(u, tip, new, path)
<1>1. PICK h \in [Nat -> Nat], top \in Nat : Sound(t, h) /\ \A n \in DOMAIN t : h[n] <= top
  BY DEF Standing
<1>2. /\ Open(t, {old}, tip, b, h) /\ old \in DOMAIN t /\ old # 1
      /\ t[old].path \in ShortPath /\ h[old] < h[tip]
  BY <1>1, Loosen
<1>3. /\ path \in Seq(Bytes) /\ path # <<>> /\ tip \in Nat /\ 1 \in DOMAIN t /\ old \in Nat
      /\ Len(path) \in Nat
  <2>1. old \in Nat /\ tip \in Nat /\ 1 \in DOMAIN t
    BY <1>2, TrieNode DEF Trie
  <2> QED
    BY <2>1, EmptySeq, LenProperties DEF ShortPath
<1>a. h[old] \in Nat /\ h[tip] \in Nat
  BY <1>3
<1> DEFINE low == h[old]
           high == h[tip]
<1>b. low \in Nat /\ high \in Nat /\ low < high /\ low <= top
  BY <1>1, <1>2, <1>a
<1>c. \A n \in DOMAIN t : n \in Nat /\ h[n] <= top
  BY <1>1, TrieNode
<1> HIDE DEF low, high
<1>4. PICK g \in [Nat -> Nat], m \in Nat :
        /\ \A n \in DOMAIN t : g[n] = 3 * h[n] + 1
        /\ g[new] = 3 * low + 2
        /\ \A n \in DOMAIN t \cup {new} : g[n] <= m
  <2>1. DOMAIN t \in SUBSET Nat /\ new \in Nat \ DOMAIN t /\ new \in Nat \ DOMAIN t
    BY <1>c
  <2>2. Below(DOMAIN t, h, top)
    BY <1>c DEF Below
  <2>3. PICK g \in [Nat -> Nat], m \in Nat : Wider(DOMAIN t, h, low, new, new, g, m)
    BY <1>b, <2>1, <2>2, Spread
  <2> QED
    BY <2>3 DEF Wider
<1>5. g[old] = 3 * low + 1 /\ g[tip] = 3 * high + 1
  BY <1>2, <1>3, <1>4 DEF low, high
<1>6. g[old] < g[new] /\ g[new] < g[tip]
  <2>1. /\ 3 * low + 1 < 3 * low + 2 /\ 3 * low + 2 < 3 * high + 1
        /\ 0 < 3 * low + 2
    BY <1>b
  <2> QED
    BY <1>4, <1>5, <2>1
<1>7. Open(t, {old}, tip, b, g)
  BY <1>2, <1>4, Rescale
<1>8. Trie(t1, E, X) /\ NewNodeFacts(t, new, path, entry, tip)
  BY <1>3, NewNodeTrie
<1>9. /\ DOMAIN t1 = DOMAIN t \cup {new} /\ t1[new].path = path /\ t1[new].forks = <<>>
      /\ \A n \in DOMAIN t : t1[n] = t[n]
  BY <1>8 DEF NewNodeFacts
<1>10. Open(t1, {old} \cup {new}, tip, b, g)
  BY <1>3, <1>7, NewNodeOpen
<1>11. /\ new \in DOMAIN t1 /\ tip \in DOMAIN t1 /\ old \in DOMAIN t1
       /\ tip # new /\ new # 1 /\ old # new /\ ({old} \cup {new}) \ {old} = {new}
  BY <1>2, <1>3, <1>9
<1> HIDE DEF t1
<1>12. rest \in ShortPath
  BY <1>2, <1>3, RestShort DEF Shorter, Part, PartsFrom
<1>13. rest[1] \notin DOMAIN t1[new].forks /\ Other(new, rest[1], tip, b) /\ rest \in Seq(Bytes) /\ rest # <<>>
  BY <1>9, <1>11, <1>12, NoForks, EmptySeq DEF Other, ShortPath
<1> HIDE DEF rest
<1>14. Open(u, ({old} \cup {new}) \ {old}, tip, b, g)
  BY <1>2, <1>6, <1>8, <1>10, <1>11, <1>12, <1>13, HangLoose
<1>15. Trie(u, E, X) /\ HangFacts(t1, new, old, rest)
  BY <1>8, <1>11, <1>13, HangChanges
<1>16. DOMAIN u = DOMAIN t1 /\ u[new].path = path
  BY <1>9, <1>15 DEF HangFacts
<1> HIDE DEF u
<1>17. Open(u, {new}, tip, b, g)
  BY <1>11, <1>14
<1>18. Sound(v, g)
  BY <1>6, <1>11, <1>15, <1>16, <1>17, HangLast DEF Starts
<1>19. Trie(v, E, X) /\ HangFacts(u, tip, new, path)
  BY <1>3, <1>11, <1>15, <1>16, HangChanges
<1>20. DOMAIN v = DOMAIN t \cup {new}
  BY <1>9, <1>16, <1>19 DEF HangFacts
<1> HIDE DEF v
<1>24. Standing(v)
  BY <1>4, <1>18, <1>20 DEF Standing
<1> QED
  BY <1>16, <1>19, <1>20, <1>24 DEF v, u, rest, t1, Grown, WithNew, Lowered, HasPath

(* A new node and old, which was below tip, are put below a new branch.    *)
LEMMA AttachBranch ==
  ASSUME NEW t, NEW E, NEW X, Trie(t, E, X), Standing(t), NEW tip \in DOMAIN t,
         NEW path \in ShortPath, NEW entry \in E, NoEntry \in E,
         NEW b, Starts(path, b), NEW old, Leads(t, tip, b, old),
         NEW common \in ShortPath, Starts(common, b), PartsFrom(t, old, common, path),
         NEW new \in Nat \ {0}, new \notin DOMAIN t,
         NEW branch \in Nat \ {0}, branch \notin DOMAIN t, branch # new
  PROVE  LET u == Branched(t, new, path, entry, tip, old, common, branch) IN
         HasPath(u, branch, common) /\ Grown(t, {new, branch}, Hang(u, tip, branch, common), E, X)
<1> DEFINE t1 == Put(t, new, NewNode(path, entry, tip))
           s1 == Put(t1, branch, NewNode(common, NoEntry, 0))
           ra == Rest(path, Len(common))
           rb == Rest(t[old].path, Len(common))
           s2 == Hang(s1, branch, new, ra)
           s3 == Hang(s2, branch, old, rb)
           v == Hang(s3, tip, branch, common)
<1>1. PICK h \in [Nat -> Nat], top \in Nat : Sound(t, h) /\ \A n \in DOMAIN t : h[n] <= top
  BY DEF Standing
<1>2. /\ Open(t, {old}, tip, b, h) /\ old \in DOMAIN t /\ old # 1
      /\ t[old].path \in ShortPath /\ h[old] < h[tip]
  BY <1>1, Loosen
<1>3. /\ path \in Seq(Bytes) /\ path # <<>> /\ tip \in Nat /\ 1 \in DOMAIN t /\ old \in Nat
      /\ common \in Seq(Bytes) /\ common # <<>> /\ Len(common) \in Nat /\ 0 \in Nat
  <2>1. old \in Nat /\ tip \in Nat /\ 1 \in DOMAIN t
    BY <1>2, TrieNode DEF Trie
  <2> QED
    BY <2>1, EmptySeq, LenProperties DEF ShortPath
<1>a. h[old] \in Nat /\ h[tip] \in Nat
  BY <1>3
<1> DEFINE low == h[old]
           high == h[tip]
<1>b. low \in Nat /\ high \in Nat /\ low < high /\ low <= top
  BY <1>1, <1>2, <1>a
<1>c. \A n \in DOMAIN t : n \in Nat /\ h[n] <= top
  BY <1>1, TrieNode
<1> HIDE DEF low, high
<1>4. PICK g \in [Nat -> Nat], m \in Nat :
        /\ \A n \in DOMAIN t : g[n] = 3 * h[n] + 1
        /\ g[branch] = 3 * low + 2 /\ g[new] = 0
        /\ \A n \in DOMAIN t \cup {new, branch} : g[n] <= m
  <2>1. DOMAIN t \in SUBSET Nat /\ branch \in Nat \ DOMAIN t /\ new \in Nat \ DOMAIN t
    BY <1>c
  <2>2. Below(DOMAIN t, h, top)
    BY <1>c DEF Below
  <2>3. PICK g \in [Nat -> Nat], m \in Nat : Wider(DOMAIN t, h, low, branch, new, g, m)
    BY <1>b, <2>1, <2>2, Spread
  <2> QED
    BY <2>3 DEF Wider
<1>5. g[old] = 3 * low + 1 /\ g[tip] = 3 * high + 1
  BY <1>2, <1>3, <1>4 DEF low, high
<1>6. g[old] < g[branch] /\ g[new] < g[branch] /\ g[branch] < g[tip]
  <2>1. /\ 3 * low + 1 < 3 * low + 2 /\ 3 * low + 2 < 3 * high + 1
        /\ 0 < 3 * low + 2
    BY <1>b
  <2> QED
    BY <1>4, <1>5, <2>1
<1>7. Open(t, {old}, tip, b, g)
  BY <1>2, <1>4, Rescale
<1>8. Trie(t1, E, X) /\ NewNodeFacts(t, new, path, entry, tip)
  BY <1>3, NewNodeTrie
<1>9. DOMAIN t1 = DOMAIN t \cup {new} /\ \A n \in DOMAIN t : t1[n] = t[n]
  BY <1>8 DEF NewNodeFacts
<1>10. Open(t1, {old} \cup {new}, tip, b, g)
  BY <1>3, <1>7, NewNodeOpen
<1> HIDE DEF t1
<1>11. branch \notin DOMAIN t1
  BY <1>9
<1>12. Trie(s1, E, X) /\ NewNodeFacts(t1, branch, common, NoEntry, 0)
  BY <1>3, <1>8, <1>11, NewNodeTrie
<1>13. /\ DOMAIN s1 = DOMAIN t \cup {new, branch}
       /\ s1[branch].path = common /\ s1[branch].forks = <<>>
  BY <1>9, <1>12 DEF NewNodeFacts
<1>14. Open(s1, ({old} \cup {new}) \cup {branch}, tip, b, g)
  BY <1>3, <1>8, <1>10, <1>11, NewNodeOpen
<1>15. /\ new \in DOMAIN s1 /\ tip \in DOMAIN s1 /\ old \in DOMAIN s1 /\ branch \in DOMAIN s1
       /\ tip # new /\ tip # branch /\ new # 1 /\ branch # 1 /\ old # new /\ old # branch
       /\ (({old} \cup {new}) \cup {branch}) \ {new} = {old, branch}
       /\ {old, branch} \ {old} = {branch}
  BY <1>2, <1>3, <1>13
<1> HIDE DEF s1
<1>16. /\ ra \in ShortPath /\ ra[1] = path[Len(common) + 1]
       /\ rb \in ShortPath /\ rb[1] = t[old].path[Len(common) + 1]
  BY <1>2, <1>3, RestShort DEF Shorter, Part, PartsFrom
<1>17. /\ ra[1] \notin DOMAIN s1[branch].forks /\ Other(branch, ra[1], tip, b) /\ ra \in Seq(Bytes) /\ ra # <<>>
       /\ Other(branch, rb[1], tip, b) /\ rb \in Seq(Bytes) /\ rb # <<>> /\ ra[1] # rb[1]
  BY <1>13, <1>15, <1>16, NoForks, EmptySeq DEF Other, ShortPath, Part, PartsFrom
<1> HIDE DEF ra, rb
<1>18. Open(s2, (({old} \cup {new}) \cup {branch}) \ {new}, tip, b, g)
  BY <1>6, <1>12, <1>14, <1>15, <1>16, <1>17, HangLoose
<1>19. Trie(s2, E, X) /\ HangFacts(s1, branch, new, ra)
  BY <1>12, <1>15, <1>17, HangChanges
<1>20. DOMAIN s2 = DOMAIN s1 /\ s2[branch].path = common /\ s2[branch].forks = Put(<<>>, ra[1], new)
  BY <1>13, <1>19 DEF HangFacts
<1> HIDE DEF s2
<1>21. Open(s2, {old, branch}, tip, b, g)
  BY <1>15, <1>18
<1>22. rb[1] \notin DOMAIN s2[branch].forks
  <2>1. DOMAIN Put(<<>>, ra[1], new) = {ra[1]}
    BY NoForks DEF Put
  <2>2. DOMAIN s2[branch].forks = {ra[1]}
    BY <1>20, <2>1
  <2> QED
    BY <1>17, <2>2
<1>23. Open(s3, {old, branch} \ {old}, tip, b, g)
  BY <1>2, <1>6, <1>15, <1>16, <1>17, <1>19, <1>20, <1>21, <1>22, HangLoose
<1>24. Trie(s3, E, X) /\ HangFacts(s2, branch, old, rb)
  BY <1>15, <1>17, <1>19, <1>20, HangChanges
<1>25. DOMAIN s3 = DOMAIN s1 /\ s3[branch].path = common
  BY <1>20, <1>24 DEF HangFacts
<1> HIDE DEF s3
<1>26. Open(s3, {branch}, tip, b, g)
  BY <1>15, <1>23
<1>27. Sound(v, g)
  BY <1>6, <1>15, <1>24, <1>25, <1>26, HangLast DEF Starts
<1>28. Trie(v, E, X) /\ HangFacts(s3, tip, branch, common)
  BY <1>3, <1>15, <1>24, <1>25, HangChanges
<1>29. DOMAIN v = DOMAIN t \cup {new, branch}
  BY <1>13, <1>25, <1>28 DEF HangFacts
<1> HIDE DEF v
<1>33. Standing(v)
  BY <1>4, <1>27, <1>29 DEF Standing
<1> QED
  BY <1>25, <1>28, <1>29, <1>33 DEF v, s3, s2, s1, ra, rb, t1, Grown, WithNew, Branched, HasPath

(* How the nodes of t hang together in u, and what references they have.   *)
SameLink(t, u, n) == u[n].path = t[n].path /\ u[n].parent = t[n].parent
SameLinks(t, u, S) == \A n \in S : SameLink(t, u, n)
SameEntries(t, u) == \A n \in DOMAIN t : u[n].entry = t[n].entry
Linked(u, n, q, p) == u[n].parent = q /\ u[n].path = p
HasEntry(u, n, entry) == u[n].entry = entry

Moved(t, u, c, q, p) ==
  DOMAIN u = DOMAIN t /\ Linked(u, c, q, p) /\ SameLinks(t, u, DOMAIN t \ {c}) /\ SameEntries(t, u)

Widened(t, u, i, q, p, entry) ==
  /\ DOMAIN u = DOMAIN t \cup {i} /\ Linked(u, i, q, p) /\ HasEntry(u, i, entry)
  /\ SameLinks(t, u, DOMAIN t) /\ SameEntries(t, u)

(* The node new was added below tip, and the node top between tip and old, *)
(* by the first bytes c of its path; new is top, or hangs below it.        *)
Between(t, u, tip, path, new, old, top, c) ==
  /\ old \in DOMAIN t \ {1} /\ top \notin DOMAIN t /\ DOMAIN u = DOMAIN t \cup {new, top}
  /\ SameLinks(t, u, DOMAIN t \ {old})
  /\ t[old].parent = tip /\ IsPrefix(c, t[old].path) /\ IsPrefix(c, path)
  /\ c \in Seq(Bytes)
  /\ Linked(u, top, tip, c) /\ Linked(u, old, top, Rest(t[old].path, Len(c)))
  /\ \/ top = new /\ c = path
     \/ top # new /\ Linked(u, new, top, Rest(path, Len(c))) /\ HasEntry(u, top, NoEntry)

Joined(t, u, tip, path, entry, new) ==
  /\ new \notin DOMAIN t /\ HasEntry(u, new, entry) /\ SameEntries(t, u)
  /\ \/ DOMAIN u = DOMAIN t \cup {new} /\ SameLinks(t, u, DOMAIN t) /\ Linked(u, new, tip, path)
     \/ \E old, top, c : Between(t, u, tip, path, new, old, top, c)

LEMMA HangMoves ==
  ASSUME NEW t, NEW E, NEW X, Trie(t, E, X), NEW q \in DOMAIN t, NEW c \in DOMAIN t, q # c,
         NEW path \in Seq(Bytes), path # <<>>
  PROVE  Trie(Hang(t, q, c, path), E, X) /\ Moved(t, Hang(t, q, c, path), c, q, path)
<1> DEFINE u == Hang(t, q, c, path)
<1>1. Trie(u, E, X) /\ HangFacts(t, q, c, path)
  BY HangChanges
<1>2. /\ DOMAIN u = DOMAIN t /\ u[c].path = path /\ u[c].parent = q
      /\ u[q].path = t[q].path /\ u[q].parent = t[q].parent
      /\ \A n \in DOMAIN t : u[n].entry = t[n].entry
      /\ \A n \in DOMAIN t \ {c, q} : u[n] = t[n]
  BY <1>1 DEF HangFacts
<1> HIDE DEF u
<1>3. ASSUME NEW n \in DOMAIN t \ {c} PROVE SameLink(t, u, n)
  BY <1>2 DEF SameLink
<1> QED
  BY <1>1, <1>2, <1>3 DEF u, Moved, Linked, SameLinks, SameEntries

LEMMA NewWidens ==
  ASSUME NEW t, NEW E, NEW X, Trie(t, E, X), NEW i \in Nat \ {0}, i \notin DOMAIN t,
         NEW path \in Seq(Bytes), NEW entry \in E, NEW parent \in Nat
  PROVE  LET u == Put(t, i, NewNode(path, entry, parent)) IN
         Trie(u, E, X) /\ Widened(t, u, i, parent, path, entry)
<1> DEFINE u == Put(t, i, NewNode(path, entry, parent))
<1>1. Trie(u, E, X) /\ NewNodeFacts(t, i, path, entry, parent)
  BY NewNodeTrie
<1>2. /\ DOMAIN u = DOMAIN t \cup {i}
      /\ u[i].path = path /\ u[i].parent = parent
      /\ \A n \in DOMAIN t : u[n] = t[n]
  BY <1>1 DEF NewNodeFacts
<1>3. u[i].entry = entry
  BY DEF Put, NewNode
<1> HIDE DEF u
<1> QED
  BY <1>1, <1>2, <1>3 DEF u, Widened, Linked, HasEntry, SameLinks, SameLink, SameEntries

LEMMA FreeJoined ==
  ASSUME NEW t, NEW E, NEW X, Trie(t, E, X), NEW tip \in DOMAIN t,
         NEW path \in ShortPath, NEW entry \in E,
         NEW new \in Nat \ {0}, new \notin DOMAIN t
  PROVE  Joined(t, Hang(WithNew(t, new, path, entry, tip), tip, new, path), tip, path, entry, new)
<1> DEFINE t1 == Put(t, new, NewNode(path, entry, tip))
           v == Hang(t1, tip, new, path)
<1>1. path \in Seq(Bytes) /\ path # <<>> /\ tip \in Nat
  BY TrieNode, EmptySeq DEF ShortPath
<1>2. Trie(t1, E, X) /\ Widened(t, t1, new, tip, path, entry)
  BY <1>1, NewWidens
<1> HIDE DEF t1
<1>3. DOMAIN t1 = DOMAIN t \cup {new} /\ tip # new
  BY <1>2 DEF Widened
<1>4. Moved(t1, v, new, tip, path)
  BY <1>1, <1>2, <1>3, HangMoves
<1> HIDE DEF v
<1>5. DOMAIN v = DOMAIN t \cup {new} /\ Linked(v, new, tip, path)
  BY <1>3, <1>4 DEF Moved
<1>6. ASSUME NEW n \in DOMAIN t PROVE SameLink(t, v, n) /\ v[n].entry = t[n].entry
  <2>1. n \in DOMAIN t1 \ {new}
    BY <1>3
  <2>2. SameLink(t, t1, n) /\ SameLink(t1, v, n)
    BY <1>2, <1>4, <2>1 DEF Widened, Moved, SameLinks
  <2>3. t1[n].entry = t[n].entry /\ v[n].entry = t1[n].entry
    BY <1>2, <1>4, <2>1 DEF Widened, Moved, SameEntries
  <2> QED
    BY <2>2, <2>3 DEF SameLink
<1>7. HasEntry(v, new, entry)
  <2>1. v[new].entry = t1[new].entry
    BY <1>3, <1>4 DEF Moved, SameEntries
  <2> QED
    BY <1>2, <2>1 DEF Widened, HasEntry
<1>8. Joined(t, v, tip, path, entry, new)
  BY <1>5, <1>6, <1>7 DEF Joined, SameLinks, SameEntries
<1> QED
  BY <1>8 DEF v, t1, WithNew

LEMMA SameThrough ==
  ASSUME NEW t, NEW u, NEW v, NEW S, SameLinks(t, u, S), SameLinks(u, v, S)
  PROVE  SameLinks(t, v, S)
  BY DEF SameLinks, SameLink

LEMMA EntriesThrough ==
  ASSUME NEW t, NEW u, NEW v, SameEntries(t, u), SameEntries(u, v), DOMAIN t \subseteq DOMAIN u
  PROVE  SameEntries(t, v)
  BY DEF SameEntries

LEMMA LinkThrough ==
  ASSUME NEW u, NEW v, NEW c, NEW q, NEW p, Linked(u, c, q, p), SameLink(u, v, c)
  PROVE  Linked(v, c, q, p)
  BY DEF SameLink, Linked

LEMMA EntryThrough ==
  ASSUME NEW u, NEW v, NEW c \in DOMAIN u, NEW entry, HasEntry(u, c, entry), SameEntries(u, v)
  PROVE  HasEntry(v, c, entry)
  BY DEF SameEntries, HasEntry

LEMMA AboveJoined ==
  ASSUME NEW t, NEW E, NEW X, Trie(t, E, X), NEW tip \in DOMAIN t,
         NEW path \in ShortPath, NEW entry \in E,
         NEW old \in DOMAIN t \ {1}, t[old].parent = tip, t[old].path \in ShortPath,
         Shorter(path, t[old].path), IsPrefix(path, t[old].path), old # tip,
         NEW new \in Nat \ {0}, new \notin DOMAIN t
  PROVE  Joined(t, Hang(Lowered(t, new, path, entry, tip, old), tip, new, path), tip, path, entry, new)
<1> DEFINE t1 == Put(t, new, NewNode(path, entry, tip))
           rest == Rest(t[old].path, Len(path))
           u == Hang(t1, new, old, rest)
           v == Hang(u, tip, new, path)
<1>1. path \in Seq(Bytes) /\ path # <<>> /\ tip \in Nat /\ Len(path) \in Nat /\ IsPrefix(path, path)
  <2>1. path \in Seq(Bytes) /\ path # <<>> /\ tip \in Nat /\ Len(path) \in Nat
    BY TrieNode, EmptySeq, LenProperties DEF ShortPath
  <2> QED
    BY <2>1, PrefixIs
<1>2. rest \in Seq(Bytes) /\ rest # <<>>
  <2>1. rest \in ShortPath
    BY <1>1, RestShort DEF Shorter
  <2> HIDE DEF rest
  <2> QED
    BY <2>1, EmptySeq DEF ShortPath
<1> HIDE DEF rest
<1>3. Trie(t1, E, X) /\ Widened(t, t1, new, tip, path, entry)
  BY <1>1, NewWidens
<1> HIDE DEF t1
<1>4. DOMAIN t1 = DOMAIN t \cup {new} /\ tip # new /\ new # old
  BY <1>3 DEF Widened
<1>5. Trie(u, E, X) /\ Moved(t1, u, old, new, rest)
  BY <1>2, <1>3, <1>4, HangMoves
<1> HIDE DEF u
<1>6. DOMAIN u = DOMAIN t1
  BY <1>5 DEF Moved
<1>7. Moved(u, v, new, tip, path)
  BY <1>1, <1>4, <1>5, <1>6, HangMoves
<1> HIDE DEF v
<1>8. DOMAIN v = DOMAIN t \cup {new, new}
  BY <1>4, <1>6, <1>7 DEF Moved
<1>9. SameLinks(t, v, DOMAIN t \ {old})
  <2>1. SameLinks(t, t1, DOMAIN t \ {old}) /\ SameLinks(t1, u, DOMAIN t \ {old}) /\ SameLinks(u, v, DOMAIN t \ {old})
    BY <1>3, <1>4, <1>5, <1>6, <1>7 DEF Widened, Moved, SameLinks
  <2> QED
    BY <2>1, SameThrough
<1>10. SameEntries(t, v) /\ HasEntry(v, new, entry)
  <2>1. SameEntries(t, t1) /\ SameEntries(t1, u) /\ SameEntries(u, v) /\ HasEntry(t1, new, entry)
    BY <1>3, <1>5, <1>7 DEF Widened, Moved
  <2>2. SameEntries(t1, v)
    BY <1>6, <2>1, EntriesThrough
  <2> QED
    BY <1>4, <2>1, <2>2, EntriesThrough, EntryThrough
<1>11. Linked(v, new, tip, path) /\ Linked(v, old, new, rest)
  <2>1. Linked(u, old, new, rest) /\ SameLink(u, v, old) /\ Linked(v, new, tip, path)
    BY <1>4, <1>5, <1>6, <1>7 DEF Moved, SameLinks
  <2> QED
    BY <2>1, LinkThrough
<1>12. Between(t, v, tip, path, new, old, new, path)
  BY <1>1, <1>8, <1>9, <1>11 DEF Between, rest
<1>13. Joined(t, v, tip, path, entry, new)
  BY <1>10, <1>12 DEF Joined
<1> QED
  BY <1>13 DEF v, u, t1, rest, Lowered, WithNew

LEMMA BranchJoined ==
  ASSUME NEW t, NEW E, NEW X, Trie(t, E, X), NEW tip \in DOMAIN t,
         NEW path \in ShortPath, NEW entry \in E, NoEntry \in E,
         NEW old \in DOMAIN t \ {1}, t[old].parent = tip, t[old].path \in ShortPath, old # tip,
         NEW common \in ShortPath, PartsFrom(t, old, common, path),
         IsPrefix(common, path), IsPrefix(common, t[old].path),
         NEW new \in Nat \ {0}, new \notin DOMAIN t,
         NEW branch \in Nat \ {0}, branch \notin DOMAIN t, branch # new
  PROVE  Joined(t, Hang(Branched(t, new, path, entry, tip, old, common, branch), tip, branch, common),
                tip, path, entry, new)
<1> DEFINE t1 == Put(t, new, NewNode(path, entry, tip))
           s1 == Put(t1, branch, NewNode(common, NoEntry, 0))
           ra == Rest(path, Len(common))
           rb == Rest(t[old].path, Len(common))
           s2 == Hang(s1, branch, new, ra)
           s3 == Hang(s2, branch, old, rb)
           v == Hang(s3, tip, branch, common)
           S == DOMAIN t \ {old}
<1>1. /\ path \in Seq(Bytes) /\ tip \in Nat /\ 0 \in Nat
      /\ common \in Seq(Bytes) /\ common # <<>> /\ Len(common) \in Nat
  BY TrieNode, EmptySeq, LenProperties DEF ShortPath
<1>2. ra \in Seq(Bytes) /\ ra # <<>> /\ rb \in Seq(Bytes) /\ rb # <<>>
  <2>1. ra \in ShortPath /\ rb \in ShortPath
    BY <1>1, RestShort DEF PartsFrom, Part, Shorter
  <2> HIDE DEF ra, rb
  <2> QED
    BY <2>1, EmptySeq DEF ShortPath
<1> HIDE DEF ra, rb
<1>3. Trie(t1, E, X) /\ Widened(t, t1, new, tip, path, entry)
  BY <1>1, NewWidens
<1> HIDE DEF t1
<1>4. DOMAIN t1 = DOMAIN t \cup {new} /\ branch \notin DOMAIN t1
  BY <1>3 DEF Widened
<1>5. Trie(s1, E, X) /\ Widened(t1, s1, branch, 0, common, NoEntry)
  BY <1>1, <1>3, <1>4, NewWidens
<1> HIDE DEF s1
<1>6. DOMAIN s1 = DOMAIN t \cup {new, branch} /\ tip # branch /\ tip # new /\ old # branch /\ old # new
  BY <1>4, <1>5 DEF Widened
<1>7. Trie(s2, E, X) /\ Moved(s1, s2, new, branch, ra)
  BY <1>2, <1>5, <1>6, HangMoves
<1> HIDE DEF s2
<1>8. DOMAIN s2 = DOMAIN s1
  BY <1>7 DEF Moved
<1>9. Trie(s3, E, X) /\ Moved(s2, s3, old, branch, rb)
  BY <1>2, <1>6, <1>7, <1>8, HangMoves
<1> HIDE DEF s3
<1>10. DOMAIN s3 = DOMAIN s1
  BY <1>8, <1>9 DEF Moved
<1>11. Moved(s3, v, branch, tip, common)
  BY <1>1, <1>6, <1>9, <1>10, HangMoves
<1> HIDE DEF v
<1>12. DOMAIN v = DOMAIN t \cup {new, branch}
  BY <1>6, <1>10, <1>11 DEF Moved
<1>13. SameLinks(t, v, S)
  <2>1. SameLinks(t, t1, S) /\ SameLinks(t1, s1, S) /\ SameLinks(s1, s2, S)
        /\ SameLinks(s2, s3, S) /\ SameLinks(s3, v, S)
    BY <1>3, <1>4, <1>5, <1>6, <1>7, <1>8, <1>9, <1>10, <1>11 DEF Widened, Moved, SameLinks
  <2> HIDE DEF S
  <2>2. SameLinks(t, s1, S)
    BY <2>1, SameThrough
  <2>3. SameLinks(t, s2, S)
    BY <2>1, <2>2, SameThrough
  <2>4. SameLinks(t, s3, S)
    BY <2>1, <2>3, SameThrough
  <2> QED
    BY <2>1, <2>4, SameThrough
<1>14. SameEntries(t, v) /\ HasEntry(v, new, entry) /\ HasEntry(v, branch, NoEntry)
  <2>1. SameEntries(t, t1) /\ SameEntries(t1, s1) /\ SameEntries(s1, s2) /\ SameEntries(s2, s3) /\ SameEntries(s3, v)
        /\ HasEntry(t1, new, entry) /\ HasEntry(s1, branch, NoEntry)
    BY <1>3, <1>5, <1>7, <1>9, <1>11 DEF Widened, Moved
  <2>2. SameEntries(s2, v)
    BY <1>8, <1>10, <2>1, EntriesThrough
  <2>3. SameEntries(s1, v)
    BY <1>8, <2>1, <2>2, EntriesThrough
  <2>4. SameEntries(t1, v)
    BY <1>4, <1>6, <2>1, <2>3, EntriesThrough
  <2>5. SameEntries(t, v)
    BY <1>4, <2>1, <2>4, EntriesThrough
  <2> QED
    BY <1>4, <1>6, <2>1, <2>3, <2>4, <2>5, EntryThrough
<1>15. Linked(v, branch, tip, common) /\ Linked(v, old, branch, rb) /\ Linked(v, new, branch, ra)
  <2>1. Linked(s3, old, branch, rb) /\ SameLink(s3, v, old) /\ Linked(v, branch, tip, common)
    BY <1>6, <1>9, <1>10, <1>11 DEF Moved, SameLinks
  <2>2. Linked(s2, new, branch, ra) /\ SameLink(s2, s3, new) /\ SameLink(s3, v, new)
    BY <1>6, <1>7, <1>8, <1>9, <1>10, <1>11 DEF Moved, SameLinks
  <2>3. Linked(s3, new, branch, ra)
    BY <2>2, LinkThrough
  <2> QED
    BY <2>1, <2>2, <2>3, LinkThrough
<1>16. Between(t, v, tip, path, new, old, branch, common)
  BY <1>1, <1>12, <1>13, <1>14, <1>15 DEF Between, ra, rb
<1>17. Joined(t, v, tip, path, entry, new)
  BY <1>14, <1>16 DEF Joined
<1> QED
  BY <1>17 DEF v, s3, s2, s1, t1, ra, rb, Branched, WithNew

(* No node of t continues the walk from n along path.                      *)
Stops(t, n, path) ==
  path[1] \in DOMAIN t[n].forks => ~ IsPrefix(t[t[n].forks[path[1]]].path, path)

(* Where path, which does not lead to old, and the path of old part.       *)
LEMMA Parting ==
  ASSUME NEW path \in ShortPath, NEW b, Starts(path, b), NEW op \in ShortPath, Starts(op, b),
         ~ IsPrefix(op, path)
  PROVE  LET common == LongestCommonPrefix({path, op}) IN
         /\ common \in ShortPath /\ Starts(common, b)
         /\ Len(common) <= Len(path) /\ Len(common) < Len(op)
         /\ Len(common) < Len(path) => path[Len(common) + 1] # op[Len(common) + 1]
         /\ Len(common) = Len(path) => common = path
         /\ IsPrefix(common, path) /\ IsPrefix(common, op)
<1> DEFINE common == LongestCommonPrefix({path, op})
<1>1. /\ path \in Seq(Bytes) /\ op \in Seq(Bytes)
      /\ Len(path) \in 1..MaxPrefixLength /\ Len(op) \in 1..MaxPrefixLength
  BY DEF ShortPath
<1>2. /\ common \in Seq(Bytes) /\ IsPrefix(common, path) /\ IsPrefix(common, op)
      /\ (Len(common) < Len(path) /\ Len(common) < Len(op)) =>
           path[Len(common) + 1] # op[Len(common) + 1]
  BY <1>1, CommonPrefix
<1> HIDE DEF common
<1>3. /\ Len(common) <= Len(path) /\ Len(common) <= Len(op) /\ Len(common) \in Nat
      /\ \A i \in 1..Len(common) : common[i] = path[i]
  BY <1>1, <1>2, PrefixIs, LenProperties
<1>4. Len(common) # Len(op)
  <2>1. SUFFICES ASSUME Len(common) = Len(op) PROVE FALSE
    OBVIOUS
  <2>2. common = op
    BY <1>1, <1>2, <2>1, SamePath
  <2> QED
    BY <1>2, <2>2
<1>5. Len(common) # 0
  <2>1. SUFFICES ASSUME Len(common) = 0 PROVE FALSE
    OBVIOUS
  <2>2. path[1] # op[1]
    BY <1>1, <1>2, <2>1
  <2> QED
    BY <2>2 DEF Starts
<1>6. common \in ShortPath
  BY <1>1, <1>2, <1>3, <1>5, ConstantsAssumption DEF ShortPath
<1>7. Starts(common, b)
  BY <1>3, <1>5 DEF Starts
<1>8. Len(common) = Len(path) => common = path
  BY <1>1, <1>2, SamePath
<1> QED
  BY <1>1, <1>2, <1>3, <1>4, <1>6, <1>7, <1>8 DEF common

(* A trie with other addresses hangs together in the same way.             *)
Similar(w, v) == DOMAIN v = DOMAIN w /\ SameLinks(w, v, DOMAIN w) /\ SameEntries(w, v)

LEMMA InvalidateSimilar ==
  ASSUME NEW t, NEW E, NEW X, Trie(t, E, X), NEW m
  PROVE  Similar(t, Invalidate(t, m))
<1> DEFINE u == Invalidate(t, m)
<1>1. /\ DOMAIN u = DOMAIN t
      /\ \A n \in DOMAIN t : u[n].path = t[n].path /\ u[n].forks = t[n].forks /\ u[n].parent = t[n].parent
  BY InvalidateChanges
<1>2. ASSUME NEW n \in DOMAIN t PROVE u[n].entry = t[n].entry
  <2>1. t[n] = [path |-> t[n].path, entry |-> t[n].entry, forks |-> t[n].forks,
                self |-> t[n].self, parent |-> t[n].parent]
    BY TrieNode DEF Node
  <2> QED
    BY <2>1 DEF Invalidate
<1> HIDE DEF u
<1> QED
  BY <1>1, <1>2 DEF u, Similar, SameLinks, SameLink, SameEntries

LEMMA JoinedThrough ==
  ASSUME NEW t, NEW w, NEW v, NEW tip, NEW path, NEW entry, NEW new \in DOMAIN w,
         Joined(t, w, tip, path, entry, new), Similar(w, v)
  PROVE  Joined(t, v, tip, path, entry, new)
<1>1. /\ DOMAIN v = DOMAIN w /\ SameLinks(w, v, DOMAIN w) /\ SameEntries(w, v)
      /\ new \notin DOMAIN t /\ HasEntry(w, new, entry) /\ SameEntries(t, w)
  BY DEF Joined, Similar
<1>2. HasEntry(v, new, entry)
  BY <1>1, EntryThrough
<1>3. CASE DOMAIN w = DOMAIN t \cup {new} /\ SameLinks(t, w, DOMAIN t) /\ Linked(w, new, tip, path)
  <2>1. SameEntries(t, v)
    BY <1>1, <1>3, EntriesThrough
  <2>2. SameLinks(w, v, DOMAIN t) /\ SameLink(w, v, new)
    BY <1>1, <1>3 DEF SameLinks
  <2>3. SameLinks(t, v, DOMAIN t) /\ Linked(v, new, tip, path)
    BY <1>3, <2>2, SameThrough, LinkThrough
  <2> QED
    BY <1>1, <1>2, <1>3, <2>1, <2>3 DEF Joined
<1>4. CASE \E old, top, c : Between(t, w, tip, path, new, old, top, c)
  <2>1. PICK old, top, c : Between(t, w, tip, path, new, old, top, c)
    BY <1>4
  <2>2. DOMAIN w = DOMAIN t \cup {new, top} /\ old \in DOMAIN t
    BY <2>1 DEF Between
  <2>3. SameEntries(t, v)
    BY <1>1, <2>2, EntriesThrough
  <2>4. SameLinks(w, v, DOMAIN t \ {old}) /\ SameLink(w, v, new) /\ SameLink(w, v, top) /\ SameLink(w, v, old)
    BY <1>1, <2>2 DEF SameLinks
  <2>5. SameLinks(t, w, DOMAIN t \ {old})
    BY <2>1 DEF Between
  <2>6. SameLinks(t, v, DOMAIN t \ {old})
    BY <2>4, <2>5, SameThrough
  <2>7. Linked(v, top, tip, c) /\ Linked(v, old, top, Rest(t[old].path, Len(c)))
    BY <2>1, <2>4, LinkThrough DEF Between
  <2>8. \/ top = new /\ c = path
        \/ top # new /\ Linked(v, new, top, Rest(path, Len(c))) /\ HasEntry(v, top, NoEntry)
    <3>1. CASE top = new
      BY <2>1, <3>1 DEF Between
    <3>2. CASE top # new
      <4>1. Linked(w, new, top, Rest(path, Len(c))) /\ HasEntry(w, top, NoEntry)
        BY <2>1, <3>2 DEF Between
      <4> QED
        BY <1>1, <2>2, <2>4, <3>2, <4>1, LinkThrough, EntryThrough
    <3> QED
      BY <3>1, <3>2
  <2>9. Between(t, v, tip, path, new, old, top, c)
    BY <1>1, <2>1, <2>6, <2>7, <2>8 DEF Between
  <2> QED
    BY <1>1, <1>2, <2>3, <2>9 DEF Joined
<1> QED
  BY <1>3, <1>4 DEF Joined

LEMMA AttachStands ==
  ASSUME NEW t, NEW E, NEW X, Trie(t, E, X), Standing(t), NEW tip \in DOMAIN t,
         NEW path \in ShortPath, NEW entry \in E, NoEntry \in E, Stops(t, tip, path)
  PROVE  LET a == Attach(t, tip, path, entry) IN
         /\ Trie(a.trie, E, X) /\ Standing(a.trie)
         /\ a.tip \in DOMAIN a.trie /\ DOMAIN t \subseteq DOMAIN a.trie
         /\ Joined(t, a.trie, tip, path, entry, a.tip)
<1> DEFINE new == Fresh(t)
           t1 == Put(t, new, NewNode(path, entry, tip))
           b == path[1]
           old == t[tip].forks[b]
           split == SplitForks(t1, new, old)
           w == IF b \in DOMAIN t[tip].forks
                THEN Hang(split.trie, tip, split.top, split.trie[split.top].path)
                ELSE Hang(t1, tip, new, path)
           a == Attach(t, tip, path, entry)
<1>1. a = [tip |-> new, trie |-> Invalidate(w, tip)]
  BY DEF Attach
<1>2. new \in Nat \ {0} /\ new \notin DOMAIN t
  BY FreshNumber DEF Trie
<1>3. SUFFICES /\ Trie(w, E, X) /\ Standing(w) /\ new \in DOMAIN w /\ DOMAIN t \subseteq DOMAIN w
               /\ Joined(t, w, tip, path, entry, new)
  <2> HIDE DEF w, new, a
  <2> DEFINE v == Invalidate(w, tip)
  <2>1. /\ Trie(v, E, X) /\ DOMAIN v = DOMAIN w
        /\ \A n \in DOMAIN w : v[n].path = w[n].path /\ v[n].forks = w[n].forks /\ v[n].parent = w[n].parent
    BY <1>3, InvalidateChanges
  <2> HIDE DEF v
  <2>2. PICK h \in [Nat -> Nat], top \in Nat : Sound(w, h) /\ \A n \in DOMAIN w : h[n] <= top
    BY <1>3 DEF Standing
  <2>3. 1 \in DOMAIN w
    BY <1>3 DEF Trie
  <2>4. Sound(v, h)
    BY <2>1, <2>2, <2>3, OpenSame DEF Sound
  <2>5. Standing(v)
    BY <2>1, <2>2, <2>4 DEF Standing
  <2>6. a.trie = v /\ a.tip = new
    BY <1>1 DEF v
  <2>7. Similar(w, v)
    BY <1>3, InvalidateSimilar DEF v
  <2>8. Joined(t, v, tip, path, entry, new)
    BY <1>3, <2>7, JoinedThrough
  <2> QED
    BY <1>3, <2>1, <2>5, <2>6, <2>8 DEF a
<1>4. CASE b \notin DOMAIN t[tip].forks
  <2>1. w = Hang(t1, tip, new, path)
    BY <1>4
  <2>2. Grown(t, {new}, Hang(WithNew(t, new, path, entry, tip), tip, new, path), E, X)
    <3> HIDE DEF new
    <3> QED
      BY <1>2, <1>4, AttachFree
  <2>3. Grown(t, {new}, w, E, X)
    BY <2>1, <2>2 DEF WithNew
  <2>4. Joined(t, Hang(WithNew(t, new, path, entry, tip), tip, new, path), tip, path, entry, new)
    <3> HIDE DEF new
    <3> QED
      BY <1>2, FreeJoined
  <2>5. Joined(t, w, tip, path, entry, new)
    BY <2>1, <2>4 DEF WithNew
  <2> HIDE DEF new, w
  <2> QED
    BY <2>3, <2>5 DEF Grown
<1>5. CASE b \in DOMAIN t[tip].forks
  <2>1. Leads(t, tip, b, old) /\ Starts(path, b)
    BY <1>5 DEF Leads, Starts
  <2>2. w = Hang(split.trie, tip, split.top, split.trie[split.top].path)
    BY <1>5
  <2>3. PICK h \in [Nat -> Nat], top \in Nat : Sound(t, h)
    BY DEF Standing
  <2>4. /\ old \in DOMAIN t /\ t[old].path \in ShortPath /\ Starts(t[old].path, b)
        /\ old # 1 /\ old # tip /\ t[old].parent = tip
    <3> HIDE DEF b, old
    <3>1. /\ Open(t, {old}, tip, b, h) /\ old \in DOMAIN t /\ old # 1
          /\ t[old].path \in ShortPath /\ Starts(t[old].path, b) /\ t[old].parent = tip /\ h[old] < h[tip]
      BY <2>1, <2>3, Loosen
    <3>2. tip \in Nat
      BY TrieNode
    <3>3. h[tip] \in Nat
      BY <3>2
    <3> QED
      BY <3>1, <3>3
  <2>5. ~ IsPrefix(t[old].path, path)
    BY <1>5 DEF Stops
  <2> DEFINE op == t[old].path
             common == LongestCommonPrefix({path, op})
  <2>6. op \in ShortPath /\ Starts(op, b)
    BY <2>4
  <2>7. NewNodeFacts(t, new, path, entry, tip)
    <3> HIDE DEF new
    <3>1. tip \in Nat /\ path \in Seq(Bytes)
      BY TrieNode DEF ShortPath
    <3> QED
      BY <1>2, <3>1, NewNodeTrie
  <2>8. t1[new].path = path /\ t1[old].path = op /\ DOMAIN t1 = DOMAIN t \cup {new}
    BY <2>4, <2>7 DEF NewNodeFacts
  <2> HIDE DEF new
  <2>9. /\ common \in ShortPath /\ Starts(common, b)
        /\ Len(common) <= Len(path) /\ Len(common) < Len(op)
        /\ Len(common) < Len(path) => path[Len(common) + 1] # op[Len(common) + 1]
        /\ Len(common) = Len(path) => common = path
        /\ IsPrefix(common, path) /\ IsPrefix(common, op)
    <3> HIDE DEF op, old, b
    <3> QED
      BY <2>1, <2>5, <2>6, Parting DEF op
  <2> DEFINE branch == Fresh(t1)
             s1 == Put(t1, branch, NewNode(common, NoEntry, 0))
             s2 == Hang(s1, branch, new, Rest(path, Len(common)))
             s3 == Hang(s2, branch, old, Rest(op, Len(common)))
             u == Hang(t1, new, old, Rest(op, Len(path)))
  <2>10. split = CASE Len(common) = Len(path) -> [trie |-> Hang(t1, new, old, Rest(op, Len(common))), top |-> new]
                   [] Len(common) = Len(op) /\ Len(common) < Len(path) ->
                        [trie |-> Hang(t1, old, new, Rest(path, Len(common))), top |-> old]
                   [] OTHER -> [trie |-> s3, top |-> branch]
    <3> HIDE DEF t1, op
    <3> QED
      BY <2>8 DEF SplitForks
  <2>11. Len(common) \in Nat /\ Len(path) \in Nat /\ Len(op) \in Nat
    <3> HIDE DEF common, op
    <3> QED
      BY <2>6, <2>9, LenProperties DEF ShortPath
  <2>12. CASE Len(common) = Len(path)
    <3>1. split = [trie |-> u, top |-> new]
      <4> HIDE DEF split, t1, old, common, op
      <4> QED
        BY <2>10, <2>12
    <3>2. w = Hang(u, tip, new, u[new].path)
      <4> HIDE DEF split, w, u
      <4> QED
        BY <2>2, <3>1
    <3>3. Shorter(path, t[old].path)
      BY <2>9, <2>12 DEF Shorter
    <3>4. HasPath(u, new, path) /\ Grown(t, {new}, Hang(u, tip, new, path), E, X)
      <4>1. Lowered(t, new, path, entry, tip, old) = u
        BY DEF Lowered, WithNew
      <4> HIDE DEF b, old, u
      <4> QED
        BY <1>2, <2>1, <3>3, <4>1, AttachAbove
    <3>5. Joined(t, Hang(u, tip, new, path), tip, path, entry, new)
      <4>1. Lowered(t, new, path, entry, tip, old) = u
        BY DEF Lowered, WithNew
      <4>2. IsPrefix(path, t[old].path)
        <5> HIDE DEF common, old
        <5> QED
          BY <2>9, <2>12
      <4> HIDE DEF b, old, u
      <4> QED
        BY <1>2, <2>4, <3>3, <4>1, <4>2, AboveJoined
    <3> HIDE DEF w, u
    <3> QED
      BY <3>2, <3>4, <3>5 DEF Grown, HasPath
  <2>13. CASE Len(common) # Len(path)
    <3>1. Len(common) < Len(path) /\ Len(common) < Len(op)
      <4> HIDE DEF common, op
      <4> QED
        BY <2>9, <2>11, <2>13
    <3>2. split = [trie |-> s3, top |-> branch]
      <4>1. Len(common) # Len(path) /\ Len(common) # Len(op)
        <5> DEFINE lc == Len(common)
                   lo == Len(op)
        <5>1. lc < Len(path) /\ lc < lo /\ lc \in Nat /\ lo \in Nat
          BY <2>11, <3>1
        <5>2. Len(path) \in Nat
          BY <2>11
        <5> HIDE DEF lc, lo
        <5>3. lc # Len(path) /\ lc # lo
          BY <5>1, <5>2
        <5> QED
          BY <5>3 DEF lc, lo
      <4> HIDE DEF split, s3, branch, t1, old, common, op
      <4> QED
        BY <2>10, <4>1
    <3>3. w = Hang(s3, tip, branch, s3[branch].path)
      <4> HIDE DEF split, w, s3, branch
      <4> QED
        BY <2>2, <3>2
    <3>4. branch \in Nat \ {0} /\ branch \notin DOMAIN t /\ branch # new
      <4>1. IsFiniteSet(DOMAIN t1)
        <5> HIDE DEF t1
        <5> QED
          BY <2>8, FS_AddElement DEF Trie
      <4> HIDE DEF t1
      <4> QED
        BY <2>8, <4>1, FreshNumber
    <3>5. HasPath(s3, branch, common) /\ Grown(t, {new, branch}, Hang(s3, tip, branch, common), E, X)
      <4>1. Branched(t, new, path, entry, tip, old, common, branch) = s3
        BY DEF Branched, WithNew
      <4>2. PartsFrom(t, old, common, path)
        BY <2>9, <3>1 DEF Part, Shorter, PartsFrom
      <4>3. common \in ShortPath /\ Starts(common, b)
        BY <2>9
      <4> HIDE DEF b, old, common, branch, s3
      <4> QED
        BY <1>2, <2>1, <3>4, <4>1, <4>2, <4>3, AttachBranch
    <3>6. Joined(t, Hang(s3, tip, branch, common), tip, path, entry, new)
      <4>1. Branched(t, new, path, entry, tip, old, common, branch) = s3
        BY DEF Branched, WithNew
      <4>2. PartsFrom(t, old, common, path)
        BY <2>9, <3>1 DEF Part, Shorter, PartsFrom
      <4>3. common \in ShortPath /\ IsPrefix(common, path) /\ IsPrefix(common, t[old].path)
        BY <2>9
      <4> HIDE DEF b, old, common, branch, s3
      <4> QED
        BY <1>2, <2>4, <3>4, <4>1, <4>2, <4>3, BranchJoined
    <3> HIDE DEF w, s3
    <3> QED
      BY <3>3, <3>5, <3>6 DEF Grown, HasPath
  <2> QED
    BY <2>12, <2>13
<1> QED
  BY <1>4, <1>5

-----------------------------------------------------------------------------
(* The walk of FindClosest.                                                *)

(* The walk along path goes on from node m, with k bytes behind it, to the *)
(* node below.                                                             *)
Continues(t, path, m, k) ==
  /\ k < Len(path)
  /\ path[k+1] \in DOMAIN t[m].forks
  /\ IsPrefix(t[t[m].forks[path[k+1]]].path, Rest(path, k))

Onward(t, path, m, k) == t[m].forks[path[k+1]]
Beyond(t, path, m, k) == k + Len(t[Onward(t, path, m, k)].path)

WalkFrom(t, path, f, m, k) ==
  IF Continues(t, path, m, k) THEN f[Beyond(t, path, m, k)][Onward(t, path, m, k)]
  ELSE [node |-> m, matched |-> k]

(* What a fork of a sound trie leads to.                                   *)
Child(t, n, x, c) ==
  c \in DOMAIN t /\ c # 1 /\ t[c].path \in ShortPath /\ Starts(t[c].path, x) /\ t[c].parent = n

LEMMA ForkLeads ==
  ASSUME NEW t, NEW E, NEW X, Trie(t, E, X), Standing(t), NEW n \in DOMAIN t, NEW x \in DOMAIN t[n].forks
  PROVE  Child(t, n, x, t[n].forks[x])
<1> DEFINE c == t[n].forks[x]
<1>1. Leads(t, n, x, c)
  BY DEF Leads
<1> HIDE DEF c
<1>2. PICK h \in [Nat -> Nat], top \in Nat : Sound(t, h) /\ \A m \in DOMAIN t : h[m] <= top
  BY DEF Standing
<1>a. Sound(t, h)
  BY <1>2
<1>b. /\ Open(t, {c}, n, x, h) /\ c \in DOMAIN t /\ c # 1
      /\ t[c].path \in ShortPath /\ Starts(t[c].path, x) /\ t[c].parent = n /\ h[c] < h[n]
  BY <1>1, <1>a, Loosen
<1>3. Child(t, n, x, c)
  BY <1>b DEF Child
<1> QED
  BY <1>3 DEF c

LEMMA WalkGoesOn ==
  ASSUME NEW t, NEW E, NEW X, Trie(t, E, X), Standing(t), NEW path \in Seq(Bytes),
         NEW m \in DOMAIN t, NEW k \in 0..Len(path), Continues(t, path, m, k)
  PROVE  /\ Onward(t, path, m, k) \in DOMAIN t
         /\ Beyond(t, path, m, k) \in (k + 1)..Len(path)
<1> DEFINE x == path[k+1]
           c == t[m].forks[x]
<1>1. x \in DOMAIN t[m].forks /\ IsPrefix(t[c].path, Rest(path, k))
  BY DEF Continues
<1>2. Child(t, m, x, c)
  BY <1>1, ForkLeads
<1>3. c = Onward(t, path, m, k) /\ Beyond(t, path, m, k) = k + Len(t[c].path)
  BY DEF Onward, Beyond
<1> HIDE DEF c, x
<1>4. c \in DOMAIN t /\ t[c].path \in Seq(Bytes) /\ Len(t[c].path) \in Nat \ {0}
  BY <1>2, ConstantsAssumption DEF Child, ShortPath
<1>5. Rest(path, k) \in Seq(Bytes) /\ Len(Rest(path, k)) = Len(path) - k /\ Len(path) \in Nat
  BY RestProperties, LenProperties
<1>6. Len(t[c].path) <= Len(path) - k
  BY <1>1, <1>4, <1>5, PrefixIs
<1> DEFINE l == Len(t[c].path)
<1>7. l \in Nat \ {0} /\ l <= Len(path) - k
  BY <1>4, <1>6
<1> HIDE DEF l
<1>8. k + l \in (k + 1)..Len(path)
  BY <1>5, <1>7
<1> QED
  BY <1>3, <1>4, <1>8 DEF l

(* f is the walk from nodes with at least k bytes behind them.             *)
IsWalk(t, path, k, f) ==
  f = [i \in k..Len(path) |-> [m \in DOMAIN t |-> WalkFrom(t, path, f, m, i)]]

LEMMA WalkExists ==
  ASSUME NEW t, NEW E, NEW X, Trie(t, E, X), Standing(t), NEW path \in Seq(Bytes)
  PROVE  \E f : IsWalk(t, path, 0, f)
<1> DEFINE n == Len(path)
           Bad == {j \in 0..(n + 1) : ~ \E f : IsWalk(t, path, n + 1 - j, f)}
<1>1. n \in Nat
  BY LenProperties
<1>2. SUFFICES ASSUME Bad # {} PROVE FALSE
  <2>1. n + 1 \in 0..(n + 1) /\ n + 1 - (n + 1) = 0
    BY <1>1
  <2>2. n + 1 \notin Bad
    BY <1>2
  <2> QED
    BY <2>1, <2>2
<1>3. PICK j \in Bad : \A i \in Bad : j <= i
  <2>1. Bad \in SUBSET Nat
    BY <1>1
  <2> HIDE DEF Bad
  <2> QED
    BY <1>2, <2>1, LeastNatural
<1>4. j # 0
  <2>1. SUFFICES ASSUME j = 0 PROVE FALSE
    OBVIOUS
  <2> DEFINE f == [i \in (n + 1)..n |-> {}]
  <2>2. (n + 1)..n = {}
    BY <1>1
  <2>3. IsWalk(t, path, n + 1, f)
    BY <2>2 DEF IsWalk
  <2>4. n + 1 - j = n + 1
    BY <1>1, <2>1
  <2> QED
    BY <2>3, <2>4
<1>5. j - 1 \in 0..(n + 1) /\ j - 1 \notin Bad /\ n + 1 - (j - 1) = n + 1 - j + 1 /\ n + 1 - j \in 0..n
  BY <1>1, <1>3, <1>4
<1>6. PICK k : k = n + 1 - j
  OBVIOUS
<1>7. PICK f : IsWalk(t, path, k + 1, f)
  BY <1>5, <1>6
<1>8. k \in 0..n
  BY <1>5, <1>6
<1> HIDE DEF Bad
<1> DEFINE g == [i \in k..n |-> IF i = k THEN [m \in DOMAIN t |-> WalkFrom(t, path, f, m, k)] ELSE f[i]]
<1>9. /\ DOMAIN g = k..n /\ g[k] = [m \in DOMAIN t |-> WalkFrom(t, path, f, m, k)]
      /\ \A i \in (k + 1)..n : g[i] = f[i]
  BY <1>1, <1>8
<1>a. g = [i \in k..n |-> g[i]]
  OBVIOUS
<1> HIDE DEF g
<1>10. ASSUME NEW i \in k..n, NEW m \in DOMAIN t
       PROVE  WalkFrom(t, path, f, m, i) = WalkFrom(t, path, g, m, i)
  <2>1. CASE ~ Continues(t, path, m, i)
    BY <2>1 DEF WalkFrom
  <2>2. CASE Continues(t, path, m, i)
    <3>1. i \in 0..Len(path)
      BY <1>1, <1>8
    <3> DEFINE b == Beyond(t, path, m, i)
    <3>2. b \in (i + 1)..n
      BY <2>2, <3>1, WalkGoesOn
    <3> HIDE DEF b
    <3>3. b \in (k + 1)..n
      BY <1>1, <1>8, <3>2
    <3>4. g[b] = f[b]
      BY <1>9, <3>3
    <3> QED
      BY <2>2, <3>4 DEF WalkFrom, b
  <2> QED
    BY <2>1, <2>2
<1>11. ASSUME NEW i \in k..n PROVE g[i] = [m \in DOMAIN t |-> WalkFrom(t, path, g, m, i)]
  <2>1. CASE i = k
    <3>1. [m \in DOMAIN t |-> WalkFrom(t, path, f, m, i)] = [m \in DOMAIN t |-> WalkFrom(t, path, g, m, i)]
      BY <1>10
    <3> QED
      BY <1>9, <2>1, <3>1
  <2>2. CASE i # k
    <3>1. i \in (k + 1)..n
      BY <1>1, <1>8, <2>2
    <3>2. f[i] = [m \in DOMAIN t |-> WalkFrom(t, path, f, m, i)]
      BY <1>7, <3>1 DEF IsWalk
    <3>3. [m \in DOMAIN t |-> WalkFrom(t, path, f, m, i)] = [m \in DOMAIN t |-> WalkFrom(t, path, g, m, i)]
      BY <1>10
    <3> QED
      BY <1>9, <3>1, <3>2, <3>3
  <2> QED
    BY <2>1, <2>2
<1>12. g = [i \in k..n |-> [m \in DOMAIN t |-> WalkFrom(t, path, g, m, i)]]
  <2> DEFINE W(i) == [m \in DOMAIN t |-> WalkFrom(t, path, g, m, i)]
  <2>1. \A i \in k..n : g[i] = W(i)
    BY <1>11
  <2> HIDE DEF W
  <2>2. [i \in k..n |-> g[i]] = [i \in k..n |-> W(i)]
    BY <2>1
  <2>3. g = [i \in k..n |-> W(i)]
    BY <1>a, <2>2
  <2> QED
    BY <2>3 DEF W
<1>13. IsWalk(t, path, k, g)
  BY <1>12 DEF IsWalk
<1> QED
  BY <1>3, <1>6, <1>13 DEF Bad

LEMMA WalkLaw ==
  ASSUME NEW t, NEW E, NEW X, Trie(t, E, X), Standing(t), NEW path \in Seq(Bytes)
  PROVE  \A k \in 0..Len(path), m \in DOMAIN t :
           Closest(t, path)[k][m] = WalkFrom(t, path, Closest(t, path), m, k)
<1> DEFINE W(f) == [k \in 0..Len(path) |-> [m \in DOMAIN t |-> WalkFrom(t, path, f, m, k)]]
           w == Closest(t, path)
<1>1. w = CHOOSE f : f = W(f)
  BY DEF Closest, WalkFrom, Continues, Onward, Beyond
<1>2. \E f : f = W(f)
  BY WalkExists DEF IsWalk
<1> HIDE DEF w
<1>3. w = W(w)
  <2> HIDE DEF W
  <2> QED
    BY <1>1, <1>2
<1>4. ASSUME NEW k \in 0..Len(path), NEW m \in DOMAIN t PROVE w[k][m] = WalkFrom(t, path, w, m, k)
  <2>1. w[k] = [i \in DOMAIN t |-> WalkFrom(t, path, w, i, k)]
    BY <1>3
  <2> QED
    BY <2>1
<1> QED
  BY <1>4 DEF w

(* Where the walk along path from m, with k bytes behind it, may end.      *)
WalkEnd(t, path, m, k, r) ==
  /\ r.node \in DOMAIN t /\ r.matched \in k..Len(path)
  /\ ~ Continues(t, path, r.node, r.matched)

LEMMA WalkEnds ==
  ASSUME NEW t, NEW E, NEW X, Trie(t, E, X), Standing(t), NEW path \in Seq(Bytes),
         NEW m \in DOMAIN t, NEW k \in 0..Len(path)
  PROVE  WalkEnd(t, path, m, k, Closest(t, path)[k][m])
<1> DEFINE n == Len(path)
           w == Closest(t, path)
           Bad == {j \in 0..n : \E i \in DOMAIN t : ~ WalkEnd(t, path, i, n - j, w[n - j][i])}
<1>1. n \in Nat
  BY LenProperties
<1>2. SUFFICES ASSUME Bad # {} PROVE FALSE
  <2>1. n - k \in 0..n /\ n - (n - k) = k
    BY <1>1
  <2>2. n - k \notin Bad
    BY <1>2
  <2> QED
    BY <2>1, <2>2
<1>3. PICK j \in Bad : \A i \in Bad : j <= i
  <2>1. Bad \in SUBSET Nat
    BY <1>1
  <2> HIDE DEF Bad
  <2> QED
    BY <1>2, <2>1, LeastNatural
<1>4. PICK q : q = n - j
  OBVIOUS
<1>5. q \in 0..n
  BY <1>1, <1>4
<1>6. PICK i \in DOMAIN t : ~ WalkEnd(t, path, i, q, w[q][i])
  BY <1>4
<1>7. w[q][i] = WalkFrom(t, path, w, i, q)
  BY <1>5, WalkLaw
<1>8. CASE ~ Continues(t, path, i, q)
  <2>1. w[q][i] = [node |-> i, matched |-> q]
    BY <1>7, <1>8 DEF WalkFrom
  <2>2. WalkEnd(t, path, i, q, [node |-> i, matched |-> q])
    BY <1>1, <1>5, <1>8 DEF WalkEnd
  <2> QED
    BY <1>6, <2>1, <2>2
<1>9. CASE Continues(t, path, i, q)
  <2> DEFINE c == Onward(t, path, i, q)
             b == Beyond(t, path, i, q)
  <2>1. c \in DOMAIN t /\ b \in (q + 1)..n
    BY <1>5, <1>9, WalkGoesOn
  <2>2. w[q][i] = w[b][c]
    BY <1>7, <1>9 DEF WalkFrom
  <2> HIDE DEF b, c
  <2>3. n - b \in 0..n /\ n - b < j /\ n - (n - b) = b
    BY <1>1, <1>4, <1>5, <2>1
  <2>4. n - b \notin Bad
    BY <1>1, <1>3, <2>3
  <2>5. WalkEnd(t, path, c, b, w[b][c])
    BY <2>1, <2>3, <2>4
  <2> DEFINE r == w[b][c]
  <2> HIDE DEF w
  <2>6. r.node \in DOMAIN t /\ r.matched \in b..n /\ ~ Continues(t, path, r.node, r.matched)
    BY <2>5 DEF WalkEnd
  <2> HIDE DEF r
  <2>7. r.matched \in q..n
    BY <1>1, <1>5, <2>1, <2>6
  <2>8. WalkEnd(t, path, i, q, r)
    BY <2>6, <2>7 DEF WalkEnd
  <2> QED
    BY <1>6, <2>2, <2>8 DEF r
<1> QED
  BY <1>8, <1>9

(* What FindClosest finds from n: the walk has ended there.                *)
LEMMA ClosestFound ==
  ASSUME NEW t, NEW E, NEW X, Trie(t, E, X), Standing(t), NEW path \in Seq(Bytes), NEW n \in DOMAIN t
  PROVE  LET r == FindClosest(t, n, path) IN
         /\ r.node \in DOMAIN t /\ r.matched \in 0..Len(path)
         /\ Rest(path, r.matched) # <<>> => Stops(t, r.node, Rest(path, r.matched))
<1> DEFINE r == FindClosest(t, n, path)
<1>1. 0 \in 0..Len(path) /\ Len(path) \in Nat
  BY LenProperties
<1>2. WalkEnd(t, path, n, 0, r)
  BY <1>1, WalkEnds DEF FindClosest
<1> HIDE DEF r
<1>3. r.node \in DOMAIN t /\ r.matched \in 0..Len(path) /\ ~ Continues(t, path, r.node, r.matched)
  BY <1>2 DEF WalkEnd
<1>4. PICK k \in 0..Len(path) : k = r.matched
  BY <1>3
<1>5. ASSUME Rest(path, k) # <<>> PROVE Stops(t, r.node, Rest(path, k))
  <2>1. /\ Rest(path, k) \in Seq(Bytes) /\ Len(Rest(path, k)) = Len(path) - k
        /\ \A i \in 1..(Len(path) - k) : Rest(path, k)[i] = path[k + i]
    BY RestProperties
  <2>2. Len(Rest(path, k)) # 0
    BY <1>5, <2>1, EmptySeq
  <2>3. k < Len(path) /\ 1 \in 1..(Len(path) - k)
    BY <1>1, <2>1, <2>2
  <2>4. Rest(path, k)[1] = path[k + 1]
    BY <2>1, <2>3
  <2>5. ~ Continues(t, path, r.node, k)
    BY <1>3, <1>4
  <2> QED
    BY <2>3, <2>4, <2>5 DEF Stops, Continues
<1> QED
  BY <1>3, <1>4, <1>5 DEF r

-----------------------------------------------------------------------------
(* Adding.                                                                 *)

LEMMA QuotientOf ==
  ASSUME NEW x \in Nat, NEW y \in Nat \ {0}
  PROVE  /\ x \div y \in Nat
         /\ (x \div y) * y <= x
         /\ x < (x \div y) * y + y
OBVIOUS

LEMMA PieceShort ==
  ASSUME NEW path \in Seq(Bytes), NEW a \in Nat, NEW e \in Nat,
         a < e, e <= Len(path), e <= a + MaxPrefixLength
  PROVE  SubSeq(path, a + 1, e) \in ShortPath
<1>1. \A i \in 1..Len(path) : path[i] \in Bytes
  BY ElementOfSeq
<1>2. MaxPrefixLength \in Nat \ {0} /\ Len(path) \in Nat
  BY ConstantsAssumption, LenProperties
<1> DEFINE m == a + 1
<1>3. m \in Int /\ e \in Int /\ m <= e /\ e - m + 1 \in 1..MaxPrefixLength
  BY <1>2
<1>4. \A i \in m..e : path[i] \in Bytes
  BY <1>1, <1>2
<1> HIDE DEF m
<1>5. /\ SubSeq(path, m, e) \in Seq(Bytes)
      /\ Len(SubSeq(path, m, e)) = IF m <= e THEN e - m + 1 ELSE 0
  BY <1>3, <1>4, SubSeqProperties
<1>6. SubSeq(path, m, e) \in ShortPath
  BY <1>3, <1>5 DEF ShortPath
<1> QED
  BY <1>6 DEF m

LEMMA PieceAhead ==
  ASSUME NEW path \in Seq(Bytes), NEW a \in Nat, NEW e \in Nat, a < e, e <= Len(path)
  PROVE  /\ Rest(path, e) \in Seq(Bytes)
         /\ SubSeq(path, a + 1, e) \o Rest(path, e) = Rest(path, a)
         /\ e = Len(path) => Rest(path, e) = <<>>
<1> DEFINE l == Len(path)
           m == a + 1
<1>1. l \in Nat
  BY LenProperties
<1>2. m \in 1..l+1 /\ e \in m-1..l /\ l \in e..l /\ e \in 0..l
  BY <1>1
<1>3. SubSeq(path, m, e) \o SubSeq(path, e + 1, l) = SubSeq(path, m, l)
  <2> HIDE DEF m, l
  <2> QED
    BY <1>2, ConcatAdjacentSubSeq DEF l
<1>4. Rest(path, e) \in Seq(Bytes) /\ Len(Rest(path, e)) = l - e
  BY <1>2, RestProperties
<1>5. ASSUME e = l PROVE Rest(path, e) = <<>>
  <2>1. e + 1 \in Int /\ l \in Int /\ l < e + 1
    BY <1>1, <1>5
  <2> HIDE DEF l
  <2> QED
    BY <2>1, SubSeqEmpty DEF Rest, l
<1> QED
  BY <1>3, <1>4, <1>5 DEF Rest

(* What is ahead of the first i pieces.                                    *)
Ahead(path, i) == IF i = Len(Pieces(path)) THEN <<>> ELSE Rest(path, i * MaxPrefixLength)

(* The pieces of a path are prefixes that a fork can have, and make up the *)
(* path.                                                                   *)
LEMMA PiecesShort ==
  ASSUME NEW path \in Seq(Bytes)
  PROVE  /\ Len(Pieces(path)) \in Nat
         /\ path # <<>> => Len(Pieces(path)) # 0 /\ Ahead(path, 0) = path
         /\ \A i \in 1..Len(Pieces(path)) :
              /\ Pieces(path)[i] \in ShortPath
              /\ Ahead(path, i) \in Seq(Bytes)
              /\ Pieces(path)[i] \o Ahead(path, i) = Ahead(path, i - 1)
<1> DEFINE M == MaxPrefixLength
           l == Len(path)
           n == (l + M - 1) \div M
           from(i) == (i - 1) * M
           to(i) == IF i = n THEN Len(path) ELSE i * M
           piece(i) == SubSeq(path, from(i) + 1, to(i))
<1>1. M \in Nat \ {0} /\ l \in Nat /\ l + M - 1 \in Nat
  BY ConstantsAssumption, LenProperties
<1> HIDE DEF M
<1>2. n \in Nat /\ n * M <= l + M - 1 /\ l + M - 1 < n * M + M
  <2> DEFINE x == l + M - 1
  <2>1. x \in Nat
    BY <1>1
  <2> HIDE DEF x
  <2>2. x \div M \in Nat /\ (x \div M) * M <= x /\ x < (x \div M) * M + M
    BY <1>1, <2>1, QuotientOf
  <2> QED
    BY <2>2 DEF x
<1>3. Pieces(path) = [i \in 1..n |-> piece(i)]
  BY DEF Pieces, M
<1> HIDE DEF l, n
<1>4. ASSUME NEW i \in 1..n
      PROVE  /\ from(i) \in Nat /\ to(i) \in Nat
             /\ from(i) < to(i) /\ to(i) <= l /\ to(i) <= from(i) + M
  <2>1. PICK j \in Nat : i = j + 1
    <3>1. i - 1 \in Nat /\ i = (i - 1) + 1
      BY <1>2
    <3> QED
      BY <3>1
  <2>2. from(i) = j * M /\ i * M = j * M + M
    BY <1>1, <2>1
  <2>3. CASE i = n
    <3> DEFINE a == j * M
    <3>1. a \in Nat /\ n * M = a + M
      BY <1>1, <2>1, <2>2, <2>3
    <3>2. to(i) = l
      BY <2>3 DEF l
    <3> HIDE DEF a
    <3>3. a < l /\ l <= a + M
      BY <1>1, <1>2, <3>1
    <3> QED
      BY <1>1, <2>2, <3>1, <3>2, <3>3 DEF a
  <2>4. CASE i # n
    <3> DEFINE a == j * M
    <3>1. PICK d \in Nat : n = i + 1 + d
      <4>1. n - i - 1 \in Nat /\ n = i + 1 + (n - i - 1)
        BY <1>2, <2>4
      <4> QED
        BY <4>1
    <3>2. a \in Nat /\ d * M \in Nat /\ n * M = a + M + M + d * M
      BY <1>1, <2>1, <3>1
    <3>3. to(i) = a + M
      BY <2>2, <2>4
    <3> DEFINE r == d * M
    <3> HIDE DEF a, r
    <3>4. a + M <= l
      <4>1. n * M = a + M + M + r /\ r \in Nat /\ a \in Nat
        BY <3>2 DEF r
      <4> DEFINE z == n * M
      <4>2. z = a + M + M + r /\ z <= l + M - 1
        BY <1>2, <4>1
      <4> HIDE DEF z
      <4> QED
        BY <1>1, <4>1, <4>2
    <3> QED
      BY <1>1, <2>2, <3>2, <3>3, <3>4 DEF a
  <2> QED
    BY <2>3, <2>4
<1>5. ASSUME NEW i \in 1..n PROVE piece(i) \in ShortPath
  <2> DEFINE a == from(i)
             e == to(i)
  <2>1. a \in Nat /\ e \in Nat /\ a < e /\ e <= Len(path) /\ e <= a + MaxPrefixLength
    BY <1>4 DEF l, M
  <2> HIDE DEF a, e
  <2>2. SubSeq(path, a + 1, e) \in ShortPath
    BY <2>1, PieceShort
  <2> QED
    BY <2>2 DEF a, e
<1> HIDE DEF piece
<1>6. Pieces(path) \in Seq(ShortPath) /\ Len(Pieces(path)) = n
  BY <1>2, <1>3, <1>5
<1>7. ASSUME NEW i \in 1..n
      PROVE  /\ Ahead(path, i) \in Seq(Bytes)
             /\ Pieces(path)[i] \o Ahead(path, i) = Ahead(path, i - 1)
  <2> DEFINE a == from(i)
             e == to(i)
  <2>1. a \in Nat /\ e \in Nat /\ a < e /\ e <= Len(path)
    BY <1>4 DEF l
  <2>2. Pieces(path)[i] = SubSeq(path, a + 1, e)
    BY <1>3 DEF piece
  <2>3. i - 1 # n
    BY <1>2
  <2>4. Ahead(path, i - 1) = Rest(path, a)
    BY <1>6, <2>3 DEF Ahead, M
  <2>5. Ahead(path, i) = IF i = n THEN <<>> ELSE Rest(path, e)
    BY <1>6 DEF Ahead, M
  <2>6. i = n => e = Len(path)
    OBVIOUS
  <2> HIDE DEF a, e
  <2>7. /\ Rest(path, e) \in Seq(Bytes)
        /\ SubSeq(path, a + 1, e) \o Rest(path, e) = Rest(path, a)
        /\ e = Len(path) => Rest(path, e) = <<>>
    BY <2>1, PieceAhead
  <2>8. Ahead(path, i) = Rest(path, e)
    BY <2>5, <2>6, <2>7
  <2> QED
    BY <2>2, <2>4, <2>7, <2>8
<1>8. ASSUME path # <<>> PROVE n # 0 /\ Ahead(path, 0) = path
  <2>1. n # 0
    <3>1. SUFFICES ASSUME n = 0 PROVE FALSE
      OBVIOUS
    <3>2. n * M = 0
      BY <1>1, <3>1
    <3>3. l \in Nat \ {0}
      BY <1>8, EmptySeq DEF l
    <3> QED
      BY <1>1, <1>2, <3>2, <3>3
  <2>2. Ahead(path, 0) = Rest(path, 0)
    <3>1. 0 * MaxPrefixLength = 0
      BY ConstantsAssumption
    <3> QED
      BY <1>6, <2>1, <3>1 DEF Ahead
  <2>3. Rest(path, 0) = path
    BY SubSeqFull DEF Rest
  <2> QED
    BY <2>1, <2>2, <2>3
<1> QED
  BY <1>2, <1>3, <1>5, <1>6, <1>7, <1>8

(* A trie that t has grown into, and the node to add the next piece to.    *)
Grows(t, E, X, w) ==
  /\ w = [trie |-> w.trie, tip |-> w.tip]
  /\ Trie(w.trie, E, X) /\ Standing(w.trie)
  /\ w.tip \in DOMAIN w.trie /\ DOMAIN t \subseteq DOMAIN w.trie

LEMMA AddPieceStands ==
  ASSUME NEW t, NEW E, NEW X, NEW w, Grows(t, E, X, w),
         NEW piece \in ShortPath, NEW entry \in E, NoEntry \in E
  PROVE  Grows(t, E, X, AddPiece(w, piece, entry))
<1> DEFINE u == w.trie
           closest == FindClosest(u, w.tip, piece)
           remaining == Rest(piece, closest.matched)
           a == Attach(u, closest.node, remaining, entry)
<1>1. /\ Trie(u, E, X) /\ Standing(u) /\ w.tip \in DOMAIN u /\ DOMAIN t \subseteq DOMAIN u
      /\ w = [trie |-> u, tip |-> w.tip]
  BY DEF Grows
<1>2. piece \in Seq(Bytes) /\ Len(piece) \in 1..MaxPrefixLength
  BY DEF ShortPath
<1>3. /\ closest.node \in DOMAIN u /\ closest.matched \in 0..Len(piece)
      /\ remaining # <<>> => Stops(u, closest.node, remaining)
  <2> HIDE DEF u
  <2> QED
    BY <1>1, <1>2, ClosestFound
<1>4. AddPiece(w, piece, entry) = IF remaining = <<>> THEN [w EXCEPT !.tip = closest.node] ELSE a
  BY DEF AddPiece
<1>5. a = [tip |-> a.tip, trie |-> a.trie]
  BY DEF Attach
<1> HIDE DEF u, closest
<1>6. remaining \in Seq(Bytes) /\ Len(remaining) = Len(piece) - closest.matched
  BY <1>2, <1>3, RestProperties
<1> HIDE DEF remaining, a
<1>7. CASE remaining = <<>>
  <2> DEFINE v == [trie |-> u, tip |-> closest.node]
  <2>1. [w EXCEPT !.tip = closest.node] = v
    BY <1>1
  <2>2. v.trie = u /\ v.tip = closest.node
    OBVIOUS
  <2>3. AddPiece(w, piece, entry) = v
    BY <1>4, <1>7, <2>1
  <2>4. v = [trie |-> v.trie, tip |-> v.tip]
    OBVIOUS
  <2> HIDE DEF v
  <2>5. Grows(t, E, X, v)
    BY <1>1, <1>3, <2>2, <2>4 DEF Grows
  <2> QED
    BY <2>3, <2>5
<1>8. CASE remaining # <<>>
  <2>1. Len(remaining) # 0
    BY <1>6, <1>8, EmptySeq
  <2>2. remaining \in ShortPath
    BY <1>2, <1>3, <1>6, <2>1, ConstantsAssumption DEF ShortPath
  <2>3. /\ Trie(a.trie, E, X) /\ Standing(a.trie)
        /\ a.tip \in DOMAIN a.trie /\ DOMAIN u \subseteq DOMAIN a.trie
    <3> DEFINE n == closest.node
    <3>1. n \in DOMAIN u /\ Stops(u, n, remaining) /\ a = Attach(u, n, remaining, entry)
      BY <1>3, <1>8 DEF a
    <3> HIDE DEF n
    <3> QED
      BY <1>1, <2>2, <3>1, AttachStands
  <2>4. AddPiece(w, piece, entry) = a
    BY <1>4, <1>8
  <2>5. Grows(t, E, X, a)
    BY <1>1, <1>5, <2>3 DEF Grows
  <2> QED
    BY <2>4, <2>5
<1> QED
  BY <1>7, <1>8

(* The trie and the tip after the first pieces.                            *)
AddWalk(t, n, path, entry, f, i) ==
  IF i = 0 THEN [trie |-> Invalidate(t, n), tip |-> n]
  ELSE AddPiece(f[i-1], Pieces(path)[i], EntryOf(i, Len(Pieces(path)), entry))

AddWalks(t, n, path, entry, f, j) == f = [i \in 0..j |-> AddWalk(t, n, path, entry, f, i)]

LEMMA AddWalksExist ==
  ASSUME NEW t, NEW n, NEW path, NEW entry, NEW j \in Nat
  PROVE  \E f : AddWalks(t, n, path, entry, f, j)
<1> DEFINE Bad == {k \in Nat : ~ \E f : AddWalks(t, n, path, entry, f, k)}
<1> SUFFICES ASSUME Bad # {} PROVE FALSE
  OBVIOUS
<1>1. PICK k \in Bad : \A m \in Bad : k <= m
  BY LeastNatural
<1> DEFINE W(f, i) == AddWalk(t, n, path, entry, f, i)
<1>2. k # 0
  <2> DEFINE v == [trie |-> Invalidate(t, n), tip |-> n]
             f == [i \in 0..0 |-> v]
  <2>1. \A i \in 0..0 : W(f, i) = v
    BY DEF AddWalk
  <2> HIDE DEF W, v
  <2>2. f = [i \in 0..0 |-> W(f, i)]
    BY <2>1
  <2>3. AddWalks(t, n, path, entry, f, 0)
    BY <2>2 DEF AddWalks, W
  <2> QED
    BY <2>3
<1>3. k - 1 \in Nat /\ k - 1 \notin Bad
  BY <1>1, <1>2
<1>4. PICK f : f = [i \in 0..(k - 1) |-> W(f, i)]
  BY <1>3 DEF AddWalks
<1> DEFINE g == [i \in 0..k |-> IF i = k THEN W(f, k) ELSE f[i]]
<1>5. ASSUME NEW i \in 0..k PROVE W(f, i) = W(g, i)
  <2>1. CASE i = 0
    BY <2>1 DEF AddWalk
  <2>2. CASE i # 0
    <3>1. i - 1 \in 0..k /\ i - 1 # k
      BY <1>3, <2>2
    <3>2. g[i-1] = f[i-1]
      BY <3>1
    <3> HIDE DEF g
    <3> QED
      BY <2>2, <3>2 DEF AddWalk
  <2> QED
    BY <2>1, <2>2
<1>6. \A i \in 0..k : g[i] = W(g, i)
  <2>1. ASSUME NEW i \in 0..k, i # k PROVE g[i] = W(f, i)
    <3>1. i \in 0..(k - 1)
      BY <1>3, <2>1
    <3> HIDE DEF W
    <3> QED
      BY <1>4, <3>1
  <2> HIDE DEF W
  <2>2. g[k] = W(f, k)
    BY <1>1
  <2> QED
    BY <1>5, <2>1, <2>2
<1>7. g = [i \in 0..k |-> g[i]]
  OBVIOUS
<1> HIDE DEF g, W
<1>8. g = [i \in 0..k |-> W(g, i)]
  BY <1>6, <1>7
<1>9. AddWalks(t, n, path, entry, g, k)
  BY <1>8 DEF AddWalks, W
<1> QED
  BY <1>1, <1>9

(* AddFork of a path that is not too long or of one that is: the trie      *)
(* stays a trie, and grows.                                                *)
LEMMA AddStands ==
  ASSUME NEW t, NEW E, NEW X, Trie(t, E, X), Standing(t), NEW n \in DOMAIN t,
         NEW path \in Seq(Bytes), NEW entry \in E, NoEntry \in E
  PROVE  LET u == Add(t, n, path, entry) IN
         Trie(u, E, X) /\ Standing(u) /\ DOMAIN t \subseteq DOMAIN u
<1> DEFINE l == Len(Pieces(path))
           W(f, i) == AddWalk(t, n, path, entry, f, i)
           w == CHOOSE f : f = [i \in 0..l |-> W(f, i)]
<1>1. l \in Nat /\ \A i \in 1..l : Pieces(path)[i] \in ShortPath
  BY PiecesShort
<1>2. Add(t, n, path, entry) = w[l].trie
  BY DEF Add, AddWalk
<1>3. w = [i \in 0..l |-> W(w, i)]
  <2>1. \E f : f = [i \in 0..l |-> W(f, i)]
    <3>1. l \in Nat
      BY <1>1
    <3> HIDE DEF l
    <3>2. \E f : AddWalks(t, n, path, entry, f, l)
      BY <3>1, AddWalksExist
    <3> QED
      BY <3>2 DEF AddWalks
  <2> HIDE DEF W, l
  <2> QED
    BY <2>1
<1> HIDE DEF w
<1>4. \A i \in 0..l : w[i] = W(w, i)
  <2> HIDE DEF W, l
  <2> QED
    BY <1>3
<1>5. Grows(t, E, X, w[0])
  <2> DEFINE u == Invalidate(t, n)
             v == [trie |-> u, tip |-> n]
  <2>1. w[0] = v
    BY <1>1, <1>4 DEF AddWalk
  <2>2. /\ Trie(u, E, X) /\ DOMAIN u = DOMAIN t
        /\ \A m \in DOMAIN t : u[m].path = t[m].path /\ u[m].forks = t[m].forks /\ u[m].parent = t[m].parent
    BY InvalidateChanges
  <2> HIDE DEF u
  <2>3. PICK h \in [Nat -> Nat], top \in Nat : Sound(t, h) /\ \A m \in DOMAIN t : h[m] <= top
    BY DEF Standing
  <2>4. Sound(u, h)
    BY <2>2, <2>3, OpenSame DEF Sound, Trie
  <2>5. Standing(u)
    BY <2>2, <2>3, <2>4 DEF Standing
  <2>6. v.trie = u /\ v.tip = n /\ v = [trie |-> v.trie, tip |-> v.tip]
    OBVIOUS
  <2> HIDE DEF v
  <2>7. Grows(t, E, X, v)
    BY <2>2, <2>5, <2>6 DEF Grows
  <2> QED
    BY <2>1, <2>7
<1>6. ASSUME NEW i \in 1..l, Grows(t, E, X, w[i-1]) PROVE Grows(t, E, X, w[i])
  <2> DEFINE piece == Pieces(path)[i]
             e == EntryOf(i, l, entry)
  <2>1. w[i] = AddPiece(w[i-1], piece, e)
    BY <1>1, <1>4 DEF AddWalk
  <2>2. piece \in ShortPath /\ e \in E
    BY <1>1 DEF EntryOf
  <2> HIDE DEF piece, e, l
  <2> QED
    BY <1>6, <2>1, <2>2, AddPieceStands
<1> DEFINE Bad == {i \in 0..l : ~ Grows(t, E, X, w[i])}
<1>7. Bad = {}
  <2>1. SUFFICES ASSUME Bad # {} PROVE FALSE
    OBVIOUS
  <2>2. Bad \in SUBSET Nat
    BY <1>1
  <2>3. PICK i \in Bad : \A j \in Bad : i <= j
    <3> HIDE DEF Bad
    <3> QED
      BY <2>1, <2>2, LeastNatural
  <2>4. i # 0
    BY <1>5
  <2>5. i \in 1..l /\ i - 1 \in 0..l /\ ~ (i <= i - 1)
    BY <1>1, <2>3, <2>4
  <2>6. i - 1 \notin Bad
    BY <2>3, <2>5
  <2> QED
    BY <1>6, <2>5, <2>6
<1>8. Grows(t, E, X, w[l])
  <2>1. l \in 0..l
    BY <1>1
  <2> QED
    BY <1>7, <2>1
<1> HIDE DEF l
<1> QED
  BY <1>2, <1>8 DEF Grows

-----------------------------------------------------------------------------
(* The addresses.                                                          *)

AddressFrom(t, f, n) ==
  IF t[n].self # {} THEN CHOOSE a \in t[n].self : TRUE ELSE Marshal(t, n, f)

(* Nodes of less height than k.                                            *)
Under(t, h, k) == {n \in DOMAIN t : h[n] < k}

(* Marshal reads the addresses of the children.                            *)
LEMMA AddressSame ==
  ASSUME NEW t, NEW E, NEW X, Trie(t, E, X), NEW h \in [Nat -> Nat], Sound(t, h),
         NEW n \in DOMAIN t, NEW f, NEW g, \A c \in Under(t, h, h[n]) : f[c] = g[c]
  PROVE  AddressFrom(t, f, n) = AddressFrom(t, g, n)
<1>1. ASSUME NEW b \in DOMAIN t[n].forks PROVE f[t[n].forks[b]] = g[t[n].forks[b]]
  <2> DEFINE c == t[n].forks[b]
  <2>1. Leads(t, n, b, c)
    BY DEF Leads
  <2> HIDE DEF c
  <2>2. /\ Open(t, {c}, n, b, h) /\ c \in DOMAIN t /\ c # 1
        /\ t[c].path \in ShortPath /\ Starts(t[c].path, b) /\ t[c].parent = n /\ h[c] < h[n]
    BY <2>1, Loosen
  <2>3. c \in Under(t, h, h[n])
    BY <2>2 DEF Under
  <2> QED
    BY <2>3 DEF c
<1> DEFINE F(o) == [b \in DOMAIN t[n].forks |->
                      [prefix |-> t[t[n].forks[b]].path, address |-> o[t[n].forks[b]]]]
<1>2. F(f) = F(g)
  BY <1>1
<1>3. Marshal(t, n, f) = [entry |-> t[n].entry, forks |-> F(f)]
  BY DEF Marshal
<1>4. Marshal(t, n, g) = [entry |-> t[n].entry, forks |-> F(g)]
  BY DEF Marshal
<1> HIDE DEF F
<1>5. Marshal(t, n, f) = Marshal(t, n, g)
  BY <1>2, <1>3, <1>4
<1> QED
  BY <1>5 DEF AddressFrom

AddressesUnder(t, h, k, f) == f = [n \in Under(t, h, k) |-> AddressFrom(t, f, n)]

LEMMA AddressesExist ==
  ASSUME NEW t, NEW E, NEW X, Trie(t, E, X), NEW h \in [Nat -> Nat], Sound(t, h), NEW j \in Nat
  PROVE  \E f : AddressesUnder(t, h, j, f)
<1> DEFINE Bad == {k \in Nat : ~ \E f : AddressesUnder(t, h, k, f)}
           W(f, n) == AddressFrom(t, f, n)
           U(k) == Under(t, h, k)
<1> SUFFICES ASSUME Bad # {} PROVE FALSE
  OBVIOUS
<1>0. \A n \in DOMAIN t : h[n] \in Nat
  BY TrieNode
<1>1. PICK k \in Bad : \A m \in Bad : k <= m
  BY LeastNatural
<1>2. k # 0
  <2> DEFINE f == [n \in U(0) |-> {}]
  <2>1. U(0) = {}
    BY <1>0 DEF Under
  <2>2. f = [n \in U(0) |-> W(f, n)]
    <3> HIDE DEF W, U
    <3> QED
      BY <2>1
  <2>3. AddressesUnder(t, h, 0, f)
    BY <2>2 DEF AddressesUnder
  <2> QED
    BY <2>3
<1>3. k - 1 \in Nat /\ k - 1 \notin Bad
  BY <1>1, <1>2
<1>4. PICK f : f = [n \in U(k - 1) |-> W(f, n)]
  BY <1>3 DEF AddressesUnder
<1> DEFINE g == [n \in U(k) |-> IF n \in U(k - 1) THEN f[n] ELSE W(f, n)]
<1>5. ASSUME NEW n \in U(k) PROVE W(f, n) = W(g, n)
  <2>1. n \in DOMAIN t /\ h[n] \in Nat /\ h[n] < k
    BY <1>0 DEF Under
  <2>2. ASSUME NEW c \in Under(t, h, h[n]) PROVE f[c] = g[c]
    <3>1. c \in U(k) /\ c \in U(k - 1)
      BY <1>0, <1>3, <2>1 DEF Under
    <3> HIDE DEF W, U
    <3> QED
      BY <3>1
  <2> HIDE DEF g
  <2> QED
    BY <2>1, <2>2, AddressSame
<1>6. \A n \in U(k) : g[n] = W(g, n)
  <2>1. ASSUME NEW n \in U(k) PROVE g[n] = W(f, n)
    <3> HIDE DEF W, U
    <3> QED
      BY <1>4
  <2> HIDE DEF W, U, g
  <2> QED
    BY <1>5, <2>1
<1>7. g = [n \in U(k) |-> g[n]]
  OBVIOUS
<1> HIDE DEF g, W, U
<1>8. g = [n \in U(k) |-> W(g, n)]
  BY <1>6, <1>7
<1>9. AddressesUnder(t, h, k, g)
  BY <1>8 DEF AddressesUnder, W, U
<1> QED
  BY <1>1, <1>9

(* The address of a node is the cached one, or that of its chunk.          *)
LEMMA AddressLaw ==
  ASSUME NEW t, NEW E, NEW X, Trie(t, E, X), Standing(t)
  PROVE  \A n \in DOMAIN t : Addresses(t)[n] = AddressFrom(t, Addresses(t), n)
<1> DEFINE W(f, n) == AddressFrom(t, f, n)
           a == CHOOSE f : f = [n \in DOMAIN t |-> W(f, n)]
<1>1. Addresses(t) = a
  BY DEF Addresses, AddressFrom
<1>2. \E f : f = [n \in DOMAIN t |-> W(f, n)]
  <2>1. PICK h \in [Nat -> Nat], top \in Nat : Sound(t, h) /\ \A n \in DOMAIN t : h[n] <= top
    BY DEF Standing
  <2>2. \A n \in DOMAIN t : h[n] \in Nat
    BY TrieNode
  <2>3. Under(t, h, top + 1) = DOMAIN t
    <3>1. \A n \in DOMAIN t : h[n] < top + 1
      BY <2>1, <2>2
    <3> QED
      BY <3>1 DEF Under
  <2>4. PICK f : AddressesUnder(t, h, top + 1, f)
    BY <2>1, AddressesExist
  <2> QED
    BY <2>3, <2>4 DEF AddressesUnder
<1> HIDE DEF W
<1>3. a = [n \in DOMAIN t |-> W(a, n)]
  BY <1>2
<1> HIDE DEF a
<1>4. \A n \in DOMAIN t : a[n] = W(a, n)
  BY <1>3
<1> QED
  BY <1>1, <1>4 DEF W

(* A node whose children all have addresses is marshaled with these.       *)
LEMMA MarshalsCached ==
  ASSUME NEW t, NEW E, NEW X, Trie(t, E, X), Standing(t), NEW n \in DOMAIN t,
         \A c \in Children(t, n) : t[c].self # {}
  PROVE  LET chunk == Marshal(t, n, Addresses(t)) IN
         /\ chunk.entry = t[n].entry
         /\ \A b \in DOMAIN chunk.forks :
              chunk.forks[b].address \in t[t[n].forks[b]].self
<1> DEFINE chunk == Marshal(t, n, Addresses(t))
<1>1. /\ chunk.entry = t[n].entry /\ DOMAIN chunk.forks = DOMAIN t[n].forks
      /\ \A b \in DOMAIN t[n].forks : chunk.forks[b].address = Addresses(t)[t[n].forks[b]]
  BY DEF Marshal
<1> HIDE DEF chunk
<1>2. ASSUME NEW b \in DOMAIN t[n].forks
      PROVE  Addresses(t)[t[n].forks[b]] \in t[t[n].forks[b]].self
  <2> DEFINE c == t[n].forks[b]
  <2>1. c \in DOMAIN t
    BY ForkLeads DEF Child
  <2>2. t[c].self # {}
    BY DEF Children
  <2> HIDE DEF c
  <2>3. Addresses(t)[c] = CHOOSE a \in t[c].self : TRUE
    BY <2>1, <2>2, AddressLaw DEF AddressFrom
  <2>4. Addresses(t)[c] \in t[c].self
    BY <2>2, <2>3
  <2> QED
    BY <2>4 DEF c
<1>3. \A b \in DOMAIN chunk.forks : chunk.forks[b].address \in t[t[n].forks[b]].self
  BY <1>1, <1>2
<1> QED
  BY <1>1, <1>3 DEF chunk

-----------------------------------------------------------------------------
(* What the calls keep.                                                    *)

(* The trie, the node the saving is at, and what was uploaded.             *)
TrieInv ==
  /\ adds \in Nat
  /\ \E X : Trie(trie, 0..adds, X) /\ (~hashed => X \subseteq uploaded)
  /\ Standing(trie)
  /\ at \in {0} \cup DOMAIN trie
  /\ ChildrenFirst
  /\ \A chunk \in uploaded : chunk.entry \in 0..adds

LEMMA TrieWider ==
  ASSUME NEW t, NEW E, NEW X, Trie(t, E, X), NEW F, E \subseteq F, NEW Y, X \subseteq Y
  PROVE  Trie(t, F, Y)
<1>1. \A n \in DOMAIN t : t[n] \in Node(F, Y)
  <2>1. SUFFICES ASSUME NEW n \in DOMAIN t PROVE t[n] \in Node(F, Y)
    OBVIOUS
  <2>2. t[n] \in Node(E, X)
    BY TrieNode
  <2> DEFINE r == t[n]
  <2>3. r \in Node(E, X)
    BY <2>2
  <2> HIDE DEF r
  <2>4. r \in Node(F, Y)
    BY <2>3 DEF Node
  <2> QED
    BY <2>4 DEF r
<1>2. t = [n \in DOMAIN t |-> t[n]]
  BY DEF Trie
<1>3. t \in [DOMAIN t -> Node(F, Y)]
  BY <1>1, <1>2
<1> QED
  BY <1>3 DEF Trie

(* u is t with other addresses.                                            *)
Readdressed(t, u) ==
  /\ DOMAIN u = DOMAIN t
  /\ \A n \in DOMAIN t : u[n].path = t[n].path /\ u[n].forks = t[n].forks /\ u[n].parent = t[n].parent

LEMMA ReaddressedStands ==
  ASSUME NEW t, NEW E, NEW X, Trie(t, E, X), Standing(t), NEW u, Readdressed(t, u)
  PROVE  Standing(u)
<1>1. PICK h \in [Nat -> Nat], top \in Nat : Sound(t, h) /\ \A n \in DOMAIN t : h[n] <= top
  BY DEF Standing
<1>2. /\ DOMAIN u = DOMAIN t
      /\ \A n \in DOMAIN t : u[n].path = t[n].path /\ u[n].forks = t[n].forks /\ u[n].parent = t[n].parent
  BY DEF Readdressed
<1>3. 1 \in DOMAIN t
  BY DEF Trie
<1>4. Sound(u, h)
  BY <1>1, <1>2, <1>3, OpenSame DEF Sound
<1> QED
  BY <1>1, <1>2, <1>4 DEF Standing

(* The nodes get the addresses that f gives them.                          *)
LEMMA SelfChanges ==
  ASSUME NEW t, NEW E, NEW X, Trie(t, E, X), NEW Y, X \subseteq Y,
         NEW f, \A n \in DOMAIN t : f[n] \subseteq Y,
         NEW u, u = [n \in DOMAIN t |-> [t[n] EXCEPT !.self = f[n]]]
  PROVE  Trie(u, E, Y) /\ Readdressed(t, u)
<1>1. ASSUME NEW n \in DOMAIN t
      PROVE  /\ u[n] \in Node(E, Y)
             /\ u[n].path = t[n].path /\ u[n].forks = t[n].forks /\ u[n].parent = t[n].parent
  <2> DEFINE r == t[n]
             s == f[n]
             v == [r EXCEPT !.self = s]
  <2>1. u[n] = v
    OBVIOUS
  <2>2. r \in Node(E, X) /\ s \subseteq Y
    BY TrieNode
  <2> HIDE DEF r, s
  <2>3. v \in Node(E, Y) /\ v.path = r.path /\ v.forks = r.forks /\ v.parent = r.parent
    BY <2>2 DEF Node
  <2> HIDE DEF v
  <2>4. u[n] \in Node(E, Y) /\ u[n].path = r.path /\ u[n].forks = r.forks /\ u[n].parent = r.parent
    BY <2>1, <2>3
  <2> QED
    BY <2>4 DEF r
<1>2. DOMAIN u = DOMAIN t /\ u = [n \in DOMAIN t |-> u[n]]
  OBVIOUS
<1>3. u \in [DOMAIN t -> Node(E, Y)]
  BY <1>1, <1>2
<1> QED
  BY <1>1, <1>2, <1>3 DEF Trie, Readdressed

LEMMA ParentKnown ==
  ASSUME NEW t, NEW E, NEW X, Trie(t, E, X), Standing(t), NEW n \in DOMAIN t
  PROVE  /\ t[n].parent \in {0} \cup DOMAIN t
         /\ n # 1 => t[n].parent \in DOMAIN t /\ n \in Children(t, t[n].parent)
<1>1. PICK h \in [Nat -> Nat], top \in Nat : Sound(t, h) /\ \A m \in DOMAIN t : h[m] <= top
  BY DEF Standing
<1>2. t[1].parent = 0 /\ \A c \in DOMAIN t \ ({1} \cup {}) : Hanging(t, c, 0, 0) /\ h[c] < h[t[c].parent]
  BY <1>1 DEF Sound, Open
<1>3. ASSUME n # 1 PROVE t[n].parent \in DOMAIN t /\ n \in Children(t, t[n].parent)
  <2>1. Hanging(t, n, 0, 0)
    BY <1>2, <1>3
  <2> DEFINE q == t[n].parent
             x == t[n].path[1]
  <2>2. q \in DOMAIN t /\ x \in DOMAIN t[q].forks /\ t[q].forks[x] = n
    BY <2>1 DEF Hanging
  <2> HIDE DEF q, x
  <2>3. n \in Children(t, q)
    BY <2>2 DEF Children
  <2> QED
    BY <2>2, <2>3 DEF q
<1>4. n = 1 => t[n].parent = 0
  BY <1>2
<1> QED
  BY <1>3, <1>4

LEMMA TriePatricia ==
  ASSUME NEW X, Trie(trie, 0..adds, X), Standing(trie)
  PROVE  PatriciaTrie
<1>1. ASSUME NEW n \in DOMAIN trie, NEW b \in DOMAIN trie[n].forks
      PROVE  LET child == trie[trie[n].forks[b]] IN
             /\ Len(child.path) \in 1..MaxPrefixLength
             /\ child.path[1] = b
             /\ child.parent = n
  BY ForkLeads DEF Child, ShortPath, Starts
<1>2. ASSUME NEW n \in DOMAIN trie \ {1} PROVE n \in Children(trie, trie[n].parent)
  BY ParentKnown
<1> QED
  BY <1>1, <1>2 DEF PatriciaTrie

-----------------------------------------------------------------------------

LEMMA TrieInvInit == Init => TrieInv
<1> SUFFICES ASSUME Init PROVE TrieInv
  OBVIOUS
<1> DEFINE N == NewNode(<<>>, NoEntry, 0)
           t == <<N>>
           h == [n \in Nat |-> 0]
<1>1. /\ N \in Node({0}, {}) /\ N.path = <<>> /\ N.forks = <<>> /\ N.parent = 0
  <2>1. <<>> \in Seq(Bytes) /\ <<>> \in Forks
    BY NoForks
  <2> QED
    BY <2>1 DEF NewNode, Node, NoEntry
<1> HIDE DEF N
<1>2. DOMAIN t = {1} /\ t[1] = N /\ t = [n \in {1} |-> N]
  OBVIOUS
<1> HIDE DEF t
<1>3. Trie(t, {0}, {})
  <2>1. IsFiniteSet({1})
    BY FS_Singleton
  <2>2. DOMAIN t \in SUBSET (Nat \ {0})
    BY <1>2
  <2>3. t \in [{1} -> Node({0}, {})]
    BY <1>1, <1>2
  <2> QED
    BY <1>2, <2>1, <2>2, <2>3 DEF Trie
<1>4. Sound(t, h)
  <2>1. t[1].path = <<>> /\ t[1].parent = 0 /\ DOMAIN t \ ({1} \cup {}) = {}
    BY <1>1, <1>2
  <2>2. \A n \in DOMAIN t : DOMAIN t[n].forks = {}
    BY <1>1, <1>2, NoForks
  <2> HIDE DEF h
  <2> QED
    BY <2>1, <2>2 DEF Sound, Open
<1>5. Standing(t)
  <2>1. h \in [Nat -> Nat] /\ h[1] <= 0
    OBVIOUS
  <2> HIDE DEF h
  <2> QED
    BY <1>2, <1>4, <2>1 DEF Standing
<1>6. trie = t /\ at = 0 /\ uploaded = {} /\ adds = 0 /\ ~hashed
  BY DEF Init, t, N
<1>7. 0..0 = {0}
  OBVIOUS
<1>8. Trie(trie, 0..adds, {}) /\ Standing(trie)
  BY <1>3, <1>5, <1>6, <1>7
<1> QED
  BY <1>6, <1>8 DEF TrieInv, ChildrenFirst

(* The trie was changed, without a look at addresses.                      *)
LEMMA ChangeKeeps ==
  ASSUME TrieInv, adds' \in Nat, adds <= adds', UNCHANGED <<uploaded, hashed>>, at' = 0,
         NEW X, ~hashed => X \subseteq uploaded, Trie(trie', 0..adds', X), Standing(trie')
  PROVE  TrieInv'
<1>1. \E Y : Trie(trie', 0..adds', Y) /\ (~hashed' => Y \subseteq uploaded')
  OBVIOUS
<1>2. ChildrenFirst'
  BY DEF TrieInv, ChildrenFirst
<1>3. \A chunk \in uploaded' : chunk.entry \in 0..adds'
  BY DEF TrieInv
<1> QED
  BY <1>1, <1>2, <1>3 DEF TrieInv

LEMMA AddForkKeeps ==
  ASSUME TrieInv, NEW path \in Seq(Bytes), AddFork(path)
  PROVE  TrieInv'
<1>1. PICK X : Trie(trie, 0..adds, X) /\ (~hashed => X \subseteq uploaded)
  BY DEF TrieInv
<1>2. adds \in Nat /\ Standing(trie)
  BY DEF TrieInv
<1>3. /\ adds' = adds + 1 /\ trie' = Add(trie, 1, path, adds + 1)
      /\ at' = 0 /\ UNCHANGED <<uploaded, hashed>>
  BY DEF AddFork, Changes
<1> DEFINE F == 0..(adds + 1)
           e == adds + 1
<1>4. 0..adds \subseteq F /\ e \in F /\ NoEntry \in F
  BY <1>2 DEF NoEntry
<1> HIDE DEF F, e
<1>5. Trie(trie, F, X) /\ 1 \in DOMAIN trie
  BY <1>1, <1>4, TrieWider DEF Trie
<1>6. Trie(Add(trie, 1, path, e), F, X) /\ Standing(Add(trie, 1, path, e))
  BY <1>2, <1>4, <1>5, AddStands
<1>7. Trie(trie', 0..adds', X) /\ Standing(trie')
  BY <1>3, <1>6 DEF F, e
<1>8. adds' \in Nat /\ adds <= adds'
  BY <1>2, <1>3
<1> QED
  BY <1>1, <1>3, <1>7, <1>8, ChangeKeeps

LEMMA RemoveNothingKeeps ==
  ASSUME TrieInv, NEW path, RemoveNothing(path)
  PROVE  TrieInv'
<1>1. PICK X : Trie(trie, 0..adds, X) /\ (~hashed => X \subseteq uploaded)
  BY DEF TrieInv
<1>2. adds \in Nat /\ Standing(trie)
  BY DEF TrieInv
<1> DEFINE u == Invalidate(trie, 1)
<1>3. trie' = u /\ at' = 0 /\ UNCHANGED <<adds, uploaded, hashed>>
  BY DEF RemoveNothing, Changes
<1>4. Trie(u, 0..adds, X) /\ Readdressed(trie, u)
  BY <1>1, InvalidateChanges DEF Readdressed
<1> HIDE DEF u
<1>5. Standing(u)
  BY <1>1, <1>2, <1>4, ReaddressedStands
<1>6. Trie(trie', 0..adds', X) /\ Standing(trie')
  BY <1>3, <1>4, <1>5
<1>7. adds' \in Nat /\ adds <= adds'
  BY <1>2, <1>3
<1> QED
  BY <1>1, <1>3, <1>6, <1>7, ChangeKeeps

LEMMA CalculateKeeps ==
  ASSUME TrieInv, CalculateSelfAddress
  PROVE  TrieInv'
<1>1. PICK X : Trie(trie, 0..adds, X) /\ (~hashed => X \subseteq uploaded)
  BY DEF TrieInv
<1>2. adds \in Nat /\ Standing(trie)
  BY DEF TrieInv
<1>3. at' = 0 /\ UNCHANGED <<adds, uploaded>>
  BY DEF CalculateSelfAddress
<1>4. CASE trie[1].self # {}
  <2>1. UNCHANGED <<trie, hashed>>
    BY <1>4 DEF CalculateSelfAddress
  <2>2. Trie(trie', 0..adds', X) /\ Standing(trie')
    BY <1>1, <1>2, <1>3, <2>1
  <2>3. adds' \in Nat /\ adds <= adds'
    BY <1>2, <1>3
  <2> QED
    BY <1>1, <1>3, <2>1, <2>2, <2>3, ChangeKeeps
<1>5. CASE ~ (trie[1].self # {})
  <2> DEFINE A == Addresses(trie)
             kept == Hidden(trie) \cup {1}
             f == [n \in DOMAIN trie |-> IF n \in kept THEN trie[n].self ELSE {A[n]}]
             Y == X \cup {A[n] : n \in DOMAIN trie}
             u == [n \in DOMAIN trie |-> [trie[n] EXCEPT !.self = f[n]]]
             v == [n \in DOMAIN trie |->
                     IF n \in kept THEN trie[n] ELSE [trie[n] EXCEPT !.self = {A[n]}]]
  <2>1. trie' = v /\ hashed'
    BY <1>5 DEF CalculateSelfAddress
  <2>2. \A n \in DOMAIN trie : f[n] \subseteq Y
    BY <1>1, TrieNode
  <2>3. u = v
    <3>1. ASSUME NEW n \in DOMAIN trie
          PROVE  [trie[n] EXCEPT !.self = trie[n].self] = trie[n]
      <4>1. trie[n] \in Node(0..adds, X)
        BY <1>1, TrieNode
      <4> QED
        BY <4>1 DEF Node
    <3> HIDE DEF kept
    <3>3. ASSUME NEW n \in DOMAIN trie
          PROVE  [trie[n] EXCEPT !.self = f[n]] =
                   IF n \in kept THEN trie[n] ELSE [trie[n] EXCEPT !.self = {A[n]}]
      <4>1. CASE n \in kept
        BY <3>1, <4>1
      <4>2. CASE n \notin kept
        BY <4>2
      <4> QED
        BY <4>1, <4>2
    <3> HIDE DEF f
    <3> QED
      BY <3>3
  <2> HIDE DEF A, f, Y, v, kept
  <2>4. X \subseteq Y
    BY DEF Y
  <2>5. Trie(u, 0..adds, Y) /\ Readdressed(trie, u)
    BY <1>1, <2>2, <2>4, SelfChanges
  <2> HIDE DEF u
  <2>6. Standing(u)
    BY <1>1, <1>2, <2>5, ReaddressedStands
  <2>7. DOMAIN u = DOMAIN trie
    BY <2>5 DEF Readdressed
  <2>8. Trie(trie', 0..adds', Y) /\ Standing(trie') /\ (~hashed' => Y \subseteq uploaded')
    BY <1>3, <2>1, <2>3, <2>5, <2>6
  <2>9. ChildrenFirst'
    BY <2>1 DEF ChildrenFirst
  <2>10. adds' \in Nat /\ \A chunk \in uploaded' : chunk.entry \in 0..adds'
    BY <1>2, <1>3 DEF TrieInv
  <2> QED
    BY <1>3, <2>8, <2>9, <2>10 DEF TrieInv
<1> QED
  BY <1>4, <1>5

LEMMA SaveKeeps ==
  ASSUME TrieInv, SaveRecursively
  PROVE  TrieInv'
<1>1. at' = 1 /\ UNCHANGED <<trie, uploaded, adds, hashed>>
  BY DEF SaveRecursively, history
<1>2. 1 \in DOMAIN trie
  BY DEF TrieInv, Trie
<1>3. ChildrenFirst'
  BY <1>1 DEF TrieInv, ChildrenFirst
<1> QED
  BY <1>1, <1>2, <1>3 DEF TrieInv

LEMMA DescendKeeps ==
  ASSUME TrieInv, Descend
  PROVE  TrieInv'
<1>1. /\ at # 0 /\ at' \in Children(trie, at) /\ UNCHANGED <<trie, uploaded, adds, hashed>>
  BY DEF Descend, Pending, counts, history
<1>2. PICK X : Trie(trie, 0..adds, X)
  BY DEF TrieInv
<1>3. at \in DOMAIN trie /\ Standing(trie)
  BY <1>1 DEF TrieInv
<1>4. PICK b \in DOMAIN trie[at].forks : at' = trie[at].forks[b]
  BY <1>1 DEF Children
<1>5. Child(trie, at, b, trie[at].forks[b])
  BY <1>2, <1>3, ForkLeads
<1>6. at' \in DOMAIN trie
  BY <1>4, <1>5 DEF Child
<1>7. ChildrenFirst'
  BY <1>1 DEF TrieInv, ChildrenFirst
<1> QED
  BY <1>1, <1>6, <1>7 DEF TrieInv

LEMMA UploadFailsKeeps ==
  ASSUME TrieInv, UploadFails
  PROVE  TrieInv'
<1>1. at' = 0 /\ UNCHANGED <<trie, uploaded, adds, hashed>>
  BY DEF UploadFails, counts, history
<1>2. ChildrenFirst'
  BY <1>1 DEF TrieInv, ChildrenFirst
<1> QED
  BY <1>1, <1>2 DEF TrieInv

LEMMA UploadKeeps ==
  ASSUME TrieInv, Upload
  PROVE  TrieInv' /\ uploaded' = uploaded \cup {Marshal(trie, at, Addresses(trie))}
<1>1. PICK X : Trie(trie, 0..adds, X) /\ (~hashed => X \subseteq uploaded)
  BY DEF TrieInv
<1>2. adds \in Nat /\ Standing(trie)
  BY DEF TrieInv
<1> DEFINE chunk == Marshal(trie, at, Addresses(trie))
           u == [trie EXCEPT ![at].self = {chunk}]
<1>3. /\ at # 0 /\ Pending(at) = {}
      /\ uploaded' = uploaded \cup {chunk} /\ trie' = u /\ at' = trie[at].parent
      /\ UNCHANGED <<adds, hashed>>
  BY DEF Upload, counts, history
<1>4. at \in DOMAIN trie
  BY <1>3 DEF TrieInv
<1>5. /\ chunk.entry = trie[at].entry
      /\ \A b \in DOMAIN chunk.forks : chunk.forks[b].address \in trie[trie[at].forks[b]].self
  <2>1. \A c \in Children(trie, at) : trie[c].self # {}
    BY <1>3 DEF Pending
  <2> QED
    BY <1>1, <1>2, <1>4, <2>1, MarshalsCached
<1>6. chunk.entry \in 0..adds
  BY <1>1, <1>4, <1>5, TrieNode
<1>7. ASSUME NEW b \in DOMAIN chunk.forks, ~hashed PROVE chunk.forks[b].address \in uploaded
  <2> DEFINE x == chunk.forks[b].address
  <2>a. DOMAIN chunk.forks = DOMAIN trie[at].forks
    BY DEF Marshal
  <2> DEFINE c == trie[at].forks[b]
  <2>1. x \in trie[c].self
    BY <1>5
  <2>2. Child(trie, at, b, c)
    BY <1>1, <1>2, <1>4, <2>a, ForkLeads
  <2> HIDE DEF c, x
  <2>3. c \in DOMAIN trie
    BY <2>2 DEF Child
  <2>4. trie[c].self \in SUBSET X
    BY <1>1, <2>3, TrieNode
  <2>5. x \in uploaded
    BY <1>1, <1>7, <2>1, <2>4
  <2> QED
    BY <2>5 DEF x
<1> HIDE DEF chunk
<1> DEFINE Y == X \cup {chunk}
           f == [n \in DOMAIN trie |-> IF n = at THEN {chunk} ELSE trie[n].self]
           v == [n \in DOMAIN trie |-> [trie[n] EXCEPT !.self = f[n]]]
<1>8. \A n \in DOMAIN trie : f[n] \subseteq Y
  BY <1>1, TrieNode
<1>9. u = v
  <2>1. trie = [n \in DOMAIN trie |-> trie[n]]
    BY <1>1 DEF Trie
  <2>2. ASSUME NEW n \in DOMAIN trie PROVE [trie[n] EXCEPT !.self = trie[n].self] = trie[n]
    <3> DEFINE r == trie[n]
    <3>1. r \in Node(0..adds, X)
      BY <1>1, TrieNode
    <3> HIDE DEF r
    <3>2. [r EXCEPT !.self = r.self] = r
      BY <3>1 DEF Node
    <3> QED
      BY <3>2 DEF r
  <2>3. u = [n \in DOMAIN trie |-> IF n = at THEN [trie[n] EXCEPT !.self = {chunk}] ELSE trie[n]]
    BY <1>4, <2>1
  <2>4. ASSUME NEW n \in DOMAIN trie
        PROVE  [trie[n] EXCEPT !.self = f[n]] = IF n = at THEN [trie[n] EXCEPT !.self = {chunk}] ELSE trie[n]
    <3>1. CASE n = at
      BY <3>1
    <3>2. CASE n # at
      BY <2>2, <3>2
    <3> QED
      BY <3>1, <3>2
  <2> HIDE DEF f, u
  <2> QED
    BY <2>3, <2>4
<1> HIDE DEF f, Y, u
<1>10. X \subseteq Y
  BY DEF Y
<1>11. Trie(v, 0..adds, Y) /\ Readdressed(trie, v)
  BY <1>1, <1>8, <1>10, SelfChanges
<1> HIDE DEF v
<1>12. Standing(v)
  BY <1>1, <1>2, <1>11, ReaddressedStands
<1>13. Trie(trie', 0..adds', Y) /\ Standing(trie') /\ DOMAIN trie' = DOMAIN trie
  BY <1>3, <1>9, <1>11, <1>12 DEF Readdressed
<1>14. ~hashed' => Y \subseteq uploaded'
  BY <1>1, <1>3 DEF Y
<1>15. at' \in {0} \cup DOMAIN trie'
  BY <1>1, <1>2, <1>3, <1>4, <1>13, ParentKnown
<1>16. ChildrenFirst'
  <2>1. SUFFICES ASSUME ~hashed', NEW d \in uploaded', NEW b \in DOMAIN d.forks
                 PROVE  d.forks[b].address \in uploaded'
    BY DEF ChildrenFirst
  <2>2. CASE d = chunk
    BY <1>3, <1>7, <2>1, <2>2
  <2>3. CASE d # chunk
    BY <1>3, <2>1, <2>3 DEF TrieInv, ChildrenFirst
  <2> QED
    BY <2>2, <2>3
<1>17. adds' \in Nat /\ \A d \in uploaded' : d.entry \in 0..adds'
  BY <1>2, <1>3, <1>6 DEF TrieInv
<1> QED
  BY <1>3, <1>13, <1>14, <1>15, <1>16, <1>17 DEF TrieInv, chunk

LEMMA TrieInvSame ==
  ASSUME TrieInv, UNCHANGED vars
  PROVE  TrieInv'
<1>1. UNCHANGED <<trie, at, uploaded, adds, hashed>>
  BY DEF vars, counts, history
<1>2. ChildrenFirst'
  BY <1>1 DEF TrieInv, ChildrenFirst
<1> QED
  BY <1>1, <1>2 DEF TrieInv

-----------------------------------------------------------------------------
(* The path of a node.                                                     *)

ClimbFrom(t, f, n) == IF n = 1 THEN <<>> ELSE f[t[n].parent] \o t[n].path

(* Nodes of at least height k.                                             *)
Over(t, h, k) == {n \in DOMAIN t : h[n] >= k}

IsClimb(t, h, k, f) == f = [n \in Over(t, h, k) |-> ClimbFrom(t, f, n)]

(* What a node hangs by.                                                   *)
LEMMA NodeHangs ==
  ASSUME NEW t, NEW E, NEW X, Trie(t, E, X), NEW h, Sound(t, h), NEW n \in DOMAIN t, n # 1
  PROVE  /\ t[n].parent \in DOMAIN t /\ h[n] < h[t[n].parent]
         /\ t[n].path \in ShortPath
         /\ Leads(t, t[n].parent, t[n].path[1], n)
<1>1. n \in DOMAIN t \ ({1} \cup {})
  OBVIOUS
<1>2. Hanging(t, n, 0, 0) /\ h[n] < h[t[n].parent]
  BY <1>1 DEF Sound, Open
<1> QED
  BY <1>2 DEF Hanging, Leads

LEMMA ClimbExists ==
  ASSUME NEW t, NEW E, NEW X, Trie(t, E, X), NEW h \in [Nat -> Nat], NEW top \in Nat,
         Sound(t, h), Below(DOMAIN t, h, top)
  PROVE  \E f : IsClimb(t, h, 0, f)
<1> DEFINE Bad == {k \in 0..(top + 1) : ~ \E f : IsClimb(t, h, top + 1 - k, f)}
           W(f, n) == ClimbFrom(t, f, n)
           U(k) == Over(t, h, k)
<1>0. \A n \in DOMAIN t : h[n] \in Nat /\ h[n] <= top
  BY TrieNode DEF Below
<1> SUFFICES ASSUME Bad # {} PROVE FALSE
  <2>1. SUFFICES ASSUME Bad = {} PROVE \E f : IsClimb(t, h, 0, f)
    OBVIOUS
  <2>2. top + 1 \in 0..(top + 1) /\ top + 1 - (top + 1) = 0
    OBVIOUS
  <2>3. top + 1 \notin Bad
    BY <2>1
  <2> QED
    BY <2>2, <2>3
<1>1. PICK j \in Bad : \A m \in Bad : j <= m
  <2>1. Bad \in SUBSET Nat
    OBVIOUS
  <2> HIDE DEF Bad
  <2> QED
    BY <2>1, LeastNatural
<1>2. j # 0
  <2> DEFINE f == [n \in U(top + 1) |-> {}]
  <2>1. U(top + 1) = {}
    BY <1>0 DEF Over
  <2>2. f = [n \in U(top + 1) |-> W(f, n)]
    <3> HIDE DEF W, U
    <3> QED
      BY <2>1
  <2>3. IsClimb(t, h, top + 1, f)
    BY <2>2 DEF IsClimb
  <2>4. top + 1 - 0 = top + 1
    OBVIOUS
  <2> QED
    BY <2>3, <2>4
<1>3. /\ j - 1 \in 0..(top + 1) /\ j - 1 \notin Bad
      /\ top + 1 - (j - 1) = top + 1 - j + 1 /\ top + 1 - j \in Nat
  BY <1>1, <1>2
<1>4. PICK k \in Nat : k = top + 1 - j
  BY <1>3
<1>5. PICK f : f = [n \in U(k + 1) |-> W(f, n)]
  BY <1>3, <1>4 DEF IsClimb
<1>6. ~ \E g : IsClimb(t, h, k, g)
  BY <1>4
<1> HIDE DEF Bad
<1> DEFINE g == [n \in U(k) |-> IF n \in U(k + 1) THEN f[n] ELSE W(f, n)]
<1>7. ASSUME NEW n \in U(k) PROVE W(f, n) = W(g, n)
  <2>1. CASE n = 1
    BY <2>1 DEF ClimbFrom
  <2>2. CASE n # 1
    <3> DEFINE q == t[n].parent
    <3>1. n \in DOMAIN t /\ h[n] \in Nat /\ h[n] >= k
      BY <1>0 DEF Over
    <3>2. q \in DOMAIN t /\ h[n] < h[q]
      BY <2>2, <3>1, NodeHangs
    <3> HIDE DEF q
    <3>3. q \in U(k) /\ q \in U(k + 1)
      BY <1>0, <3>1, <3>2 DEF Over
    <3>4. f[q] = g[q]
      <4> HIDE DEF W, U
      <4> QED
        BY <3>3
    <3> HIDE DEF g
    <3> QED
      BY <2>2, <3>4 DEF ClimbFrom, q
  <2> QED
    BY <2>1, <2>2
<1>8. \A n \in U(k) : g[n] = W(g, n)
  <2>1. ASSUME NEW n \in U(k) PROVE g[n] = W(f, n)
    <3> HIDE DEF W, U
    <3> QED
      BY <1>5
  <2> HIDE DEF W, U, g
  <2> QED
    BY <1>7, <2>1
<1>9. g = [n \in U(k) |-> g[n]]
  OBVIOUS
<1> HIDE DEF g, W, U
<1>10. g = [n \in U(k) |-> W(g, n)]
  BY <1>8, <1>9
<1>11. IsClimb(t, h, k, g)
  BY <1>10 DEF IsClimb, W, U
<1> QED
  BY <1>6, <1>11

LEMMA ClimbLaw ==
  ASSUME NEW t, NEW E, NEW X, Trie(t, E, X), Standing(t)
  PROVE  \A n \in DOMAIN t : FullPaths(t)[n] = ClimbFrom(t, FullPaths(t), n)
<1> DEFINE W(f, n) == ClimbFrom(t, f, n)
           a == CHOOSE f : f = [n \in DOMAIN t |-> W(f, n)]
<1>1. FullPaths(t) = a
  BY DEF FullPaths, ClimbFrom
<1>2. \E f : f = [n \in DOMAIN t |-> W(f, n)]
  <2>1. PICK h \in [Nat -> Nat], top \in Nat : Sound(t, h) /\ \A n \in DOMAIN t : h[n] <= top
    BY DEF Standing
  <2>2. \A n \in DOMAIN t : h[n] \in Nat
    BY TrieNode
  <2>3. Over(t, h, 0) = DOMAIN t
    <3>1. \A n \in DOMAIN t : h[n] >= 0
      BY <2>2
    <3> QED
      BY <3>1 DEF Over
  <2>4. Below(DOMAIN t, h, top)
    BY <2>1 DEF Below
  <2>5. PICK f : IsClimb(t, h, 0, f)
    BY <2>1, <2>4, ClimbExists
  <2> QED
    BY <2>3, <2>5 DEF IsClimb
<1> HIDE DEF W
<1>3. a = [n \in DOMAIN t |-> W(a, n)]
  BY <1>2
<1> HIDE DEF a
<1>4. \A n \in DOMAIN t : a[n] = W(a, n)
  BY <1>3
<1> QED
  BY <1>1, <1>4 DEF W

(* The path of node n goes on, behind that of q, with its own.             *)
Extends(t, q, n) ==
  /\ Len(FullPath(t, n)) = Len(FullPath(t, q)) + Len(t[n].path)
  /\ \A i \in 1..Len(FullPath(t, q)) : FullPath(t, n)[i] = FullPath(t, q)[i]
  /\ \A i \in 1..Len(t[n].path) : FullPath(t, n)[Len(FullPath(t, q)) + i] = t[n].path[i]

LEMMA Concatenation ==
  ASSUME NEW s \in Seq(Bytes), NEW p \in Seq(Bytes)
  PROVE  LET c == s \o p IN
         /\ c \in Seq(Bytes) /\ Len(c) = Len(s) + Len(p)
         /\ \A i \in 1..Len(s) : c[i] = s[i]
         /\ \A i \in 1..Len(p) : c[Len(s) + i] = p[i]
<1> DEFINE c == s \o p
<1>1. Len(s) \in Nat /\ Len(p) \in Nat
  BY LenProperties
<1>2. /\ s \o p \in Seq(Bytes) /\ Len(s \o p) = Len(s) + Len(p)
      /\ \A i \in 1..(Len(s) + Len(p)) : (s \o p)[i] = IF i <= Len(s) THEN s[i] ELSE p[i - Len(s)]
  BY ConcatProperties
<1>3. ASSUME NEW i \in 1..Len(s) PROVE c[i] = s[i]
  BY <1>1, <1>2
<1>4. ASSUME NEW i \in 1..Len(p) PROVE c[Len(s) + i] = p[i]
  <2> DEFINE k == Len(s) + i
  <2>1. k \in 1..(Len(s) + Len(p)) /\ ~ (k <= Len(s)) /\ k - Len(s) = i
    BY <1>1
  <2> HIDE DEF k
  <2>2. c[k] = p[k - Len(s)]
    BY <1>2, <2>1
  <2> QED
    BY <2>1, <2>2 DEF k
<1> QED
  BY <1>2, <1>3, <1>4

LEMMA PathIs ==
  ASSUME NEW t, NEW E, NEW X, Trie(t, E, X), Standing(t), NEW n \in DOMAIN t
  PROVE  /\ FullPath(t, n) \in Seq(Bytes)
         /\ n = 1 => FullPath(t, n) = <<>>
         /\ n # 1 => Extends(t, t[n].parent, n)
<1>1. PICK h \in [Nat -> Nat], top \in Nat : Sound(t, h) /\ \A m \in DOMAIN t : h[m] <= top
  BY DEF Standing
<1>2. \A m \in DOMAIN t : h[m] \in Nat
  BY TrieNode
<1>3. \A m \in DOMAIN t : FullPath(t, m) = IF m = 1 THEN <<>> ELSE FullPath(t, t[m].parent) \o t[m].path
  BY ClimbLaw DEF FullPath, ClimbFrom
<1>4. \A m \in DOMAIN t : FullPath(t, m) \in Seq(Bytes)
  <2> DEFINE Bad == {m \in DOMAIN t : FullPath(t, m) \notin Seq(Bytes)}
             Depths == {top - h[m] : m \in Bad}
  <2> SUFFICES ASSUME Bad # {} PROVE FALSE
    OBVIOUS
  <2>a. ASSUME NEW m \in DOMAIN t PROVE top - h[m] \in Nat
    <3> DEFINE k == h[m]
    <3>1. k \in Nat /\ k <= top
      BY <1>1, <1>2
    <3> HIDE DEF k
    <3>2. top - k \in Nat
      BY <3>1
    <3> QED
      BY <3>2 DEF k
  <2>1. Depths \in SUBSET Nat /\ Depths # {}
    BY <2>a
  <2>2. PICK d \in Depths : \A e \in Depths : d <= e
    <3> HIDE DEF Depths
    <3> QED
      BY <2>1, LeastNatural
  <2>3. PICK m \in Bad : d = top - h[m]
    OBVIOUS
  <2>4. m # 1
    <3>1. m = 1 => FullPath(t, m) = <<>>
      BY <1>3
    <3>2. <<>> \in Seq(Bytes)
      OBVIOUS
    <3> QED
      BY <3>1, <3>2
  <2> DEFINE q == t[m].parent
  <2>5. q \in DOMAIN t /\ h[m] < h[q] /\ t[m].path \in ShortPath
    BY <1>1, <2>4, NodeHangs
  <2>6. FullPath(t, m) = FullPath(t, q) \o t[m].path
    BY <1>3, <2>4
  <2> HIDE DEF q
  <2>7. q \notin Bad
    <3>1. SUFFICES ASSUME q \in Bad PROVE FALSE
      OBVIOUS
    <3>2. top - h[q] \in Depths
      BY <3>1
    <3>3. d <= top - h[q]
      BY <2>2, <3>2
    <3> DEFINE hm == h[m]
               hq == h[q]
    <3>4. hm \in Nat /\ hq \in Nat /\ hm < hq /\ top - hm <= top - hq
      BY <1>2, <2>3, <2>5, <3>3
    <3> HIDE DEF hm, hq
    <3> QED
      BY <3>4
  <2>8. FullPath(t, q) \in Seq(Bytes) /\ t[m].path \in Seq(Bytes)
    BY <2>5, <2>7 DEF ShortPath
  <2>9. FullPath(t, m) \in Seq(Bytes)
    BY <2>6, <2>8, Concatenation
  <2> QED
    BY <2>9
<1>5. ASSUME n # 1 PROVE Extends(t, t[n].parent, n)
  <2> DEFINE q == t[n].parent
             s == FullPath(t, q)
             p == t[n].path
             c == FullPath(t, n)
  <2>1. q \in DOMAIN t /\ p \in Seq(Bytes)
    BY <1>1, <1>5, NodeHangs DEF ShortPath
  <2>2. c = s \o p
    BY <1>3, <1>5
  <2>3. s \in Seq(Bytes)
    <3> HIDE DEF q
    <3> QED
      BY <1>4, <2>1
  <2> HIDE DEF s, p, c
  <2>a. LET d == s \o p IN
        /\ Len(d) = Len(s) + Len(p)
        /\ \A i \in 1..Len(s) : d[i] = s[i]
        /\ \A i \in 1..Len(p) : d[Len(s) + i] = p[i]
    BY <2>1, <2>3, Concatenation
  <2>4. /\ Len(c) = Len(s) + Len(p)
        /\ \A i \in 1..Len(s) : c[i] = s[i]
        /\ \A i \in 1..Len(p) : c[Len(s) + i] = p[i]
    BY <2>2, <2>a
  <2> QED
    BY <2>4 DEF Extends, s, p, c
<1> QED
  BY <1>3, <1>4, <1>5

(* The path of n begins path, and has k bytes.                             *)
On(t, n, path, k) == IsPrefix(FullPath(t, n), path) /\ k = Len(FullPath(t, n))

(* Fork path[k+1] of q is on the way along path, with k bytes behind, to n.*)
Passes(t, path, q, k, n, j) ==
  Continues(t, path, q, k) /\ Onward(t, path, q, k) = n /\ Beyond(t, path, q, k) = j

LEMMA OnIs ==
  ASSUME NEW t, NEW E, NEW X, Trie(t, E, X), Standing(t), NEW path \in Seq(Bytes),
         NEW n \in DOMAIN t, NEW k
  PROVE  On(t, n, path, k) <=>
           /\ k = Len(FullPath(t, n)) /\ k \in 0..Len(path)
           /\ \A i \in 1..k : FullPath(t, n)[i] = path[i]
<1> DEFINE s == FullPath(t, n)
<1>1. s \in Seq(Bytes)
  BY PathIs
<1> HIDE DEF s
<1>2. IsPrefix(s, path) <=> Len(s) <= Len(path) /\ \A i \in 1..Len(s) : s[i] = path[i]
  BY <1>1, PrefixIs
<1>3. Len(s) \in Nat /\ Len(path) \in Nat
  BY <1>1, LenProperties
<1>4. IsPrefix(s, path) /\ k = Len(s) <=>
        k = Len(s) /\ k \in 0..Len(path) /\ \A i \in 1..k : s[i] = path[i]
  BY <1>2, <1>3
<1> QED
  BY <1>4 DEF On, s

(* A node on the path is reached from its parent.                          *)
LEMMA StepOn ==
  ASSUME NEW t, NEW E, NEW X, Trie(t, E, X), Standing(t), NEW path \in Seq(Bytes),
         NEW n \in DOMAIN t, n # 1, NEW j, On(t, n, path, j)
  PROVE  \E q \in DOMAIN t, k \in 0..Len(path) :
           /\ q = t[n].parent /\ On(t, q, path, k) /\ k < j /\ path[k+1] = t[n].path[1]
           /\ Passes(t, path, q, k, n, j)
<1> DEFINE q == t[n].parent
           p == t[n].path
           s == FullPath(t, q)
           c == FullPath(t, n)
           k == Len(s)
           l == Len(p)
<1>1. PICK h \in [Nat -> Nat], top \in Nat : Sound(t, h) /\ \A m \in DOMAIN t : h[m] <= top
  BY DEF Standing
<1>2. q \in DOMAIN t /\ p \in ShortPath /\ Leads(t, q, p[1], n)
  BY <1>1, NodeHangs
<1>3. Extends(t, q, n)
  BY PathIs
<1>4. s \in Seq(Bytes) /\ p \in Seq(Bytes) /\ l \in Nat \ {0}
  <2>1. s \in Seq(Bytes)
    <3> HIDE DEF q
    <3> QED
      BY <1>2, PathIs
  <2>2. p \in Seq(Bytes) /\ Len(p) \in 1..MaxPrefixLength
    BY <1>2 DEF ShortPath
  <2>3. l \in Nat \ {0}
    <3> HIDE DEF p
    <3> QED
      BY <2>2, ConstantsAssumption
  <2> QED
    BY <2>1, <2>2, <2>3
<1>5. /\ Len(c) = k + l /\ \A i \in 1..k : c[i] = s[i]
      /\ \A i \in 1..l : c[k + i] = p[i]
  BY <1>3 DEF Extends
<1>6. j = Len(c) /\ j \in 0..Len(path) /\ \A i \in 1..j : c[i] = path[i]
  BY OnIs
<1>7. k \in Nat /\ Len(path) \in Nat
  BY <1>4, LenProperties
<1> HIDE DEF s, c, p, q, k, l
<1>8. j = k + l /\ k \in 0..Len(path) /\ k < j /\ k < Len(path)
  <2>1. j = k + l
    BY <1>5, <1>6
  <2>2. k + l \in 0..Len(path)
    BY <1>6, <2>1
  <2> QED
    <3> DEFINE z == Len(path)
    <3>1. l \in Nat \ {0} /\ k \in Nat /\ z \in Nat /\ k + l \in 0..z
      BY <1>4, <1>7, <2>2
    <3> HIDE DEF z
    <3>2. k \in 0..z /\ k < k + l /\ k < z
      BY <3>1
    <3> QED
      BY <2>1, <3>2 DEF z
<1>9. ASSUME NEW i \in 1..k PROVE s[i] = path[i]
  <2>1. i \in 1..j
    BY <1>7, <1>8
  <2> QED
    BY <1>5, <1>6, <2>1
<1>10. ASSUME NEW i \in 1..l PROVE p[i] = path[k + i]
  <2>1. k + i \in 1..j
    BY <1>4, <1>7, <1>8
  <2> QED
    BY <1>5, <1>6, <2>1
<1>11. On(t, q, path, k)
  <2>1. k = Len(FullPath(t, q)) /\ \A i \in 1..k : FullPath(t, q)[i] = path[i]
    BY <1>9 DEF s, k
  <2> QED
    BY <1>2, <1>8, <2>1, OnIs
<1>12. p[1] = path[k + 1]
  BY <1>4, <1>10
<1>13. path[k+1] \in DOMAIN t[q].forks /\ t[q].forks[path[k+1]] = n
  BY <1>2, <1>12 DEF Leads
<1>14. IsPrefix(p, Rest(path, k))
  <2>1. /\ Rest(path, k) \in Seq(Bytes) /\ Len(Rest(path, k)) = Len(path) - k
        /\ \A i \in 1..(Len(path) - k) : Rest(path, k)[i] = path[k + i]
    BY <1>8, RestProperties
  <2>2. l <= Len(path) - k /\ l = Len(p)
    BY <1>4, <1>6, <1>7, <1>8 DEF l
  <2>3. \A i \in 1..l : p[i] = Rest(path, k)[i]
    BY <1>4, <1>7, <1>10, <2>1, <2>2
  <2> QED
    BY <1>4, <2>1, <2>2, <2>3, PrefixIs
<1>15. Onward(t, path, q, k) = n
  BY <1>13 DEF Onward
<1>16. Beyond(t, path, q, k) = j
  BY <1>8, <1>15 DEF Beyond, l, p
<1>17. Continues(t, path, q, k)
  BY <1>8, <1>13, <1>14 DEF Continues, p
<1>18. Passes(t, path, q, k, n, j)
  BY <1>15, <1>16, <1>17 DEF Passes
<1> QED
  BY <1>2, <1>8, <1>11, <1>12, <1>18 DEF q, p

(* The walk from a node on the path goes on to a node on the path.         *)
LEMMA StepsOn ==
  ASSUME NEW t, NEW E, NEW X, Trie(t, E, X), Standing(t), NEW path \in Seq(Bytes),
         NEW q \in DOMAIN t, NEW k, On(t, q, path, k), Continues(t, path, q, k)
  PROVE  LET n == Onward(t, path, q, k)
             j == Beyond(t, path, q, k)
         IN  n \in DOMAIN t /\ n # 1 /\ On(t, n, path, j) /\ j \in (k + 1)..Len(path)
<1> DEFINE n == t[q].forks[path[k+1]]
           p == t[n].path
           s == FullPath(t, q)
           c == FullPath(t, n)
           l == Len(p)
           j == k + l
<1>1. k < Len(path) /\ path[k+1] \in DOMAIN t[q].forks /\ IsPrefix(p, Rest(path, k))
  BY DEF Continues
<1>2. Child(t, q, path[k+1], n)
  BY <1>1, ForkLeads
<1>3. k = Len(s) /\ k \in 0..Len(path) /\ \A i \in 1..k : s[i] = path[i]
  BY OnIs
<1>4. Onward(t, path, q, k) = n /\ Beyond(t, path, q, k) = j
  BY DEF Onward, Beyond
<1> HIDE DEF n
<1>5. n \in DOMAIN t /\ n # 1 /\ t[n].parent = q /\ p \in ShortPath
  BY <1>2 DEF Child
<1>6. Extends(t, q, n) /\ c \in Seq(Bytes)
  BY <1>5, PathIs
<1>7. /\ Len(c) = k + l /\ \A i \in 1..k : c[i] = s[i]
      /\ \A i \in 1..l : c[k + i] = p[i]
  BY <1>3, <1>6 DEF Extends
<1> HIDE DEF s, c, p
<1>8. p \in Seq(Bytes) /\ l \in Nat \ {0} /\ Len(path) \in Nat
  BY <1>5, ConstantsAssumption, LenProperties DEF ShortPath
<1>9. /\ Rest(path, k) \in Seq(Bytes) /\ Len(Rest(path, k)) = Len(path) - k
      /\ \A i \in 1..(Len(path) - k) : Rest(path, k)[i] = path[k + i]
  BY <1>3, RestProperties
<1>10. l <= Len(path) - k /\ \A i \in 1..l : p[i] = Rest(path, k)[i]
  BY <1>1, <1>8, <1>9, PrefixIs
<1> HIDE DEF l
<1>11. ASSUME NEW i \in 1..j PROVE c[i] = path[i]
  <2>1. CASE i \in 1..k
    BY <1>3, <1>7, <2>1
  <2>2. CASE i \notin 1..k
    <3> DEFINE m == i - k
    <3>1. m \in 1..l /\ m \in 1..(Len(path) - k) /\ k + m = i
      BY <1>3, <1>8, <1>10, <2>2
    <3> HIDE DEF m
    <3>2. c[k + m] = p[m] /\ p[m] = Rest(path, k)[m] /\ Rest(path, k)[m] = path[k + m]
      BY <1>7, <1>9, <1>10, <3>1
    <3> QED
      BY <3>1, <3>2
  <2> QED
    BY <2>1, <2>2
<1>12. j \in (k + 1)..Len(path) /\ j \in 0..Len(path) /\ j = Len(c)
  BY <1>3, <1>7, <1>8, <1>10
<1> HIDE DEF j
<1>13. On(t, n, path, j)
  BY <1>5, <1>11, <1>12, OnIs DEF c
<1> QED
  BY <1>4, <1>5, <1>12, <1>13

(* The walk along a path passes the nodes on it.                           *)
LEMMA WalkPasses ==
  ASSUME NEW t, NEW E, NEW X, Trie(t, E, X), Standing(t), NEW path \in Seq(Bytes),
         NEW x \in DOMAIN t, NEW l, On(t, x, path, l)
  PROVE  Closest(t, path)[0][1] = Closest(t, path)[l][x]
<1> DEFINE w == Closest(t, path)
           Bad == {k \in 0..Len(path) : \E n \in DOMAIN t : On(t, n, path, k) /\ w[0][1] # w[k][n]}
<1>1. l \in 0..Len(path)
  BY OnIs
<1> SUFFICES ASSUME Bad # {} PROVE FALSE
  BY <1>1
<1>2. Bad \in SUBSET Nat
  BY LenProperties
<1>3. PICK j \in Bad : \A i \in Bad : j <= i
  <2> HIDE DEF Bad
  <2> QED
    BY <1>2, LeastNatural
<1>4. PICK n \in DOMAIN t : On(t, n, path, j) /\ w[0][1] # w[j][n]
  OBVIOUS
<1>5. n # 1
  <2>1. SUFFICES ASSUME n = 1 PROVE FALSE
    OBVIOUS
  <2>2. FullPath(t, n) = <<>>
    BY <2>1, PathIs
  <2>3. j = 0
    BY <1>4, <2>2 DEF On
  <2> QED
    BY <1>4, <2>1, <2>3
<1>6. PICK q \in DOMAIN t, k \in 0..Len(path) :
        On(t, q, path, k) /\ k < j /\ Passes(t, path, q, k, n, j)
  BY <1>4, <1>5, StepOn
<1>7. w[k][q] = w[j][n]
  <2>1. w[k][q] = WalkFrom(t, path, w, q, k)
    BY WalkLaw
  <2> HIDE DEF w
  <2> QED
    BY <1>6, <2>1 DEF WalkFrom, Passes
<1>8. k \in Bad
  <2> HIDE DEF w
  <2> QED
    BY <1>4, <1>6, <1>7
<1>9. j <= k /\ j \in Nat /\ k \in Nat
  <2> HIDE DEF Bad
  <2> QED
    BY <1>2, <1>3, <1>8
<1> QED
  BY <1>6, <1>9

(* The walk stays on the path.                                             *)
LEMMA WalkStays ==
  ASSUME NEW t, NEW E, NEW X, Trie(t, E, X), Standing(t), NEW path \in Seq(Bytes),
         NEW x \in DOMAIN t, NEW l, On(t, x, path, l)
  PROVE  LET r == Closest(t, path)[l][x] IN r.node \in DOMAIN t /\ On(t, r.node, path, r.matched)
<1> DEFINE n == Len(path)
           w == Closest(t, path)
           Good(r) == r.node \in DOMAIN t /\ On(t, r.node, path, r.matched)
           Bad == {j \in 0..n : \E i \in DOMAIN t : On(t, i, path, n - j) /\ ~ Good(w[n - j][i])}
<1>1. n \in Nat
  BY LenProperties
<1>2. SUFFICES ASSUME Bad # {} PROVE FALSE
  <2>1. l \in 0..n
    BY OnIs
  <2>2. n - l \in 0..n /\ n - (n - l) = l
    BY <1>1, <2>1
  <2>3. n - l \notin Bad
    BY <1>2
  <2> QED
    BY <2>2, <2>3
<1>3. PICK j \in Bad : \A i \in Bad : j <= i
  <2>1. Bad \in SUBSET Nat
    BY <1>1
  <2> HIDE DEF Bad
  <2> QED
    BY <1>2, <2>1, LeastNatural
<1>4. PICK k \in 0..n : k = n - j
  <2>1. n - j \in 0..n
    BY <1>1
  <2> QED
    BY <2>1
<1>5. PICK i \in DOMAIN t : On(t, i, path, k) /\ ~ Good(w[k][i])
  BY <1>4
<1>6. w[k][i] = WalkFrom(t, path, w, i, k)
  BY WalkLaw
<1>7. CASE ~ Continues(t, path, i, k)
  <2> DEFINE r == [node |-> i, matched |-> k]
  <2>1. w[k][i] = r
    BY <1>6, <1>7 DEF WalkFrom
  <2>2. Good(r)
    BY <1>5
  <2> HIDE DEF w, r, Good
  <2> QED
    BY <1>5, <2>1, <2>2
<1>8. CASE Continues(t, path, i, k)
  <2> DEFINE c == Onward(t, path, i, k)
             b == Beyond(t, path, i, k)
  <2>1. c \in DOMAIN t /\ On(t, c, path, b) /\ b \in (k + 1)..n
    BY <1>5, <1>8, StepsOn
  <2>2. w[k][i] = w[b][c]
    BY <1>6, <1>8 DEF WalkFrom
  <2> HIDE DEF b, c
  <2>3. n - b \in 0..n /\ n - b < j /\ n - (n - b) = b
    BY <1>1, <1>4, <2>1
  <2>4. n - b \notin Bad
    BY <1>1, <1>3, <2>3
  <2>5. Good(w[b][c])
    <3> HIDE DEF Good
    <3> QED
      BY <2>1, <2>3, <2>4
  <2> HIDE DEF Good, w
  <2> QED
    BY <1>5, <2>2, <2>5
<1> QED
  BY <1>7, <1>8

-----------------------------------------------------------------------------
(* Removing.                                                               *)

(* The nodes of S hang together, by fork b of p alone.                     *)
Severs(t, S, p, b) ==
  /\ 1 \notin S /\ p \in DOMAIN t \ S
  /\ b \in DOMAIN t[p].forks /\ t[p].forks[b] \in S
  /\ \A c \in DOMAIN t \ {1} : t[c].parent \in S => c \in S
  /\ \A n \in DOMAIN t \ S : \A x \in DOMAIN t[n].forks : t[n].forks[x] \in S => n = p /\ x = b

(* u is t without the nodes of S and without fork b of p.                  *)
Severed(t, S, p, b, u) ==
  /\ DOMAIN u = DOMAIN t \ S
  /\ \A n \in DOMAIN t \ S : u[n].path = t[n].path /\ u[n].parent = t[n].parent
  /\ \A n \in DOMAIN t \ S : n # p => u[n].forks = t[n].forks
  /\ u[p].forks = Drop(t[p].forks, {b})

LEMMA SeveredSound ==
  ASSUME NEW t, NEW E, NEW X, Trie(t, E, X), NEW h, Sound(t, h),
         NEW S, NEW p, NEW b, Severs(t, S, p, b), NEW u, Severed(t, S, p, b, u)
  PROVE  Sound(u, h)
<1>1. /\ t[1].path = <<>> /\ t[1].parent = 0
      /\ \A d \in DOMAIN t \ ({1} \cup {}) : Hanging(t, d, 0, 0) /\ h[d] < h[t[d].parent]
      /\ \A n \in DOMAIN t : \A x \in DOMAIN t[n].forks : Other(n, x, 0, 0) => Leading(t, n, x, {})
  BY DEF Sound, Open
<1>2. 1 \notin S /\ p \in DOMAIN t \ S /\ b \in DOMAIN t[p].forks /\ t[p].forks[b] \in S /\ 1 \in DOMAIN t
  BY DEF Severs, Trie
<1>3. u[1].path = <<>> /\ u[1].parent = 0
  BY <1>1, <1>2 DEF Severed
<1>4. DOMAIN u[p].forks = DOMAIN t[p].forks \ {b} /\ \A x \in DOMAIN t[p].forks \ {b} : u[p].forks[x] = t[p].forks[x]
  <2>1. DOMAIN Drop(t[p].forks, {b}) = DOMAIN t[p].forks \ {b}
    BY DropAt
  <2>2. \A x \in DOMAIN t[p].forks \ {b} : Drop(t[p].forks, {b})[x] = t[p].forks[x]
    BY DropAt
  <2> QED
    BY <2>1, <2>2 DEF Severed
<1>5. ASSUME NEW n \in DOMAIN t \ S, NEW x \in DOMAIN t[n].forks, t[n].forks[x] \notin S
      PROVE  x \in DOMAIN u[n].forks /\ u[n].forks[x] = t[n].forks[x]
  <2>1. CASE n = p
    <3>1. x # b
      BY <1>2, <1>5, <2>1
    <3> QED
      BY <1>4, <2>1, <3>1
  <2>2. CASE n # p
    BY <2>2 DEF Severed
  <2> QED
    BY <2>1, <2>2
<1>6. ASSUME NEW n \in DOMAIN t \ S, NEW x \in DOMAIN u[n].forks
      PROVE  x \in DOMAIN t[n].forks /\ u[n].forks[x] = t[n].forks[x] /\ ~ (n = p /\ x = b)
  <2>1. CASE n = p
    BY <1>4, <1>6, <2>1
  <2>2. CASE n # p
    BY <1>6, <2>2 DEF Severed
  <2> QED
    BY <2>1, <2>2
<1>7. ASSUME NEW d \in DOMAIN u \ ({1} \cup {}) PROVE Hanging(u, d, 0, 0) /\ h[d] < h[u[d].parent]
  <2>1. d \in DOMAIN t \ S /\ d # 1
    BY DEF Severed
  <2> DEFINE q == t[d].parent
             x == t[d].path[1]
  <2>2. Hanging(t, d, 0, 0) /\ h[d] < h[q]
    BY <1>1, <2>1
  <2>3. /\ t[d].path \in ShortPath /\ q \in DOMAIN t /\ x \in DOMAIN t[q].forks
        /\ t[q].forks[x] = d /\ Other(q, x, 0, 0)
    BY <2>2 DEF Hanging
  <2>4. q \notin S
    BY <2>1 DEF Severs
  <2>5. u[d].path = t[d].path /\ u[d].parent = q /\ q \in DOMAIN u
    BY <2>1, <2>3, <2>4 DEF Severed
  <2>6. u[d].path[1] = x
    BY <2>5
  <2> HIDE DEF q, x
  <2>7. x \in DOMAIN u[q].forks /\ u[q].forks[x] = d
    BY <1>5, <2>1, <2>3, <2>4
  <2> QED
    BY <2>2, <2>3, <2>5, <2>6, <2>7 DEF Hanging
<1>8. ASSUME NEW n \in DOMAIN u, NEW x \in DOMAIN u[n].forks
      PROVE  Leading(u, n, x, {})
  <2>1. n \in DOMAIN t \ S
    BY DEF Severed
  <2> DEFINE c == t[n].forks[x]
  <2>2. x \in DOMAIN t[n].forks /\ u[n].forks[x] = c /\ ~ (n = p /\ x = b)
    BY <1>6, <2>1
  <2>3. Leading(t, n, x, {})
    <3>1. n # 0
      BY <2>1, TrieNode
    <3> QED
      BY <1>1, <2>1, <2>2, <3>1 DEF Other
  <2>4. c \in DOMAIN t /\ c # 1 /\ t[c].path[1] = x /\ t[c].parent = n
    BY <2>3 DEF Leading
  <2>5. c \notin S
    BY <2>1, <2>2 DEF Severs
  <2> HIDE DEF c
  <2>6. c \in DOMAIN u /\ u[c].path = t[c].path /\ u[c].parent = t[c].parent
    BY <2>4, <2>5 DEF Severed
  <2>7. c \in DOMAIN u \ ({1} \cup {}) /\ u[c].path[1] = x /\ u[c].parent = n
    BY <2>4, <2>6
  <2> QED
    BY <2>2, <2>7 DEF Leading
<1> QED
  BY <1>3, <1>7, <1>8 DEF Sound, Open

(* What RemoveFork cuts off the trie.                                      *)
Cut(t, S, p, b) == [Drop(Invalidate(t, 1), S) EXCEPT ![p].forks = Drop(@, {b})]

CutOff(t, E, X, S, u) ==
  /\ Trie(u, E, X) /\ Standing(u) /\ DOMAIN u = DOMAIN t \ S
  /\ SameLinks(u, t, DOMAIN u) /\ SameEntries(u, t)

LEMMA CutStands ==
  ASSUME NEW t, NEW E, NEW X, Trie(t, E, X), Standing(t), NEW S, NEW p, NEW b, Severs(t, S, p, b)
  PROVE  CutOff(t, E, X, S, Cut(t, S, p, b))
<1> DEFINE i == Invalidate(t, 1)
           d == Drop(i, S)
           P == [i[p] EXCEPT !.forks = Drop(i[p].forks, {b})]
           u == Cut(t, S, p, b)
<1>1. /\ Trie(i, E, X) /\ DOMAIN i = DOMAIN t
      /\ \A n \in DOMAIN t : i[n].path = t[n].path /\ i[n].forks = t[n].forks /\ i[n].parent = t[n].parent
  BY InvalidateChanges
<1>a. SameEntries(t, i)
  BY InvalidateSimilar DEF Similar
<1> HIDE DEF i
<1>2. p \in DOMAIN t \ S /\ 1 \in DOMAIN t \ S
  BY DEF Severs, Trie
<1>3. d = [n \in DOMAIN t \ S |-> i[n]]
  BY <1>1 DEF Drop
<1>4. u = [n \in DOMAIN t \ S |-> IF n = p THEN P ELSE i[n]]
  <2>1. u = [d EXCEPT ![p].forks = Drop(@, {b})]
    BY DEF Cut, i
  <2> HIDE DEF u
  <2> QED
    BY <1>2, <1>3, <2>1
<1>5. i[p] \in Node(E, X) /\ Drop(i[p].forks, {b}) \in Forks
  BY <1>1, <1>2, TrieNode, DropForks
<1>6. /\ P \in Node(E, X) /\ P.path = i[p].path /\ P.parent = i[p].parent
      /\ P.forks = Drop(i[p].forks, {b}) /\ P.entry = i[p].entry
  <2> DEFINE f == Drop(i[p].forks, {b})
             r == i[p]
             R == [r EXCEPT !.forks = f]
  <2>1. f \in Forks /\ r \in Node(E, X)
    BY <1>5
  <2>2. P = R
    OBVIOUS
  <2> HIDE DEF f, r, P
  <2>3. R \in Node(E, X) /\ R.path = r.path /\ R.parent = r.parent /\ R.forks = f /\ R.entry = r.entry
    BY <2>1 DEF Node
  <2> HIDE DEF R
  <2>4. P \in Node(E, X) /\ P.path = r.path /\ P.parent = r.parent /\ P.forks = f /\ P.entry = r.entry
    BY <2>2, <2>3
  <2> QED
    BY <2>4 DEF r, f
<1> HIDE DEF P, u, d
<1>7. DOMAIN u = DOMAIN t \ S /\ u[p] = P /\ \A n \in DOMAIN t \ S : n # p => u[n] = i[n]
  BY <1>2, <1>4
<1>8. \A n \in DOMAIN u : u[n] \in Node(E, X)
  BY <1>1, <1>6, <1>7, TrieNode
<1>9. Trie(u, E, X)
  <2>1. u = [n \in DOMAIN u |-> u[n]]
    BY <1>4, <1>7
  <2>2. u \in [DOMAIN u -> Node(E, X)]
    BY <1>8, <2>1
  <2>3. IsFiniteSet(DOMAIN u) /\ DOMAIN u \in SUBSET (Nat \ {0})
    BY <1>7, FS_Subset DEF Trie
  <2> QED
    BY <1>2, <1>7, <2>2, <2>3 DEF Trie
<1>10. Severed(t, S, p, b, u)
  <2>1. u[p].path = t[p].path /\ u[p].parent = t[p].parent /\ u[p].forks = Drop(t[p].forks, {b})
    BY <1>1, <1>2, <1>6, <1>7
  <2>2. ASSUME NEW n \in DOMAIN t \ S, n # p
        PROVE  u[n].path = t[n].path /\ u[n].parent = t[n].parent /\ u[n].forks = t[n].forks
    BY <1>1, <1>7, <2>2
  <2> QED
    BY <1>7, <2>1, <2>2 DEF Severed
<1>11. PICK h \in [Nat -> Nat], top \in Nat : Sound(t, h) /\ \A n \in DOMAIN t : h[n] <= top
  BY DEF Standing
<1>12. Sound(u, h)
  BY <1>10, <1>11, SeveredSound
<1>13. Standing(u)
  BY <1>7, <1>11, <1>12 DEF Standing
<1>14. ASSUME NEW n \in DOMAIN u PROVE SameLink(u, t, n) /\ t[n].entry = u[n].entry
  <2>1. u[n].entry = i[n].entry
    BY <1>6, <1>7, <1>14
  <2> QED
    BY <1>a, <1>7, <1>10, <1>14, <2>1 DEF Severed, SameLink, SameEntries
<1> QED
  BY <1>7, <1>9, <1>13, <1>14 DEF u, CutOff, SameLinks, SameEntries

LEMMA RootOn ==
  ASSUME NEW t, NEW E, NEW X, Trie(t, E, X), Standing(t), NEW path \in Seq(Bytes)
  PROVE  1 \in DOMAIN t /\ On(t, 1, path, 0)
<1>1. 1 \in DOMAIN t
  BY DEF Trie
<1>2. FullPath(t, 1) = <<>>
  BY <1>1, PathIs
<1>3. 0 = Len(FullPath(t, 1)) /\ 0 \in 0..Len(path) /\ \A i \in 1..0 : FullPath(t, 1)[i] = path[i]
  BY <1>2, LenProperties
<1>4. On(t, 1, path, 0)
  BY <1>1, <1>3, OnIs
<1> QED
  BY <1>1, <1>4

(* The node that is found at a path.                                       *)
LEMMA FoundAt ==
  ASSUME NEW t, NEW E, NEW X, Trie(t, E, X), Standing(t), NEW path \in Seq(Bytes), path # <<>>,
         Found(t, path)
  PROVE  LET m == FindClosest(t, 1, path).node IN
         /\ m \in DOMAIN t /\ m # 1
         /\ On(t, m, path, Len(path)) /\ FullPath(t, m) = path
<1> DEFINE r == Closest(t, path)[0][1]
           m == r.node
<1>1. 1 \in DOMAIN t /\ On(t, 1, path, 0)
  BY RootOn
<1>2. m \in DOMAIN t /\ On(t, m, path, r.matched)
  BY <1>1, WalkStays
<1>3. r.matched = Len(path)
  BY DEF Found, FindClosest
<1>4. On(t, m, path, Len(path))
  BY <1>2, <1>3
<1> HIDE DEF r, m
<1>5. FullPath(t, m) \in Seq(Bytes)
  BY <1>2, PathIs
<1>6. FullPath(t, m) = path
  BY <1>4, <1>5, SamePath DEF On
<1>7. m # 1
  <2>1. m = 1 => FullPath(t, m) = <<>>
    BY <1>2, PathIs
  <2> QED
    BY <1>6, <2>1
<1>8. FindClosest(t, 1, path).node = m
  BY DEF FindClosest, m, r
<1> QED
  BY <1>2, <1>4, <1>6, <1>7, <1>8

LEMMA FrontProperties ==
  ASSUME NEW path \in Seq(Bytes), path # <<>>
  PROVE  /\ Front(path) \in Seq(Bytes) /\ Len(path) \in Nat \ {0}
         /\ Len(Front(path)) = Len(path) - 1
         /\ \A i \in 1..(Len(path) - 1) : Front(path)[i] = path[i]
<1>1. Len(path) \in Nat \ {0}
  BY LenProperties, EmptySeq
<1>2. Len(path) - 1 \in 0..Len(path)
  BY <1>1
<1> DEFINE n == Len(path) - 1
           f == SubSeq(path, 1, n)
<1>3. Front(path) = f
  BY DEF Front
<1> HIDE DEF n
<1>4. f \in Seq(Bytes) /\ Len(f) = n /\ \A i \in 1..n : f[i] = path[i]
  BY <1>2, FirstPart DEF n
<1> HIDE DEF f
<1> QED
  BY <1>1, <1>3, <1>4 DEF n

(* Along the path without its last byte one comes to the node above.       *)
LEMMA AboveFound ==
  ASSUME NEW t, NEW E, NEW X, Trie(t, E, X), Standing(t), NEW path \in Seq(Bytes), path # <<>>,
         NEW m \in DOMAIN t, NEW q \in DOMAIN t, NEW k \in 0..Len(path),
         On(t, q, path, k), k < Len(path), Passes(t, path, q, k, m, Len(path))
  PROVE  FindClosest(t, 1, Front(path)) = [node |-> q, matched |-> k]
<1> DEFINE f == Front(path)
           s == FullPath(t, q)
           p == t[m].path
           l == Len(path)
           w == Closest(t, f)
<1>1. f \in Seq(Bytes) /\ l \in Nat \ {0} /\ Len(f) = l - 1 /\ \A i \in 1..(l - 1) : f[i] = path[i]
  BY FrontProperties
<1>2. 1 \in DOMAIN t /\ On(t, 1, f, 0)
  <2> HIDE DEF f
  <2> QED
    BY <1>1, RootOn
<1>3. k = Len(s) /\ \A i \in 1..k : s[i] = path[i]
  BY OnIs
<1>4. k \in 0..(l - 1) /\ \A i \in 1..k : i \in 1..(l - 1)
  BY <1>1
<1>5. On(t, q, f, k)
  <2> HIDE DEF f, l
  <2>1. \A i \in 1..k : s[i] = f[i]
    BY <1>1, <1>3, <1>4
  <2>2. k \in 0..Len(f)
    BY <1>1, <1>4
  <2> QED
    BY <1>1, <1>3, <2>1, <2>2, OnIs DEF s
<1>6. w[0][1] = w[k][q]
  <2> HIDE DEF f
  <2> QED
    BY <1>1, <1>2, <1>5, WalkPasses
<1>7. k + Len(p) = l /\ t[q].forks[path[k+1]] = m
  BY DEF Passes, Onward, Beyond
<1>8. ASSUME Continues(t, f, q, k) PROVE FALSE
  <2>1. k < Len(f) /\ IsPrefix(t[t[q].forks[f[k+1]]].path, Rest(f, k))
    BY <1>8 DEF Continues
  <2>2. f[k+1] = path[k+1]
    <3>1. k + 1 \in 1..(l - 1)
      <4> HIDE DEF f, l
      <4> QED
        BY <1>1, <1>4, <2>1
    <3> QED
      BY <1>1, <3>1
  <2>3. IsPrefix(p, Rest(f, k))
    BY <1>7, <2>1, <2>2
  <2> HIDE DEF f, l, p
  <2>4. Rest(f, k) \in Seq(Bytes) /\ Len(Rest(f, k)) = l - 1 - k
    BY <1>1, <1>4, RestProperties
  <2>5. p \in Seq(Bytes)
    BY TrieNode DEF p
  <2>6. Len(p) <= l - 1 - k
    BY <2>3, <2>4, <2>5, PrefixIs
  <2>7. Len(p) \in Nat
    BY <2>5, LenProperties
  <2> QED
    BY <1>1, <1>4, <1>7, <2>6, <2>7
<1>9. w[k][q] = [node |-> q, matched |-> k]
  <2>1. k \in 0..Len(f)
    <3> HIDE DEF f, l
    <3> QED
      BY <1>1, <1>4
  <2> HIDE DEF f
  <2>2. Closest(t, f)[k][q] = WalkFrom(t, f, Closest(t, f), q, k)
    BY <1>1, <2>1, WalkLaw
  <2> QED
    BY <1>8, <2>2 DEF WalkFrom
<1>10. FindClosest(t, 1, f) = w[0][1]
  BY DEF FindClosest
<1> QED
  BY <1>6, <1>9, <1>10

(* What is below the node at a path.                                       *)
LEMMA SubtreeIs ==
  ASSUME NEW t, NEW E, NEW X, Trie(t, E, X), Standing(t), NEW path \in Seq(Bytes),
         NEW m \in DOMAIN t, FullPath(t, m) = path, NEW n \in DOMAIN t
  PROVE  n \in Subtree(t, m) <=>
           /\ Len(path) <= Len(FullPath(t, n))
           /\ \A i \in 1..Len(path) : path[i] = FullPath(t, n)[i]
<1> DEFINE c == FullPath(t, n)
<1>1. c \in Seq(Bytes)
  BY PathIs
<1>2. n \in Subtree(t, m) <=> IsPrefix(path, c)
  BY DEF Subtree
<1> HIDE DEF c
<1>3. IsPrefix(path, c) <=> Len(path) <= Len(c) /\ \A i \in 1..Len(path) : path[i] = c[i]
  BY <1>1, PrefixIs
<1> QED
  BY <1>2, <1>3 DEF c

(* One comes into it by the node at the path alone.                        *)
LEMMA OneWayIn ==
  ASSUME NEW t, NEW E, NEW X, Trie(t, E, X), Standing(t), NEW path \in Seq(Bytes), path # <<>>,
         Found(t, path), NEW m \in DOMAIN t, m = FindClosest(t, 1, path).node,
         FullPath(t, m) = path,
         NEW n \in DOMAIN t \ Subtree(t, m), NEW x \in DOMAIN t[n].forks,
         t[n].forks[x] \in Subtree(t, m)
  PROVE  t[n].forks[x] = m
<1> DEFINE c == t[n].forks[x]
           p == t[c].path
           s == FullPath(t, n)
           d == FullPath(t, c)
           k == Len(s)
           l == Len(path)
           w == Closest(t, path)
<1>1. c \in DOMAIN t /\ c # 1 /\ p \in ShortPath /\ p[1] = x /\ t[c].parent = n
  BY ForkLeads DEF Child, Starts
<1>2. l <= Len(d) /\ \A i \in 1..l : path[i] = d[i]
  <2> HIDE DEF c
  <2> QED
    BY <1>1, SubtreeIs DEF c
<1>3. ~ (l <= k /\ \A i \in 1..l : path[i] = s[i])
  BY SubtreeIs
<1>4. s \in Seq(Bytes) /\ d \in Seq(Bytes)
  <2> HIDE DEF c
  <2> QED
    BY <1>1, PathIs
<1>5. Extends(t, n, c)
  <2> HIDE DEF c
  <2> QED
    BY <1>1, PathIs
<1>6. /\ Len(d) = k + Len(p) /\ \A i \in 1..k : d[i] = s[i]
      /\ \A i \in 1..Len(p) : d[k + i] = p[i]
  BY <1>5 DEF Extends
<1>7. k \in Nat /\ l \in Nat /\ Len(p) \in Nat \ {0}
  <2> HIDE DEF p, s
  <2> QED
    BY <1>1, <1>4, LenProperties, ConstantsAssumption DEF ShortPath
<1> HIDE DEF c, p, s, d, k, l
<1>8. k < l
  <2>1. SUFFICES ASSUME l <= k PROVE FALSE
    BY <1>7
  <2>2. \A i \in 1..l : i \in 1..k
    BY <1>7, <2>1
  <2>3. \A i \in 1..l : path[i] = s[i]
    BY <1>2, <1>6, <2>2
  <2> QED
    BY <1>3, <2>1, <2>3
<1>9. \A i \in 1..k : s[i] = path[i]
  <2>1. \A i \in 1..k : i \in 1..l
    BY <1>7, <1>8
  <2> QED
    BY <1>2, <1>6, <2>1
<1>10. On(t, n, path, k) /\ k \in 0..Len(path)
  <2>1. k \in 0..Len(path)
    BY <1>7, <1>8 DEF l
  <2> QED
    BY <1>9, <2>1, OnIs DEF s, k
<1>11. path[k + 1] = x
  <2>1. k + 1 \in 1..l /\ 1 \in 1..Len(p)
    BY <1>7, <1>8
  <2>2. path[k + 1] = d[k + 1] /\ d[k + 1] = p[1]
    BY <1>2, <1>6, <2>1
  <2> QED
    BY <1>1, <2>2
<1>12. w[0][1] = w[k][n]
  BY <1>10, RootOn, WalkPasses
<1>13. w[0][1].matched = l /\ w[0][1].node = m
  BY DEF Found, FindClosest, l
<1>14. w[k][n] = WalkFrom(t, path, w, n, k)
  BY <1>10, WalkLaw
<1>15. Continues(t, path, n, k)
  <2>1. SUFFICES ASSUME ~ Continues(t, path, n, k) PROVE FALSE
    OBVIOUS
  <2> HIDE DEF w
  <2>2. w[k][n] = [node |-> n, matched |-> k]
    BY <1>14, <2>1 DEF WalkFrom
  <2>3. w[0][1].matched = k
    BY <1>12, <2>2
  <2> QED
    BY <1>7, <1>8, <1>13, <2>3
<1>16. Onward(t, path, n, k) = c
  BY <1>11 DEF Onward, c
<1>17. On(t, c, path, Beyond(t, path, n, k))
  BY <1>10, <1>15, <1>16, StepsOn
<1>18. On(t, c, path, l)
  <2>1. Len(d) \in 0..l
    BY <1>1, <1>17, OnIs DEF d, l
  <2>2. Len(d) = l
    BY <1>2, <1>7, <2>1
  <2> QED
    BY <1>17, <2>2 DEF On, d
<1>19. w[0][1] = w[l][c]
  BY <1>1, <1>18, WalkPasses
<1>20. w[l][c] = [node |-> c, matched |-> l]
  <2>1. ~ Continues(t, path, c, l)
    BY <1>7 DEF Continues, l
  <2>2. l \in 0..Len(path)
    BY <1>7 DEF l
  <2>3. w[l][c] = WalkFrom(t, path, w, c, l)
    BY <1>1, <2>2, WalkLaw
  <2> QED
    BY <2>1, <2>3 DEF WalkFrom
<1>21. m = c
  <2> HIDE DEF w
  <2> QED
    BY <1>13, <1>19, <1>20
<1> QED
  BY <1>21 DEF c

(* RemoveFork cuts off what is below the path, and all of it.              *)
LEMMA SubtreeSevered ==
  ASSUME NEW t, NEW E, NEW X, Trie(t, E, X), Standing(t), NEW path \in Seq(Bytes), path # <<>>,
         Found(t, path)
  PROVE  LET m == FindClosest(t, 1, path).node
             a == FindClosest(t, 1, Front(path))
         IN  /\ m \in DOMAIN t /\ a.node = t[m].parent
             /\ Severs(t, Subtree(t, m), a.node, ForkByte(path, a.matched))
<1> DEFINE m == FindClosest(t, 1, path).node
           S == Subtree(t, m)
           l == Len(path)
<1>1. m \in DOMAIN t /\ m # 1 /\ On(t, m, path, l) /\ FullPath(t, m) = path
  BY FoundAt
<1>2. PICK q \in DOMAIN t, k \in 0..l :
        /\ q = t[m].parent /\ On(t, q, path, k) /\ k < l /\ path[k+1] = t[m].path[1]
        /\ Passes(t, path, q, k, m, l)
  <2> HIDE DEF m
  <2> QED
    BY <1>1, StepOn
<1>3. FindClosest(t, 1, Front(path)) = [node |-> q, matched |-> k]
  <2> HIDE DEF m
  <2> QED
    BY <1>1, <1>2, AboveFound
<1> DEFINE b == path[k + 1]
<1>4. \A n \in DOMAIN t : n \in S <=>
        Len(path) <= Len(FullPath(t, n)) /\ \A i \in 1..Len(path) : path[i] = FullPath(t, n)[i]
  <2> HIDE DEF m
  <2> QED
    BY <1>1, SubtreeIs
<1>5. l \in Nat \ {0}
  BY FrontProperties
<1>6. 1 \notin S
  <2>1. 1 \in DOMAIN t
    BY RootOn
  <2>2. Len(FullPath(t, 1)) = 0
    BY <2>1, PathIs
  <2> HIDE DEF S, m
  <2> QED
    BY <1>4, <1>5, <2>1, <2>2
<1>7. q \notin S
  <2>1. Len(FullPath(t, q)) = k
    BY <1>2 DEF On
  <2> HIDE DEF S, m
  <2> QED
    BY <1>2, <1>4, <1>5, <2>1
<1>8. m \in S
  <2> HIDE DEF S, m
  <2> QED
    BY <1>1, <1>4, <1>5
<1>9. b \in DOMAIN t[q].forks /\ t[q].forks[b] = m
  <2> HIDE DEF m
  <2> QED
    BY <1>2 DEF Passes, Continues, Onward
<1>10. ASSUME NEW c \in DOMAIN t \ {1}, t[c].parent \in S PROVE c \in S
  <2> DEFINE p == t[c].parent
             s == FullPath(t, p)
             d == FullPath(t, c)
  <2>1. p \in DOMAIN t
    BY <1>10 DEF Subtree
  <2>2. Extends(t, p, c)
    BY PathIs
  <2>3. Len(d) = Len(s) + Len(t[c].path) /\ \A i \in 1..Len(s) : d[i] = s[i]
    BY <2>2 DEF Extends
  <2>4. l <= Len(s) /\ \A i \in 1..l : path[i] = s[i]
    <3> HIDE DEF S, m, p
    <3> QED
      BY <1>4, <1>10, <2>1 DEF p
  <2>5. Len(s) \in Nat /\ Len(t[c].path) \in Nat
    <3>1. s \in Seq(Bytes) /\ t[c].path \in Seq(Bytes)
      <4> HIDE DEF p
      <4> QED
        BY <2>1, PathIs, TrieNode
    <3> HIDE DEF s
    <3> QED
      BY <3>1, LenProperties
  <2> HIDE DEF s, d, p
  <2>6. l <= Len(d)
    BY <1>5, <2>3, <2>4, <2>5
  <2>7. \A i \in 1..l : i \in 1..Len(s)
    BY <1>5, <2>4, <2>5
  <2>8. \A i \in 1..l : path[i] = d[i]
    BY <2>3, <2>4, <2>7
  <2> HIDE DEF S, m
  <2> QED
    BY <1>4, <2>6, <2>8 DEF d
<1>11. ASSUME NEW n \in DOMAIN t \ S, NEW x \in DOMAIN t[n].forks, t[n].forks[x] \in S
       PROVE  n = q /\ x = b
  <2>1. t[n].forks[x] = m
    <3> HIDE DEF m
    <3>1. m = FindClosest(t, 1, path).node
      BY DEF m
    <3> QED
      BY <1>1, <1>11, <3>1, OneWayIn
  <2>2. Child(t, n, x, m)
    <3> HIDE DEF m
    <3> QED
      BY <2>1, ForkLeads
  <2> HIDE DEF m
  <2> QED
    BY <1>2, <2>2 DEF Child, Starts
<1>12. Severs(t, S, q, b)
  <2>1. q \in DOMAIN t \ S /\ t[q].forks[b] \in S
    BY <1>7, <1>8, <1>9
  <2> HIDE DEF S, m, b
  <2> QED
    BY <1>6, <1>9, <1>10, <1>11, <2>1 DEF Severs
<1>13. ForkByte(path, FindClosest(t, 1, Front(path)).matched) = b /\ FindClosest(t, 1, Front(path)).node = q
  BY <1>3 DEF ForkByte
<1> QED
  BY <1>1, <1>2, <1>12, <1>13

(* The forks of a node, put in an order.                                   *)
Ordered(order, D) ==
  /\ Len(order) \in Nat
  /\ \A i \in 1..Len(order) : order[i] \in D
  /\ \A i, j \in 1..Len(order) : i # j => order[i] # order[j]
  /\ \A x \in D : \E i \in 1..Len(order) : order[i] = x

LEMMA ForksOrdered ==
  ASSUME NEW t, NEW E, NEW X, Trie(t, E, X), Standing(t), NEW n \in DOMAIN t,
         NEW order \in SetToSeqs(DOMAIN t[n].forks)
  PROVE  Ordered(order, DOMAIN t[n].forks)
<1> DEFINE f == t[n].forks
           D == DOMAIN f
<1>1. ASSUME NEW x \in D PROVE f[x] \in DOMAIN t /\ t[f[x]].path[1] = x
  BY ForkLeads DEF Child, Starts
<1>2. f \in [D -> DOMAIN t]
  <2>1. f \in [D -> Nat \ {0}]
    BY TrieNode, ForksAre
  <2> HIDE DEF f
  <2> QED
    BY <1>1, <2>1
<1>3. \A x, y \in D : f[x] = f[y] => x = y
  <2> HIDE DEF f
  <2> QED
    BY <1>1
<1> HIDE DEF f
<1>4. f \in Injection(D, DOMAIN t)
  BY <1>2, <1>3 DEF Injection, IsInjective
<1>5. IsFiniteSet(D) /\ Cardinality(D) \in Nat
  BY <1>4, FS_Injection, FS_CardinalityType DEF Trie
<1>6. order \in [1..Cardinality(D) -> D]
  BY DEF SetToSeqs, f
<1>7. Len(order) = Cardinality(D)
  BY <1>5, <1>6
<1>8. \A i, j \in 1..Cardinality(D) : i # j => order[i] # order[j]
  BY DEF SetToSeqs, f
<1>9. \A x \in D : \E i \in 1..Cardinality(D) : order[i] = x
  <2> DEFINE k == Cardinality(D)
  <2>1. order \in Injection(1..k, D)
    BY <1>6, <1>8 DEF Injection, IsInjective
  <2>2. Cardinality(1..k) = k
    BY <1>5, FS_Interval
  <2>3. order \in Surjection(1..k, D)
    BY <1>5, <2>1, <2>2, FS_Injection
  <2> QED
    BY <2>3 DEF Surjection
<1> QED
  BY <1>5, <1>6, <1>7, <1>8, <1>9 DEF Ordered, f

(* The trie after the first children were added again.                     *)
Again(t, path, order, f, i) ==
  LET match == FindClosest(t, 1, path).node
      above == FindClosest(t, 1, Front(path))
      child == t[t[match].forks[order[i]]]
  IN  IF i = 0 THEN Cut(t, Subtree(t, match), above.node, ForkByte(path, above.matched))
      ELSE Add(f[i-1], above.node, t[match].path \o child.path, child.entry)

Agains(t, path, order, f, j) == f = [i \in 0..j |-> Again(t, path, order, f, i)]

LEMMA AgainExists ==
  ASSUME NEW t, NEW path, NEW order, NEW j \in Nat
  PROVE  \E f : Agains(t, path, order, f, j)
<1> DEFINE W(f, i) == Again(t, path, order, f, i)
           Bad == {k \in Nat : ~ \E f : f = [i \in 0..k |-> W(f, i)]}
<1> SUFFICES ASSUME Bad # {} PROVE FALSE
  BY DEF Agains
<1>1. PICK k \in Bad : \A m \in Bad : k <= m
  BY LeastNatural
<1>2. k # 0
  <2> DEFINE v == W(<<>>, 0)
             f == [i \in 0..0 |-> v]
  <2>1. ASSUME NEW i \in 0..0 PROVE W(f, i) = v
    <3>1. i = 0
      OBVIOUS
    <3> HIDE DEF f
    <3> QED
      BY <3>1 DEF Again
  <2> HIDE DEF W, v
  <2>2. f = [i \in 0..0 |-> W(f, i)]
    BY <2>1
  <2> QED
    BY <2>2
<1>3. k - 1 \in Nat /\ k - 1 \notin Bad
  BY <1>1, <1>2
<1>4. PICK f : f = [i \in 0..(k - 1) |-> W(f, i)]
  BY <1>3
<1> DEFINE g == [i \in 0..k |-> IF i = k THEN W(f, k) ELSE f[i]]
<1>5. ASSUME NEW i \in 0..k PROVE W(f, i) = W(g, i)
  <2>1. CASE i = 0
    BY <2>1 DEF Again
  <2>2. CASE i # 0
    <3>1. i - 1 \in 0..k /\ i - 1 # k
      BY <1>3, <2>2
    <3>2. g[i-1] = f[i-1]
      BY <3>1
    <3> HIDE DEF g
    <3> QED
      BY <2>2, <3>2 DEF Again
  <2> QED
    BY <2>1, <2>2
<1>6. \A i \in 0..k : g[i] = W(g, i)
  <2>1. ASSUME NEW i \in 0..k, i # k PROVE g[i] = W(f, i)
    <3>1. i \in 0..(k - 1)
      BY <1>3, <2>1
    <3> HIDE DEF W
    <3> QED
      BY <1>4, <3>1
  <2> HIDE DEF W
  <2>2. g[k] = W(f, k)
    BY <1>1
  <2> QED
    BY <1>5, <2>1, <2>2
<1>7. g = [i \in 0..k |-> g[i]]
  OBVIOUS
<1> HIDE DEF g, W
<1>8. g = [i \in 0..k |-> W(g, i)]
  BY <1>6, <1>7
<1> QED
  BY <1>1, <1>8

(* The addresses of the nodes are in Y, but for that of the root.          *)
BelowRoot(t, Y) == \A n \in DOMAIN t \ {1} : t[n].self \subseteq Y

LEMMA TrieNarrow ==
  ASSUME NEW t, NEW E, NEW X, Trie(t, E, X), NEW Y, \A n \in DOMAIN t : t[n].self \subseteq Y
  PROVE  Trie(t, E, Y)
<1>1. ASSUME NEW n \in DOMAIN t PROVE t[n] \in Node(E, Y)
  <2> DEFINE r == t[n]
  <2>1. r \in Node(E, X) /\ r.self \subseteq Y
    BY TrieNode
  <2> HIDE DEF r
  <2>2. r \in Node(E, Y)
    BY <2>1 DEF Node
  <2> QED
    BY <2>2 DEF r
<1>2. t \in [DOMAIN t -> Node(E, Y)]
  BY <1>1 DEF Trie
<1> QED
  BY <1>2 DEF Trie

(* Invalidate drops the address of one node.                               *)
LEMMA InvalidateSelf ==
  ASSUME NEW t, NEW E, NEW X, Trie(t, E, X), NEW m \in DOMAIN t
  PROVE  LET u == Invalidate(t, m) IN
         u[m].self = {} /\ \A n \in DOMAIN t \ {m} : u[n] = t[n]
<1> DEFINE r == t[m]
           R == [r EXCEPT !.self = {}]
<1>1. r \in Node(E, X)
  BY TrieNode
<1>2. Invalidate(t, m) = [t EXCEPT ![m] = R]
  BY DEF Invalidate
<1> HIDE DEF r
<1>3. R.self = {}
  BY <1>1 DEF Node
<1> HIDE DEF R
<1> QED
  BY <1>2, <1>3 DEF Trie

LEMMA CutNarrows ==
  ASSUME NEW t, NEW E, NEW X, Trie(t, E, X), NEW S, NEW p, NEW b, Severs(t, S, p, b),
         Trie(Cut(t, S, p, b), E, X), NEW Y, BelowRoot(t, Y)
  PROVE  Trie(Cut(t, S, p, b), E, Y)
<1> DEFINE i == Invalidate(t, 1)
           d == Drop(i, S)
           r == d[p]
           R == [r EXCEPT !.forks = Drop(@, {b})]
           u == Cut(t, S, p, b)
<1>1. Trie(i, E, X) /\ DOMAIN i = DOMAIN t /\ 1 \in DOMAIN t
  BY InvalidateChanges DEF Trie
<1>2. \A n \in DOMAIN i : i[n].self \subseteq Y
  BY <1>1, InvalidateSelf DEF BelowRoot
<1>3. p \in DOMAIN t \ S
  BY DEF Severs
<1>4. DOMAIN d = DOMAIN i \ S /\ \A n \in DOMAIN i \ S : d[n] = i[n]
  BY DEF Drop
<1>5. u = [d EXCEPT ![p] = R]
  BY DEF Cut
<1>6. r \in Node(E, X)
  BY <1>1, <1>3, <1>4, TrieNode
<1> HIDE DEF r
<1>7. R.self = r.self
  BY <1>6 DEF Node
<1> HIDE DEF R, i, d, u
<1>8. DOMAIN u = DOMAIN d /\ u[p] = R /\ \A n \in DOMAIN d \ {p} : u[n] = d[n]
  BY <1>1, <1>3, <1>4, <1>5
<1>9. \A n \in DOMAIN u : u[n].self \subseteq Y
  <2> SUFFICES ASSUME NEW n \in DOMAIN u PROVE u[n].self \subseteq Y
    OBVIOUS
  <2>1. CASE n = p
    <3>1. r.self = i[p].self
      BY <1>1, <1>3, <1>4 DEF r
    <3> QED
      BY <1>1, <1>2, <1>3, <1>7, <1>8, <2>1, <3>1
  <2>2. CASE n # p
    BY <1>2, <1>4, <1>8, <2>2
  <2> QED
    BY <2>1, <2>2
<1>10. Trie(u, E, Y)
  BY <1>9, TrieNarrow DEF u
<1> QED
  BY <1>10 DEF u

(* RemoveFork leaves a trie.                                               *)
LEMMA DetachStands ==
  ASSUME NEW t, NEW E, NEW X, Trie(t, E, X), Standing(t), NoEntry \in E,
         NEW path \in Seq(Bytes), path # <<>>, Found(t, path),
         NEW order \in SetToSeqs(DOMAIN t[FindClosest(t, 1, path).node].forks),
         NEW Y, BelowRoot(t, Y)
  PROVE  Trie(Detach(t, path, order), E, Y) /\ Standing(Detach(t, path, order))
<1> DEFINE m == FindClosest(t, 1, path).node
           a == FindClosest(t, 1, Front(path))
           b == ForkByte(path, a.matched)
           S == Subtree(t, m)
           l == Len(order)
           W(f, i) == Again(t, path, order, f, i)
           w == CHOOSE f : f = [i \in 0..l |-> W(f, i)]
           Good(u) == Trie(u, E, Y) /\ Standing(u) /\ a.node \in DOMAIN u
<1>1. m \in DOMAIN t /\ Severs(t, S, a.node, b)
  BY SubtreeSevered
<1>2. l \in Nat /\ \A i \in 1..l : order[i] \in DOMAIN t[m].forks
  <2>1. m \in DOMAIN t
    BY <1>1
  <2> HIDE DEF m
  <2>2. order \in SetToSeqs(DOMAIN t[m].forks)
    BY DEF m
  <2>3. Ordered(order, DOMAIN t[m].forks)
    BY <2>1, <2>2, ForksOrdered
  <2> QED
    BY <2>3 DEF Ordered
<1>3. Detach(t, path, order) = w[l]
  BY DEF Detach, Again, Cut
<1>4. w = [i \in 0..l |-> W(w, i)]
  <2>1. \E f : f = [i \in 0..l |-> W(f, i)]
    <3> HIDE DEF l
    <3> QED
      <4>1. \E f : Agains(t, path, order, f, l)
        BY <1>2, AgainExists
      <4> QED
        BY <4>1 DEF Agains
  <2> HIDE DEF W, l
  <2> QED
    BY <2>1
<1> HIDE DEF w
<1>5. \A i \in 0..l : w[i] = W(w, i)
  <2> HIDE DEF W, l
  <2> QED
    BY <1>4
<1>6. Good(w[0])
  <2> DEFINE u == Cut(t, S, a.node, b)
  <2>1. w[0] = u
    BY <1>2, <1>5 DEF Again
  <2>2. Trie(u, E, Y) /\ Standing(u) /\ DOMAIN u = DOMAIN t \ S
    <3> DEFINE p == a.node
    <3> HIDE DEF S, a, b, p
    <3>1. Severs(t, S, p, b)
      BY <1>1 DEF p
    <3>2. CutOff(t, E, X, S, Cut(t, S, p, b))
      BY <3>1, CutStands
    <3>3. Trie(Cut(t, S, p, b), E, X)
      BY <3>2 DEF CutOff
    <3>4. Trie(Cut(t, S, p, b), E, Y)
      BY <3>1, <3>3, CutNarrows
    <3> QED
      BY <3>2, <3>4 DEF p, CutOff
  <2>3. a.node \in DOMAIN t \ S
    <3> HIDE DEF S, a, b
    <3> QED
      BY <1>1 DEF Severs
  <2> HIDE DEF u, a
  <2> QED
    BY <2>1, <2>2, <2>3
<1>7. ASSUME NEW i \in 1..l, Good(w[i-1]) PROVE Good(w[i])
  <2> DEFINE c == t[m].forks[order[i]]
             p == t[m].path \o t[c].path
             e == t[c].entry
             v == w[i-1]
  <2>1. w[i] = Add(v, a.node, p, e)
    BY <1>2, <1>5 DEF Again
  <2>2. c \in DOMAIN t
    <3> HIDE DEF m
    <3> QED
      BY <1>1, <1>2, ForkLeads DEF Child
  <2>3. t[m].path \in Seq(Bytes) /\ t[c].path \in Seq(Bytes) /\ e \in E
    <3> HIDE DEF m, c
    <3> QED
      BY <1>1, <2>2, TrieNode DEF e
  <2>4. p \in Seq(Bytes)
    <3> HIDE DEF m, c
    <3> QED
      BY <2>3, Concatenation
  <2> HIDE DEF p, e, a, v
  <2>5. Trie(v, E, Y) /\ Standing(v) /\ a.node \in DOMAIN v
    BY <1>7 DEF v
  <2>6. e \in E
    BY <2>3
  <2> DEFINE u == Add(v, a.node, p, e)
  <2>7. Trie(u, E, Y) /\ Standing(u) /\ DOMAIN v \subseteq DOMAIN u
    BY <2>4, <2>5, <2>6, AddStands
  <2> HIDE DEF u
  <2> QED
    BY <2>1, <2>5, <2>7 DEF u
<1> DEFINE Bad == {i \in 0..l : ~ Good(w[i])}
<1>8. Bad = {}
  <2>1. SUFFICES ASSUME Bad # {} PROVE FALSE
    OBVIOUS
  <2>2. Bad \in SUBSET Nat
    BY <1>2
  <2>3. PICK i \in Bad : \A j \in Bad : i <= j
    <3> HIDE DEF Bad
    <3> QED
      BY <2>1, <2>2, LeastNatural
  <2> HIDE DEF Good
  <2>4. i # 0
    BY <1>6
  <2>5. i \in 1..l /\ i - 1 \in 0..l /\ ~ (i <= i - 1)
    BY <1>2, <2>3, <2>4
  <2>6. i - 1 \notin Bad
    BY <2>3, <2>5
  <2> QED
    BY <1>7, <2>5, <2>6
<1>9. Good(w[l])
  <2>1. l \in 0..l
    BY <1>2
  <2> HIDE DEF Good
  <2> QED
    BY <1>8, <2>1
<1> QED
  BY <1>3, <1>9

LEMMA RemoveForkKeeps ==
  ASSUME TrieInv, NEW path \in Seq(Bytes), path # <<>>, RemoveFork(path)
  PROVE  TrieInv'
<1>1. PICK X : Trie(trie, 0..adds, X) /\ (~hashed => X \subseteq uploaded)
  BY DEF TrieInv
<1>2. adds \in Nat /\ Standing(trie)
  BY DEF TrieInv
<1>3. PICK order \in SetToSeqs(DOMAIN trie[FindClosest(trie, 1, path).node].forks) :
        /\ trie' = Detach(trie, path, order)
        /\ at' = 0 /\ UNCHANGED <<uploaded, hashed, adds>> /\ Found(trie, path)
  BY DEF RemoveFork, Changes
<1>4. NoEntry \in 0..adds
  BY <1>2 DEF NoEntry
<1>5. Trie(trie', 0..adds', X) /\ Standing(trie')
  <2> DEFINE E == 0..adds
             u == Detach(trie, path, order)
  <2>1. Trie(u, E, X) /\ Standing(u)
    <3> HIDE DEF E
    <3>1. Trie(trie, E, X) /\ NoEntry \in E
      BY <1>1, <1>4 DEF E
    <3>2. BelowRoot(trie, X)
      BY <3>1, TrieNode DEF BelowRoot
    <3> QED
      BY <1>2, <1>3, <3>1, <3>2, DetachStands
  <2> HIDE DEF u
  <2>2. trie' = u /\ adds' = adds
    BY <1>3 DEF u
  <2> QED
    BY <2>1, <2>2
<1>6. adds' \in Nat /\ adds <= adds'
  BY <1>2, <1>3
<1> QED
  BY <1>1, <1>3, <1>5, <1>6, ChangeKeeps

LEMMA TrieInvStep ==
  ASSUME TrieInv, [Next]_vars
  PROVE  TrieInv'
<1>1. ASSUME NEW path \in Paths, AddFork(path) PROVE TrieInv'
  BY <1>1, AddForkKeeps, ConstantsAssumption
<1>2. ASSUME NEW path \in Paths, RemoveFork(path) PROVE TrieInv'
  BY <1>2, RemoveForkKeeps, ConstantsAssumption
<1>3. ASSUME NEW path \in Paths, RemoveNothing(path) PROVE TrieInv'
  BY <1>3, RemoveNothingKeeps
<1>4. CASE CalculateSelfAddress
  BY <1>4, CalculateKeeps
<1>5. CASE SaveRecursively
  BY <1>5, SaveKeeps
<1>6. CASE Descend
  BY <1>6, DescendKeeps
<1>7. CASE Upload
  BY <1>7, UploadKeeps
<1>8. CASE UploadFails
  BY <1>8, UploadFailsKeeps
<1>9. CASE UNCHANGED vars
  BY <1>9, TrieInvSame DEF vars, counts, history
<1> QED
  BY <1>1, <1>2, <1>3, <1>4, <1>5, <1>6, <1>7, <1>8, <1>9 DEF Next

(* However it is added to, removed from, saved and hashed, the trie is a   *)
(* patricia trie: a fork is found by the first byte of its prefix, which   *)
(* is not empty and fits the record, and leads to a node that knows its    *)
(* parent.                                                                 *)
THEOREM TrieStands == Spec => []PatriciaTrie
<1>1. Init => TrieInv
  BY TrieInvInit
<1>2. TrieInv /\ [Next]_vars => TrieInv'
  BY TrieInvStep
<1>3. TrieInv => PatriciaTrie
  BY TriePatricia DEF TrieInv
<1> QED
  BY <1>1, <1>2, <1>3, PTL DEF Spec

(* Unless addresses were calculated without an upload, a chunk of the      *)
(* manifest is uploaded after those it refers to, whatever uploads fail.   *)
THEOREM ChildrenUploadedFirst == Spec => []ChildrenFirst
<1>1. Init => TrieInv
  BY TrieInvInit
<1>2. TrieInv /\ [Next]_vars => TrieInv'
  BY TrieInvStep
<1>3. TrieInv => ChildrenFirst
  BY DEF TrieInv
<1> QED
  BY <1>1, <1>2, <1>3, PTL DEF Spec

-----------------------------------------------------------------------------
(* The files.                                                              *)

LEMMA Rejoin ==
  ASSUME NEW c \in Seq(Bytes), NEW p \in Seq(Bytes), IsPrefix(c, p)
  PROVE  c \o Rest(p, Len(c)) = p
<1> DEFINE k == Len(c)
           l == Len(p)
           r == Rest(p, k)
           j == c \o r
<1>1. k \in 0..l /\ l \in Nat /\ \A i \in 1..k : c[i] = p[i]
  BY PrefixIs, LenProperties
<1> HIDE DEF k, l
<1>2. r \in Seq(Bytes) /\ Len(r) = l - k /\ \A i \in 1..(l - k) : r[i] = p[k + i]
  BY <1>1, RestProperties DEF l
<1> HIDE DEF r
<1>3. /\ j \in Seq(Bytes) /\ Len(j) = k + Len(r)
      /\ \A i \in 1..k : j[i] = c[i]
      /\ \A i \in 1..Len(r) : j[k + i] = r[i]
  BY <1>2, Concatenation DEF k
<1> HIDE DEF j
<1>4. Len(j) = l
  BY <1>1, <1>2, <1>3
<1>5. ASSUME NEW i \in 1..l PROVE j[i] = p[i]
  <2>1. CASE i <= k
    BY <1>1, <1>3, <2>1
  <2>2. CASE ~ (i <= k)
    <3>1. i - k \in 1..(l - k) /\ k + (i - k) = i
      BY <1>1, <2>2
    <3>2. j[k + (i - k)] = r[i - k] /\ r[i - k] = p[k + (i - k)]
      BY <1>2, <1>3, <3>1
    <3> QED
      BY <3>1, <3>2
  <2> QED
    BY <2>1, <2>2
<1>6. j = p
  BY <1>3, <1>4, <1>5, SeqEqual DEF l
<1> QED
  BY <1>6 DEF j, r, k

LEMMA Associative ==
  ASSUME NEW s \in Seq(Bytes), NEW c \in Seq(Bytes), NEW r \in Seq(Bytes)
  PROVE  (s \o c) \o r = s \o (c \o r)
  BY ConcatAssociative

LEMMA PrefixJoins ==
  ASSUME NEW s \in Seq(Bytes), NEW c \in Seq(Bytes), NEW p \in Seq(Bytes), IsPrefix(c, p)
  PROVE  IsPrefix(s \o c, s \o p)
<1> DEFINE k == Len(s)
           a == s \o c
           b == s \o p
<1>1. /\ k \in Nat /\ Len(c) \in Nat /\ Len(p) \in Nat
      /\ Len(c) <= Len(p) /\ \A i \in 1..Len(c) : c[i] = p[i]
  BY PrefixIs, LenProperties
<1>2. /\ a \in Seq(Bytes) /\ Len(a) = k + Len(c)
      /\ \A i \in 1..k : a[i] = s[i]
      /\ \A i \in 1..Len(c) : a[k + i] = c[i]
  BY Concatenation
<1>3. /\ b \in Seq(Bytes) /\ Len(b) = k + Len(p)
      /\ \A i \in 1..k : b[i] = s[i]
      /\ \A i \in 1..Len(p) : b[k + i] = p[i]
  BY Concatenation
<1> HIDE DEF k, a, b
<1>4. Len(a) <= Len(b)
  BY <1>1, <1>2, <1>3
<1>5. ASSUME NEW i \in 1..Len(a) PROVE a[i] = b[i]
  <2>1. CASE i <= k
    BY <1>1, <1>2, <1>3, <2>1
  <2>2. CASE ~ (i <= k)
    <3>1. i - k \in 1..Len(c) /\ i - k \in 1..Len(p) /\ k + (i - k) = i
      BY <1>1, <1>2, <2>2
    <3>2. a[k + (i - k)] = c[i - k] /\ b[k + (i - k)] = p[i - k] /\ c[i - k] = p[i - k]
      BY <1>1, <1>2, <1>3, <3>1
    <3> QED
      BY <3>1, <3>2
  <2> QED
    BY <2>1, <2>2
<1>6. IsPrefix(a, b)
  BY <1>2, <1>3, <1>4, <1>5, PrefixIs
<1> QED
  BY <1>6 DEF a, b

(* The path of a node is that of its parent and its own.                   *)
LEMMA Climbs ==
  ASSUME NEW t, NEW E, NEW X, Trie(t, E, X), Standing(t), NEW n \in DOMAIN t
  PROVE  /\ FullPath(t, n) \in Seq(Bytes)
         /\ n = 1 => FullPath(t, n) = <<>>
         /\ n # 1 => /\ t[n].parent \in DOMAIN t /\ t[n].path \in Seq(Bytes)
                     /\ FullPath(t, t[n].parent) \in Seq(Bytes)
                     /\ FullPath(t, n) = FullPath(t, t[n].parent) \o t[n].path
<1>1. PICK h \in [Nat -> Nat], top \in Nat : Sound(t, h) /\ \A m \in DOMAIN t : h[m] <= top
  BY DEF Standing
<1>2. FullPath(t, n) = IF n = 1 THEN <<>> ELSE FullPath(t, t[n].parent) \o t[n].path
  BY ClimbLaw DEF FullPath, ClimbFrom
<1>3. n # 1 => t[n].parent \in DOMAIN t /\ t[n].path \in ShortPath
  BY <1>1, NodeHangs
<1>4. n # 1 => FullPath(t, t[n].parent) \in Seq(Bytes)
  BY <1>3, PathIs
<1> QED
  BY <1>2, <1>3, <1>4, PathIs DEF ShortPath

(* The nodes of t have the paths and the references in u that they have    *)
(* in t.                                                                   *)
SamePaths(t, u) == \A n \in DOMAIN t : FullPath(u, n) = FullPath(t, n)
Kept(t, u) == DOMAIN t \subseteq DOMAIN u /\ SamePaths(t, u) /\ SameEntries(t, u)

(* A node of t hangs in u as in t, or lower by a node that is between.     *)
Lengthened(t, u, n) ==
  \E top \in DOMAIN u \ {1}, c \in Seq(Bytes) :
    /\ IsPrefix(c, t[n].path) /\ Linked(u, n, top, Rest(t[n].path, Len(c)))
    /\ Linked(u, top, t[n].parent, c)

LEMMA PathsKept ==
  ASSUME NEW t, NEW E, NEW X, Trie(t, E, X), Standing(t),
         NEW u, Trie(u, E, X), Standing(u), DOMAIN t \subseteq DOMAIN u,
         \A n \in DOMAIN t \ {1} : SameLink(t, u, n) \/ Lengthened(t, u, n)
  PROVE  SamePaths(t, u)
<1>1. PICK h \in [Nat -> Nat], top \in Nat : Sound(t, h) /\ \A m \in DOMAIN t : h[m] <= top
  BY DEF Standing
<1> DEFINE depth == [m \in DOMAIN t |-> top - h[m]]
           Bad == {m \in DOMAIN t : FullPath(u, m) # FullPath(t, m)}
           Depths == {depth[m] : m \in Bad}
<1>2. SUFFICES ASSUME Bad # {} PROVE FALSE
  BY DEF SamePaths
<1>3. ASSUME NEW m \in DOMAIN t PROVE depth[m] \in Nat
  <2> DEFINE k == h[m]
  <2>1. k \in Nat /\ k <= top
    BY <1>1, TrieNode
  <2> HIDE DEF k
  <2>2. top - k \in Nat
    BY <2>1
  <2> QED
    BY <2>2 DEF k
<1>4. ASSUME NEW m \in DOMAIN t, m # 1
      PROVE  t[m].parent \in DOMAIN t /\ depth[t[m].parent] < depth[m]
  <2> DEFINE q == t[m].parent
             k == h[m]
             l == h[q]
  <2>1. q \in DOMAIN t /\ k < l
    BY <1>1, <1>4, NodeHangs
  <2>2. k \in Nat /\ l \in Nat
    <3> HIDE DEF q
    <3> QED
      BY <2>1, TrieNode
  <2> HIDE DEF k, l
  <2>3. top - l < top - k
    BY <2>1, <2>2
  <2> HIDE DEF q
  <2>4. depth[q] = top - l /\ depth[m] = top - k
    BY <2>1 DEF k, l
  <2> QED
    BY <2>1, <2>3, <2>4 DEF q
<1> HIDE DEF depth
<1>5. Depths \in SUBSET Nat /\ Depths # {}
  BY <1>2, <1>3
<1>6. PICK d \in Depths : \A e \in Depths : d <= e
  <2> HIDE DEF Depths
  <2> QED
    BY <1>5, LeastNatural
<1>7. PICK m \in Bad : d = depth[m]
  OBVIOUS
<1> DEFINE q == t[m].parent
<1>8. m # 1
  <2>1. SUFFICES ASSUME m = 1 PROVE FALSE
    OBVIOUS
  <2>2. FullPath(t, m) = <<>> /\ FullPath(u, m) = <<>>
    BY <2>1, Climbs
  <2> QED
    BY <2>2
<1>9. q \in DOMAIN t /\ q \notin Bad
  <2>1. q \in DOMAIN t /\ depth[q] < d
    BY <1>4, <1>7, <1>8
  <2> HIDE DEF q
  <2>2. SUFFICES ASSUME q \in Bad PROVE FALSE
    BY <2>1
  <2>3. d <= depth[q]
    BY <1>6, <2>2
  <2>4. d \in Nat /\ depth[q] \in Nat
    BY <1>3, <1>5, <1>6, <2>1
  <2> QED
    BY <2>1, <2>3, <2>4
<1>10. /\ t[m].path \in Seq(Bytes) /\ FullPath(t, q) \in Seq(Bytes)
       /\ FullPath(t, m) = FullPath(t, q) \o t[m].path
  BY <1>8, Climbs
<1>11. FullPath(u, q) = FullPath(t, q)
  <2> HIDE DEF q
  <2> QED
    BY <1>9
<1>12. FullPath(u, m) = FullPath(u, u[m].parent) \o u[m].path
  BY <1>8, Climbs
<1>13. CASE SameLink(t, u, m)
  <2>1. FullPath(u, m) = FullPath(u, q) \o t[m].path
    BY <1>12, <1>13 DEF SameLink
  <2> HIDE DEF q
  <2> QED
    BY <1>10, <1>11, <2>1
<1>14. CASE Lengthened(t, u, m)
  <2>1. PICK a \in DOMAIN u \ {1}, c \in Seq(Bytes) :
          /\ IsPrefix(c, t[m].path) /\ Linked(u, m, a, Rest(t[m].path, Len(c)))
          /\ Linked(u, a, q, c)
    BY <1>14 DEF Lengthened
  <2> DEFINE p == t[m].path
             r == Rest(p, Len(c))
             s == FullPath(t, q)
  <2>2. FullPath(u, m) = FullPath(u, a) \o r
    BY <1>12, <2>1 DEF Linked
  <2>3. FullPath(u, a) = s \o c
    <3>1. FullPath(u, a) = FullPath(u, u[a].parent) \o u[a].path
      BY <2>1, Climbs
    <3> QED
      BY <1>11, <2>1, <3>1 DEF Linked
  <2>4. r \in Seq(Bytes)
    <3>1. Len(c) \in 0..Len(p)
      BY <1>10, <2>1, PrefixIs, LenProperties
    <3> QED
      BY <1>10, <3>1, RestProperties
  <2>5. c \o r = p
    BY <1>10, <2>1, Rejoin
  <2>6. p \in Seq(Bytes) /\ s \in Seq(Bytes) /\ FullPath(t, m) = s \o p
    BY <1>10
  <2> HIDE DEF p, r, s
  <2>7. (s \o c) \o r = s \o (c \o r)
    BY <2>4, <2>6, Associative
  <2>8. FullPath(u, m) = s \o p
    BY <2>2, <2>3, <2>5, <2>7
  <2> QED
    BY <2>6, <2>8
<1> QED
  BY <1>8, <1>13, <1>14

(* A new node on the way to goal is a directory; the one at goal may have  *)
(* the entry.                                                              *)
Towards(u, n, goal, entry) ==
  /\ IsPrefix(FullPath(u, n), goal)
  /\ HasEntry(u, n, NoEntry) \/ (FullPath(u, n) = goal /\ HasEntry(u, n, entry))

Added(t, u, goal, entry) ==
  Kept(t, u) /\ \A n \in DOMAIN u \ DOMAIN t : Towards(u, n, goal, entry)

LEMMA PrefixItself ==
  ASSUME NEW s \in Seq(Bytes)
  PROVE  IsPrefix(s, s)
  BY PrefixIs, LenProperties

LEMMA JoinedAdds ==
  ASSUME NEW t, NEW E, NEW X, Trie(t, E, X), Standing(t),
         NEW u, Trie(u, E, X), Standing(u), NEW tip \in DOMAIN t, NEW path \in Seq(Bytes),
         NEW entry, NEW new \in DOMAIN u, Joined(t, u, tip, path, entry, new)
  PROVE  /\ Added(t, u, FullPath(t, tip) \o path, entry)
         /\ FullPath(u, new) = FullPath(t, tip) \o path
<1> DEFINE s == FullPath(t, tip)
           goal == s \o path
<1>1. 1 \in DOMAIN t /\ new # 1 /\ new \notin DOMAIN t /\ HasEntry(u, new, entry) /\ SameEntries(t, u)
  BY DEF Trie, Joined
<1>2. s \in Seq(Bytes)
  BY Climbs
<1>3. goal \in Seq(Bytes) /\ IsPrefix(goal, goal)
  BY <1>2, Concatenation, PrefixItself
<1>4. CASE DOMAIN u = DOMAIN t \cup {new} /\ SameLinks(t, u, DOMAIN t) /\ Linked(u, new, tip, path)
  <2>1. SamePaths(t, u)
    BY <1>4, PathsKept DEF SameLinks
  <2>2. FullPath(u, new) = FullPath(u, u[new].parent) \o u[new].path
    BY <1>1, Climbs
  <2>3. FullPath(u, new) = goal
    BY <1>4, <2>1, <2>2 DEF Linked, SamePaths
  <2> HIDE DEF goal
  <2>4. Towards(u, new, goal, entry)
    BY <1>1, <1>3, <2>3 DEF Towards
  <2>5. Added(t, u, goal, entry)
    BY <1>1, <1>4, <2>1, <2>4 DEF Added, Kept
  <2> QED
    BY <2>3, <2>5 DEF goal
<1>5. CASE \E old, top, c : Between(t, u, tip, path, new, old, top, c)
  <2>1. PICK old, top, c : Between(t, u, tip, path, new, old, top, c)
    BY <1>5
  <2>2. /\ old \in DOMAIN t \ {1} /\ top \notin DOMAIN t /\ DOMAIN u = DOMAIN t \cup {new, top}
        /\ SameLinks(t, u, DOMAIN t \ {old})
        /\ t[old].parent = tip /\ IsPrefix(c, t[old].path) /\ IsPrefix(c, path)
        /\ c \in Seq(Bytes)
        /\ Linked(u, top, tip, c) /\ Linked(u, old, top, Rest(t[old].path, Len(c)))
    BY <2>1 DEF Between
  <2>3. top \in DOMAIN u \ {1}
    BY <1>1, <2>2
  <2>4. Lengthened(t, u, old)
    BY <2>2, <2>3 DEF Lengthened
  <2>5. SamePaths(t, u)
    <3>1. \A n \in DOMAIN t \ {1} : SameLink(t, u, n) \/ Lengthened(t, u, n)
      BY <2>2, <2>4 DEF SameLinks
    <3>2. DOMAIN t \subseteq DOMAIN u
      BY <2>2
    <3> QED
      BY <3>1, <3>2, PathsKept
  <2>6. FullPath(u, top) = s \o c
    <3>1. FullPath(u, top) = FullPath(u, u[top].parent) \o u[top].path
      BY <2>3, Climbs
    <3> QED
      BY <2>2, <2>5, <3>1 DEF Linked, SamePaths
  <2>7. IsPrefix(FullPath(u, top), goal)
    <3>1. IsPrefix(s \o c, s \o path)
      BY <1>2, <2>2, PrefixJoins
    <3> QED
      BY <2>6, <3>1
  <2>8. /\ FullPath(u, new) = goal
        /\ top # new => HasEntry(u, top, NoEntry)
    <3>1. CASE top = new
      <4>1. c = path
        BY <2>1, <3>1 DEF Between
      <4> QED
        BY <2>6, <3>1, <4>1
    <3>2. CASE top # new
      <4>1. Linked(u, new, top, Rest(path, Len(c))) /\ HasEntry(u, top, NoEntry)
        BY <2>1, <3>2 DEF Between
      <4>2. FullPath(u, new) = FullPath(u, u[new].parent) \o u[new].path
        BY <1>1, Climbs
      <4> DEFINE r == Rest(path, Len(c))
      <4>3. FullPath(u, new) = (s \o c) \o r
        BY <2>6, <4>1, <4>2 DEF Linked
      <4>4. c \o r = path
        BY <2>2, Rejoin
      <4>5. r \in Seq(Bytes)
        <5>1. Len(c) \in 0..Len(path)
          BY <2>2, PrefixIs, LenProperties
        <5> QED
          BY <5>1, RestProperties
      <4> HIDE DEF r, s
      <4>6. (s \o c) \o r = s \o (c \o r)
        BY <1>2, <2>2, <4>5, Associative
      <4>7. FullPath(u, new) = s \o path
        BY <4>3, <4>4, <4>6
      <4> QED
        BY <4>1, <4>7
    <3> QED
      BY <3>1, <3>2
  <2> HIDE DEF goal
  <2>9. ASSUME NEW n \in DOMAIN u \ DOMAIN t PROVE Towards(u, n, goal, entry)
    <3>1. n = new \/ (n = top /\ top # new)
      BY <2>2
    <3>2. CASE n = new
      BY <1>1, <1>3, <2>8, <3>2 DEF Towards
    <3>3. CASE n = top /\ top # new
      BY <2>7, <2>8, <3>3 DEF Towards
    <3> QED
      BY <3>1, <3>2, <3>3
  <2>10. Added(t, u, goal, entry)
    <3>1. DOMAIN t \subseteq DOMAIN u
      BY <2>2
    <3> QED
      BY <1>1, <2>5, <2>9, <3>1 DEF Added, Kept
  <2> QED
    BY <2>8, <2>10 DEF goal
<1> QED
  BY <1>4, <1>5 DEF Joined

(* What is behind the walk, and what is ahead of it, is always the same.   *)
LEMMA WalkAhead ==
  ASSUME NEW t, NEW E, NEW X, Trie(t, E, X), Standing(t), NEW path \in Seq(Bytes),
         NEW x \in DOMAIN t, NEW l \in 0..Len(path)
  PROVE  LET r == Closest(t, path)[l][x] IN
         FullPath(t, r.node) \o Rest(path, r.matched) = FullPath(t, x) \o Rest(path, l)
<1> DEFINE n == Len(path)
           w == Closest(t, path)
           Good(r, i, k) == FullPath(t, r.node) \o Rest(path, r.matched) = FullPath(t, i) \o Rest(path, k)
           Bad == {j \in 0..n : \E i \in DOMAIN t : ~ Good(w[n - j][i], i, n - j)}
<1>1. n \in Nat
  BY LenProperties
<1>2. SUFFICES ASSUME Bad # {} PROVE FALSE
  <2>1. n - l \in 0..n /\ n - (n - l) = l
    BY <1>1
  <2>2. n - l \notin Bad
    BY <1>2
  <2> QED
    BY <2>1, <2>2
<1>3. PICK j \in Bad : \A i \in Bad : j <= i
  <2>1. Bad \in SUBSET Nat
    BY <1>1
  <2> HIDE DEF Bad
  <2> QED
    BY <1>2, <2>1, LeastNatural
<1>4. PICK k \in 0..n : k = n - j
  <2>1. n - j \in 0..n
    BY <1>1
  <2> QED
    BY <2>1
<1>5. PICK i \in DOMAIN t : ~ Good(w[k][i], i, k)
  BY <1>4
<1>6. w[k][i] = WalkFrom(t, path, w, i, k)
  BY WalkLaw
<1>7. CASE ~ Continues(t, path, i, k)
  <2> DEFINE r == [node |-> i, matched |-> k]
  <2>1. w[k][i] = r
    BY <1>6, <1>7 DEF WalkFrom
  <2>2. Good(r, i, k)
    OBVIOUS
  <2> HIDE DEF w, r, Good
  <2> QED
    BY <1>5, <2>1, <2>2
<1>8. CASE Continues(t, path, i, k)
  <2> DEFINE c == Onward(t, path, i, k)
             b == Beyond(t, path, i, k)
             p == t[c].path
             a == Rest(path, k)
             z == Rest(path, b)
             s == FullPath(t, i)
  <2>1. c \in DOMAIN t /\ b \in (k + 1)..n
    BY <1>8, WalkGoesOn
  <2>2. w[k][i] = w[b][c]
    BY <1>6, <1>8 DEF WalkFrom
  <2>3. c # 1 /\ p \in Seq(Bytes) /\ t[c].parent = i
    <3>1. path[k+1] \in DOMAIN t[i].forks
      BY <1>8 DEF Continues
    <3>2. Child(t, i, path[k+1], t[i].forks[path[k+1]])
      BY <3>1, ForkLeads
    <3> QED
      BY <3>2 DEF Child, Onward, ShortPath
  <2>4. s \in Seq(Bytes) /\ FullPath(t, c) = s \o p
    <3>1. s \in Seq(Bytes)
      BY Climbs
    <3>2. FullPath(t, c) = FullPath(t, t[c].parent) \o t[c].path
      <4> HIDE DEF c
      <4> QED
        BY <2>1, <2>3, Climbs
    <3> QED
      BY <2>3, <3>1, <3>2
  <2>5. a \in Seq(Bytes) /\ Len(a) = n - k /\ \A e \in 1..(n - k) : a[e] = path[k + e]
    BY RestProperties
  <2>6. z \in Seq(Bytes) /\ Len(z) = n - b /\ \A e \in 1..(n - b) : z[e] = path[b + e]
    <3>1. b \in 0..n
      BY <1>1, <2>1
    <3> HIDE DEF b
    <3> QED
      BY <3>1, RestProperties
  <2>7. IsPrefix(p, a)
    BY <1>8 DEF Continues, Onward
  <2>8. p \o z = a
    <3>1. p \o Rest(a, Len(p)) = a
      <4> HIDE DEF p, a
      <4> QED
        BY <2>3, <2>5, <2>7, Rejoin
    <3> DEFINE m == Len(p)
    <3>2. b = k + m /\ m \in Nat /\ m <= n - k
      <4>1. Len(p) \in Nat
        <5> HIDE DEF p
        <5> QED
          BY <2>3, LenProperties
      <4>2. Len(p) <= Len(a)
        <5> HIDE DEF p, a
        <5> QED
          BY <2>3, <2>5, <2>7, PrefixIs
      <4> QED
        BY <2>5, <4>1, <4>2 DEF Beyond
    <3> DEFINE y == Rest(a, m)
    <3>3. m \in 0..Len(a)
      BY <1>1, <2>5, <3>2
    <3> HIDE DEF a, z, m, p
    <3>4. y \in Seq(Bytes) /\ Len(y) = Len(a) - m /\ \A e \in 1..(Len(a) - m) : y[e] = a[m + e]
      BY <2>5, <3>3, RestProperties
    <3> HIDE DEF b, y
    <3>5. Len(y) = n - b
      BY <1>1, <2>5, <3>2, <3>4
    <3>6. ASSUME NEW e \in 1..(n - b) PROVE y[e] = z[e]
      <4>1. e \in 1..(Len(a) - m) /\ m + e \in 1..(n - k) /\ k + (m + e) = b + e
        BY <1>1, <2>5, <3>2
      <4>2. y[e] = a[m + e] /\ a[m + e] = path[k + (m + e)] /\ z[e] = path[b + e]
        BY <2>5, <2>6, <3>4, <4>1
      <4> QED
        BY <4>1, <4>2
    <3>7. y = z
      BY <2>6, <3>4, <3>5, <3>6, SeqEqual
    <3> QED
      BY <3>1, <3>7 DEF y, m
  <2> HIDE DEF p, a, z, s
  <2>9. FullPath(t, c) \o z = s \o a
    <3>1. (s \o p) \o z = s \o (p \o z)
      BY <2>3, <2>4, <2>6, Associative
    <3> QED
      BY <2>4, <2>8, <3>1
  <2> HIDE DEF b, c
  <2>10. n - b \in 0..n /\ n - b < j /\ n - (n - b) = b
    BY <1>1, <1>4, <2>1
  <2>11. n - b \notin Bad
    <3>1. Bad \in SUBSET Nat
      BY <1>1
    <3> HIDE DEF Bad
    <3>2. j \in Nat /\ n - b \in Nat
      BY <1>1, <1>3, <2>10, <3>1
    <3> QED
      BY <1>3, <2>10, <3>2
  <2>12. Good(w[b][c], c, b)
    <3> HIDE DEF Good
    <3> QED
      BY <2>1, <2>10, <2>11
  <2>13. Good(w[b][c], i, k)
    <3> DEFINE r == w[b][c]
    <3>1. FullPath(t, r.node) \o Rest(path, r.matched) = FullPath(t, c) \o z
      BY <2>12 DEF z
    <3> HIDE DEF r
    <3>2. FullPath(t, r.node) \o Rest(path, r.matched) = s \o a
      BY <2>9, <3>1
    <3> QED
      BY <3>2 DEF r, s, a
  <2> HIDE DEF Good, w
  <2> QED
    BY <1>5, <2>2, <2>13
<1> QED
  BY <1>7, <1>8

(* The piece leads on to goal, where the entry is if there was no node.    *)
LedTo(w, v, goal, entry) ==
  /\ FullPath(v.trie, v.tip) = goal
  /\ v.tip \in DOMAIN w.trie \/ HasEntry(v.trie, v.tip, entry)

LEMMA AddPieceAdds ==
  ASSUME NEW t, NEW E, NEW X, NEW w, Grows(t, E, X, w),
         NEW piece \in ShortPath, NEW entry \in E, NoEntry \in E
  PROVE  LET v == AddPiece(w, piece, entry)
             goal == FullPath(w.trie, w.tip) \o piece
         IN  Added(w.trie, v.trie, goal, entry) /\ LedTo(w, v, goal, entry)
<1> DEFINE u == w.trie
           closest == FindClosest(u, w.tip, piece)
           remaining == Rest(piece, closest.matched)
           a == Attach(u, closest.node, remaining, entry)
           goal == FullPath(u, w.tip) \o piece
<1>1. /\ Trie(u, E, X) /\ Standing(u) /\ w.tip \in DOMAIN u
      /\ w = [trie |-> u, tip |-> w.tip]
  BY DEF Grows
<1>2. piece \in Seq(Bytes) /\ Len(piece) \in 1..MaxPrefixLength /\ 0 \in 0..Len(piece)
  BY DEF ShortPath
<1>3. /\ closest.node \in DOMAIN u /\ closest.matched \in 0..Len(piece)
      /\ remaining # <<>> => Stops(u, closest.node, remaining)
  <2> HIDE DEF u
  <2> QED
    BY <1>1, <1>2, ClosestFound
<1>4. AddPiece(w, piece, entry) = IF remaining = <<>> THEN [w EXCEPT !.tip = closest.node] ELSE a
  BY DEF AddPiece
<1>5. FullPath(u, closest.node) \o remaining = goal
  <2>1. Rest(piece, 0) = piece
    BY <1>2, SubSeqFull DEF Rest
  <2> HIDE DEF u
  <2>2. LET r == Closest(u, piece)[0][w.tip] IN
        FullPath(u, r.node) \o Rest(piece, r.matched) = FullPath(u, w.tip) \o Rest(piece, 0)
    BY <1>1, <1>2, WalkAhead
  <2> QED
    BY <2>1, <2>2 DEF FindClosest
<1> HIDE DEF closest, goal
<1>6. remaining \in Seq(Bytes) /\ Len(remaining) = Len(piece) - closest.matched
  BY <1>2, <1>3, RestProperties
<1>7. FullPath(u, closest.node) \in Seq(Bytes)
  <2> HIDE DEF u
  <2> QED
    BY <1>1, <1>3, Climbs
<1> HIDE DEF remaining, a, u
<1>8. CASE remaining = <<>>
  <2> DEFINE v == [trie |-> u, tip |-> closest.node]
  <2>1. [w EXCEPT !.tip = closest.node] = v
    BY <1>1
  <2>2. v.trie = u /\ v.tip = closest.node
    OBVIOUS
  <2>3. AddPiece(w, piece, entry) = v
    BY <1>4, <1>8, <2>1
  <2>4. FullPath(u, closest.node) = goal
    BY <1>5, <1>7, <1>8, ConcatEmptySeq
  <2> HIDE DEF v
  <2>5. Added(u, v.trie, goal, entry)
    BY <2>2 DEF Added, Kept, SamePaths, SameEntries
  <2>6. LedTo(w, v, goal, entry)
    BY <1>3, <2>2, <2>4 DEF LedTo, u
  <2> QED
    BY <2>3, <2>5, <2>6 DEF u, goal
<1>9. CASE remaining # <<>>
  <2>1. Len(remaining) # 0
    BY <1>6, <1>9, EmptySeq
  <2>2. remaining \in ShortPath
    BY <1>2, <1>3, <1>6, <2>1, ConstantsAssumption DEF ShortPath
  <2> DEFINE n == closest.node
  <2>3. n \in DOMAIN u /\ Stops(u, n, remaining) /\ a = Attach(u, n, remaining, entry)
    BY <1>3, <1>9 DEF a
  <2>a. FullPath(u, n) \o remaining = goal
    BY <1>5
  <2> HIDE DEF n
  <2>4. /\ Trie(a.trie, E, X) /\ Standing(a.trie) /\ a.tip \in DOMAIN a.trie
        /\ Joined(u, a.trie, n, remaining, entry, a.tip)
    BY <1>1, <2>2, <2>3, AttachStands
  <2>5. /\ Added(u, a.trie, goal, entry)
        /\ FullPath(a.trie, a.tip) = goal
    <3> DEFINE z == a.trie
               new == a.tip
    <3>1. Trie(z, E, X) /\ Standing(z) /\ new \in DOMAIN z /\ Joined(u, z, n, remaining, entry, new)
      BY <2>4
    <3> HIDE DEF z, new
    <3>2. /\ Added(u, z, FullPath(u, n) \o remaining, entry)
          /\ FullPath(z, new) = FullPath(u, n) \o remaining
      BY <1>1, <1>6, <2>3, <3>1, JoinedAdds
    <3> QED
      BY <2>a, <3>2 DEF z, new
  <2>6. HasEntry(a.trie, a.tip, entry)
    BY <2>4 DEF Joined
  <2>7. AddPiece(w, piece, entry) = a
    BY <1>4, <1>9
  <2>8. LedTo(w, a, goal, entry)
    BY <2>5, <2>6 DEF LedTo
  <2> QED
    BY <2>5, <2>7, <2>8 DEF u, goal
<1> QED
  BY <1>8, <1>9

LEMMA PrefixThrough ==
  ASSUME NEW s \in Seq(Bytes), NEW p \in Seq(Bytes), NEW z \in Seq(Bytes), IsPrefix(s, p), IsPrefix(p, z)
  PROVE  IsPrefix(s, z)
<1>1. /\ Len(s) \in Nat /\ Len(p) \in Nat /\ Len(z) \in Nat
      /\ Len(s) <= Len(p) /\ \A i \in 1..Len(s) : s[i] = p[i]
      /\ Len(p) <= Len(z) /\ \A i \in 1..Len(p) : p[i] = z[i]
  BY PrefixIs, LenProperties
<1>2. Len(s) <= Len(z) /\ \A i \in 1..Len(s) : s[i] = z[i]
  BY <1>1
<1> QED
  BY <1>2, PrefixIs

LEMMA PrefixOfJoin ==
  ASSUME NEW s \in Seq(Bytes), NEW p \in Seq(Bytes)
  PROVE  /\ s \o p \in Seq(Bytes) /\ IsPrefix(s, s \o p)
         /\ p # <<>> => ~ IsPrefix(s \o p, s)
<1> DEFINE c == s \o p
<1>1. Len(s) \in Nat /\ Len(p) \in Nat /\ (p # <<>> => Len(p) # 0)
  BY LenProperties, EmptySeq
<1>2. c \in Seq(Bytes) /\ Len(c) = Len(s) + Len(p) /\ \A i \in 1..Len(s) : c[i] = s[i]
  BY Concatenation
<1> HIDE DEF c
<1>3. IsPrefix(s, c)
  BY <1>1, <1>2, PrefixIs
<1>4. ASSUME p # <<>> PROVE ~ IsPrefix(c, s)
  <2>1. ~ (Len(c) <= Len(s))
    BY <1>1, <1>2, <1>4
  <2> QED
    BY <1>2, <2>1, PrefixIs
<1> QED
  BY <1>2, <1>3, <1>4 DEF c

(* The first pieces of a path were added, and the tip is where they lead.  *)
Waypoint(v, n) == IsPrefix(FullPath(v.trie, n), FullPath(v.trie, v.tip)) /\ HasEntry(v.trie, n, NoEntry)

Partly(t, v, rest, goal) ==
  /\ Kept(t, v.trie)
  /\ \A n \in DOMAIN v.trie \ DOMAIN t : Waypoint(v, n)
  /\ FullPath(v.trie, v.tip) \o rest = goal

LEMMA KeptThrough ==
  ASSUME NEW t, NEW u, NEW v, Kept(t, u), Kept(u, v)
  PROVE  Kept(t, v)
<1>1. DOMAIN t \subseteq DOMAIN u /\ DOMAIN t \subseteq DOMAIN v
  BY DEF Kept
<1>2. SamePaths(t, v)
  BY <1>1 DEF Kept, SamePaths
<1>3. SameEntries(t, v)
  BY <1>1 DEF Kept, SameEntries
<1> QED
  BY <1>1, <1>2, <1>3 DEF Kept

LEMMA SimilarKept ==
  ASSUME NEW t, NEW E, NEW X, Trie(t, E, X), Standing(t),
         NEW u, Trie(u, E, X), Standing(u), Similar(t, u)
  PROVE  Kept(t, u)
<1>1. DOMAIN t \subseteq DOMAIN u /\ SameEntries(t, u) /\ \A n \in DOMAIN t \ {1} : SameLink(t, u, n)
  BY DEF Similar, SameLinks
<1>2. SamePaths(t, u)
  BY <1>1, PathsKept
<1> QED
  BY <1>1, <1>2 DEF Kept

LEMMA PieceAdded ==
  ASSUME NEW t, NEW E, NEW X, NEW w, Grows(t, E, X, w), NoEntry \in E,
         NEW v, Grows(t, E, X, v), NEW goal, NEW piece \in ShortPath, NEW rest \in Seq(Bytes),
         NEW ahead, ahead = piece \o rest, Partly(t, w, ahead, goal), v = AddPiece(w, piece, NoEntry)
  PROVE  Partly(t, v, rest, goal)
<1> DEFINE s == FullPath(w.trie, w.tip)
           next == s \o piece
<1>1. s \in Seq(Bytes) /\ piece \in Seq(Bytes)
  BY Climbs DEF Grows, ShortPath
<1>2. Added(w.trie, v.trie, next, NoEntry) /\ LedTo(w, v, next, NoEntry)
  BY AddPieceAdds
<1>3. /\ Kept(t, w.trie) /\ \A n \in DOMAIN w.trie \ DOMAIN t : Waypoint(w, n)
      /\ s \o ahead = goal
  BY DEF Partly
<1>4. /\ Kept(w.trie, v.trie) /\ \A n \in DOMAIN v.trie \ DOMAIN w.trie : Towards(v.trie, n, next, NoEntry)
      /\ FullPath(v.trie, v.tip) = next
  BY <1>2 DEF Added, LedTo
<1> HIDE DEF s
<1>5. next \in Seq(Bytes) /\ IsPrefix(s, next) /\ next \o rest = goal
  <2>1. next \in Seq(Bytes) /\ IsPrefix(s, next)
    BY <1>1, PrefixOfJoin
  <2>2. next \o rest = s \o (piece \o rest)
    BY <1>1, Associative
  <2> QED
    BY <1>3, <2>1, <2>2
<1> HIDE DEF next
<1>6. Kept(t, v.trie)
  BY <1>3, <1>4, KeptThrough
<1>7. ASSUME NEW n \in DOMAIN v.trie \ DOMAIN t PROVE Waypoint(v, n)
  <2>1. CASE n \in DOMAIN w.trie
    <3>1. IsPrefix(FullPath(w.trie, n), s) /\ HasEntry(w.trie, n, NoEntry)
      BY <1>3, <1>7, <2>1 DEF Waypoint, s
    <3>2. FullPath(v.trie, n) = FullPath(w.trie, n) /\ HasEntry(v.trie, n, NoEntry)
      BY <1>4, <2>1, <3>1, EntryThrough DEF Kept, SamePaths
    <3>3. FullPath(w.trie, n) \in Seq(Bytes)
      BY <2>1, Climbs DEF Grows
    <3>4. IsPrefix(FullPath(v.trie, n), next)
      BY <1>1, <1>5, <3>1, <3>2, <3>3, PrefixThrough
    <3> QED
      BY <1>4, <3>2, <3>4 DEF Waypoint
  <2>2. CASE n \notin DOMAIN w.trie
    BY <1>4, <1>7, <2>2 DEF Towards, Waypoint
  <2> QED
    BY <2>1, <2>2
<1> QED
  BY <1>4, <1>5, <1>6, <1>7 DEF Partly

(* The node at goal is one of t, or has the entry.                         *)
Reached(t, u, goal, entry) ==
  \E m \in DOMAIN u : FullPath(u, m) = goal /\ (m \in DOMAIN t \/ HasEntry(u, m, entry))

LEMMA LastPieceAdded ==
  ASSUME NEW t, NEW E, NEW X, NEW w, Grows(t, E, X, w), NoEntry \in E, NEW entry \in E,
         NEW v, Grows(t, E, X, v), NEW goal, NEW piece \in ShortPath,
         Partly(t, w, piece, goal), v = AddPiece(w, piece, entry)
  PROVE  Added(t, v.trie, goal, entry) /\ Reached(t, v.trie, goal, entry)
<1> DEFINE s == FullPath(w.trie, w.tip)
<1>1. s \in Seq(Bytes) /\ piece \in Seq(Bytes) /\ piece # <<>>
  <2>1. s \in Seq(Bytes) /\ piece \in Seq(Bytes) /\ Len(piece) # 0
    <3>1. s \in Seq(Bytes)
      BY Climbs DEF Grows
    <3>2. piece \in Seq(Bytes) /\ Len(piece) \in 1..MaxPrefixLength
      BY DEF ShortPath
    <3> QED
      BY <3>1, <3>2
  <2>2. Len(<<>>) = 0
    BY EmptySeq
  <2> QED
    BY <2>1, <2>2
<1>2. Added(w.trie, v.trie, s \o piece, entry) /\ LedTo(w, v, s \o piece, entry)
  BY AddPieceAdds
<1>3. /\ Kept(t, w.trie) /\ \A n \in DOMAIN w.trie \ DOMAIN t : Waypoint(w, n)
      /\ s \o piece = goal
  BY DEF Partly
<1>4. /\ Kept(w.trie, v.trie) /\ \A n \in DOMAIN v.trie \ DOMAIN w.trie : Towards(v.trie, n, goal, entry)
      /\ FullPath(v.trie, v.tip) = goal
      /\ v.tip \in DOMAIN w.trie \/ HasEntry(v.trie, v.tip, entry)
  BY <1>2, <1>3 DEF Added, LedTo
<1> HIDE DEF s
<1>5. goal \in Seq(Bytes) /\ IsPrefix(s, goal) /\ ~ IsPrefix(goal, s)
  BY <1>1, <1>3, PrefixOfJoin
<1>6. Kept(t, v.trie)
  BY <1>3, <1>4, KeptThrough
<1>7. ASSUME NEW n \in DOMAIN v.trie \ DOMAIN t, n \in DOMAIN w.trie
      PROVE  /\ HasEntry(v.trie, n, NoEntry) /\ FullPath(v.trie, n) \in Seq(Bytes)
             /\ IsPrefix(FullPath(v.trie, n), s)
  <2>1. IsPrefix(FullPath(w.trie, n), s) /\ HasEntry(w.trie, n, NoEntry)
    BY <1>3, <1>7 DEF Waypoint, s
  <2>2. FullPath(v.trie, n) = FullPath(w.trie, n) /\ HasEntry(v.trie, n, NoEntry)
    BY <1>4, <1>7, <2>1, EntryThrough DEF Kept, SamePaths
  <2>3. FullPath(w.trie, n) \in Seq(Bytes)
    BY <1>7, Climbs DEF Grows
  <2> QED
    BY <2>1, <2>2, <2>3
<1>8. ASSUME NEW n \in DOMAIN v.trie \ DOMAIN t PROVE Towards(v.trie, n, goal, entry)
  <2>1. CASE n \in DOMAIN w.trie
    <3>1. /\ HasEntry(v.trie, n, NoEntry) /\ FullPath(v.trie, n) \in Seq(Bytes)
          /\ IsPrefix(FullPath(v.trie, n), s)
      BY <1>7, <1>8, <2>1
    <3>2. IsPrefix(FullPath(v.trie, n), goal)
      BY <1>1, <1>5, <3>1, PrefixThrough
    <3> QED
      BY <3>1, <3>2 DEF Towards
  <2>2. CASE n \notin DOMAIN w.trie
    BY <1>4, <1>8, <2>2
  <2> QED
    BY <2>1, <2>2
<1>9. v.tip \in DOMAIN t \/ HasEntry(v.trie, v.tip, entry)
  <2>1. SUFFICES ASSUME v.tip \notin DOMAIN t, v.tip \in DOMAIN w.trie PROVE FALSE
    BY <1>4
  <2>2. v.tip \in DOMAIN v.trie
    BY DEF Grows
  <2>3. IsPrefix(FullPath(v.trie, v.tip), s)
    BY <1>7, <2>1, <2>2
  <2> QED
    BY <1>4, <1>5, <2>3
<1>10. v.tip \in DOMAIN v.trie
  BY DEF Grows
<1> QED
  BY <1>4, <1>6, <1>8, <1>9, <1>10 DEF Added, Reached

(* AddFork adds the path with its entry, if it leads to no node, and       *)
(* nodes on the way; the others stay as they are.                          *)
AddedAt(t, u, goal, entry) == Added(t, u, goal, entry) /\ Reached(t, u, goal, entry)

LEMMA AddAdds ==
  ASSUME NEW t, NEW E, NEW X, Trie(t, E, X), Standing(t), NEW n \in DOMAIN t,
         NEW path \in Seq(Bytes), path # <<>>, NEW entry \in E, NoEntry \in E
  PROVE  LET u == Add(t, n, path, entry) IN
         Trie(u, E, X) /\ Standing(u) /\ AddedAt(t, u, FullPath(t, n) \o path, entry)
<1> DEFINE l == Len(Pieces(path))
           goal == FullPath(t, n) \o path
           W(f, i) == AddWalk(t, n, path, entry, f, i)
           w == CHOOSE f : f = [i \in 0..l |-> W(f, i)]
           Good(i) == Grows(t, E, X, w[i]) /\ (i < l => Partly(t, w[i], Ahead(path, i), goal))
<1>1. /\ l \in Nat \ {0} /\ Ahead(path, 0) = path
      /\ \A i \in 1..l : /\ Pieces(path)[i] \in ShortPath /\ Ahead(path, i) \in Seq(Bytes)
                         /\ Pieces(path)[i] \o Ahead(path, i) = Ahead(path, i - 1)
  BY PiecesShort
<1>a. l \in Nat
  BY <1>1
<1>2. Add(t, n, path, entry) = w[l].trie
  BY DEF Add, AddWalk
<1>3. w = [i \in 0..l |-> W(w, i)]
  <2>1. \E f : f = [i \in 0..l |-> W(f, i)]
    <3> HIDE DEF l
    <3>1. \E f : AddWalks(t, n, path, entry, f, l)
      BY <1>a, AddWalksExist
    <3> QED
      BY <3>1 DEF AddWalks
  <2> HIDE DEF W, l
  <2> QED
    BY <2>1
<1> HIDE DEF w
<1>4. \A i \in 0..l : w[i] = W(w, i)
  <2> HIDE DEF W, l
  <2> QED
    BY <1>3
<1>5. Good(0)
  <2> DEFINE u == Invalidate(t, n)
             v == [trie |-> u, tip |-> n]
  <2>1. w[0] = v
    BY <1>a, <1>4 DEF AddWalk
  <2>2. /\ Trie(u, E, X) /\ DOMAIN u = DOMAIN t
        /\ \A m \in DOMAIN t : u[m].path = t[m].path /\ u[m].forks = t[m].forks /\ u[m].parent = t[m].parent
    BY InvalidateChanges
  <2>3. Similar(t, u)
    BY InvalidateSimilar
  <2> HIDE DEF u
  <2>4. PICK h \in [Nat -> Nat], top \in Nat : Sound(t, h) /\ \A m \in DOMAIN t : h[m] <= top
    BY DEF Standing
  <2>5. Sound(u, h)
    BY <2>2, <2>4, OpenSame DEF Sound, Trie
  <2>6. Standing(u)
    BY <2>2, <2>4, <2>5 DEF Standing
  <2>7. v.trie = u /\ v.tip = n /\ v = [trie |-> v.trie, tip |-> v.tip]
    OBVIOUS
  <2> HIDE DEF v
  <2>8. Grows(t, E, X, v)
    BY <2>2, <2>6, <2>7 DEF Grows
  <2>9. Kept(t, u)
    BY <2>2, <2>3, <2>6, SimilarKept
  <2>10. FullPath(u, n) \o path = goal
    BY <2>9 DEF Kept, SamePaths
  <2> HIDE DEF goal
  <2>11. Partly(t, v, path, goal)
    BY <2>2, <2>7, <2>9, <2>10 DEF Partly
  <2> QED
    BY <1>1, <2>1, <2>8, <2>11
<1> HIDE DEF goal
<1>6. ASSUME NEW i \in 1..l, Good(i - 1) PROVE Good(i)
  <2> DEFINE piece == Pieces(path)[i]
             e == EntryOf(i, l, entry)
             v == w[i]
             z == w[i-1]
             rest == Ahead(path, i)
             ahead == Ahead(path, i - 1)
  <2>1. v = AddPiece(z, piece, e)
    BY <1>1, <1>4 DEF AddWalk
  <2>2. piece \in ShortPath /\ rest \in Seq(Bytes) /\ ahead = piece \o rest
    BY <1>1
  <2>3. e \in E /\ (i < l => e = NoEntry)
    BY <1>1 DEF EntryOf
  <2>4. i - 1 < l
    BY <1>1
  <2>5. Grows(t, E, X, z) /\ Partly(t, z, ahead, goal)
    BY <1>6, <2>4
  <2> HIDE DEF piece, e, l, v, z, rest, ahead
  <2>6. Grows(t, E, X, v)
    BY <2>1, <2>2, <2>3, <2>5, AddPieceStands
  <2>7. ASSUME i < l PROVE Partly(t, v, rest, goal)
    BY <2>1, <2>2, <2>3, <2>5, <2>6, <2>7, PieceAdded
  <2> QED
    BY <2>6, <2>7 DEF v, rest
<1> DEFINE Bad == {i \in 0..l : ~ Good(i)}
<1>7. Bad = {}
  <2>1. SUFFICES ASSUME Bad # {} PROVE FALSE
    OBVIOUS
  <2>2. Bad \in SUBSET Nat
    BY <1>1
  <2>3. PICK i \in Bad : \A j \in Bad : i <= j
    <3> HIDE DEF Bad
    <3> QED
      BY <2>1, <2>2, LeastNatural
  <2> HIDE DEF Good
  <2>4. i # 0
    BY <1>5
  <2>5. i \in 1..l /\ i - 1 \in 0..l /\ ~ (i <= i - 1)
    BY <1>1, <2>3, <2>4
  <2>6. i - 1 \notin Bad
    BY <2>3, <2>5
  <2> QED
    BY <1>6, <2>5, <2>6
<1>8. Good(l) /\ Good(l - 1)
  <2>1. l \in 0..l /\ l - 1 \in 0..l
    BY <1>1
  <2> HIDE DEF Good
  <2> QED
    BY <1>7, <2>1
<1>9. AddedAt(t, w[l].trie, goal, entry)
  <2> DEFINE piece == Pieces(path)[l]
             v == w[l]
             z == w[l-1]
  <2>1. l \in 1..l /\ l \in 0..l /\ l - 1 < l
    BY <1>1
  <2>2. v = AddPiece(z, piece, entry)
    BY <1>4, <2>1 DEF AddWalk, EntryOf
  <2>3. piece \in ShortPath /\ Ahead(path, l - 1) = piece
    <3>1. Ahead(path, l) = <<>>
      BY DEF Ahead
    <3>2. piece \in ShortPath /\ piece \o <<>> = Ahead(path, l - 1)
      BY <1>1, <2>1, <3>1
    <3> HIDE DEF piece, l
    <3>3. piece \o <<>> = piece
      BY <3>2, ConcatEmptySeq DEF ShortPath
    <3> QED
      BY <3>2, <3>3
  <2>4. Grows(t, E, X, z) /\ Partly(t, z, Ahead(path, l - 1), goal) /\ Grows(t, E, X, v)
    BY <1>8, <2>1
  <2> HIDE DEF piece, v, z, l
  <2>5. Added(t, v.trie, goal, entry) /\ Reached(t, v.trie, goal, entry)
    BY <2>2, <2>3, <2>4, LastPieceAdded
  <2> QED
    BY <2>5 DEF AddedAt, v
<1> HIDE DEF l
<1> QED
  BY <1>2, <1>8, <1>9 DEF Grows, goal

(* The walk along the path of a node ends there.                           *)
LEMMA WalkArrives ==
  ASSUME NEW t, NEW E, NEW X, Trie(t, E, X), Standing(t), NEW n \in DOMAIN t
  PROVE  LET path == FullPath(t, n) IN
         Closest(t, path)[0][1] = [node |-> n, matched |-> Len(path)]
<1> DEFINE path == FullPath(t, n)
           l == Len(path)
           w == Closest(t, path)
<1>1. path \in Seq(Bytes)
  BY Climbs
<1>2. l \in 0..l
  <2>1. l \in Nat
    <3> HIDE DEF path
    <3> QED
      BY <1>1, LenProperties
  <2> HIDE DEF l
  <2> QED
    BY <2>1
<1>3. On(t, n, path, l)
  BY <1>1, PrefixItself DEF On
<1> HIDE DEF path
<1>4. w[0][1] = w[l][n]
  BY <1>1, <1>3, WalkPasses
<1>5. w[l][n] = WalkFrom(t, path, w, n, l)
  BY <1>1, <1>2, WalkLaw
<1>6. ~ Continues(t, path, n, l)
  <2>1. ~ (l < l)
    <3> HIDE DEF l
    <3> QED
      BY <1>2
  <2> QED
    BY <2>1 DEF Continues
<1>7. w[0][1] = [node |-> n, matched |-> l]
  <2> HIDE DEF w, l
  <2> QED
    BY <1>4, <1>5, <1>6 DEF WalkFrom
<1> QED
  BY <1>7 DEF path, l, w

(* At a path there is at most one node, and it has the reference that is   *)
(* found there.                                                            *)
LEMMA EntryIs ==
  ASSUME NEW t, NEW E, NEW X, Trie(t, E, X), Standing(t), NEW n \in DOMAIN t,
         NEW path, FullPath(t, n) = path
  PROVE  /\ Found(t, path) /\ EntryAt(t, path) = t[n].entry
         /\ FindClosest(t, 1, path).node = n
<1>1. Closest(t, path)[0][1] = [node |-> n, matched |-> Len(path)]
  BY WalkArrives
<1>2. FindClosest(t, 1, path).node = n /\ FindClosest(t, 1, path).matched = Len(path)
  BY <1>1 DEF FindClosest
<1> QED
  BY <1>2 DEF Found, EntryAt

LEMMA FoundHas ==
  ASSUME NEW t, NEW E, NEW X, Trie(t, E, X), Standing(t), NEW path \in Seq(Bytes), path # <<>>
  PROVE  Found(t, path) <=> \E n \in DOMAIN t : FullPath(t, n) = path
<1>1. ASSUME Found(t, path) PROVE \E n \in DOMAIN t : FullPath(t, n) = path
  BY <1>1, FoundAt
<1>2. ASSUME NEW n \in DOMAIN t, FullPath(t, n) = path PROVE Found(t, path)
  BY <1>2, EntryIs
<1> QED
  BY <1>1, <1>2

Path == Seq(Bytes) \ {<<>>}

(* What adding goal does to what is found.                                 *)
FindsAdded(t, u, goal, entry) ==
  \A path \in Path :
    /\ path # goal => EntryAt(u, path) = EntryAt(t, path)
    /\ path = goal => EntryAt(u, path) = IF Found(t, path) THEN EntryAt(t, path) ELSE entry
    /\ Found(u, path) => Found(t, path) \/ IsPrefix(path, goal)

LEMMA AddedFinds ==
  ASSUME NEW t, NEW E, NEW X, Trie(t, E, X), Standing(t),
         NEW u, Trie(u, E, X), Standing(u), NEW goal, NEW entry, AddedAt(t, u, goal, entry)
  PROVE  FindsAdded(t, u, goal, entry)
<1>1. /\ DOMAIN t \subseteq DOMAIN u /\ SamePaths(t, u) /\ SameEntries(t, u)
      /\ \A n \in DOMAIN u \ DOMAIN t : Towards(u, n, goal, entry)
      /\ Reached(t, u, goal, entry)
  BY DEF AddedAt, Added, Kept
<1>2. ASSUME NEW path \in Path, NEW n \in DOMAIN t, FullPath(t, n) = path
      PROVE  Found(t, path) /\ EntryAt(u, path) = EntryAt(t, path)
  <2>1. n \in DOMAIN u /\ FullPath(u, n) = path /\ u[n].entry = t[n].entry
    BY <1>1, <1>2 DEF SamePaths, SameEntries
  <2>2. EntryAt(u, path) = u[n].entry
    BY <2>1, EntryIs
  <2>3. Found(t, path) /\ EntryAt(t, path) = t[n].entry
    BY <1>2, EntryIs
  <2> QED
    BY <2>1, <2>2, <2>3
<1>3. ASSUME NEW path \in Path, \A n \in DOMAIN t : FullPath(t, n) # path
      PROVE  ~ Found(t, path) /\ EntryAt(t, path) = NoEntry
  <2>1. ~ Found(t, path)
    BY <1>3, FoundHas DEF Path
  <2> QED
    BY <2>1 DEF EntryAt
<1>4. ASSUME NEW path \in Path, path # goal, \A n \in DOMAIN t : FullPath(t, n) # path
      PROVE  EntryAt(u, path) = NoEntry
  <2>1. CASE Found(u, path)
    <3>1. PICK n \in DOMAIN u : FullPath(u, n) = path
      BY <2>1, FoundHas DEF Path
    <3>2. n \notin DOMAIN t
      BY <1>1, <1>4, <3>1 DEF SamePaths
    <3>3. u[n].entry = NoEntry
      BY <1>1, <1>4, <3>1, <3>2 DEF Towards, HasEntry
    <3> QED
      BY <3>1, <3>3, EntryIs
  <2>2. CASE ~ Found(u, path)
    BY <2>2 DEF EntryAt
  <2> QED
    BY <2>1, <2>2
<1>5. ASSUME NEW path \in Path, path = goal, \A n \in DOMAIN t : FullPath(t, n) # path
      PROVE  EntryAt(u, path) = entry
  <2>1. PICK m \in DOMAIN u : FullPath(u, m) = goal /\ (m \in DOMAIN t \/ HasEntry(u, m, entry))
    BY <1>1 DEF Reached
  <2>2. m \notin DOMAIN t
    BY <1>1, <1>5, <2>1 DEF SamePaths
  <2>3. u[m].entry = entry
    BY <2>1, <2>2 DEF HasEntry
  <2> QED
    BY <1>5, <2>1, <2>3, EntryIs
<1>6. ASSUME NEW path \in Path, Found(u, path), ~ Found(t, path) PROVE IsPrefix(path, goal)
  <2>1. PICK n \in DOMAIN u : FullPath(u, n) = path
    BY <1>6, FoundHas DEF Path
  <2>2. n \notin DOMAIN t
    BY <1>1, <1>2, <1>6, <2>1 DEF SamePaths
  <2> QED
    BY <1>1, <2>1, <2>2 DEF Towards
<1>7. ASSUME NEW path \in Path, path # goal PROVE EntryAt(u, path) = EntryAt(t, path)
  BY <1>2, <1>3, <1>4, <1>7
<1>8. ASSUME NEW path \in Path, path = goal
      PROVE  EntryAt(u, path) = IF Found(t, path) THEN EntryAt(t, path) ELSE entry
  BY <1>2, <1>3, <1>5, <1>8
<1> QED
  BY <1>6, <1>7, <1>8 DEF FindsAdded

(* What is left when the nodes below m were cut off.                       *)
FindsCut(t, u, path) ==
  \A p \in Path :
    IF IsPrefix(path, p) THEN ~ Found(u, p) /\ EntryAt(u, p) = NoEntry
    ELSE EntryAt(u, p) = EntryAt(t, p)

LEMMA CutFinds ==
  ASSUME NEW t, NEW E, NEW X, Trie(t, E, X), Standing(t), NEW m \in DOMAIN t,
         NEW u, CutOff(t, E, X, Subtree(t, m), u)
  PROVE  FindsCut(t, u, FullPath(t, m)) /\ SamePaths(u, t)
<1> DEFINE path == FullPath(t, m)
<1>1. /\ Trie(u, E, X) /\ Standing(u) /\ DOMAIN u = DOMAIN t \ Subtree(t, m)
      /\ SameLinks(u, t, DOMAIN u) /\ SameEntries(u, t)
  BY DEF CutOff
<1>2. SamePaths(u, t)
  BY <1>1, PathsKept DEF SameLinks
<1>3. \A n \in DOMAIN t : n \in DOMAIN u <=> ~ IsPrefix(path, FullPath(t, n))
  BY <1>1 DEF Subtree
<1> HIDE DEF path
<1>4. ASSUME NEW p \in Path PROVE Found(u, p) => ~ IsPrefix(path, p)
  <2> SUFFICES ASSUME Found(u, p) PROVE ~ IsPrefix(path, p)
    OBVIOUS
  <2>1. PICK n \in DOMAIN u : FullPath(u, n) = p
    BY <1>1, FoundHas DEF Path
  <2>2. n \in DOMAIN t /\ FullPath(t, n) = p
    BY <1>1, <1>2, <2>1 DEF SamePaths
  <2> QED
    BY <1>3, <2>1, <2>2
<1>5. ASSUME NEW p \in Path, ~ IsPrefix(path, p) PROVE EntryAt(u, p) = EntryAt(t, p)
  <2>1. CASE \E n \in DOMAIN t : FullPath(t, n) = p
    <3>1. PICK n \in DOMAIN t : FullPath(t, n) = p
      BY <2>1
    <3>2. n \in DOMAIN u
      BY <1>3, <1>5, <3>1
    <3>3. FullPath(u, n) = p /\ t[n].entry = u[n].entry
      BY <1>1, <1>2, <3>1, <3>2 DEF SamePaths, SameEntries
    <3>4. EntryAt(u, p) = u[n].entry
      BY <1>1, <3>2, <3>3, EntryIs
    <3>5. EntryAt(t, p) = t[n].entry
      BY <3>1, EntryIs
    <3> QED
      BY <3>3, <3>4, <3>5
  <2>2. CASE \A n \in DOMAIN t : FullPath(t, n) # p
    <3>1. ~ Found(t, p)
      BY <2>2, FoundHas DEF Path
    <3>2. \A n \in DOMAIN u : FullPath(u, n) # p
      BY <1>1, <1>2, <2>2 DEF SamePaths
    <3>3. ~ Found(u, p)
      BY <1>1, <3>2, FoundHas DEF Path
    <3> QED
      BY <3>1, <3>3 DEF EntryAt
  <2> QED
    BY <2>1, <2>2
<1>6. FindsCut(t, u, path)
  <2>1. ASSUME NEW p \in Path, ~ Found(u, p) PROVE EntryAt(u, p) = NoEntry
    BY <2>1 DEF EntryAt
  <2> QED
    BY <1>4, <1>5, <2>1 DEF FindsCut
<1> QED
  BY <1>2, <1>6 DEF path

(* A node below m is below one of its children.                            *)
LEMMA BelowChild ==
  ASSUME NEW t, NEW E, NEW X, Trie(t, E, X), Standing(t), NEW m \in DOMAIN t,
         NEW n \in Subtree(t, m) \ {m}
  PROVE  \E c \in Children(t, m) : n \in Subtree(t, c)
<1> DEFINE path == FullPath(t, n)
           k == Len(FullPath(t, m))
           w == Closest(t, path)
<1>1. n \in DOMAIN t /\ IsPrefix(FullPath(t, m), path)
  BY DEF Subtree
<1>2. path \in Seq(Bytes)
  BY <1>1, Climbs
<1>3. On(t, m, path, k)
  BY <1>1 DEF On
<1>4. w[0][1] = [node |-> n, matched |-> Len(path)]
  BY <1>1, WalkArrives
<1> HIDE DEF path
<1>5. k \in 0..Len(path)
  BY <1>2, <1>3, OnIs
<1>6. w[0][1] = w[k][m]
  BY <1>2, <1>3, WalkPasses
<1>7. w[k][m] = WalkFrom(t, path, w, m, k)
  BY <1>2, <1>5, WalkLaw
<1> HIDE DEF w, k
<1>8. Continues(t, path, m, k)
  <2>1. SUFFICES ASSUME ~ Continues(t, path, m, k) PROVE FALSE
    OBVIOUS
  <2>2. w[k][m] = [node |-> m, matched |-> k]
    BY <1>7, <2>1 DEF WalkFrom
  <2>3. w[0][1].node = n /\ w[0][1].node = m
    BY <1>4, <1>6, <2>2
  <2> QED
    BY <2>3
<1> DEFINE c == Onward(t, path, m, k)
<1>9. c \in DOMAIN t /\ On(t, c, path, Beyond(t, path, m, k))
  BY <1>2, <1>3, <1>8, StepsOn
<1>10. c \in Children(t, m)
  BY <1>8 DEF Continues, Onward, Children
<1>11. n \in Subtree(t, c)
  BY <1>1, <1>9 DEF On, Subtree, path
<1> QED
  BY <1>10, <1>11

(* The paths of children differ where that of their parent ends.           *)
LEMMA ChildrenPart ==
  ASSUME NEW t, NEW E, NEW X, Trie(t, E, X), Standing(t), NEW m \in DOMAIN t,
         NEW x \in DOMAIN t[m].forks
  PROVE  LET c == t[m].forks[x]
             path == FullPath(t, m)
         IN  /\ c \in DOMAIN t /\ t[c].parent = m /\ t[c].path \in Seq(Bytes) /\ t[c].path # <<>>
             /\ FullPath(t, c) \in Path /\ FullPath(t, c) = path \o t[c].path
             /\ IsPrefix(path, FullPath(t, c)) /\ FullPath(t, c) # path
             /\ Len(FullPath(t, c)) > Len(path) /\ FullPath(t, c)[Len(path) + 1] = x
<1> DEFINE c == t[m].forks[x]
           path == FullPath(t, m)
           p == t[c].path
<1>1. Child(t, m, x, c)
  BY ForkLeads
<1> HIDE DEF c
<1>2. c \in DOMAIN t /\ c # 1 /\ p \in ShortPath /\ p[1] = x /\ t[c].parent = m
  BY <1>1 DEF Child, Starts
<1>3. p \in Seq(Bytes) /\ Len(p) \in Nat \ {0}
  BY <1>2 DEF ShortPath
<1>4. p # <<>>
  BY <1>3, EmptySeq
<1>5. path \in Seq(Bytes) /\ FullPath(t, c) = path \o p
  BY <1>2, Climbs
<1> HIDE DEF path, p
<1> DEFINE d == path \o p
<1>6. /\ d \in Seq(Bytes) /\ Len(d) = Len(path) + Len(p)
      /\ \A i \in 1..Len(p) : d[Len(path) + i] = p[i]
  BY <1>3, <1>5, Concatenation
<1>7. IsPrefix(path, d) /\ ~ IsPrefix(d, path)
  BY <1>3, <1>4, <1>5, PrefixOfJoin
<1>8. Len(path) \in Nat
  BY <1>5, LenProperties
<1> HIDE DEF d
<1>9. Len(d) > Len(path) /\ d[Len(path) + 1] = x
  <2>1. 1 \in 1..Len(p)
    BY <1>3
  <2>2. p[1] = x
    BY <1>2 DEF p
  <2> QED
    BY <1>3, <1>6, <1>8, <2>1, <2>2
<1>10. d # <<>> /\ d # path
  BY <1>8, <1>9, EmptySeq
<1>11. FullPath(t, c) = d
  BY <1>5 DEF d
<1> QED
  BY <1>2, <1>3, <1>4, <1>5, <1>6, <1>7, <1>9, <1>10, <1>11 DEF c, path, p, Path

(* The paths of the first i children of the node at path were added again, *)
(* and nothing else that path leads to is found.                           *)
Restored(t, v, path, goal, i) ==
  \A p \in Path :
    IF (\E j \in 1..i : p = goal[j]) \/ ~ IsPrefix(path, p) THEN EntryAt(v, p) = EntryAt(t, p)
    ELSE EntryAt(v, p) = NoEntry /\ (Found(v, p) => \E j \in 1..i : IsPrefix(p, goal[j]))

LEMMA RestoreNext ==
  ASSUME NEW t, NEW v, NEW u, NEW path, NEW goal, NEW i \in Nat \ {0},
         Restored(t, v, path, goal, i - 1), goal[i] \in Path, IsPrefix(path, goal[i]),
         \A j \in 1..(i - 1) : ~ IsPrefix(goal[i], goal[j]),
         FindsAdded(v, u, goal[i], EntryAt(t, goal[i]))
  PROVE  Restored(t, u, path, goal, i)
<1> DEFINE q == goal[i]
<1>1. q \in Path /\ IsPrefix(path, q) /\ IsPrefix(q, q)
  BY PrefixItself DEF Path
<1>2. \A j \in 1..(i - 1) : q # goal[j]
  <2> HIDE DEF q
  <2> QED
    BY <1>1 DEF q
<1>3. \A p \in Path :
        /\ p # q => EntryAt(u, p) = EntryAt(v, p)
        /\ p = q => EntryAt(u, p) = IF Found(v, p) THEN EntryAt(v, p) ELSE EntryAt(t, q)
        /\ Found(u, p) => Found(v, p) \/ IsPrefix(p, q)
  BY DEF FindsAdded
<1>4. \A j \in 1..(i - 1) : ~ IsPrefix(q, goal[j])
  OBVIOUS
<1>5. \A j \in 1..i : j # i => j \in 1..(i - 1)
  OBVIOUS
<1>6. i \in 1..i /\ \A j \in 1..(i - 1) : j \in 1..i
  OBVIOUS
<1>7. goal[i] = q
  OBVIOUS
<1> HIDE DEF q
<1>8. ~ Found(v, q)
  BY <1>1, <1>2, <1>4 DEF Restored
<1>9. EntryAt(u, q) = EntryAt(t, q)
  BY <1>1, <1>3, <1>8
<1>10. ASSUME NEW p \in Path, (\E j \in 1..i : p = goal[j]) \/ ~ IsPrefix(path, p)
       PROVE  EntryAt(u, p) = EntryAt(t, p)
  <2>1. CASE p = q
    BY <1>9, <2>1
  <2>2. CASE p # q
    <3>1. (\E j \in 1..(i - 1) : p = goal[j]) \/ ~ IsPrefix(path, p)
      BY <1>5, <1>7, <1>10, <2>2
    <3>2. EntryAt(v, p) = EntryAt(t, p)
      BY <3>1 DEF Restored
    <3> QED
      BY <1>3, <2>2, <3>2
  <2> QED
    BY <2>1, <2>2
<1>11. ASSUME NEW p \in Path, ~ ((\E j \in 1..i : p = goal[j]) \/ ~ IsPrefix(path, p))
       PROVE  EntryAt(u, p) = NoEntry /\ (Found(u, p) => \E j \in 1..i : IsPrefix(p, goal[j]))
  <2>1. p # q /\ ~ ((\E j \in 1..(i - 1) : p = goal[j]) \/ ~ IsPrefix(path, p))
    BY <1>6, <1>7, <1>11
  <2>2. EntryAt(v, p) = NoEntry /\ (Found(v, p) => \E j \in 1..(i - 1) : IsPrefix(p, goal[j]))
    BY <2>1 DEF Restored
  <2>3. EntryAt(u, p) = NoEntry
    BY <1>3, <2>1, <2>2
  <2>4. Found(u, p) => \E j \in 1..i : IsPrefix(p, goal[j])
    BY <1>3, <1>6, <1>7, <2>2
  <2> QED
    BY <2>3, <2>4
<1> QED
  BY <1>10, <1>11 DEF Restored

(* What RemoveFork leaves to be found: all that path does not lead to, and *)
(* the children of the node at path.                                       *)
FindsDetached(t, u, path, m) ==
  \A p \in Path :
    IF (\E c \in Children(t, m) : p = FullPath(t, c)) \/ ~ IsPrefix(path, p)
    THEN EntryAt(u, p) = EntryAt(t, p)
    ELSE EntryAt(u, p) = NoEntry

LEMMA DetachFinds ==
  ASSUME NEW t, NEW E, NEW X, Trie(t, E, X), Standing(t), NoEntry \in E,
         NEW path \in Path, Found(t, path),
         NEW order \in SetToSeqs(DOMAIN t[FindClosest(t, 1, path).node].forks)
  PROVE  FindsDetached(t, Detach(t, path, order), path, FindClosest(t, 1, path).node)
<1> DEFINE m == FindClosest(t, 1, path).node
           a == FindClosest(t, 1, Front(path))
           q == a.node
           b == ForkByte(path, a.matched)
           S == Subtree(t, m)
           l == Len(order)
           W(f, i) == Again(t, path, order, f, i)
           w == CHOOSE f : f = [i \in 0..l |-> W(f, i)]
           goal == [i \in 1..l |-> FullPath(t, t[m].forks[order[i]])]
           Good(u, i) == /\ Trie(u, E, X) /\ Standing(u) /\ q \in DOMAIN u
                         /\ FullPath(u, q) = FullPath(t, q)
                         /\ Restored(t, u, path, goal, i)
<1>1. m \in DOMAIN t /\ q = t[m].parent /\ Severs(t, S, q, b)
  BY SubtreeSevered DEF Path
<1>2. m # 1 /\ FullPath(t, m) = path
  BY FoundAt DEF Path
<1>3. /\ l \in Nat
      /\ \A i \in 1..l : order[i] \in DOMAIN t[m].forks
      /\ \A i, j \in 1..l : i # j => order[i] # order[j]
      /\ \A x \in DOMAIN t[m].forks : \E i \in 1..l : order[i] = x
  <2>1. m \in DOMAIN t
    BY <1>1
  <2> HIDE DEF m
  <2>2. order \in SetToSeqs(DOMAIN t[m].forks)
    BY DEF m
  <2>3. Ordered(order, DOMAIN t[m].forks)
    BY <2>1, <2>2, ForksOrdered
  <2> QED
    BY <2>3 DEF Ordered
<1>4. Detach(t, path, order) = w[l]
  BY DEF Detach, Again, Cut
<1>5. w = [i \in 0..l |-> W(w, i)]
  <2>1. \E f : f = [i \in 0..l |-> W(f, i)]
    <3>1. l \in Nat
      BY <1>3
    <3> HIDE DEF l
    <3>2. \E f : Agains(t, path, order, f, l)
      BY <3>1, AgainExists
    <3> QED
      BY <3>2 DEF Agains
  <2> HIDE DEF W, l
  <2> QED
    BY <2>1
<1> HIDE DEF w
<1>6. \A i \in 0..l : w[i] = W(w, i)
  <2> HIDE DEF W, l
  <2> QED
    BY <1>5
<1>7. ASSUME NEW i \in 1..l
      PROVE  /\ goal[i] \in Path /\ IsPrefix(path, goal[i])
             /\ Len(goal[i]) > Len(path) /\ goal[i][Len(path) + 1] = order[i]
  <2> DEFINE x == order[i]
             c == t[m].forks[x]
  <2>1. x \in DOMAIN t[m].forks /\ goal[i] = FullPath(t, c)
    BY <1>3
  <2> HIDE DEF m, x
  <2>2. /\ FullPath(t, c) \in Path /\ IsPrefix(FullPath(t, m), FullPath(t, c))
        /\ Len(FullPath(t, c)) > Len(FullPath(t, m)) /\ FullPath(t, c)[Len(FullPath(t, m)) + 1] = x
    BY <1>1, <2>1, ChildrenPart
  <2> HIDE DEF goal, c
  <2> QED
    BY <1>2, <2>1, <2>2 DEF x
<1>8. ASSUME NEW i \in 1..l, NEW j \in 1..l, i # j PROVE ~ IsPrefix(goal[i], goal[j])
  <2> DEFINE k == Len(path)
             gi == goal[i]
             gj == goal[j]
  <2>1. gi \in Seq(Bytes) /\ gj \in Seq(Bytes) /\ Len(gi) > k /\ gi[k + 1] = order[i] /\ gj[k + 1] = order[j]
    BY <1>7 DEF Path
  <2>2. order[i] # order[j]
    BY <1>3, <1>8
  <2>3. k \in Nat
    BY LenProperties DEF Path
  <2> HIDE DEF gi, gj, k
  <2>4. SUFFICES ASSUME IsPrefix(gi, gj) PROVE FALSE
    BY DEF gi, gj
  <2>5. Len(gi) \in Nat /\ \A e \in 1..Len(gi) : gi[e] = gj[e]
    BY <2>1, <2>4, PrefixIs, LenProperties
  <2>6. k + 1 \in 1..Len(gi)
    BY <2>1, <2>3, <2>5
  <2> QED
    BY <2>1, <2>2, <2>5, <2>6
<1>9. Good(w[0], 0)
  <2> DEFINE u == Cut(t, S, q, b)
  <2>1. w[0] = u
    BY <1>3, <1>6 DEF Again
  <2> HIDE DEF b, a, m, S, q
  <2>2. CutOff(t, E, X, S, u)
    BY <1>1, CutStands
  <2> HIDE DEF u
  <2>3. Trie(u, E, X) /\ Standing(u) /\ DOMAIN u = DOMAIN t \ S
    BY <2>2 DEF CutOff
  <2>4. FindsCut(t, u, path) /\ SamePaths(u, t)
    BY <1>1, <1>2, <2>2, CutFinds DEF S
  <2>5. q \in DOMAIN u
    BY <1>1, <2>3 DEF Severs
  <2>6. FullPath(u, q) = FullPath(t, q)
    BY <2>4, <2>5 DEF SamePaths
  <2> HIDE DEF goal, l
  <2>7. Restored(t, u, path, goal, 0)
    <3>1. 1..0 = {}
      OBVIOUS
    <3> QED
      BY <2>4, <3>1 DEF FindsCut, Restored
  <2> QED
    BY <2>1, <2>3, <2>5, <2>6, <2>7
<1>10. ASSUME NEW i \in 1..l, Good(w[i-1], i - 1) PROVE Good(w[i], i)
  <2> DEFINE x == order[i]
             c == t[m].forks[x]
             s == FullPath(t, q)
             mp == t[m].path
             cp == t[c].path
             p == mp \o cp
             e == t[c].entry
             v == w[i-1]
             u == Add(v, q, p, e)
  <2>1. w[i] = u
    BY <1>3, <1>6 DEF Again
  <2>2. x \in DOMAIN t[m].forks /\ goal[i] = FullPath(t, c)
    BY <1>3
  <2>3. /\ c \in DOMAIN t /\ cp \in Seq(Bytes) /\ cp # <<>>
        /\ FullPath(t, c) = FullPath(t, m) \o cp
    <3> HIDE DEF m, x
    <3> QED
      BY <1>1, <2>2, ChildrenPart
  <2>4. /\ q \in DOMAIN t /\ mp \in Seq(Bytes) /\ s \in Seq(Bytes)
        /\ FullPath(t, m) = s \o mp
    <3>1. /\ t[m].parent \in DOMAIN t /\ t[m].path \in Seq(Bytes)
          /\ FullPath(t, t[m].parent) \in Seq(Bytes)
          /\ FullPath(t, m) = FullPath(t, t[m].parent) \o t[m].path
      <4> HIDE DEF m
      <4> QED
        BY <1>1, <1>2, Climbs
    <3> HIDE DEF m, a
    <3> QED
      BY <1>1, <3>1
  <2>5. e \in E /\ e = EntryAt(t, goal[i])
    <3>1. e \in E
      <4> HIDE DEF c
      <4> QED
        BY <2>3, TrieNode
    <3>2. EntryAt(t, goal[i]) = e
      <4> HIDE DEF c
      <4>1. c \in DOMAIN t
        BY <2>3
      <4>2. EntryAt(t, FullPath(t, c)) = t[c].entry
        BY <4>1, EntryIs
      <4> HIDE DEF goal
      <4> QED
        BY <2>2, <4>2
    <3> QED
      BY <3>1, <3>2
  <2>6. p \in Seq(Bytes) /\ p # <<>>
    <3> HIDE DEF mp, cp
    <3>1. p \in Seq(Bytes) /\ Len(p) = Len(mp) + Len(cp) /\ Len(mp) \in Nat /\ Len(cp) \in Nat \ {0}
      BY <2>3, <2>4, Concatenation, LenProperties, EmptySeq
    <3> HIDE DEF p
    <3> QED
      BY <3>1, EmptySeq
  <2>7. s \o p = goal[i]
    <3>1. goal[i] = (s \o mp) \o cp
      BY <2>2, <2>3, <2>4
    <3> HIDE DEF s, mp, cp, goal
    <3> QED
      BY <2>3, <2>4, <3>1, Associative
  <2>8. /\ Trie(v, E, X) /\ Standing(v) /\ q \in DOMAIN v /\ FullPath(v, q) = s
        /\ Restored(t, v, path, goal, i - 1)
    BY <1>10
  <2> HIDE DEF p, e, q, v, s, goal
  <2>9. Trie(u, E, X) /\ Standing(u) /\ AddedAt(v, u, goal[i], e)
    <3>1. Trie(u, E, X) /\ Standing(u) /\ AddedAt(v, u, FullPath(v, q) \o p, e)
      BY <2>5, <2>6, <2>8, AddAdds
    <3> QED
      BY <2>7, <2>8, <3>1
  <2> HIDE DEF u
  <2>10. q \in DOMAIN u /\ FullPath(u, q) = s
    BY <2>8, <2>9 DEF AddedAt, Added, Kept, SamePaths
  <2>11. FindsAdded(v, u, goal[i], EntryAt(t, goal[i]))
    BY <2>5, <2>8, <2>9, AddedFinds
  <2>12. Restored(t, u, path, goal, i)
    <3>1. i \in Nat \ {0} /\ \A j \in 1..(i - 1) : j \in 1..l /\ i # j
      BY <1>3
    <3>2. \A j \in 1..(i - 1) : ~ IsPrefix(goal[i], goal[j])
      BY <1>8, <3>1
    <3>3. goal[i] \in Path /\ IsPrefix(path, goal[i])
      BY <1>7
    <3> HIDE DEF l
    <3> QED
      BY <2>8, <2>11, <3>1, <3>2, <3>3, RestoreNext
  <2> QED
    BY <2>1, <2>9, <2>10, <2>12 DEF s
<1> HIDE DEF Good
<1> DEFINE Bad == {i \in 0..l : ~ Good(w[i], i)}
<1>11. Bad = {}
  <2>1. SUFFICES ASSUME Bad # {} PROVE FALSE
    OBVIOUS
  <2>2. Bad \in SUBSET Nat
    BY <1>3
  <2>3. PICK i \in Bad : \A j \in Bad : i <= j
    <3> HIDE DEF Bad
    <3> QED
      BY <2>1, <2>2, LeastNatural
  <2>4. i # 0
    BY <1>9
  <2>5. i \in 1..l /\ i - 1 \in 0..l /\ ~ (i <= i - 1)
    BY <1>3, <2>3, <2>4
  <2>6. i - 1 \notin Bad
    BY <2>3, <2>5
  <2> QED
    BY <1>10, <2>5, <2>6
<1>12. Restored(t, w[l], path, goal, l)
  <2>1. l \in 0..l
    BY <1>3
  <2>2. Good(w[l], l)
    BY <1>11, <2>1
  <2> QED
    BY <2>2 DEF Good
<1>13. ASSUME NEW p \in Path
       PROVE  (\E c \in Children(t, m) : p = FullPath(t, c)) <=> \E j \in 1..l : p = goal[j]
  <2>1. ASSUME NEW c \in Children(t, m), p = FullPath(t, c) PROVE \E j \in 1..l : p = goal[j]
    <3>1. PICK x \in DOMAIN t[m].forks : c = t[m].forks[x]
      BY <2>1 DEF Children
    <3>2. PICK j \in 1..l : order[j] = x
      BY <1>3, <3>1
    <3> QED
      BY <2>1, <3>1, <3>2
  <2>2. ASSUME NEW j \in 1..l, p = goal[j] PROVE \E c \in Children(t, m) : p = FullPath(t, c)
    <3>1. order[j] \in DOMAIN t[m].forks /\ p = FullPath(t, t[m].forks[order[j]])
      BY <1>3, <2>2
    <3>2. t[m].forks[order[j]] \in Children(t, m)
      BY <3>1 DEF Children
    <3> QED
      BY <3>1, <3>2
  <2> QED
    BY <2>1, <2>2
<1> HIDE DEF m, goal, l
<1>14. FindsDetached(t, w[l], path, m)
  BY <1>12, <1>13 DEF Restored, FindsDetached
<1> QED
  BY <1>4, <1>14 DEF m

(* The trie, and what is found in it.                                      *)
FilesInv == TrieInv /\ FilesFound

FindsSame(t, u) == \A p \in Path : EntryAt(u, p) = EntryAt(t, p)

(* Addresses make no difference to what is found.                          *)
LEMMA SimilarFinds ==
  ASSUME NEW t, NEW E, NEW X, Trie(t, E, X), Standing(t),
         NEW u, NEW Y, Trie(u, E, Y), Standing(u), Similar(t, u)
  PROVE  FindsSame(t, u)
<1> DEFINE Z == X \cup Y
<1>1. X \subseteq Z /\ Y \subseteq Z /\ E \subseteq E
  OBVIOUS
<1> HIDE DEF Z
<1>2. Trie(t, E, Z) /\ Trie(u, E, Z)
  BY <1>1, TrieWider
<1>3. Kept(t, u)
  BY <1>2, SimilarKept
<1>4. DOMAIN u = DOMAIN t /\ SamePaths(t, u) /\ \A n \in DOMAIN t : u[n].entry = t[n].entry
  BY <1>3 DEF Similar, Kept, SameEntries
<1>5. ASSUME NEW p \in Path PROVE EntryAt(u, p) = EntryAt(t, p)
  <2>1. p \in Seq(Bytes) /\ p # <<>>
    BY DEF Path
  <2>2. CASE Found(t, p)
    <3>1. PICK n \in DOMAIN t : FullPath(t, n) = p
      BY <2>1, <2>2, FoundHas
    <3>2. n \in DOMAIN u /\ FullPath(u, n) = p
      BY <1>4, <3>1 DEF SamePaths
    <3>3. EntryAt(t, p) = t[n].entry
      BY <3>1, EntryIs
    <3>4. EntryAt(u, p) = u[n].entry
      BY <3>2, EntryIs
    <3> QED
      BY <1>4, <3>3, <3>4
  <2>3. CASE ~ Found(t, p)
    <3>1. ~ Found(u, p)
      <4>1. SUFFICES ASSUME Found(u, p) PROVE FALSE
        OBVIOUS
      <4>2. PICK n \in DOMAIN u : FullPath(u, n) = p
        BY <2>1, <4>1, FoundHas
      <4>3. n \in DOMAIN t /\ FullPath(t, n) = p
        BY <1>4, <4>2 DEF SamePaths
      <4> QED
        BY <2>1, <2>3, <4>3, FoundHas
    <3> QED
      BY <2>3, <3>1 DEF EntryAt
  <2> QED
    BY <2>2, <2>3
<1> QED
  BY <1>5 DEF FindsSame

(* The trie changed in its addresses only.                                 *)
LEMMA FilesReaddressed ==
  ASSUME TrieInv, TrieInv', FilesFound, UNCHANGED <<adds, files, shadowed, orphaned>>,
         Similar(trie, trie')
  PROVE  FilesFound'
<1>1. PICK X : Trie(trie, 0..adds, X)
  BY DEF TrieInv
<1>2. PICK Y : Trie(trie', 0..adds, Y)
  BY DEF TrieInv
<1>3. Standing(trie) /\ Standing(trie')
  BY DEF TrieInv
<1>4. FindsSame(trie, trie')
  BY <1>1, <1>2, <1>3, SimilarFinds
<1>5. Paths \subseteq Path
  BY ConstantsAssumption DEF Path
<1>6. \A path \in Paths \ (shadowed \cup orphaned) : EntryAt(trie', path) = EntryAt(trie, path)
  BY <1>4, <1>5 DEF FindsSame
<1>7. \A path \in Paths \ (shadowed \cup orphaned) :
        EntryAt(trie', path) = IF path \in DOMAIN files THEN files[path] ELSE NoEntry
  BY <1>6 DEF FilesFound
<1> QED
  BY <1>7 DEF FilesFound

LEMMA FilesInit == Init => FilesFound
<1> SUFFICES ASSUME Init, NEW path \in Paths
             PROVE  EntryAt(trie, path) = IF path \in DOMAIN files THEN files[path] ELSE NoEntry
  BY DEF FilesFound
<1>1. TrieInv
  BY TrieInvInit
<1>2. PICK X : Trie(trie, 0..adds, X)
  BY <1>1 DEF TrieInv
<1>3. Standing(trie)
  BY <1>1 DEF TrieInv
<1>4. DOMAIN trie = {1} /\ DOMAIN files = {}
  BY DEF Init
<1>5. path \in Seq(Bytes) /\ path # <<>>
  BY ConstantsAssumption
<1>6. FullPath(trie, 1) = <<>>
  BY <1>2, <1>3, <1>4, Climbs
<1>7. ~ Found(trie, path)
  BY <1>2, <1>3, <1>4, <1>5, <1>6, FoundHas
<1> QED
  BY <1>4, <1>7 DEF EntryAt

LEMMA FilesAdded ==
  ASSUME TrieInv, FilesFound, NEW path \in Path, AddFork(path)
  PROVE  FilesFound'
<1> DEFINE F == 0..(adds + 1)
           e == adds + 1
           u == Add(trie, 1, path, e)
<1>1. PICK X : Trie(trie, 0..adds, X)
  BY DEF TrieInv
<1>2. adds \in Nat /\ Standing(trie)
  BY DEF TrieInv
<1>3. /\ trie' = u /\ files' = Put(files, path, e) /\ orphaned' = orphaned
      /\ shadowed' = IF Found(trie, path) THEN shadowed \cup {path} ELSE shadowed
  BY DEF AddFork, Changes
<1>4. 0..adds \subseteq F /\ e \in F /\ NoEntry \in F
  BY <1>2 DEF NoEntry
<1>5. path \in Seq(Bytes) /\ path # <<>>
  BY DEF Path
<1> HIDE DEF F, e
<1>6. Trie(trie, F, X) /\ 1 \in DOMAIN trie
  BY <1>1, <1>4, TrieWider DEF Trie
<1>7. FullPath(trie, 1) = <<>>
  BY <1>2, <1>6, Climbs
<1>8. <<>> \o path = path
  BY <1>5
<1>9. Trie(u, F, X) /\ Standing(u) /\ AddedAt(trie, u, path, e)
  BY <1>2, <1>4, <1>5, <1>6, <1>7, <1>8, AddAdds
<1> HIDE DEF u
<1>10. FindsAdded(trie, u, path, e)
  BY <1>2, <1>6, <1>9, AddedFinds
<1> DEFINE f == Put(files, path, e)
<1>11. files' = f
  BY <1>3
<1>12. DOMAIN f = DOMAIN files \cup {path} /\ f[path] = e /\ \A p \in DOMAIN files : p # path => f[p] = files[p]
  BY DEF Put
<1> HIDE DEF f
<1>13. DOMAIN files' = DOMAIN files \cup {path} /\ files'[path] = e
  BY <1>11, <1>12
<1>14. \A p \in DOMAIN files : p # path => files'[p] = files[p]
  BY <1>11, <1>12
<1>15. ASSUME NEW p \in Paths \ (shadowed' \cup orphaned')
       PROVE  EntryAt(trie', p) = IF p \in DOMAIN files' THEN files'[p] ELSE NoEntry
  <2>1. p \in Path /\ p \in Paths \ (shadowed \cup orphaned)
    <3>1. p \notin shadowed
      BY <1>3
    <3> QED
      BY <1>3, <3>1, ConstantsAssumption DEF Path
  <2>2. CASE p = path
    <3>1. ~ Found(trie, path)
      BY <1>3, <2>2
    <3>2. EntryAt(u, path) = e
      BY <1>10, <3>1 DEF FindsAdded
    <3> QED
      BY <1>3, <1>13, <2>2, <3>2
  <2>3. CASE p # path
    <3>1. EntryAt(u, p) = EntryAt(trie, p)
      BY <1>10, <2>1, <2>3 DEF FindsAdded
    <3>2. EntryAt(trie, p) = IF p \in DOMAIN files THEN files[p] ELSE NoEntry
      BY <2>1 DEF FilesFound
    <3>3. p \in DOMAIN files' <=> p \in DOMAIN files
      BY <1>13, <2>3
    <3>4. p \in DOMAIN files => files'[p] = files[p]
      BY <1>14, <2>3
    <3>5. EntryAt(trie', p) = EntryAt(trie, p)
      BY <1>3, <3>1
    <3> QED
      BY <3>2, <3>3, <3>4, <3>5
  <2> QED
    BY <2>2, <2>3
<1> QED
  BY <1>15 DEF FilesFound

LEMMA FilesRemoved ==
  ASSUME TrieInv, FilesFound, NEW path \in Path, RemoveFork(path)
  PROVE  FilesFound'
<1> DEFINE m == FindClosest(trie, 1, path).node
           deeper == {FullPath(trie, n) : n \in UNION {Subtree(trie, c) \ {c} : c \in Children(trie, m)}}
<1>1. PICK X : Trie(trie, 0..adds, X)
  BY DEF TrieInv
<1>2. adds \in Nat /\ Standing(trie) /\ NoEntry \in 0..adds
  BY DEF TrieInv, NoEntry
<1>3. PICK order \in SetToSeqs(DOMAIN trie[m].forks) : trie' = Detach(trie, path, order)
  BY DEF RemoveFork, Changes
<1>4. /\ Found(trie, path) /\ files' = Drop(files, {path})
      /\ shadowed' = shadowed \ {path} /\ orphaned' = orphaned \cup deeper
  BY DEF RemoveFork
<1>5. FindsDetached(trie, trie', path, m)
  BY <1>1, <1>2, <1>3, <1>4, DetachFinds
<1>6. path \in Seq(Bytes) /\ path # <<>>
  BY DEF Path
<1>7. m \in DOMAIN trie /\ FullPath(trie, m) = path
  BY <1>1, <1>2, <1>4, <1>6, FoundAt
<1>8. \A n \in UNION {Subtree(trie, c) \ {c} : c \in Children(trie, m)} : FullPath(trie, n) \in orphaned'
  BY <1>4
<1> HIDE DEF m, deeper
<1>9. DOMAIN files' = DOMAIN files \ {path} /\ \A p \in DOMAIN files \ {path} : files'[p] = files[p]
  BY <1>4, DropAt
<1>10. ASSUME NEW p \in Path, IsPrefix(path, p), p # path, p \notin orphaned',
              ~ \E c \in Children(trie, m) : p = FullPath(trie, c)
       PROVE  EntryAt(trie, p) = NoEntry
  <2>1. CASE Found(trie, p)
    <3>1. p \in Seq(Bytes) /\ p # <<>>
      BY DEF Path
    <3>2. PICK n \in DOMAIN trie : FullPath(trie, n) = p
      BY <1>1, <1>2, <2>1, <3>1, FoundHas
    <3>3. n \in Subtree(trie, m) \ {m}
      BY <1>7, <1>10, <3>2 DEF Subtree
    <3>4. PICK c \in Children(trie, m) : n \in Subtree(trie, c)
      BY <1>1, <1>2, <1>7, <3>3, BelowChild
    <3>5. n # c
      BY <1>10, <3>2, <3>4
    <3> QED
      BY <1>8, <1>10, <3>2, <3>4, <3>5
  <2>2. CASE ~ Found(trie, p)
    BY <2>2 DEF EntryAt
  <2> QED
    BY <2>1, <2>2
<1>11. EntryAt(trie', path) = NoEntry
  <2>1. ~ \E c \in Children(trie, m) : path = FullPath(trie, c)
    <3>1. SUFFICES ASSUME NEW c \in Children(trie, m) PROVE FullPath(trie, c) # path
      OBVIOUS
    <3>2. PICK x \in DOMAIN trie[m].forks : c = trie[m].forks[x]
      BY <3>1 DEF Children
    <3> QED
      BY <1>1, <1>2, <1>7, <3>2, ChildrenPart
  <2>2. IsPrefix(path, path)
    BY <1>6, PrefixItself
  <2> QED
    BY <1>5, <2>1, <2>2 DEF FindsDetached
<1>12. ASSUME NEW p \in Paths \ (shadowed' \cup orphaned')
       PROVE  EntryAt(trie', p) = IF p \in DOMAIN files' THEN files'[p] ELSE NoEntry
  <2>1. CASE p = path
    BY <1>9, <1>11, <2>1
  <2>2. CASE p # path
    <3>1. p \in Path /\ p \in Paths \ (shadowed \cup orphaned)
      BY <1>4, <2>2, ConstantsAssumption DEF Path
    <3>2. EntryAt(trie', p) = EntryAt(trie, p)
      <4>1. CASE (\E c \in Children(trie, m) : p = FullPath(trie, c)) \/ ~ IsPrefix(path, p)
        BY <1>5, <3>1, <4>1 DEF FindsDetached
      <4>2. CASE ~ (\E c \in Children(trie, m) : p = FullPath(trie, c)) /\ IsPrefix(path, p)
        <5>1. EntryAt(trie', p) = NoEntry
          BY <1>5, <3>1, <4>2 DEF FindsDetached
        <5>2. EntryAt(trie, p) = NoEntry
          BY <1>10, <1>12, <2>2, <3>1, <4>2
        <5> QED
          BY <5>1, <5>2
      <4> QED
        BY <4>1, <4>2
    <3>3. EntryAt(trie, p) = IF p \in DOMAIN files THEN files[p] ELSE NoEntry
      BY <3>1 DEF FilesFound
    <3> QED
      BY <1>9, <2>2, <3>2, <3>3
  <2> QED
    BY <2>1, <2>2
<1> QED
  BY <1>12 DEF FilesFound

LEMMA FilesStep ==
  ASSUME TrieInv, FilesFound, [Next]_vars
  PROVE  FilesFound'
<1>1. TrieInv'
  BY TrieInvStep
<1>2. PICK X : Trie(trie, 0..adds, X)
  BY DEF TrieInv
<1>3. Paths \subseteq Path
  BY ConstantsAssumption DEF Path
<1>4. ASSUME NEW path \in Paths, AddFork(path) PROVE FilesFound'
  BY <1>3, <1>4, FilesAdded
<1>5. ASSUME NEW path \in Paths, RemoveFork(path) PROVE FilesFound'
  BY <1>3, <1>5, FilesRemoved
<1>6. ASSUME NEW path \in Paths, RemoveNothing(path) PROVE FilesFound'
  <2>1. trie' = Invalidate(trie, 1) /\ UNCHANGED <<adds, files, shadowed, orphaned>>
    BY <1>6 DEF RemoveNothing, Changes
  <2>2. Similar(trie, trie')
    BY <1>2, <2>1, InvalidateSimilar
  <2> QED
    BY <1>1, <2>1, <2>2, FilesReaddressed
<1>7. CASE CalculateSelfAddress
  <2>1. UNCHANGED <<adds, files, shadowed, orphaned>>
    BY <1>7 DEF CalculateSelfAddress
  <2>2. Similar(trie, trie')
    <3>1. ASSUME NEW n \in DOMAIN trie
          PROVE  trie'[n].path = trie[n].path /\ trie'[n].parent = trie[n].parent /\ trie'[n].entry = trie[n].entry
      <4> DEFINE r == trie[n]
      <4>1. r \in Node(0..adds, X)
        BY <1>2, TrieNode
      <4>2. trie'[n] = r \/ \E a : trie'[n] = [r EXCEPT !.self = {a}]
        BY <1>7 DEF CalculateSelfAddress
      <4> HIDE DEF r
      <4>3. trie'[n].path = r.path /\ trie'[n].parent = r.parent /\ trie'[n].entry = r.entry
        BY <4>1, <4>2 DEF Node
      <4> QED
        BY <4>3 DEF r
    <3>2. DOMAIN trie' = DOMAIN trie
      BY <1>7 DEF CalculateSelfAddress
    <3> QED
      BY <3>1, <3>2 DEF Similar, SameLinks, SameLink, SameEntries
  <2> QED
    BY <1>1, <2>1, <2>2, FilesReaddressed
<1>8. CASE SaveRecursively
  BY <1>8 DEF SaveRecursively, history, FilesFound
<1>9. CASE Descend
  BY <1>9 DEF Descend, history, FilesFound
<1>10. CASE Upload
  <2>1. UNCHANGED <<adds, files, shadowed, orphaned>>
    BY <1>10 DEF Upload, counts, history
  <2>2. PICK chunk : trie' = [trie EXCEPT ![at].self = {chunk}]
    BY <1>10 DEF Upload
  <2>3. Similar(trie, trie')
    <3>1. ASSUME NEW n \in DOMAIN trie
          PROVE  trie'[n].path = trie[n].path /\ trie'[n].parent = trie[n].parent /\ trie'[n].entry = trie[n].entry
      <4> DEFINE r == trie[n]
      <4>1. r \in Node(0..adds, X)
        BY <1>2, TrieNode
      <4>2. trie'[n] = r \/ trie'[n] = [r EXCEPT !.self = {chunk}]
        BY <2>2
      <4> HIDE DEF r
      <4>3. trie'[n].path = r.path /\ trie'[n].parent = r.parent /\ trie'[n].entry = r.entry
        BY <4>1, <4>2 DEF Node
      <4> QED
        BY <4>3 DEF r
    <3>2. DOMAIN trie' = DOMAIN trie
      BY <2>2
    <3> QED
      BY <3>1, <3>2 DEF Similar, SameLinks, SameLink, SameEntries
  <2> QED
    BY <1>1, <2>1, <2>3, FilesReaddressed
<1>11. CASE UploadFails
  BY <1>11 DEF UploadFails, history, FilesFound
<1>12. CASE UNCHANGED vars
  BY <1>12 DEF vars, history, FilesFound
<1> QED
  BY <1>4, <1>5, <1>6, <1>7, <1>8, <1>9, <1>10, <1>11, <1>12 DEF Next

(* Every file added and not removed is found with its last reference, and  *)
(* nothing else is, however the trie was split, merged, cut and saved:     *)
(* but for what was added where a node stood already, and for what was     *)
(* deep below a removed path.                                              *)
THEOREM FilesAlwaysFound == Spec => []FilesFound
<1>1. Init => FilesInv
  BY TrieInvInit, FilesInit DEF FilesInv
<1>2. FilesInv /\ [Next]_vars => FilesInv'
  BY TrieInvStep, FilesStep DEF FilesInv
<1>3. FilesInv => FilesFound
  BY DEF FilesInv
<1> QED
  BY <1>1, <1>2, <1>3, PTL DEF Spec

-----------------------------------------------------------------------------
(* Reading what was saved.                                                 *)

(* A change of a trie whose nodes have no addresses, but for the root,     *)
(* leaves one without addresses.                                           *)
LEMMA InvalidateTwice ==
  ASSUME NEW t, NEW E, NEW X, Trie(t, E, X)
  PROVE  Invalidate(Invalidate(t, 1), 1) = Invalidate(t, 1)
<1> DEFINE u == Invalidate(t, 1)
           v == Invalidate(u, 1)
<1>1. Trie(u, E, X) /\ DOMAIN u = DOMAIN t /\ 1 \in DOMAIN t
  BY InvalidateChanges DEF Trie
<1>2. u[1].self = {} /\ 1 \in DOMAIN u /\ u[1] \in Node(E, X)
  BY <1>1, InvalidateSelf, TrieNode
<1>3. v = [u EXCEPT ![1] = [u[1] EXCEPT !.self = {}]]
  BY DEF Invalidate
<1>4. u = [n \in DOMAIN u |-> u[n]]
  BY <1>1 DEF Trie
<1> DEFINE r == u[1]
<1> HIDE DEF u, v
<1>5. [r EXCEPT !.self = {}] = r
  <2>1. r \in Node(E, X) /\ r.self = {}
    BY <1>2
  <2> HIDE DEF r
  <2> QED
    BY <2>1 DEF Node
<1>6. v = u
  BY <1>2, <1>3, <1>4, <1>5
<1> QED
  BY <1>6 DEF u, v

(* AddFork from the trie it begins with.                                   *)
AddFrom(start, n, path, entry) ==
  LET pieces == Pieces(path)
      walk[i \in 0..Len(pieces)] ==
        IF i = 0 THEN [trie |-> start, tip |-> n]
        ELSE AddPiece(walk[i-1], pieces[i], EntryOf(i, Len(pieces), entry))
  IN  walk[Len(pieces)].trie

LEMMA AddBlank ==
  ASSUME NEW t, NEW E, NEW X, Trie(t, E, X), Standing(t), ~ Addressed(t),
         NEW path \in Seq(Bytes), NEW entry \in E, NoEntry \in E
  PROVE  Trie(Add(t, 1, path, entry), E, {})
<1> DEFINE v == Invalidate(t, 1)
<1>1. Trie(v, E, X) /\ DOMAIN v = DOMAIN t /\ 1 \in DOMAIN v
  BY InvalidateChanges DEF Trie
<1>2. Standing(v)
  <2>1. Readdressed(t, v)
    BY InvalidateChanges DEF Readdressed
  <2> HIDE DEF v
  <2> QED
    BY <2>1, ReaddressedStands
<1>3. Trie(v, E, {})
  <2>1. \A n \in DOMAIN v : v[n].self \subseteq {}
    BY <1>1, InvalidateSelf DEF Addressed
  <2> HIDE DEF v
  <2> QED
    BY <1>1, <2>1, TrieNarrow
<1>4. Invalidate(v, 1) = v
  BY InvalidateTwice
<1> HIDE DEF v
<1>5. Trie(Add(v, 1, path, entry), E, {})
  BY <1>1, <1>2, <1>3, AddStands
<1>6. Add(v, 1, path, entry) = AddFrom(Invalidate(v, 1), 1, path, entry)
  BY DEF Add, AddFrom
<1>7. Add(t, 1, path, entry) = AddFrom(v, 1, path, entry)
  BY DEF Add, AddFrom, v
<1> QED
  BY <1>4, <1>5, <1>6, <1>7

LEMMA DetachBlank ==
  ASSUME NEW t, NEW E, NEW X, Trie(t, E, X), Standing(t), ~ Addressed(t), NoEntry \in E,
         NEW path \in Seq(Bytes), path # <<>>, Found(t, path),
         NEW order \in SetToSeqs(DOMAIN t[FindClosest(t, 1, path).node].forks)
  PROVE  Trie(Detach(t, path, order), E, {})
<1>1. BelowRoot(t, {})
  BY DEF BelowRoot, Addressed
<1> QED
  BY <1>1, DetachStands

LEMMA InvalidateBlank ==
  ASSUME NEW t, NEW E, NEW X, Trie(t, E, X), ~ Addressed(t)
  PROVE  Trie(Invalidate(t, 1), E, {})
<1> DEFINE v == Invalidate(t, 1)
<1>1. Trie(v, E, X) /\ DOMAIN v = DOMAIN t /\ 1 \in DOMAIN v
  BY InvalidateChanges DEF Trie
<1>2. \A n \in DOMAIN v : v[n].self \subseteq {}
  BY <1>1, InvalidateSelf DEF Addressed
<1> HIDE DEF v
<1>3. Trie(v, E, {})
  BY <1>1, <1>2, TrieNarrow
<1> QED
  BY <1>3 DEF v

(* A reader with the chunks of V goes on from a chunk along path, with k   *)
(* bytes behind it.                                                        *)
ReadsOn(V, path, chunk, k) ==
  /\ path[k+1] \in DOMAIN chunk.forks
  /\ IsPrefix(chunk.forks[path[k+1]].prefix, Rest(path, k))
  /\ chunk.forks[path[k+1]].address \in V

ReadFrom(V, path, f, chunk, k) ==
  IF k = Len(path) THEN chunk.entry
  ELSE IF ReadsOn(V, path, chunk, k)
       THEN f[k + Len(chunk.forks[path[k+1]].prefix)][chunk.forks[path[k+1]].address]
       ELSE NoEntry

(* The walk of Served.                                                     *)
Reading(root, path) ==
  LET walk[k \in 0..Len(path)] ==
        [chunk \in uploaded \cup {root} |-> ReadFrom(uploaded, path, walk, chunk, k)]
  IN  walk

(* Every fork of a chunk takes a reader further.                           *)
Readable(V) == \A chunk \in V : \A b \in DOMAIN chunk.forks : chunk.forks[b].prefix \in ShortPath

LEMMA ReadingGoesOn ==
  ASSUME NEW V, NEW U, Readable(U), NEW path \in Seq(Bytes), NEW chunk \in U,
         NEW k \in 0..Len(path), k # Len(path), ReadsOn(V, path, chunk, k)
  PROVE  k + Len(chunk.forks[path[k+1]].prefix) \in (k + 1)..Len(path)
<1> DEFINE p == chunk.forks[path[k+1]].prefix
           l == Len(p)
<1>1. p \in ShortPath /\ IsPrefix(p, Rest(path, k))
  BY DEF ReadsOn, Readable
<1> HIDE DEF p
<1>2. p \in Seq(Bytes) /\ Len(p) \in Nat \ {0}
  BY <1>1, ConstantsAssumption DEF ShortPath
<1>3. Rest(path, k) \in Seq(Bytes) /\ Len(Rest(path, k)) = Len(path) - k /\ Len(path) \in Nat
  BY RestProperties, LenProperties
<1>4. Len(p) <= Len(path) - k
  BY <1>1, <1>2, <1>3, PrefixIs
<1>5. l \in Nat \ {0} /\ l <= Len(path) - k
  BY <1>2, <1>4
<1> HIDE DEF l
<1>6. k + l \in (k + 1)..Len(path)
  BY <1>3, <1>5
<1> QED
  BY <1>6 DEF l, p

(* f is the walk of readers with at least k bytes behind them.             *)
IsReading(V, U, path, k, f) ==
  f = [i \in k..Len(path) |-> [chunk \in U |-> ReadFrom(V, path, f, chunk, i)]]

LEMMA ReadingExists ==
  ASSUME NEW V, NEW U, Readable(U), NEW path \in Seq(Bytes)
  PROVE  \E f : IsReading(V, U, path, 0, f)
<1> DEFINE n == Len(path)
           Bad == {j \in 0..(n + 1) : ~ \E f : IsReading(V, U, path, n + 1 - j, f)}
<1>1. n \in Nat
  BY LenProperties
<1>2. SUFFICES ASSUME Bad # {} PROVE FALSE
  <2>1. n + 1 \in 0..(n + 1) /\ n + 1 - (n + 1) = 0
    BY <1>1
  <2>2. n + 1 \notin Bad
    BY <1>2
  <2> QED
    BY <2>1, <2>2
<1>3. PICK j \in Bad : \A i \in Bad : j <= i
  <2>1. Bad \in SUBSET Nat
    BY <1>1
  <2> HIDE DEF Bad
  <2> QED
    BY <1>2, <2>1, LeastNatural
<1>4. j # 0
  <2>1. SUFFICES ASSUME j = 0 PROVE FALSE
    OBVIOUS
  <2> DEFINE f == [i \in (n + 1)..n |-> {}]
  <2>2. (n + 1)..n = {}
    BY <1>1
  <2>3. IsReading(V, U, path, n + 1, f)
    BY <2>2 DEF IsReading
  <2>4. n + 1 - j = n + 1
    BY <1>1, <2>1
  <2> QED
    BY <2>3, <2>4
<1>5. j - 1 \in 0..(n + 1) /\ j - 1 \notin Bad /\ n + 1 - (j - 1) = n + 1 - j + 1 /\ n + 1 - j \in 0..n
  <2>1. j \in 0..(n + 1)
    BY <1>3
  <2> HIDE DEF Bad, n
  <2> QED
    BY <1>1, <1>3, <1>4, <2>1
<1>6. PICK k : k = n + 1 - j
  OBVIOUS
<1>7. PICK f : IsReading(V, U, path, k + 1, f)
  BY <1>5, <1>6
<1>8. k \in 0..n
  BY <1>5, <1>6
<1> HIDE DEF Bad
<1> DEFINE g == [i \in k..n |-> IF i = k THEN [m \in U |-> ReadFrom(V, path, f, m, k)] ELSE f[i]]
<1>9. /\ DOMAIN g = k..n /\ g[k] = [m \in U |-> ReadFrom(V, path, f, m, k)]
      /\ \A i \in (k + 1)..n : g[i] = f[i]
  BY <1>1, <1>8
<1>a. g = [i \in k..n |-> g[i]]
  OBVIOUS
<1> HIDE DEF g
<1>10. ASSUME NEW i \in k..n, NEW m \in U
       PROVE  ReadFrom(V, path, f, m, i) = ReadFrom(V, path, g, m, i)
  <2>1. CASE i = n \/ ~ ReadsOn(V, path, m, i)
    BY <2>1 DEF ReadFrom
  <2>2. CASE i # n /\ ReadsOn(V, path, m, i)
    <3>1. i \in 0..Len(path)
      BY <1>1, <1>8
    <3> DEFINE b == i + Len(m.forks[path[i+1]].prefix)
    <3>2. b \in (i + 1)..n
      BY <2>2, <3>1, ReadingGoesOn
    <3> HIDE DEF b
    <3>3. b \in (k + 1)..n
      BY <1>1, <1>8, <3>2
    <3>4. g[b] = f[b]
      BY <1>9, <3>3
    <3> QED
      BY <2>2, <3>4 DEF ReadFrom, b
  <2> QED
    BY <2>1, <2>2
<1>11. ASSUME NEW i \in k..n PROVE g[i] = [m \in U |-> ReadFrom(V, path, g, m, i)]
  <2>1. CASE i = k
    <3>1. [m \in U |-> ReadFrom(V, path, f, m, i)] = [m \in U |-> ReadFrom(V, path, g, m, i)]
      BY <1>10
    <3> QED
      BY <1>9, <2>1, <3>1
  <2>2. CASE i # k
    <3>1. i \in (k + 1)..n
      BY <1>1, <1>8, <2>2
    <3>2. f[i] = [m \in U |-> ReadFrom(V, path, f, m, i)]
      BY <1>7, <3>1 DEF IsReading
    <3>3. [m \in U |-> ReadFrom(V, path, f, m, i)] = [m \in U |-> ReadFrom(V, path, g, m, i)]
      BY <1>10
    <3> QED
      BY <1>9, <3>1, <3>2, <3>3
  <2> QED
    BY <2>1, <2>2
<1>12. g = [i \in k..n |-> [m \in U |-> ReadFrom(V, path, g, m, i)]]
  <2> DEFINE W(i) == [m \in U |-> ReadFrom(V, path, g, m, i)]
  <2>1. \A i \in k..n : g[i] = W(i)
    BY <1>11
  <2> HIDE DEF W
  <2>2. [i \in k..n |-> g[i]] = [i \in k..n |-> W(i)]
    BY <2>1
  <2>3. g = [i \in k..n |-> W(i)]
    BY <1>a, <2>2
  <2> QED
    BY <2>3 DEF W
<1>13. IsReading(V, U, path, k, g)
  BY <1>12 DEF IsReading
<1> QED
  BY <1>3, <1>6, <1>13 DEF Bad

LEMMA ReadingLaw ==
  ASSUME NEW root, Readable(uploaded), root \in uploaded, NEW path \in Seq(Bytes)
  PROVE  \A k \in 0..Len(path), chunk \in uploaded :
           Reading(root, path)[k][chunk] = ReadFrom(uploaded, path, Reading(root, path), chunk, k)
<1> DEFINE U == uploaded \cup {root}
           W(f) == [k \in 0..Len(path) |-> [chunk \in U |-> ReadFrom(uploaded, path, f, chunk, k)]]
           w == Reading(root, path)
<1>1. w = CHOOSE f : f = W(f)
  BY DEF Reading
<1>2. U = uploaded
  OBVIOUS
<1>3. \E f : f = W(f)
  <2> HIDE DEF U
  <2>1. Readable(U)
    BY <1>2
  <2>2. \E f : IsReading(uploaded, U, path, 0, f)
    BY <2>1, ReadingExists
  <2> QED
    BY <2>2 DEF IsReading
<1> HIDE DEF w
<1>4. w = W(w)
  <2> HIDE DEF W
  <2> QED
    BY <1>1, <1>3
<1>5. ASSUME NEW k \in 0..Len(path), NEW chunk \in uploaded
      PROVE  w[k][chunk] = ReadFrom(uploaded, path, w, chunk, k)
  <2> HIDE DEF U
  <2>1. w[k] = [c \in U |-> ReadFrom(uploaded, path, w, c, k)]
    BY <1>4
  <2>2. chunk \in U
    BY <1>2
  <2> QED
    BY <2>1, <2>2
<1> QED
  BY <1>5 DEF w

(* The chunk a names the node n of t as it is, and the children's          *)
(* addresses; every address in t does.                                     *)
Names(t, n, a) ==
  /\ a.entry = t[n].entry
  /\ DOMAIN a.forks = DOMAIN t[n].forks
  /\ \A b \in DOMAIN t[n].forks :
       LET c == t[n].forks[b]
       IN  a.forks[b].prefix = t[c].path /\ a.forks[b].address \in t[c].self

Mirrored(t) == \A n \in DOMAIN t : \A a \in t[n].self : Names(t, n, a)

(* What the walk of FindClosest along path, from n with k bytes behind it, *)
(* finds.                                                                  *)
Finds(t, path, k, n) ==
  LET r == Closest(t, path)[k][n]
  IN  IF r.matched = Len(path) THEN t[r.node].entry ELSE NoEntry

(* A reader of a node's chunk finds what is found from the node.           *)
LEMMA ReadsNode ==
  ASSUME NEW t, NEW E, NEW X, Trie(t, E, X), Standing(t), Mirrored(t), X \subseteq uploaded,
         Readable(uploaded), NEW root \in uploaded, NEW path \in Seq(Bytes),
         NEW k \in 0..Len(path), NEW n \in DOMAIN t, NEW a \in t[n].self
  PROVE  Reading(root, path)[k][a] = Finds(t, path, k, n)
<1> DEFINE l == Len(path)
           w == Reading(root, path)
           Right(i) == \A m \in DOMAIN t : \A d \in t[m].self : w[i][d] = Finds(t, path, i, m)
           Bad == {j \in 0..l : ~ Right(l - j)}
<1>1. l \in Nat
  BY LenProperties
<1>2. ASSUME NEW i \in 0..l, \A q \in (i + 1)..l : Right(q) PROVE Right(i)
  <2>1. SUFFICES ASSUME NEW m \in DOMAIN t, NEW d \in t[m].self PROVE w[i][d] = Finds(t, path, i, m)
    OBVIOUS
  <2>2. d \in uploaded /\ Names(t, m, d)
    BY <2>1, TrieNode DEF Mirrored
  <2>3. w[i][d] = ReadFrom(uploaded, path, w, d, i)
    BY <2>2, ReadingLaw
  <2>4. Closest(t, path)[i][m] = WalkFrom(t, path, Closest(t, path), m, i)
    BY WalkLaw
  <2> HIDE DEF Right
  <2>5. CASE ~ Continues(t, path, m, i)
    <3>1. Closest(t, path)[i][m] = [node |-> m, matched |-> i]
      BY <2>4, <2>5 DEF WalkFrom
    <3>2. CASE i = l
      <4>1. w[i][d] = d.entry
        BY <2>3, <3>2 DEF ReadFrom
      <4> HIDE DEF w
      <4> QED
        BY <2>2, <3>1, <3>2, <4>1 DEF Finds, Names
    <3>3. CASE i # l
      <4>1. i < l
        BY <1>1, <3>3
      <4>2. ~ ReadsOn(uploaded, path, d, i)
        BY <2>2, <2>5, <4>1 DEF ReadsOn, Names, Continues
      <4>3. w[i][d] = NoEntry
        BY <2>3, <3>3, <4>2 DEF ReadFrom
      <4> HIDE DEF w
      <4> QED
        BY <3>1, <3>3, <4>3 DEF Finds
    <3> QED
      BY <3>2, <3>3
  <2>6. CASE Continues(t, path, m, i)
    <3> DEFINE x == path[i + 1]
               c == Onward(t, path, m, i)
               b == Beyond(t, path, m, i)
               z == d.forks[x].address
    <3>1. c \in DOMAIN t /\ b \in (i + 1)..l
      BY <2>6, WalkGoesOn
    <3>2. i # l /\ x \in DOMAIN t[m].forks /\ c = t[m].forks[x] /\ IsPrefix(t[c].path, Rest(path, i))
      BY <1>1, <2>6 DEF Continues, Onward
    <3>3. x \in DOMAIN d.forks /\ d.forks[x].prefix = t[c].path /\ z \in t[c].self
      BY <2>2, <3>2 DEF Names
    <3>4. b = i + Len(t[c].path)
      BY DEF Beyond
    <3>5. z \in uploaded
      <4> HIDE DEF z, c
      <4> QED
        BY <3>1, <3>3, TrieNode
    <3>6. ReadsOn(uploaded, path, d, i)
      BY <3>2, <3>3, <3>5 DEF ReadsOn
    <3>7. w[i][d] = w[b][z]
      <4> HIDE DEF w, b, c
      <4> QED
        BY <2>3, <3>2, <3>3, <3>4, <3>6 DEF ReadFrom
    <3>8. Closest(t, path)[i][m] = Closest(t, path)[b][c]
      BY <2>4, <2>6 DEF WalkFrom
    <3>9. Finds(t, path, i, m) = Finds(t, path, b, c)
      <4> HIDE DEF b, c
      <4> QED
        BY <3>8 DEF Finds
    <3>10. Right(b)
      BY <1>2, <3>1
    <3> HIDE DEF w, b, c, z
    <3>11. w[b][z] = Finds(t, path, b, c)
      BY <3>1, <3>3, <3>10 DEF Right
    <3> QED
      BY <3>7, <3>9, <3>11
  <2> QED
    BY <2>5, <2>6
<1> HIDE DEF Right
<1>3. Bad = {}
  <2>1. SUFFICES ASSUME Bad # {} PROVE FALSE
    OBVIOUS
  <2>2. Bad \in SUBSET Nat
    BY <1>1
  <2>3. PICK j \in Bad : \A i \in Bad : j <= i
    <3> HIDE DEF Bad
    <3> QED
      BY <2>1, <2>2, LeastNatural
  <2>4. j \in 0..l /\ ~ Right(l - j)
    BY <2>3
  <2>5. ASSUME NEW q \in (l - j + 1)..l PROVE Right(q)
    <3>1. l - q \in 0..l /\ ~ (j <= l - q) /\ l - (l - q) = q
      BY <1>1, <2>4, <2>5
    <3>2. l - q \notin Bad
      BY <2>3, <3>1
    <3> QED
      BY <3>1, <3>2
  <2>6. l - j \in 0..l
    BY <1>1, <2>4
  <2> HIDE DEF Bad
  <2> QED
    BY <1>2, <2>4, <2>5, <2>6
<1>4. Right(k)
  <2>1. l - k \in 0..l /\ l - (l - k) = k
    BY <1>1
  <2>2. l - k \notin Bad
    BY <1>3
  <2> QED
    BY <2>1, <2>2
<1> QED
  BY <1>4 DEF Right, w

LEMMA ReadsTrie ==
  ASSUME NEW t, NEW E, NEW X, Trie(t, E, X), Standing(t), Mirrored(t), X \subseteq uploaded,
         Readable(uploaded), NEW root \in t[1].self, NEW path \in Seq(Bytes)
  PROVE  Served(root, path) = EntryAt(t, path)
<1>1. 1 \in DOMAIN t
  BY DEF Trie
<1>2. root \in uploaded
  BY <1>1, TrieNode
<1>3. 0 \in 0..Len(path)
  BY LenProperties
<1>4. Reading(root, path)[0][root] = Finds(t, path, 0, 1)
  BY <1>1, <1>2, <1>3, ReadsNode
<1>5. Served(root, path) = Reading(root, path)[0][root]
  BY DEF Served, Reading, ReadFrom, ReadsOn
<1>6. Finds(t, path, 0, 1) = EntryAt(t, path)
  BY DEF Finds, EntryAt, Found, FindClosest
<1> QED
  BY <1>4, <1>5, <1>6

(* The last save returned an address of the root; and unless addresses     *)
(* were calculated without an upload, or the trie changed when nodes had   *)
(* addresses, every address names its node as it is, and the node the      *)
(* saving has descended to has none.                                       *)
ServeInv ==
  /\ TrieInv
  /\ saved \subseteq trie[1].self
  /\ Readable(uploaded)
  /\ ~hashed /\ ~reused => Mirrored(trie) /\ (at \notin {0, 1} => trie[at].self = {})

LEMMA ServeInvInit == Init => ServeInv
<1> SUFFICES ASSUME Init PROVE ServeInv
  OBVIOUS
<1>1. TrieInv
  BY TrieInvInit
<1>2. saved = {} /\ uploaded = {} /\ at = 0
  BY DEF Init
<1>3. DOMAIN trie = {1} /\ trie[1].self = {}
  BY DEF Init, NewNode
<1>4. Mirrored(trie)
  BY <1>3 DEF Mirrored
<1> QED
  BY <1>1, <1>2, <1>4 DEF ServeInv, Readable

(* The trie was changed.                                                   *)
LEMMA ChangeServes ==
  ASSUME ServeInv, TrieInv', saved' = {}, at' = 0, UNCHANGED <<uploaded, hashed>>,
         reused' = (reused \/ Addressed(trie)),
         ~ Addressed(trie) => \E E : Trie(trie', E, {})
  PROVE  ServeInv'
<1>1. ASSUME ~ reused' PROVE Mirrored(trie')
  <2>1. ~ Addressed(trie)
    BY <1>1
  <2>2. PICK E : Trie(trie', E, {})
    BY <2>1
  <2>3. \A n \in DOMAIN trie' : trie'[n].self = {}
    BY <2>2, TrieNode
  <2> QED
    BY <2>3 DEF Mirrored
<1>2. Readable(uploaded')
  BY DEF ServeInv, Readable
<1>3. saved' \subseteq trie'[1].self
  OBVIOUS
<1>4. Mirrored(trie)' <=> Mirrored(trie')
  BY DEF Mirrored, Names
<1>5. Readable(uploaded)' <=> Readable(uploaded')
  BY DEF Readable
<1> QED
  BY <1>1, <1>2, <1>3, <1>4, <1>5 DEF ServeInv

LEMMA AddForkServes ==
  ASSUME ServeInv, TrieInv', NEW path \in Path, AddFork(path)
  PROVE  ServeInv'
<1> DEFINE F == 0..(adds + 1)
           e == adds + 1
           u == Add(trie, 1, path, e)
<1>1. PICK X : Trie(trie, 0..adds, X)
  BY DEF ServeInv, TrieInv
<1>2. adds \in Nat /\ Standing(trie)
  BY DEF ServeInv, TrieInv
<1>3. /\ trie' = u /\ saved' = {} /\ at' = 0 /\ UNCHANGED <<uploaded, hashed>>
      /\ reused' = (reused \/ Addressed(trie))
  BY DEF AddFork, Changes
<1>4. 0..adds \subseteq F /\ e \in F /\ NoEntry \in F
  BY <1>2 DEF NoEntry
<1> HIDE DEF F, e
<1>5. Trie(trie, F, X)
  BY <1>1, <1>4, TrieWider
<1>6. ASSUME ~ Addressed(trie) PROVE Trie(u, F, {})
  <2>1. path \in Seq(Bytes)
    BY DEF Path
  <2> QED
    BY <1>2, <1>4, <1>5, <1>6, <2>1, AddBlank
<1> HIDE DEF u
<1>7. ~ Addressed(trie) => \E E : Trie(trie', E, {})
  BY <1>3, <1>6
<1> QED
  BY <1>3, <1>7, ChangeServes

LEMMA RemoveForkServes ==
  ASSUME ServeInv, TrieInv', NEW path \in Path, RemoveFork(path)
  PROVE  ServeInv'
<1> DEFINE F == 0..adds
<1>1. PICK X : Trie(trie, F, X)
  BY DEF ServeInv, TrieInv
<1>2. Standing(trie) /\ NoEntry \in F
  BY DEF ServeInv, TrieInv, NoEntry
<1>3. PICK order \in SetToSeqs(DOMAIN trie[FindClosest(trie, 1, path).node].forks) :
        trie' = Detach(trie, path, order)
  BY DEF RemoveFork, Changes
<1>4. /\ saved' = {} /\ at' = 0 /\ UNCHANGED <<uploaded, hashed>> /\ Found(trie, path)
      /\ reused' = (reused \/ Addressed(trie))
  BY DEF RemoveFork, Changes
<1> HIDE DEF F
<1>5. ASSUME ~ Addressed(trie) PROVE Trie(Detach(trie, path, order), F, {})
  <2>1. path \in Seq(Bytes) /\ path # <<>>
    BY DEF Path
  <2>2. Found(trie, path)
    BY <1>4
  <2> QED
    BY <1>1, <1>2, <1>5, <2>1, <2>2, DetachBlank
<1>6. ~ Addressed(trie) => \E E : Trie(trie', E, {})
  BY <1>3, <1>5
<1> QED
  BY <1>4, <1>6, ChangeServes

LEMMA RemoveNothingServes ==
  ASSUME ServeInv, TrieInv', NEW path, RemoveNothing(path)
  PROVE  ServeInv'
<1>1. PICK X : Trie(trie, 0..adds, X)
  BY DEF ServeInv, TrieInv
<1>2. /\ trie' = Invalidate(trie, 1) /\ saved' = {} /\ at' = 0 /\ UNCHANGED <<uploaded, hashed>>
      /\ reused' = (reused \/ Addressed(trie))
  BY DEF RemoveNothing, Changes
<1>3. ~ Addressed(trie) => Trie(Invalidate(trie, 1), 0..adds, {})
  BY <1>1, InvalidateBlank
<1>4. ~ Addressed(trie) => \E E : Trie(trie', E, {})
  BY <1>2, <1>3
<1> QED
  BY <1>2, <1>4, ChangeServes

LEMMA CalculateServes ==
  ASSUME ServeInv, TrieInv', CalculateSelfAddress
  PROVE  ServeInv'
<1>1. UNCHANGED <<uploaded, saved, reused>> /\ at' = 0
  BY DEF CalculateSelfAddress
<1>2. Readable(uploaded)'
  BY <1>1 DEF ServeInv, Readable
<1>3. CASE trie[1].self # {}
  <2>1. UNCHANGED <<trie, hashed>>
    BY <1>3 DEF CalculateSelfAddress
  <2> QED
    BY <1>1, <1>2, <2>1 DEF ServeInv, Mirrored, Names
<1>4. CASE ~ (trie[1].self # {})
  <2>1. 1 \in DOMAIN trie
    BY DEF ServeInv, TrieInv, Trie
  <2>2. hashed' /\ trie'[1] = trie[1]
    BY <1>4, <2>1 DEF CalculateSelfAddress
  <2> QED
    BY <1>1, <1>2, <2>2 DEF ServeInv
<1> QED
  BY <1>3, <1>4

LEMMA ParentAbove ==
  ASSUME NEW t, NEW E, NEW X, Trie(t, E, X), Standing(t), NEW n \in DOMAIN t
  PROVE  /\ n = 1 => t[n].parent = 0
         /\ t[n].parent # n
<1>1. PICK h \in [Nat -> Nat], top \in Nat : Sound(t, h)
  BY DEF Standing
<1>2. n \in Nat \ {0}
  BY TrieNode
<1>3. CASE n = 1
  BY <1>1, <1>3 DEF Sound, Open
<1>4. CASE n # 1
  <2>1. h[n] < h[t[n].parent]
    BY <1>1, <1>4 DEF Sound, Open
  <2>2. h[n] \in Nat
    BY <1>1, <1>2
  <2> QED
    BY <1>4, <2>1, <2>2
<1> QED
  BY <1>3, <1>4

(* A node that has no address has none above it, if every address names    *)
(* its node as it is.                                                      *)
LEMMA NoneAbove ==
  ASSUME NEW t, NEW E, NEW X, Trie(t, E, X), Standing(t), Mirrored(t),
         NEW n \in DOMAIN t, NEW b \in DOMAIN t[n].forks, t[t[n].forks[b]].self = {}
  PROVE  t[n].self = {}
<1> SUFFICES ASSUME NEW a \in t[n].self PROVE FALSE
  OBVIOUS
<1>1. Names(t, n, a)
  BY DEF Mirrored
<1> QED
  BY <1>1 DEF Names

(* The node n of t gets the chunk it is marshaled to as its address.       *)
LEMMA UploadMirrors ==
  ASSUME NEW t, NEW E, NEW X, Trie(t, E, X), Standing(t), Mirrored(t),
         NEW n \in DOMAIN t, n # 1 => t[n].self = {},
         \A c \in Children(t, n) : t[c].self # {},
         NEW chunk, chunk = Marshal(t, n, Addresses(t)),
         NEW u, DOMAIN u = DOMAIN t, u[n].self = {chunk}, \A m \in DOMAIN t \ {n} : u[m] = t[m],
         u[n].path = t[n].path /\ u[n].entry = t[n].entry /\ u[n].forks = t[n].forks
  PROVE  Mirrored(u)
<1>1. /\ chunk.entry = t[n].entry /\ DOMAIN chunk.forks = DOMAIN t[n].forks
      /\ \A b \in DOMAIN t[n].forks : chunk.forks[b].prefix = t[t[n].forks[b]].path
  BY DEF Marshal
<1>2. \A b \in DOMAIN t[n].forks : chunk.forks[b].address \in t[t[n].forks[b]].self
  <2>1. \A b \in DOMAIN chunk.forks : chunk.forks[b].address \in t[t[n].forks[b]].self
    BY MarshalsCached
  <2> QED
    BY <1>1, <2>1
<1>3. ASSUME NEW m \in DOMAIN t, NEW b \in DOMAIN t[m].forks
      PROVE  /\ t[m].forks[b] \in DOMAIN t \ {1} /\ t[m].forks[b] # m
  <2> DEFINE c == t[m].forks[b]
  <2>1. Child(t, m, b, c)
    BY ForkLeads
  <2>2. c \in DOMAIN t /\ c # 1 /\ t[c].parent = m
    BY <2>1 DEF Child
  <2> HIDE DEF c
  <2>3. c # m
    BY <2>2, ParentAbove
  <2> QED
    BY <2>2, <2>3 DEF c
<1>4. SUFFICES ASSUME NEW m \in DOMAIN t, NEW a \in u[m].self PROVE Names(u, m, a)
  BY DEF Mirrored
<1>5. CASE m = n
  <2>1. a = chunk
    BY <1>4, <1>5
  <2>2. ASSUME NEW b \in DOMAIN t[n].forks
        PROVE  chunk.forks[b].prefix = u[t[n].forks[b]].path /\ chunk.forks[b].address \in u[t[n].forks[b]].self
    <3> DEFINE c == t[n].forks[b]
    <3>1. c \in DOMAIN t \ {n}
      BY <1>3
    <3>2. u[c] = t[c]
      BY <3>1
    <3> QED
      BY <1>1, <1>2, <3>2
  <2> QED
    BY <1>1, <1>5, <2>1, <2>2 DEF Names
<1>6. CASE m # n
  <2>1. u[m] = t[m] /\ a \in t[m].self
    BY <1>4, <1>6
  <2>2. Names(t, m, a)
    BY <2>1 DEF Mirrored
  <2>3. ASSUME NEW b \in DOMAIN t[m].forks
        PROVE  a.forks[b].prefix = u[t[m].forks[b]].path /\ a.forks[b].address \in u[t[m].forks[b]].self
    <3> DEFINE c == t[m].forks[b]
    <3>1. a.forks[b].prefix = t[c].path /\ a.forks[b].address \in t[c].self
      BY <2>2 DEF Names
    <3>2. c \in DOMAIN t \ {1}
      BY <1>3
    <3> HIDE DEF c
    <3>3. c # n
      BY <3>1, <3>2
    <3>4. u[c] = t[c]
      BY <3>2, <3>3
    <3>5. a.forks[b].prefix = u[c].path /\ a.forks[b].address \in u[c].self
      BY <3>1, <3>4
    <3> QED
      BY <3>5 DEF c
  <2> QED
    BY <2>1, <2>2, <2>3 DEF Names
<1> QED
  BY <1>5, <1>6

LEMMA UploadServes ==
  ASSUME ServeInv, TrieInv', Upload
  PROVE  ServeInv'
<1> DEFINE chunk == Marshal(trie, at, Addresses(trie))
<1>1. PICK X : Trie(trie, 0..adds, X)
  BY DEF ServeInv, TrieInv
<1>2. /\ at # 0 /\ Pending(at) = {} /\ uploaded' = uploaded \cup {chunk}
      /\ trie' = [trie EXCEPT ![at].self = {chunk}] /\ at' = trie[at].parent
      /\ saved' = (IF at = 1 THEN {chunk} ELSE {}) /\ UNCHANGED <<hashed, reused>>
  BY DEF Upload, counts, history
<1>3. at \in DOMAIN trie /\ Standing(trie)
  BY <1>2 DEF ServeInv, TrieInv
<1>4. \A b \in DOMAIN chunk.forks : chunk.forks[b].prefix \in ShortPath
  <2>1. SUFFICES ASSUME NEW b \in DOMAIN trie[at].forks PROVE trie[trie[at].forks[b]].path \in ShortPath
    BY DEF Marshal
  <2> DEFINE c == trie[at].forks[b]
  <2>2. Child(trie, at, b, c)
    BY <1>1, <1>3, ForkLeads
  <2> QED
    BY <2>2 DEF Child
<1> HIDE DEF chunk
<1>5. Readable(uploaded)'
  BY <1>2, <1>4 DEF ServeInv, Readable
<1> DEFINE u == [trie EXCEPT ![at].self = {chunk}]
<1>6. /\ DOMAIN u = DOMAIN trie /\ u[at].self = {chunk}
      /\ \A m \in DOMAIN trie \ {at} : u[m] = trie[m]
      /\ u[at].path = trie[at].path /\ u[at].entry = trie[at].entry /\ u[at].forks = trie[at].forks
  <2> DEFINE r == trie[at]
             R == [r EXCEPT !.self = {chunk}]
  <2>1. r \in Node(0..adds, X)
    BY <1>1, <1>3, TrieNode
  <2>2. u = [trie EXCEPT ![at] = R]
    OBVIOUS
  <2> HIDE DEF r
  <2>3. R.self = {chunk} /\ R.path = r.path /\ R.entry = r.entry /\ R.forks = r.forks
    BY <2>1 DEF Node
  <2> HIDE DEF R, u
  <2>4. DOMAIN u = DOMAIN trie /\ u[at] = R /\ \A m \in DOMAIN trie \ {at} : u[m] = trie[m]
    BY <1>1, <1>3, <2>2 DEF Trie
  <2> QED
    BY <2>3, <2>4 DEF r
<1>7. trie' = u
  BY <1>2
<1> HIDE DEF u
<1>8. saved' \subseteq trie'[1].self
  BY <1>2, <1>6, <1>7
<1>9. ASSUME ~ hashed, ~ reused PROVE Mirrored(u) /\ (at' \notin {0, 1} => u[at'].self = {})
  <2>1. Mirrored(trie) /\ (at # 1 => trie[at].self = {})
    BY <1>2, <1>9 DEF ServeInv
  <2>2. \A c \in Children(trie, at) : trie[c].self # {}
    BY <1>2 DEF Pending
  <2>3. Mirrored(u)
    <3>1. chunk = Marshal(trie, at, Addresses(trie))
      BY DEF chunk
    <3> QED
      BY <1>1, <1>3, <1>6, <2>1, <2>2, <3>1, UploadMirrors
  <2>4. ASSUME at' \notin {0, 1} PROVE u[at'].self = {}
    <3> DEFINE p == trie[at].parent
    <3>1. p # at /\ at # 1
      BY <1>1, <1>2, <1>3, <2>4, ParentAbove
    <3>2. p \in DOMAIN trie /\ at \in Children(trie, p)
      BY <1>1, <1>3, <3>1, ParentKnown
    <3>3. trie[at].self = {}
      BY <2>1, <3>1
    <3>4. trie[p].self = {}
      <4> HIDE DEF p
      <4>1. PICK b \in DOMAIN trie[p].forks : trie[p].forks[b] = at
        BY <3>2 DEF Children
      <4>2. trie[trie[p].forks[b]].self = {}
        BY <3>3, <4>1
      <4> QED
        BY <1>1, <1>3, <2>1, <3>2, <4>2, NoneAbove
    <3>5. u[p] = trie[p]
      BY <1>6, <3>1, <3>2
    <3> QED
      BY <1>2, <3>4, <3>5
  <2> QED
    BY <2>3, <2>4
<1>10. ASSUME ~ hashed', ~ reused'
       PROVE  Mirrored(trie)' /\ (at' \notin {0, 1} => trie'[at'].self = {})
  <2>1. Mirrored(u) /\ (at' \notin {0, 1} => u[at'].self = {})
    BY <1>2, <1>9, <1>10
  <2>2. Mirrored(trie')
    BY <1>7, <2>1
  <2>3. Mirrored(trie)'
    BY <2>2 DEF Mirrored, Names
  <2> QED
    BY <1>7, <2>1, <2>3
<1> QED
  BY <1>5, <1>8, <1>10 DEF ServeInv

LEMMA ServeInvStep ==
  ASSUME ServeInv, [Next]_vars
  PROVE  ServeInv'
<1>1. TrieInv'
  BY TrieInvStep DEF ServeInv
<1>2. Paths \subseteq Path
  BY ConstantsAssumption DEF Path
<1>3. ASSUME NEW path \in Paths, AddFork(path) PROVE ServeInv'
  BY <1>1, <1>2, <1>3, AddForkServes
<1>4. ASSUME NEW path \in Paths, RemoveFork(path) PROVE ServeInv'
  BY <1>1, <1>2, <1>4, RemoveForkServes
<1>5. ASSUME NEW path \in Paths, RemoveNothing(path) PROVE ServeInv'
  BY <1>1, <1>5, RemoveNothingServes
<1>6. CASE CalculateSelfAddress
  BY <1>1, <1>6, CalculateServes
<1>7. CASE Upload
  BY <1>1, <1>7, UploadServes
<1>8. CASE SaveRecursively
  <2>1. at' = 1 /\ saved' = {} /\ UNCHANGED <<trie, uploaded, hashed, reused>>
    BY <1>8 DEF SaveRecursively, history
  <2> QED
    BY <1>1, <2>1 DEF ServeInv, Mirrored, Names, Readable
<1>9. CASE Descend
  <2>1. trie[at'].self = {} /\ UNCHANGED <<trie, uploaded, saved, hashed, reused>>
    BY <1>9 DEF Descend, Pending, history
  <2> QED
    BY <1>1, <2>1 DEF ServeInv, Mirrored, Names, Readable
<1>10. CASE UploadFails
  <2>1. at' = 0 /\ UNCHANGED <<trie, uploaded, saved, hashed, reused>>
    BY <1>10 DEF UploadFails, history
  <2> QED
    BY <1>1, <2>1 DEF ServeInv, Mirrored, Names, Readable
<1>11. CASE UNCHANGED vars
  <2>1. UNCHANGED <<trie, at, uploaded, saved, hashed, reused>>
    BY <1>11 DEF vars, history
  <2> QED
    BY <1>1, <2>1 DEF ServeInv, Mirrored, Names, Readable
<1> QED
  BY <1>3, <1>4, <1>5, <1>6, <1>7, <1>8, <1>9, <1>10, <1>11 DEF Next

LEMMA ServeInvServes ==
  ASSUME ServeInv
  PROVE  SavedServes
<1> SUFFICES ASSUME ~ hashed, ~ reused, NEW root \in saved, NEW path \in Paths
             PROVE  Served(root, path) = EntryAt(trie, path)
  BY DEF SavedServes
<1>1. PICK X : Trie(trie, 0..adds, X) /\ (~hashed => X \subseteq uploaded)
  BY DEF ServeInv, TrieInv
<1>2. Standing(trie) /\ Mirrored(trie) /\ Readable(uploaded) /\ root \in trie[1].self
  BY DEF ServeInv, TrieInv
<1>3. path \in Seq(Bytes) /\ X \subseteq uploaded
  BY <1>1, ConstantsAssumption
<1> QED
  BY <1>1, <1>2, <1>3, ReadsTrie

(* A save that succeeds, the first time or after any that failed half-way, *)
(* returns a manifest in which a reader of the uploaded chunks finds what  *)
(* the trie holds, as long as no address was calculated without uploading, *)
(* and nothing was changed once it had one.                                *)
THEOREM SavesServed == Spec => []SavedServes
<1>1. Init => ServeInv
  BY ServeInvInit
<1>2. ServeInv /\ [Next]_vars => ServeInv'
  BY ServeInvStep
<1>3. ServeInv => SavedServes
  BY ServeInvServes
<1> QED
  BY <1>1, <1>2, <1>3, PTL DEF Spec

-----------------------------------------------------------------------------
(* The upload of a directory.                                              *)

Sent(i, k) == \A j \in 1..k : <<todo[i].data, j>> \in stored

Block == UNION {{c[i] : i \in DOMAIN c} : c \in Contents}

LEMMA ContentsBlocks ==
  ASSUME NEW c \in Contents
  PROVE  c \in Seq(Block)
<1> DEFINE S == {c[i] : i \in DOMAIN c}
<1>1. c \in Seq(S)
  BY WalkAssumption
<1>2. S \subseteq Block
  BY DEF Block
<1> HIDE DEF S
<1> QED
  BY <1>1, <1>2

LEMMA ContentsLength ==
  ASSUME NEW c \in Contents
  PROVE  Len(c) \in Nat /\ DOMAIN c = 1..Len(c)
<1> DEFINE S == {c[i] : i \in DOMAIN c}
<1>1. c \in Seq(S)
  BY WalkAssumption
<1> HIDE DEF S
<1> QED
  BY <1>1, LenProperties

(* To set the data of one entry.                                           *)
Setting(t, n, d, u) == u = [t EXCEPT ![n].data = d]
HasSet(t, n, d, u) ==
  /\ u \in Seq([path : Paths, data : Seq(Block)]) /\ Len(u) = Len(t)
  /\ DOMAIN u = DOMAIN t
  /\ \A i \in DOMAIN t : u[i].path = t[i].path
  /\ \A i \in DOMAIN t \ {n} : u[i] = t[i]
  /\ u[n].data = d

LEMMA SetData ==
  ASSUME NEW t \in Seq([path : Paths, data : Seq(Block)]), NEW n \in 1..Len(t), NEW d \in Seq(Block),
         NEW u, Setting(t, n, d, u)
  PROVE  HasSet(t, n, d, u)
<1> DEFINE R == [path : Paths, data : Seq(Block)]
           e == [t[n] EXCEPT !.data = d]
<1>1. t \in Seq(R) /\ t[n] \in R
  <2>1. t \in Seq(R)
    OBVIOUS
  <2> HIDE DEF R
  <2> QED
    BY <2>1, ElementOfSeq
<1>2. e \in R /\ e.path = t[n].path /\ e.data = d
  BY <1>1
<1>3. u = [t EXCEPT ![n] = e]
  BY DEF Setting
<1> HIDE DEF R, e
<1>4. DOMAIN t = 1..Len(t) /\ Len(t) \in Nat
  BY <1>1
<1>a. [t EXCEPT ![n] = e] \in Seq(R)
  BY <1>1, <1>2, ExceptSeq
<1>5. u \in Seq(R)
  BY <1>3, <1>a, Zenon
<1>6. DOMAIN u = DOMAIN t /\ u[n] = e /\ \A i \in DOMAIN t \ {n} : u[i] = t[i]
  BY <1>3, <1>4
<1>7. Len(u) = Len(t)
  BY <1>4, <1>5, <1>6
<1>8. \A i \in DOMAIN t : u[i].path = t[i].path
  BY <1>2, <1>6
<1> QED
  BY <1>2, <1>4, <1>5, <1>6, <1>7, <1>8 DEF R, HasSet

(* The i-th entry is added as number i, after its chunks.                  *)
UploadInv ==
  /\ TrieInv
  /\ disk \in [Paths -> Contents \cup {None}]
  /\ todo \in Seq([path : Paths, data : Seq(Block)])
  /\ item \in Nat \ {0} /\ part \in Nat
  /\ step \in {"start", "read", "load", "header", "open", "copy"} => adds = 0
  /\ step \in {"start", "read", "load"} => part = 0
  /\ step = "load" => item <= Len(todo) /\ disk[todo[item].path] # None
  /\ step = "start" => item = 1
  /\ step = "chunks" => item = adds + 1 /\ Sent(item, part)
  /\ \A i \in 1..adds : Chunks(todo[i].data) \subseteq stored

LEMMA UploadInvInit == UploadInit => UploadInv
<1> SUFFICES ASSUME UploadInit PROVE UploadInv
  OBVIOUS
<1>1. TrieInv
  BY TrieInvInit DEF UploadInit
<1>2. adds = 0 /\ 1..0 = {}
  BY DEF UploadInit, Init
<1>3. disk \in [Paths -> Contents \cup {None}]
  BY DEF UploadInit
<1>4. todo \in Seq([path : Paths, data : Seq(Block)])
  <2> DEFINE R == [path : Paths, data : Seq(Block)]
  <2>1. Entries \subseteq R
    BY ContentsBlocks DEF Entries
  <2>2. CASE Directory
    <3>1. todo = <<>>
      BY <2>2 DEF UploadInit
    <3> QED
      BY <3>1
  <2>3. CASE ~ Directory
    <3>1. PICK m \in 0..MaxAdds : todo \in [1..m -> Entries]
      BY <2>3 DEF UploadInit
    <3>2. m \in Nat
      BY ConstantsAssumption
    <3> HIDE DEF R
    <3>3. todo \in [1..m -> R]
      BY <2>1, <3>1
    <3>4. todo \in Seq(R)
      BY <3>2, <3>3
    <3> QED
      BY <3>4 DEF R
  <2> QED
    BY <2>2, <2>3
<1>5. item = 1 /\ part = 0 /\ step = "start"
  BY DEF UploadInit
<1> QED
  BY <1>1, <1>2, <1>3, <1>4, <1>5 DEF UploadInv

(* The steps that leave the manifest and the chunks of files alone.        *)
Apart ==
  \/ UNCHANGED <<step, item>>
  \/ step' = "done"
  \/ step \in {"header", "open", "copy"} /\ step' \in {"header", "open", "copy"}

LEMMA ApartKeeps ==
  ASSUME UploadInv, UNCHANGED <<vars, todo, part, stored>>,
         disk' \in [Paths -> Contents \cup {None}], item' \in Nat \ {0}, Apart,
         step = "load" => disk'[todo[item].path] # None
  PROVE  UploadInv'
<1>1. TrieInv'
  BY TrieInvSame DEF UploadInv
<1>2. UNCHANGED <<adds, todo, part, stored>>
  BY DEF vars, counts
<1>3. \A i \in 1..adds' : (Chunks(todo[i].data) \subseteq stored)'
  BY <1>2 DEF UploadInv, Chunks
<1>4. CASE UNCHANGED <<step, item>>
  <2>1. step = "chunks" => Sent(item, part)'
    BY <1>2, <1>4 DEF UploadInv, Sent
  <2> QED
    BY <1>1, <1>2, <1>3, <1>4, <2>1 DEF UploadInv
<1>5. CASE step' = "done"
  BY <1>1, <1>2, <1>3, <1>5 DEF UploadInv
<1>6. CASE step \in {"header", "open", "copy"} /\ step' \in {"header", "open", "copy"}
  BY <1>1, <1>2, <1>3, <1>6 DEF UploadInv
<1> QED
  BY <1>4, <1>5, <1>6 DEF Apart

LEMMA StartKeeps ==
  ASSUME UploadInv, Start
  PROVE  UploadInv'
<1>1. UNCHANGED <<vars, disk, item, part, stored>> /\ step = "start" /\ step' \in {"read", "chunks", "header"}
  BY DEF Start, inputs, work
<1>2. TrieInv' /\ adds' = 0 /\ 1..0 = {}
  BY <1>1, TrieInvSame DEF UploadInv, vars, counts
<1>3. item = 1 /\ part = 0
  BY <1>1 DEF UploadInv
<1>4. todo' \in Seq([path : Paths, data : Seq(Block)])
  <2> DEFINE R == [path : Paths, data : Seq(Block)]
             S == {i \in DOMAIN Order : disk[Order[i]] # None}
  <2>a. PICK w \in Walks(disk) :
          todo' = IF Directory THEN [i \in DOMAIN w |-> [path |-> Order[w[i]], data |-> <<>>]] ELSE todo
    BY DEF Start
  <2>1. w \in SetToSeqs(S)
    BY DEF Walks
  <2>2. Order \in Seq(Paths)
    BY WalkAssumption
  <2>3. DOMAIN Order = 1..Len(Order) /\ Len(Order) \in Nat /\ \A i \in DOMAIN Order : Order[i] \in Paths
    BY <2>2
  <2>4. IsFiniteSet(S)
    <3>1. IsFiniteSet(1..Len(Order))
      BY <2>3, FS_Interval
    <3>2. S \subseteq 1..Len(Order)
      BY <2>3
    <3> HIDE DEF S
    <3> QED
      BY <3>1, <3>2, FS_Subset
  <2> DEFINE n == Cardinality(S)
  <2>5. n \in Nat
    BY <2>4, FS_CardinalityType
  <2>6. w \in [1..n -> S]
    <3> HIDE DEF S
    <3> QED
      BY <2>1 DEF SetToSeqs
  <2> HIDE DEF n
  <2>7. CASE Directory
    <3> DEFINE r(i) == [path |-> Order[w[i]], data |-> <<>>]
    <3>1. ASSUME NEW i \in 1..n PROVE r(i) \in R
      <4>1. w[i] \in DOMAIN Order
        BY <2>6
      <4>2. Order[w[i]] \in Paths
        BY <2>3, <4>1
      <4> QED
        BY <4>2
    <3>2. DOMAIN w = 1..n
      BY <2>6
    <3>3. todo' = [i \in 1..n |-> r(i)]
      BY <2>a, <2>7, <3>2
    <3> HIDE DEF r, R
    <3>4. todo' \in [1..n -> R]
      BY <3>1, <3>3
    <3>5. todo' \in Seq(R)
      BY <2>5, <3>4
    <3> QED
      BY <3>5 DEF R
  <2>8. CASE ~ Directory
    BY <2>a, <2>8 DEF UploadInv
  <2> QED
    BY <2>7, <2>8
<1>5. disk' \in [Paths -> Contents \cup {None}] /\ item' = 1 /\ part' = 0
  BY <1>1, <1>3 DEF UploadInv
<1>6. Sent(item, part)'
  BY <1>5 DEF Sent
<1>7. \A i \in 1..adds' : (Chunks(todo[i].data) \subseteq stored)'
  BY <1>2
<1> QED
  BY <1>1, <1>2, <1>4, <1>5, <1>6, <1>7 DEF UploadInv

(* Reading sets the data of an entry.                                      *)
LEMMA ReadSets ==
  ASSUME UploadInv, ReadFile
  PROVE  /\ DOMAIN todo' = DOMAIN todo /\ Len(todo') = Len(todo) /\ DOMAIN todo = 1..Len(todo)
         /\ todo' \in Seq([path : Paths, data : Seq(Block)]) /\ item \in 1..Len(todo)
         /\ \A i \in DOMAIN todo : todo'[i].path = todo[i].path
         /\ \A i \in DOMAIN todo \ {item} : todo'[i] = todo[i]
         /\ LET file == disk[todo[item].path] IN
            \/ /\ file = None /\ UNCHANGED <<todo, item>> /\ step = "read" /\ step' = "done"
               /\ result' = "error"
            \/ /\ file # None /\ step = "read" /\ step' = "load" /\ UNCHANGED <<item, result>>
               /\ todo'[item].data = <<>>
            \/ /\ file # None /\ step = "load" /\ UNCHANGED <<step, item, result>>
               /\ Len(todo[item].data) < Len(file)
               /\ todo'[item].data = Append(todo[item].data, file[Len(todo[item].data) + 1])
            \/ /\ file # None /\ step = "load" /\ step' = "read" /\ item' = item + 1
               /\ UNCHANGED <<todo, result>> /\ Len(todo[item].data) >= Len(file)
<1> DEFINE R == [path : Paths, data : Seq(Block)]
           file == disk[todo[item].path]
           data == todo[item].data
<1>1. /\ todo \in Seq(R) /\ item \in Nat \ {0} /\ item <= Len(todo)
      /\ disk \in [Paths -> Contents \cup {None}] /\ (step = "load" => file # None)
  BY DEF UploadInv, ReadFile, OpenToRead, ReadBlock, EndOfFile
<1>2. item \in 1..Len(todo) /\ DOMAIN todo = 1..Len(todo) /\ Len(todo) \in Nat /\ todo[item] \in R
  <2> HIDE DEF R
  <2>1. item \in 1..Len(todo) /\ DOMAIN todo = 1..Len(todo) /\ Len(todo) \in Nat
    BY <1>1
  <2> QED
    BY <1>1, <2>1, ElementOfSeq
<1>3. todo[item].path \in Paths /\ data \in Seq(Block) /\ Len(data) \in Nat
  BY <1>2, LenProperties
<1>4. file # None => file \in Seq(Block) /\ Len(file) \in Nat
  <2>1. file # None => file \in Contents
    BY <1>1, <1>3
  <2> HIDE DEF file
  <2>2. \A c \in Contents : c \in Seq(Block) /\ Len(c) \in Nat
    BY ContentsBlocks, ContentsLength
  <2> QED
    BY <2>1, <2>2
<1>5. CASE OpenToRead /\ file = None
  BY <1>1, <1>2, <1>5 DEF OpenToRead, Returns, work
<1>6. CASE OpenToRead /\ file # None
  <2>1. /\ todo' = [todo EXCEPT ![item].data = <<>>] /\ step = "read" /\ step' = "load"
        /\ UNCHANGED <<item, result>>
    BY <1>6 DEF OpenToRead, work
  <2>2. <<>> \in Seq(Block)
    OBVIOUS
  <2> DEFINE d == <<>>
  <2> HIDE DEF R, data, file, d
  <2>3. PICK t, n, c, u : t = todo /\ n = item /\ c = d /\ u = todo'
    OBVIOUS
  <2>4. t \in Seq(R) /\ n \in 1..Len(t) /\ c \in Seq(Block) /\ Setting(t, n, c, u)
    BY <1>1, <1>2, <2>1, <2>2, <2>3 DEF d, Setting
  <2>5. HasSet(t, n, c, u)
    BY <2>4, SetData DEF R
  <2> QED
    BY <1>2, <1>6, <2>1, <2>3, <2>5 DEF d, R, file, HasSet
<1>7. CASE ReadBlock
  <2>1. /\ todo' = [todo EXCEPT ![item].data = Append(data, file[Len(data) + 1])] /\ step = "load"
        /\ UNCHANGED <<step, item, result>> /\ Len(data) < Len(file) /\ file # None
    BY <1>1, <1>7 DEF ReadBlock, work
  <2> DEFINE d == Append(data, file[Len(data) + 1])
  <2>2. d \in Seq(Block)
    <3>1. Len(data) + 1 \in 1..Len(file)
      BY <1>3, <1>4, <2>1
    <3> HIDE DEF data, file
    <3>2. file[Len(data) + 1] \in Block
      BY <1>4, <2>1, <3>1, ElementOfSeq
    <3> QED
      BY <1>3, <3>2
  <2> HIDE DEF R, data, file, d
  <2>3. PICK t, n, c, u : t = todo /\ n = item /\ c = d /\ u = todo'
    OBVIOUS
  <2>4. t \in Seq(R) /\ n \in 1..Len(t) /\ c \in Seq(Block) /\ Setting(t, n, c, u)
    BY <1>1, <1>2, <2>1, <2>2, <2>3 DEF d, Setting
  <2>5. HasSet(t, n, c, u)
    BY <2>4, SetData DEF R
  <2> QED
    BY <1>2, <2>1, <2>3, <2>5 DEF d, R, file, data, HasSet
<1>8. CASE EndOfFile
  <2>1. /\ step = "load" /\ step' = "read" /\ item' = item + 1 /\ UNCHANGED <<todo, result>>
        /\ Len(data) >= Len(file) /\ file # None
    BY <1>1, <1>8 DEF EndOfFile
  <2> HIDE DEF R
  <2>2. todo' \in Seq(R)
    BY <1>1, <2>1
  <2> QED
    BY <1>2, <2>1, <2>2 DEF R
<1> QED
  BY <1>5, <1>6, <1>7, <1>8 DEF ReadFile

LEMMA ReadKeeps ==
  ASSUME UploadInv, ReadFile
  PROVE  UploadInv'
<1>1. UNCHANGED <<vars, disk, part, stored>> /\ step \in {"read", "load"}
  BY DEF ReadFile, OpenToRead, ReadBlock, EndOfFile, inputs, work
<1>2. TrieInv' /\ adds' = 0 /\ 1..0 = {} /\ part' = 0
  BY <1>1, TrieInvSame DEF UploadInv, vars, counts
<1>3. todo' \in Seq([path : Paths, data : Seq(Block)]) /\ step' \in {"read", "load", "done"}
  BY ReadSets
<1>4. item' \in Nat \ {0}
  <2>1. item \in Nat \ {0} /\ item' \in {item, item + 1}
    BY ReadSets DEF UploadInv
  <2> QED
    BY <2>1
<1>5. step' = "load" => item' <= Len(todo') /\ disk'[todo'[item'].path] # None
  <2>1. SUFFICES ASSUME step' = "load" PROVE item' <= Len(todo') /\ disk'[todo'[item'].path] # None
    OBVIOUS
  <2>2. item' = item /\ disk[todo[item].path] # None
    BY <2>1, ReadSets
  <2>3. todo'[item].path = todo[item].path /\ item <= Len(todo')
    BY ReadSets
  <2> QED
    BY <1>1, <2>2, <2>3
<1>6. \A i \in 1..adds' : (Chunks(todo[i].data) \subseteq stored)'
  BY <1>2
<1>7. disk' \in [Paths -> Contents \cup {None}]
  BY <1>1 DEF UploadInv
<1> QED
  BY <1>2, <1>3, <1>4, <1>5, <1>6, <1>7 DEF UploadInv

LEMMA AllReadKeeps ==
  ASSUME UploadInv, AllRead
  PROVE  UploadInv'
<1>1. UNCHANGED <<vars, disk, todo, part, stored>> /\ step = "read" /\ step' = "chunks" /\ item' = 1
  BY DEF AllRead, inputs
<1>2. TrieInv' /\ adds' = 0 /\ 1..0 = {} /\ part' = 0
  BY <1>1, TrieInvSame DEF UploadInv, vars, counts
<1>3. Sent(item, part)'
  BY <1>2 DEF Sent
<1>4. \A i \in 1..adds' : (Chunks(todo[i].data) \subseteq stored)'
  BY <1>2
<1> QED
  BY <1>1, <1>2, <1>3, <1>4 DEF UploadInv

LEMMA SendKeeps ==
  ASSUME UploadInv, SendChunk
  PROVE  UploadInv'
<1>1. /\ UNCHANGED <<vars, disk, todo, step, item>> /\ step = "chunks"
      /\ stored' = stored \cup {<<todo[item].data, part + 1>>} /\ part' = part + 1
  BY DEF SendChunk, inputs
<1>2. TrieInv' /\ adds' = adds
  BY <1>1, TrieInvSame DEF UploadInv, vars, counts
<1>3. part \in Nat /\ Sent(item, part)
  BY <1>1 DEF UploadInv
<1>4. Sent(item, part)'
  <2>1. SUFFICES ASSUME NEW j \in 1..(part + 1) PROVE <<todo[item].data, j>> \in stored'
    BY <1>1 DEF Sent
  <2>2. CASE j = part + 1
    BY <1>1, <2>2
  <2>3. CASE j # part + 1
    <3>1. j \in 1..part
      BY <1>3, <2>3
    <3> QED
      BY <1>1, <1>3, <3>1 DEF Sent
  <2> QED
    BY <2>2, <2>3
<1>5. \A i \in 1..adds' : (Chunks(todo[i].data) \subseteq stored)'
  <2>1. stored \subseteq stored'
    BY <1>1
  <2> QED
    BY <1>1, <1>2, <2>1 DEF UploadInv, Chunks
<1>6. part' \in Nat
  BY <1>1, <1>3
<1> QED
  BY <1>1, <1>2, <1>4, <1>5, <1>6 DEF UploadInv

LEMMA ChunksCounted ==
  ASSUME NEW data, Len(data) \in Nat
  PROVE  LET n == IF Len(data) > 1 THEN Len(data) + 1 ELSE 1 IN
         n \in Nat /\ Chunks(data) = {<<data, i>> : i \in 1..n} /\ Cardinality(Chunks(data)) = n
<1> DEFINE n == IF Len(data) > 1 THEN Len(data) + 1 ELSE 1
           C == {<<data, i>> : i \in 1..n}
           f == [i \in 1..n |-> <<data, i>>]
<1>1. n \in Nat
  OBVIOUS
<1>2. Chunks(data) = C
  BY DEF Chunks
<1> HIDE DEF n
<1>3. IsFiniteSet(1..n) /\ Cardinality(1..n) = n
  BY <1>1, FS_Interval
<1>4. f \in Bijection(1..n, C)
  <2>1. f \in [1..n -> C]
    OBVIOUS
  <2>2. \A i, j \in 1..n : f[i] = f[j] => i = j
    OBVIOUS
  <2>3. \A c \in C : \E i \in 1..n : f[i] = c
    OBVIOUS
  <2> QED
    <3>1. DOMAIN f = 1..n
      BY <2>1
    <3> HIDE DEF f, C
    <3>2. f \in Injection(1..n, C)
      BY <2>1, <2>2, <3>1 DEF Injection, IsInjective
    <3>3. f \in Surjection(1..n, C)
      BY <2>1, <2>3 DEF Surjection
    <3> QED
      BY <3>2, <3>3 DEF Bijection
<1> HIDE DEF C, f
<1>5. Cardinality(C) = n
  BY <1>3, <1>4, FS_Bijection DEF ExistsBijection
<1> QED
  BY <1>1, <1>2, <1>5 DEF C, n

LEMMA AddEntryKeeps ==
  ASSUME UploadInv, AddEntry
  PROVE  UploadInv'
<1>1. /\ UNCHANGED <<disk, todo, step, stored>> /\ step = "chunks" /\ AddFork(todo[item].path)
      /\ item <= Len(todo) /\ part = Cardinality(Chunks(todo[item].data))
      /\ item' = item + 1 /\ part' = 0
  BY DEF AddEntry, inputs
<1> DEFINE R == [path : Paths, data : Seq(Block)]
           data == todo[item].data
<1>2. todo \in Seq(R) /\ item \in Nat \ {0} /\ adds \in Nat /\ item = adds + 1 /\ Sent(item, part)
  BY <1>1 DEF UploadInv, TrieInv
<1>3. todo[item] \in R
  <2>1. item \in 1..Len(todo)
    BY <1>1, <1>2
  <2> QED
    BY <1>2, <2>1, ElementOfSeq
<1>4. todo[item].path \in Seq(Bytes) /\ data \in Seq(Block)
  BY <1>3, ConstantsAssumption
<1>5. TrieInv' /\ adds' = adds + 1
  BY <1>1, <1>4, AddForkKeeps DEF UploadInv, AddFork
<1>6. Len(data) \in Nat
  BY <1>4, LenProperties
<1>7. Chunks(data) \subseteq stored
  <2> HIDE DEF data
  <2>1. PICK n \in Nat : Chunks(data) = {<<data, i>> : i \in 1..n} /\ Cardinality(Chunks(data)) = n
    BY <1>6, ChunksCounted
  <2>2. part = n
    BY <1>1, <2>1 DEF data
  <2>3. \A j \in 1..n : <<data, j>> \in stored
    BY <1>2, <2>2 DEF Sent, data
  <2> QED
    BY <2>1, <2>3
<1>8. ASSUME NEW i \in 1..adds' PROVE (Chunks(todo[i].data) \subseteq stored)'
  <2>1. CASE i = item
    <3>1. Chunks(todo[i].data) \subseteq stored
      BY <1>7, <2>1
    <3> QED
      BY <1>1, <3>1 DEF Chunks
  <2>2. CASE i # item
    <3>1. i \in 1..adds
      BY <1>2, <1>5, <2>2
    <3>2. Chunks(todo[i].data) \subseteq stored
      BY <3>1 DEF UploadInv
    <3> QED
      BY <1>1, <3>2 DEF Chunks
  <2> QED
    BY <2>1, <2>2
<1>9. Sent(item, part)'
  BY <1>1 DEF Sent
<1>10. item' = adds' + 1 /\ item' \in Nat \ {0} /\ step' = "chunks"
  BY <1>1, <1>2, <1>5
<1> QED
  BY <1>1, <1>5, <1>8, <1>9, <1>10 DEF UploadInv

(* The saving starts, and goes on.                                         *)
LEMMA SavingKeeps ==
  ASSUME UploadInv, SaveManifest \/ SaveNode
  PROVE  UploadInv'
<1>1. /\ UNCHANGED <<disk, todo, item, part, stored>> /\ step \in {"chunks", "save"}
      /\ step' \in {"save", "done"}
  BY DEF SaveManifest, SaveNode, inputs, work, Returns
<1>2. SaveRecursively \/ Descend \/ Upload \/ UploadFails
  BY DEF SaveManifest, SaveNode
<1>3. TrieInv' /\ adds' = adds
  <2>1. TrieInv
    BY DEF UploadInv
  <2>2. TrieInv'
    BY <1>2, <2>1, SaveKeeps, DescendKeeps, UploadKeeps, UploadFailsKeeps
  <2>3. adds' = adds
    BY <1>2 DEF SaveRecursively, Descend, Upload, UploadFails, counts
  <2> QED
    BY <2>2, <2>3
<1>4. \A i \in 1..adds' : (Chunks(todo[i].data) \subseteq stored)'
  BY <1>1, <1>3 DEF UploadInv, Chunks
<1> QED
  BY <1>1, <1>3, <1>4 DEF UploadInv

LEMMA WritesKeep ==
  ASSUME UploadInv, Writes
  PROVE  UploadInv'
<1>1. UNCHANGED <<vars, disk, todo, part, stored>>
  BY DEF Writes, WriteHeader, OpenFile, WriteBlock, FileWritten, CloseArchive, inputs, work
<1>2. item' \in {item, item + 1} /\ item \in Nat \ {0}
  BY DEF Writes, WriteHeader, OpenFile, WriteBlock, FileWritten, CloseArchive, Fails, work, UploadInv
<1>3. step \in {"header", "open", "copy"} /\ step' \in {"header", "open", "copy", "done"}
  BY DEF Writes, WriteHeader, OpenFile, WriteBlock, FileWritten, CloseArchive, Fails
<1>4. disk' \in [Paths -> Contents \cup {None}] /\ item' \in Nat \ {0}
  BY <1>1, <1>2 DEF UploadInv
<1> QED
  BY <1>1, <1>3, <1>4, ApartKeeps DEF Apart

LEMMA OthersKeep ==
  ASSUME UploadInv,
         ChunkFails \/ MakeRequest \/ NoRequest \/ Answer \/ Abort \/ RequestFails \/ UserEdits
  PROVE  UploadInv'
<1>1. UNCHANGED <<vars, todo, item, part, stored>> /\ (UNCHANGED step \/ step' = "done")
  BY DEF ChunkFails, Abandons, Returns, MakeRequest, NoRequest, Answer, Abort, RequestFails, UserEdits, work
<1>2. disk' \in [Paths -> Contents \cup {None}]
  BY DEF ChunkFails, MakeRequest, NoRequest, Answer, Abort, RequestFails, UserEdits, inputs, UploadInv
<1>3. step = "load" => disk'[todo[item].path] # None
  <2>1. SUFFICES ASSUME step = "load" PROVE disk'[todo[item].path] # None
    OBVIOUS
  <2>2. disk[todo[item].path] # None /\ disk \in [Paths -> Contents \cup {None}]
    BY <2>1 DEF UploadInv
  <2>3. CASE UserEdits
    <3>1. PICK p \in Paths, c \in Contents \cup {None} :
            disk' = [disk EXCEPT ![p] = c] /\ ~ (c = None /\ step \in {"copy", "load"} /\ todo[item].path = p)
      BY <2>3 DEF UserEdits
    <3> QED
      BY <2>1, <2>2, <3>1
  <2>4. CASE ~ UserEdits
    BY <2>2, <2>4 DEF ChunkFails, MakeRequest, NoRequest, Answer, Abort, RequestFails, inputs
  <2> QED
    BY <2>3, <2>4
<1> QED
  BY <1>1, <1>2, <1>3, ApartKeeps DEF Apart, UploadInv

LEMMA UploadInvStep == UploadInv /\ [UploadNext]_upVars => UploadInv'
<1> SUFFICES ASSUME UploadInv, [UploadNext]_upVars PROVE UploadInv'
  OBVIOUS
<1>1. CASE Streams
  BY <1>1, ReadKeeps, AllReadKeeps, SendKeeps, OthersKeep, AddEntryKeeps, SavingKeeps DEF Streams
<1>2. CASE Start
  BY <1>2, StartKeeps
<1>3. CASE Writes
  BY <1>3, WritesKeep
<1>4. CASE MakeRequest \/ NoRequest \/ Answer \/ Abort \/ RequestFails \/ UserEdits
  BY <1>4, OthersKeep
<1>5. CASE UNCHANGED upVars
  <2>1. UNCHANGED <<vars, disk, todo, item, part, stored, step>>
    BY <1>5 DEF upVars, inputs, work
  <2> QED
    BY <2>1, ApartKeeps DEF Apart, UploadInv
<1> QED
  BY <1>1, <1>2, <1>3, <1>4, <1>5 DEF UploadNext, Proceeds

(* A node of the manifest that is uploaded refers to a file all of whose   *)
(* chunks were sent before, however the upload ends.                       *)
THEOREM FilesFirst == UploadSpec => []FilesBeforeManifest
<1>1. UploadInv => FilesBeforeManifest
  <2>1. SUFFICES ASSUME UploadInv, NEW chunk \in uploaded, chunk.entry # NoEntry
                 PROVE  Chunks(todo[chunk.entry].data) \subseteq stored
    BY DEF UploadInv, TrieInv, FilesBeforeManifest
  <2>2. chunk.entry \in 0..adds /\ adds \in Nat
    BY <2>1 DEF UploadInv, TrieInv
  <2>3. chunk.entry \in 1..adds
    BY <2>1, <2>2 DEF NoEntry
  <2> QED
    BY <2>1, <2>3 DEF UploadInv
<1> QED
  BY <1>1, UploadInvInit, UploadInvStep, PTL DEF UploadSpec

(* A step of the upload is one of the manifest, or leaves it alone.        *)
LEMMA UploadMoves ==
  ASSUME UploadInv, [UploadNext]_upVars
  PROVE  [Next]_vars
<1>1. CASE AddEntry
  <2>1. step = "chunks" /\ AddFork(todo[item].path) /\ item <= Len(todo)
    BY <1>1 DEF AddEntry
  <2>2. item \in 1..Len(todo) /\ todo \in Seq([path : Paths, data : Seq(Block)])
    BY <2>1 DEF UploadInv
  <2>3. todo[item] \in [path : Paths, data : Seq(Block)]
    BY <2>2, ElementOfSeq
  <2>4. todo[item].path \in Paths
    BY <2>3
  <2> QED
    BY <2>1, <2>4 DEF Next
<1>2. CASE SaveManifest \/ SaveNode
  BY <1>2 DEF SaveManifest, SaveNode, Next
<1>3. CASE UNCHANGED vars
  BY <1>3
<1>4. AddEntry \/ SaveManifest \/ SaveNode \/ UNCHANGED vars
  BY DEF UploadNext, Proceeds, Start, Streams, ReadFile, OpenToRead, ReadBlock, EndOfFile,
         AllRead, SendChunk, ChunkFails, Writes,
         WriteHeader, OpenFile, WriteBlock, FileWritten, CloseArchive, MakeRequest, NoRequest,
         Answer, Abort, RequestFails, UserEdits, upVars
<1> QED
  BY <1>1, <1>2, <1>3, <1>4

(* The trie of an upload is used as Mantaray says.                         *)
THEOREM UploadUsesManifest == UploadSpec => Spec
<1>1. UploadInit => Init
  BY DEF UploadInit
<1>2. UploadInv /\ [UploadNext]_upVars => [Next]_vars
  BY UploadMoves
<1> QED
  BY <1>1, <1>2, UploadInvInit, UploadInvStep, PTL DEF UploadSpec, Spec

-----------------------------------------------------------------------------
(* What an upload that succeeds leads to.                                  *)
Streaming == method \in {"StreamDirectory", "StreamCollectionEntries"}
Versions(path) == Had(path) \ {None}

(* The entries of a walk: none comes after one whose path it starts.       *)
Sorted == \A i, k \in DOMAIN todo : i < k => ~ IsPrefix(todo[k].path, todo[i].path)
Listed(p) == \E i \in DOMAIN todo : todo[i].path = p

(* What was seen of the files, and which of them the upload has to do.     *)
SeenInv ==
  /\ method \in {"UploadCollection", "UploadCollectionEntries",
                 "StreamDirectory", "StreamCollectionEntries"}
  /\ seen \in [Paths -> SUBSET (Contents \cup {None})]
  /\ \A p \in Paths : disk[p] \in seen[p]
  /\ ~ Directory => todo \in Seq(Entries)
  /\ Directory /\ step # "start" => Sorted /\ \A p \in Paths : None \in seen[p] \/ Listed(p)

(* Blocks that some of the versions V have in their places; and data that  *)
(* was read to an end which the file had by then.                          *)
Mixed(data, V) == \A i \in 1..Len(data) : \E t \in V : i <= Len(t) /\ t[i] = data[i]
ReadOff(data, V) == Mixed(data, V) /\ \E s \in V : Len(s) <= Len(data)

Held(i) == i \in DOMAIN todo /\ ReadOff(todo[i].data, seen[todo[i].path] \ {None})

(* What the manifest names.                                                *)
NamedInv ==
  /\ ~ hashed /\ ~ reused /\ orphaned = {}
  /\ step \notin {"save", "done"} => uploaded = {} /\ saved = {} /\ at = 0
  /\ adds <= Len(todo)
  /\ \A p \in DOMAIN files : files[p] \in 1..adds /\ todo[files[p]].path = p
  /\ \A i \in 1..adds : todo[i].path \in DOMAIN files

(* The streamed ways.                                                      *)
StreamInv ==
  /\ step \in {"read", "load", "chunks", "save"} => Streaming
  /\ step \in {"header", "open", "copy"} => ~ Streaming
  /\ step \in {"read", "load"} => method = "StreamDirectory"
  /\ step = "start" => result = "none"
  /\ step = "save" => adds = Len(todo)
  /\ Streaming /\ result = "ok" => step = "done" /\ saved # {} /\ adds = Len(todo)

(* A directory is streamed as it was read.                                 *)
ReadInv ==
  method = "StreamDirectory" =>
    /\ step \in {"read", "load"} => \A i \in 1..(item - 1) : Held(i)
    /\ step = "load" => Mixed(todo[item].data, seen[todo[item].path] \ {None})
    /\ step \in {"chunks", "save"} \/ result = "ok" => \A i \in 1..Len(todo) : Held(i)
    /\ shadowed = {}
    /\ step \notin {"save", "done"} =>
         \A p \in Paths : Found(trie, p) => \E i \in 1..adds : IsPrefix(p, todo[i].path)

(* The entry e is a file at path, whole or cut short, of whose contents     *)
(* there were the versions V.                                              *)
Copied(e, path, V) ==
  /\ e.path = path
  /\ \E s \in V : e.size = Len(s)
  /\ Len(e.blocks) <= e.size
  /\ \A i \in 1..Len(e.blocks) : \E t \in V : i <= Len(t) /\ t[i] = e.blocks[i]

AllCopied ==
  \A j \in 1..Len(archive) :
    /\ Copied(archive[j], todo[j].path, Versions(todo[j].path))
    /\ j < Len(archive) => Len(archive[j].blocks) = archive[j].size

(* Where the archive and its request stand.                                *)
PipeInv ==
  /\ step = "start" => archive = <<>> /\ request = "none" /\ pipe = "open"
  /\ step = "header" => Len(archive) = item - 1
  /\ step \in {"open", "copy"} => Len(archive) = item
  /\ step = "copy" => Data(item) # None
  /\ pipe = "eof" => step = "done" /\ Len(archive) = Len(todo)
  /\ ~ Streaming /\ result = "ok" => pipe = "eof" /\ ~ Short

ArchiveInv ==
  /\ archive \in Seq([path : Paths, size : Nat, blocks : Seq(Block)])
  /\ Len(archive) <= Len(todo)
  /\ AllCopied
  /\ PipeInv

LEMMA TodoAre ==
  ASSUME UploadInv, NEW i \in 1..Len(todo)
  PROVE  todo[i].path \in Paths /\ todo[i].path \in Path /\ todo[i].data \in Seq(Block)
<1> DEFINE R == [path : Paths, data : Seq(Block)]
<1>1. todo \in Seq(R)
  BY DEF UploadInv
<1>2. todo[i] \in R
  <2> HIDE DEF R
  <2> QED
    BY <1>1, ElementOfSeq
<1> QED
  BY <1>2, ConstantsAssumption DEF Path

LEMMA MixedMore ==
  ASSUME NEW data, NEW V, NEW W, V \subseteq W
  PROVE  /\ Mixed(data, V) => Mixed(data, W)
         /\ ReadOff(data, V) => ReadOff(data, W)
BY DEF Mixed, ReadOff

(* One more block of the file as it is.                                    *)
LEMMA MixedAppend ==
  ASSUME NEW data \in Seq(Block), NEW V, NEW file \in V, Len(file) \in Nat, Len(data) < Len(file),
         Mixed(data, V)
  PROVE  Mixed(Append(data, file[Len(data) + 1]), V)
<1> DEFINE n == Len(data)
           x == file[n + 1]
           longer == Append(data, x)
<1>1. n \in Nat
  BY LenProperties
<1>2. Len(longer) = n + 1 /\ longer[n + 1] = x /\ \A i \in 1..n : longer[i] = data[i]
  <2> HIDE DEF x
  <2> QED
    BY <1>1, AppendProperties
<1>3. SUFFICES ASSUME NEW i \in 1..(n + 1) PROVE \E t \in V : i <= Len(t) /\ t[i] = longer[i]
  BY <1>2 DEF Mixed
<1>4. CASE i = n + 1
  BY <1>1, <1>2, <1>4
<1>5. CASE i # n + 1
  <2>1. i \in 1..n
    BY <1>1, <1>5
  <2> QED
    BY <1>2, <2>1 DEF Mixed
<1> QED
  BY <1>4, <1>5

(* What a file had is not forgotten.                                       *)
LEMMA HadGrows ==
  ASSUME SeenInv, UNCHANGED method, Directory \/ UNCHANGED todo,
         \A p \in Paths : seen[p] \subseteq seen'[p], NEW p \in Paths
  PROVE  Versions(p) \subseteq Versions(p)'
<1>1. CASE Directory
  BY <1>1 DEF Versions, Had, Directory
<1>2. CASE ~ Directory
  BY <1>2 DEF Versions, Had, Directory
<1> QED
  BY <1>1, <1>2

(* The walk of a directory has all its files, in the order of Order.       *)
LEMMA WalkLists ==
  ASSUME UploadInv, NEW w \in Walks(disk)
  PROVE  /\ Len(w) \in Nat /\ DOMAIN w = 1..Len(w)
         /\ \A i \in 1..Len(w) : w[i] \in DOMAIN Order /\ disk[Order[w[i]]] # None
         /\ \A i, k \in 1..Len(w) : i < k => w[i] < w[k]
         /\ \A p \in Paths : disk[p] = None \/ \E i \in 1..Len(w) : Order[w[i]] = p
<1> DEFINE S == {i \in DOMAIN Order : disk[Order[i]] # None}
           n == Cardinality(S)
<1>1. w \in SetToSeqs(S) /\ \A i, k \in DOMAIN w : i < k => w[i] < w[k]
  BY DEF Walks
<1>2. DOMAIN Order = 1..Len(Order) /\ Len(Order) \in Nat
  <2>1. Order \in Seq(Paths)
    BY WalkAssumption
  <2> QED
    BY <2>1
<1>3. IsFiniteSet(S)
  <2>1. IsFiniteSet(1..Len(Order))
    BY <1>2, FS_Interval
  <2>2. S \subseteq 1..Len(Order)
    BY <1>2
  <2> HIDE DEF S
  <2> QED
    BY <2>1, <2>2, FS_Subset
<1>4. n \in Nat
  BY <1>3, FS_CardinalityType
<1> HIDE DEF S
<1>5. w \in [1..n -> S] /\ \A i, j \in 1..n : i # j => w[i] # w[j]
  BY <1>1 DEF SetToSeqs
<1>6. \A x \in S : \E i \in 1..n : w[i] = x
  <2>1. w \in Injection(1..n, S)
    BY <1>5 DEF Injection, IsInjective
  <2>2. Cardinality(1..n) = n
    BY <1>4, FS_Interval
  <2>3. w \in Surjection(1..n, S)
    BY <1>3, <2>1, <2>2, FS_Injection
  <2> QED
    BY <2>3 DEF Surjection
<1> HIDE DEF n
<1>7. Len(w) = n /\ DOMAIN w = 1..n
  BY <1>4, <1>5
<1>8. \A i \in 1..n : w[i] \in DOMAIN Order /\ disk[Order[w[i]]] # None
  <2>1. \A i \in 1..n : w[i] \in S
    BY <1>5
  <2> QED
    BY <2>1 DEF S
<1>9. ASSUME NEW p \in Paths, disk[p] # None PROVE \E i \in 1..n : Order[w[i]] = p
  <2>1. PICK x \in DOMAIN Order : Order[x] = p
    BY WalkAssumption
  <2>2. x \in S
    BY <1>9, <2>1 DEF S
  <2> QED
    BY <1>6, <2>1, <2>2
<1> QED
  BY <1>1, <1>4, <1>7, <1>8, <1>9

SameInputs == UNCHANGED <<method, disk, seen, todo>> /\ (step = "start" => step' = "start")

LEMMA InputSteps ==
  ASSUME [UploadNext]_upVars
  PROVE  Start \/ ReadFile \/ UserEdits \/ SameInputs
<1>1. CASE Streams
  BY <1>1 DEF Streams, AllRead, SendChunk, ChunkFails, AddEntry, SaveManifest, SaveNode, inputs, SameInputs
<1>2. CASE Writes
  BY <1>2 DEF Writes, WriteHeader, OpenFile, WriteBlock, FileWritten, CloseArchive, inputs, SameInputs
<1>3. CASE MakeRequest \/ NoRequest \/ Answer \/ Abort \/ RequestFails
  BY <1>3 DEF MakeRequest, NoRequest, Answer, Abort, RequestFails, inputs, SameInputs
<1>4. CASE UNCHANGED upVars
  BY <1>4 DEF upVars, inputs, SameInputs
<1> QED
  BY <1>1, <1>2, <1>3, <1>4 DEF UploadNext, Proceeds

LEMMA SeenInvInit == UploadInit => SeenInv
<1> SUFFICES ASSUME UploadInit PROVE SeenInv
  OBVIOUS
<1>1. disk \in [Paths -> Contents \cup {None}]
  BY DEF UploadInit
<1>2. seen = [p \in Paths |-> {disk[p]}] /\ step = "start"
  BY DEF UploadInit
<1>3. seen \in [Paths -> SUBSET (Contents \cup {None})] /\ \A p \in Paths : disk[p] \in seen[p]
  BY <1>1, <1>2
<1>4. ASSUME ~ Directory PROVE todo \in Seq(Entries)
  <2>1. PICK m \in 0..MaxAdds : todo \in [1..m -> Entries]
    BY <1>4 DEF UploadInit
  <2>2. m \in Nat
    BY ConstantsAssumption
  <2> QED
    BY <2>1, <2>2
<1> QED
  BY <1>2, <1>3, <1>4 DEF SeenInv, UploadInit

LEMMA StartSeen ==
  ASSUME UploadInv, SeenInv, Start
  PROVE  SeenInv'
<1>1. UNCHANGED <<method, disk, seen>>
  BY DEF Start, inputs
<1>2. PICK w \in Walks(disk) :
        todo' = IF Directory THEN [i \in DOMAIN w |-> [path |-> Order[w[i]], data |-> <<>>]] ELSE todo
  BY DEF Start
<1>3. /\ Len(w) \in Nat /\ DOMAIN w = 1..Len(w)
      /\ \A i \in 1..Len(w) : w[i] \in DOMAIN Order /\ disk[Order[w[i]]] # None
      /\ \A i, k \in 1..Len(w) : i < k => w[i] < w[k]
      /\ \A p \in Paths : disk[p] = None \/ \E i \in 1..Len(w) : Order[w[i]] = p
  BY WalkLists
<1>4. CASE Directory
  <2>1. DOMAIN todo' = 1..Len(w) /\ \A i \in 1..Len(w) : todo'[i].path = Order[w[i]]
    BY <1>2, <1>3, <1>4
  <2>2. Sorted'
    <3>1. SUFFICES ASSUME NEW i \in 1..Len(w), NEW k \in 1..Len(w), i < k
                   PROVE  ~ IsPrefix(Order[w[k]], Order[w[i]])
      BY <2>1 DEF Sorted
    <3>2. w[i] < w[k] /\ w[i] \in DOMAIN Order /\ w[k] \in DOMAIN Order
      BY <1>3, <3>1
    <3>3. DOMAIN Order \subseteq Nat
      <4>1. Order \in Seq(Paths)
        BY WalkAssumption
      <4> QED
        BY <4>1
    <3>4. IsPrefix(Order[w[k]], Order[w[i]]) => w[k] <= w[i]
      BY <3>2, WalkAssumption
    <3> QED
      BY <3>2, <3>3, <3>4
  <2>3. ASSUME NEW p \in Paths PROVE None \in seen[p] \/ Listed(p)'
    <3>1. CASE disk[p] = None
      BY <3>1 DEF SeenInv
    <3>2. CASE disk[p] # None
      BY <1>3, <2>1, <3>2 DEF Listed
    <3> QED
      BY <3>1, <3>2
  <2> QED
    BY <1>1, <1>4, <2>2, <2>3 DEF SeenInv, Directory
<1>5. CASE ~ Directory
  BY <1>1, <1>2, <1>5 DEF SeenInv, Directory
<1> QED
  BY <1>4, <1>5

LEMMA ReadSeen ==
  ASSUME UploadInv, SeenInv, StreamInv, ReadFile
  PROVE  SeenInv'
<1>1. UNCHANGED <<method, disk, seen>> /\ step \in {"read", "load"} /\ method = "StreamDirectory"
  BY DEF ReadFile, OpenToRead, ReadBlock, EndOfFile, inputs, StreamInv
<1>2. DOMAIN todo' = DOMAIN todo /\ \A i \in DOMAIN todo : todo'[i].path = todo[i].path
  BY ReadSets
<1>3. Sorted' /\ \A p \in Paths : None \in seen[p] \/ Listed(p)'
  <2>1. Sorted /\ \A p \in Paths : None \in seen[p] \/ Listed(p)
    BY <1>1 DEF SeenInv, Directory
  <2>2. Sorted'
    BY <1>2, <2>1 DEF Sorted
  <2>3. ASSUME NEW p \in Paths, Listed(p) PROVE Listed(p)'
    BY <1>2, <2>3 DEF Listed
  <2> QED
    BY <2>1, <2>2, <2>3
<1> QED
  BY <1>1, <1>3 DEF SeenInv, Directory

(* What the user writes is seen.                                           *)
LEMMA EditSees ==
  ASSUME UploadInv, SeenInv, UserEdits
  PROVE  /\ seen' \in [Paths -> SUBSET (Contents \cup {None})]
         /\ \A p \in Paths : disk'[p] \in seen'[p] /\ seen[p] \subseteq seen'[p]
<1>1. PICK p \in Paths, c \in Contents \cup {None} :
        disk' = [disk EXCEPT ![p] = c] /\ seen' = [seen EXCEPT ![p] = @ \cup {c}]
  BY DEF UserEdits
<1>2. /\ disk \in [Paths -> Contents \cup {None}]
      /\ seen \in [Paths -> SUBSET (Contents \cup {None})] /\ \A q \in Paths : disk[q] \in seen[q]
  BY DEF UploadInv, SeenInv
<1> QED
  BY <1>1, <1>2

LEMMA SeenInvStep ==
  ASSUME UploadInv, SeenInv, StreamInv, [UploadNext]_upVars
  PROVE  SeenInv'
<1>1. CASE UserEdits
  <2>1. UNCHANGED <<method, todo, step>>
    BY <1>1 DEF UserEdits
  <2>2. Sorted <=> Sorted'
    BY <2>1 DEF Sorted
  <2>3. ASSUME NEW p \in Paths, None \in seen[p] \/ Listed(p) PROVE None \in seen'[p] \/ Listed(p)'
    BY <1>1, <2>1, <2>3, EditSees DEF Listed
  <2>4. /\ seen' \in [Paths -> SUBSET (Contents \cup {None})]
        /\ \A p \in Paths : disk'[p] \in seen'[p]
    BY <1>1, EditSees
  <2> QED
    BY <2>1, <2>2, <2>3, <2>4 DEF SeenInv, Directory
<1>2. CASE SameInputs
  <2>1. UNCHANGED <<method, disk, seen, todo>> /\ (step = "start" => step' = "start")
    BY <1>2 DEF SameInputs
  <2> QED
    BY <2>1 DEF SeenInv, Directory, Sorted, Listed
<1> QED
  BY <1>1, <1>2, StartSeen, ReadSeen, InputSteps

Aside == UNCHANGED vars /\ (step \in {"save", "done"} => step' \in {"save", "done"})
SameTodo == UNCHANGED todo

LEMMA ManifestSteps ==
  ASSUME [UploadNext]_upVars
  PROVE  \/ AddEntry \/ SaveManifest \/ SaveNode
         \/ Start /\ Aside
         \/ ReadFile /\ Aside
         \/ SameTodo /\ Aside
<1>1. CASE Streams
  BY <1>1 DEF Streams, AllRead, SendChunk, ChunkFails, ReadFile, OpenToRead, ReadBlock, EndOfFile, Returns,
              Abandons, Aside, SameTodo
<1>2. CASE Writes
  BY <1>2 DEF Writes, WriteHeader, OpenFile, WriteBlock, FileWritten, CloseArchive, Fails, Aside, SameTodo
<1>3. CASE MakeRequest \/ NoRequest \/ Answer \/ Abort \/ RequestFails \/ UserEdits
  BY <1>3 DEF MakeRequest, NoRequest, Answer, Abort, RequestFails, UserEdits, Aside, SameTodo
<1>4. CASE Start
  BY <1>4 DEF Start, Aside
<1>5. CASE UNCHANGED upVars
  BY <1>5 DEF upVars, Aside, SameTodo
<1> QED
  BY <1>1, <1>2, <1>3, <1>4, <1>5 DEF UploadNext, Proceeds

LEMMA NamedInvInit == UploadInit => NamedInv
<1> SUFFICES ASSUME UploadInit PROVE NamedInv
  OBVIOUS
<1>1. /\ hashed = FALSE /\ reused = FALSE /\ orphaned = {} /\ uploaded = {} /\ saved = {} /\ at = 0
      /\ adds = 0 /\ files = <<>>
  BY DEF UploadInit, Init
<1>2. UploadInv
  BY UploadInvInit
<1>3. Len(todo) \in Nat
  <2> DEFINE R == [path : Paths, data : Seq(Block)]
  <2>1. todo \in Seq(R)
    BY <1>2 DEF UploadInv
  <2> HIDE DEF R
  <2> QED
    BY <2>1
<1>4. DOMAIN files = {} /\ 1..adds = {}
  BY <1>1
<1> QED
  BY <1>1, <1>3, <1>4 DEF NamedInv

(* Nothing has an address before the manifest is saved.                    *)
LEMMA NothingAddressed ==
  ASSUME UploadInv, NamedInv, step \notin {"save", "done"}
  PROVE  ~ Addressed(trie)
<1>1. ~ hashed /\ uploaded = {}
  BY DEF NamedInv
<1>2. PICK X : Trie(trie, 0..adds, X) /\ X \subseteq uploaded
  BY <1>1 DEF UploadInv, TrieInv
<1>3. \A n \in DOMAIN trie : trie[n].self = {}
  BY <1>1, <1>2, TrieNode
<1> QED
  BY <1>3 DEF Addressed

LEMMA AddNames ==
  ASSUME UploadInv, NamedInv, AddEntry
  PROVE  NamedInv'
<1>1. /\ UNCHANGED <<todo, step>> /\ step = "chunks" /\ item <= Len(todo)
      /\ AddFork(todo[item].path)
  BY DEF AddEntry
<1>2. item = adds + 1 /\ adds \in Nat /\ item \in 1..Len(todo)
  <2>1. item = adds + 1 /\ adds \in Nat
    BY <1>1 DEF UploadInv, TrieInv
  <2>2. Len(todo) \in Nat
    <3> DEFINE R == [path : Paths, data : Seq(Block)]
    <3>1. todo \in Seq(R)
      BY DEF UploadInv
    <3> HIDE DEF R
    <3> QED
      BY <3>1
  <2> QED
    BY <1>1, <2>1, <2>2
<1> DEFINE p == todo[item].path
<1>3. /\ adds' = adds + 1 /\ files' = Put(files, p, adds + 1) /\ orphaned' = orphaned
      /\ at = 0 /\ saved' = {} /\ reused' = (reused \/ Addressed(trie)) /\ UNCHANGED <<at, uploaded, hashed>>
  BY <1>1 DEF AddFork, Changes
<1>4. ~ Addressed(trie)
  BY <1>1, NothingAddressed
<1>5. DOMAIN files' = DOMAIN files \cup {p} /\ files'[p] = adds + 1
      /\ \A q \in DOMAIN files : q # p => files'[q] = files[q]
  <2> DEFINE k == adds + 1
  <2>1. files' = Put(files, p, k)
    BY <1>3
  <2> HIDE DEF p, k
  <2>a. DOMAIN Put(files, p, k) = DOMAIN files \cup {p} /\ Put(files, p, k)[p] = k
        /\ \A q \in DOMAIN files : q # p => Put(files, p, k)[q] = files[q]
    BY DEF Put
  <2>2. DOMAIN files' = DOMAIN files \cup {p} /\ files'[p] = k
        /\ \A q \in DOMAIN files : q # p => files'[q] = files[q]
    BY <2>1, <2>a
  <2> QED
    BY <2>2 DEF k
<1>6. ASSUME NEW q \in DOMAIN files' PROVE files'[q] \in 1..adds' /\ todo[files'[q]].path = q
  <2>1. CASE q = p
    BY <1>2, <1>3, <1>5, <2>1
  <2>2. CASE q # p
    <3>1. files'[q] = files[q] /\ files[q] \in 1..adds /\ todo[files[q]].path = q
      BY <1>5, <2>2 DEF NamedInv
    <3>2. files'[q] \in 1..adds'
      BY <1>2, <1>3, <3>1
    <3> QED
      BY <3>1, <3>2
  <2> QED
    BY <2>1, <2>2
<1>7. ASSUME NEW i \in 1..adds' PROVE todo[i].path \in DOMAIN files'
  <2>1. CASE i = item
    BY <1>5, <2>1
  <2>2. CASE i # item
    <3>1. i \in 1..adds
      BY <1>2, <1>3, <2>2
    <3> QED
      BY <1>5, <3>1 DEF NamedInv
  <2> QED
    BY <2>1, <2>2
<1>8. adds' <= Len(todo)
  BY <1>2, <1>3
<1>9. ~ hashed' /\ orphaned' = {} /\ uploaded' = {} /\ saved' = {} /\ at' = 0
  BY <1>1, <1>3 DEF NamedInv
<1>10. ~ reused'
  BY <1>3, <1>4 DEF NamedInv
<1> HIDE DEF p
<1> QED
  BY <1>1, <1>6, <1>7, <1>8, <1>9, <1>10 DEF NamedInv

LEMMA AsideNames ==
  ASSUME UploadInv, NamedInv, Aside, adds <= Len(todo'),
         \A i \in 1..adds : todo'[i].path = todo[i].path
  PROVE  NamedInv'
<1>1. UNCHANGED <<at, uploaded, saved, adds, files, orphaned, hashed, reused>>
  BY DEF Aside, vars, counts, history
<1>2. \A p \in DOMAIN files' : files'[p] \in 1..adds' /\ todo'[files'[p]].path = p
  BY <1>1 DEF NamedInv
<1>3. \A i \in 1..adds' : todo'[i].path \in DOMAIN files'
  BY <1>1 DEF NamedInv
<1>4. step' \notin {"save", "done"} => uploaded' = {} /\ saved' = {} /\ at' = 0
  BY <1>1 DEF NamedInv, Aside
<1>5. ~ hashed' /\ ~ reused' /\ orphaned' = {}
  BY <1>1 DEF NamedInv
<1> QED
  BY <1>1, <1>2, <1>3, <1>4, <1>5 DEF NamedInv

LEMMA NamedInvStep ==
  ASSUME UploadInv, UploadInv', NamedInv, [UploadNext]_upVars
  PROVE  NamedInv'
<1>1. CASE SaveManifest \/ SaveNode
  <2>1. UNCHANGED <<todo, adds, files, orphaned, hashed, reused>> /\ step' \in {"save", "done"}
    BY <1>1 DEF SaveManifest, SaveNode, SaveRecursively, Descend, Upload, UploadFails, counts, history,
                UploadInv, Returns
  <2> QED
    BY <2>1 DEF NamedInv
<1>2. CASE Start /\ Aside
  <2>1. adds = 0
    BY <1>2 DEF Start, UploadInv
  <2>2. Len(todo') \in Nat
    <3> DEFINE R == [path : Paths, data : Seq(Block)]
    <3>1. todo' \in Seq(R)
      BY DEF UploadInv
    <3> HIDE DEF R
    <3> QED
      BY <3>1
  <2>3. 1..adds = {} /\ adds <= Len(todo')
    BY <2>1, <2>2
  <2> QED
    BY <1>2, <2>3, AsideNames
<1>3. CASE ReadFile /\ Aside
  <2>1. adds = 0 /\ 1..0 = {}
    BY <1>3 DEF ReadFile, OpenToRead, ReadBlock, EndOfFile, UploadInv
  <2>2. Len(todo') = Len(todo)
    BY <1>3, ReadSets
  <2> QED
    BY <1>3, <2>1, <2>2, AsideNames DEF NamedInv
<1>4. CASE SameTodo /\ Aside
  BY <1>4, AsideNames DEF SameTodo, NamedInv
<1> QED
  BY <1>1, <1>2, <1>3, <1>4, AddNames, ManifestSteps

LEMMA StreamInvInit == UploadInit => StreamInv
<1> SUFFICES ASSUME UploadInit PROVE StreamInv
  OBVIOUS
<1>1. step = "start" /\ result = "none"
  BY DEF UploadInit
<1> QED
  BY <1>1 DEF StreamInv

LEMMA StreamingSame ==
  ASSUME UNCHANGED method
  PROVE  (Streaming <=> Streaming') /\ (Directory <=> Directory')
BY DEF Streaming, Directory

LEMMA StartStreams ==
  ASSUME SeenInv, StreamInv, Start
  PROVE  StreamInv'
<1>1. UNCHANGED <<method, result>> /\ step = "start"
  BY DEF Start, inputs
<1>2. step' = CASE method = "StreamDirectory" -> "read"
                [] method = "StreamCollectionEntries" -> "chunks"
                [] OTHER -> "header"
  BY DEF Start
<1>3. result' = "none"
  BY <1>1 DEF StreamInv
<1>4. CASE method = "StreamDirectory"
  <2>1. step' = "read"
    BY <1>2, <1>4
  <2> QED
    BY <1>1, <1>3, <1>4, <2>1 DEF StreamInv, Streaming
<1>5. CASE method = "StreamCollectionEntries"
  <2>1. step' = "chunks"
    BY <1>2, <1>5
  <2> QED
    BY <1>1, <1>3, <1>5, <2>1 DEF StreamInv, Streaming
<1>6. CASE method \notin {"StreamDirectory", "StreamCollectionEntries"}
  <2>1. step' = "header"
    BY <1>2, <1>6
  <2> QED
    BY <1>1, <1>3, <1>6, <2>1 DEF StreamInv, Streaming
<1> QED
  BY <1>4, <1>5, <1>6

LEMMA SavingStreams ==
  ASSUME UploadInv, NamedInv, StreamInv, SaveManifest \/ SaveNode
  PROVE  StreamInv'
<1>1. UNCHANGED <<method, todo, adds>> /\ step \in {"chunks", "save"} /\ step' \in {"save", "done"}
  BY DEF SaveManifest, SaveNode, SaveRecursively, Descend, Upload, UploadFails, counts, inputs, Returns
<1>2. Streaming' /\ Streaming
  BY <1>1, StreamingSame DEF StreamInv
<1>3. CASE SaveManifest
  <2>1. step' = "save" /\ step = "chunks" /\ item > Len(todo) /\ UNCHANGED result
    BY <1>3 DEF SaveManifest
  <2>2. item = adds + 1 /\ adds <= Len(todo) /\ adds \in Nat
    BY <2>1 DEF UploadInv, NamedInv, TrieInv
  <2>3. Len(todo) \in Nat
    <3> DEFINE R == [path : Paths, data : Seq(Block)]
    <3>1. todo \in Seq(R)
      BY DEF UploadInv
    <3> HIDE DEF R
    <3> QED
      BY <3>1
  <2>4. adds = Len(todo)
    BY <2>1, <2>2, <2>3
  <2>5. result' # "ok"
    BY <1>2, <2>1 DEF StreamInv
  <2> QED
    BY <1>1, <1>2, <2>1, <2>4, <2>5 DEF StreamInv
<1>4. CASE SaveNode
  <2>1. step = "save" /\ adds' = Len(todo') /\ result # "ok"
    BY <1>1, <1>2, <1>4 DEF SaveNode, StreamInv
  <2>2. result' = "ok" => step' = "done" /\ saved' # {}
    BY <1>4, <2>1 DEF SaveNode, Returns, Upload
  <2> QED
    BY <1>1, <1>2, <2>1, <2>2 DEF StreamInv
<1> QED
  BY <1>3, <1>4

(* The steps that read, send and add, and those of the archive.            *)
LEMMA ReadingStreams ==
  ASSUME UploadInv, StreamInv, ReadFile \/ AllRead \/ SendChunk \/ ChunkFails \/ AddEntry
  PROVE  StreamInv'
<1>1. UNCHANGED method /\ step \in {"read", "load", "chunks"} /\ step' \in {"read", "load", "chunks", "done"}
      /\ result' \in {result, "error"}
  BY DEF ReadFile, OpenToRead, ReadBlock, EndOfFile,
         AllRead, SendChunk, ChunkFails, AddEntry, Abandons, Returns, inputs
<1>2. step' \in {"read", "load"} => step \in {"read", "load"}
  BY DEF ReadFile, OpenToRead, ReadBlock, EndOfFile,
         AllRead, SendChunk, ChunkFails, AddEntry, Abandons, Returns
<1>3. Streaming /\ Streaming' /\ result # "ok"
  BY <1>1, StreamingSame DEF StreamInv
<1> QED
  BY <1>1, <1>2, <1>3 DEF StreamInv

LEMMA WritingStreams ==
  ASSUME UploadInv, StreamInv, Writes
  PROVE  StreamInv'
<1>1. UNCHANGED <<method, result>> /\ step \in {"header", "open", "copy"}
      /\ step' \in {"header", "open", "copy", "done"}
  BY DEF Writes, WriteHeader, OpenFile, WriteBlock, FileWritten, CloseArchive, Fails, inputs
<1>2. ~ Streaming /\ ~ Streaming'
  BY <1>1, StreamingSame DEF StreamInv
<1> QED
  BY <1>1, <1>2 DEF StreamInv

LEMMA RequestStreams ==
  ASSUME StreamInv, MakeRequest \/ NoRequest \/ Answer \/ Abort \/ RequestFails,
         ~ Streaming, step # "start"
  PROVE  StreamInv'
<1>1. UNCHANGED <<method, step, todo, adds>>
  BY DEF MakeRequest, NoRequest, Answer, Abort, RequestFails, inputs, vars, counts
<1>2. ~ Streaming'
  BY <1>1, StreamingSame
<1> QED
  BY <1>1, <1>2 DEF StreamInv

(* There is a request for an archive only.                                 *)
Requested == request # "none" => ~ Streaming /\ step # "start"

LEMMA RequestedInit == UploadInit => Requested
BY DEF UploadInit, Requested

LEMMA RequestedStep ==
  ASSUME UploadInv, Requested, [UploadNext]_upVars
  PROVE  Requested'
<1>1. UNCHANGED method /\ (step' = "start" => step = "start")
  BY DEF UploadNext, Proceeds, Start, Streams, ReadFile, OpenToRead, ReadBlock, EndOfFile,
         AllRead, SendChunk, ChunkFails, Abandons, AddEntry,
         SaveManifest, SaveNode, Returns, Writes, WriteHeader, OpenFile, WriteBlock, FileWritten,
         CloseArchive, Fails, MakeRequest, NoRequest, Answer, Abort, RequestFails, UserEdits, upVars, inputs
<1>2. Streaming <=> Streaming'
  BY <1>1, StreamingSame
<1>3. CASE MakeRequest \/ NoRequest
  <2>1. ~ Streaming /\ step # "start" /\ UNCHANGED step
    BY <1>3 DEF MakeRequest, NoRequest, Archives, Streaming
  <2> QED
    BY <1>2, <2>1 DEF Requested
<1>4. CASE Answer \/ Abort \/ RequestFails
  <2>1. request # "none"
    BY <1>4 DEF Answer, Abort, RequestFails
  <2> QED
    BY <1>1, <1>2, <2>1 DEF Requested
<1>5. CASE UNCHANGED request
  BY <1>1, <1>2, <1>5 DEF Requested
<1>6. (MakeRequest \/ NoRequest) \/ (Answer \/ Abort \/ RequestFails) \/ UNCHANGED request
  BY DEF UploadNext, Proceeds, Start, Streams, ReadFile, OpenToRead, ReadBlock, EndOfFile,
         AllRead, SendChunk, ChunkFails, AddEntry,
         SaveManifest, SaveNode, Writes, WriteHeader, OpenFile, WriteBlock, FileWritten,
         CloseArchive, UserEdits, upVars, tarVars
<1> QED
  BY <1>3, <1>4, <1>5, <1>6

LEMMA StreamInvStep ==
  ASSUME UploadInv, SeenInv, NamedInv, Requested, StreamInv, [UploadNext]_upVars
  PROVE  StreamInv'
<1>1. CASE MakeRequest \/ NoRequest \/ Answer \/ Abort \/ RequestFails
  <2>1. ~ Streaming /\ step # "start"
    BY <1>1 DEF MakeRequest, NoRequest, Answer, Abort, RequestFails, Archives, Streaming, Requested
  <2> QED
    BY <1>1, <2>1, RequestStreams
<1>2. CASE UserEdits \/ UNCHANGED upVars
  <2>1. UNCHANGED <<method, todo, step, result, saved, adds>>
    BY <1>2 DEF UserEdits, upVars, inputs, vars, counts
  <2> QED
    BY <2>1 DEF StreamInv, Streaming
<1> QED
  BY <1>1, <1>2, StartStreams, SavingStreams, ReadingStreams, WritingStreams
  DEF UploadNext, Proceeds, Streams

HeldSoFar ==
  /\ step \in {"read", "load"} => \A i \in 1..(item - 1) : Held(i)
  /\ step = "load" => Mixed(todo[item].data, seen[todo[item].path] \ {None})
  /\ step \in {"chunks", "save"} \/ result = "ok" => \A i \in 1..Len(todo) : Held(i)
OnTheWay == \A p \in Paths : Found(trie, p) => \E i \in 1..adds : IsPrefix(p, todo[i].path)

LEMMA ReadInvParts ==
  ReadInv <=> (method = "StreamDirectory" =>
                 HeldSoFar /\ shadowed = {} /\ (step \notin {"save", "done"} => OnTheWay))
BY DEF ReadInv, HeldSoFar, OnTheWay

LEMMA ReadInvInit == UploadInit => ReadInv
<1> SUFFICES ASSUME UploadInit, method = "StreamDirectory"
             PROVE  HeldSoFar /\ shadowed = {} /\ OnTheWay
  BY ReadInvParts
<1>1. step = "start" /\ result = "none" /\ shadowed = {} /\ Init
  BY DEF UploadInit, Init
<1>2. trie = <<NewNode(<<>>, NoEntry, 0)>>
  BY <1>1 DEF Init
<1>3. TrieInv
  BY <1>1, TrieInvInit
<1>4. ASSUME NEW p \in Paths PROVE ~ Found(trie, p)
  <2>1. PICK X : Trie(trie, 0..adds, X) /\ Standing(trie)
    BY <1>3 DEF TrieInv
  <2>2. p \in Seq(Bytes) /\ p # <<>>
    BY ConstantsAssumption
  <2>3. DOMAIN trie = {1}
    BY <1>2
  <2>4. FullPath(trie, 1) = <<>>
    BY <2>1, <2>3, Climbs
  <2>5. Found(trie, p) => \E n \in DOMAIN trie : FullPath(trie, n) = p
    BY <2>1, <2>2, FoundHas
  <2> QED
    BY <2>2, <2>3, <2>4, <2>5
<1> QED
  BY <1>1, <1>4 DEF HeldSoFar, OnTheWay

(* The steps that leave the entries and the trie as they are.              *)
LEMMA UnreadSteps ==
  ASSUME ReadInv, UNCHANGED <<method, trie, adds, todo, shadowed>>,
         step' \notin {"save", "done"} => step \notin {"save", "done"},
         HeldSoFar => HeldSoFar'
  PROVE  ReadInv'
<1>1. OnTheWay <=> OnTheWay'
  BY DEF OnTheWay
<1>2. ReadInv' <=> (method' = "StreamDirectory" =>
                      HeldSoFar' /\ shadowed' = {} /\ (step' \notin {"save", "done"} => OnTheWay'))
  BY DEF ReadInv, HeldSoFar, OnTheWay
<1> QED
  BY <1>1, <1>2, ReadInvParts

LEMMA HeldSame ==
  ASSUME HeldSoFar, UNCHANGED <<todo, seen>>,
         step' \in {"read", "load"} => UNCHANGED <<step, item>>,
         step' \in {"chunks", "save"} \/ result' = "ok" =>
           \/ step \in {"chunks", "save"} \/ result = "ok"
           \/ step = "read" /\ item > Len(todo) /\ item \in Nat /\ Len(todo) \in Nat
  PROVE  HeldSoFar'
<1>1. \A i : Held(i)' <=> Held(i)
  BY DEF Held
<1>2. ASSUME step = "read", item > Len(todo), item \in Nat, Len(todo) \in Nat
      PROVE  \A i \in 1..Len(todo) : Held(i)
  <2>1. 1..Len(todo) \subseteq 1..(item - 1)
    BY <1>2
  <2> QED
    BY <1>2, <2>1 DEF HeldSoFar
<1> QED
  BY <1>1, <1>2 DEF HeldSoFar

LEMMA TodoLength ==
  ASSUME UploadInv
  PROVE  Len(todo) \in Nat /\ DOMAIN todo = 1..Len(todo)
<1> DEFINE R == [path : Paths, data : Seq(Block)]
<1>1. todo \in Seq(R)
  BY DEF UploadInv
<1> HIDE DEF R
<1> QED
  BY <1>1

LEMMA StartReads ==
  ASSUME UploadInv, StreamInv, ReadInv, Start
  PROVE  ReadInv'
<1>1. UNCHANGED <<method, trie, adds, item, shadowed, result>> /\ step = "start"
      /\ step' \in {"read", "chunks", "header"}
  BY DEF Start, inputs, work, vars, counts, history
<1>2. adds = 0 /\ item = 1 /\ result = "none"
  BY <1>1 DEF UploadInv, StreamInv
<1>3. ASSUME method = "StreamDirectory" PROVE HeldSoFar' /\ shadowed' = {} /\ OnTheWay'
  <2>1. step' = "read"
    BY <1>3 DEF Start
  <2>2. 1..(item' - 1) = {}
    BY <1>1, <1>2
  <2>3. HeldSoFar'
    BY <1>1, <1>2, <2>1, <2>2 DEF HeldSoFar
  <2>4. OnTheWay /\ shadowed = {}
    BY <1>1, <1>3, ReadInvParts
  <2>5. 1..adds = {}
    BY <1>2
  <2>6. OnTheWay'
    BY <1>1, <2>4, <2>5 DEF OnTheWay
  <2> QED
    BY <1>1, <2>3, <2>4, <2>6
<1>4. ReadInv' <=> (method' = "StreamDirectory" =>
                      HeldSoFar' /\ shadowed' = {} /\ (step' \notin {"save", "done"} => OnTheWay'))
  BY DEF ReadInv, HeldSoFar, OnTheWay
<1> QED
  BY <1>1, <1>3, <1>4

LEMMA ReadReads ==
  ASSUME UploadInv, SeenInv, StreamInv, ReadInv, ReadFile
  PROVE  ReadInv'
<1> DEFINE file == disk[todo[item].path]
           data == todo[item].data
           V(i) == seen[todo[i].path] \ {None}
<1>1. UNCHANGED <<method, trie, adds, shadowed, seen>> /\ step \in {"read", "load"}
  BY DEF ReadFile, OpenToRead, ReadBlock, EndOfFile, inputs, vars, counts, history
<1>2. adds = 0 /\ method = "StreamDirectory" /\ result # "ok"
  BY <1>1 DEF UploadInv, StreamInv, Streaming
<1>3. HeldSoFar /\ shadowed = {} /\ OnTheWay
  BY <1>1, <1>2, ReadInvParts
<1>4. OnTheWay'
  <2>1. 1..adds = {}
    BY <1>2
  <2> QED
    BY <1>1, <1>3, <2>1 DEF OnTheWay
<1>5. /\ DOMAIN todo' = DOMAIN todo /\ DOMAIN todo = 1..Len(todo) /\ item \in 1..Len(todo)
      /\ \A i \in DOMAIN todo : todo'[i].path = todo[i].path
      /\ \A i \in DOMAIN todo \ {item} : todo'[i] = todo[i]
  BY ReadSets
<1>6. Len(todo) \in Nat /\ data \in Seq(Block) /\ todo[item].path \in Paths
  BY <1>5, TodoAre, TodoLength
<1>7. file # None => file \in V(item) /\ Len(file) \in Nat
  <2>1. file \in seen[todo[item].path] /\ file \in Contents \cup {None}
    BY <1>6 DEF SeenInv, UploadInv
  <2> QED
    BY <2>1, ContentsLength
<1>8. ASSUME NEW i \in 1..(item - 1) PROVE Held(i)'
  <2>1. i \in DOMAIN todo \ {item} /\ i \in DOMAIN todo'
    BY <1>5, <1>6
  <2>2. todo'[i] = todo[i]
    BY <1>5, <2>1
  <2>3. Held(i)
    BY <1>1, <1>3 DEF HeldSoFar
  <2> QED
    BY <1>1, <2>1, <2>2, <2>3 DEF Held
<1>9. todo'[item].path = todo[item].path /\ item \in DOMAIN todo'
  BY <1>5
<1>10. HeldSoFar'
  <2>1. CASE step' = "done" /\ result' = "error"
    BY <2>1 DEF HeldSoFar
  <2>2. CASE step' = "load" /\ todo'[item].data = <<>> /\ UNCHANGED <<item, result>>
    <3>1. Mixed(todo'[item].data, V(item))
      <4>1. 1..Len(<<>>) = {}
        OBVIOUS
      <4> QED
        BY <2>2, <4>1 DEF Mixed
    <3> QED
      BY <1>1, <1>2, <1>8, <1>9, <2>2, <3>1 DEF HeldSoFar
  <2>3. CASE /\ step = "load" /\ file # None /\ UNCHANGED <<step, item, result>> /\ Len(data) < Len(file)
             /\ todo'[item].data = Append(data, file[Len(data) + 1])
    <3>1. Mixed(data, V(item))
      BY <1>3, <2>3 DEF HeldSoFar
    <3>2. Mixed(todo'[item].data, V(item))
      <4> HIDE DEF data, file, V
      <4>1. Mixed(Append(data, file[Len(data) + 1]), V(item))
        BY <1>6, <1>7, <2>3, <3>1, MixedAppend
      <4> QED
        BY <2>3, <4>1
    <3> QED
      BY <1>1, <1>2, <1>8, <1>9, <2>3, <3>2 DEF HeldSoFar
  <2>4. CASE /\ step = "load" /\ file # None /\ step' = "read" /\ item' = item + 1
             /\ UNCHANGED <<todo, result>> /\ Len(data) >= Len(file)
    <3>1. Mixed(data, V(item))
      BY <1>3, <2>4 DEF HeldSoFar
    <3>2. Len(data) \in Nat
      BY <1>6, LenProperties
    <3>3. ReadOff(data, V(item))
      <4> HIDE DEF data, file, V
      <4>1. Len(file) <= Len(data) /\ file \in V(item)
        BY <1>7, <2>4, <3>2
      <4> QED
        BY <3>1, <4>1 DEF ReadOff
    <3>4. todo' = todo /\ seen' = seen /\ item' = item + 1 /\ Held(item)
      BY <1>1, <1>5, <2>4, <3>3 DEF Held
    <3>5. ASSUME NEW i \in 1..(item' - 1) PROVE Held(i)'
      <4>1. i = item \/ i \in 1..(item - 1)
        BY <1>5, <1>6, <2>4
      <4>2. CASE i = item
        <5>1. Held(i)
          BY <3>4, <4>2
        <5> QED
          BY <3>4, <5>1 DEF Held
      <4> QED
        BY <1>8, <4>1, <4>2
    <3> QED
      BY <1>2, <2>4, <3>5 DEF HeldSoFar
  <2> QED
    BY <2>1, <2>2, <2>3, <2>4, ReadSets
<1> QED
  BY <1>1, <1>3, <1>4, <1>10 DEF ReadInv, HeldSoFar, OnTheWay

(* In the order of a walk no entry is added where a node stands.           *)
LEMMA AddReads ==
  ASSUME UploadInv, SeenInv, NamedInv, StreamInv, ReadInv, AddEntry
  PROVE  ReadInv'
<1> DEFINE p == todo[item].path
<1>1. /\ UNCHANGED <<method, seen, todo, step, result>> /\ step = "chunks" /\ item <= Len(todo)
      /\ AddFork(p)
  BY DEF AddEntry, inputs
<1>2. item = adds + 1 /\ adds \in Nat /\ item \in 1..Len(todo) /\ Len(todo) \in Nat
  <2>1. item = adds + 1 /\ adds \in Nat
    BY <1>1 DEF UploadInv, TrieInv
  <2> QED
    BY <1>1, <2>1, TodoLength
<1>3. p \in Paths /\ p \in Path
  BY <1>2, TodoAre
<1> SUFFICES ASSUME method = "StreamDirectory"
             PROVE  HeldSoFar' /\ shadowed' = {} /\ OnTheWay'
  BY <1>1 DEF ReadInv, HeldSoFar, OnTheWay
<1>4. HeldSoFar /\ shadowed = {} /\ OnTheWay
  BY <1>1, ReadInvParts
<1>5. HeldSoFar'
  BY <1>1, <1>4 DEF HeldSoFar, Held
<1>6. ~ Found(trie, p)
  <2>1. SUFFICES ASSUME Found(trie, p) PROVE FALSE
    OBVIOUS
  <2>2. PICK i \in 1..adds : IsPrefix(p, todo[i].path)
    BY <1>3, <1>4, <2>1 DEF OnTheWay
  <2>3. Sorted
    BY <1>1 DEF SeenInv, Directory
  <2>4. i < item /\ i \in DOMAIN todo /\ item \in DOMAIN todo
    BY <1>2, TodoLength
  <2> QED
    BY <2>2, <2>3, <2>4 DEF Sorted
<1>7. shadowed' = {}
  BY <1>1, <1>4, <1>6 DEF AddFork
<1>8. adds' = adds + 1 /\ trie' = Add(trie, 1, p, adds + 1)
  BY <1>1 DEF AddFork, Changes
<1>9. FindsAdded(trie, trie', p, adds + 1)
  <2> DEFINE e == adds + 1
  <2>1. PICK X : Trie(trie, 0..adds, X)
    BY DEF UploadInv, TrieInv
  <2>2. Standing(trie)
    BY DEF UploadInv, TrieInv
  <2>3. Trie(trie, 0..e, X) /\ NoEntry \in 0..e /\ e \in 0..e
    <3>1. 0..adds \subseteq 0..e /\ 0 \in 0..e /\ e \in 0..e
      BY <1>2
    <3>2. Trie(trie, 0..e, X)
      <4> HIDE DEF e
      <4> QED
        BY <2>1, <3>1, TrieWider
    <3> QED
      BY <3>1, <3>2 DEF NoEntry
  <2>4. p \in Seq(Bytes) /\ p # <<>>
    BY <1>3 DEF Path
  <2> DEFINE u == Add(trie, 1, p, e)
  <2>5. 1 \in DOMAIN trie
    BY <2>1 DEF Trie
  <2> HIDE DEF e, p
  <2>6. Trie(u, 0..e, X) /\ Standing(u) /\ AddedAt(trie, u, FullPath(trie, 1) \o p, e)
    BY <2>2, <2>3, <2>4, <2>5, AddAdds
  <2>7. FullPath(trie, 1) \o p = p
    <3>1. FullPath(trie, 1) = <<>>
      BY <2>1, <2>2, <2>5, Climbs
    <3> QED
      BY <2>4, <3>1
  <2>8. AddedAt(trie, u, p, e)
    BY <2>6, <2>7
  <2> HIDE DEF u
  <2>9. FindsAdded(trie, u, p, e)
    BY <2>2, <2>3, <2>6, <2>8, AddedFinds
  <2> QED
    BY <1>8, <2>9 DEF u, e
<1>10. OnTheWay'
  <2>1. SUFFICES ASSUME NEW q \in Paths, Found(trie', q)
                 PROVE  \E i \in 1..adds' : IsPrefix(q, todo[i].path)
    BY <1>1 DEF OnTheWay
  <2>2. q \in Path
    BY ConstantsAssumption DEF Path
  <2>3. Found(trie, q) \/ IsPrefix(q, p)
    BY <1>9, <2>1, <2>2 DEF FindsAdded
  <2>4. CASE Found(trie, q)
    <3>1. PICK i \in 1..adds : IsPrefix(q, todo[i].path)
      BY <1>4, <2>4 DEF OnTheWay
    <3>2. i \in 1..adds'
      BY <1>2, <1>8
    <3> QED
      BY <3>1, <3>2
  <2>5. CASE IsPrefix(q, p)
    <3>1. item \in 1..adds'
      BY <1>2, <1>8
    <3> QED
      BY <2>5, <3>1
  <2> QED
    BY <2>3, <2>4, <2>5
<1> QED
  BY <1>5, <1>7, <1>10

LEMMA EditReads ==
  ASSUME UploadInv, SeenInv, ReadInv, UserEdits
  PROVE  ReadInv'
<1>1. UNCHANGED <<method, trie, adds, todo, item, step, shadowed, result>>
  BY DEF UserEdits, vars, counts, history, work
<1>2. ASSUME NEW i, Held(i) PROVE Held(i)'
  <2>1. todo[i].path \in Paths
    BY <1>2, TodoAre, TodoLength DEF Held
  <2>2. seen[todo[i].path] \ {None} \subseteq seen'[todo[i].path] \ {None}
    BY <2>1, EditSees
  <2> QED
    BY <1>1, <1>2, <2>2, MixedMore DEF Held
<1>3. ASSUME step = "load", HeldSoFar PROVE Mixed(todo[item].data, seen'[todo[item].path] \ {None})
  <2>1. item \in 1..Len(todo)
    BY <1>3, TodoLength DEF UploadInv
  <2>2. todo[item].path \in Paths
    BY <2>1, TodoAre
  <2>3. seen[todo[item].path] \ {None} \subseteq seen'[todo[item].path] \ {None}
    BY <2>2, EditSees
  <2> QED
    BY <1>3, <2>3, MixedMore DEF HeldSoFar
<1>4. HeldSoFar => HeldSoFar'
  BY <1>1, <1>2, <1>3 DEF HeldSoFar
<1> QED
  BY <1>1, <1>4, UnreadSteps

LEMMA ReadInvStep ==
  ASSUME UploadInv, SeenInv, NamedInv, Requested, StreamInv, ReadInv, [UploadNext]_upVars
  PROVE  ReadInv'
<1>1. CASE AllRead \/ SendChunk \/ ChunkFails
  <2>1. UNCHANGED <<method, seen, trie, adds, todo, shadowed>> /\ step \in {"read", "chunks"}
    BY <1>1 DEF AllRead, SendChunk, ChunkFails, inputs, vars, counts, history
  <2>2. CASE AllRead
    <3>1. step = "read" /\ step' = "chunks" /\ item > Len(todo)
      BY <2>2 DEF AllRead
    <3>2. item \in Nat /\ Len(todo) \in Nat
      BY TodoLength DEF UploadInv
    <3> QED
      BY <2>1, <3>1, <3>2, HeldSame, UnreadSteps
  <2>3. CASE SendChunk \/ ChunkFails
    <3>1. UNCHANGED item /\ step = "chunks" /\ step' \in {"chunks", "done"}
      BY <2>3 DEF SendChunk, ChunkFails, Abandons, Returns
    <3> QED
      BY <2>1, <3>1, HeldSame, UnreadSteps
  <2> QED
    BY <1>1, <2>2, <2>3
<1>2. CASE SaveManifest \/ SaveNode
  <2>1. UNCHANGED <<method, seen, todo, shadowed>> /\ step \in {"chunks", "save"} /\ step' \in {"save", "done"}
    BY <1>2 DEF SaveManifest, SaveNode, SaveRecursively, Descend, Upload, UploadFails, counts, history,
                inputs, Returns
  <2>2. HeldSoFar => HeldSoFar'
    BY <2>1, HeldSame
  <2>3. ReadInv' <=> (method' = "StreamDirectory" =>
                        HeldSoFar' /\ shadowed' = {} /\ (step' \notin {"save", "done"} => OnTheWay'))
    BY DEF ReadInv, HeldSoFar, OnTheWay
  <2> QED
    BY <2>1, <2>2, <2>3, ReadInvParts
<1>3. CASE Writes \/ MakeRequest \/ NoRequest \/ Answer \/ Abort \/ RequestFails
  <2>1. ~ Streaming
    BY <1>3 DEF Writes, WriteHeader, OpenFile, WriteBlock, FileWritten, CloseArchive, MakeRequest,
                NoRequest, Answer, Abort, RequestFails, Archives, Streaming, Requested, StreamInv
  <2>2. UNCHANGED method
    BY <1>3 DEF Writes, WriteHeader, OpenFile, WriteBlock, FileWritten, CloseArchive, MakeRequest,
                NoRequest, Answer, Abort, RequestFails, inputs
  <2> QED
    BY <2>1, <2>2 DEF ReadInv, Streaming
<1>4. CASE UNCHANGED upVars
  <2>1. UNCHANGED <<method, seen, trie, adds, todo, shadowed, step, item, result>>
    BY <1>4 DEF upVars, inputs, work, vars, counts, history
  <2>2. HeldSoFar => HeldSoFar'
    BY <2>1, HeldSame
  <2> QED
    BY <2>1, <2>2, UnreadSteps
<1> QED
  BY <1>1, <1>2, <1>3, <1>4, StartReads, ReadReads, AddReads, EditReads
  DEF UploadNext, Proceeds, Streams

(* What the goroutine sees is a version of the file.                       *)
LEMMA DataIs ==
  ASSUME UploadInv, SeenInv, NEW i \in 1..Len(todo), Data(i) # None
  PROVE  /\ Data(i) \in Contents /\ Data(i) \in Versions(todo[i].path)
         /\ Len(Data(i)) \in Nat /\ Data(i) \in Seq(Block)
<1>1. todo[i].path \in Paths
  BY TodoAre
<1>2. Data(i) \in Contents /\ Data(i) \in Versions(todo[i].path)
  <2>1. CASE Directory
    <3>1. Data(i) = disk[todo[i].path]
      BY <2>1 DEF Data
    <3>2. disk[todo[i].path] \in seen[todo[i].path] /\ disk[todo[i].path] \in Contents \cup {None}
      BY <1>1 DEF SeenInv, UploadInv
    <3> QED
      BY <2>1, <3>1, <3>2 DEF Versions, Had
  <2>2. CASE ~ Directory
    <3>1. Data(i) = todo[i].data
      BY <2>2 DEF Data
    <3>2. todo \in Seq(Entries)
      BY <2>2 DEF SeenInv
    <3>3. todo[i] \in Entries
      BY <3>2, ElementOfSeq
    <3>4. Data(i) \in Contents
      BY <3>1, <3>3 DEF Entries
    <3>5. i \in DOMAIN todo
      BY TodoLength
    <3>6. Data(i) \in Had(todo[i].path)
      BY <2>2, <3>1, <3>5 DEF Had
    <3> QED
      BY <3>4, <3>6 DEF Versions
  <2> QED
    BY <2>1, <2>2
<1> QED
  BY <1>2, ContentsBlocks, ContentsLength

LEMMA CopiedMore ==
  ASSUME NEW e, NEW path, NEW V, NEW W, V \subseteq W, Copied(e, path, V)
  PROVE  Copied(e, path, W)
BY DEF Copied

LEMMA AllCopiedKept ==
  ASSUME UploadInv, ArchiveInv, UNCHANGED archive,
         \A i \in 1..Len(todo) : todo'[i].path = todo[i].path,
         \A p \in Paths : Versions(p) \subseteq Versions(p)'
  PROVE  AllCopied'
<1>1. Len(archive) \in Nat
  <2> DEFINE R == [path : Paths, size : Nat, blocks : Seq(Block)]
  <2>1. archive \in Seq(R)
    BY DEF ArchiveInv
  <2> HIDE DEF R
  <2> QED
    BY <2>1
<1>2. ASSUME NEW j \in 1..Len(archive)
      PROVE  Copied(archive[j], todo[j].path, Versions(todo[j].path))'
  <2>1. j \in 1..Len(todo)
    BY <1>1, TodoLength DEF ArchiveInv
  <2>2. PICK p \in Paths : p = todo[j].path
    BY <2>1, TodoAre
  <2>3. p = todo'[j].path
    BY <2>1, <2>2
  <2>4. Copied(archive[j], p, Versions(p))
    BY <2>2 DEF ArchiveInv, AllCopied
  <2>5. Copied(archive[j], p, Versions(p)')
    BY <2>4, CopiedMore
  <2>6. Versions(todo[j].path)' = Versions(p)'
    BY <2>3 DEF Versions, Had
  <2> QED
    BY <2>3, <2>5, <2>6 DEF Copied
<1>3. \A j \in 1..Len(archive) : j < Len(archive) => Len(archive[j].blocks) = archive[j].size
  BY DEF ArchiveInv, AllCopied
<1> QED
  BY <1>2, <1>3 DEF AllCopied

LEMMA ArchiveSame ==
  ASSUME UploadInv, SeenInv, ArchiveInv, UNCHANGED <<archive, method>>, Len(todo') = Len(todo),
         \A i \in 1..Len(todo) : todo'[i].path = todo[i].path,
         Directory \/ UNCHANGED todo, \A p \in Paths : seen[p] \subseteq seen'[p], PipeInv'
  PROVE  ArchiveInv'
<1>1. \A p \in Paths : Versions(p) \subseteq Versions(p)'
  BY HadGrows
<1>2. AllCopied'
  BY <1>1, AllCopiedKept
<1> QED
  BY <1>2 DEF ArchiveInv

LEMMA ArchiveInvInit == UploadInit => ArchiveInv
<1> SUFFICES ASSUME UploadInit PROVE ArchiveInv
  OBVIOUS
<1>1. step = "start" /\ archive = <<>> /\ request = "none" /\ pipe = "open" /\ result = "none"
  BY DEF UploadInit
<1>2. Len(archive) = 0 /\ 1..0 = {}
  BY <1>1
<1>3. Len(todo) \in Nat
  BY UploadInvInit, TodoLength
<1>4. AllCopied
  BY <1>2 DEF AllCopied
<1>5. PipeInv
  BY <1>1 DEF PipeInv
<1>6. archive \in Seq([path : Paths, size : Nat, blocks : Seq(Block)])
  BY <1>1
<1> QED
  BY <1>2, <1>3, <1>4, <1>5, <1>6 DEF ArchiveInv

LEMMA StartArchives ==
  ASSUME UploadInv, UploadInv', StreamInv, ArchiveInv, Start
  PROVE  ArchiveInv'
<1>1. step = "start" /\ UNCHANGED <<item, pipe, archive, result>> /\ step' \in {"read", "chunks", "header"}
  BY DEF Start, work, tarVars
<1>2. archive = <<>> /\ pipe = "open" /\ item = 1 /\ result = "none"
  BY <1>1 DEF ArchiveInv, PipeInv, UploadInv, StreamInv
<1>3. Len(archive') = 0 /\ 1..0 = {}
  BY <1>1, <1>2
<1>4. Len(todo') \in Nat
  <2> DEFINE R == [path : Paths, data : Seq(Block)]
  <2>1. todo' \in Seq(R)
    BY DEF UploadInv
  <2> HIDE DEF R
  <2> QED
    BY <2>1
<1>5. AllCopied'
  BY <1>3 DEF AllCopied
<1>6. PipeInv'
  BY <1>1, <1>2, <1>3 DEF PipeInv
<1>7. archive' \in Seq([path : Paths, size : Nat, blocks : Seq(Block)])
  BY <1>1 DEF ArchiveInv
<1> QED
  BY <1>3, <1>4, <1>5, <1>6, <1>7 DEF ArchiveInv

LEMMA StreamsArchive ==
  ASSUME UploadInv, SeenInv, StreamInv, ArchiveInv, Streams
  PROVE  ArchiveInv'
<1>1. UNCHANGED <<method, seen, archive, pipe>> /\ step \in {"read", "load", "chunks", "save"}
  BY DEF Streams, ReadFile, OpenToRead, ReadBlock, EndOfFile,
         AllRead, SendChunk, ChunkFails, AddEntry, SaveManifest, SaveNode, inputs, tarVars
<1>2. step' \in {"read", "load", "chunks", "save", "done"}
  BY <1>1 DEF Streams, ReadFile, OpenToRead, ReadBlock, EndOfFile,
              AllRead, SendChunk, ChunkFails, Abandons, AddEntry, SaveManifest, SaveNode,
              Returns
<1>3. Streaming'
  BY <1>1, StreamingSame DEF StreamInv
<1>4. PipeInv'
  BY <1>1, <1>2, <1>3 DEF ArchiveInv, PipeInv
<1>5. CASE ReadFile
  <2>1. Directory
    BY <1>5 DEF ReadFile, OpenToRead, ReadBlock, EndOfFile, StreamInv, Directory
  <2>2. Len(todo') = Len(todo) /\ \A i \in 1..Len(todo) : todo'[i].path = todo[i].path
    BY <1>5, ReadSets, TodoLength
  <2>3. \A p \in Paths : seen[p] \subseteq seen'[p]
    BY <1>1
  <2> QED
    BY <1>1, <1>4, <2>1, <2>2, <2>3, ArchiveSame
<1>6. CASE ~ ReadFile
  <2>1. UNCHANGED todo
    BY <1>6 DEF Streams, AllRead, SendChunk, ChunkFails, AddEntry, SaveManifest, SaveNode
  <2>2. \A p \in Paths : seen[p] \subseteq seen'[p]
    BY <1>1
  <2>3. Len(todo') = Len(todo) /\ \A i \in 1..Len(todo) : todo'[i].path = todo[i].path
    BY <2>1
  <2> QED
    BY <1>1, <1>4, <2>1, <2>2, <2>3, ArchiveSame
<1> QED
  BY <1>5, <1>6

(* The steps that leave the entries and what was seen as they are.         *)
LEMMA ArchiveLeft ==
  ASSUME UploadInv, SeenInv, ArchiveInv, UNCHANGED <<archive, method, todo, seen>>, PipeInv'
  PROVE  ArchiveInv'
<1>1. \A p \in Paths : seen[p] \subseteq seen'[p]
  OBVIOUS
<1>2. Len(todo') = Len(todo) /\ \A i \in 1..Len(todo) : todo'[i].path = todo[i].path
  OBVIOUS
<1> QED
  BY <1>1, <1>2, ArchiveSame

LEMMA RequestsArchive ==
  ASSUME UploadInv, SeenInv, Requested, ArchiveInv,
         MakeRequest \/ NoRequest \/ Answer \/ Abort \/ RequestFails
  PROVE  ArchiveInv'
<1>1. UNCHANGED <<method, seen, disk, todo, step, item, archive>>
  BY DEF MakeRequest, NoRequest, Answer, Abort, RequestFails, inputs, work
<1>2. step # "start"
  BY DEF MakeRequest, NoRequest, Answer, Abort, RequestFails, Archives, Requested
<1>3. pipe' = "eof" <=> pipe = "eof"
  BY DEF MakeRequest, NoRequest, Answer, Abort, RequestFails
<1>4. Data(item)' = Data(item)
  BY <1>1 DEF Data, Directory
<1>5. Short' <=> Short
  BY <1>1 DEF Short
<1>6. Streaming' <=> Streaming
  BY <1>1, StreamingSame
<1>7. result' = "ok" => result = "ok" \/ (pipe = "eof" /\ ~ Short)
  BY DEF MakeRequest, NoRequest, Answer, Abort, RequestFails
<1>8. PipeInv'
  BY <1>1, <1>2, <1>3, <1>4, <1>5, <1>6, <1>7 DEF ArchiveInv, PipeInv
<1> QED
  BY <1>1, <1>8, ArchiveLeft

LEMMA EditArchives ==
  ASSUME UploadInv, SeenInv, ArchiveInv, UserEdits
  PROVE  ArchiveInv'
<1>1. UNCHANGED <<method, todo, step, item, archive, pipe, request, result>> /\ Directory /\ step # "start"
  BY DEF UserEdits, work, tarVars
<1>2. \A p \in Paths : seen[p] \subseteq seen'[p]
  BY EditSees
<1>3. step = "copy" => Data(item)' # None
  <2>1. PICK p \in Paths, c \in Contents \cup {None} :
          disk' = [disk EXCEPT ![p] = c] /\ ~ (c = None /\ step \in {"copy", "load"} /\ todo[item].path = p)
    BY DEF UserEdits
  <2>2. Data(item)' = disk'[todo[item].path]
    BY <1>1 DEF Data, Directory
  <2>3. ASSUME step = "copy" PROVE disk'[todo[item].path] # None
    <3>1. disk[todo[item].path] # None
      BY <1>1, <2>3 DEF ArchiveInv, PipeInv, Data
    <3>2. disk \in [Paths -> Contents \cup {None}]
      BY DEF UploadInv
    <3>3. item \in 1..Len(todo)
      BY <2>3, TodoLength DEF ArchiveInv, PipeInv, UploadInv
    <3>4. todo[item].path \in Paths
      BY <3>3, TodoAre
    <3> QED
      BY <2>1, <2>3, <3>1, <3>2, <3>4
  <2> QED
    BY <2>2, <2>3
<1>4. PipeInv'
  BY <1>1, <1>3 DEF ArchiveInv, PipeInv, Short, Streaming
<1>5. Len(todo') = Len(todo) /\ \A i \in 1..Len(todo) : todo'[i].path = todo[i].path
  BY <1>1
<1> QED
  BY <1>1, <1>2, <1>4, <1>5, ArchiveSame

LEMMA ArchiveEntry ==
  ASSUME ArchiveInv
  PROVE  /\ Len(archive) \in Nat /\ DOMAIN archive = 1..Len(archive)
         /\ \A j \in 1..Len(archive) :
              /\ archive[j] \in [path : Paths, size : Nat, blocks : Seq(Block)]
              /\ Len(archive[j].blocks) \in Nat /\ archive[j].size \in Nat
<1> DEFINE R == [path : Paths, size : Nat, blocks : Seq(Block)]
<1>1. archive \in Seq(R)
  BY DEF ArchiveInv
<1>2. Len(archive) \in Nat /\ DOMAIN archive = 1..Len(archive) /\ \A j \in 1..Len(archive) : archive[j] \in R
  <2> HIDE DEF R
  <2> QED
    BY <1>1, ElementOfSeq, LenProperties
<1>3. ASSUME NEW r \in R PROVE Len(r.blocks) \in Nat /\ r.size \in Nat
  BY <1>3, LenProperties
<1> QED
  BY <1>2, <1>3

WritesApart == UNCHANGED <<method, disk, seen, todo, result>> /\ step \in {"header", "open", "copy"}

LEMMA WritesLeave ==
  ASSUME Writes
  PROVE  WritesApart
BY DEF Writes, WriteHeader, OpenFile, WriteBlock, FileWritten, CloseArchive, inputs, WritesApart

LEMMA NotYet ==
  ASSUME ArchiveInv, StreamInv, WritesApart
  PROVE  /\ ~ Streaming /\ ~ Streaming' /\ pipe # "eof" /\ result' # "ok"
         /\ \A p : Versions(p)' = Versions(p)
<1>1. ~ Streaming /\ ~ Streaming'
  BY StreamingSame DEF WritesApart, StreamInv
<1>2. pipe # "eof" /\ result # "ok"
  BY <1>1 DEF WritesApart, ArchiveInv, PipeInv
<1>3. \A p : Versions(p)' = Versions(p)
  BY DEF WritesApart, Versions, Had, Directory
<1> QED
  BY <1>1, <1>2, <1>3 DEF WritesApart

LEMMA FailsArchives ==
  ASSUME UploadInv, SeenInv, StreamInv, ArchiveInv, WritesApart, Fails
  PROVE  ArchiveInv'
<1>1. step' = "done" /\ pipe' # "eof" /\ result' # "ok" /\ ~ Streaming' /\ UNCHANGED archive
  BY NotYet DEF Fails, EndsWithError
<1>2. PipeInv'
  BY <1>1 DEF PipeInv
<1> QED
  BY <1>1, <1>2, ArchiveLeft DEF WritesApart

LEMMA HeaderArchives ==
  ASSUME UploadInv, SeenInv, StreamInv, ArchiveInv, WriteHeader, ~ Fails
  PROVE  ArchiveInv'
<1>1. WritesApart
  BY WritesLeave DEF Writes
<1> DEFINE r == [path |-> todo[item].path, size |-> Len(Data(item)), blocks |-> <<>>]
           R == [path : Paths, size : Nat, blocks : Seq(Block)]
<1>2. /\ step = "header" /\ item <= Len(todo) /\ Data(item) # None /\ ~ Short
      /\ archive' = Append(archive, r) /\ step' = "open" /\ UNCHANGED <<item, pipe>>
  BY DEF WriteHeader
<1>3. item \in 1..Len(todo) /\ Len(archive) = item - 1 /\ item \in Nat /\ Len(todo) \in Nat
  <2>1. item \in Nat \ {0} /\ Len(todo) \in Nat
    BY TodoLength DEF UploadInv
  <2> QED
    BY <1>2, <2>1 DEF ArchiveInv, PipeInv
<1>4. todo[item].path \in Paths /\ Data(item) \in Versions(todo[item].path) /\ Len(Data(item)) \in Nat
  BY <1>2, <1>3, TodoAre, DataIs
<1>5. r \in R
  BY <1>4
<1>6. archive \in Seq(R)
  BY DEF ArchiveInv
<1>7. /\ archive' \in Seq(R) /\ Len(archive') = Len(archive) + 1
      /\ \A j \in 1..Len(archive) : archive'[j] = archive[j]
      /\ archive'[Len(archive) + 1] = r
  <2> HIDE DEF R, r
  <2> QED
    BY <1>2, <1>5, <1>6, AppendProperties
<1>8. Copied(r, todo[item].path, Versions(todo[item].path))
  <2>1. Len(<<>>) = 0 /\ 1..0 = {}
    OBVIOUS
  <2> QED
    BY <1>4, <2>1 DEF Copied
<1>9. \A p : Versions(p)' = Versions(p)
  BY <1>1, NotYet
<1>10. ASSUME NEW j \in 1..Len(archive')
       PROVE  /\ Copied(archive[j], todo[j].path, Versions(todo[j].path))'
              /\ j < Len(archive') => Len(archive'[j].blocks) = archive'[j].size
  <2>1. UNCHANGED todo
    BY <1>1 DEF WritesApart
  <2>2. CASE j = item
    <3>1. archive'[j] = r /\ ~ (j < Len(archive'))
      BY <1>3, <1>7, <2>2
    <3>2. Versions(todo[j].path)' = Versions(todo[j].path)
      BY <1>1 DEF WritesApart, Versions, Had, Directory
    <3>3. Copied(r, todo[j].path, Versions(todo[j].path))
      BY <1>8, <2>2
    <3> HIDE DEF r
    <3> QED
      BY <2>1, <3>1, <3>2, <3>3 DEF Copied
  <2>3. CASE j # item
    <3>1. j \in 1..Len(archive) /\ archive'[j] = archive[j]
      BY <1>3, <1>7, <2>3
    <3>2. Copied(archive[j], todo[j].path, Versions(todo[j].path))
      BY <3>1 DEF ArchiveInv, AllCopied
    <3>3. Versions(todo[j].path)' = Versions(todo[j].path)
      BY <1>1 DEF WritesApart, Versions, Had, Directory
    <3>4. Copied(archive[j], todo[j].path, Versions(todo[j].path))'
      BY <2>1, <3>1, <3>2, <3>3 DEF Copied
    <3>5. Len(archive[j].blocks) = archive[j].size
      <4>1. CASE j < Len(archive)
        BY <3>1, <4>1 DEF ArchiveInv, AllCopied
      <4>2. CASE j = Len(archive)
        <5>1. archive # <<>>
          BY <3>1
        <5>2. ~ (Len(archive[j].blocks) < archive[j].size)
          BY <1>2, <4>2, <5>1 DEF Short
        <5>3. Len(archive[j].blocks) <= archive[j].size
          BY <3>2 DEF Copied
        <5>4. Len(archive[j].blocks) \in Nat /\ archive[j].size \in Nat
          BY <3>1, ArchiveEntry
        <5> QED
          BY <5>2, <5>3, <5>4
      <4> QED
        BY <1>3, <3>1, <4>1, <4>2
    <3> QED
      BY <3>1, <3>4, <3>5
  <2> QED
    BY <2>2, <2>3
<1>11. AllCopied'
  BY <1>10 DEF AllCopied
<1>12. PipeInv'
  BY <1>1, <1>2, <1>3, <1>7, NotYet DEF PipeInv
<1>13. Len(archive') <= Len(todo')
  BY <1>1, <1>3, <1>7 DEF WritesApart
<1> QED
  BY <1>7, <1>11, <1>12, <1>13 DEF ArchiveInv

LEMMA BlockArchives ==
  ASSUME UploadInv, SeenInv, StreamInv, ArchiveInv, WriteBlock, ~ Fails
  PROVE  ArchiveInv'
<1>1. WritesApart
  BY WritesLeave DEF Writes
<1> DEFINE n == Len(archive)
           i == Len(archive[n].blocks)
           b == Data(item)[i + 1]
           more == Append(archive[n].blocks, b)
           r == [archive[n] EXCEPT !.blocks = more]
           R == [path : Paths, size : Nat, blocks : Seq(Block)]
<1>2. /\ step = "copy" /\ i < Len(Data(item)) /\ i # archive[n].size
      /\ archive' = [archive EXCEPT ![n].blocks = more]
      /\ UNCHANGED <<step, pipe, item>>
  BY DEF WriteBlock
<1>3. n = item /\ item \in 1..Len(todo) /\ item \in Nat /\ n \in 1..n /\ Data(item) # None
  <2>1. item \in Nat \ {0} /\ Len(todo) \in Nat
    BY TodoLength DEF UploadInv
  <2>2. n = item /\ n <= Len(todo) /\ Data(item) # None
    BY <1>2 DEF ArchiveInv, PipeInv
  <2> HIDE DEF n
  <2> QED
    BY <2>1, <2>2
<1>4. Data(item) \in Versions(todo[item].path) /\ Len(Data(item)) \in Nat /\ Data(item) \in Seq(Block)
  BY <1>3, DataIs
<1>5. archive \in Seq(R) /\ archive[n] \in R /\ i \in Nat /\ archive[n].size \in Nat
  <2>1. archive \in Seq(R)
    BY DEF ArchiveInv
  <2>2. n \in 1..Len(archive)
    BY <1>3
  <2> QED
    BY <2>1, <2>2, ArchiveEntry
<1>6. b \in Block
  <2>1. i + 1 \in 1..Len(Data(item))
    BY <1>2, <1>4, <1>5
  <2> QED
    BY <1>4, <2>1, ElementOfSeq
<1>7. /\ more \in Seq(Block) /\ Len(more) = i + 1 /\ more[i + 1] = b
      /\ \A k \in 1..i : more[k] = archive[n].blocks[k]
  <2>1. archive[n].blocks \in Seq(Block)
    BY <1>5
  <2> HIDE DEF b, n
  <2> QED
    BY <1>6, <2>1, AppendProperties
<1>8. r \in R /\ r.path = archive[n].path /\ r.size = archive[n].size /\ r.blocks = more
  <2> HIDE DEF more, n
  <2> QED
    BY <1>5, <1>7
<1>9. archive' = [archive EXCEPT ![n] = r]
  <2> HIDE DEF more, n
  <2> QED
    BY <1>2
<1>10. /\ archive' \in Seq(R) /\ Len(archive') = n /\ archive'[n] = r
       /\ \A j \in 1..n : j # n => archive'[j] = archive[j]
  <2>1. n \in 1..Len(archive)
    BY <1>3
  <2>2. n = Len(archive) /\ n \in Nat
    BY <1>3
  <2> HIDE DEF R, r, n
  <2>3. archive' \in Seq(R) /\ Len(archive') = Len(archive)
    BY <1>5, <1>8, <1>9, <2>1, ExceptSeq
  <2>4. archive'[n] = r /\ \A j \in 1..n : j # n => archive'[j] = archive[j]
    BY <1>5, <1>9, <2>1, <2>2
  <2> QED
    BY <2>2, <2>3, <2>4
<1>11. UNCHANGED todo
  BY <1>1 DEF WritesApart
<1> HIDE DEF R
<1>12. ASSUME NEW j \in 1..n
       PROVE  /\ Copied(archive[j], todo[j].path, Versions(todo[j].path))'
              /\ j < n => Len(archive'[j].blocks) = archive'[j].size
  <2>1. /\ Copied(archive[j], todo[j].path, Versions(todo[j].path))
        /\ j < n => Len(archive[j].blocks) = archive[j].size
    BY DEF ArchiveInv, AllCopied
  <2>2. Versions(todo[j].path)' = Versions(todo[j].path)
    BY <1>1 DEF WritesApart, Versions, Had, Directory
  <2>3. CASE j # n
    <3>1. archive'[j] = archive[j]
      BY <1>10, <2>3
    <3> HIDE DEF n
    <3> QED
      BY <1>11, <2>1, <2>2, <3>1 DEF Copied
  <2>4. CASE j = n
    <3> DEFINE V == Versions(todo[item].path)
    <3>1. Copied(archive[n], todo[item].path, V)
      BY <1>3, <2>1, <2>4
    <3>2. Copied(r, todo[item].path, V)
      <4>1. r.path = todo[item].path /\ \E s \in V : r.size = Len(s)
        <5> HIDE DEF r, n, V
        <5> QED
          BY <1>8, <3>1 DEF Copied
      <4>2. Len(r.blocks) <= r.size
        <5>1. i <= archive[n].size
          <6> HIDE DEF n, V
          <6> QED
            BY <3>1 DEF Copied
        <5> HIDE DEF r, n, i, more
        <5> QED
          BY <1>2, <1>5, <1>7, <1>8, <5>1
      <4>3. ASSUME NEW k \in 1..Len(r.blocks) PROVE \E t \in V : k <= Len(t) /\ t[k] = r.blocks[k]
        <5>1. k \in 1..(i + 1) /\ r.blocks = more
          <6> HIDE DEF r, i, more
          <6> QED
            BY <1>7, <1>8
        <5>2. CASE k = i + 1
          <6>1. k <= Len(Data(item)) /\ more[k] = Data(item)[k]
            <7>1. more[k] = Data(item)[k]
              BY <1>7, <5>2
            <7>2. k <= Len(Data(item))
              <8> HIDE DEF i
              <8> QED
                BY <1>2, <1>4, <1>5, <5>2
            <7> QED
              BY <7>1, <7>2
          <6> HIDE DEF r, more
          <6> QED
            BY <1>4, <5>1, <6>1
        <5>3. CASE k # i + 1
          <6>1. k \in 1..i
            <7> HIDE DEF i
            <7> QED
              BY <1>5, <5>1, <5>3
          <6>2. more[k] = archive[n].blocks[k]
            BY <1>7, <6>1
          <6>3. \E t \in V : k <= Len(t) /\ t[k] = archive[n].blocks[k]
            <7> HIDE DEF V
            <7> QED
              BY <3>1, <6>1 DEF Copied
          <6> HIDE DEF r, more, V
          <6> QED
            BY <5>1, <6>2, <6>3
        <5> QED
          BY <5>2, <5>3
      <4> HIDE DEF r, V
      <4> QED
        BY <4>1, <4>2, <4>3 DEF Copied
    <3>3. archive'[j] = r
      BY <1>10, <2>4
    <3>4. Copied(archive[j], todo[j].path, Versions(todo[j].path))'
      <4>1. todo'[j].path = todo[item].path /\ Versions(todo[j].path)' = V
        BY <1>3, <1>11, <2>2, <2>4
      <4> HIDE DEF r, V, n
      <4> QED
        BY <3>2, <3>3, <4>1 DEF Copied
    <3>5. ~ (j < n)
      <4> HIDE DEF n
      <4> QED
        BY <1>3, <2>4
    <3> QED
      BY <3>4, <3>5
  <2> QED
    BY <2>3, <2>4
<1>13. AllCopied'
  BY <1>10, <1>12 DEF AllCopied
<1>14. Data(item)' = Data(item)
  BY <1>1, <1>2 DEF WritesApart, Data, Directory
<1>15. PipeInv'
  <2>1. Len(archive') = item' /\ step' = "copy" /\ Data(item)' # None /\ pipe' # "eof" /\ result' # "ok"
    BY <1>1, <1>2, <1>3, <1>10, <1>14, NotYet
  <2> QED
    BY <2>1 DEF PipeInv
<1>16. Len(archive') <= Len(todo')
  BY <1>3, <1>10, <1>11
<1> QED
  BY <1>10, <1>13, <1>15, <1>16 DEF ArchiveInv, R

LEMMA WritesArchive ==
  ASSUME UploadInv, SeenInv, StreamInv, ArchiveInv, Writes
  PROVE  ArchiveInv'
<1>1. WritesApart
  BY WritesLeave
<1>2. CASE Fails
  BY <1>1, <1>2, FailsArchives
<1>3. CASE OpenFile /\ ~ Fails
  <2>1. step = "open" /\ step' = "copy" /\ UNCHANGED <<pipe, archive, item>> /\ Data(item) # None
    BY <1>3 DEF OpenFile
  <2>2. Data(item)' = Data(item)
    BY <1>1, <2>1 DEF WritesApart, Data, Directory
  <2>3. PipeInv'
    BY <1>1, <2>1, <2>2, NotYet DEF PipeInv, ArchiveInv
  <2> QED
    BY <1>1, <2>1, <2>3, ArchiveLeft DEF WritesApart
<1>4. CASE FileWritten
  <2>1. step = "copy" /\ step' = "header" /\ UNCHANGED <<pipe, archive>> /\ item' = item + 1
    BY <1>4 DEF FileWritten, tarVars
  <2>2. item \in Nat /\ Len(archive) = item
    BY <2>1 DEF UploadInv, ArchiveInv, PipeInv
  <2>3. Len(archive') = item' - 1
    BY <2>1, <2>2
  <2>4. PipeInv'
    BY <1>1, <2>1, <2>3, NotYet DEF PipeInv
  <2> QED
    BY <1>1, <2>1, <2>4, ArchiveLeft DEF WritesApart
<1>5. CASE CloseArchive
  <2>1. step = "header" /\ step' = "done" /\ UNCHANGED archive /\ item > Len(todo)
    BY <1>5 DEF CloseArchive
  <2>2. item \in Nat \ {0} /\ Len(todo) \in Nat /\ Len(archive) = item - 1 /\ Len(archive) <= Len(todo)
    BY <2>1, TodoLength DEF UploadInv, ArchiveInv, PipeInv
  <2>3. Len(archive') = Len(todo')
    BY <1>1, <2>1, <2>2 DEF WritesApart
  <2>4. PipeInv'
    BY <1>1, <2>1, <2>3, NotYet DEF PipeInv
  <2> QED
    BY <1>1, <2>1, <2>4, ArchiveLeft DEF WritesApart
<1> QED
  BY <1>2, <1>3, <1>4, <1>5, HeaderArchives, BlockArchives DEF Writes

LEMMA ArchiveInvStep ==
  ASSUME UploadInv, UploadInv', SeenInv, Requested, StreamInv, ArchiveInv, [UploadNext]_upVars
  PROVE  ArchiveInv'
<1>1. CASE UNCHANGED upVars
  <2>1. UNCHANGED <<method, seen, disk, todo, step, item, archive, pipe, request, result>>
    BY <1>1 DEF upVars, inputs, work, tarVars
  <2>2. PipeInv'
    BY <2>1 DEF ArchiveInv, PipeInv, Data, Directory, Short, Streaming
  <2> QED
    BY <2>1, <2>2, ArchiveLeft
<1> QED
  BY <1>1, StartArchives, StreamsArchive, WritesArchive, RequestsArchive, EditArchives
  DEF UploadNext, Proceeds

UploadedInv ==
  UploadInv /\ SeenInv /\ NamedInv /\ Requested /\ StreamInv /\ ReadInv /\ ArchiveInv

LEMMA UploadedInvInit == UploadInit => UploadedInv
BY UploadInvInit, SeenInvInit, NamedInvInit, RequestedInit, StreamInvInit, ReadInvInit, ArchiveInvInit
DEF UploadedInv

LEMMA UploadedInvStep ==
  ASSUME UploadedInv, [UploadNext]_upVars
  PROVE  UploadedInv'
<1>1. UploadInv /\ SeenInv /\ NamedInv /\ Requested /\ StreamInv /\ ReadInv /\ ArchiveInv
  BY DEF UploadedInv
<1>2. UploadInv'
  BY <1>1, UploadInvStep
<1>3. SeenInv' /\ Requested'
  BY <1>1, SeenInvStep, RequestedStep
<1>4. NamedInv'
  BY <1>1, <1>2, NamedInvStep
<1>5. StreamInv'
  BY <1>1, StreamInvStep
<1>6. ReadInv'
  BY <1>1, ReadInvStep
<1>7. ArchiveInv'
  BY <1>1, <1>2, ArchiveInvStep
<1> QED
  BY <1>2, <1>3, <1>4, <1>5, <1>6, <1>7 DEF UploadedInv

(* There is nothing to find at a path that is not in the upload.           *)
LEMMA Unlisted ==
  ASSUME SeenInv, step # "start", NEW p \in Paths, ~ Listed(p)
  PROVE  None \in Had(p)
<1>1. CASE Directory
  BY <1>1 DEF SeenInv, Had
<1>2. CASE ~ Directory
  <2>1. {todo[i].data : i \in {j \in DOMAIN todo : todo[j].path = p}} = {}
    BY DEF Listed
  <2> QED
    BY <1>2, <2>1 DEF Had
<1> QED
  BY <1>1, <1>2

Whole(c, V) ==
  /\ \E s \in V : Len(c) = Len(s) \/ (method = "StreamDirectory" /\ Len(s) < Len(c))
  /\ \A i \in DOMAIN c : \E t \in V : i <= Len(t) /\ t[i] = c[i]

(* Every file of the archive is whole, and all are there.                  *)
LEMMA ArchiveServes ==
  ASSUME UploadedInv, result = "ok", ~ Streaming, NEW p \in Paths
  PROVE  /\ LastAt(p) = {} => None \in Had(p)
         /\ \A c \in LastAt(p) : Whole(c, Versions(p))
<1> DEFINE n == Len(archive)
           found == {i \in DOMAIN archive : archive[i].path = p}
<1>1. /\ UploadInv /\ SeenInv /\ ArchiveInv /\ step = "done" /\ Len(archive) = Len(todo) /\ ~ Short
  BY DEF UploadedInv, ArchiveInv, PipeInv
<1>2. /\ n \in Nat /\ DOMAIN archive = 1..n
      /\ \A j \in 1..n : archive[j].blocks \in Seq(Block) /\ Len(archive[j].blocks) \in Nat /\ archive[j].size \in Nat
  BY <1>1, ArchiveEntry
<1>3. \A j \in 1..n : /\ Copied(archive[j], todo[j].path, Versions(todo[j].path))
                      /\ j < n => Len(archive[j].blocks) = archive[j].size
  BY <1>1 DEF ArchiveInv, AllCopied
<1>4. LastAt(p) = {archive[i].blocks : i \in {k \in found : \A j \in found : j <= k}}
  BY DEF LastAt
<1>5. ASSUME LastAt(p) = {} PROVE None \in Had(p)
  <2>1. SUFFICES ASSUME Listed(p) PROVE FALSE
    BY <1>1, Unlisted
  <2>2. PICK i \in 1..n : todo[i].path = p
    BY <1>1, <2>1, TodoLength DEF Listed
  <2>3. i \in found
    BY <1>2, <1>3, <2>2 DEF Copied
  <2> DEFINE S == {n - k : k \in found}
  <2>4. S \in SUBSET Nat /\ S # {}
    BY <1>2, <2>3
  <2>5. PICK m \in S : \A x \in S : m <= x
    <3> HIDE DEF S
    <3> QED
      BY <2>4, LeastNatural
  <2>6. PICK k \in found : m = n - k
    BY <2>5
  <2>7. \A j \in found : j <= k
    <3>1. SUFFICES ASSUME NEW j \in found PROVE j <= k
      OBVIOUS
    <3>2. n - k <= n - j
      BY <2>5, <2>6
    <3> QED
      BY <1>2, <2>6, <3>2
  <2> HIDE DEF found
  <2> QED
    BY <1>4, <1>5, <2>6, <2>7
<1>6. ASSUME NEW c \in LastAt(p) PROVE Whole(c, Versions(p))
  <2>1. PICK i \in found : c = archive[i].blocks
    <3> HIDE DEF found
    <3> QED
      BY <1>4, <1>6
  <2>2. i \in 1..n /\ archive[i].path = p
    BY <1>2, <2>1
  <2>3. Copied(archive[i], p, Versions(p))
    BY <1>3, <2>2 DEF Copied
  <2>4. Len(c) = archive[i].size
    <3>1. CASE i < n
      BY <1>3, <2>1, <2>2, <3>1
    <3>2. CASE i = n
      <4>1. archive # <<>>
        BY <2>2
      <4>2. ~ (Len(archive[i].blocks) < archive[i].size)
        BY <1>1, <3>2, <4>1 DEF Short
      <4>3. Len(archive[i].blocks) <= archive[i].size
        BY <2>3 DEF Copied
      <4> HIDE DEF n
      <4> QED
        BY <1>2, <2>1, <2>2, <4>2, <4>3
    <3> QED
      BY <1>2, <2>2, <3>1, <3>2
  <2>5. DOMAIN c = 1..Len(c)
    BY <1>2, <2>1, <2>2, LenProperties
  <2> HIDE DEF found, n
  <2> QED
    BY <2>1, <2>3, <2>4, <2>5 DEF Copied, Whole
<1> QED
  BY <1>5, <1>6

(* The manifest leads to every file, and the chunks of it are there.       *)
LEMMA ManifestServes ==
  ASSUME UploadedInv, SavedServes, FilesFound, result = "ok", Streaming, NEW p \in Paths,
         ~ (method = "StreamCollectionEntries" /\ p \in shadowed)
  PROVE  /\ StreamedAt(p) = {} => None \in Had(p)
         /\ \A c \in StreamedAt(p) : Whole(c, Versions(p))
<1>1. UploadInv /\ SeenInv /\ NamedInv /\ StreamInv /\ ReadInv
  BY DEF UploadedInv
<1>2. step = "done" /\ saved # {} /\ adds = Len(todo) /\ p \notin shadowed
  BY <1>1 DEF StreamInv, ReadInv, Streaming
<1> DEFINE root == CHOOSE a \in saved : TRUE
           entry == IF p \in DOMAIN files THEN files[p] ELSE NoEntry
<1>3. Served(root, p) = entry
  <2>1. root \in saved
    BY <1>2
  <2>2. ~ hashed /\ ~ reused /\ p \in Paths \ (shadowed \cup orphaned)
    BY <1>1, <1>2 DEF NamedInv
  <2>3. EntryAt(trie, p) = entry
    BY <2>2 DEF FilesFound
  <2> HIDE DEF root, entry
  <2> QED
    BY <2>1, <2>2, <2>3 DEF SavedServes
<1>4. Len(todo) \in Nat /\ DOMAIN todo = 1..Len(todo)
  BY <1>1, TodoLength
<1>5. CASE p \in DOMAIN files
  <2>1. PICK e \in 1..Len(todo) : files[p] = e /\ todo[e].path = p
    BY <1>1, <1>2, <1>5 DEF NamedInv
  <2>2. entry = e /\ e # NoEntry
    BY <1>4, <1>5, <2>1 DEF NoEntry
  <2>3. Chunks(todo[e].data) \subseteq stored
    BY <1>1, <1>2, <2>1 DEF UploadInv
  <2> DEFINE c == todo[e].data
  <2>4. StreamedAt(p) = {c}
    <3> HIDE DEF entry
    <3> QED
      BY <1>3, <2>2, <2>3 DEF StreamedAt
  <2>5. Whole(c, Versions(p))
    <3>1. CASE method = "StreamDirectory"
      <4>1. ReadOff(c, Versions(p))
        <5>1. Held(e)
          BY <1>1, <2>1, <3>1 DEF ReadInv
        <5>2. Versions(p) = seen[p] \ {None}
          BY <3>1 DEF Versions, Had, Directory
        <5> QED
          BY <2>1, <5>1, <5>2 DEF Held
      <4>2. c \in Seq(Block)
        BY <1>1, <2>1, TodoAre
      <4> HIDE DEF c
      <4>3. Len(c) \in Nat /\ DOMAIN c = 1..Len(c)
        BY <4>2, LenProperties
      <4>4. PICK s \in Versions(p) : Len(s) <= Len(c)
        BY <4>1 DEF ReadOff
      <4>5. Len(s) \in Nat
        <5>1. seen[p] \in SUBSET (Contents \cup {None})
          BY <1>1 DEF SeenInv
        <5>2. s \in Contents
          BY <3>1, <4>4, <5>1 DEF Versions, Had, Directory
        <5> QED
          BY <5>2, ContentsLength
      <4>6. Len(c) = Len(s) \/ Len(s) < Len(c)
        BY <4>3, <4>4, <4>5
      <4> QED
        BY <3>1, <4>1, <4>3, <4>4, <4>6 DEF Whole, ReadOff, Mixed
    <3>2. CASE method = "StreamCollectionEntries"
      <4>1. ~ Directory
        BY <3>2 DEF Directory
      <4>2. todo \in Seq(Entries)
        BY <1>1, <4>1 DEF SeenInv
      <4>3. todo[e] \in Entries
        BY <4>2, ElementOfSeq
      <4>4. c \in Contents
        BY <4>3 DEF Entries
      <4>5. c \in Had(p)
        BY <1>4, <2>1, <4>1 DEF Had
      <4>6. c \in Versions(p)
        BY <4>4, <4>5, WalkAssumption DEF Versions
      <4>7. Len(c) \in Nat /\ DOMAIN c = 1..Len(c)
        BY <4>4, ContentsLength
      <4> HIDE DEF c
      <4> QED
        BY <4>6, <4>7 DEF Whole
    <3> QED
      BY <3>1, <3>2 DEF Streaming
  <2> HIDE DEF c
  <2> QED
    BY <2>4, <2>5
<1>6. CASE p \notin DOMAIN files
  <2>1. StreamedAt(p) = {}
    BY <1>3, <1>6 DEF StreamedAt
  <2>2. ~ Listed(p)
    BY <1>1, <1>2, <1>4, <1>6 DEF Listed, NamedInv
  <2>3. None \in Had(p)
    BY <1>1, <1>2, <2>2, Unlisted
  <2> QED
    BY <2>1, <2>3
<1> QED
  BY <1>5, <1>6

LEMMA UploadedServes ==
  ASSUME UploadedInv, SavedServes, FilesFound
  PROVE  FilesServed
<1>1. SUFFICES ASSUME result = "ok", NEW p \in Paths,
                      ~ (method = "StreamCollectionEntries" /\ p \in shadowed)
               PROVE  /\ ReadAt(p) = {} => None \in Had(p)
                      /\ \A c \in ReadAt(p) : Whole(c, Versions(p))
  BY DEF FilesServed, Whole, Versions
<1>2. step # "start"
  BY <1>1 DEF UploadedInv, StreamInv
<1>3. CASE Streaming
  <2>1. ReadAt(p) = StreamedAt(p)
    BY <1>3 DEF ReadAt, Archives, Streaming
  <2> QED
    BY <1>1, <1>3, <2>1, ManifestServes
<1>4. CASE ~ Streaming
  <2>1. Archives
    BY <1>2, <1>4 DEF Archives, Streaming, UploadedInv, SeenInv
  <2>2. ReadAt(p) = LastAt(p)
    BY <2>1 DEF ReadAt
  <2> QED
    BY <1>1, <1>4, <2>2, ArchiveServes
<1> QED
  BY <1>3, <1>4

(* When an upload returns a reference, by any of the four ways, whatever   *)
(* the user does to the files meanwhile and whichever calls fail, a reader *)
(* of it finds every file, with a length and with blocks that the file had *)
(* meanwhile; only a file that was absent at some time may be missing, and *)
(* only one of a directory that is streamed may be longer than it then was.*)
THEOREM FilesAlwaysServed == UploadSpec => []FilesServed
<1>1. UploadInit => UploadedInv
  BY UploadedInvInit
<1>2. UploadedInv /\ [UploadNext]_upVars => UploadedInv'
  BY UploadedInvStep
<1>3. UploadedInv /\ SavedServes /\ FilesFound => FilesServed
  BY UploadedServes
<1> QED
  BY <1>1, <1>2, <1>3, UploadUsesManifest, SavesServed, FilesAlwaysFound, PTL DEF UploadSpec

-----------------------------------------------------------------------------
(* That an upload does not stop half-way: the part of UploadEnds that holds*)
(* without fairness.                                                       *)

(* The streamed ways can go on; so can the goroutine that writes an        *)
(* archive; so can the request that carries it.                            *)
StreamReady ==
  \/ step \in {"read", "load"}
  \/ /\ step = "chunks" /\ item <= Len(todo)
     /\ \/ part < Cardinality(Chunks(todo[item].data))
        \/ part = Cardinality(Chunks(todo[item].data)) /\ adds < MaxAdds
  \/ step = "chunks" /\ item > Len(todo) /\ at = 0 /\ saves < MaxSaves
  \/ step = "save" /\ at # 0
WriterReady ==
  \/ step = "header" /\ (Short \/ Writable)
  \/ step = "open"
  \/ step = "copy" /\ Writable
RequestReady ==
  \/ Archives /\ request = "none"
  \/ request = "sending" /\ pipe \in {"eof", "failed"}

(* The call has returned and its goroutine ended, or waits for a request   *)
(* that could not be made.                                                 *)
Settled == result # "none" /\ (step = "done" \/ request = "unmade")

(* If the bounds on additions and saves leave room for the upload.         *)
UploadGoesOn ==
  Len(todo) <= MaxAdds /\ 0 < MaxSaves =>
    Settled \/ step = "start" \/ StreamReady \/ WriterReady \/ RequestReady

StepNames == {"start", "read", "load", "chunks", "save", "header", "open", "copy", "done"}

(* Either end of the pipe tells the other that it stops.                   *)
PipeStands ==
  /\ step \in StepNames
  /\ request \in {"none", "sending", "over", "unmade"}
  /\ pipe \in {"open", "eof", "failed", "closed"}
  /\ pipe \in {"eof", "failed"} => step = "done"
  /\ step = "done" /\ ~ Streaming => pipe # "open"
  /\ pipe = "closed" => request = "over"
  /\ request = "over" => pipe # "open"
  /\ request \in {"over", "unmade"} => result # "none"
  /\ step = "done" /\ Streaming => result # "none"

(* A streamed file has its chunks, and the manifest is saved once.         *)
ChunksStand ==
  /\ step \notin {"save", "done"} => saves = 0
  /\ step = "save" => at # 0
  /\ step = "chunks" /\ item <= Len(todo) => part <= Cardinality(Chunks(todo[item].data))

LEMMA PipeStandsInit == UploadInit => PipeStands
BY DEF UploadInit, PipeStands, StepNames

LEMMA PipeStandsStep ==
  ASSUME UploadInv, StreamInv, Requested, PipeStands, [UploadNext]_upVars
  PROVE  PipeStands'
<1> USE DEF PipeStands, StepNames
<1>0. Streaming' <=> Streaming
  BY DEF UploadNext, Proceeds, Start, Streams, ReadFile, OpenToRead, ReadBlock, EndOfFile,
         AllRead, SendChunk, ChunkFails, Abandons, AddEntry,
         SaveManifest, SaveNode, Returns, Writes, WriteHeader, OpenFile, WriteBlock, FileWritten,
         CloseArchive, Fails, MakeRequest, NoRequest, Answer, Abort, RequestFails, UserEdits, upVars, inputs,
         Streaming
<1>1. CASE Start
  <2>1. /\ step = "start" /\ step' \in {"read", "chunks", "header"}
        /\ UNCHANGED <<pipe, request, result>>
    BY <1>1 DEF Start, tarVars
  <2> QED
    BY <1>0, <2>1
<1>2. CASE Streams
  <2>1. UNCHANGED <<pipe, request>> /\ step \in {"read", "load", "chunks", "save"}
    BY <1>2 DEF Streams, ReadFile, OpenToRead, ReadBlock, EndOfFile,
                AllRead, SendChunk, ChunkFails, AddEntry, SaveManifest, SaveNode,
       tarVars
  <2>2. \/ step' \in {"read", "load", "chunks", "save"} /\ result' = result
        \/ step' = "done" /\ result' \in {"ok", "error"}
    BY <1>2 DEF Streams, ReadFile, OpenToRead, ReadBlock, EndOfFile,
                AllRead, SendChunk, ChunkFails, Abandons, AddEntry, SaveManifest,
       SaveNode, Returns
  <2>3. Streaming
    BY <2>1 DEF StreamInv
  <2> QED
    BY <1>0, <2>1, <2>2, <2>3
<1>3. CASE Writes
  <2>1. UNCHANGED <<request, result>> /\ step \in {"header", "open", "copy"}
    BY <1>3 DEF Writes, WriteHeader, OpenFile, WriteBlock, FileWritten, CloseArchive, tarVars
  <2>2. \/ step' \in {"header", "open", "copy"} /\ pipe' = pipe
        \/ step' = "done" /\ pipe' = EndsWithError
        \/ step' = "done" /\ pipe' = IF pipe = "open" THEN "eof" ELSE pipe
    BY <1>3 DEF Writes, WriteHeader, OpenFile, WriteBlock, FileWritten, CloseArchive, Fails, tarVars
  <2>3. ~ Streaming
    BY <2>1 DEF StreamInv
  <2> QED
    BY <1>0, <2>1, <2>2, <2>3 DEF EndsWithError
<1>4. CASE MakeRequest \/ NoRequest
  <2>1. /\ UNCHANGED <<step, pipe>> /\ request = "none"
        /\ \/ request' = "sending" /\ result' = result
           \/ request' = "unmade" /\ result' = "error"
    BY <1>4 DEF MakeRequest, NoRequest
  <2> QED
    BY <1>0, <2>1
<1>5. CASE Answer \/ Abort
  <2>1. /\ UNCHANGED <<step, pipe>> /\ request = "sending" /\ request' = "over"
        /\ pipe \in {"eof", "failed"} /\ result' \in {"ok", "error"}
    BY <1>5 DEF Answer, Abort
  <2> QED
    BY <1>0, <2>1
<1>6. CASE RequestFails
  <2>1. /\ step' = step /\ request = "sending" /\ request' = "over" /\ result' = "error"
        /\ pipe' = IF pipe = "open" THEN "closed" ELSE pipe
    BY <1>6 DEF RequestFails
  <2> QED
    BY <1>0, <2>1
<1>7. CASE UserEdits \/ UNCHANGED upVars
  <2>1. UNCHANGED <<step, pipe, request, result>>
    BY <1>7 DEF UserEdits, upVars, tarVars
  <2> QED
    BY <1>0, <2>1
<1> QED
  BY <1>1, <1>2, <1>3, <1>4, <1>5, <1>6, <1>7 DEF UploadNext, Proceeds

(* The number of chunks of an entry.                                       *)
LEMMA EntryChunks ==
  ASSUME NEW t \in Seq([path : Paths, data : Seq(Block)]), NEW i \in 1..Len(t)
  PROVE  Cardinality(Chunks(t[i].data)) \in Nat
<1> DEFINE R == [path : Paths, data : Seq(Block)]
<1>1. t[i] \in R
  <2>1. t \in Seq(R)
    OBVIOUS
  <2> HIDE DEF R
  <2> QED
    BY <2>1, ElementOfSeq
<1>2. t[i].data \in Seq(Block)
  BY <1>1
<1>3. Len(t[i].data) \in Nat
  BY <1>2, LenProperties
<1> QED
  BY <1>3, ChunksCounted

LEMMA ChunksStandInit == UploadInit => ChunksStand
<1> SUFFICES ASSUME UploadInit PROVE ChunksStand
  OBVIOUS
<1>1. step = "start" /\ saves = 0
  BY DEF UploadInit, Init
<1> QED
  BY <1>1 DEF ChunksStand

LEMMA ChunksStandStep ==
  ASSUME UploadInv, UploadInv', ChunksStand, [UploadNext]_upVars
  PROVE  ChunksStand'
<1>0. /\ item \in Nat \ {0} /\ item' \in Nat \ {0} /\ part \in Nat
      /\ Len(todo) \in Nat /\ Len(todo') \in Nat
      /\ todo \in Seq([path : Paths, data : Seq(Block)])
      /\ todo' \in Seq([path : Paths, data : Seq(Block)])
  <2>1. /\ item \in Nat \ {0} /\ item' \in Nat \ {0} /\ part \in Nat
        /\ todo \in Seq([path : Paths, data : Seq(Block)])
        /\ todo' \in Seq([path : Paths, data : Seq(Block)])
    BY DEF UploadInv
  <2> QED
    BY <2>1, LenProperties
<1>1. ASSUME part' = 0, item' <= Len(todo') PROVE part' <= Cardinality(Chunks(todo'[item'].data))
  <2>1. item' \in 1..Len(todo')
    BY <1>0, <1>1
  <2>2. PICK t, i : t = todo' /\ i = item'
    OBVIOUS
  <2>3. Cardinality(Chunks(t[i].data)) \in Nat
    BY <1>0, <2>1, <2>2, EntryChunks
  <2> QED
    BY <1>1, <2>2, <2>3
<1>2. CASE Start
  <2>1. /\ step = "start" /\ step' # "save" /\ saves' = saves /\ part' = part
    BY <1>2 DEF Start, vars, counts, work
  <2>2. part = 0
    BY <2>1 DEF UploadInv
  <2> QED
    BY <1>1, <2>1, <2>2 DEF ChunksStand
<1>3. CASE AllRead
  <2>1. step = "read" /\ step' = "chunks" /\ saves' = saves /\ part' = part
    BY <1>3 DEF AllRead, vars, counts
  <2>2. part = 0
    BY <2>1 DEF UploadInv
  <2> QED
    BY <1>1, <2>1, <2>2 DEF ChunksStand
<1>4. CASE AddEntry
  <2>1. step = "chunks" /\ step' = "chunks" /\ saves' = saves /\ part' = 0
    BY <1>4 DEF AddEntry, AddFork, Changes
  <2> QED
    BY <1>1, <2>1 DEF ChunksStand
<1>5. CASE SendChunk
  <2>1. /\ step = "chunks" /\ item <= Len(todo) /\ part < Cardinality(Chunks(todo[item].data))
        /\ part' = part + 1 /\ UNCHANGED <<step, item, todo, saves>>
    BY <1>5 DEF SendChunk, vars, counts
  <2>2. item \in 1..Len(todo)
    BY <1>0, <2>1
  <2> DEFINE n == Cardinality(Chunks(todo[item].data))
  <2>3. n \in Nat
    BY <1>0, <2>2, EntryChunks
  <2>4. part + 1 <= n
    <3>1. part < n
      BY <2>1
    <3> HIDE DEF n
    <3> QED
      BY <1>0, <2>3, <3>1
  <2>5. n' = n
    BY <2>1 DEF Chunks
  <2>6. part' <= n'
    <3> HIDE DEF n
    <3> QED
      BY <2>1, <2>4, <2>5
  <2> QED
    BY <2>1, <2>6 DEF ChunksStand
<1>6. CASE ReadFile \/ ChunkFails
  <2>1. step \in {"read", "load", "chunks"} /\ step' \in {"read", "load", "done"} /\ saves' = saves
    BY <1>6 DEF ReadFile, OpenToRead, ReadBlock, EndOfFile, ChunkFails, Abandons, Returns, vars, counts
  <2> QED
    BY <2>1 DEF ChunksStand
<1>7. CASE SaveManifest
  <2>1. step' = "save" /\ at' = 1
    BY <1>7 DEF SaveManifest, SaveRecursively
  <2> QED
    BY <2>1 DEF ChunksStand
<1>8. CASE SaveNode
  <2>1. CASE step' = "done"
    BY <2>1 DEF ChunksStand
  <2>2. CASE step' # "done"
    <3>1. /\ step = "save" /\ step' = "save"
          /\ Descend \/ (Upload /\ at # 1)
      <4>1. CASE Descend /\ UNCHANGED <<step, result>>
        BY <1>8, <4>1 DEF SaveNode
      <4>2. CASE Upload /\ IF at = 1 THEN Returns("ok") ELSE UNCHANGED <<step, result>>
        <5>1. at # 1
          BY <2>2, <4>2 DEF Returns
        <5> QED
          BY <1>8, <4>2, <5>1 DEF SaveNode
      <4>3. ~ (UploadFails /\ Returns("error"))
        BY <2>2 DEF Returns
      <4> QED
        BY <1>8, <4>1, <4>2, <4>3 DEF SaveNode
    <3>2. TrieInv /\ at # 0
      BY <3>1 DEF UploadInv, ChunksStand
    <3>3. PICK X : Trie(trie, 0..adds, X)
      BY <3>2 DEF TrieInv
    <3>4. at \in DOMAIN trie /\ Standing(trie)
      BY <3>2 DEF TrieInv
    <3>5. CASE Descend
      <4>1. at' \in Children(trie, at)
        BY <3>5 DEF Descend, Pending
      <4>2. PICK b \in DOMAIN trie[at].forks : at' = trie[at].forks[b]
        BY <4>1 DEF Children
      <4>3. Child(trie, at, b, trie[at].forks[b])
        BY <3>3, <3>4, ForkLeads
      <4>4. at' \in DOMAIN trie
        BY <4>2, <4>3 DEF Child
      <4>5. PICK c : c = at'
        OBVIOUS
      <4>6. c \in Nat \ {0}
        BY <3>3, <4>4, <4>5, TrieNode
      <4> QED
        BY <3>1, <4>5, <4>6 DEF ChunksStand
    <3>6. CASE Upload /\ at # 1
      <4>1. at' = trie[at].parent
        BY <3>6 DEF Upload
      <4>2. PICK c : c = trie[at].parent
        OBVIOUS
      <4>3. c \in DOMAIN trie
        BY <3>3, <3>4, <3>6, <4>2, ParentKnown
      <4>4. c \in Nat \ {0}
        BY <3>3, <4>3, TrieNode
      <4> QED
        BY <3>1, <4>1, <4>2, <4>4 DEF ChunksStand
    <3> QED
      BY <3>1, <3>5, <3>6
  <2> QED
    BY <2>1, <2>2
<1>9. CASE Writes
  <2>1. step \notin {"save", "done"} /\ step' \in {"header", "open", "copy", "done"} /\ saves' = saves
    BY <1>9 DEF Writes, WriteHeader, OpenFile, WriteBlock, FileWritten, CloseArchive, Fails, vars, counts
  <2> QED
    BY <2>1 DEF ChunksStand
<1>10. CASE MakeRequest \/ NoRequest \/ Answer \/ Abort \/ RequestFails \/ UserEdits \/ UNCHANGED upVars
  <2>1. UNCHANGED <<step, item, part, todo, saves, at>>
    BY <1>10 DEF MakeRequest, NoRequest, Answer, Abort, RequestFails, UserEdits, upVars, work, vars, counts
  <2>2. (Cardinality(Chunks(todo[item].data)))' = Cardinality(Chunks(todo[item].data))
    BY <2>1 DEF Chunks
  <2> QED
    BY <2>1, <2>2 DEF ChunksStand
<1> QED
  BY <1>2, <1>3, <1>4, <1>5, <1>6, <1>7, <1>8, <1>9, <1>10 DEF UploadNext, Proceeds, Streams

LEMMA UploadStands ==
  UploadSpec => [](UploadedInv /\ PipeStands /\ ChunksStand)
<1> DEFINE Inv == UploadedInv /\ PipeStands /\ ChunksStand
<1>1. UploadInit => Inv
  BY UploadedInvInit, PipeStandsInit, ChunksStandInit
<1>2. Inv /\ [UploadNext]_upVars => Inv'
  <2> SUFFICES ASSUME Inv, [UploadNext]_upVars PROVE Inv'
    OBVIOUS
  <2>1. UploadedInv'
    BY UploadedInvStep
  <2>2. PipeStands'
    BY PipeStandsStep DEF UploadedInv
  <2>3. ChunksStand'
    BY <2>1, ChunksStandStep DEF UploadedInv
  <2> QED
    BY <2>1, <2>2, <2>3
<1> HIDE DEF Inv
<1>3. UploadSpec => []Inv
  BY <1>1, <1>2, PTL DEF UploadSpec
<1> QED
  BY <1>3 DEF Inv

(***************************************************************************)
(* Neither the goroutine that writes an archive nor the request that reads *)
(* it waits for the other once that has stopped, and no way of uploading   *)
(* stops before it has a result: until the upload is over, something the   *)
(* program does by itself can be done.                                     *)
(***************************************************************************)
THEOREM UploadNeverStuck == UploadSpec => []UploadGoesOn
<1>1. UploadedInv /\ PipeStands /\ ChunksStand => UploadGoesOn
  <2> SUFFICES ASSUME UploadedInv, PipeStands, ChunksStand, Len(todo) <= MaxAdds, 0 < MaxSaves, ~ Settled,
                      step # "start"
               PROVE  StreamReady \/ WriterReady \/ RequestReady
    BY DEF UploadGoesOn
  <2>1. /\ UploadInv /\ SeenInv /\ NamedInv /\ Requested /\ StreamInv
    BY DEF UploadedInv
  <2>2. CASE Streaming
    <3>1. step \in {"read", "load", "chunks", "save"}
      <4>1. request = "none"
        BY <2>1, <2>2 DEF Requested
      <4> QED
        BY <2>1, <2>2 DEF PipeStands, StepNames, StreamInv, Settled
    <3>2. CASE step = "chunks"
      <4>1. /\ item = adds + 1 /\ item \in Nat \ {0} /\ part \in Nat /\ at = 0 /\ saves = 0
            /\ Len(todo) \in Nat /\ adds \in Nat
        BY <2>1, <3>2, TodoLength DEF UploadInv, NamedInv, ChunksStand, TrieInv
      <4>2. CASE item <= Len(todo)
        <5> DEFINE n == Cardinality(Chunks(todo[item].data))
        <5>1. item \in 1..Len(todo) /\ todo \in Seq([path : Paths, data : Seq(Block)])
          BY <2>1, <4>1, <4>2 DEF UploadInv
        <5>2. n \in Nat
          BY <5>1, EntryChunks
        <5>3. part <= n
          BY <3>2, <4>2 DEF ChunksStand
        <5> HIDE DEF n
        <5>4. part < n \/ part = n
          BY <4>1, <5>2, <5>3
        <5>5. adds < MaxAdds
          BY <4>1, <4>2, ConstantsAssumption
        <5> QED
          BY <3>2, <4>2, <5>4, <5>5 DEF StreamReady, n
      <4>3. CASE ~ (item <= Len(todo))
        <5>1. item > Len(todo) /\ saves < MaxSaves
          BY <4>1, <4>3
        <5> QED
          BY <3>2, <4>1, <5>1 DEF StreamReady
      <4> QED
        BY <4>2, <4>3
    <3> QED
      BY <3>1, <3>2 DEF StreamReady, ChunksStand
  <2>3. CASE ~ Streaming
    <3>1. Archives /\ step \in {"header", "open", "copy", "done"}
      BY <2>1, <2>3 DEF SeenInv, StreamInv, PipeStands, StepNames, Archives, Streaming
    <3> QED
      BY <2>3, <3>1 DEF PipeStands, Settled, RequestReady, WriterReady, Writable
  <2> QED
    BY <2>2, <2>3
<1> QED
  BY <1>1, UploadStands, PTL

=============================================================================
