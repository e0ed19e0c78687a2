------------------------------- MODULE Stamper --------------------------------
(***************************************************************************)
(* The client-side stamper of pkg/postage/stamper.go.  The first bits of a *)
(* chunk address choose a bucket; a stamp carries the bucket and its next  *)
(* free height as an index.  The network keeps one chunk per index, so two *)
(* stamps with one index lose a chunk.                                     *)
(*                                                                         *)
(* The counters are plain memory without a lock.  Several goroutines may   *)
(* call Stamp (chunks are uploaded concurrently), so a call is modelled by *)
(* its accesses to the counter: read it and compare it with the limit,     *)
(* load and store it to increment it, and sign.  A call with an address of *)
(* the wrong length returns before any of them.                            *)
(***************************************************************************)
EXTENDS Integers, Sequences, FiniteSets

CONSTANTS
  Threads,     (* goroutines that call Stamp                               *)
  Buckets,     (* the buckets (2^16 in the code)                           *)
  BucketBits,  (* bits of an address that choose the bucket (16)           *)
  Word,        (* number of values of a counter and of the limit (2^32)    *)
  Depth,       (* depth of the postage batch                               *)
  MaxCalls     (* bound: calls of Stamp                                    *)

(* NewStamper refuses any other depth.                                     *)
ASSUME DepthAssumption ==
  /\ BucketBits \in Nat
  /\ Depth \in Nat
  /\ Depth > BucketBits

ASSUME BoundsAssumption ==
  /\ Word \in Nat \ {0}
  /\ MaxCalls \in Nat
  /\ IsFiniteSet(Threads)

VARIABLES
  buckets,  (* the next free height of each bucket                         *)
  pc,       (* pc[t]: where goroutine t stands in Stamp                    *)
  bucket,   (* bucket[t]: the bucket of its chunk                          *)
  height,   (* height[t]: the height it read                               *)
  loaded,   (* loaded[t]: the counter it is incrementing                   *)
  calls,    (* number of calls so far                                      *)
  issued,   (* history: the indexes of the stamps returned                 *)
  burnt,    (* history: burnt[b]: indexes lost to a failed signature       *)
  refused,  (* history: buckets that were reported full                    *)
  raced     (* history: buckets two calls counted on at the same time      *)

local   == <<pc, bucket, height, loaded>>
history == <<issued, burnt, refused, raced>>
vars    == <<buckets, local, calls, history>>

Index == [bucket : Buckets, height : Nat]

(* The limit of a bucket: a shift that drops the bits beyond its word, as  *)
(* NewStamper bounds Depth from below only.                                *)
MaxSlot == 2^(Depth - BucketBits) % Word

Init ==
  /\ buckets = [b \in Buckets |-> 0]
  /\ pc = [t \in Threads |-> "idle"]
  /\ bucket \in [Threads -> Buckets]
  /\ height = [t \in Threads |-> 0]
  /\ loaded = [t \in Threads |-> 0]
  /\ calls = 0
  /\ issued = <<>>
  /\ burnt = [b \in Buckets |-> 0]
  /\ refused = {}
  /\ raced = {}

Moves(t, from, to) == pc[t] = from /\ pc' = [pc EXCEPT ![t] = to]

(* t is between its reading of the counter of b and its store.             *)
Counting(t, b) == pc[t] \in {"check", "load", "store"} /\ bucket[t] = b

(* A definition between a helper's comment and the helper is a seeded      *)
(* fault of it.                                                            *)

(* The bucket has no slot left.                                            *)
FullOneEarly(h) == h + 1 >= MaxSlot
IsFull(h) == h >= MaxSlot

(* The counters after t stored the value it incremented.                   *)
StoresHeight(t) == [buckets EXCEPT ![bucket[t]] = IF loaded[t] = 0 THEN 1 ELSE loaded[t]]
Stores(t) == [buckets EXCEPT ![bucket[t]] = loaded[t] + 1]

(* Stamp is called for a chunk of bucket b and reads the counter.          *)
Stamp(t, b) ==
  /\ Moves(t, "idle", "check")
  /\ calls < MaxCalls
  /\ calls' = calls + 1
  /\ bucket' = [bucket EXCEPT ![t] = b]
  /\ height' = [height EXCEPT ![t] = buckets[b]]
  /\ raced' = IF \E u \in Threads : Counting(u, b) THEN raced \cup {b} ELSE raced
  /\ UNCHANGED <<buckets, loaded, issued, burnt, refused>>

(* The bucket is full: Stamp returns an error.                             *)
Refuse(t) ==
  /\ Moves(t, "check", "idle")
  /\ IsFull(height[t])
  /\ refused' = refused \cup {bucket[t]}
  /\ UNCHANGED <<buckets, bucket, height, loaded, calls, issued, burnt, raced>>

Proceed(t) ==
  /\ Moves(t, "check", "load")
  /\ ~IsFull(height[t])
  /\ UNCHANGED <<buckets, bucket, height, loaded, calls, history>>

(* buckets[bucket]++ loads the counter again, and stores it.               *)
Load(t) ==
  /\ Moves(t, "load", "store")
  /\ loaded' = [loaded EXCEPT ![t] = buckets[bucket[t]]]
  /\ UNCHANGED <<buckets, bucket, height, calls, history>>

Store(t) ==
  /\ Moves(t, "store", "sign")
  /\ buckets' = Stores(t)
  /\ UNCHANGED <<bucket, height, loaded, calls, history>>

(* The signed stamp is returned.                                           *)
Sign(t) ==
  /\ Moves(t, "sign", "idle")
  /\ issued' = Append(issued, [bucket |-> bucket[t], height |-> height[t]])
  /\ UNCHANGED <<buckets, bucket, height, loaded, calls, burnt, refused, raced>>

(* The signature fails: the counter stays incremented.                     *)
SignFails(t) ==
  /\ Moves(t, "sign", "idle")
  /\ burnt' = [burnt EXCEPT ![bucket[t]] = @ + 1]
  /\ UNCHANGED <<buckets, bucket, height, loaded, calls, issued, refused, raced>>

Next ==
  \E t \in Threads :
    \/ \E b \in Buckets : Stamp(t, b)
    \/ Refuse(t)
    \/ Proceed(t)
    \/ Load(t)
    \/ Store(t)
    \/ Sign(t)
    \/ SignFails(t)

Spec == Init /\ [][Next]_vars

-----------------------------------------------------------------------------

(* Types of the variables.                                                 *)
TypeOK ==
  /\ buckets \in [Buckets -> Nat]
  /\ pc \in [Threads -> {"idle", "check", "load", "store", "sign"}]
  /\ bucket \in [Threads -> Buckets]
  /\ height \in [Threads -> Nat]
  /\ loaded \in [Threads -> Nat]
  /\ calls \in Nat
  /\ issued \in Seq(Index)
  /\ burnt \in [Buckets -> Nat]
  /\ refused \subseteq Buckets
  /\ raced \subseteq Buckets

(* Two stamps share an index only in a bucket on which two calls counted   *)
(* at the same time: calls on different buckets never disturb each other,  *)
(* nor does a call that is still signing, nor a failed signature.          *)
UniqueIndex ==
  \A i, j \in 1..Len(issued) :
    i # j /\ issued[i] = issued[j] => issued[i].bucket \in raced

(* Even when calls race, no stamp has a height beyond its bucket, which    *)
(* the network would reject.                                               *)
HeightInRange == \A i \in 1..Len(issued) : issued[i].height < MaxSlot

(* The indexes of bucket b that are issued, lost or about to be signed.    *)
Spent(b) ==
  Cardinality({i \in 1..Len(issued) : issued[i].bucket = b})
    + burnt[b]
    + Cardinality({t \in Threads : pc[t] = "sign" /\ bucket[t] = b})

(* A bucket is reported full only when all the indexes it has in a batch   *)
(* of this depth are spent: without a race no slot is skipped.             *)
FullMeansSpent == \A b \in refused \ raced : Spent(b) = 2^(Depth - BucketBits)

=============================================================================
