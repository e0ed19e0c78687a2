--------------------------- MODULE StorageExtension ---------------------------
(***************************************************************************)
(* Extending a postage batch, storage.go.  A batch has a depth and, for    *)
(* each chunk it can stamp, a balance that every block of the chain draws  *)
(* the price from.  A top-up adds to the balance, a dilution to depth + d  *)
(* divides it by 2^d.  ExtendStorage and ExtendStorageSize therefore read  *)
(* the batch and the price, top up by what the dilution will take, and     *)
(* dilute: four requests, with blocks, price changes and other callers     *)
(* between them, each of which may fail, and the last two of which may be  *)
(* served although their answers are lost.                                 *)
(*                                                                         *)
(* A size is given by the depth that GetDepthForSize finds for it.         *)
(***************************************************************************)
EXTENDS Integers

CONSTANTS
  Callers,       (* those who extend the batch                             *)
  Kinds,         (* functions they call: "extend", "size", "duration"      *)
  BlockTime,     (* seconds per block                                      *)
  Prices,        (* prices per block the chain may set                     *)
  Depths,        (* depths of the sizes asked for                          *)
  Durations,     (* durations asked for, in seconds                        *)
  FirstDepth,    (* depth of the batch at first                            *)
  FirstBalance,  (* balance of the batch at first                          *)
  MaxCalls,      (* bound: calls                                           *)
  MaxBlocks      (* bound: blocks                                          *)

ASSUME ConstantsAssumption ==
  /\ Kinds \subseteq {"extend", "size", "duration"}
  /\ BlockTime \in Nat \ {0}
  /\ Prices \subseteq Nat \ {0}
  /\ Prices # {}
  /\ Depths \subseteq Nat
  /\ Durations \subseteq Nat
  /\ FirstDepth \in Nat
  /\ FirstBalance \in Nat
  /\ MaxCalls \in Nat
  /\ MaxBlocks \in Nat

VARIABLES
  depth,      (* depth of the batch                                        *)
  balance,    (* its balance per chunk                                     *)
  price,      (* price per block and chunk                                 *)
  blocks,     (* number of blocks so far                                   *)
  calls,      (* number of calls so far                                    *)
  pc,         (* pc[c]: where caller c stands                              *)
  call,       (* call[c]: its call, and what it has read                   *)
  requests,   (* top-ups and dilutions sent and not served yet             *)
  answers,    (* answers of the node on their way                          *)
  baseline,   (* history: the balance, had nobody extended the batch       *)
  promised,   (* history: promised[k]: blocks the calls of kind k that     *)
              (* succeeded were asked to add                               *)
  funded,     (* history: calls whose top-up was served                    *)
  unfunded,   (* history: calls whose dilution was served first            *)
  disturbed   (* history: "price": the price moved, "overlap": two calls   *)
              (* overlapped, or one came before a late request was served  *)

batch   == <<depth, balance>>
chain   == <<price, blocks, baseline>>
callers == <<calls, pc, call>>
history == <<promised, funded, unfunded>>
vars    == <<batch, chain, callers, requests, answers, history, disturbed>>

Idle == [id |-> 0]

Init ==
  /\ depth = FirstDepth
  /\ balance = FirstBalance
  /\ price \in Prices
  /\ blocks = 0
  /\ calls = 0
  /\ pc = [c \in Callers |-> "idle"]
  /\ call = [c \in Callers |-> Idle]
  /\ requests = {}
  /\ answers = {}
  /\ baseline = FirstBalance
  /\ promised = [k \in Kinds |-> 0]
  /\ funded = {}
  /\ unfunded = {}
  /\ disturbed = {}

-----------------------------------------------------------------------------
(* The arithmetic.  A definition between a helper's comment and the helper *)
(* is a seeded fault of it.                                                *)

(* The chunks of a batch of depth n, and the factor that n more bits make. *)
PowerOfTwo[n \in Nat] == IF n = 0 THEN 1 ELSE 2 * PowerOfTwo[n - 1]

(* GetAmountForDuration: the balance that lasts for a duration.            *)
AmountForDuration(seconds, perBlock, blockTime) ==
  (seconds \div blockTime) * perBlock + 1

(* The remaining time the node reports.                                    *)
Ttl == (balance \div price) * BlockTime

CurrentAmount(k) == AmountForDuration(k.ttl, k.price, BlockTime)

(* How many times more chunks the call asks for.                           *)
DepthDelta(k) == IF k.size > k.depth THEN k.size - k.depth ELSE 1
Multiplier(k) == IF k.size > k.depth THEN PowerOfTwo[k.size - k.depth] ELSE 1

(* What ExtendStorage tops up: the balance of the extended batch, times    *)
(* the multiplier, less the present one.                                   *)
UndilutedDelta(k) ==
  IF k.duration = 0
  THEN CurrentAmount(k) * (Multiplier(k) - 1)
  ELSE AmountForDuration(k.duration, k.price, BlockTime)
         + CurrentAmount(k) * (Multiplier(k) - 1)

AmountDelta(k) ==
  IF k.duration = 0
  THEN CurrentAmount(k) * Multiplier(k) - CurrentAmount(k)
  ELSE (CurrentAmount(k) + AmountForDuration(k.duration, k.price, BlockTime))
         * Multiplier(k) - CurrentAmount(k)

(* What the call tops up; ExtendStorageDuration passes the block time for  *)
(* the price and the price for the block time.                             *)
TopUp(k) ==
  CASE k.kind = "extend"   -> AmountDelta(k)
    [] k.kind = "size"     -> CurrentAmount(k) * (Multiplier(k) - 1) + 1
    [] k.kind = "duration" -> AmountForDuration(k.duration, BlockTime, k.price)

Cost(d, amount) == PowerOfTwo[d] * amount

Larger(a, b) == IF a > b THEN a ELSE b

(* GetExtensionCost, from the same readings of the batch and the price.    *)
QuoteAtCurrentDepth(k) ==
  Cost(k.depth, CurrentAmount(k)
         + (IF k.duration = 0 THEN 0 ELSE AmountForDuration(k.duration, k.price, BlockTime)))
    - Cost(k.depth, CurrentAmount(k))

ExtensionCost(k) ==
  Cost(Larger(k.size, k.depth), CurrentAmount(k)
         + (IF k.duration = 0 THEN 0 ELSE AmountForDuration(k.duration, k.price, BlockTime)))
    - Cost(k.depth, CurrentAmount(k))

(* GetSizeExtensionCost, likewise.                                         *)
SizeExtensionCost(k) == Cost(k.size, CurrentAmount(k)) - Cost(k.depth, CurrentAmount(k))

(* The call dilutes the batch after its top-up.                            *)
Dilutes(k) == k.kind # "duration" /\ k.size > k.depth

-----------------------------------------------------------------------------
(* The callers.                                                            *)

Busy == requests # {} \/ \E c \in Callers : pc[c] # "idle"

Moves(c, from, to) == pc[c] = from /\ pc' = [pc EXCEPT ![c] = to]

Starts(c, kind, size, duration) ==
  /\ Moves(c, "idle", IF kind = "duration" THEN "readPrice" ELSE "readBatch")
  /\ calls < MaxCalls
  /\ calls' = calls + 1
  /\ call' = [call EXCEPT ![c] =
       [id |-> calls + 1, kind |-> kind, size |-> size, duration |-> duration,
        depth |-> 0, ttl |-> 0, price |-> 0]]
  /\ disturbed' = IF Busy THEN disturbed \cup {"overlap"} ELSE disturbed
  /\ UNCHANGED <<batch, chain, requests, answers, history>>

ExtendStorage(c) ==
  /\ "extend" \in Kinds
  /\ \E size \in Depths, duration \in Durations : Starts(c, "extend", size, duration)

ExtendStorageSize(c) ==
  /\ "size" \in Kinds
  /\ \E size \in Depths : Starts(c, "size", size, 0)

ExtendStorageDuration(c) ==
  /\ "duration" \in Kinds
  /\ \E duration \in Durations : Starts(c, "duration", 0, duration)

GetPostageBatch(c) ==
  /\ Moves(c, "readBatch", "readPrice")
  /\ call' = [call EXCEPT ![c].depth = depth, ![c].ttl = Ttl]
  /\ UNCHANGED <<batch, chain, calls, requests, answers, history, disturbed>>

ChainPrice(c) ==
  /\ Moves(c, "readPrice", "decide")
  /\ call' = [call EXCEPT ![c].price = price]
  /\ UNCHANGED <<batch, chain, calls, requests, answers, history, disturbed>>

(* A call ends, with or without an error.                                  *)
Fails(c) ==
  /\ pc' = [pc EXCEPT ![c] = "idle"]
  /\ call' = [call EXCEPT ![c] = Idle]
  /\ UNCHANGED promised

Succeeds(c) ==
  /\ pc' = [pc EXCEPT ![c] = "idle"]
  /\ call' = [call EXCEPT ![c] = Idle]
  /\ promised' = [promised EXCEPT ![call[c].kind] = @ + (call[c].duration \div BlockTime)]

ReadFails(c) ==
  /\ pc[c] \in {"readBatch", "readPrice"}
  /\ Fails(c)
  /\ UNCHANGED <<batch, chain, calls, requests, answers, funded, unfunded, disturbed>>

Sends(c, op, argument) ==
  /\ requests' = requests \cup {[id |-> call[c].id, op |-> op, argument |-> argument]}
  /\ UNCHANGED <<batch, chain, calls, call, answers, history, disturbed>>

(* A size that is not larger is an error for ExtendStorageSize only.       *)
Decline(c) ==
  /\ pc[c] = "decide"
  /\ call[c].kind = "size" /\ ~Dilutes(call[c])
  /\ Fails(c)
  /\ UNCHANGED <<batch, chain, calls, requests, answers, funded, unfunded, disturbed>>

(* There is nothing to add: ExtendStorage with no duration and no growth.  *)
NothingToDo(c) ==
  /\ pc[c] = "decide"
  /\ call[c].kind = "extend" /\ TopUp(call[c]) = 0
  /\ Succeeds(c)
  /\ UNCHANGED <<batch, chain, calls, requests, answers, funded, unfunded, disturbed>>

TopUpBatch(c) ==
  /\ Moves(c, "decide", "toppingUp")
  /\ call[c].kind = "size" => Dilutes(call[c])
  /\ call[c].kind = "extend" => TopUp(call[c]) > 0
  /\ Sends(c, "topUp", TopUp(call[c]))

Answered(c, op, ok) == [id |-> call[c].id, op |-> op, ok |-> ok] \in answers

(* Seeded fault: the top-up's answer is not waited for.                    *)
DiluteUnanswered(c) ==
  /\ Moves(c, "toppingUp", "diluting")
  /\ Dilutes(call[c])
  /\ Sends(c, "dilute", call[c].size)

DiluteBatch(c) ==
  /\ Moves(c, "toppingUp", "diluting")
  /\ Answered(c, "topUp", TRUE)
  /\ Dilutes(call[c])
  /\ Sends(c, "dilute", call[c].size)

Return(c) ==
  /\ \/ pc[c] = "toppingUp" /\ Answered(c, "topUp", TRUE) /\ ~Dilutes(call[c])
     \/ pc[c] = "diluting" /\ Answered(c, "dilute", TRUE)
  /\ Succeeds(c)
  /\ UNCHANGED <<batch, chain, calls, requests, answers, funded, unfunded, disturbed>>

(* The node refuses, or the answer is lost or too late.                    *)
ReturnError(c) ==
  /\ pc[c] \in {"toppingUp", "diluting"}
  /\ Fails(c)
  /\ UNCHANGED <<batch, chain, calls, requests, answers, funded, unfunded, disturbed>>

-----------------------------------------------------------------------------
(* The node and the chain.                                                 *)

Serve(r, ok) ==
  /\ requests' = requests \ {r}
  /\ answers' = answers \cup {[id |-> r.id, op |-> r.op, ok |-> ok]}
  /\ UNCHANGED <<chain, callers, promised, disturbed>>

ServeTopUp(r) ==
  /\ r.op = "topUp"
  /\ balance' = balance + r.argument
  /\ funded' = funded \cup {r.id}
  /\ UNCHANGED <<depth, unfunded>>
  /\ Serve(r, TRUE)

(* The depth of a batch only grows.                                        *)
ServeDilute(r) ==
  /\ r.op = "dilute"
  /\ IF r.argument > depth
     THEN /\ depth' = r.argument
          /\ balance' = balance \div PowerOfTwo[r.argument - depth]
          /\ unfunded' = unfunded \cup ({r.id} \ funded)
          /\ Serve(r, TRUE)
     ELSE UNCHANGED <<batch, unfunded>> /\ Serve(r, FALSE)
  /\ UNCHANGED funded

(* The bound keeps the batch from expiring.                                *)
Block ==
  /\ blocks < MaxBlocks
  /\ balance >= price
  /\ baseline >= price
  /\ blocks' = blocks + 1
  /\ balance' = balance - price
  /\ baseline' = baseline - price
  /\ UNCHANGED <<depth, price, callers, requests, answers, history, disturbed>>

SetPrice ==
  /\ price' \in Prices \ {price}
  /\ disturbed' = disturbed \cup {"price"}
  /\ UNCHANGED <<batch, blocks, baseline, callers, requests, answers, history>>

Next ==
  \/ \E c \in Callers :
       \/ ExtendStorage(c)
       \/ ExtendStorageSize(c)
       \/ ExtendStorageDuration(c)
       \/ GetPostageBatch(c)
       \/ ChainPrice(c)
       \/ ReadFails(c)
       \/ Decline(c)
       \/ NothingToDo(c)
       \/ TopUpBatch(c)
       \/ DiluteBatch(c)
       \/ Return(c)
       \/ ReturnError(c)
  \/ \E r \in requests : ServeTopUp(r) \/ ServeDilute(r)
  \/ Block
  \/ SetPrice

Spec == Init /\ [][Next]_vars

-----------------------------------------------------------------------------

Call == [id : Nat, kind : Kinds, size : Nat, duration : Nat, depth : Nat, ttl : Nat, price : Nat]

(* Types of the variables.                                                 *)
TypeOK ==
  /\ depth \in Nat
  /\ balance \in Nat
  /\ price \in Prices
  /\ blocks \in Nat
  /\ calls \in Nat
  /\ pc \in [Callers -> {"idle", "readBatch", "readPrice", "decide", "toppingUp", "diluting"}]
  /\ call \in [Callers -> Call \cup {Idle}]
  /\ requests \subseteq [id : Nat, op : {"topUp", "dilute"}, argument : Nat]
  /\ answers \subseteq [id : Nat, op : {"topUp", "dilute"}, ok : BOOLEAN]
  /\ baseline \in Nat
  /\ promised \in [Kinds -> Nat]
  /\ funded \subseteq Nat
  /\ unfunded \subseteq Nat
  /\ disturbed \subseteq {"price", "overlap"}

(* However calls interleave and fail, no dilution reaches the batch before *)
(* the top-up that pays for it.                                            *)
DilutionFunded == unfunded = {}

(* Extending a batch never shortens it: unless the price moves or two      *)
(* calls overlap, it lasts for as many more blocks as if nobody had        *)
(* touched it, and for those the successful calls of ExtendStorage         *)
(* promised, whatever other calls have failed half-way.                    *)
ExtendedAsPromised ==
  disturbed = {} =>
    (balance \div price) >=
      (baseline \div price) + (IF "extend" \in Kinds THEN promised["extend"] ELSE 0)

(* Two overlapping calls may undo each other's extensions, but not what    *)
(* the batch had, in whole blocks, as long as the price stays.             *)
NeverShorter == "price" \notin disturbed => (balance \div price) >= (baseline \div price)

(* What an extension is about to spend is what GetExtensionCost or         *)
(* GetSizeExtensionCost quotes for the same batch and price, except for    *)
(* the one unit per chunk that ExtendStorageSize adds.                     *)
QuoteHolds ==
  \A c \in Callers :
    pc[c] = "decide" =>
      CASE call[c].kind = "extend"   -> Cost(call[c].depth, TopUp(call[c])) = ExtensionCost(call[c])
        [] call[c].kind = "size"     ->
             Dilutes(call[c]) =>
               Cost(call[c].depth, TopUp(call[c]) - 1) = SizeExtensionCost(call[c])
        [] call[c].kind = "duration" -> TRUE

(* What the doc of ExtendStorageDuration says: it tops the batch up by     *)
(* enough to extend its time by the duration.                              *)
DurationExtended ==
  disturbed = {} => (balance \div price) >= (baseline \div price) + promised["duration"]

=============================================================================
