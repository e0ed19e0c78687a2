------------------------------ MODULE NodeCalls ------------------------------
(***************************************************************************)
(* The calls of pkg/debug and pkg/api (and the queries of pkg/postage) on a*)
(* node: one HTTP request each, sent once, with no state kept in between.  *)
(* Callers call concurrently; the node changes on its own as well.  An     *)
(* answer may be lost, and a request that was given up may be served later.*)
(*                                                                         *)
(* Methods that differ only in path and fields are told apart by what they *)
(* do to the node and by how they read the answer.                         *)
(***************************************************************************)
EXTENDS Integers, FiniteSets

CONSTANTS
  Callers,      (* goroutines that use the client                           *)
  MaxCalls,     (* bound: calls made                                        *)
  MaxInfo,      (* bound: values of what the node tells about itself        *)
  Refs,         (* references that may be pinned                            *)
  PriceRange,   (* a price is read modulo this, 2^64 in the code            *)
  RowBytes,     (* bytes of a row of a pin check, without the line feed     *)
  BodyBytes,    (* MaxCheckPinsResponseBytes                                *)
  MaxRows       (* bound: rows of a pin check                               *)

ASSUME NodeCallsAssumption ==
  /\ {MaxCalls, MaxInfo, MaxRows} \subseteq Nat
  /\ {PriceRange, RowBytes, BodyBytes} \subseteq Nat \ {0}

VARIABLES
  node,    (* what the node holds                                           *)
  call,    (* call[p]: the caller's call: the request, the answer, the      *)
           (* result, and (history) the answers that are true meanwhile     *)
  late,    (* requests given up by their callers and not yet served         *)
  calls,   (* number of calls made                                          *)
  hashes   (* history: <<request, hash>> of the transactions sent           *)

vars == <<node, call, late, calls, hashes>>

-----------------------------------------------------------------------------
(* The methods, by what they ask of the node.                              *)

(* One answer to a question, decoded.                                      *)
HealthReads == {"GetHealth", "GetVersions", "IsSupportedExactVersion", "IsSupportedAPIVersion"}
StatusReads == {"Status", "StatusPeers", "StatusNeighborhoods"}
WelcomeReads == {"GetWelcomeMessage"}
NodeReads == {"NodeInfo"}
NetworkReads == {"ReserveState", "Topology", "Peers", "Addresses"}
WalletReads == {"GetWallet"}
ChequebookReads == {"GetChequebookBalance"}
SettlementReads == {"PeerSettlement", "Settlements"}
ChequeReads == {"LastCheques"}
PeerChequeReads == {"GetLastChequesForPeer", "GetLastCashoutAction"}
BalanceReads == {"GetBalances", "GetPeerBalance"}
AccountingReads == {"GetAccounting", "GetConsumed", "GetPeerConsumed"}
StakeReads == {"GetStake"}
WithdrawableReads == {"GetWithdrawableStake"}
RedistributionReads == {"RedistributionState"}
PeerReads == {"GetBlocklist"}
PeerPings == {"PingPeer", "ConnectPeer"}
LoggerReads == {"GetLoggers", "GetLoggersByExpression"}
SampleReads == {"RCHash"}
GranteeReads == {"GetGrantees"}
StewardReads == {"IsRetrievable"}
BatchReads == {"GetPostageBatches"}
GlobalBatchReads == {"GetGlobalPostageBatches"}
BucketReads == {"GetPostageBatchBuckets"}
Reads == HealthReads \cup StatusReads \cup WelcomeReads \cup NodeReads \cup NetworkReads \cup WalletReads
  \cup ChequebookReads \cup SettlementReads \cup ChequeReads \cup PeerChequeReads
  \cup BalanceReads \cup AccountingReads \cup StakeReads \cup WithdrawableReads
  \cup RedistributionReads \cup PeerReads \cup PeerPings \cup LoggerReads \cup SampleReads
  \cup GranteeReads \cup StewardReads \cup BatchReads \cup GlobalBatchReads \cup BucketReads

(* A transaction is sent, its hash returned.                               *)
WalletPayments == {"WithdrawBZZ", "WithdrawDAI"}
ChequebookPayments == {"DepositTokens", "WithdrawTokens"}
CashoutPayments == {"CashoutLastCheque"}
StakePayments == {"Stake"}
StakeWithdrawals == {"WithdrawSurplusStake", "MigrateStake"}
BatchPayments == {"CreatePostageBatch"}
Payments == WalletPayments \cup ChequebookPayments \cup CashoutPayments \cup StakePayments
  \cup StakeWithdrawals \cup BatchPayments

(* Something is made, and its name returned.                               *)
TagCreations == {"CreateTag"}
GranteeCreations == {"CreateGrantees", "PatchGrantees"}
EnvelopeCreations == {"PostEnvelope"}
Creations == TagCreations \cup GranteeCreations \cup EnvelopeCreations

(* A setting of the node is changed; the answer has no body to be read.    *)
(* SetLoggerVerbosity is an error without a request, as is SetLogger with a*)
(* verbosity that does not exist.                                          *)
WelcomeSettings == {"SetWelcomeMessage"}
LoggerSettings == {"SetLogger"}
TagSettings == {"UpdateTag"}
PeerSettings == {"RemovePeer"}
StewardSettings == {"Reupload"}
Settings == WelcomeSettings \cup LoggerSettings \cup TagSettings \cup PeerSettings
  \cup StewardSettings

(* What is named in the request is looked up, changed or dropped.          *)
PinRequests == {"Pin", "Unpin"}
PinLookups == {"GetPin"}
TagRequests == {"GetTag", "DeleteTag"}
TransactionRequests == {"GetPendingTransaction", "CancelPendingTransaction",
                        "RebroadcastPendingTransaction"}

(* All there are of a kind.                                                *)
PinLists == {"ListPins"}
TagLists == {"ListTags"}
TransactionLists == {"GetAllPendingTransactions"}
Lists == PinLists \cup TagLists \cup TransactionLists

(* Methods that read the answer in a way of their own.                     *)
Others == {"CheckPins", "IsGateway", "Readiness", "Health", "IsConnected", "ChainState",
           "ChequebookAddress"}

Methods == Reads \cup Payments \cup Creations \cup Settings \cup PinRequests \cup PinLookups
  \cup TagRequests \cup TransactionRequests \cup Lists \cup Others

(* The requests a method may make; methods of one kind make the same.      *)
Requests(method) ==
  CASE method \in Reads -> [do : {"read"}, to : {0}]
    [] method \in Payments -> [do : {"pay"}, to : {0}]
    [] method \in Creations -> [do : {"create"}, to : {0}]
    [] method \in Settings -> [do : {"set"}, to : 0..MaxInfo]
    [] method \in PinRequests \cup PinLookups -> [do : {method}, to : Refs]
    [] method \in TagRequests \cup TransactionRequests -> [do : {method}, to : 1..MaxCalls]
    [] OTHER -> [do : {method}, to : {0}]

-----------------------------------------------------------------------------
(* The node: how a request changes it, and the body of the answer.         *)

Effect(n, r) ==
  CASE r.do = "pay" -> [n EXCEPT !.sent = @ + 1, !.pending = @ \cup {n.sent + 1}]
    [] r.do = "CancelPendingTransaction" ->
         [n EXCEPT !.sent = @ + 1, !.pending = (@ \ {r.to}) \cup {n.sent + 1}]
    [] r.do = "create" -> [n EXCEPT !.made = @ + 1, !.tags = @ \cup {n.made + 1}]
    [] r.do = "DeleteTag" -> [n EXCEPT !.tags = @ \ {r.to}]
    [] r.do = "set" -> [n EXCEPT !.info = r.to]
    [] r.do = "Pin" -> [n EXCEPT !.pins = @ \cup {r.to}]
    [] r.do = "Unpin" -> [n EXCEPT !.pins = @ \ {r.to}]
    [] OTHER -> n

(* What there is none of is answered with 404.                             *)
Found(n, r) ==
  CASE r.do \in TagRequests -> r.to \in n.tags
    [] r.do \in TransactionRequests -> r.to \in n.pending
    [] r.do \in {"GetPin", "Unpin"} -> r.to \in n.pins
    [] OTHER -> TRUE

Body(n, r) ==
  CASE r.do \in {"pay", "CancelPendingTransaction"} -> n.sent + 1
    [] r.do = "RebroadcastPendingTransaction" -> r.to
    [] r.do = "create" -> n.made + 1
    [] r.do \in PinLists -> n.pins
    [] r.do \in TagLists -> n.tags
    [] r.do \in TransactionLists -> n.pending
    [] r.do = "IsGateway" -> "yes"
    [] r.do \in {"read", "ChainState", "ChequebookAddress"} -> n.info
    [] OTHER -> r.to

-----------------------------------------------------------------------------
(* The client: what a method returns for an answer.  "404" and "5xx" are   *)
(* error statuses, "none" is no answer, "garbled" one that does not decode,*)
(* "keyless" JSON without the fields asked for, "2xx" a success other than *)
(* 200, without a body.  GetPinAny, CountedNone and SentAgain, each before *)
(* the definition it stands in for, are seeded faults.                     *)

Error == [is |-> "error"]
Ok(value) == [is |-> "ok", value |-> value]

StatusOK(a) == a.is \in {"ok", "garbled", "keyless"}
CheckResponse(a) == StatusOK(a) \/ a.is = "2xx"

(* DecodeJSONResponse leaves what the answer lacks at its zero value.      *)
Decoded(a, zero) ==
  CASE a.is = "ok" -> Ok(a.body)
    [] a.is = "keyless" -> Ok(zero)
    [] OTHER -> Error

(* A payment's answer without a hash is an empty hash, and no error.       *)
Plain(a) == Decoded(a, "zero")

NoBody(a) == IF CheckResponse(a) THEN Ok("done") ELSE Error

(* Either of two keys; with none it is an error.                           *)
ChequebookAddress(a) == IF a.is = "ok" THEN Ok(a.body) ELSE Error

GetPinAny(a) == IF CheckResponse(a) THEN Ok("yes") ELSE Ok("no")
GetPin(a) ==
  CASE StatusOK(a) -> Ok("yes")
    [] a.is = "404" -> Ok("no")
    [] OTHER -> Error

(* Every error status means no, not only 404.                              *)
IsGateway(a) ==
  IF a.is \in {"404", "5xx"} THEN Ok("no") ELSE Decoded(a, "no")

Readiness(a) ==
  CASE StatusOK(a) -> Ok("yes")
    [] a.is = "none" -> Error
    [] OTHER -> Ok("no")

Health(a) == IF CheckResponse(a) THEN Ok("yes") ELSE Error

IsConnected(a) == IF CheckResponse(a) THEN Ok("yes") ELSE Ok("no")

(* The price is a decimal text of any length; of it the low bits are kept. *)
ChainState(a) ==
  IF a.is = "ok" THEN Ok(a.body % PriceRange) ELSE Decoded(a, 0)

(* The rows of a pin check: k rows are read while, without the blanks that *)
(* end them, they stay below the limit; the reader ends one byte behind it.*)
RowsWithin(blanks) == (BodyBytes + 1) \div (RowBytes + blanks + 1)
CountedNone(k) == 0
Counted(k) == k * (RowBytes + 1)
CheckPins(rows, blanks) ==
  LET whole == RowsWithin(blanks)
      rest == BodyBytes + 1 - whole * (RowBytes + blanks + 1)
      read == IF rows <= whole THEN rows ELSE whole + (IF rest >= RowBytes THEN 1 ELSE 0)
  IN  IF \/ Counted(read) > BodyBytes
         \/ rows > whole /\ rest \in 1..(RowBytes - 1)
      THEN Error ELSE Ok(read)

Result(r, a) ==
  CASE r.do \in {"set", "Pin", "Unpin", "DeleteTag"} -> NoBody(a)
    [] r.do = "GetPin" -> GetPin(a)
    [] r.do = "IsGateway" -> IsGateway(a)
    [] r.do = "Readiness" -> Readiness(a)
    [] r.do = "Health" -> Health(a)
    [] r.do = "IsConnected" -> IsConnected(a)
    [] r.do = "ChainState" -> ChainState(a)
    [] r.do = "ChequebookAddress" -> ChequebookAddress(a)
    [] r.do = "CheckPins" -> IF a.is = "ok" THEN CheckPins(a.body[1], a.body[2]) ELSE Error
    [] OTHER -> Plain(a)

-----------------------------------------------------------------------------
(* What a result says that is true of node n.                              *)
Truth(n, r) ==
  CASE r.do = "GetPin" -> IF r.to \in n.pins THEN "yes" ELSE "no"
    [] r.do = "Readiness" -> n.ready
    [] OTHER -> Body(n, r)

Silent == [at |-> "none"]

Init ==
  /\ node = [pins |-> {}, tags |-> {}, made |-> 0, sent |-> 0, pending |-> {}, info |-> 0,
             ready |-> "yes"]
  /\ call = [p \in Callers |-> Silent]
  /\ late = {}
  /\ calls = 0
  /\ hashes = {}

Start(p) ==
  /\ call[p].at \in {"none", "done"} /\ calls < MaxCalls
  /\ \E method \in Methods :
       \E r \in Requests(method) :
         call' = [call EXCEPT ![p] = [at |-> "sent", id |-> calls + 1, request |-> r,
                                      true |-> {Truth(node, r)}]]
  /\ calls' = calls + 1
  /\ UNCHANGED <<node, late, hashes>>

(* The node becomes n: the calls under way may tell so.                    *)
Witnessed(running, n) ==
  [p \in Callers |->
     IF running[p].at = "sent"
     THEN [running[p] EXCEPT !.true = @ \cup {Truth(n, running[p].request)}]
     ELSE running[p]]

(* The node does what request r of call id asks for.                       *)
Done(id, r) ==
  LET n == IF Found(node, r) THEN Effect(node, r) ELSE node IN
  /\ node' = n
  /\ hashes' = hashes \cup {<<id, h>> : h \in (node.sent + 1)..n.sent}

Answers(r) ==
  CASE ~Found(node, r) -> {[is |-> "404"]}
    [] r.do = "Readiness" /\ node.ready = "no" -> {[is |-> "5xx"]}
    [] r.do = "IsGateway" -> {[is |-> "404"], [is |-> "ok", body |-> "yes"],
                              [is |-> "garbled"], [is |-> "keyless"]}
    [] r.do = "CheckPins" -> [is : {"ok"}, body : (0..MaxRows) \X {0, 1}] \cup {[is |-> "garbled"]}
    [] OTHER -> {[is |-> "ok", body |-> Body(node, r)], [is |-> "garbled"], [is |-> "keyless"],
                 [is |-> "2xx"]}

Answered(c, a) ==
  [at |-> "answered", id |-> c.id, request |-> c.request, true |-> c.true, answer |-> a]

Serve(p) ==
  LET c == call[p] IN
  /\ c.at = "sent"
  /\ Done(c.id, c.request)
  /\ \E a \in Answers(c.request) :
       call' = Witnessed([call EXCEPT ![p] = Answered(c, a)], node')
  /\ UNCHANGED <<late, calls>>

(* The node refuses with an error status, and does nothing.                *)
Refuse(p) ==
  /\ call[p].at = "sent"
  /\ call' = [call EXCEPT ![p] = Answered(@, [is |-> "5xx"])]
  /\ UNCHANGED <<node, late, calls, hashes>>

Ended(c, a) ==
  [at |-> "done", id |-> c.id, request |-> c.request, true |-> c.true, answer |-> a,
   result |-> Result(c.request, a)]

Receive(p) ==
  /\ call[p].at = "answered"
  /\ call' = [call EXCEPT ![p] = Ended(@, @.answer)]
  /\ UNCHANGED <<node, late, calls, hashes>>

(* The connection breaks, the time-out passes or the context is cancelled. *)
SentAgain(c) == [at |-> "sent", id |-> c.id, request |-> c.request, true |-> c.true]
GivenUp(c) == Ended(c, [is |-> "none"])
Lose(p) ==
  LET c == call[p] IN
  /\ c.at \in {"sent", "answered"}
  /\ late' = late \cup {<<c.id, c.request>> : x \in {"sent"} \cap {c.at}}
  /\ call' = [call EXCEPT ![p] = GivenUp(@)]
  /\ UNCHANGED <<node, calls, hashes>>

(* A request that was given up arrives after all, or never.                *)
ServeLate ==
  \E l \in late :
    /\ late' = late \ {l}
    /\ Done(l[1], l[2])
    /\ call' = Witnessed(call, node')
    /\ UNCHANGED calls

(* A transaction is mined, the node learns something or gets (un)ready.    *)
NodeMoves ==
  /\ \/ \E tx \in node.pending : node' = [node EXCEPT !.pending = @ \ {tx}]
     \/ node.info < MaxInfo /\ node' = [node EXCEPT !.info = @ + 1]
     \/ node' = [node EXCEPT !.ready = IF @ = "yes" THEN "no" ELSE "yes"]
  /\ call' = Witnessed(call, node')
  /\ UNCHANGED <<late, calls, hashes>>

Next ==
  \/ \E p \in Callers : Start(p) \/ Serve(p) \/ Refuse(p) \/ Receive(p) \/ Lose(p)
  \/ ServeLate \/ NodeMoves

Spec == Init /\ [][Next]_vars

-----------------------------------------------------------------------------
(* What a call returns without an error was true of the node while the     *)
(* call ran, whoever else called, whatever was lost and came late: a pin,  *)
(* the lists, the pending transactions, what the node tells, and that it   *)
(* is ready.  Left out are the answers without the field asked for (a zero *)
(* value), a price beyond the width of its type, and the two questions     *)
(* whose every failure means no (IsGateway, IsConnected).                  *)
AnswersTrue ==
  \A p \in Callers :
    LET c == call[p] IN
    c.at = "done" /\ c.result.is = "ok" /\ c.answer.is # "keyless" =>
      /\ c.request.do \in {"read", "ChequebookAddress", "GetPin"} \cup Lists =>
           c.result.value \in c.true
      /\ c.request.do = "Readiness" /\ c.result.value = "yes" => "yes" \in c.true
      /\ c.request.do = "ChainState" =>
           c.result.value \in c.true \/ \E t \in c.true : t >= PriceRange

(* A call sends at most one transaction, even if it was given up and came  *)
(* late, and the hash it returns is of the transaction that it sent.       *)
PaidOnce ==
  /\ \A g, h \in hashes : g[1] = h[1] \/ g[2] = h[2] => g = h
  /\ \A p \in Callers :
       LET c == call[p] IN
       /\ c.at = "done" /\ c.request.do \in {"pay", "CancelPendingTransaction"}
       /\ c.result.is = "ok" /\ c.answer.is # "keyless"
       => <<c.id, c.result.value>> \in hashes

(* A pin check that returns no error has returned every row: the limit on  *)
(* the body cuts nothing off in silence, as long as the rows end in no     *)
(* blanks, which count for the limit of the reader and not for the check.  *)
PinsChecked ==
  \A p \in Callers :
    LET c == call[p] IN
    c.at = "done" /\ c.request.do = "CheckPins" /\ c.result.is = "ok" /\ c.answer.is = "ok" =>
      c.result.value = c.answer.body[1] \/ c.answer.body[2] > 0

=============================================================================
