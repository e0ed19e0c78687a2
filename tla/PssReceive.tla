------------------------------ MODULE PssReceive ------------------------------
(***************************************************************************)
(* PssReceive (pkg/pss/subscribe.go): subscribe, wait for the first of a   *)
(* message, an error, a timeout and the end of the context, and cancel the *)
(* subscription.  It is the only consumer of its subscription and the only *)
(* caller of Cancel.  A select with several ready cases picks any of them; *)
(* receiving from a closed, drained channel is always ready.               *)
(***************************************************************************)
EXTENDS Subscription

ASSUME OneCaller == Callers = {"receive"}

VARIABLES
  timer,      (* the timeout: "none" if the argument is not positive       *)
  result      (* what PssReceive returns, "none" while it waits            *)

receiveVars == <<vars, timer, result>>

Waiting == result = "none" /\ link \notin {"none", "refused"}

ReceiveInit ==
  /\ Init
  /\ timer \in {"none", "pending"}
  /\ result = "none"

(* PssSubscribe fails, and so does PssReceive.                             *)
DialFails ==
  /\ SubscribeFails
  /\ result' = "error"
  /\ UNCHANGED timer

(* A timer runs; the seeded fault starts it when there is no timeout.      *)
TimerIfZero == timer = "none"
TimerStarted == timer = "pending"

TimerFires ==
  /\ TimerStarted
  /\ Waiting
  /\ timer' = "fired"
  /\ UNCHANGED <<vars, result>>

(* The deferred Cancel starts as the result is chosen.                     *)
Returns(value) ==
  /\ Waiting
  /\ result' = value
  /\ UNCHANGED timer

SelectMessage ==
  /\ Returns("message")
  /\ TakeMessage

(* Messages is closed: the inner select prefers what Errors has, and a     *)
(* closed Errors has the nil error.                                        *)
SelectClosedMessages ==
  /\ msgs = <<>>
  /\ msgsClosed
  /\ \/ Returns("error") /\ TakeError
     \/ /\ errs = 0
        /\ Returns(IF errsClosed THEN "nil, nil" ELSE "closed without message")
        /\ UNCHANGED vars

SelectError ==
  \/ Returns("error") /\ TakeError
  \/ Returns("nil, nil") /\ errs = 0 /\ errsClosed /\ UNCHANGED vars

SelectTimer ==
  /\ timer = "fired"
  /\ Returns("timeout")
  /\ UNCHANGED vars

SelectCtx ==
  /\ ctxDone
  /\ Returns("context error")
  /\ UNCHANGED vars

Select ==
  SelectMessage \/ SelectClosedMessages \/ SelectError \/ SelectTimer \/ SelectCtx

Library ==
  \/ Propagate
  \/ Reader
  \/ Watcher
  \/ result # "none" /\ CancelEnters("receive")
  \/ CancelRuns("receive")

World ==
  \/ Subscribe
  \/ \E kind \in {"message", "empty"} : NodeSends(kind)
  \/ NodeCloses
  \/ LinkBreaks
  \/ CtxDone

ReceiveNext ==
  \/ (World \/ Library) /\ UNCHANGED <<timer, result>>
  \/ DialFails
  \/ TimerFires
  \/ Select

ReceiveSpec == ReceiveInit /\ [][ReceiveNext]_receiveVars

(* The goroutines run, a timer fires, and a ready select proceeds; Cancel  *)
(* is called on every way out of PssReceive.                               *)
ReceiveFairSpec ==
  /\ ReceiveSpec
  /\ Progress
  /\ WF_receiveVars(TimerFires)
  /\ WF_receiveVars(Select)
  /\ WF_receiveVars(result # "none" /\ CancelEnters("receive") /\ UNCHANGED <<timer, result>>)

-----------------------------------------------------------------------------

(* A message is the first one the node sent, not just any.                 *)
FirstMessage == result = "message" => got = <<1>>

(* Unless its context ends, PssReceive returns a message or an error that  *)
(* says why there is none: never nil for both.                             *)
NilNeedsCtx == result = "nil, nil" => ctxDone

(* What the doc of PssReceive promises without that condition: it waits    *)
(* for one message and returns it, or an error.                            *)
MessageOrError == result # "nil, nil"

(* After PssReceive returns, whatever the reason, its goroutines end and   *)
(* the connection is closed.                                               *)
NothingLeaks ==
  result # "none" ~> link = "refused" \/ (reader = "done" /\ watcher = "done" /\ connClosed)

(* With a timeout, or once the context is done or the connection gone,     *)
(* PssReceive returns.                                                     *)
ReceiveReturns ==
  Waiting /\ (timer # "none" \/ ctxDone \/ link \in {"ended", "broken"}) ~> result # "none"

=============================================================================
