----------------------------- MODULE Subscription -----------------------------
(***************************************************************************)
(* A websocket subscription, PSS (pkg/pss/subscribe.go) or GSOC            *)
(* (pkg/gsoc/gsoc.go): the two share one design.  A reader goroutine moves *)
(* frames from the connection to the Messages channel, a watcher goroutine *)
(* closes the connection once the subscription's context is done, and      *)
(* Cancel may be called by several goroutines of the program, while the    *)
(* node sends, closes or fails and the consumer reads or stops reading.    *)
(*                                                                         *)
(* A frame carries n, the number of messages the node had sent with it;    *)
(* the k-th message is the number k, an empty frame carries no message.    *)
(***************************************************************************)
EXTENDS Integers, Sequences

CONSTANTS
  Callers,    (* goroutines that call Cancel                               *)
  Capacity,   (* buffer of the Messages channel (16 in the code)           *)
  MaxFrames   (* bound: frames the node sends                              *)

ASSUME ConstantsAssumption ==
  /\ Capacity \in Nat \ {0}
  /\ MaxFrames \in Nat

VARIABLES
  link,        (* the connection, as the node and the network leave it     *)
  wire,        (* frames on their way to the reader                        *)
  frames,      (* number of frames the node sent                           *)
  sent,        (* number of messages among them                            *)
  past,        (* events that happened once and for all, see Events        *)
  canceller,   (* canceller[c]: where caller c stands in Cancel            *)
  reader,      (* where the reader goroutine stands                        *)
  held,        (* the message it is about to hand over, 0 if none          *)
  watcher,     (* where the watcher goroutine stands                       *)
  msgs,        (* contents of the Messages channel                         *)
  errs,        (* number of errors in the Errors channel, which holds one  *)
  got          (* history: messages the consumer received                  *)

node == <<link, wire, frames, sent>>
vars == <<node, past, canceller, reader, held, watcher, msgs, errs, got>>

Frame == [n : Nat, kind : {"message", "empty"}]

(* Flags, contexts and channels are closed once and for all.               *)
Events == {"ctx done", "sub done", "conn closed", "closed", "errors closed",
           "messages closed", "error received"}

ctxDone    == "ctx done" \in past          (* the caller's context          *)
subDone    == "sub done" \in past          (* its child, the subscription's *)
connClosed == "conn closed" \in past       (* from this side                *)
closed     == "closed" \in past            (* Subscription.closed           *)
errsClosed == "errors closed" \in past     (* the channel Errors            *)
msgsClosed == "messages closed" \in past   (* the channel Messages          *)
sawError   == "error received" \in past    (* history: by the consumer      *)

Happens(event) == past' = past \cup {event}

Init ==
  /\ link = "none"
  /\ wire = <<>>
  /\ frames = 0
  /\ sent = 0
  /\ canceller = [c \in Callers |-> "idle"]
  /\ reader = "unborn"
  /\ held = 0
  /\ watcher = "unborn"
  /\ msgs = <<>>
  /\ errs = 0
  /\ past = {}
  /\ got = <<>>

-----------------------------------------------------------------------------
(* The node, the network and the program's context.                        *)

(* PssSubscribe or Subscribe dials; both goroutines start.                 *)
Subscribe ==
  /\ link = "none"
  /\ ~ctxDone
  /\ link' = "up"
  /\ reader' = "reading"
  /\ watcher' = "waiting"
  /\ UNCHANGED <<wire, frames, sent, past, canceller, held, msgs, errs, got>>

(* The dial fails, or its context is already done.                         *)
SubscribeFails ==
  /\ link = "none"
  /\ link' = "refused"
  /\ UNCHANGED <<wire, frames, sent, past, canceller, reader, held, watcher,
                 msgs, errs, got>>

NodeSends(kind) ==
  /\ link = "up"
  /\ ~connClosed
  /\ frames < MaxFrames
  /\ frames' = frames + 1
  /\ sent' = IF kind = "message" THEN sent + 1 ELSE sent
  /\ wire' = Append(wire, [n |-> sent', kind |-> kind])
  /\ UNCHANGED <<link, past, canceller, reader, held, watcher, msgs, errs,
                 got>>

(* The node closes the connection: what it sent before still arrives.      *)
NodeCloses ==
  /\ link = "up"
  /\ link' = "ended"
  /\ UNCHANGED <<wire, frames, sent, past, canceller, reader, held, watcher,
                 msgs, errs, got>>

(* The connection breaks: a tail of what was sent is lost.                 *)
LinkBreaks ==
  /\ link = "up"
  /\ link' = "broken"
  /\ \E k \in 0..Len(wire) : wire' = SubSeq(wire, 1, k)
  /\ UNCHANGED <<frames, sent, past, canceller, reader, held, watcher, msgs,
                 errs, got>>

CtxDone ==
  /\ ~ctxDone
  /\ Happens("ctx done")
  /\ UNCHANGED <<node, canceller, reader, held, watcher, msgs, errs, got>>

(* The end of a context reaches its child.                                 *)
Propagate ==
  /\ ctxDone
  /\ ~subDone
  /\ link \notin {"none", "refused"}
  /\ Happens("sub done")
  /\ UNCHANGED <<node, canceller, reader, held, watcher, msgs, errs, got>>

-----------------------------------------------------------------------------
(* The two goroutines of the subscription.  A definition between a         *)
(* helper's comment and the helper is a seeded fault of it.                *)

(* The connection has nothing more to give.                                *)
LinkOverAtOnce == link \in {"ended", "broken"}
LinkOverIfBroken == link = "broken" /\ wire = <<>>
LinkOver == link \in {"ended", "broken"} /\ wire = <<>>

(* A read error goes to the Errors channel.                                *)
ReportsBreaks == ~subDone /\ errs < 1 /\ link # "ended"
Reports == ~subDone /\ errs < 1

(* The reader stops waiting for room in the buffer.                        *)
MayGiveUpWithRoom == subDone /\ Len(msgs) < Capacity
MayGiveUp == subDone

(* The reader returns: its deferred calls are next.                        *)
Continue == reader' = "reading"
Return == reader' = "closing errors"

(* ReadMessage returns a frame, also one received before the connection    *)
(* was closed from this side.  An empty one is skipped.                    *)
ReadFrame ==
  /\ reader = "reading"
  /\ wire # <<>>
  /\ wire' = Tail(wire)
  /\ IF Head(wire).kind = "empty"
     THEN UNCHANGED <<reader, held>>
     ELSE reader' = "handing" /\ held' = Head(wire).n
  /\ UNCHANGED <<link, frames, sent, past, canceller, watcher, msgs, errs,
                 got>>

(* ReadMessage returns an error.  It is reported if the context is not the *)
(* cause; a full Errors channel would drop it.                             *)
ReadFails ==
  /\ reader = "reading"
  /\ connClosed \/ LinkOver
  /\ errs' = IF Reports THEN errs + 1 ELSE errs
  /\ Return
  /\ UNCHANGED <<node, past, canceller, held, watcher, msgs, got>>

HandOver ==
  /\ reader = "handing"
  /\ Len(msgs) < Capacity
  /\ msgs' = Append(msgs, held)
  /\ held' = 0
  /\ reader' = "reading"
  /\ UNCHANGED <<node, past, canceller, watcher, errs, got>>

(* The message at hand is given up when the context is done.               *)
GiveUp ==
  /\ reader = "handing"
  /\ MayGiveUp
  /\ held' = 0
  /\ Return
  /\ UNCHANGED <<node, past, canceller, watcher, msgs, errs, got>>

(* The deferred closes run last first.                                     *)
CloseErrors ==
  /\ reader = "closing errors"
  /\ Happens("errors closed")
  /\ reader' = "closing messages"
  /\ UNCHANGED <<node, canceller, held, watcher, msgs, errs, got>>

CloseMessages ==
  /\ reader = "closing messages"
  /\ Happens("messages closed")
  /\ reader' = "done"
  /\ UNCHANGED <<node, canceller, held, watcher, msgs, errs, got>>

Reader == ReadFrame \/ ReadFails \/ HandOver \/ GiveUp \/ CloseErrors \/ CloseMessages

Watcher ==
  /\ watcher = "waiting"
  /\ subDone
  /\ Happens("conn closed")
  /\ watcher' = "done"
  /\ UNCHANGED <<node, canceller, reader, held, msgs, errs, got>>

-----------------------------------------------------------------------------
(* Cancel, statement by statement: closed is neither atomic nor locked.    *)

CancelEnters(c) ==
  /\ canceller[c] = "idle"
  /\ link \notin {"none", "refused"}
  /\ canceller' = [canceller EXCEPT ![c] = IF closed THEN "returned" ELSE "marking"]
  /\ UNCHANGED <<node, past, reader, held, watcher, msgs, errs, got>>

(* Seeded fault: Cancel returns as soon as it has set closed.              *)
CancelOnlyMarks(c) ==
  /\ canceller[c] = "marking"
  /\ Happens("closed")
  /\ canceller' = [canceller EXCEPT ![c] = "returned"]
  /\ UNCHANGED <<node, reader, held, watcher, msgs, errs, got>>

CancelMarks(c) ==
  /\ canceller[c] = "marking"
  /\ Happens("closed")
  /\ canceller' = [canceller EXCEPT ![c] = "cancelling"]
  /\ UNCHANGED <<node, reader, held, watcher, msgs, errs, got>>

(* Seeded fault: the connection is closed before the context.              *)
CancelContext(c) ==
  /\ canceller[c] = "cancelling"
  /\ Happens("sub done")
  /\ canceller' = [canceller EXCEPT ![c] = "closing"]
  /\ UNCHANGED <<node, reader, held, watcher, msgs, errs, got>>

CancelCloses(c) ==
  /\ canceller[c] = "closing"
  /\ Happens("conn closed")
  /\ canceller' = [canceller EXCEPT ![c] = "returned"]
  /\ UNCHANGED <<node, reader, held, watcher, msgs, errs, got>>

CancelRuns(c) == CancelMarks(c) \/ CancelContext(c) \/ CancelCloses(c)

-----------------------------------------------------------------------------
(* The consumer; it may also never come back for more.                     *)

(* An error can be received; the seeded fault takes a closed channel for   *)
(* an error.                                                               *)
ErrorReady == errs > 0

TakeMessage ==
  /\ msgs # <<>>
  /\ msgs' = Tail(msgs)
  /\ got' = Append(got, Head(msgs))
  /\ UNCHANGED <<node, past, canceller, reader, held, watcher, errs>>

TakeError ==
  /\ ErrorReady
  /\ errs' = errs - 1
  /\ Happens("error received")
  /\ UNCHANGED <<node, canceller, reader, held, watcher, msgs, got>>

Environment ==
  \/ Subscribe
  \/ SubscribeFails
  \/ \E kind \in {"message", "empty"} : NodeSends(kind)
  \/ NodeCloses
  \/ LinkBreaks
  \/ CtxDone

Next ==
  \/ Environment
  \/ Propagate
  \/ Reader
  \/ Watcher
  \/ \E c \in Callers : CancelEnters(c) \/ CancelRuns(c)
  \/ TakeMessage
  \/ TakeError

Spec == Init /\ [][Next]_vars

(* The goroutines of the library run on, and so does a Cancel that was     *)
(* called; the node, the network and the consumer owe nothing.             *)
Progress ==
  /\ WF_vars(Propagate)
  /\ WF_vars(Reader)
  /\ WF_vars(Watcher)
  /\ \A c \in Callers : WF_vars(CancelRuns(c))

FairSpec == Spec /\ Progress

-----------------------------------------------------------------------------

(* Types of the variables.                                                 *)
TypeOK ==
  /\ link \in {"none", "refused", "up", "ended", "broken"}
  /\ wire \in Seq(Frame)
  /\ frames \in Nat
  /\ sent \in Nat
  /\ canceller \in [Callers -> {"idle", "marking", "cancelling", "closing", "returned"}]
  /\ reader \in {"unborn", "reading", "handing", "closing errors", "closing messages", "done"}
  /\ held \in Nat
  /\ watcher \in {"unborn", "waiting", "done"}
  /\ msgs \in Seq(Nat)
  /\ errs \in Nat
  /\ past \subseteq Events
  /\ got \in Seq(Nat)

(* Number of messages that left the connection.                            *)
Delivered == Len(got) + Len(msgs) + (IF held = 0 THEN 0 ELSE 1)

(* Messages come out in the order the node sent them, none twice and none  *)
(* left out, whatever is cancelled or breaks: a loss can only be a tail.   *)
InOrder ==
  /\ \A k \in 1..Len(got) : got[k] = k
  /\ \A k \in 1..Len(msgs) : msgs[k] = Len(got) + k
  /\ held # 0 => held = Len(got) + Len(msgs) + 1
  /\ Delivered <= sent

(* The error of an ended connection reaches Errors before it is closed: a  *)
(* consumer that sees both channels end without one knows that the context *)
(* was the reason.                                                         *)
EndExplained == errsClosed => subDone \/ errs > 0 \/ sawError

(* Cancel and the watcher close the connection under the reader, and the   *)
(* read that fails for it is never reported as an error of the connection. *)
SilentCancel == errs > 0 \/ sawError => link \in {"ended", "broken"}

(* Cancelling, by Cancel or by the context, ends both goroutines and both  *)
(* channels, even while the reader waits on a silent node or on a consumer *)
(* that stopped receiving.                                                 *)
CancelEnds == subDone ~> reader = "done" /\ watcher = "done" /\ errsClosed /\ msgsClosed

(* If the consumer keeps receiving, a connection the node ends ends the    *)
(* subscription, after every message sent on it was received.              *)
NodeEndDelivers ==
  WF_vars(TakeMessage) => (link = "ended" ~> (reader = "done" /\ Len(got) = sent) \/ subDone)

=============================================================================
