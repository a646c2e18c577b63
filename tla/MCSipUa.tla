------------------------------- MODULE MCSipUa -------------------------------
(***************************************************************************)
(* The objects of a SIP user agent that live across several requests and   *)
(* count their references.  In a behaviour one part moves: a session       *)
(* ("sess"), a registration ("reg"), a subscription ("sub") or a notifier  *)
(* ("not").                                                                *)
(***************************************************************************)
EXTENDS SipSess

CONSTANTS MaxLoop, MaxOpen, RESUB_FAILC_MAX

VARIABLES part, reg, sub, not

Reg == INSTANCE SipReg
Sub == INSTANCE SipSub
Not == INSTANCE SipNot

MCInit ==
    /\ Init /\ Reg!Init /\ Sub!Init /\ Not!Init
    /\ part \in {"sess", "reg", "sub", "not"}

MCNext ==
    /\ UNCHANGED part
    /\ \/ part = "sess" /\ Next /\ UNCHANGED <<reg, sub, not>>
       \/ part = "reg" /\ Reg!Next /\ UNCHANGED <<sess, sub, not>>
       \/ part = "sub" /\ Sub!Next /\ UNCHANGED <<sess, reg, not>>
       \/ part = "not" /\ Not!Next /\ UNCHANGED <<sess, reg, sub>>

MCSpec ==
    /\ MCInit /\ [][MCNext]_<<part, sess, reg, sub, not>>
    /\ WF_sess(part = "sess" /\ Responses) /\ WF_sess(part = "sess" /\ Timeouts)
    /\ WF_reg(part = "reg" /\ Reg!Response)
    /\ WF_sub(part = "sub" /\ Sub!Response)
    /\ WF_sub(part = "sub" /\ Sub!notify_timeout)
    /\ WF_not(part = "not" /\ Not!Response)

-----------------------------------------------------------------------------
(* The types of struct sipsess, sipreg, sipsub and sipnot. *)
UaTypeOK == TypeOK /\ Reg!TypeOK /\ Sub!TypeOK /\ Not!TypeOK

(* The reference count of a session, a subscription and a notifier is the  *)
(* number of those who hold it: the application, and what the code waits   *)
(* for after the end.  The application can use a session until it releases *)
(* it, and nothing refers to a session that was freed; a registration is   *)
(* not freed while its REGISTER is open.  Left out are sessions of which   *)
(* several replies timed out after the end, registrations of which a       *)
(* REGISTER was begun while another was open, and subscriptions that got   *)
(* the 2xx of another fork: there the code drops references that are not   *)
(* its own, or loses reg->req.                                             *)
UaRefsSound ==
    /\ RefsBalanced /\ Sub!RefsBalanced /\ Not!RefsBalanced
    /\ NoDangling /\ Reg!NoDangling

(* A registration that is held, and a subscription in use, have a request  *)
(* open or their timer running; so has the wait for the last NOTIFY.       *)
RefreshPending == Reg!RefreshPending /\ Sub!RefreshPending /\ Sub!NotifyTimer

(* The other side is told of the end before the object is freed: the peer  *)
(* of an established call gets a BYE, the registrar that knows the         *)
(* binding, the notifier and the subscriber get their last request.        *)
GoodbyeTried ==
    /\ ByeSent /\ Reg!UnregisterTried
    /\ Sub!UnsubscribeTried /\ Not!FinalTried

(* NOTIFYs are sent one after the other, one says terminated, and the last *)
(* state of the application gets to the subscriber.                        *)
NotifyInTurn == Not!InTurn /\ Not!NoUpdateLost

(* After sipreg_unregister() nothing brings the binding back, and a        *)
(* fallback registration does not go on when the interval is zero.         *)
StaysUnregistered == Reg!StaysUnregistered /\ Reg!FallbackStops

(* A session, registration, subscription or notifier that was released is  *)
(* freed.                                                                  *)
UaFreed == Freed /\ Reg!Freed /\ Sub!Freed /\ Not!Freed

=============================================================================
