----------------------------- MODULE MCSipClient -----------------------------
(***************************************************************************)
(* The client side of a SIP request.  In a behaviour one part moves:       *)
(* client transactions over UDP ("udp") or over a reliable transport       *)
(* ("tcp"), with the timers of re_sip.h in units of SIP_T1, or a stateful  *)
(* request that looks up its next hop ("request").                         *)
(***************************************************************************)
EXTENDS SipCtrans

VARIABLES part, req, user, results, late

Tcp == INSTANCE SipCtrans WITH Reliable <- TRUE
Req == INSTANCE SipRequest WITH MaxAddr <- 3, MaxSrv <- 3, SrvTransports <- 3

rvars == <<req, user, results, late>>

MCInit == Init /\ Req!Init /\ part \in {"udp", "tcp", "request"}

MCNext ==
    /\ UNCHANGED part
    /\ \/ part = "udp" /\ Next /\ UNCHANGED rvars
       \/ part = "tcp" /\ Tcp!Next /\ UNCHANGED rvars
       \/ part = "request" /\ Req!Next /\ UNCHANGED cvars

MCSpec == /\ MCInit /\ [][MCNext]_<<part, cvars, rvars>>
          /\ Fairness /\ Req!Fairness

-----------------------------------------------------------------------------
(* The types of struct sip_ctrans and struct sip_request. *)
ClientTypeOK == TypeOK /\ Req!TypeOK

(* What is sent: within 64*T1 an INVITE 7 times and another request 11     *)
(* times over UDP, once over a connection, and a CANCEL only after its     *)
(* INVITE was answered.                                                    *)
SendRules ==
    /\ TransmitLimit /\ CancelAfterAnswer
    /\ part = "tcp" => Tcp!TransmitLimit

(* The pointer of a request's user is never stale, and the result comes    *)
(* once and never after the user has dropped the request.  A request that  *)
(* lives waits for a query or a transaction, unless it was canceled before *)
(* a provisional response, and not for both.                               *)
RequestSound == Req!PointerValid /\ Req!NoneParked /\ Req!OneAtATime

(* Unless it is canceled, a request ends with a result for its user or     *)
(* gets a provisional response; once canceled it is not sent to another    *)
(* address.                                                                *)
Answered == Req!Answered /\ Req!NoRetryWhenCanceled

=============================================================================
