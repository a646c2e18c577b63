------------------------------ MODULE SipCtrans ------------------------------
(***************************************************************************)
(* SIP client transactions, src/sip/ctrans.c.                              *)
(*                                                                         *)
(* A transaction is known by its branch and method (cmp_handler): "inv" is *)
(* an INVITE, "can" the CANCEL that sip_ctrans_cancel() sends with the     *)
(* same branch; every other method is treated like the CANCEL.  The two    *)
(* timers of a transaction count down; the main loop serves a timer when   *)
(* it is due, so the clock does not go on before.  A response is told      *)
(* apart by its class only.                                                *)
(***************************************************************************)
EXTENDS Integers

CONSTANTS
    Reliable,      \* sip_transp_reliable(ct->tp)
    T1,            \* SIP_T1
    T2,            \* SIP_T2
    T4,            \* SIP_T4
    T64,           \* 64 * SIP_T1
    COMPLETE_WAIT

ASSUME CtransAssumption ==
    /\ Reliable \in BOOLEAN
    /\ T1 \in Nat \ {0} /\ T2 \in Nat \ {0} /\ T4 \in Nat \ {0}
    /\ T64 \in Nat \ {0} /\ COMPLETE_WAIT \in Nat \ {0}

VARIABLES
    ct,         \* the transactions
    net,        \* every message that was sent
    sent,       \* history: how often the request was sent
    finals      \* history: final results that resph() was given

cvars == <<ct, net, sent, finals>>

Trans   == {"inv", "can"}
Classes == {"1xx", "2xx", "3xx"}    \* "3xx" stands for all of 300-699
Off     == -1

Live(t) == ct[t].state \notin {"none", "failed", "gone"}

None == [state |-> "none", txc |-> 0, tmr |-> Off, tmre |-> Off, qent |-> FALSE]

Init ==
    /\ ct = [t \in Trans |-> None]
    /\ net = {}
    /\ sent = [t \in Trans |-> 0]
    /\ finals = [t \in Trans |-> 0]

Request(t) == [type |-> "req", tr |-> t]
Ack == [type |-> "ack", tr |-> "inv"]

-----------------------------------------------------------------------------
(* mem_deref(ct): the destructor cancels the timers. *)
destructor(state) == [None EXCEPT !.state = state]

(* ct->resph() with a final response or an error *)
ReportFinal(t) == finals' = [finals EXCEPT ![t] = @ + 1]

Mutterminate(t) == ReportFinal(t)

(* terminate(): an error is reported only before a final response was. *)
terminate(t) ==
    IF ct[t].state = "COMPLETED" THEN UNCHANGED finals ELSE ReportFinal(t)

(* The end of a transaction with an error: a timeout, an error of the      *)
(* transport or of a retransmission.                                       *)
Fail(t) ==
    /\ terminate(t)
    /\ ct' = [ct EXCEPT ![t] = destructor("gone")]

(* sip_transp_send(): over UDP or on an established connection the message *)
(* is sent at once; otherwise it is queued on the connection and ct->qent  *)
(* is set.                                                                 *)
Transmit(t) ==
    /\ net' = net \cup {Request(t)}
    /\ sent' = [sent EXCEPT ![t] = @ + 1]

Fresh(t, queued) ==
    [state |-> IF t = "inv" THEN "CALLING" ELSE "TRYING", txc |-> 0,
     tmr |-> T64, tmre |-> IF Reliable THEN Off ELSE T1,
     qent |-> queued]

(* sip_ctrans_request() *)
sip_ctrans_request ==
    /\ ct["inv"].state = "none"
    /\ \/ /\ Transmit("inv")
          /\ \E q \in {FALSE, Reliable} :
               ct' = [ct EXCEPT !["inv"] = Fresh("inv", q)]
       \/ /\ ct' = [ct EXCEPT !["inv"] = destructor("failed")]
          /\ UNCHANGED <<net, sent>>
    /\ UNCHANGED finals

MutCancelTimer(tmr) == tmr

(* tmr_start(&ct->tmr, 64 * SIP_T1, tmr_handler, ct) *)
CancelTimer(tmr) == T64

MutMayCancel == ct["inv"].state \in {"CALLING", "PROCEEDING"}

(* Before a provisional response sip_ctrans_cancel() returns EPROTO. *)
MayCancel == ct["inv"].state = "PROCEEDING"

(* sip_ctrans_cancel(): only after a provisional response; the CANCEL is a *)
(* transaction of its own, and may fail to be sent.                        *)
sip_ctrans_cancel ==
    /\ MayCancel
    /\ ct["can"].state = "none"
    /\ \/ /\ Transmit("can")
          /\ \E q \in {FALSE, Reliable} :
               ct' = [ct EXCEPT !["inv"].tmr = CancelTimer(@),
                                !["can"] = Fresh("can", q)]
       \/ /\ ct' = [ct EXCEPT !["inv"].tmr = CancelTimer(@),
                              !["can"] = destructor("failed")]
          /\ UNCHANGED <<net, sent>>
    /\ UNCHANGED finals

-----------------------------------------------------------------------------
Shorter(a, b) == IF a <= b THEN a ELSE b

MutIntervalWrap(t, n) == ((T1 * 2^n + 32) % 64) - 32

(* The interval of retransmit_handler(): doubled up to T2, without a limit *)
(* for an INVITE.                                                          *)
Interval(t, n) ==
    CASE ct[t].state = "TRYING"     -> Shorter(T1 * 2^n, T2)
      [] ct[t].state = "CALLING"    -> T1 * 2^n
      [] ct[t].state = "PROCEEDING" -> T2

(* The default case, COMPLETED, does not happen: see TimersRun. *)
retransmit_handler(t) ==
    /\ ct[t].tmre = 0
    /\ \/ /\ Transmit(t)
          /\ ct' = [ct EXCEPT ![t].txc = @ + 1,
                              ![t].tmre = Interval(t, ct[t].txc + 1)]
          /\ UNCHANGED finals
       \/ /\ Fail(t)
          /\ UNCHANGED <<net, sent>>

tmr_handler(t) ==
    /\ ct[t].tmr = 0
    /\ Fail(t)
    /\ UNCHANGED <<net, sent>>

(* transport_handler(): the connection that ct->qent waits on was closed.  *)
(* A queued message that was sent stays on the queue of the connection.    *)
transport_handler(t) ==
    /\ Live(t)
    /\ ct[t].qent
    /\ Fail(t)
    /\ UNCHANGED <<net, sent>>

-----------------------------------------------------------------------------
MutCompletedShort(t, wait) ==
    IF Reliable
    THEN destructor("gone")
    ELSE [ct[t] EXCEPT !.state = "COMPLETED", !.tmr = T4, !.tmre = Off]

(* The transaction after a final response of 300 or more (INVITE) or of    *)
(* 200 or more (other): it stays to absorb retransmissions, for the time   *)
(* given, unless the transport is reliable.                                *)
Completed(t, wait) ==
    IF Reliable
    THEN destructor("gone")
    ELSE [ct[t] EXCEPT !.state = "COMPLETED", !.tmr = wait, !.tmre = Off]

(* invite_response(), before the final response *)
invite_response(cls) ==
    /\ ct["inv"].state \in {"CALLING", "PROCEEDING"}
    /\ \/ /\ cls = "1xx"
          /\ ct' = [ct EXCEPT !["inv"] =
                      IF @.state = "CALLING"
                      THEN [@ EXCEPT !.state = "PROCEEDING", !.tmr = Off,
                                     !.tmre = Off]
                      ELSE @]
          /\ UNCHANGED <<net, finals>>
       \/ /\ cls = "2xx"
          /\ ct' = [ct EXCEPT !["inv"] = destructor("gone")]
          /\ ReportFinal("inv")
          /\ UNCHANGED net
       \/ /\ cls = "3xx"
          /\ net' = net \cup {Ack}
          /\ ct' = [ct EXCEPT !["inv"] = Completed("inv", COMPLETE_WAIT)]
          /\ ReportFinal("inv")
    /\ UNCHANGED sent

(* invite_response(), COMPLETED: a retransmitted final response is         *)
(* acknowledged again.                                                     *)
AckAgain(cls) ==
    /\ ct["inv"].state = "COMPLETED"
    /\ cls = "3xx"
    /\ net' = net \cup {Ack}
    /\ UNCHANGED <<ct, sent, finals>>

(* response_handler(), other methods *)
response_handler(cls) ==
    /\ ct["can"].state \in {"TRYING", "PROCEEDING"}
    /\ \/ /\ cls = "1xx"
          /\ ct' = [ct EXCEPT !["can"].state = "PROCEEDING"]
          /\ UNCHANGED finals
       \/ /\ cls # "1xx"
          /\ ct' = [ct EXCEPT !["can"] = Completed("can", T4)]
          /\ ReportFinal("can")
    /\ UNCHANGED <<net, sent>>

Receive(t, cls) ==
    \/ t = "inv" /\ (invite_response(cls) \/ AckAgain(cls))
    \/ t = "can" /\ response_handler(cls)

-----------------------------------------------------------------------------
Down(n) == IF n = Off THEN Off ELSE n - 1

NothingDue == \A t \in Trans : ct[t].tmr # 0 /\ ct[t].tmre # 0

TickTimers ==
    ct' = [t \in Trans |-> [ct[t] EXCEPT !.tmr = Down(@), !.tmre = Down(@)]]

Tick ==
    /\ NothingDue
    /\ TickTimers
    /\ UNCHANGED <<net, sent, finals>>

Timeout(t) == retransmit_handler(t) \/ tmr_handler(t)

(* What the client does by itself or for its user *)
Client ==
    \/ sip_ctrans_request
    \/ sip_ctrans_cancel
    \/ \E t \in Trans : Timeout(t) \/ transport_handler(t)

(* A response may come at any time, or never. *)
Next ==
    \/ Tick
    \/ Client
    \/ \E t \in Trans, cls \in Classes : Receive(t, cls)

(* The clock goes on and timers are served. *)
Fairness == WF_cvars(Tick) /\ \A t \in Trans : WF_cvars(Timeout(t))

Spec == Init /\ [][Next]_cvars

FairSpec == Spec /\ Fairness

-----------------------------------------------------------------------------
(* Properties *)

TransType ==
    [state : {"none", "TRYING", "CALLING", "PROCEEDING", "COMPLETED", "failed",
              "gone"},
     txc : Nat, tmr : Nat \cup {Off}, tmre : Nat \cup {Off}, qent : BOOLEAN]

TypeOK ==
    /\ ct \in [Trans -> TransType]
    /\ net \subseteq {Request(t) : t \in Trans} \cup {Ack}
    /\ sent \in [Trans -> Nat]
    /\ finals \in [Trans -> Nat]

(* However responses, retransmissions, timeouts and transport errors       *)
(* interleave, resph() is given exactly one final result: none while the   *)
(* transaction runs, one when it is completed or has ended.                *)
OneFinal ==
    \A t \in Trans :
      finals[t] = IF ct[t].state \in {"COMPLETED", "gone"} THEN 1 ELSE 0

(* A transaction owns itself, so one without a running timer is never      *)
(* freed unless a response comes.  The only such transaction is an INVITE  *)
(* with a provisional response that was not cancelled.                     *)
(* Retransmissions are over when a final response was received.            *)
TimersRun ==
    \A t \in Trans :
      /\ Live(t) => \/ ct[t].tmr # Off
                    \/ /\ t = "inv" /\ ct[t].state = "PROCEEDING"
                       /\ ct["can"].state = "none"
      /\ ct[t].tmre # Off => ct[t].state \in {"TRYING", "CALLING", "PROCEEDING"}

(* sip_ctrans_cancel() waits for a provisional response: a CANCEL is never *)
(* on the wire unless the INVITE was answered first.                       *)
CancelAfterAnswer ==
    Request("can") \in net =>
      ct["inv"].state \in {"PROCEEDING", "COMPLETED", "gone"}

(* Retransmission over UDP: within 64*T1 an INVITE is sent 7 times and     *)
(* another request 11 times, and never again after a reliable send.        *)
TransmitLimit ==
    \A t \in Trans :
      sent[t] <= IF Reliable THEN 1 ELSE IF t = "inv" THEN 7 ELSE 11

(* Every transaction ends, an INVITE with a provisional response once it   *)
(* was cancelled.                                                          *)
Ends ==
    /\ \A t \in Trans :
         Live(t) ~> (~Live(t) \/ (t = "inv" /\ ct[t].state = "PROCEEDING"))
    /\ ct["can"].state # "none" ~> ~Live("inv")

=============================================================================
