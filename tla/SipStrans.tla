------------------------------ MODULE SipStrans ------------------------------
(***************************************************************************)
(* SIP server transactions, src/sip/strans.c, with the part of sip_recv()  *)
(* (src/sip/transp.c) that answers what no listener has handled.           *)
(*                                                                         *)
(* A transaction is known by branch, sent-by and method (cmp_handler):     *)
(* "inv" is an INVITE, "inv2" the same INVITE that came another way (the   *)
(* branch differs, Call-ID, CSeq, From tag and request URI do not), "non"  *)
(* any other request.  None of the requests has a To tag.  The CANCEL of   *)
(* "inv" is answered statelessly and has no transaction.  A record with    *)
(* state "none" is a transaction that does not exist: when one is freed, a *)
(* late copy of the request may create it anew.  The user of the stack     *)
(* keeps a transaction pointer (stp) from sip_strans_alloc() to the final  *)
(* response.                                                               *)
(***************************************************************************)
EXTENDS Integers

CONSTANTS
    Keys,       \* the requests of the run
    Reliable,   \* sip_transp_reliable(st->msg->tp)
    T1, T2, T4, \* SIP_T1, SIP_T2, SIP_T4
    T64,        \* 64 * SIP_T1
    MaxPass     \* bound: how often a request is given to the user

ASSUME StransAssumption ==
    /\ Keys \subseteq {"inv", "inv2", "non"}
    /\ "inv" \in Keys
    /\ Reliable \in BOOLEAN
    /\ T1 \in Nat \ {0} /\ T2 \in Nat \ {0} /\ T4 \in Nat \ {0}
    /\ T64 \in Nat \ {0} /\ MaxPass \in [Keys -> Nat]

VARIABLES
    st,         \* the transactions
    net,        \* every message that was sent
    passed      \* history: requests that were given to the user

svars == <<st, net, passed>>

Finals == {"2xx", "3xx"}
Off    == -1

Invite(k) == k \in {"inv", "inv2"}
Live(k)   == st[k].state # "none"

None == [state |-> "none", txc |-> 0, tmr |-> Off, tmrg |-> Off,
         mb |-> "none", stp |-> FALSE]

Response(k, cls) == [type |-> "rsp", tr |-> k, cls |-> cls]

Init ==
    /\ st = [k \in Keys |-> None]
    /\ net = {}
    /\ passed = [k \in Keys |-> 0]

-----------------------------------------------------------------------------
(* sip_strans_alloc() *)
sip_strans_alloc == [None EXCEPT !.state = "TRYING", !.stp = TRUE]

(* *stp = (err || scode >= 200) ? NULL : st *)
Held(s, cls) == s.stp /\ cls = "1xx"

MutLifetime(k, cls) == IF Invite(k) /\ cls = "2xx" THEN Off ELSE T64

MutLifetimeShort(k, cls) == T1

(* the timer of a transaction that has its final response *)
Lifetime(k, cls) == T64

(* sip_strans_reply(): the transaction after its response was sent *)
AfterReply(k, s, cls) ==
    LET r == [s EXCEPT !.mb = cls, !.stp = Held(s, cls)] IN
    CASE cls = "1xx" ->
           [r EXCEPT !.state = "PROCEEDING"]
      [] cls # "1xx" /\ ~Invite(k) /\ Reliable ->
           None
      [] cls = "2xx" /\ Invite(k) ->
           [r EXCEPT !.state = "ACCEPTED", !.tmr = Lifetime(k, cls)]
      [] OTHER ->
           [r EXCEPT !.state = "COMPLETED", !.tmr = Lifetime(k, cls),
                     !.tmrg = IF Invite(k) /\ ~Reliable THEN T1 ELSE Off]

(* the transaction after its response could not be sent *)
AfterSendError(s) == None

(* The user of the stack answers, and drops its pointer with a final       *)
(* response or an error.                                                   *)
sip_strans_reply(k, cls) ==
    /\ st[k].stp
    /\ \/ /\ st' = [st EXCEPT ![k] = AfterReply(k, @, cls)]
          /\ net' = net \cup {Response(k, cls)}
       \/ /\ st' = [st EXCEPT ![k] = [AfterSendError(@) EXCEPT !.stp = FALSE]]
          /\ UNCHANGED net
    /\ UNCHANGED passed

(* sip_reply(): a stateless reply, or none when it cannot be sent *)
sip_reply(k, cls) ==
    /\ net' \in {net, net \cup {Response(k, cls)}}
    /\ UNCHANGED st

-----------------------------------------------------------------------------
MutRetransmitted(k) ==
    /\ Live(k)
    /\ net' = net \cup {Response(k, st[k].mb)}
    /\ UNCHANGED <<st, passed>>

(* request_handler(), cmp_handler: a retransmitted request *)
Retransmitted(k) ==
    /\ st[k].state \in {"PROCEEDING", "COMPLETED"}
    /\ net' = net \cup {Response(k, st[k].mb)}
    /\ UNCHANGED <<st, passed>>

MutMergedWith(k) == {m \in Keys : Invite(m) /\ Invite(k) /\ st[m].stp}

(* cmp_merge_handler: the transactions of the same request *)
MergedWith(k) == {m \in Keys : Invite(m) /\ Invite(k) /\ Live(m)}

(* 482 Loop Detected *)
Merged(k) ==
    /\ ~Live(k)
    /\ MergedWith(k) # {}
    /\ sip_reply(k, "3xx")
    /\ UNCHANGED passed

(* cancel_handler(): 200 OK for the CANCEL of a transaction that exists,   *)
(* 481 from sip_recv() otherwise.  In TRYING and PROCEEDING cancelh() is   *)
(* called, in which or after which the user answers the INVITE.            *)
cancel_handler ==
    /\ sip_reply("can", IF Live("inv") THEN "2xx" ELSE "3xx")
    /\ UNCHANGED passed

(* A new request is for the user. *)
Unknown(k) ==
    /\ ~Live(k)
    /\ MergedWith(k) = {}
    /\ passed[k] < MaxPass[k]
    /\ passed' = [passed EXCEPT ![k] = @ + 1]

(* The user makes a transaction for it, or answers at once (sip_treply()   *)
(* without a transaction pointer).                                         *)
Taken(k) ==
    /\ Unknown(k)
    /\ \/ /\ st' = [st EXCEPT ![k] = sip_strans_alloc]
          /\ UNCHANGED net
       \/ \E cls \in Finals :
            /\ st' = [st EXCEPT ![k] = AfterReply(k, sip_strans_alloc, cls)]
            /\ net' = net \cup {Response(k, cls)}

(* The user, or sip_recv() for a request that no user wants (501), answers *)
(* without a transaction.                                                  *)
Stateless(k) == Unknown(k) /\ sip_reply(k, "3xx")

request_handler(k) ==
    \/ Retransmitted(k)
    \/ Merged(k)
    \/ Taken(k)
    \/ Stateless(k)

MutConfirmed(s) == [s EXCEPT !.state = "CONFIRMED", !.tmr = T4]

Confirmed(s) == [s EXCEPT !.state = "CONFIRMED", !.tmr = T4, !.tmrg = Off]

(* ack_handler(): in ACCEPTED the ACK is for the user, in COMPLETED it     *)
(* ends the retransmission of the response.                                *)
ack_handler(k) ==
    /\ Invite(k)
    /\ st[k].state = "COMPLETED"
    /\ st' = [st EXCEPT ![k] = IF Reliable THEN None ELSE Confirmed(@)]
    /\ UNCHANGED <<net, passed>>

-----------------------------------------------------------------------------
Shorter(a, b) == IF a <= b THEN a ELSE b

(* The interval doubles up to T2. *)
retransmit_handler(k) ==
    /\ st[k].tmrg = 0
    /\ net' = net \cup {Response(k, st[k].mb)}
    /\ st' = [st EXCEPT ![k].txc = @ + 1,
                        ![k].tmrg = Shorter(T1 * 2^(st[k].txc + 1), T2)]
    /\ UNCHANGED passed

tmr_handler(k) ==
    /\ st[k].tmr = 0
    /\ st' = [st EXCEPT ![k] = None]
    /\ UNCHANGED <<net, passed>>

Timeout(k) == retransmit_handler(k) \/ tmr_handler(k)

Down(n) == IF n = Off THEN Off ELSE n - 1

NothingDue == \A k \in Keys : st[k].tmr # 0 /\ st[k].tmrg # 0

TickTimers ==
    st' = [k \in Keys |-> [st[k] EXCEPT !.tmr = Down(@), !.tmrg = Down(@)]]

Tick ==
    /\ NothingDue
    /\ TickTimers
    /\ UNCHANGED <<net, passed>>

Next ==
    \/ Tick
    \/ cancel_handler
    \/ \E k \in Keys :
         \/ request_handler(k)
         \/ ack_handler(k)
         \/ Timeout(k)
         \/ \E cls \in {"1xx"} \cup Finals : sip_strans_reply(k, cls)

(* The clock goes on and timers are served; nobody has to answer. *)
Fairness == WF_svars(Tick) /\ \A k \in Keys : WF_svars(Timeout(k))

Spec == Init /\ [][Next]_svars

FairSpec == Spec /\ Fairness

-----------------------------------------------------------------------------
(* Properties *)

(* The types; what a transaction sends again is a response that was made:  *)
(* in TRYING there is none, st->mb is NULL.                                *)
TypeOK ==
    /\ st \in [Keys -> [state : {"none", "TRYING", "PROCEEDING", "ACCEPTED",
                                 "COMPLETED", "CONFIRMED"},
                        txc : Nat, tmr : Nat \cup {Off}, tmrg : Nat \cup {Off},
                        mb : {"none", "1xx", "2xx", "3xx"},
                        stp : BOOLEAN]]
    /\ net \subseteq {Response(k, cls) : k \in Keys \cup {"can"},
                                        cls \in {"1xx"} \cup Finals}
    /\ passed \in [Keys -> Nat]

(* The pointer that the user keeps is never stale, and a transaction that  *)
(* nobody has a pointer to is freed by its timer: sip_strans_reply() gives *)
(* up the pointer exactly when the timer takes over.                       *)
Owned ==
    \A k \in Keys :
      /\ st[k].stp => st[k].state \in {"TRYING", "PROCEEDING"}
      /\ Live(k) => (st[k].stp <=> st[k].tmr = Off)

(* A request that arrives by two ways has one transaction: while the first *)
(* exists, answered or not, the copy gets 482 and not to the user.         *)
MergeDetected ==
    \A k, m \in Keys :
      Invite(k) /\ Invite(m) /\ Live(k) /\ Live(m) => k = m

(* The response is retransmitted only for an INVITE that was rejected over *)
(* an unreliable transport, until the ACK comes.                           *)
RetransmitUntilAck ==
    \A k \in Keys :
      st[k].tmrg # Off => /\ Invite(k) /\ ~Reliable
                          /\ st[k].state = "COMPLETED" /\ st[k].mb = "3xx"

(* A transaction that has its final response ends, whatever is received.   *)
EndsAfterFinal ==
    \A k \in Keys : st[k].mb \in Finals ~> st[k].state = "none"

=============================================================================
