--------------------------- MODULE SipCtransProofs ---------------------------
(***************************************************************************)
(* Proofs about the client transactions of SipCtrans, for all values of    *)
(* the timers and for reliable and unreliable transports.                  *)
(***************************************************************************)
EXTENDS SipCtrans, FiniteSets, FiniteSetTheorems, TLAPS

(* The CANCEL transaction exists only beside an INVITE that was answered. *)
CancelOrder ==
    /\ Request("can") \in net => ct["can"].state # "none"
    /\ ct["can"].state # "none" =>
         ct["inv"].state \in {"PROCEEDING", "COMPLETED", "gone"}

(* A transaction that was freed has no timer. *)
TimerLive == \A t \in Trans : ct[t].tmr # Off => Live(t)

(* The inductive invariant: the interval that retransmit_handler() chooses *)
(* is a number only in the states TimersRun allows for a running timer,    *)
(* and a provisional response may stop the timer of the INVITE only        *)
(* because there is no CANCEL before it.                                   *)
IInv == TypeOK /\ OneFinal /\ TimersRun /\ TimerLive /\ CancelOrder

(* SIP_T1<<txc of retransmit_handler() is a natural number. *)
LEMMA PowerType == \A n \in Nat : 2^n \in Nat
<1>1. TAKE n \in Nat
<1>2. IsFiniteSet(1..n) /\ Cardinality(1..n) = n
  BY FS_Interval, Z3
<1>3. /\ IsFiniteSet(SUBSET (1..n))
      /\ Cardinality(SUBSET (1..n)) = 2^Cardinality(1..n)
  BY <1>2, FS_SUBSET, Zenon
<1>4. Cardinality(SUBSET (1..n)) \in Nat
  BY <1>3, FS_CardinalityType, Zenon
<1>5. QED
  BY <1>2, <1>3, <1>4, Zenon

(* The interval of a running retransmission timer is a natural number. *)
LEMMA IntervalType ==
    ASSUME NEW t \in Trans, NEW n \in Nat,
           ct[t].state \in {"TRYING", "CALLING", "PROCEEDING"}
    PROVE  Interval(t, n) \in Nat
<1>1. 2^n \in Nat
  BY PowerType
<1>2. \A p \in Nat : T1 * p \in Nat /\ Shorter(T1 * p, T2) \in Nat
  BY CtransAssumption DEF Shorter
<1>3. T1 * 2^n \in Nat /\ Shorter(T1 * 2^n, T2) \in Nat
  BY <1>1, <1>2
<1>4. QED
  BY <1>3, CtransAssumption, Zenon DEF Interval

(* The initial state of sip_ctrans_init() satisfies the invariant. *)
LEMMA InitIInv == Init => IInv
  BY DEF Init, IInv, TypeOK, TransType, OneFinal, TimersRun, TimerLive, CancelOrder,
         Trans, None, Off, Live, Request, Ack

(* The end of a transaction by a timeout or an error keeps the invariant:  *)
(* terminate() reports an error exactly when no result was reported.       *)
LEMMA FailIInv ==
    ASSUME IInv, NEW t \in Trans, Live(t), Fail(t), UNCHANGED <<net, sent>>
    PROVE  IInv'
<1>1. TypeOK'
  <2>1. destructor("gone") \in TransType
    BY DEF destructor, None, TransType, Off
  <2>2. ct' \in [Trans -> TransType]
    BY <2>1 DEF IInv, TypeOK, Fail
  <2>3. finals' \in [Trans -> Nat]
    BY DEF IInv, TypeOK, Fail, terminate, ReportFinal
  <2>4. QED
    BY <2>2, <2>3 DEF IInv, TypeOK, Request, Ack, Trans
<1>2. OneFinal'
  BY DEF IInv, TypeOK, TransType, OneFinal, Fail, terminate, ReportFinal, destructor,
         None, Live, Trans
<1>3. TimersRun'
  BY DEF IInv, TypeOK, TransType, TimersRun, CancelOrder, Fail, destructor,
         None, Off, Live, Trans
<1>4. TimerLive'
  BY DEF IInv, TypeOK, TransType, TimerLive, Fail, destructor, None, Off,
         Live, Trans
<1>5. CancelOrder'
  BY DEF IInv, TypeOK, TransType, CancelOrder, Fail, destructor, None, Live,
         Trans
<1>6. QED
  BY <1>1, <1>2, <1>3, <1>4, <1>5 DEF IInv

(* A new transaction has its types and its timers. *)
LEMMA FreshType ==
    ASSUME NEW t \in Trans, NEW q \in BOOLEAN
    PROVE  /\ Fresh(t, q) \in TransType
           /\ Fresh(t, q).tmr # Off
           /\ Fresh(t, q).state = IF t = "inv" THEN "CALLING" ELSE "TRYING"
  BY CtransAssumption DEF Fresh, TransType, Off, Trans

(* A freed transaction has no timer. *)
LEMMA DestructorType ==
    ASSUME NEW s \in {"failed", "gone"}
    PROVE  /\ destructor(s) \in TransType
           /\ destructor(s).state = s
           /\ destructor(s).tmr = Off
           /\ destructor(s).tmre = Off
  BY DEF destructor, None, TransType, Off

(* sip_ctrans_request() keeps the invariant. *)
LEMMA RequestIInv ==
    ASSUME IInv, sip_ctrans_request
    PROVE  IInv'
<1>1. PICK r : /\ ct' = [ct EXCEPT !["inv"] = r]
               /\ r \in TransType
               /\ \/ r.state = "CALLING" /\ r.tmr # Off
                  \/ r.state = "failed" /\ r.tmr = Off /\ r.tmre = Off
  <2>1. CASE \E q \in {FALSE, Reliable} :
               ct' = [ct EXCEPT !["inv"] = Fresh("inv", q)]
    BY <2>1, FreshType, CtransAssumption DEF Trans
  <2>2. CASE ct' = [ct EXCEPT !["inv"] = destructor("failed")]
    BY <2>2, DestructorType
  <2>3. QED
    BY <2>1, <2>2 DEF sip_ctrans_request
<1>2. /\ net' \in {net, net \cup {Request("inv")}}
      /\ sent' \in {sent, [sent EXCEPT !["inv"] = @ + 1]}
      /\ finals' = finals
      /\ ct["inv"].state = "none"
  BY DEF sip_ctrans_request, Transmit
<1>3. TypeOK'
  <2>1. ct' \in [Trans -> TransType]
    BY <1>1 DEF IInv, TypeOK
  <2>2. sent' \in [Trans -> Nat] /\ finals' \in [Trans -> Nat]
    BY <1>2 DEF IInv, TypeOK
  <2>3. net' \subseteq {Request(t) : t \in Trans} \cup {Ack}
    BY <1>2 DEF IInv, TypeOK, Trans
  <2>4. QED
    BY <2>1, <2>2, <2>3 DEF TypeOK
<1>4. OneFinal'
  BY <1>1, <1>2 DEF IInv, TypeOK, TransType, OneFinal, Trans
<1>5. TimersRun'
  BY <1>1, <1>2 DEF IInv, TypeOK, TransType, TimersRun, CancelOrder, Live,
                    Trans, Off
<1>6. CancelOrder'
  BY <1>1, <1>2 DEF IInv, TypeOK, TransType, CancelOrder, Trans, Request
<1>7. TimerLive'
  BY <1>1, <1>2 DEF IInv, TypeOK, TransType, TimerLive, Live, Trans, Off
<1>8. QED
  BY <1>3, <1>4, <1>5, <1>6, <1>7 DEF IInv

(* sip_ctrans_cancel() keeps the invariant: it starts the timer of the     *)
(* INVITE, which the provisional response had stopped.                     *)
LEMMA CancelIInv ==
    ASSUME IInv, sip_ctrans_cancel
    PROVE  IInv'
<1>1. PICK r : /\ ct' = [ct EXCEPT !["inv"].tmr = T64, !["can"] = r]
               /\ r \in TransType
               /\ \/ r.state = "TRYING" /\ r.tmr # Off
                  \/ r.state = "failed" /\ r.tmr = Off /\ r.tmre = Off
  <2>1. CASE \E q \in {FALSE, Reliable} :
               ct' = [ct EXCEPT !["inv"].tmr = CancelTimer(@),
                                !["can"] = Fresh("can", q)]
    BY <2>1, FreshType, CtransAssumption DEF Trans, CancelTimer
  <2>2. CASE ct' = [ct EXCEPT !["inv"].tmr = CancelTimer(@),
                              !["can"] = destructor("failed")]
    BY <2>2, DestructorType DEF CancelTimer
  <2>3. QED
    BY <2>1, <2>2 DEF sip_ctrans_cancel
<1>2. /\ net' \in {net, net \cup {Request("can")}}
      /\ sent' \in {sent, [sent EXCEPT !["can"] = @ + 1]}
      /\ finals' = finals
      /\ ct["inv"].state = "PROCEEDING"
      /\ ct["can"].state = "none"
  BY DEF sip_ctrans_cancel, Transmit, MayCancel
<1>3. TypeOK'
  <2>1. ct' \in [Trans -> TransType]
    BY <1>1, CtransAssumption DEF IInv, TypeOK, TransType, Trans
  <2>2. sent' \in [Trans -> Nat] /\ finals' \in [Trans -> Nat]
    BY <1>2 DEF IInv, TypeOK
  <2>3. net' \subseteq {Request(t) : t \in Trans} \cup {Ack}
    BY <1>2 DEF IInv, TypeOK, Trans
  <2>4. QED
    BY <2>1, <2>2, <2>3 DEF TypeOK
<1>4. OneFinal'
  BY <1>1, <1>2 DEF IInv, TypeOK, TransType, OneFinal, Trans
<1>5. TimersRun'
  BY <1>1, <1>2, CtransAssumption
     DEF IInv, TypeOK, TransType, TimersRun, Live, Trans, Off
<1>6. CancelOrder'
  BY <1>1, <1>2 DEF IInv, TypeOK, TransType, CancelOrder, Trans
<1>7. TimerLive'
  BY <1>1, <1>2 DEF IInv, TypeOK, TransType, TimerLive, Live, Trans, Off
<1>8. QED
  BY <1>3, <1>4, <1>5, <1>6, <1>7 DEF IInv

(* retransmit_handler() keeps the invariant, whether the request is sent   *)
(* again or the transaction fails.                                         *)
LEMMA RetransmitIInv ==
    ASSUME IInv, NEW t \in Trans, retransmit_handler(t)
    PROVE  IInv'
<1>1. /\ ct[t].tmre = 0
      /\ ct[t].state \in {"TRYING", "CALLING", "PROCEEDING"}
      /\ ct[t].txc \in Nat
  BY DEF retransmit_handler, IInv, TypeOK, TransType, TimersRun, Off
<1>2. CASE Transmit(t) /\ UNCHANGED finals /\
           ct' = [ct EXCEPT ![t].txc = @ + 1,
                            ![t].tmre = Interval(t, ct[t].txc + 1)]
  <2>1. PICK n \in Nat, i \in Nat :
          ct' = [ct EXCEPT ![t].txc = n, ![t].tmre = i]
    <3>1. ct[t].txc + 1 \in Nat /\ Interval(t, ct[t].txc + 1) \in Nat
      BY <1>1, IntervalType
    <3>2. QED
      BY <1>2, <3>1
  <2>2. TypeOK'
    <3>1. ct[t] \in TransType
      BY DEF IInv, TypeOK
    <3>2. [ct[t] EXCEPT !.txc = n, !.tmre = i] \in TransType
      BY <3>1 DEF TransType
    <3>3. ct' \in [Trans -> TransType]
      BY <2>1, <3>2 DEF IInv, TypeOK
    <3>4. QED
      BY <1>2, <3>3 DEF IInv, TypeOK, Transmit
  <2>3. OneFinal'
    BY <1>2, <2>1 DEF IInv, TypeOK, TransType, OneFinal
  <2>4. TimersRun' /\ TimerLive'
    BY <1>1, <2>1 DEF IInv, TypeOK, TransType, TimersRun, TimerLive, Live,
                      Trans
  <2>5. CancelOrder'
    BY <1>1, <1>2, <2>1 DEF IInv, TypeOK, TransType, CancelOrder, Transmit,
                            Trans, Request
  <2>6. QED
    BY <2>2, <2>3, <2>4, <2>5 DEF IInv
<1>3. CASE Fail(t) /\ UNCHANGED <<net, sent>>
  BY <1>1, <1>3, FailIInv DEF Live
<1>4. QED
  BY <1>2, <1>3 DEF retransmit_handler

(* tmr_handler() and transport_handler() keep the invariant. *)
LEMMA TimeoutIInv ==
    ASSUME IInv, NEW t \in Trans, tmr_handler(t) \/ transport_handler(t)
    PROVE  IInv'
<1>1. Live(t)
  BY DEF tmr_handler, transport_handler, IInv, TimerLive, Off
<1>2. Fail(t) /\ UNCHANGED <<net, sent>>
  BY DEF tmr_handler, transport_handler
<1>3. QED
  BY <1>1, <1>2, FailIInv

(* The clock keeps the invariant: no timer that is due is passed over. *)
LEMMA TickIInv ==
    ASSUME IInv, Tick
    PROVE  IInv'
<1>1. \A t \in Trans :
        /\ ct[t] \in TransType
        /\ ct'[t] = [ct[t] EXCEPT !.tmr = Down(@), !.tmre = Down(@)]
  BY DEF IInv, TypeOK, Tick, TickTimers
<1>2. \A n \in Nat \cup {Off} : n # 0 => /\ Down(n) \in Nat \cup {Off}
                                        /\ Down(n) = Off <=> n = Off
  BY DEF Down, Off
<1>3. \A t \in Trans :
        /\ ct'[t] \in TransType
        /\ ct'[t].state = ct[t].state
        /\ ct'[t].tmr = Off <=> ct[t].tmr = Off
        /\ ct'[t].tmre = Off <=> ct[t].tmre = Off
  <2>1. TAKE t \in Trans
  <2>2. PICK d \in Nat \cup {Off}, e \in Nat \cup {Off} :
          /\ ct'[t] = [ct[t] EXCEPT !.tmr = d, !.tmre = e]
          /\ d = Off <=> ct[t].tmr = Off
          /\ e = Off <=> ct[t].tmre = Off
    <3>1. /\ ct[t].tmr \in Nat \cup {Off} /\ ct[t].tmr # 0
          /\ ct[t].tmre \in Nat \cup {Off} /\ ct[t].tmre # 0
      BY <1>1 DEF TransType, Tick, NothingDue
    <3>2. /\ Down(ct[t].tmr) \in Nat \cup {Off}
          /\ Down(ct[t].tmr) = Off <=> ct[t].tmr = Off
          /\ Down(ct[t].tmre) \in Nat \cup {Off}
          /\ Down(ct[t].tmre) = Off <=> ct[t].tmre = Off
      BY <3>1 DEF Down, Off
    <3>3. QED
      BY <1>1, <3>2, Zenon
  <2>3. QED
    BY <1>1, <2>2 DEF TransType
<1>4. DOMAIN ct' = Trans /\ ct' = [t \in Trans |-> ct'[t]]
  BY DEF Tick, TickTimers
<1>5. TypeOK'
  BY <1>3, <1>4 DEF IInv, TypeOK, Tick
<1>6. OneFinal' /\ TimersRun' /\ TimerLive' /\ CancelOrder'
  BY <1>3 DEF IInv, OneFinal, TimersRun, TimerLive, CancelOrder, Live, Tick,
              Trans
<1>7. QED
  BY <1>5, <1>6 DEF IInv

(* The transaction after a final response: its timer runs if it stays. *)
LEMMA CompletedType ==
    ASSUME NEW t \in Trans, ct[t] \in TransType, NEW w \in Nat
    PROVE  /\ Completed(t, w) \in TransType
           /\ Completed(t, w).tmre = Off
           /\ \/ Completed(t, w).state = "COMPLETED" /\ Completed(t, w).tmr # Off
              \/ Completed(t, w).state = "gone" /\ Completed(t, w).tmr = Off
<1>1. CASE Reliable
  BY <1>1, DestructorType DEF Completed
<1>2. CASE ~Reliable
  <2>1. Completed(t, w) = [ct[t] EXCEPT !.state = "COMPLETED", !.tmr = w,
                                        !.tmre = Off]
    BY <1>2 DEF Completed
  <2>2. PICK r : r = [ct[t] EXCEPT !.state = "COMPLETED", !.tmr = w,
                                   !.tmre = Off]
    OBVIOUS
  <2>3. r \in TransType /\ r.state = "COMPLETED" /\ r.tmr # Off /\ r.tmre = Off
    <3>1. PICK c \in TransType : c = ct[t]
      OBVIOUS
    <3>2. r = [state |-> "COMPLETED", txc |-> c.txc, tmr |-> w, tmre |-> Off,
               qent |-> c.qent]
      BY <2>2, <3>1 DEF TransType
    <3>3. c.txc \in Nat /\ c.qent \in BOOLEAN
      BY <3>1 DEF TransType
    <3>4. QED
      BY <3>2, <3>3 DEF TransType, Off
  <2>4. QED
    BY <2>1, <2>2, <2>3, Zenon
<1>3. QED
  BY <1>1, <1>2

(* A final response is reported and ends the transaction, or leaves it in  *)
(* COMPLETED.                                                              *)
LEMMA FinalIInv ==
    ASSUME IInv, NEW t \in Trans, NEW r \in TransType,
           ct[t].state \in {"TRYING", "CALLING", "PROCEEDING"},
           ct' = [ct EXCEPT ![t] = r],
           \/ r.state = "COMPLETED" /\ r.tmr # Off
           \/ r.state = "gone" /\ r.tmr = Off,
           r.tmre = Off,
           ReportFinal(t),
           net' \in {net, net \cup {Ack}},
           UNCHANGED sent
    PROVE  IInv'
<1>1. TypeOK'
  <2>1. ct' \in [Trans -> TransType] /\ finals' \in [Trans -> Nat]
    BY DEF IInv, TypeOK, ReportFinal
  <2>2. net' \subseteq {Request(u) : u \in Trans} \cup {Ack}
    BY DEF IInv, TypeOK
  <2>3. QED
    BY <2>1, <2>2 DEF IInv, TypeOK
<1>2. OneFinal'
  BY DEF IInv, TypeOK, TransType, OneFinal, ReportFinal
<1>3. TimersRun' /\ TimerLive'
  BY DEF IInv, TypeOK, TransType, TimersRun, TimerLive, Live, Trans, Off
<1>4. CancelOrder'
  BY DEF IInv, TypeOK, TransType, CancelOrder, Trans, Request, Ack
<1>5. QED
  BY <1>1, <1>2, <1>3, <1>4 DEF IInv

(* invite_response() keeps the invariant. *)
LEMMA InviteResponseIInv ==
    ASSUME IInv, NEW cls \in Classes, invite_response(cls)
    PROVE  IInv'
<1>1. /\ ct["inv"].state \in {"CALLING", "PROCEEDING"}
      /\ "inv" \in Trans
      /\ ct["inv"] \in TransType
  BY DEF invite_response, IInv, TypeOK, Trans
<1>2. CASE cls = "1xx"
  <2>1. PICK r \in TransType :
          /\ ct' = [ct EXCEPT !["inv"] = r]
          /\ r.state = "PROCEEDING"
          /\ \/ r = ct["inv"]
             \/ ct["inv"].state = "CALLING" /\ r.tmr = Off /\ r.tmre = Off
    <3>1. CASE ct["inv"].state = "CALLING"
      <4>1. [ct["inv"] EXCEPT !.state = "PROCEEDING", !.tmr = Off,
                              !.tmre = Off] \in TransType
        BY <1>1 DEF TransType, Off
      <4>2. QED
        BY <1>1, <1>2, <3>1, <4>1 DEF invite_response, TransType
    <3>2. CASE ct["inv"].state = "PROCEEDING"
      BY <1>1, <1>2, <3>2 DEF invite_response, TransType, IInv, TypeOK
    <3>3. QED
      BY <1>1, <3>1, <3>2
  <2>2. UNCHANGED <<net, finals, sent>>
    BY <1>2 DEF invite_response
  <2>3. TypeOK'
    <3>1. ct' \in [Trans -> TransType]
      BY <2>1 DEF IInv, TypeOK
    <3>2. QED
      BY <2>2, <3>1 DEF IInv, TypeOK
  <2>4. OneFinal'
    BY <1>1, <2>1, <2>2 DEF IInv, TypeOK, TransType, OneFinal
  <2>5. TimersRun' /\ TimerLive'
    BY <1>1, <2>1 DEF IInv, TypeOK, TransType, TimersRun, TimerLive,
                      CancelOrder, Live, Trans
  <2>6. CancelOrder'
    BY <1>1, <2>1, <2>2 DEF IInv, TypeOK, TransType, CancelOrder, Trans
  <2>7. QED
    BY <2>3, <2>4, <2>5, <2>6 DEF IInv
<1>3. CASE cls = "2xx"
  BY <1>1, <1>3, FinalIInv, DestructorType DEF invite_response
<1>4. CASE cls = "3xx"
  BY <1>1, <1>4, FinalIInv, CompletedType, CtransAssumption
     DEF invite_response
<1>5. QED
  BY <1>2, <1>3, <1>4 DEF Classes

(* AckAgain and response_handler() keep the invariant. *)
LEMMA ResponseIInv ==
    ASSUME IInv, NEW cls \in Classes, AckAgain(cls) \/ response_handler(cls)
    PROVE  IInv'
<1>1. CASE AckAgain(cls)
  <2>1. TypeOK'
    BY <1>1 DEF AckAgain, IInv, TypeOK
  <2>2. QED
    BY <1>1, <2>1 DEF AckAgain, IInv, OneFinal, TimersRun, TimerLive, Live,
                      CancelOrder, Request, Ack
<1>2. CASE response_handler(cls)
  <2>1. /\ ct["can"].state \in {"TRYING", "PROCEEDING"}
        /\ "can" \in Trans
        /\ ct["can"] \in TransType
        /\ UNCHANGED <<net, sent>>
    BY <1>2 DEF response_handler, IInv, TypeOK, Trans
  <2>2. CASE cls = "1xx"
    <3>1. ct' = [ct EXCEPT !["can"].state = "PROCEEDING"] /\ finals' = finals
      BY <1>2, <2>2 DEF response_handler
    <3>2. TypeOK'
      <4>1. ct' \in [Trans -> TransType]
        BY <2>1, <3>1 DEF IInv, TypeOK, TransType
      <4>2. QED
        BY <2>1, <3>1, <4>1 DEF IInv, TypeOK
    <3>3. OneFinal' /\ TimersRun' /\ TimerLive' /\ CancelOrder'
      BY <2>1, <3>1 DEF IInv, TypeOK, TransType, OneFinal, TimersRun,
                        TimerLive, CancelOrder, Live, Trans
    <3>4. QED
      BY <3>2, <3>3 DEF IInv
  <2>3. CASE cls # "1xx"
    BY <1>2, <2>1, <2>3, FinalIInv, CompletedType, CtransAssumption
       DEF response_handler
  <2>4. QED
    BY <2>2, <2>3
<1>3. QED
  BY <1>1, <1>2

-----------------------------------------------------------------------------
(* Every step of a client transaction keeps the invariant. *)
LEMMA NextIInv == IInv /\ [Next]_cvars => IInv'
<1>1. SUFFICES ASSUME IInv, [Next]_cvars PROVE IInv'
  OBVIOUS
<1>2. CASE Tick
  BY <1>1, <1>2, TickIInv
<1>3. CASE sip_ctrans_request \/ sip_ctrans_cancel
  BY <1>1, <1>3, RequestIInv, CancelIInv
<1>4. ASSUME NEW t \in Trans, Timeout(t) \/ transport_handler(t)
      PROVE  IInv'
  BY <1>1, <1>4, RetransmitIInv, TimeoutIInv DEF Timeout
<1>5. ASSUME NEW t \in Trans, NEW cls \in Classes, Receive(t, cls)
      PROVE  IInv'
  BY <1>1, <1>5, InviteResponseIInv, ResponseIInv DEF Receive
<1>6. CASE UNCHANGED cvars
  BY <1>1, <1>6 DEF cvars, IInv, TypeOK, OneFinal, TimersRun, TimerLive,
                    CancelOrder, Live
<1>7. QED
  BY <1>1, <1>2, <1>3, <1>4, <1>5, <1>6 DEF Next, Client

(* The inductive invariant holds of every behaviour of ctrans.c. *)
THEOREM Invariance == Spec => []IInv
  BY InitIInv, NextIInv, PTL DEF Spec

(* Type correctness: also the interval of a retransmission is always a     *)
(* number, because retransmit_handler() only runs in the states that its   *)
(* switch names.                                                           *)
THEOREM TypeCorrect == Spec => []TypeOK
<1>1. IInv => TypeOK
  BY DEF IInv
<1>2. QED
  BY <1>1, Invariance, PTL

(* resph() is given exactly one final result, whatever the order of        *)
(* responses, timeouts and transport errors.                               *)
THEOREM OneFinalResult == Spec => []OneFinal
<1>1. IInv => OneFinal
  BY DEF IInv
<1>2. QED
  BY <1>1, Invariance, PTL

(* No transaction is left without a timer but an INVITE that waits for its *)
(* final response, and no completed one is retransmitted.                  *)
THEOREM NoneForgotten == Spec => []TimersRun
<1>1. IInv => TimersRun
  BY DEF IInv
<1>2. QED
  BY <1>1, Invariance, PTL

(* A CANCEL is sent only after an answer to the INVITE. *)
THEOREM CancelWaits == Spec => []CancelAfterAnswer
<1>1. IInv => CancelAfterAnswer
  BY DEF IInv, CancelOrder, CancelAfterAnswer
<1>2. QED
  BY <1>1, Invariance, PTL

=============================================================================
