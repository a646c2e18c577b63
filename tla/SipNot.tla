------------------------------- MODULE SipNot -------------------------------
(***************************************************************************)
(* The notifier of a SIP subscription, src/sipevent/notify.c, with the     *)
(* SUBSCRIBE requests that src/sipevent/listen.c gives to it.              *)
(*                                                                         *)
(* One NOTIFY is open at a time; changes of the state while it is open are *)
(* collected in notify_pending.  The reference count holds one reference   *)
(* of the application and after the end one for the open NOTIFY.           *)
(***************************************************************************)
EXTENDS Integers

CONSTANT MaxLoop    \* failed requests in a row that are taken for a loop

VARIABLE not

vars == <<not>>

Codes == {"timeout", "err", "2xx", "401", "other"}

(* struct sipnot; ls is its loop state, expires and tmr are abstracted to  *)
(* not being zero and to running.  The last fields are not in the code:    *)
(* app, the application holds it; stale, the subscriber has not been sent  *)
(* the last state; lost, a NOTIFY could not be sent; overlap, one was sent *)
(* while another was open; finals, new NOTIFYs that say terminated.        *)
NoNot ==
    [alive |-> FALSE, nrefs |-> 0, terminated |-> FALSE, termsent |-> FALSE,
     subscribed |-> FALSE, notify_pending |-> FALSE, expires |-> FALSE,
     req |-> FALSE, tmr |-> FALSE, ls |-> 0,
     app |-> FALSE, stale |-> FALSE, lost |-> FALSE, overlap |-> FALSE,
     finals |-> 0]

Init == not = NoNot

-----------------------------------------------------------------------------
Ok(n)  == [n |-> n, err |-> FALSE]
Err(n) == [n |-> n, err |-> TRUE]

Map(outcomes, Then(_)) == UNION {Then(o) : o \in outcomes}

(* notify_request() *)
notify_request(r, reset_ls) ==
    LET n == [r EXCEPT !.ls = IF reset_ls THEN 0 ELSE @,
                       !.termsent = @ \/ r.terminated,
                       !.notify_pending = FALSE,
                       !.finals = IF r.terminated /\ reset_ls THEN @ + 1 ELSE @]
    IN  {Ok([n EXCEPT !.req = TRUE, !.stale = FALSE,
                      !.overlap = @ \/ r.req]),
         Err([n EXCEPT !.lost = TRUE])}

Free(n) == [n EXCEPT !.alive = FALSE, !.req = FALSE, !.tmr = FALSE]

Ref(n) == [n EXCEPT !.nrefs = @ + 1]

Mutterminate(r) ==
    LET n == [r EXCEPT !.terminated = TRUE] IN
    IF n.req THEN {Ref(n)} ELSE {n}

(* terminate() *)
terminate(r) ==
    LET n == [r EXCEPT !.terminated = TRUE] IN
    IF n.req THEN {Ref(n)}
    ELSE IF ~n.subscribed THEN {n}
    ELSE {IF o.err THEN o.n ELSE Ref(o.n) : o \in notify_request(n, TRUE)}

(* destructor() *)
destructor(r) ==
    LET n == [r EXCEPT !.tmr = FALSE] IN
    IF n.terminated THEN {Free(n)}
    ELSE {IF t.nrefs > 0 THEN t ELSE Free(t) : t \in terminate(n)}

(* mem_deref(not) *)
Deref(n) ==
    IF n.nrefs > 1 THEN {[n EXCEPT !.nrefs = @ - 1]}
    ELSE destructor([n EXCEPT !.nrefs = 0])

(* sipnot_terminate(); closeh() is a call of the application *)
sipnot_terminate(r) == terminate([r EXCEPT !.tmr = FALSE])

(* sipnot_refresh() *)
sipnot_refresh(n, expires) == [n EXCEPT !.expires = expires, !.tmr = TRUE]

Mutsipnot_notify(n) ==
    IF ~n.expires \/ n.req THEN {Ok(n)} ELSE notify_request(n, TRUE)

(* sipnot_notify() *)
sipnot_notify(n) ==
    IF ~n.expires THEN {Ok(n)}
    ELSE IF n.req THEN {Ok([n EXCEPT !.notify_pending = TRUE])}
    ELSE notify_request(n, TRUE)

-----------------------------------------------------------------------------
(* sipevent_accept(); without an error the application gets the notifier *)
sipevent_accept(expires) ==
    /\ not = NoNot
    /\ \/ UNCHANGED not
       \/ not' = sipnot_refresh([NoNot EXCEPT !.alive = TRUE, !.nrefs = 1,
                                              !.app = TRUE, !.subscribed = TRUE],
                               expires)

Held == not.alive /\ not.app

(* sipevent_notify(), sipevent_notifyf() *)
sipevent_notify(terminated) ==
    LET n == [not EXCEPT !.stale = TRUE] IN
    /\ Held /\ ~not.terminated
    /\ not' \in IF terminated THEN terminate([n EXCEPT !.tmr = FALSE])
                ELSE {o.n : o \in sipnot_notify(n)}

Release ==
    /\ Held
    /\ not' \in Deref([not EXCEPT !.app = FALSE])

tmr_handler ==
    /\ not.tmr
    /\ not' \in sipnot_terminate(not)

(* subscribe_handler() for a SUBSCRIBE that is not refused *)
subscribe_handler(expires) ==
    /\ not.alive /\ ~not.terminated
    /\ not' \in {o.n : o \in sipnot_notify(sipnot_refresh(not, expires))}

(* the NOTIFY that says terminated, when the one before it has ended *)
Final(n) ==
    IF ~n.subscribed THEN Deref(n)
    ELSE Map(notify_request(n, TRUE),
             LAMBDA o : IF o.err THEN Deref(o.n) ELSE {o.n})

(* where response_handler() ends *)
Out(n) ==
    IF n.termsent THEN Deref(n)
    ELSE IF n.terminated THEN Final(n)
    ELSE IF ~n.subscribed THEN sipnot_terminate(n)
    ELSE IF n.notify_pending THEN {o.n : o \in notify_request(n, TRUE)}
    ELSE {n}

Gone(n) == [n EXCEPT !.subscribed = FALSE]

(* sip_request_loops() *)
Loops(n) == n.ls + 1 >= MaxLoop

response_handler(code) ==
    LET n == [not EXCEPT !.req = FALSE]
        m == [n EXCEPT !.ls = @ + 1]
    IN  /\ not.req
        /\ \/ /\ code = "timeout"
              /\ not' \in Out(Gone(n))
           \/ /\ code = "err"
              /\ not' \in Out(n)
           \/ /\ code = "2xx"
              /\ not' \in Out([n EXCEPT !.ls = 0])
           \/ /\ code \in {"401", "other"} /\ (Loops(n) \/ code = "other")
              /\ not' \in Out(Gone(m))
           \/ /\ code = "401" /\ ~Loops(n)
              /\ not' \in Out(Gone(m)) \cup
                          Map(notify_request(m, FALSE),
                              LAMBDA o : IF o.err THEN Out(Gone(o.n))
                                         ELSE {o.n})

Response == \E code \in Codes : response_handler(code)

Next ==
    \/ \E expires \in BOOLEAN :
         sipevent_accept(expires) \/ subscribe_handler(expires)
    \/ \E terminated \in BOOLEAN : sipevent_notify(terminated)
    \/ Release
    \/ tmr_handler
    \/ Response

(* A request ends, by the timeout of its transaction at the latest. *)
Fairness == WF_vars(Response)

Spec == Init /\ [][Next]_vars

FairSpec == Spec /\ Fairness

-----------------------------------------------------------------------------
(* Properties *)

TypeOK ==
    /\ DOMAIN not = DOMAIN NoNot
    /\ not.nrefs \in 0..2 /\ not.ls \in 0..MaxLoop

(* The reference count is one for the application and one for the NOTIFY   *)
(* that is open after the end.                                             *)
RefsBalanced ==
    LET Count(b) == IF b THEN 1 ELSE 0 IN
    not.alive => not.nrefs = Count(not.app) + Count(not.terminated /\ not.req)

(* One NOTIFY is open at a time, so NOTIFYs cannot overtake each other,    *)
(* and the one that says terminated is the last and the only one.          *)
InTurn == ~not.overlap /\ not.finals <= 1

(* No change of the state is lost: while the subscriber has an old state,  *)
(* a NOTIFY is open that will be followed by another, or the timer of a    *)
(* SUBSCRIBE with zero expires is about to send the last one.  A NOTIFY    *)
(* that was sent counts, also when it ends with an error other than a      *)
(* timeout: response_handler() does not send it again.                     *)
NoUpdateLost ==
    not.alive /\ not.stale /\ not.subscribed /\ ~not.lost =>
      \/ not.req /\ (not.notify_pending \/ not.terminated)
      \/ ~not.expires /\ not.tmr

(* A subscriber that still answers is told of the end before the notifier  *)
(* is freed.                                                               *)
FinalTried == ~not.alive /\ not.subscribed => not.termsent

(* A notifier that was released is freed. *)
Freed ==
    /\ []<>(not.alive => not.app)
    /\ [][not.alive /\ ~not.app => ~not'.alive \/ ~not'.app]_not

=============================================================================
