------------------------------- MODULE SipSub -------------------------------
(***************************************************************************)
(* A SIP subscription, src/sipevent/subscribe.c, with the NOTIFY requests  *)
(* that src/sipevent/listen.c gives to it.                                 *)
(*                                                                         *)
(* The subscription counts its references: one of the application, and     *)
(* after the end one for the open request or for the last NOTIFY it waits  *)
(* for.  A subscription with a fork handler is a template: answers and     *)
(* NOTIFYs make new subscriptions from it (sipevent_fork()), which is an   *)
(* initial step of the model.  Intervals are abstracted to whether the     *)
(* timer runs and to whether expires is zero.                              *)
(***************************************************************************)
EXTENDS Integers

CONSTANTS
    MaxLoop,            \* failed requests in a row that are taken for a loop
    RESUB_FAILC_MAX     \* refreshes that may fail

VARIABLE sub

vars == <<sub>>

Codes == {"err", "2xx", "401", "423", "481", "other"}

(* struct sipsub; ls and last are its loop state, dlg says that the dialog *)
(* is established, tmr which handler the timer has.  The last fields are   *)
(* not in the code: app, the application holds it; refers, it began with   *)
(* a REFER; forked, it is a fork whose template has yet to get the 2xx;    *)
(* foreign, the 2xx was one for another dialog or came to a fork that is   *)
(* terminated; fetch, expires was zero from the start; closed, calls of    *)
(* closeh(); unsub, what became of the un-SUBSCRIBE.                       *)
NoSub ==
    [alive |-> FALSE, nrefs |-> 0, terminated |-> FALSE, subscribed |-> FALSE,
     expires |-> FALSE, req |-> FALSE, tmr |-> "off", termwait |-> FALSE,
     termconf |-> FALSE, refer |-> FALSE, forkh |-> FALSE, dlg |-> FALSE,
     failc |-> 0, ls |-> 0, last |-> "none",
     app |-> FALSE, refers |-> FALSE, forked |-> FALSE,
     foreign |-> FALSE, fetch |-> FALSE, closed |-> 0,
     unsub |-> "no"]

Init == sub = NoSub

-----------------------------------------------------------------------------
Ok(s)  == [s |-> s, err |-> FALSE]
Err(s) == [s |-> s, err |-> TRUE]

Map(outcomes, Then(_)) == UNION {Then(o) : o \in outcomes}

(* request(): a REFER, or a SUBSCRIBE that removes the subscription when   *)
(* it is terminated                                                        *)
request(r, reset_ls) ==
    LET s == [r EXCEPT !.expires = @ /\ (r.refer \/ ~r.terminated),
                       !.ls = IF reset_ls THEN 0 ELSE @,
                       !.last = IF reset_ls THEN "none" ELSE @]
        gone(how) == IF ~s.terminated \/ s.unsub = "sent" THEN s.unsub ELSE how
    IN  {Ok([s EXCEPT !.req = TRUE, !.unsub = gone("sent")]),
         Err([s EXCEPT !.unsub = gone("failed")])}

Free(s) == [s EXCEPT !.alive = FALSE, !.req = FALSE, !.tmr = "off"]

Ref(s) == [s EXCEPT !.nrefs = @ + 1]

(* what terminate() waits for *)
Waiting(s) == s.termwait \/ s.req

(* the notifier still has to be told *)
Wanted(s) == s.expires /\ s.subscribed

(* the timer of the wait goes on *)
KeptTimer(s) == IF s.termwait THEN s.tmr ELSE "off"

(* terminate() *)
terminate(r) ==
    LET s == [r EXCEPT !.terminated = TRUE, !.forkh = FALSE,
                       !.tmr = KeptTimer(r)]
    IN  IF Waiting(r) THEN {Ref(s)}
        ELSE IF ~Wanted(s) THEN {s}
        ELSE {IF o.err THEN o.s ELSE Ref(o.s) : o \in request(s, TRUE)}

(* destructor() *)
destructor(s) ==
    IF s.terminated THEN {Free(s)}
    ELSE {IF t.nrefs > 0 THEN t ELSE Free(t) : t \in terminate(s)}

(* mem_deref(sub) *)
Deref(s) ==
    IF s.nrefs > 1 THEN {[s EXCEPT !.nrefs = @ - 1]}
    ELSE destructor([s EXCEPT !.nrefs = 0])

(* sipsub_terminate(): closeh() of the application is internal afterwards. *)
sipsub_terminate(s) ==
    {IF s.terminated THEN t ELSE [t EXCEPT !.closed = @ + 1] :
        t \in terminate(s)}

-----------------------------------------------------------------------------
(* The application *)

New(expires, refer, forkh, dlg) ==
    [NoSub EXCEPT !.alive = TRUE, !.nrefs = 1, !.app = TRUE,
                  !.expires = expires, !.refer = refer, !.forkh = forkh,
                  !.dlg = dlg, !.refers = refer, !.fetch = ~expires]

(* sipevent_subscribe(), sipevent_refer(), and sipevent_dsubscribe() and   *)
(* sipevent_drefer() in a dialog; without an error the application gets    *)
(* the subscription                                                        *)
sipsub_alloc(expires, refer, forkh, dlg) ==
    /\ sub = NoSub
    /\ refer => expires
    /\ dlg => ~forkh
    /\ \E o \in request(New(expires, refer, forkh, dlg), TRUE) :
         IF o.err THEN UNCHANGED sub ELSE sub' = o.s

Held == sub.alive /\ sub.app

Release ==
    /\ Held
    /\ sub' \in Deref([sub EXCEPT !.app = FALSE])

-----------------------------------------------------------------------------
(* Timers *)

(* notify_timeout_handler() *)
notify_timeout ==
    LET s == [sub EXCEPT !.tmr = "off", !.termwait = FALSE] IN
    /\ sub.tmr = "notify"
    /\ sub' \in IF s.terminated THEN Deref(s) ELSE sipsub_terminate(s)

(* The refresh failed: another try, or the end. *)
Retry(s) ==
    LET t == [s EXCEPT !.failc = @ + 1] IN
    IF t.failc < RESUB_FAILC_MAX THEN {[t EXCEPT !.tmr = "refresh"]}
    ELSE sipsub_terminate(t)

tmr_handler ==
    LET s == [sub EXCEPT !.tmr = "off"] IN
    /\ sub.tmr = "refresh"
    /\ \/ /\ sub.req \/ sub.terminated
          /\ sub' = s
       \/ /\ ~sub.req /\ ~sub.terminated
          /\ sub' \in Map(request(s, TRUE),
                          LAMBDA o : IF o.err THEN Retry(o.s) ELSE {o.s})

-----------------------------------------------------------------------------
(* response_handler() *)

(* where it ends *)
Out(r) ==
    LET s == [r EXCEPT !.refer = FALSE] IN
    IF s.terminated
    THEN IF ~Wanted(s) THEN Deref(s)
         ELSE Map(request(s, TRUE),
                  LAMBDA o : IF o.err THEN Deref(o.s) ELSE {o.s})
    ELSE IF s.subscribed THEN Retry(s)
    ELSE sipsub_terminate(s)

(* a NOTIFY that ends the subscription is still to come *)
LastNotify(s) == ~s.expires /\ ~s.termconf

(* after a 2xx in the dialog of the subscription *)
Subscribed(r) ==
    LET s == [r EXCEPT !.dlg = TRUE, !.failc = 0,
                       !.subscribed = @ \/ ~r.termconf]
    IN  IF LastNotify(s) THEN {[s EXCEPT !.tmr = "notify", !.termwait = TRUE]}
        ELSE IF s.terminated THEN Out(s)
        ELSE IF s.refer THEN {[s EXCEPT !.refer = FALSE]}
        ELSE {[s EXCEPT !.tmr = "refresh"]}

(* A template leaves the 2xx to a fork of it; a subscription whose dialog  *)
(* a NOTIFY of another fork has established ignores it.                    *)
Success(s) ==
    IF s.forkh THEN {s}
    ELSE Subscribed(s)
           \cup (IF s.dlg THEN {[s EXCEPT !.foreign = TRUE]}
                 ELSE Out([s EXCEPT !.subscribed = FALSE]))

Again(s) ==
    Map(request(s, FALSE), LAMBDA o : IF o.err THEN Out(o.s) ELSE {o.s})

Counted(s, code) == [s EXCEPT !.ls = @ + 1, !.last = code]

(* sip_request_loops() *)
Loops(s, code) ==
    s.ls + 1 >= MaxLoop \/ (code # "401" /\ s.last = code)

Failure(s, code) ==
    CASE s.terminated /\ ~s.subscribed -> Out(s)
      [] code = "401" -> Out(s) \cup Again(s)
      [] code = "423" -> Out(s) \cup IF s.expires THEN Again(s) ELSE {}
      [] code = "481" -> Out([s EXCEPT !.subscribed = FALSE])
      [] OTHER -> Out(s)

response_handler(code) ==
    LET s == [sub EXCEPT !.req = FALSE] IN
    /\ sub.req
    /\ \/ /\ code = "err"
          /\ sub' \in Out(s)
       \/ /\ code = "2xx"
          /\ sub' \in Success([s EXCEPT !.ls = 0, !.last = code])
       \/ /\ code \notin {"err", "2xx"} /\ Loops(s, code)
          /\ sub' \in Out(Counted(s, code))
       \/ /\ code \notin {"err", "2xx"} /\ ~Loops(s, code)
          /\ sub' \in Failure(Counted(s, code), code)

-----------------------------------------------------------------------------
(* notify_handler() for a NOTIFY that belongs to the subscription: state   *)
(* of it and whether it has an expires parameter; release: notifyh()       *)
(* releases the subscription                                               *)

Notified(s, terminated, expires) ==
    IF terminated THEN [s EXCEPT !.subscribed = FALSE, !.termconf = TRUE]
    ELSE [s EXCEPT !.subscribed = @ \/ ~s.termconf,
                   !.tmr = IF expires /\ ~s.terminated /\ ~s.termwait
                           THEN "refresh" ELSE @]

(* The last NOTIFY of a subscription *)
Ended(s) ==
    LET t == [s EXCEPT !.termwait = FALSE] IN
    IF ~s.terminated THEN sipsub_terminate(t)
    ELSE IF s.termwait THEN Deref([t EXCEPT !.tmr = "off"])
    ELSE {s}

Handled(r, terminated, expires, release) ==
    LET s == Notified(r, terminated, expires) IN
    IF release THEN Deref([s EXCEPT !.app = FALSE])
    ELSE IF terminated THEN Ended(s)
    ELSE {s}

notify_handler(terminated, expires, release) ==
    /\ sub.alive /\ ~sub.forkh
    /\ release => sub.app /\ ~sub.terminated
    /\ sub' \in Handled([sub EXCEPT !.dlg = TRUE], terminated, expires, release)

(* sipevent_fork() *)
Fork(expires, refer) ==
    LET s == New(expires, refer, FALSE, TRUE) IN
    IF expires THEN s ELSE [s EXCEPT !.tmr = "notify", !.termwait = TRUE]

(* forkh() makes a fork for a NOTIFY, while the request of the template is *)
(* open, or for the 2xx                                                    *)
ForkedByNotify(expires, refer, terminated, exp, release) ==
    /\ sub = NoSub
    /\ refer => expires
    /\ sub' \in Handled([Fork(expires, refer) EXCEPT !.forked = TRUE],
                        terminated, exp, release)

ForkedByAnswer(expires, refer) ==
    /\ sub = NoSub
    /\ refer => expires
    /\ sub' \in Subscribed(Fork(expires, refer))

(* response_handler() of the template for a 2xx that belongs to a fork     *)
ForkAnswer ==
    /\ sub.alive /\ sub.forked
    /\ sub' \in Subscribed([sub EXCEPT !.forked = FALSE,
                                       !.foreign = sub.terminated])

-----------------------------------------------------------------------------
Application ==
    \/ \E expires, refer, forkh, dlg \in BOOLEAN :
         sipsub_alloc(expires, refer, forkh, dlg)
    \/ Release

Template ==
    \/ \E expires, refer, terminated, exp, release \in BOOLEAN :
         ForkedByNotify(expires, refer, terminated, exp, release)
    \/ \E expires, refer \in BOOLEAN : ForkedByAnswer(expires, refer)
    \/ ForkAnswer

Peer ==
    \E terminated, expires, release \in BOOLEAN :
      notify_handler(terminated, expires, release)

Response == \E code \in Codes : response_handler(code)

Next ==
    \/ Application \/ Template \/ Peer \/ Response
    \/ notify_timeout \/ tmr_handler

(* A request ends, by the timeout of its transaction at the latest, and    *)
(* timers expire.                                                          *)
Fairness == WF_vars(Response) /\ WF_vars(notify_timeout)

Spec == Init /\ [][Next]_vars

FairSpec == Spec /\ Fairness

-----------------------------------------------------------------------------
(* Properties *)

TypeOK ==
    /\ DOMAIN sub = DOMAIN NoSub
    /\ sub.nrefs \in 0..2 /\ sub.failc \in 0..RESUB_FAILC_MAX
    /\ sub.ls \in 0..MaxLoop
    /\ sub.tmr \in {"off", "refresh", "notify"}
    /\ sub.unsub \in {"no", "sent", "failed"}

(* The reference count is the number of those who hold the subscription:   *)
(* the application, and once it is terminated the open request or the wait *)
(* for the last NOTIFY, in whichever order the two come to an end.  Two    *)
(* cases are left out: after a 2xx for another dialog response_handler()   *)
(* returns and keeps the reference of the request, and on the 2xx for a    *)
(* terminated fork it drops one that nobody took.                          *)
RefsBalanced ==
    LET Count(b) == IF b THEN 1 ELSE 0 IN
    sub.alive /\ ~sub.foreign =>
      sub.nrefs = Count(sub.app)
                  + Count(sub.terminated /\ (sub.req \/ sub.termwait))

(* A subscription that waits for the last NOTIFY has the timer that ends   *)
(* the wait, and no other wait uses that timer.                            *)
NotifyTimer == sub.alive => (sub.termwait <=> sub.tmr = "notify")

(* A subscription that is in use is refreshed: a request is open or the    *)
(* timer runs, however refreshes fail and NOTIFYs come in between.  After  *)
(* a REFER, and in a fork before the 2xx, the notifier says when; a 2xx    *)
(* for another dialog starts no timer.                                     *)
Unrefreshed == sub.refers \/ sub.foreign \/ sub.forked

RefreshPending ==
    Held /\ sub.subscribed /\ ~sub.terminated /\ ~sub.forkh /\ ~Unrefreshed =>
      sub.req \/ sub.tmr # "off"

(* A notifier that takes part in the subscription is told when the         *)
(* application or too many failed refreshes end it: an un-SUBSCRIBE is     *)
(* sent, or sending it fails, before the subscription is freed.            *)
UnsubscribeTried ==
    /\ ~sub.alive /\ sub.subscribed /\ ~sub.fetch
    /\ sub.closed = 0 \/ sub.failc = RESUB_FAILC_MAX
    => sub.unsub # "no"

(* A subscription that the application has released is freed, whatever the *)
(* notifier answers and whether or not the last NOTIFY comes.              *)
Freed ==
    /\ []<>(sub.alive => sub.app \/ sub.foreign)
    /\ [][sub.alive /\ ~sub.app => ~sub'.alive \/ ~sub'.app \/ sub'.foreign]_sub

=============================================================================
