------------------------------- MODULE SipReg -------------------------------
(***************************************************************************)
(* A SIP registration client, src/sipreg/reg.c, with the loop state of its *)
(* requests (sip_request_loops() in src/sip/request.c) and the keepalive   *)
(* of an outbound flow as the registration sees it.                        *)
(*                                                                         *)
(* A registration has two lives: while the application holds it, and after *)
(* the release until the un-REGISTER has been answered.  Intervals are     *)
(* abstracted to whether the timer runs, expires to whether it is zero.    *)
(* Nothing keeps two REGISTERs from being open at once, for instance when  *)
(* the timer expires after sipreg_unregister(); reg->req then points to    *)
(* the last one, and is cleared by the first that ends, or at once when    *)
(* the second cannot be sent.                                              *)
(***************************************************************************)
EXTENDS Integers, FiniteSets, FiniteSetsExt

CONSTANTS
    MaxLoop,    \* failed requests in a row that are taken for a loop
    MaxOpen     \* bound: REGISTERs that are open at once

VARIABLE reg

vars == <<reg>>

Codes == {"err", "2xx", "401", "407", "423", "4xx", "5xx"}

(* struct sipreg; failc and last are its loop state.  The last fields are  *)
(* not in the code: open, the requests without a final response; unreg,    *)
(* what became of the un-REGISTER; sent, a REGISTER was sent; overlap, one *)
(* was begun while another was open; fault, a freed registration was used. *)
NoReg ==
    [alive |-> FALSE, app |-> FALSE, terminated |-> FALSE,
     registered |-> FALSE, expires |-> FALSE, tmr |-> FALSE, ka |-> FALSE,
     fbregint |-> FALSE, req |-> 0, failc |-> 0, last |-> "none",
     open |-> {}, unreg |-> "no", sent |-> FALSE, overlap |-> FALSE,
     fault |-> FALSE]

Init == reg = NoReg

-----------------------------------------------------------------------------
Ok(r)  == [r |-> r, err |-> FALSE]
Err(r) == [r |-> r, err |-> TRUE]

Map(outcomes, Then(_)) == UNION {Then(o) : o \in outcomes}

(* if (reg->terminated) reg->expires = 0 *)
WithExpires(r) == r.expires /\ ~r.terminated

(* request(): sip_drequestf(&reg->req, ...) may fail before it has a       *)
(* request, or in sip_request_send(), where the destructor of the request  *)
(* clears reg->req, whichever request that pointed to before.              *)
request(r, reset_ls) ==
    LET s == [r EXCEPT !.expires = WithExpires(r),
                       !.failc = IF reset_ls THEN 0 ELSE @,
                       !.last = IF reset_ls THEN "none" ELSE @,
                       !.overlap = @ \/ r.open # {}]
        i == Min(1..MaxOpen \ r.open)
        failed == [s EXCEPT !.unreg = IF s.expires \/ @ = "sent" THEN @
                                      ELSE "failed"]
    IN  {Ok([s EXCEPT !.open = @ \cup {i}, !.req = i, !.sent = TRUE,
                      !.unreg = IF s.expires THEN "no" ELSE "sent"]),
         Err(failed), Err([failed EXCEPT !.req = 0])}

(* The rest of destructor(): reg->req is not looked at. *)
Free(r) == [r EXCEPT !.alive = FALSE, !.tmr = FALSE, !.ka = FALSE]

(* if (reg->req) mem_ref(reg) *)
Open(r) == r.req # 0

(* Unless it was never registered, the registration lives on for the       *)
(* un-REGISTER.                                                            *)
Goodbye(r) ==
    IF ~r.registered THEN {Free(r)}
    ELSE {IF o.err THEN Free(o.r) ELSE o.r : o \in request(r, TRUE)}

(* destructor(), when the application releases the registration *)
destructor(r) ==
    LET t == [r EXCEPT !.app = FALSE, !.tmr = FALSE, !.terminated = TRUE]
    IN  IF Open(r) THEN {t} ELSE Goodbye(t)

-----------------------------------------------------------------------------
(* The application *)

sipreg_alloc(expires) ==
    /\ reg = NoReg
    /\ reg' = [NoReg EXCEPT !.alive = TRUE, !.app = TRUE, !.expires = expires]

Held == reg.alive /\ reg.app

MayRequest == Cardinality(reg.open) < MaxOpen

sipreg_send ==
    /\ Held /\ MayRequest
    /\ \E o \in request(reg, TRUE) : reg' = o.r

sipreg_unregister ==
    /\ Held /\ MayRequest
    /\ \E o \in request([reg EXCEPT !.expires = FALSE], TRUE) : reg' = o.r

sipreg_set_fbregint(on) ==
    /\ Held
    /\ reg' = [reg EXCEPT !.fbregint = on]

Release ==
    /\ Held
    /\ reg' \in destructor(reg)

-----------------------------------------------------------------------------
Muttmr_handler ==
    /\ reg.tmr /\ MayRequest
    /\ reg' \in {o.r : o \in request([reg EXCEPT !.tmr = FALSE], TRUE)}

tmr_handler ==
    /\ reg.tmr /\ MayRequest
    /\ reg' \in {[o.r EXCEPT !.tmr = o.err] :
                     o \in request([reg EXCEPT !.tmr = FALSE], TRUE)}

(* The flow has failed; an open request will find out by itself. *)
keepalive_handler ==
    /\ reg.ka
    /\ reg' = [reg EXCEPT !.ka = FALSE,
                          !.tmr = @ \/ ~(reg.req # 0 \/ reg.terminated)]

MutLoops(r, code) == code \notin {"401", "407"} /\ r.last = code

(* sip_request_loops(): more than MaxLoop failures in a row, or the same   *)
(* error other than a challenge twice                                      *)
Loops(r, code) ==
    \/ r.failc + 1 >= MaxLoop
    \/ code \notin {"401", "407"} /\ r.last = code

Counted(r, code) ==
    [r EXCEPT !.failc = IF code = "2xx" THEN 0 ELSE @ + 1,
              !.last = code]

Client(code) == code \in {"401", "407", "423", "4xx"}

(* where response_handler() ends *)
Out(r, code) ==
    LET s == [r EXCEPT !.fbregint = @ /\ ~Client(code)] IN
    IF ~r.expires
    THEN IF r.terminated THEN {Free(s)} ELSE {[s EXCEPT !.tmr = s.fbregint]}
    ELSE IF r.terminated THEN Goodbye(r)
    ELSE {[r EXCEPT !.tmr = TRUE]}

(* A request that is made again, with credentials or another expires *)
Again(r, code) ==
    Map(request(r, FALSE), LAMBDA o : IF o.err THEN Out(o.r, code) ELSE {o.r})

MutMayRaise(r) == TRUE

(* if (... || !reg->expires) break; reg->expires = pl_u32(&minexp->val) *)
MayRaise(r) == r.expires

(* sip_request_loops() has not seen a loop; wait: the registrar granted    *)
(* more than zero seconds, on: the keepalive of the flow is started.  A    *)
(* challenge may have no answer, a 423 no Min-Expires.                     *)
Answered(r, code, last) ==
    CASE code = "2xx" ->
           UNION {Out([r EXCEPT !.registered = wait, !.ka = @ \/ on], code) :
                    wait \in BOOLEAN,
                    on \in IF r.terminated THEN {FALSE} ELSE BOOLEAN}
      [] r.terminated /\ ~r.registered ->
           Out(r, code)
      [] code \in {"401", "407"} ->
           IF r.failc > 1 /\ last = code THEN Out(r, code)
           ELSE Out(r, code) \cup Again(r, code)
      [] code = "423" ->
           Out(r, code) \cup
             IF MayRaise(r) THEN Again([r EXCEPT !.expires = TRUE], code)
             ELSE {}
      [] OTHER ->
           Out(r, code)

(* response_handler() for the final response or the error of a request *)
response_handler(i, code) ==
    LET s == [reg EXCEPT !.open = @ \ {i}, !.req = 0] IN
    /\ i \in reg.open
    /\ \/ /\ ~reg.alive
          /\ reg' = [s EXCEPT !.fault = TRUE]
       \/ /\ reg.alive /\ code = "err"
          /\ reg' \in Out(s, code)
       \/ /\ reg.alive /\ code \notin {"err", "2xx"} /\ Loops(s, code)
          /\ reg' \in Out(Counted(s, code), code)
       \/ /\ reg.alive /\ code # "err" /\ (code # "2xx" => ~Loops(s, code))
          /\ reg' \in Answered(Counted(s, code), code, s.last)

-----------------------------------------------------------------------------
Response == \E i \in 1..MaxOpen, code \in Codes : response_handler(i, code)

Next ==
    \/ \E expires \in BOOLEAN : sipreg_alloc(expires)
    \/ sipreg_send
    \/ sipreg_unregister
    \/ \E on \in BOOLEAN : sipreg_set_fbregint(on)
    \/ Release
    \/ tmr_handler
    \/ keepalive_handler
    \/ Response

(* A request ends, by the timeout of its transaction at the latest. *)
Fairness == WF_vars(Response)

Spec == Init /\ [][Next]_vars

FairSpec == Spec /\ Fairness

-----------------------------------------------------------------------------
(* Properties *)

TypeOK ==
    /\ DOMAIN reg = DOMAIN NoReg
    /\ reg.req \in 0..MaxOpen /\ reg.open \subseteq 1..MaxOpen
    /\ reg.failc < MaxLoop + MaxOpen
    /\ reg.unreg \in {"no", "sent", "failed"}

(* An answer never finds its registration freed: the destructor waits for  *)
(* the open request, which holds as long as no REGISTER is begun while     *)
(* another is open.                                                        *)
NoDangling == reg.fault => reg.overlap

(* A registration that the application holds and wants never goes to       *)
(* sleep: after the first REGISTER, one is open or the timer runs, however *)
(* requests, challenges and the flow fail.                                 *)
RefreshPending ==
    Held /\ reg.sent /\ reg.expires => reg.open # {} \/ reg.tmr

(* When it is freed, a registration that the registrar has granted was     *)
(* taken back, or the un-REGISTER could not be sent.                       *)
UnregisterTried == ~reg.alive /\ reg.registered => reg.unreg # "no"

(* Once the application has asked for the removal, or released the         *)
(* registration, no answer makes it register again.                        *)
StaysUnregistered ==
    [][reg.alive /\ (reg.terminated \/ ~reg.expires) /\ reg' # reg =>
         ~(reg'.expires /\ reg'.open \ reg.open # {})]_vars

(* fbregint is the interval of a registration to fall back to that expires *)
(* at once: the registrar that rejects it is not asked again by itself.    *)
FallbackStops ==
    [][\A i \in reg.open :
         Held /\ ~reg.expires /\ response_handler(i, "4xx") => ~reg'.tmr]_vars

(* A registration that was released is freed, also against a registrar     *)
(* that challenges every request.                                          *)
Freed ==
    /\ []<>(reg.terminated => ~reg.alive)
    /\ [][reg.terminated => reg'.terminated \/ ~reg'.alive]_reg

=============================================================================
