----------------------------- MODULE StunClient -----------------------------
(***************************************************************************)
(* STUN client transactions, src/stun/ctrans.c, as the application and a   *)
(* keepalive session, src/stun/keepalive.c, use them.                      *)
(*                                                                         *)
(* Times are in units of the retransmission timeout rto.  waited is how    *)
(* long a transaction has been on its way when its timer expires next, and *)
(* sent how often its request was sent.                                    *)
(***************************************************************************)
EXTENDS Integers, TLC

CONSTANTS
    Trans,      \* the client transactions
    RC, RM,     \* stun_conf: number of transmissions, factor of the last wait
    TI,         \* stun_conf: timeout over TCP
    Addrs,      \* addresses that a server may see
    None        \* no address, no transaction

ASSUME ConfAssumption == RC \in Nat \ {0, 1} /\ RM \in Nat \ {0} /\ TI \in Nat

VARIABLE stun   \* struct stun with its transactions, and the keepalive

vars == <<stun>>

(* "udp" and "tcp" over the socket of the user, "connect" over a TCP       *)
(* connection of the transaction's own                                     *)
Protos == {"udp", "tcp", "connect"}

NoTrans == [st |-> "none", proto |-> "udp", user |-> "app", ptr |-> FALSE,
            estab |-> FALSE, txc |-> 0, ival |-> 0, sent |-> 0, waited |-> 0,
            calls |-> 0]

(* ska is the keepalive: its timer, its transaction, the interval that is  *)
(* set or not, the current mapping, and what the application was told.     *)
(* stale: an error was reported and the mapping kept.                      *)
Init ==
    stun = [ct |-> [t \in Trans |-> NoTrans], open |-> TRUE,
            ska |-> [alive |-> TRUE, tmr |-> FALSE, ct |-> None,
                     interval |-> FALSE, curmap |-> None, told |-> None,
                     stale |-> FALSE]]

-----------------------------------------------------------------------------
(* The response handler of the keepalive; map is the address in a good     *)
(* response, and None stands for all that went wrong.                      *)

call_handler(s, map) == [s EXCEPT !.ska.told = map]

MutRestart(s) == s

(* Restart timer *)
Restart(s) == [s EXCEPT !.ska.tmr = @ \/ s.ska.interval]

NewMapping(s, map) ==
    IF s.ska.curmap = map THEN s
    ELSE call_handler([s EXCEPT !.ska.curmap = map, !.ska.stale = FALSE], map)

(* An error code alone clears the mapping and is not reported; a response  *)
(* without an address is reported and clears nothing.                      *)
stun_response_handler(s) ==
    LET r == Restart([s EXCEPT !.ska.ct = None])
        clear == [r EXCEPT !.ska.curmap = None, !.ska.stale = FALSE]
    IN  {call_handler(clear, None), clear,
         call_handler([r EXCEPT !.ska.stale = r.ska.curmap # None], None)}
          \cup {NewMapping(r, map) : map \in Addrs}

-----------------------------------------------------------------------------
(* Transactions *)

destructor(s, t) == [s EXCEPT !.ct[t].st = "gone", !.ct[t].ptr = FALSE]

Called(c) == [c EXCEPT !.st = "gone", !.ptr = FALSE, !.calls = @ + 1]

(* completed(): the transaction is destroyed, then the handler is called.  *)
completed(s, t) ==
    LET d == [s EXCEPT !.ct[t] = Called(@)] IN
    IF s.ct[t].user = "ska" THEN stun_response_handler(d) ELSE {d}

(* The record of a request that was sent, or whose connection is on its way *)
Request(user, proto) ==
    LET udp == proto = "udp" IN
    [NoTrans EXCEPT !.st = "pending", !.proto = proto, !.user = user,
                    !.ptr = TRUE,
                    !.txc = IF udp THEN 1 ELSE RC,
                    !.ival = IF udp THEN 1 ELSE TI,
                    !.waited = IF udp THEN 1 ELSE TI,
                    !.sent = IF proto = "connect" THEN 0 ELSE 1]

Started(s, t, user, proto) == [s EXCEPT !.ct[t] = Request(user, proto)]

(* What could not be sent is destroyed, and no handler is called. *)
Failed(s, t) == [s EXCEPT !.ct[t].st = "gone"]

stun_ctrans_request(t, proto) ==
    /\ stun.open /\ stun.ct[t].st = "none"
    /\ stun' \in {Started(stun, t, "app", proto), Failed(stun, t)}

(* ct->txc++ >= cfg->rc *)
Exhausted(c) == c.txc >= RC

(* ct->ival, with ct->txc already counted up *)
NextIval(c) == IF c.txc + 1 >= RC THEN RM ELSE c.ival * 2

Resent(s, t) ==
    LET i == NextIval(s.ct[t]) IN
    [s EXCEPT !.ct[t].txc = @ + 1, !.ct[t].ival = i, !.ct[t].sent = @ + 1,
              !.ct[t].waited = @ + i]

timeout_handler(t) ==
    /\ stun.ct[t].st = "pending"
    /\ IF Exhausted(stun.ct[t])
       THEN stun' \in completed(stun, t)
       ELSE \/ stun' = Resent(stun, t)
            \/ stun' \in completed(stun, t)

tcp_estab_handler(t) ==
    /\ stun.ct[t].st = "pending" /\ stun.ct[t].proto = "connect"
    /\ ~stun.ct[t].estab
    /\ \/ stun' = [stun EXCEPT !.ct[t].estab = TRUE, !.ct[t].sent = 1]
       \/ stun' \in completed(stun, t)

tcp_close_handler(t) ==
    /\ stun.ct[t].st = "pending" /\ stun.ct[t].proto = "connect"
    /\ stun' \in completed(stun, t)

(* A response whose message integrity is wrong leaves the transaction. *)
stun_ctrans_recv(t) ==
    /\ stun.ct[t].st = "pending" /\ stun.ct[t].sent > 0
    /\ stun' \in completed(stun, t)

(* mem_deref() of a transaction by the application *)
Drop(t) ==
    stun.ct[t].ptr /\ stun.ct[t].user = "app" /\ stun' = destructor(stun, t)

(* mem_deref() of the STUN instance of the application *)
stun_ctrans_close ==
    /\ stun.open
    /\ stun' = [stun EXCEPT
                  !.open = FALSE,
                  !.ct = [t \in {u \in Trans : @[u].ptr /\ @[u].user = "app"} |->
                            Called(@[t])] @@ @]

-----------------------------------------------------------------------------
(* The keepalive session, which has a STUN instance of its own *)

(* ska->ct = mem_deref(ska->ct) *)
DropCt(s) ==
    IF s.ska.ct = None THEN s
    ELSE [destructor(s, s.ska.ct) EXCEPT !.ska.ct = None]

(* A request that cannot be sent is reported, and the mapping is kept. *)
timeout(t) ==
    /\ stun.ska.alive /\ stun.ska.tmr /\ stun.ct[t].st = "none"
    /\ LET s == DropCt([stun EXCEPT !.ska.tmr = FALSE])
           kept == [s EXCEPT !.ska.stale = s.ska.curmap # None]
       IN  \/ stun' = [Started(s, t, "ska", "udp") EXCEPT !.ska.ct = t]
           \/ stun' = call_handler(Restart(Failed(kept, t)), None)

stun_keepalive_enable(interval) ==
    /\ stun.ska.alive
    /\ stun' = [stun EXCEPT !.ska.interval = interval, !.ska.tmr = interval]

keepalive_destructor ==
    /\ stun.ska.alive
    /\ stun' = [DropCt(stun) EXCEPT !.ska.alive = FALSE, !.ska.tmr = FALSE]

-----------------------------------------------------------------------------
Next ==
    \/ stun_ctrans_close \/ keepalive_destructor
    \/ \E i \in BOOLEAN : stun_keepalive_enable(i)
    \/ \E t \in Trans :
         \/ \E proto \in Protos : stun_ctrans_request(t, proto)
         \/ Drop(t) \/ timeout(t)
         \/ timeout_handler(t) \/ stun_ctrans_recv(t)
         \/ tcp_estab_handler(t) \/ tcp_close_handler(t)

(* Timers expire. *)
Fairness == \A t \in Trans : WF_vars(timeout_handler(t))

Spec == Init /\ [][Next]_vars /\ Fairness

-----------------------------------------------------------------------------
(* Properties *)

Pending(t) == stun.ct[t].st = "pending"

TypeOK ==
    /\ stun.ct \in [Trans ->
                      [st : {"none", "pending", "gone"}, proto : Protos,
                       user : {"app", "ska"}, ptr : BOOLEAN, estab : BOOLEAN,
                       txc : 0..RC, ival : Nat, sent : 0..RC, waited : Nat,
                       calls : 0..1]]
    /\ stun.open \in BOOLEAN
    /\ stun.ska \in [alive : BOOLEAN, tmr : BOOLEAN, ct : Trans \cup {None},
                     interval : BOOLEAN, curmap : Addrs \cup {None},
                     told : Addrs \cup {None}, stale : BOOLEAN]

(* The pointer that a user of a transaction has is set as long as the      *)
(* transaction lives, and the response handler is not called before its    *)
(* end; the keepalive has one transaction at most, and while it has one    *)
(* it still exists to take the response.                                   *)
PointerValid ==
    \A t \in Trans :
      /\ stun.ct[t].ptr <=> Pending(t)
      /\ Pending(t) => stun.ct[t].calls = 0
      /\ Pending(t) /\ stun.ct[t].user = "ska" =>
           stun.ska.alive /\ stun.ska.ct = t
      /\ stun.ska.ct = t => Pending(t) /\ stun.ct[t].user = "ska"

Pow2[n \in Nat] == IF n = 0 THEN 1 ELSE 2 * Pow2[n - 1]

(* The schedule of RFC 5389 section 7.2.1: the waits double from rto on,   *)
(* the last one is rm * rto, and no request is sent more than rc times, so *)
(* a transaction over UDP that nobody answers ends after                   *)
(* (2^(rc - 1) - 1 + rm) * rto, and one over TCP after ti.                 *)
Schedule ==
    \A t \in Trans :
      LET c == stun.ct[t] IN
      Pending(t) =>
        /\ c.sent <= RC
        /\ c.waited = CASE c.proto # "udp" -> TI
                        [] c.txc < RC -> Pow2[c.txc] - 1
                        [] OTHER -> Pow2[RC - 1] - 1 + RM

(* A keepalive that is enabled goes on: its timer runs, or a request is on *)
(* its way whose end starts the timer again; and one that is disabled      *)
(* sends nothing new.                                                      *)
KeepaliveRuns ==
    stun.ska.alive =>
      /\ stun.ska.interval => stun.ska.tmr \/ stun.ska.ct # None
      /\ stun.ska.tmr => stun.ska.interval

(* The application knows the current mapping, unless an error was reported *)
(* since and the mapping is still the same.                                *)
MappingTold ==
    stun.ska.curmap # None /\ ~stun.ska.stale => stun.ska.told = stun.ska.curmap

(* Every transaction ends. *)
Ends == \A t \in Trans : Pending(t) ~> ~Pending(t)

=============================================================================
