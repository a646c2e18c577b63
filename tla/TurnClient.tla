----------------------------- MODULE TurnClient -----------------------------
(***************************************************************************)
(* The TURN client, src/turn: the allocation (turnc.c), permissions        *)
(* (perm.c) and channels (chan.c).  Each of them has a STUN transaction, a *)
(* refresh timer and a loop state of its own; they share the credentials   *)
(* and the handler th that hears of every failure.                         *)
(*                                                                         *)
(* A transaction that was started ends with one response or error          *)
(* (StunClient).  The data that goes over the relay is not modelled.       *)
(***************************************************************************)
EXTENDS Integers, TLC

CONSTANTS
    Perms, Chans,       \* peers that get a permission, and a channel
    FAILC_MAX,
    CHAN_NUMB_MAX       \* channel numbers start with 0 here

VARIABLE turn           \* struct turnc, with its permissions and channels

vars == <<turn>>

Alloc == "alloc"
Owners == {Alloc} \cup Perms \cup Chans

(* scode of a response: 0 is success; the codes that are not listed end    *)
(* like an error of the transaction                                        *)
Codes == {0, 300, 401, 438}

(* ok: it was confirmed; failed: th heard of an error; h: perm->ph or      *)
(* chan->ch is still to be called                                          *)
NoOwner == [exists |-> FALSE, ct |-> FALSE, tmr |-> FALSE, last |-> 0,
            failc |-> 0, ok |-> FALSE, failed |-> FALSE, h |-> FALSE, nr |-> 0]

Init ==
    turn = [own |-> [o \in Owners |-> NoOwner], nr |-> 0, allocated |-> FALSE,
            released |-> FALSE, st |-> "none"]

-----------------------------------------------------------------------------
(* turnc_request_loops(): what it returns, and the loop state it leaves *)

MutFailc(w, scode) == IF scode = 300 THEN w.failc + 1 ELSE 0

Failc(w, scode) == IF scode = 0 THEN 0 ELSE w.failc + 1

Loops(w, scode) ==
    /\ scode # 0
    /\ \/ scode # 300 /\ w.last = scode
       \/ Failc(w, scode) >= FAILC_MAX

Noted(t, o, scode) ==
    [t EXCEPT !.own[o].failc = Failc(t.own[o], scode), !.own[o].last = scode]

turnc_loopstate_reset(t, o) ==
    [t EXCEPT !.own[o].failc = 0, !.own[o].last = 0]

-----------------------------------------------------------------------------
(* turnc->th() with an error: nothing is tried again for this owner. *)
Report(t, o) == [t EXCEPT !.own[o].failed = TRUE]

(* allocate_request(), refresh_request(), createperm_request() and         *)
(* chanbind_request(), and what their callers do when they fail            *)
Request(t, o) == {[t EXCEPT !.own[o].ct = TRUE], Report(t, o)}

(* A good response starts the refresh timer, and the permission or channel *)
(* handler is called the first time.                                       *)
Confirmed(t, o) ==
    [t EXCEPT !.own[o].ok = TRUE, !.own[o].h = FALSE, !.own[o].tmr = TRUE,
              !.allocated = @ \/ o = Alloc]

(* Over UDP the allocation is moved to another server when its first       *)
(* response names one.                                                     *)
Redirected(t, o) ==
    IF o = Alloc /\ ~t.own[o].ok THEN Request(t, o) ELSE {}

(* turnc_keygen(), with or without a realm and nonce in the response *)
Challenged(t, o) == {Report(t, o)} \cup Request(t, o)

(* The switch on scode of the response handlers *)
Answered(t, o, scode) ==
    CASE scode = 0 ->
           {Confirmed(t, o)}
             \cup (IF o = Alloc /\ ~t.own[o].ok THEN {Report(t, o)} ELSE {})
      [] scode = 300 -> {Report(t, o)} \cup Redirected(t, o)
      [] scode \in {401, 438} -> Challenged(t, o)

-----------------------------------------------------------------------------
(* turnc_alloc() *)
turnc_alloc ==
    /\ turn.st = "none"
    /\ turn' \in {[turn EXCEPT !.st = "alive",
                               !.own[Alloc].exists = TRUE,
                               !.own[Alloc].ct = TRUE],
                  [turn EXCEPT !.st = "gone"]}

New(t, o, nr) ==
    [t EXCEPT !.own[o] = [NoOwner EXCEPT !.exists = TRUE, !.ct = TRUE,
                                         !.h = TRUE, !.nr = nr]]

(* turnc_add_perm(); a permission that could not be requested is freed. *)
turnc_add_perm(p) ==
    /\ turn.st = "alive" /\ ~turn.own[p].exists
    /\ turn' \in {New(turn, p, 0), turn}

(* chan->nr = turnc->chans->nr++ *)
NextNr == [turn EXCEPT !.nr = @ + 1]

(* turnc_add_chan(); the number of a channel that failed is lost. *)
turnc_add_chan(c) ==
    /\ turn.st = "alive" /\ turn.nr < CHAN_NUMB_MAX /\ ~turn.own[c].exists
    /\ turn' \in {New(NextNr, c, turn.nr), NextNr}

(* completed(): the transaction is gone before the handler is called. *)
Responded(o) == [turn EXCEPT !.own[o].ct = FALSE]

(* What the four response handlers have in common *)
Response(o) ==
    /\ turn.own[o].ct
    /\ \/ turn' = Report(Responded(o), o)
       \/ \E scode \in Codes :
            LET t == Noted(Responded(o), o, scode) IN
            turn' \in IF Loops(turn.own[o], scode) THEN {Report(t, o)}
                      ELSE Answered(t, o, scode)

allocate_resp_handler == ~turn.own[Alloc].ok /\ Response(Alloc)

refresh_resp_handler == turn.own[Alloc].ok /\ Response(Alloc)

createperm_resp_handler(p) == Response(p)

chanbind_resp_handler(c) == Response(c)

(* timeout() of the allocation, of a permission and of a channel *)
timeout(o) ==
    /\ turn.own[o].tmr
    /\ turn' \in Request(turnc_loopstate_reset(
                           [turn EXCEPT !.own[o].tmr = FALSE], o), o)

(* An allocation is given back, as far as the request can be sent. *)
Released(t) == t.allocated

destructor ==
    /\ turn.st = "alive"
    /\ turn' = [turn EXCEPT !.st = "gone", !.released = Released(turn),
                            !.own = [o \in Owners |-> NoOwner]]

-----------------------------------------------------------------------------
Next ==
    \/ turnc_alloc \/ destructor
    \/ allocate_resp_handler \/ refresh_resp_handler
    \/ \E p \in Perms : turnc_add_perm(p) \/ createperm_resp_handler(p)
    \/ \E c \in Chans : turnc_add_chan(c) \/ chanbind_resp_handler(c)
    \/ \E o \in Owners : timeout(o)

(* A transaction ends at the latest with its own timeout. *)
Fairness == \A o \in Owners : WF_vars(Response(o))

Spec == Init /\ [][Next]_vars /\ Fairness

-----------------------------------------------------------------------------
(* Properties *)

TypeOK ==
    /\ turn.own \in [Owners ->
                       [exists : BOOLEAN, ct : BOOLEAN, tmr : BOOLEAN,
                        last : Codes, failc : 0..FAILC_MAX, ok : BOOLEAN,
                        failed : BOOLEAN, h : BOOLEAN, nr : 0..CHAN_NUMB_MAX]]
    /\ turn.nr \in 0..CHAN_NUMB_MAX
    /\ turn.allocated \in BOOLEAN /\ turn.released \in BOOLEAN
    /\ turn.st \in {"none", "alive", "gone"}

(* The allocation, a permission or a channel is always in one of three     *)
(* conditions: a request is on its way, or the timer of the next one runs, *)
(* or the handler of the client heard that it failed.  None is forgotten,  *)
(* and none has two requests, also when challenges, redirections and       *)
(* refreshes of the others come in between.                                *)
Refreshed ==
    \A o \in Owners :
      LET w == turn.own[o] IN
      /\ w.exists => (w.ct \/ w.tmr \/ w.failed)
      /\ ~(w.ct /\ w.tmr) /\ (w.failed => ~w.ct /\ ~w.tmr)
      /\ w.exists /\ ~w.ok /\ o # Alloc => w.h
      /\ ~w.exists => ~w.ct /\ ~w.tmr

(* A server that holds an allocation of the client is told when the client *)
(* ends, whatever became of the refreshes.                                 *)
GivenBack == turn.st = "gone" => (turn.allocated <=> turn.released)

(* A server cannot keep the client in a loop of challenges and             *)
(* redirections: every request leads to a confirmation or to a report.     *)
Settled ==
    \A o \in Owners :
      turn.own[o].ct ~> (turn.own[o].tmr \/ turn.own[o].failed
                           \/ ~turn.own[o].exists)

=============================================================================
