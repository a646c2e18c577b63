-------------------------------- MODULE Timer --------------------------------
(***************************************************************************)
(* The timers of src/tmr/tmr.c.  Every thread that runs an event loop has  *)
(* a timer list of its own, protected by the lock of that list; a timer is *)
(* moved to the list of the thread that starts it.                         *)
(*                                                                         *)
(* tmr_startcont_dbg() is four steps: the test of tmr->active, the unlocked *)
(* choice of the lock, the critical section that unlinks the timer and the *)
(* critical section that inserts it.  tmr_poll() takes an expired timer    *)
(* off the list in one critical section and calls the handler after it.    *)
(* What a handler does with timers is what its thread does between two     *)
(* steps of tmr_poll().                                                    *)
(*                                                                         *)
(* A poll may run meanwhile, and several threads may cancel one timer at   *)
(* the same time; a start excludes the other calls on the same timer.      *)
(***************************************************************************)
EXTENDS Integers, Sequences, SequencesExt, FiniteSets

CONSTANTS
    Threads,    \* threads with an event loop and a timer list
    Timers,     \* struct tmr objects
    NoThread,   \* a NULL list or lock
    NoTimer,    \* no handler to call
    Delays,     \* delays that are asked for
    MaxTime,    \* bound: the clock
    MaxStart,   \* bound: starts
    MaxCancel   \* bound: cancels

VARIABLES
    now,        \* tmr_jiffies()
    list,       \* tmrl->list of a thread
    jfs,        \* tmr->jfs
    th,         \* tmr->th is set
    llock,      \* tmr->llock: the thread whose list lock it is
    active,     \* tmr->active
    pc,         \* where a thread is in tmr_startcont_dbg()
    call,       \* the arguments and locals of that call
    poll,       \* the clock that a running tmr_poll() has read, or -1
    due,        \* the timer whose handler tmr_poll() is about to call
    nstart,     \* number of starts
    ncancel,    \* number of cancels
    order,      \* history: when the timer was put on its list
    stopped,    \* history: cancels that returned and no start came since
    raced       \* history: timers two cancels of which have overlapped

vars == <<now, list, jfs, th, llock, active, pc, call, poll, due, nstart,
          ncancel, order, stopped, raced>>

bounds == <<nstart, ncancel>>

(* tmr->le.list *)
ListOf(x) ==
    IF \E t \in Threads : Contains(list[t], x)
    THEN CHOOSE t \in Threads : Contains(list[t], x)
    ELSE NoThread

InCall(x) == {t \in Threads : pc[t] # "idle" /\ call[t].tmr = x}

NoCall == [tmr |-> NoTimer, start |-> FALSE, sync |-> FALSE, delay |-> 0,
           old |-> FALSE, lock |-> NoThread]

Init ==
    /\ now = 0
    /\ list = [t \in Threads |-> <<>>]
    /\ jfs = [x \in Timers |-> 0]
    /\ th = [x \in Timers |-> FALSE]
    /\ llock = [x \in Timers |-> NoThread]
    /\ active = [x \in Timers |-> FALSE]
    /\ pc = [t \in Threads |-> "idle"]
    /\ call = [t \in Threads |-> NoCall]
    /\ poll = [t \in Threads |-> -1]
    /\ due = [t \in Threads |-> NoTimer]
    /\ nstart = 0
    /\ ncancel = 0
    /\ order = [x \in Timers |-> 0]
    /\ stopped = {}
    /\ raced = {}

(* Past MaxTime the clock only goes on for the timers that are pending. *)
Tick ==
    /\ \/ now < MaxTime
       \/ \E t \in Threads : list[t] # <<>> /\ now < jfs[Last(list[t])]
    /\ now' = now + 1
    /\ UNCHANGED <<list, jfs, th, llock, active, pc, call, poll, due, bounds,
                   order, stopped, raced>>

-----------------------------------------------------------------------------
(* tmr_startcont_dbg() *)

(* tmr_start() and, with sync false, tmr_continue() *)
tmr_start(t, x, delay, sync) ==
    /\ pc[t] = "idle"
    /\ due[t] = NoTimer
    /\ nstart < MaxStart
    /\ InCall(x) = {}
    /\ nstart' = nstart + 1
    /\ pc' = [pc EXCEPT ![t] = "choose"]
    /\ call' = [call EXCEPT ![t] = [NoCall EXCEPT !.tmr = x, !.start = TRUE,
                                    !.sync = sync, !.delay = delay]]
    /\ stopped' = {s \in stopped : s[2] # x}
    /\ raced' = raced \ {x}
    /\ UNCHANGED <<now, list, jfs, th, llock, active, poll, due, ncancel,
                   order>>

MayCancel(t, x) ==
    /\ pc[t] = "idle"
    /\ due[t] = NoTimer
    /\ ncancel < MaxCancel
    /\ \A u \in InCall(x) : ~call[u].start

(* tmr_cancel() of an active timer *)
tmr_cancel(t, x) ==
    /\ MayCancel(t, x)
    /\ active[x]
    /\ ncancel' = ncancel + 1
    /\ raced' = IF InCall(x) = {} THEN raced ELSE raced \cup {x}
    /\ pc' = [pc EXCEPT ![t] = "choose"]
    /\ call' = [call EXCEPT ![t] = [NoCall EXCEPT !.tmr = x]]
    /\ UNCHANGED <<now, list, jfs, th, llock, active, poll, due, nstart,
                   order, stopped>>

(* tmr_cancel() of a timer that is not active returns at once. *)
CancelInactive(t, x) ==
    /\ MayCancel(t, x)
    /\ ~active[x]
    /\ ncancel' = ncancel + 1
    /\ raced' = IF InCall(x) = {} THEN raced ELSE raced \cup {x}
    /\ stopped' = stopped \cup {<<t, x>>}
    /\ UNCHANGED <<now, list, jfs, th, llock, active, pc, call, poll, due,
                   nstart, order>>

(* active is cleared, and the lock of the list that holds the timer is     *)
(* read without holding it; the lock of the current list if there is none. *)
IsLinked(x) == llock[x] # NoThread /\ ListOf(x) # NoThread

MutChosenLock(t, x) == t

ChosenLock(t, x) == IF IsLinked(x) THEN llock[x] ELSE t

ChooseLock(t) ==
    LET x == call[t].tmr IN
    /\ pc[t] = "choose"
    /\ active' = [active EXCEPT ![x] = FALSE]
    /\ call' = [call EXCEPT ![t].old = IsLinked(x),
                             ![t].lock = ChosenLock(t, x)]
    /\ pc' = [pc EXCEPT ![t] = "unlink"]
    /\ UNCHANGED <<now, list, jfs, th, llock, poll, due, bounds, order,
                   stopped, raced>>

(* tmr->llock is read a second time, after the test: a cancel that ends in *)
(* between has set it to NULL, and mtx_lock(NULL) locks nothing.           *)
RereadLock(t) ==
    LET x == call[t].tmr IN
    /\ pc[t] = "unlink"
    /\ call[t].old
    /\ call[t].lock # NoThread
    /\ llock[x] = NoThread
    /\ call' = [call EXCEPT ![t].lock = NoThread]
    /\ UNCHANGED <<now, list, jfs, th, llock, active, pc, poll, due, bounds,
                   order, stopped, raced>>

(* if (tmr->th) list_unlink(&tmr->le) *)
Unlinked(x) ==
    IF th[x] THEN [u \in Threads |-> Remove(list[u], x)] ELSE list

(* The first critical section. *)
Unlink(t) ==
    /\ pc[t] = "unlink"
    /\ list' = Unlinked(call[t].tmr)
    /\ pc' = [pc EXCEPT ![t] = "insert"]
    /\ UNCHANGED <<now, jfs, th, llock, active, call, poll, due, bounds,
                   order, stopped, raced>>

(* inspos_handler_0: before the first timer that expires later. *)
InsertForward(l, x, j) ==
    LET i == SelectInSeq(l, LAMBDA y : jfs[y] > j)
    IN  IF i > 0 THEN InsertAt(l, i, x) ELSE Append(l, x)

(* inspos_handler: after the last timer that does not expire later. *)
InsertBackward(l, x, j) ==
    LET i == SelectLastInSeq(l, LAMBDA y : jfs[y] <= j)
    IN  InsertAt(l, i + 1, x)

(* The second critical section of a cancel. *)
EndCancel(t) ==
    LET x == call[t].tmr IN
    /\ pc[t] = "insert"
    /\ ~call[t].start
    /\ th' = [th EXCEPT ![x] = FALSE]
    /\ llock' = [llock EXCEPT ![x] = NoThread]
    /\ pc' = [pc EXCEPT ![t] = "idle"]
    /\ call' = [call EXCEPT ![t] = NoCall]
    /\ stopped' = stopped \cup {<<t, x>>}
    /\ UNCHANGED <<now, list, jfs, active, poll, due, bounds, order, raced>>

(* tmr_continue() counts from the last expiry, tmr_start() from now. *)
Expiry(t) ==
    (IF call[t].sync THEN now ELSE jfs[call[t].tmr]) + call[t].delay

(* re_atomic_rls_set(&tmr->active, true) *)
SetActive == TRUE

(* The second critical section of a start. *)
EndStart(t) ==
    LET x == call[t].tmr
        j == Expiry(t)
    IN
    /\ pc[t] = "insert"
    /\ call[t].start
    /\ th' = [th EXCEPT ![x] = TRUE]
    /\ llock' = [llock EXCEPT ![x] = t]
    /\ jfs' = [jfs EXCEPT ![x] = j]
    /\ list' = [list EXCEPT ![t] = IF call[t].delay = 0
                                   THEN InsertForward(@, x, j)
                                   ELSE InsertBackward(@, x, j)]
    /\ active' = [active EXCEPT ![x] = SetActive]
    /\ order' = [order EXCEPT ![x] = 1 + Max({order[y] : y \in Timers})]
    /\ pc' = [pc EXCEPT ![t] = "idle"]
    /\ call' = [call EXCEPT ![t] = NoCall]
    /\ UNCHANGED <<now, poll, due, bounds, stopped, raced>>

-----------------------------------------------------------------------------
(* tmr_poll(): the clock is read once, *)
PollBegin(t) ==
    /\ pc[t] = "idle"
    /\ poll[t] = -1
    /\ poll' = [poll EXCEPT ![t] = now]
    /\ UNCHANGED <<now, list, jfs, th, llock, active, pc, call, due, bounds,
                   order, stopped, raced>>

Expired(t) == list[t] # <<>> /\ jfs[Head(list[t])] <= poll[t]

(* an expired timer is taken off the head of the list, *)
PollTake(t) ==
    LET x == Head(list[t]) IN
    /\ pc[t] = "idle"
    /\ poll[t] # -1
    /\ due[t] = NoTimer
    /\ Expired(t)
    /\ th' = [th EXCEPT ![x] = FALSE]
    /\ list' = [list EXCEPT ![t] = Tail(@)]
    /\ due' = [due EXCEPT ![t] = IF th[x] THEN x ELSE NoTimer]
    /\ UNCHANGED <<now, jfs, llock, active, pc, call, poll, bounds, order,
                   stopped, raced>>

(* its handler is called without the lock, *)
PollCall(t) ==
    /\ due[t] # NoTimer
    /\ due' = [due EXCEPT ![t] = NoTimer]
    /\ UNCHANGED <<now, list, jfs, th, llock, active, pc, call, poll, bounds,
                   order, stopped, raced>>

MutPollEnd(t) ==
    /\ pc[t] = "idle"
    /\ poll[t] # -1
    /\ due[t] = NoTimer
    /\ ~Expired(t)
    /\ UNCHANGED vars

(* until the head has not expired. *)
PollEnd(t) ==
    /\ pc[t] = "idle"
    /\ poll[t] # -1
    /\ due[t] = NoTimer
    /\ ~Expired(t)
    /\ poll' = [poll EXCEPT ![t] = -1]
    /\ UNCHANGED <<now, list, jfs, th, llock, active, pc, call, due, bounds,
                   order, stopped, raced>>

-----------------------------------------------------------------------------
StartCont(t) ==
    ChooseLock(t) \/ Unlink(t) \/ EndCancel(t) \/ EndStart(t)

Poll(t) == PollBegin(t) \/ PollTake(t) \/ PollCall(t) \/ PollEnd(t)

Next ==
    \/ Tick
    \/ \E t \in Threads :
         \/ \E x \in Timers, d \in Delays, s \in BOOLEAN : tmr_start(t, x, d, s)
         \/ \E x \in Timers : tmr_cancel(t, x) \/ CancelInactive(t, x)
         \/ StartCont(t)
         \/ RereadLock(t)
         \/ Poll(t)

(* Time passes, a call of tmr_start() or tmr_cancel() runs to its end and  *)
(* every event loop polls its timers again and again.                      *)
Fairness ==
    /\ WF_vars(Tick)
    /\ \A t \in Threads : WF_vars(StartCont(t)) /\ WF_vars(Poll(t))

Spec == Init /\ [][Next]_vars

FairSpec == Spec /\ Fairness

-----------------------------------------------------------------------------
(* Properties *)

TypeOK ==
    /\ now \in Nat
    /\ list \in [Threads -> Seq(Timers)]
    /\ jfs \in [Timers -> Nat]
    /\ th \in [Timers -> BOOLEAN]
    /\ llock \in [Timers -> Threads \cup {NoThread}]
    /\ active \in [Timers -> BOOLEAN]
    /\ pc \in [Threads -> {"idle", "choose", "unlink", "insert"}]
    /\ call \in [Threads -> [tmr : Timers \cup {NoTimer}, start : BOOLEAN,
                             sync : BOOLEAN, delay : Delays \cup {0},
                             old : BOOLEAN, lock : Threads \cup {NoThread}]]
    /\ poll \in [Threads -> Nat \cup {-1}]
    /\ due \in [Threads -> Timers \cup {NoTimer}]
    /\ nstart \in 0..MaxStart
    /\ ncancel \in 0..MaxCancel
    /\ order \in [Timers -> Nat]
    /\ stopped \subseteq Threads \X Timers
    /\ raced \subseteq Timers

(* tmr_startcont_dbg() chooses the lock for list_unlink() before it holds  *)
(* any: when it does unlink the timer, the lock it chose is still the lock *)
(* of the list that the timer is on, whatever polls and cancels of other   *)
(* threads came in between.                                                *)
UnlinkLocked ==
    \A t \in Threads :
      LET x == call[t].tmr IN
      pc[t] = "unlink" /\ th[x] /\ ListOf(x) # NoThread =>
        call[t].lock = ListOf(x)

(* A timer is linked at most once, on one list; while it is linked it has  *)
(* a handler and tmr->llock is the lock of that list.  So a cancelled      *)
(* timer, and one whose handler was taken by tmr_poll(), is on no list.    *)
LinkedOnce ==
    /\ \A t, u \in Threads : \A i \in DOMAIN list[t], j \in DOMAIN list[u] :
         list[t][i] = list[u][j] => t = u /\ i = j
    /\ \A t \in Threads : \A x \in ToSet(list[t]) : th[x] /\ llock[x] = t

(* The two insertions, forward for delay 0 and backward otherwise, keep    *)
(* the list in the order of expiry, and in the order of the starts among   *)
(* timers with the same expiry.                                            *)
ExpiryOrder ==
    \A t \in Threads : \A i, j \in DOMAIN list[t] :
      LET x == list[t][i]
          y == list[t][j]
      IN  i < j => jfs[x] < jfs[y] \/ (jfs[x] = jfs[y] /\ order[x] < order[y])

(* tmr_poll() looks at the head of the list only, yet when it returns no   *)
(* timer is left that had expired when it was called.                      *)
NothingLeftBehind ==
    [][\A t \in Threads :
         poll[t] # -1 /\ poll'[t] = -1 =>
           \A x \in ToSet(list[t]) : jfs[x] > poll[t]]_vars

(* A handler, or any code of the thread that polls, that cancels a timer   *)
(* is sure that the handler of that timer is not called any more: not by   *)
(* the poll that is running and not by a later one, until it is started.   *)
(* So the test of tmr->active may return early only for a timer that is    *)
(* on no list.  Cancels of one timer by two threads must not overlap.      *)
CancelHolds ==
    \A t \in Threads :
      due[t] # NoTimer /\ due[t] \notin raced => <<t, due[t]>> \notin stopped

(* "Prevent multiple cancel race conditions": the same, also when cancels  *)
(* of one timer overlap.                                                   *)
CancelAlwaysHolds ==
    \A t \in Threads : due[t] # NoTimer => <<t, due[t]>> \notin stopped

(* A timer that was started leaves its list again: it expires, it is       *)
(* cancelled or it is started anew.                                        *)
EventuallyOff ==
    \A x \in Timers : ListOf(x) # NoThread ~> ListOf(x) = NoThread

=============================================================================
