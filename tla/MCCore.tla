------------------------------- MODULE MCCore -------------------------------
(***************************************************************************)
(* Safety of the work pool, the timers and the main loop.  In a behaviour  *)
(* one of them moves: the work pool with two workers and an item each      *)
(* ("async"), two event loops that share two timers ("timer"), or a loop   *)
(* whose handles are opened and closed by handlers and by another thread   *)
(* ("main").                                                               *)
(***************************************************************************)
EXTENDS Async, TLC

CONSTANTS t1, t2, main, app, w1, w2, x1, x2, none

VARIABLES part, now, list, jfs, th, llock, active, tpc, call, poll, due,
          nstart, tcancel, order, stopped, raced,
          mpc, re, fhs, events, inside, mhist

T == INSTANCE Timer WITH
       Threads <- {t1, t2}, Timers <- {x1, x2}, NoTimer <- none,
       Delays <- {0, 1}, MaxTime <- 1, MaxStart <- 2, MaxCancel <- 2,
       pc <- tpc, ncancel <- tcancel

tvars == <<now, list, jfs, th, llock, active, tpc, call, poll, due, nstart,
           tcancel, order, stopped, raced>>

L == INSTANCE MainLoop WITH
       Main <- main, Others <- {app}, NoOwner <- none,
       Methods <- {"epoll", "select"}, Fds <- {1, 2}, maxfds <- 2,
       MaxFhs <- 3, MaxRuns <- 1, pc <- mpc, hist <- mhist

lvars == <<mpc, re, fhs, events, inside, mhist>>

MCWorkers == {t1, t2}
MCCallers == {main, app}
MCWorks   == {w1, w2}

Symmetry ==
    Permutations(MCWorkers) \cup Permutations(MCWorks)
      \cup Permutations({x1, x2})

MCInit ==
    /\ Init /\ T!Init /\ L!Init
    /\ part \in {"async", "timer", "main"}
    /\ part # "main" => re.method = "epoll"

MCNext ==
    /\ UNCHANGED part
    /\ \/ part = "async" /\ Next /\ UNCHANGED <<tvars, lvars>>
       \/ part = "timer" /\ T!Next /\ UNCHANGED <<vars, lvars>>
       \/ part = "main" /\ L!Next /\ UNCHANGED <<vars, tvars>>

MCSpec == MCInit /\ [][MCNext]_<<part, vars, tvars, lvars>>

-----------------------------------------------------------------------------
(* The types of struct re_async, of the timers and their lists, and of the *)
(* loop and its mutex.                                                     *)
CoreTypeOK == TypeOK /\ T!TypeOK /\ L!TypeOK

(* The timer lists stay sound: the lock that tmr_startcont_dbg() chose     *)
(* without holding any is the lock of the list the timer is on when it is  *)
(* unlinked, a timer is linked at most once, a list is in the order of     *)
(* expiry, then of the starts, and tmr_poll() leaves no timer on it that   *)
(* had expired when it was called.                                         *)
TimerLists ==
    /\ [](T!UnlinkLocked /\ T!LinkedOnce /\ T!ExpiryOrder)
    /\ T!NothingLeftBehind

(* A cancel holds: re_thread_async_cancel() leaves no callback to be made  *)
(* for the work that it found, and the thread that polls never calls the   *)
(* handler of a timer that it has cancelled, unless another thread         *)
(* cancelled it at the same time.                                          *)
CancelKept == CancelSticks /\ []T!CancelHolds

(* "Prevent multiple cancel race conditions" (src/tmr/tmr.c): the same,    *)
(* also when two threads cancel the timer at the same time.                *)
CancelAlwaysHolds == T!CancelAlwaysHolds

(* No event is handled with a file handle that was freed, unless           *)
(* fd_listen() failed for an open handle; nfds counts the open handles and *)
(* the table of select() has them, but for fd_listen() calls that failed.  *)
(* A thread that has left, and the loop while it waits, do not own the     *)
(* mutex, as long as polling does not change between enter and leave.      *)
LoopSound == L!NoDanglingHandle /\ L!Counted /\ L!LeaveReleases

(* Bound: what happens after a failed change of a handle, or after polling *)
(* changed between enter and leave, is not explored.                       *)
MainBound == ~mhist.broken /\ ~mhist.switched

=============================================================================
