------------------------------ MODULE MainLoop ------------------------------
(***************************************************************************)
(* The main loop, src/main/main.c: re_main() and fd_poll(), file handles   *)
(* (struct re_fhs) that are opened and closed by handlers and by other     *)
(* threads, and re_thread_enter()/re_thread_leave().                       *)
(*                                                                         *)
(* The loop holds the mutex except while it waits, so everything between   *)
(* two lock operations is one step.  A handle is freed by fhsld_flush() at *)
(* the end of fd_poll() only; what the wait has returned are pointers to   *)
(* handles (epoll) or file descriptors (select).  Handles are numbered in  *)
(* the order of their allocation and not reused, file descriptors are.     *)
(***************************************************************************)
EXTENDS Integers, FiniteSets, FiniteSetsExt

CONSTANTS
    Main,       \* the thread of the loop
    Others,     \* other threads
    NoOwner,
    Methods,    \* the polling methods, a subset of {"epoll", "select"}
    Fds,        \* file descriptors
    maxfds,
    MaxFhs,     \* bound: handles that are allocated
    MaxRuns     \* bound: calls of re_main()

VARIABLES
    pc,         \* where the thread of the loop is
    re,         \* struct re
    fhs,        \* struct re_fhs, for each handle that was allocated
    events,     \* what the wait returned and is not handled yet
    inside,     \* for each thread, re_thread_enter() or re_thread_leave()
    hist        \* what happened, not in the code

vars == <<pc, re, fhs, events, inside, hist>>

Threads == Others \cup {Main}

(* fhsl is the table of select(), 0 for NULL; watch are the file           *)
(* descriptors that were given to select().                                *)
Init ==
    /\ pc = "idle"
    /\ re \in [method : Methods, polling : {FALSE}, thread_enter : {FALSE},
               nfds : {0}, owner : {NoOwner}, depth : {0},
               fhsl : {[i \in 1..maxfds |-> 0]}, watch : {{}}]
    /\ fhs = [h \in 1..MaxFhs |-> [st |-> "none", fd |-> 0]]
    /\ events = {}
    /\ inside = [t \in Threads |-> "out"]
    /\ hist = [runs |-> 0, freed |-> FALSE, broken |-> FALSE,
               failed |-> FALSE, switched |-> FALSE]

Open == {h \in 1..MaxFhs : fhs[h].st = "open"}

-----------------------------------------------------------------------------
(* The mutex is recursive. *)

CanLock(t) == re.owner \in {NoOwner, t}

Locked(r, t) == [r EXCEPT !.owner = t, !.depth = @ + 1]

Unlocked(r) ==
    [r EXCEPT !.owner = IF r.depth = 1 THEN NoOwner ELSE @, !.depth = @ - 1]

-----------------------------------------------------------------------------
(* What a thread does that may use the loop: a handler or a timer, the     *)
(* main thread outside of re_main(), or a thread that has entered          *)

InHandler == pc \in {"handler", "timers", "signal"}

MayUse(t) ==
    \/ t = Main /\ (pc = "idle" \/ InHandler)
    \/ inside[t] = "locked"

Slot(h) == {i \in 1..maxfds : re.fhsl[i] = h}

(* set_select_fds() takes the first slot that is free. *)
SetSelect(h) == [re.fhsl EXCEPT ![Min(Slot(0))] = h]

MutTooMany == re.nfds > maxfds

(* if (++re->nfds > re->maxfds) *)
TooMany == re.nfds + 1 > maxfds

(* fd_listen() for a new handle.  EPOLL_CTL_ADD may fail.                  *)
fd_listen(t, h, fd) ==
    /\ MayUse(t)
    /\ fhs[h].st = "none" /\ (h > 1 => fhs[h - 1].st # "none")
    /\ fd \notin {fhs[k].fd : k \in Open}
    /\ \/ /\ TooMany
          /\ fhs' = [fhs EXCEPT ![h].st = "freed"]
          /\ UNCHANGED <<re, hist>>
       \/ /\ ~TooMany
          /\ re' = [re EXCEPT !.nfds = @ + 1,
                              !.fhsl = IF re.method = "select"
                                       THEN SetSelect(h) ELSE @]
          /\ fhs' = [fhs EXCEPT ![h] = [st |-> "open", fd |-> fd]]
          /\ UNCHANGED hist
       \/ /\ ~TooMany /\ re.method = "epoll"
          /\ re' = [re EXCEPT !.nfds = @ + 1]
          /\ fhs' = [fhs EXCEPT ![h].st = "freed"]
          /\ hist' = [hist EXCEPT !.failed = TRUE]
    /\ UNCHANGED <<pc, events, inside>>

(* fd_listen() with other flags for an open handle: when EPOLL_CTL_MOD     *)
(* fails, the handle is freed although epoll and the caller have it.       *)
fd_listen_again(t, h) ==
    /\ MayUse(t)
    /\ h \in Open /\ re.method = "epoll"
    /\ fhs' = [fhs EXCEPT ![h].st = "freed"]
    /\ hist' = [hist EXCEPT !.broken = TRUE]
    /\ UNCHANGED <<pc, re, events, inside>>

Mutfd_close(t, h) ==
    /\ MayUse(t)
    /\ h \in Open
    /\ fhs' = [fhs EXCEPT ![h].st = "freed"]
    /\ re' = [re EXCEPT !.nfds = @ - 1,
                        !.fhsl = [i \in 1..maxfds |-> IF @[i] = h THEN 0
                                                      ELSE @[i]]]
    /\ UNCHANGED <<pc, events, inside, hist>>

(* fd_close() *)
fd_close(t, h) ==
    /\ MayUse(t)
    /\ h \in Open
    /\ fhs' = [fhs EXCEPT ![h].st = "closed"]
    /\ re' = [re EXCEPT !.nfds = @ - 1,
                        !.fhsl = [i \in 1..maxfds |-> IF @[i] = h THEN 0
                                                      ELSE @[i]]]
    /\ UNCHANGED <<pc, events, inside, hist>>

(* re_cancel(), from any thread *)
re_cancel(t) ==
    /\ re.polling /\ (t = Main => InHandler)
    /\ re' = [re EXCEPT !.polling = FALSE]
    /\ hist' = [hist EXCEPT !.switched = @ \/ \E u \in Threads :
                                                inside[u] # "out"]
    /\ UNCHANGED <<pc, fhs, events, inside>>

-----------------------------------------------------------------------------
(* re_thread_enter(), up to the lock; t is not inside already *)
re_thread_enter(t) ==
    /\ inside[t] = "out" /\ (t = Main => InHandler)
    /\ inside' = [inside EXCEPT ![t] = IF re.polling THEN "wants"
                                       ELSE "unlocked"]
    /\ UNCHANGED <<pc, re, fhs, events, hist>>

Enter(t) ==
    /\ inside[t] = "wants" /\ CanLock(t)
    /\ inside' = [inside EXCEPT ![t] = "locked"]
    /\ re' = [Locked(re, t) EXCEPT !.thread_enter = @ \/ t # Main]
    /\ UNCHANGED <<pc, fhs, events, hist>>

(* Of a mutex that the thread does not own nothing is unlocked. *)
Left(t) ==
    LET r == [re EXCEPT !.thread_enter = FALSE] IN
    IF re.owner = t THEN Unlocked(r) ELSE r

Leave(t) == IF re.polling THEN Left(t) ELSE re

(* re_thread_leave() *)
re_thread_leave(t) ==
    /\ inside[t] \in {"locked", "unlocked"}
    /\ t = Main => InHandler
    /\ re' = Leave(t)
    /\ inside' = [inside EXCEPT ![t] = "out"]
    /\ UNCHANGED <<pc, fhs, events, hist>>

-----------------------------------------------------------------------------
(* re_main() *)

re_main ==
    /\ pc = "idle" /\ hist.runs < MaxRuns
    /\ pc' = "lock"
    /\ re' = [re EXCEPT !.polling = TRUE]
    /\ hist' = [hist EXCEPT !.runs = @ + 1,
                            !.switched = @ \/ \E u \in Threads :
                                                inside[u] # "out"]
    /\ UNCHANGED <<fhs, events, inside>>

Lock ==
    /\ pc = "lock" /\ CanLock(Main)
    /\ pc' = "top"
    /\ re' = Locked(re, Main)
    /\ UNCHANGED <<fhs, events, inside, hist>>

(* The loop is left when it was cancelled. *)
Exit ==
    /\ pc = "top" /\ ~re.polling
    /\ pc' = "idle"
    /\ re' = Unlocked(re)
    /\ UNCHANGED <<fhs, events, inside, hist>>

(* fd_poll() up to the wait *)
Wait ==
    /\ pc = "top" /\ re.polling
    /\ pc' = "wait"
    /\ re' = Unlocked([re EXCEPT !.watch = {fhs[h].fd : h \in Open}])
    /\ UNCHANGED <<fhs, events, inside, hist>>

(* The wait ends, by events or by the timeout. *)
Wake ==
    /\ pc = "wait"
    /\ pc' = "relock"
    /\ events' \in SUBSET IF re.method = "select" THEN re.watch ELSE Open
    /\ UNCHANGED <<re, fhs, inside, hist>>

(* ... or by a signal or an error; a signal that comes at another time is  *)
(* seen later.                                                             *)
Interrupt ==
    /\ pc = "wait"
    /\ pc' = "intr"
    /\ UNCHANGED <<re, fhs, events, inside, hist>>

Relock ==
    /\ pc = "relock" /\ CanLock(Main)
    /\ pc' = "events"
    /\ re' = Locked(re, Main)
    /\ UNCHANGED <<fhs, events, inside, hist>>

(* The handle that an event is for: the pointer, or what the table has for *)
(* the file descriptor when its turn comes                                 *)
Target(e) ==
    IF re.method = "epoll" THEN {e}
    ELSE {h \in 1..MaxFhs : Slot(h) # {} /\ fhs[h].fd = e}

(* if (fhs && fhs->fh) *)
Callable(h) == fhs[h].st = "open"

(* A handler is called for the next event. *)
Dispatch ==
    /\ pc = "events"
    /\ \E e \in events :
         LET called == {h \in Target(e) : Callable(h)} IN
         /\ events' = events \ {e}
         /\ pc' = IF called = {} THEN "events" ELSE "handler"
         /\ hist' = [hist EXCEPT !.freed = @ \/ \E h \in Target(e) :
                                                  fhs[h].st = "freed"]
    /\ UNCHANGED <<re, fhs, inside>>

HandlerEnd ==
    /\ InHandler
    /\ inside[Main] = "out"
    /\ pc' = IF pc = "handler" THEN "events" ELSE "top"
    /\ UNCHANGED <<re, fhs, events, inside, hist>>

(* fhsld_flush() *)
Flushed ==
    [h \in 1..MaxFhs |->
       IF fhs[h].st = "closed" THEN [fhs[h] EXCEPT !.st = "freed"]
       ELSE fhs[h]]

(* ... and then tmr_poll() whose handlers may use the loop *)
Flush ==
    /\ pc = "events" /\ events = {}
    /\ fhs' = Flushed
    /\ pc' = "timers"
    /\ UNCHANGED <<re, events, inside, hist>>

(* EINTR: no events are handled and no timers are polled; signalh() runs. *)
RelockIntr ==
    /\ pc = "intr" /\ CanLock(Main)
    /\ pc' = "signal"
    /\ re' = Locked(re, Main)
    /\ fhs' = Flushed
    /\ UNCHANGED <<events, inside, hist>>

(* Any other error of the wait: the loop is left while polling is TRUE.    *)
Fail ==
    /\ pc = "intr" /\ CanLock(Main)
    /\ pc' = "out"
    /\ fhs' = Flushed
    /\ UNCHANGED <<re, events, inside, hist>>

(* polling is cleared without the mutex. *)
Out ==
    /\ pc = "out"
    /\ pc' = "idle"
    /\ re' = [re EXCEPT !.polling = FALSE]
    /\ hist' = [hist EXCEPT !.switched = @ \/ \E u \in Threads :
                                                inside[u] # "out"]
    /\ UNCHANGED <<fhs, events, inside>>

-----------------------------------------------------------------------------
Loop ==
    \/ re_main \/ Lock \/ Exit \/ Wait \/ Wake \/ Interrupt \/ Relock
    \/ RelockIntr \/ Fail \/ Out \/ Dispatch \/ HandlerEnd \/ Flush

Use(t) ==
    \/ \E h \in 1..MaxFhs, fd \in Fds : fd_listen(t, h, fd)
    \/ \E h \in 1..MaxFhs : fd_listen_again(t, h) \/ fd_close(t, h)
    \/ re_cancel(t)
    \/ re_thread_enter(t) \/ Enter(t) \/ re_thread_leave(t)

Next == Loop \/ \E t \in Threads : Use(t)

Spec == Init /\ [][Next]_vars

-----------------------------------------------------------------------------
(* Properties *)

TypeOK ==
    /\ pc \in {"idle", "lock", "top", "wait", "relock", "intr", "events",
               "handler", "timers", "signal", "out"}
    /\ re.nfds \in 0..maxfds /\ re.depth \in 0..3
    /\ re.owner \in Threads \cup {NoOwner}
    /\ (re.owner = NoOwner) = (re.depth = 0)
    /\ inside \in [Threads -> {"out", "wants", "locked", "unlocked"}]

(* "Delayed fhs deref to avoid dangling fhs pointers": no event is handled *)
(* with a handle that was freed, whoever closed it while the loop waited   *)
(* or was handling other events; unless fd_listen() failed for an open     *)
(* handle.                                                                 *)
NoDanglingHandle == hist.freed => hist.broken

(* nfds is the number of open handles, on which fd_poll() relies when it   *)
(* walks the table of select(); but for fd_listen() calls that failed.     *)
Counted ==
    ~hist.failed /\ ~hist.broken =>
      /\ re.nfds = Cardinality(Open)
      /\ re.method = "select" => Open \cup {0} = {re.fhsl[i] : i \in 1..maxfds}
                                                \cup {0}

(* A thread that has left, and the loop while it waits, do not own the     *)
(* mutex, and thread_enter says whether another thread is inside; as long  *)
(* as the loop is neither started nor cancelled between the two calls,     *)
(* which look at polling each.                                             *)
LeaveReleases ==
    ~hist.switched =>
      /\ \A t \in Others : inside[t] = "out" => re.owner # t
      /\ pc = "wait" => re.owner # Main
      /\ re.thread_enter <=> \E t \in Others : inside[t] = "locked"

=============================================================================
