----------------------------- MODULE MCCoreLive -----------------------------
(***************************************************************************)
(* Liveness of the work pool and of the timers.  In a behaviour one of     *)
(* them moves: the work pool with a single worker, so that the second      *)
(* request has to allocate its item ("async"), or two event loops and one  *)
(* timer ("timer").                                                        *)
(***************************************************************************)
EXTENDS Async

CONSTANTS t1, t2, main, app, w1, w2, x1, none

VARIABLES part, now, list, jfs, th, llock, active, tpc, call, poll, due,
          nstart, tcancel, order, stopped, raced

T == INSTANCE Timer WITH
       Threads <- {t1, t2}, Timers <- {x1}, NoTimer <- none,
       Delays <- {0, 1}, MaxTime <- 1, MaxStart <- 2, MaxCancel <- 2,
       pc <- tpc, ncancel <- tcancel

tvars == <<now, list, jfs, th, llock, active, tpc, call, poll, due, nstart,
           tcancel, order, stopped, raced>>

MCWorkers == {t1}
MCCallers == {main, app}
MCWorks   == {w1, w2}

MCInit == Init /\ T!Init /\ part \in {"async", "timer"}

MCNext ==
    /\ UNCHANGED part
    /\ \/ part = "async" /\ Next /\ UNCHANGED tvars
       \/ part = "timer" /\ T!Next /\ UNCHANGED vars

(* Each part is fair where it moves. *)
MCSpec ==
    /\ MCInit /\ [][MCNext]_<<part, vars, tvars>>
    /\ part = "async" => Fairness
    /\ part = "timer" => T!Fairness

(* Every timer that was started expires, is cancelled or is started anew:  *)
(* tmr_poll() never stops short of an expired timer for good.              *)
EventuallyOff == T!EventuallyOff

=============================================================================
