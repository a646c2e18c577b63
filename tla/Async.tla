-------------------------------- MODULE Async --------------------------------
(***************************************************************************)
(* The asynchronous work object of src/async/async.c together with the     *)
(* message queue of src/mqueue/mqueue.c that carries finished work back to *)
(* the thread that runs the main loop.                                     *)
(*                                                                         *)
(* One step is one critical section of async->mtx or of a work item's own  *)
(* mutex.  The two places where a thread keeps a mutex over several steps  *)
(* are modelled by the owner variables: wlock (a work handler or a         *)
(* callback runs with work->mtx held) and lock (re_async_cancel() holds    *)
(* async->mtx while it waits for the mutex of an item).                    *)
(*                                                                         *)
(* Work handlers and callbacks do not call back into the async object.     *)
(***************************************************************************)
EXTENDS Integers, Sequences, FiniteSets

CONSTANTS
    Workers,    \* worker threads
    Callers,    \* threads that call re_async() and re_async_cancel()
    Main,       \* the caller that runs the main loop
    Works,      \* struct async_work objects
    Ids,        \* work identifiers
    NoThread,   \* a mutex that is not held
    NoWork,     \* no work item in hand
    MaxReq,     \* bound: calls of re_async()
    MaxCancel,  \* bound: calls of re_async_cancel()
    PipeCap     \* messages that fit into the pipe of the mqueue

ASSUME AsyncAssumption ==
    /\ Main \in Callers
    /\ Workers \cap Callers = {}
    /\ NoThread \notin Workers \cup Callers
    /\ NoWork \notin Works
    /\ IsFiniteSet(Works)
    /\ MaxReq \in Nat
    /\ MaxCancel \in Nat
    /\ PipeCap \in Nat \ {0}

VARIABLES
    run,        \* async->run
    where,      \* the list a work item is on (work->le.list)
    workh,      \* work->workh is set
    cb,         \* work->cb is set
    arg,        \* work->arg: the request the fields were set for, 0 is NULL
    id,         \* work->id
    err,        \* work->err: the request whose handler returned it
    wlock,      \* owner of work->mtx
    lock,       \* owner of async->mtx between two steps
    mq,         \* messages in the pipe
    pc,         \* program counters
    hold,       \* the work item a thread has in hand
    todo,       \* what a running re_async_cancel() still has to visit
    nreq,       \* number of re_async() calls
    ncancel,    \* number of re_async_cancel() calls
    withWorkh,  \* history: requests submitted with a work handler
    withCb,     \* history: requests submitted with a callback
    called,     \* history: number of callbacks made for a request
    released    \* history: requests whose arg a cancel has dereferenced

vars == <<run, where, workh, cb, arg, id, err, wlock, lock, mq, pc, hold,
          todo, nreq, ncancel, withWorkh, withCb, called, released>>

hist  == <<withWorkh, withCb, called, released>>
items == <<where, workh, cb, arg, id, err>>

Threads  == Workers \cup Callers
Requests == 1..MaxReq

(* The list position of a request is its number: re_async() appends to     *)
(* workl under async->mtx.                                                 *)
IsHead(w) ==
    /\ where[w] = "work"
    /\ \A v \in Works : where[v] = "work" => arg[w] <= arg[v]

Waiting == {t \in Workers : pc[t] = "wait"}

Wake(S) == [t \in Threads |-> IF t \in S THEN "woken" ELSE pc[t]]

-----------------------------------------------------------------------------
(* re_async_alloc(): the workers are started and one free item per worker  *)
(* is allocated.                                                           *)
Init ==
    /\ run = TRUE
    /\ \E F \in SUBSET Works :
         /\ Cardinality(F) = Cardinality(Workers)
         /\ where = [w \in Works |-> IF w \in F THEN "free" ELSE "none"]
    /\ workh = [w \in Works |-> FALSE]
    /\ cb = [w \in Works |-> FALSE]
    /\ arg = [w \in Works |-> 0]
    /\ id = [w \in Works |-> 0]
    /\ err = [w \in Works |-> 0]
    /\ wlock = [w \in Works |-> NoThread]
    /\ lock = NoThread
    /\ mq = <<>>
    /\ pc = [t \in Threads |-> IF t \in Workers THEN "loop" ELSE "idle"]
    /\ hold = [t \in Threads |-> NoWork]
    /\ todo = [c \in Callers |-> {}]
    /\ nreq = 0
    /\ ncancel = 0
    /\ withWorkh = {}
    /\ withCb = {}
    /\ called = [r \in Requests |-> 0]
    /\ released = {}

-----------------------------------------------------------------------------
(* worker_thread() *)

(* list_move(le, &a->curl) *)
TakeWork(t) ==
    \E w \in Works :
      /\ IsHead(w)
      /\ where' = [where EXCEPT ![w] = "cur"]
      /\ hold' = [hold EXCEPT ![t] = w]
      /\ pc' = [pc EXCEPT ![t] = "have"]

(* The head of the loop: leave, wait on the condition variable or take the *)
(* head of workl.                                                          *)
WorkerLoop(t) ==
    /\ pc[t] = "loop"
    /\ lock = NoThread
    /\ \/ /\ ~run
          /\ pc' = [pc EXCEPT ![t] = "exit"]
          /\ UNCHANGED <<where, hold>>
       \/ /\ run
          /\ \A w \in Works : where[w] # "work"
          /\ pc' = [pc EXCEPT ![t] = "wait"]
          /\ UNCHANGED <<where, hold>>
       \/ /\ run
          /\ TakeWork(t)
    /\ UNCHANGED <<run, workh, cb, arg, id, err, wlock, lock, mq, todo, nreq,
                   ncancel, hist>>

(* cnd_wait() returns with the mutex held again. *)
WorkerWoken(t) ==
    /\ pc[t] = "woken"
    /\ lock = NoThread
    /\ \/ /\ ~run \/ \A w \in Works : where[w] # "work"
          /\ pc' = [pc EXCEPT ![t] = "loop"]
          /\ UNCHANGED <<where, hold>>
       \/ /\ run
          /\ TakeWork(t)
    /\ UNCHANGED <<run, workh, cb, arg, id, err, wlock, lock, mq, todo, nreq,
                   ncancel, hist>>

(* pthread_cond_wait() may return without a signal. *)
SpuriousWakeup(t) ==
    /\ t \in Waiting
    /\ pc' = Wake({t})
    /\ UNCHANGED <<run, items, wlock, lock, mq, hold, todo, nreq, ncancel,
                   hist>>

(* mtx_lock(work->mtx); the handler starts, unless it was cancelled. *)
HandlerStart(t) ==
    /\ pc[t] = "have"
    /\ wlock[hold[t]] = NoThread
    /\ IF workh[hold[t]]
       THEN /\ pc' = [pc EXCEPT ![t] = "running"]
            /\ wlock' = [wlock EXCEPT ![hold[t]] = t]
       ELSE /\ pc' = [pc EXCEPT ![t] = "push"]
            /\ UNCHANGED wlock
    /\ UNCHANGED <<run, items, lock, mq, hold, todo, nreq, ncancel, hist>>

(* The handler returns; mtx_unlock(work->mtx). *)
HandlerEnd(t) ==
    /\ pc[t] = "running"
    /\ err' = [err EXCEPT ![hold[t]] = arg[hold[t]]]
    /\ workh' = [workh EXCEPT ![hold[t]] = FALSE]
    /\ wlock' = [wlock EXCEPT ![hold[t]] = NoThread]
    /\ pc' = [pc EXCEPT ![t] = "push"]
    /\ UNCHANGED <<run, where, cb, arg, id, lock, mq, hold, todo, nreq,
                   ncancel, hist>>

(* mqueue_push(): a non-blocking write to the pipe. *)
mqueue_push(w) ==
    IF Len(mq) < PipeCap THEN mq' = Append(mq, w) ELSE UNCHANGED mq

(* The result of mqueue_push() is not looked at. *)
PushResult(t) ==
    /\ pc[t] = "push"
    /\ lock = NoThread
    /\ mqueue_push(hold[t])
    /\ pc' = [pc EXCEPT ![t] = "loop"]
    /\ hold' = [hold EXCEPT ![t] = NoWork]
    /\ UNCHANGED <<run, items, wlock, lock, todo, nreq, ncancel, hist>>

-----------------------------------------------------------------------------
MutSignal == UNCHANGED pc

(* cnd_signal(&async->wait) *)
Signal ==
    IF Waiting = {}
    THEN UNCHANGED pc
    ELSE \E t \in Waiting : pc' = Wake({t})

(* re_async(): a free item, or a new one when there is none, is filled and *)
(* appended to workl; one waiting worker is signalled.                     *)
re_async(c, i, hasWorkh, hasCb) ==
    /\ pc[c] = "idle"
    /\ lock = NoThread
    /\ run
    /\ nreq < MaxReq
    /\ \E w \in Works :
         /\ \/ where[w] = "free"
            \/ where[w] = "none" /\ \A v \in Works : where[v] # "free"
         /\ where' = [where EXCEPT ![w] = "work"]
         /\ workh' = [workh EXCEPT ![w] = hasWorkh]
         /\ cb' = [cb EXCEPT ![w] = hasCb]
         /\ arg' = [arg EXCEPT ![w] = nreq + 1]
         /\ id' = [id EXCEPT ![w] = i]
    /\ nreq' = nreq + 1
    /\ withWorkh' = IF hasWorkh THEN withWorkh \cup {nreq + 1} ELSE withWorkh
    /\ withCb' = IF hasCb THEN withCb \cup {nreq + 1} ELSE withCb
    /\ Signal
    /\ UNCHANGED <<run, err, wlock, lock, mq, hold, todo, ncancel, called,
                   released>>

(* re_async_cancel(): async->mtx is taken and held over the visits. *)
CancelBegin(c, i) ==
    /\ pc[c] = "idle"
    /\ lock = NoThread
    /\ run
    /\ ncancel < MaxCancel
    /\ ncancel' = ncancel + 1
    /\ lock' = c
    /\ todo' = [todo EXCEPT ![c] =
                  {w \in Works : where[w] \in {"work", "cur"} /\ id[w] = i}]
    /\ pc' = [pc EXCEPT ![c] = "cancel"]
    /\ UNCHANGED <<run, items, wlock, mq, hold, nreq, hist>>

MutWorkFree(w) == TRUE

(* mtx_lock(w->mtx) does not block. *)
WorkFree(w) == wlock[w] = NoThread

MutAfterCancel(w) == "free"

(* An item on workl becomes free; one on curl stays there for queueh().    *)
AfterCancel(w) == IF where[w] = "work" THEN "free" ELSE where[w]

MutCancelItem(c, w) ==
    /\ pc[c] = "cancel"
    /\ w \in todo[c]
    /\ where[w] = "cur" => \A v \in todo[c] : where[v] # "work"
    /\ WorkFree(w)
    /\ id' = [id EXCEPT ![w] = 0]
    /\ workh' = [workh EXCEPT ![w] = FALSE]
    /\ released' = released \cup ({arg[w]} \ {0})
    /\ where' = [where EXCEPT ![w] = AfterCancel(w)]
    /\ todo' = [todo EXCEPT ![c] = @ \ {w}]
    /\ UNCHANGED <<run, cb, arg, err, wlock, lock, mq, pc, hold, nreq, ncancel,
                   withWorkh, withCb, called>>

(* One item with that id, workl before curl: its mutex is taken, the       *)
(* fields are cleared, the argument is dereferenced.                       *)
CancelItem(c, w) ==
    /\ pc[c] = "cancel"
    /\ w \in todo[c]
    /\ where[w] = "cur" => \A v \in todo[c] : where[v] # "work"
    /\ WorkFree(w)
    /\ id' = [id EXCEPT ![w] = 0]
    /\ workh' = [workh EXCEPT ![w] = FALSE]
    /\ cb' = [cb EXCEPT ![w] = FALSE]
    /\ arg' = [arg EXCEPT ![w] = 0]
    /\ released' = released \cup ({arg[w]} \ {0})
    /\ where' = [where EXCEPT ![w] = AfterCancel(w)]
    /\ todo' = [todo EXCEPT ![c] = @ \ {w}]
    /\ UNCHANGED <<run, err, wlock, lock, mq, pc, hold, nreq, ncancel,
                   withWorkh, withCb, called>>

CancelEnd(c) ==
    /\ pc[c] = "cancel"
    /\ todo[c] = {}
    /\ lock' = NoThread
    /\ pc' = [pc EXCEPT ![c] = "idle"]
    /\ UNCHANGED <<run, items, wlock, mq, hold, todo, nreq, ncancel, hist>>

-----------------------------------------------------------------------------
(* The main loop thread *)

(* event_handler(): one message is read from the pipe. *)
event_handler ==
    /\ pc[Main] = "idle"
    /\ mq # <<>>
    /\ hold' = [hold EXCEPT ![Main] = Head(mq)]
    /\ mq' = Tail(mq)
    /\ pc' = [pc EXCEPT ![Main] = "queueh"]
    /\ UNCHANGED <<run, items, wlock, lock, todo, nreq, ncancel, hist>>

(* queueh(): the callback is called with work->mtx held. *)
CallbackStart ==
    LET w == hold[Main] IN
    /\ pc[Main] = "queueh"
    /\ wlock[w] = NoThread
    /\ IF cb[w]
       THEN /\ wlock' = [wlock EXCEPT ![w] = Main]
            /\ pc' = [pc EXCEPT ![Main] = "callback"]
            /\ called' = [called EXCEPT ![arg[w]] = @ + 1]
       ELSE /\ pc' = [pc EXCEPT ![Main] = "free"]
            /\ UNCHANGED <<wlock, called>>
    /\ UNCHANGED <<run, items, lock, mq, hold, todo, nreq, ncancel, withWorkh,
                   withCb, released>>

MutCallbackEnd ==
    /\ pc[Main] = "callback"
    /\ wlock' = [wlock EXCEPT ![hold[Main]] = NoThread]
    /\ pc' = [pc EXCEPT ![Main] = "idle"]
    /\ hold' = [hold EXCEPT ![Main] = NoWork]
    /\ UNCHANGED <<run, items, lock, mq, todo, nreq, ncancel, hist>>

(* The callback returns and is cleared. *)
CallbackEnd ==
    /\ pc[Main] = "callback"
    /\ cb' = [cb EXCEPT ![hold[Main]] = FALSE]
    /\ wlock' = [wlock EXCEPT ![hold[Main]] = NoThread]
    /\ pc' = [pc EXCEPT ![Main] = "free"]
    /\ UNCHANGED <<run, where, workh, arg, id, err, lock, mq, hold, todo,
                   nreq, ncancel, hist>>

(* queueh(), second critical section: list_move(&work->le, &async->freel) *)
FreeWork ==
    /\ pc[Main] = "free"
    /\ lock = NoThread
    /\ where' = [where EXCEPT ![hold[Main]] = "free"]
    /\ hold' = [hold EXCEPT ![Main] = NoWork]
    /\ pc' = [pc EXCEPT ![Main] = "idle"]
    /\ UNCHANGED <<run, workh, cb, arg, id, err, wlock, lock, mq, todo, nreq,
                   ncancel, hist>>

(* worker_check(), every 100 ms: work is queued and a worker may be idle. *)
worker_check ==
    /\ pc[Main] = "idle"
    /\ lock = NoThread
    /\ run
    /\ \E w \in Works : where[w] = "work"
    /\ Cardinality({w \in Works : where[w] = "cur"}) # Cardinality(Workers)
    /\ pc' = Wake(Waiting)
    /\ UNCHANGED <<run, items, wlock, lock, mq, hold, todo, nreq, ncancel,
                   hist>>

(* async_destructor(): nobody uses the object any more; the workers are    *)
(* told to leave and are joined.                                           *)
CloseBegin ==
    /\ \A c \in Callers : pc[c] = "idle"
    /\ lock = NoThread
    /\ run
    /\ run' = FALSE
    /\ pc' = [Wake(Waiting) EXCEPT ![Main] = "join"]
    /\ UNCHANGED <<items, wlock, lock, mq, hold, todo, nreq, ncancel, hist>>

(* The callbacks that are still owed are made with ECANCELED; the items    *)
(* and the queue are freed.                                                *)
CloseEnd ==
    LET owed == {w \in Works : where[w] \in {"work", "cur"} /\ cb[w]} IN
    /\ pc[Main] = "join"
    /\ \A t \in Workers : pc[t] = "exit"
    /\ called' = [r \in Requests |->
                    called[r] + Cardinality({w \in owed : arg[w] = r})]
    /\ cb' = [w \in Works |-> FALSE]
    /\ where' = [w \in Works |-> "none"]
    /\ mq' = <<>>
    /\ pc' = [pc EXCEPT ![Main] = "closed"]
    /\ UNCHANGED <<run, workh, arg, id, err, wlock, lock, hold, todo, nreq,
                   ncancel, withWorkh, withCb, released>>

-----------------------------------------------------------------------------
Worker(t) ==
    \/ WorkerLoop(t)
    \/ WorkerWoken(t)
    \/ HandlerStart(t)
    \/ HandlerEnd(t)
    \/ PushResult(t)

Caller(c) ==
    \/ \E i \in Ids, h, b \in BOOLEAN : re_async(c, i, h, b)
    \/ \E i \in Ids : CancelBegin(c, i)
    \/ \E w \in Works : CancelItem(c, w)
    \/ CancelEnd(c)

MainLoop ==
    \/ event_handler
    \/ CallbackStart
    \/ CallbackEnd
    \/ FreeWork
    \/ worker_check
    \/ CloseBegin
    \/ CloseEnd

Next ==
    \/ \E t \in Workers : Worker(t) \/ SpuriousWakeup(t)
    \/ \E c \in Callers : Caller(c)
    \/ MainLoop

(* Threads are scheduled and handlers, callbacks and cancel calls return;  *)
(* nobody is obliged to submit work, to cancel it or to close the object.  *)
Fairness ==
    /\ \A t \in Workers : WF_vars(Worker(t))
    /\ \A c \in Callers : WF_vars((\E w \in Works : CancelItem(c, w)) \/ CancelEnd(c))
    /\ WF_vars(event_handler \/ CallbackStart \/ CallbackEnd \/ FreeWork)
    /\ WF_vars(CloseEnd)

Spec == Init /\ [][Next]_vars

FairSpec == Spec /\ Fairness

-----------------------------------------------------------------------------
(* Properties *)

TypeOK ==
    /\ run \in BOOLEAN
    /\ where \in [Works -> {"none", "free", "work", "cur"}]
    /\ workh \in [Works -> BOOLEAN]
    /\ cb \in [Works -> BOOLEAN]
    /\ arg \in [Works -> 0..MaxReq]
    /\ id \in [Works -> Ids \cup {0}]
    /\ err \in [Works -> 0..MaxReq]
    /\ wlock \in [Works -> Threads \cup {NoThread}]
    /\ lock \in Callers \cup {NoThread}
    /\ mq \in Seq(Works)
    /\ pc \in [Threads -> {"loop", "wait", "woken", "have", "running", "push",
                           "exit", "idle", "cancel", "queueh", "callback",
                           "free", "join", "closed"}]
    /\ hold \in [Threads -> Works \cup {NoWork}]
    /\ todo \in [Callers -> SUBSET Works]
    /\ nreq \in 0..MaxReq
    /\ ncancel \in 0..MaxCancel
    /\ called \in [Requests -> Nat]
    /\ withWorkh \subseteq Requests
    /\ withCb \subseteq Requests
    /\ released \subseteq Requests

(* worker_thread() and queueh() work on an item without async->mtx because *)
(* it is theirs alone: an item is in the hands of one thread, or of one    *)
(* message in the pipe, or of nobody, and while it is it stays on curl, so *)
(* re_async() cannot give it to another request.                           *)
OneOwner ==
    /\ \A t, u \in Threads : hold[t] # NoWork /\ hold[t] = hold[u] => t = u
    /\ \A i, j \in 1..Len(mq) : mq[i] = mq[j] => i = j
    /\ \A t \in Threads, i \in 1..Len(mq) : hold[t] # mq[i]
    /\ pc[Main] # "closed" =>
         /\ \A t \in Threads : hold[t] # NoWork => where[hold[t]] = "cur"
         /\ \A i \in 1..Len(mq) : where[mq[i]] = "cur"

(* mem_deref(w->arg) in re_async_cancel(): the argument is never freed     *)
(* under a work handler or a callback that is running with it.             *)
NoUseAfterRelease ==
    \A t \in Threads :
      pc[t] \in {"running", "callback"} =>
        arg[hold[t]] # 0 /\ arg[hold[t]] \notin released

(* The callback of a request is called at most once, by queueh() or by the *)
(* destructor's ECANCELED loop, however the two and a cancel interleave;   *)
(* queueh() passes the value that the work handler of this request         *)
(* returned, not one that an earlier request left in the reused item.      *)
CallbackOnce ==
    /\ \A r \in Requests : called[r] <= 1
    /\ pc[Main] = "callback" /\ arg[hold[Main]] \in withWorkh =>
         /\ ~workh[hold[Main]]
         /\ err[hold[Main]] = arg[hold[Main]]

(* Once re_async_cancel() has visited a request, no callback of it is      *)
(* started any more, by queueh() or by the destructor.                     *)
CancelSticks ==
    [][\A r \in released : called'[r] = called[r]]_vars

(* Every request is settled: its item leaves workl and curl, and a         *)
(* callback it asked for is made unless a cancel took it back.             *)
Settled(r) ==
    /\ \A w \in Works : arg[w] = r => where[w] \in {"none", "free"}
    /\ r \in withCb => called[r] = 1 \/ r \in released
EveryRequestSettled == \A r \in Requests : (r <= nreq) ~> Settled(r)

=============================================================================
