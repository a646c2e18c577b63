# A TLA+ model of libre

libre ("re") is a C library for real-time communication: an event loop with
timers and a pool of worker threads, and on top of it SIP, SDP, RTP, ICE, STUN,
TURN, HTTP and other protocols.  This directory holds a specification of its
core in TLA+: modules translated from the C code under `src/`, configurations
that check them with TLC on small instances, and theorems that TLAPS proves for
all values of the constants.

    tlc -config MCCore.cfg MCCore        # a run, see "Runs"
    tlapm SipCtransProofs.tla            # the proofs

`PROJECT.json` lists the components, the runs, the lines each definition stands
for (`map`), the hazards the properties are aimed at, and the findings.

## Contents

 1. Inventory of the system
 2. Modules, their state and their actions
 3. Runs, properties and bounds
 4. Fairness
 5. Proofs
 6. Findings
 7. What is assumed and what is not modelled
 8. Plan

## 1. Inventory of the system

| Part | State | Operations | What is hard about it |
|---|---|---|---|
| `async`, `mqueue` | free, queued and current work items, their mutexes, the pipe | submit, cancel, close; worker threads; the callback in the main loop | a cancel from another thread at any moment; reuse of items; a full pipe; lost wakeups |
| `tmr` | a list of timers and its lock per event loop | start, continue, cancel, poll | timers moved between the lists of two threads; the lock is chosen without a lock; handlers that start and cancel timers |
| `main` | file handles, the polling method, the mutex, `polling` | listen, close, run, cancel, thread enter and leave | handles closed while their events are waiting; enter and leave around a cancelled loop |
| `sip/ctrans`, `sip/strans` | transaction states, two timers each | request, cancel, reply; messages, timeouts, transport errors | retransmissions, late copies, ACK and CANCEL in any order, objects that own themselves |
| `sip/request` | queries, records left, the open transaction | request, cancel, release; DNS answers, responses | the user drops the request in any state; retry at the next address; one of two queries cannot be started |
| `sipsess` | negotiation state, open replies and requests, references | connect, accept, progress, answer, modify, ack, reject, hang up; INVITE, ACK, PRACK, UPDATE, CANCEL, BYE | references that are taken in the destructor; both sides start at once; timeouts |
| `sipreg` | open REGISTER, refresh timer, fallback | register, send, unregister, release; responses, flow failures | a refresh that is forgotten; the un-REGISTER after the release; two REGISTERs at once |
| `sipevent` | subscription or notifier, references, last request | subscribe, notify, terminate; responses, NOTIFY, SUBSCRIBE, forks | one reference stands for several waits in turn; state that changes while a NOTIFY is open |
| `sip/transp`, `sip/keepalive`, `sip/dialog`, `sip/auth` | connections and their queues, keepalives, dialogs, realms | send, receive, connect, close | idle connections closed under a request that is queued |
| `dns` | open queries, the cache, TCP connections | query, cancel; answers, timeouts | UDP retry, TCP connections that queries share and lose together, answers out of the cache |
| `stun`, `turn` | client transactions, a keepalive; an allocation, permissions, channels | request, enable, add; responses, timeouts | a refresh that is forgotten; challenges without end; objects that go while a request is open |
| `ice`, `trice`, `pcp` | candidates, check lists, mappings | gather, check, nominate, refresh | role conflicts, nomination races |
| `tcp`, `udp`, `tls` | send queue, helpers, connection state | connect, send, close | partial writes; a handler that closes its own connection |
| `rtp`, `srtp` | sequence numbers, members, replay window | encode, decode, report | wrap-around of 16 and 32 bit counters |
| `rem` (aubuf, ajb, aumix, vidmix) | frames, thresholds, mixer threads | write, read, flush | producer and consumer threads |
| `http`, `websock`, `rtmp`, `bfcp` | connections, requests, streams | request, reply, close | reuse of a connection the peer is closing |
| `mem`, `list`, `hash`, `mbuf` | reference counts, links | ref, deref, append, unlink | destructors that take new references |
| `fmt`, `sdp`, `uri`, `json`, codecs, crypto wrappers | - | parse, print, convert | sequential conversions |

The parts meet in three places.  The event loop calls handlers with its mutex
held, so everything above it is a sequence of handler calls in an order that
the network, the timers and the application choose.  A SIP request uses a
client transaction for each address it tries; a session, a registration, a
subscription and a notifier use requests and server transactions and see of
them one final result per request.  Objects live as long as their reference
count says, and most of them outlive the application's reference until the
other side has answered.

## 2. Modules, their state and their actions

**Async** (`src/async/async.c`, `src/mqueue/mqueue.c`).  Variables are the
fields of a work item (`where` is the list it is on), the owners of the two
kinds of mutex, the pipe `mq` and a program counter per thread.  One step is one
critical section.  `re_async`, `re_async_cancel` (`CancelItem` per item, because
it waits for the mutex of each with the outer mutex held), the loop of
`worker_thread`, `event_handler`/`CallbackStart`/`CallbackEnd`/`FreeWork` for
`queueh()`, and the destructor.  History variables record which requests had a
handler or a callback, how often it was called and what a cancel released.

**Timer** (`src/tmr/tmr.c`).  A list and a lock per thread; `tmr_start`,
`tmr_cancel` are four steps (the test of `active`, the unlocked choice of the
lock, the critical section that unlinks, the one that inserts), `tmr_poll` is
`PollBegin`, then `PollTake` and `PollCall` for each expired timer, `PollEnd`.
What a handler does is what its thread does between two steps of the poll.

**MainLoop** (`src/main/main.c`).  `re` is `struct re`, `fhs` the file handles
with their life (`open`, `closed` but not flushed, `freed`).  The loop goes
through `Lock`, `Wait`, `Wake` or `Interrupt`, `Relock`, `Dispatch` for each
event, `HandlerEnd`, `Flush`, the timers, `Exit`; a wait that fails for another
reason than a signal ends it by `Fail` and `Out`.  `fd_listen`, `fd_close`,
`re_cancel`, `re_thread_enter`, `re_thread_leave` are called by handlers and by
other threads.  For epoll an event is the pointer to a handle, for select a
descriptor that is looked up when its turn comes.

**SipCtrans** (`src/sip/ctrans.c`).  The INVITE transaction and the CANCEL with
the same branch; two countdown timers each; `sip_ctrans_request`,
`sip_ctrans_cancel`, `retransmit_handler`, `tmr_handler`, `transport_handler`,
the response handler per class, and `Tick`, which does not pass over a timer
that is due.

**SipStrans** (`src/sip/strans.c` and what `sip_recv()` answers itself).  Three
possible transactions: an INVITE, the same INVITE by another way, another
request; requests, ACK and CANCEL arrive in any number and order, the user
replies provisionally or finally, sends fail.

**SipTransaction** composes the two over a network that loses, duplicates and
reorders messages, with one clock.

**SipRequest** (`src/sip/request.c`).  NAPTR, SRV, A and AAAA queries (records
are counted), a client transaction per address, `sip_request_cancel`, the
release by the user, `sip_close`.  The transaction it uses is that of SipCtrans,
reduced to what is proved of it: provisional responses, then one final result.

**SipSess** (`src/sipsess`).  The session is one record: the negotiation state,
open replies, open in-dialog requests, the pending INVITE, re-INVITE or BYE, the
reference count.  C functions that may fail or call the application are operators
that return the set of sessions they may leave, so an action reads like the
function it models.

**SipReg**, **SipSub**, **SipNot** (`src/sipreg/reg.c`,
`src/sipevent/subscribe.c`, `src/sipevent/notify.c`, `src/sipevent/listen.c`) are
built in the same way: one record per object, actions for the application's
calls, the responses and the peer's requests.

**DnsClient** (`src/dns/client.c`).  One record for the client: its queries with the
list they are on (`ht_query`, `hdl_cache`, `ht_query_cache`), a connection per server,
the queries the work pool has.  `query`, the release, cache and server settings, the
end of the client; answers over UDP and TCP, timeouts, `getaddrinfo_h`.  `send_tcp` is
recursive as in the code: a send that fails closes the connection, and its queries are
sent to their next servers before the loop goes on.

**StunClient** (`src/stun/ctrans.c`, `keepalive.c`).  Transactions with their counter and
interval, in units of the retransmission timeout; the keepalive with its timer, its one
transaction, the mapped address and what the application was told of it.

**TurnClient** (`src/turn`).  The allocation, permissions and channels are "owners" of a
request, a refresh timer and a loop state; the four response handlers share `Response`
and differ where the code does.  A transaction is what `Ends` and `PointerValid` of
StunClient say: it ends once.

**TcpConn** (`src/tcp`).  A connection, a listening socket and a duplicate of it.
Descriptors are numbers with an owner, so that one which is closed twice shows; the send
queue holds the parts of messages that the kernel has not taken, `polled` what the event
loop watches.  `tcp_recv_handler()` is one action per outcome of its write and its read.

**SipTransp** (`src/sip/transp.c`, `keepalive.c`).  The connections to one peer, over TCP
and over WebSockets, with their queues, two timers, keepalives and references: of the
table, of the messages that were received on them and are held.  `conn_send`, the
established, receive and close handlers, both timers, `sip_keepalive_tcp`,
`sip_transp_flush`.

**SipKeepaliveUdp** (`src/sip/keepalive_udp.c`).  The flow with its timer and its STUN
transaction, and the keepalives on it.

**HttpClient** (`src/http/client.c`, `request.c`).  Requests with their queries, the number
of addresses left, the part of the request that is in the buffer; connections with their
request and timer; one request connection (`http_reqconn`) that answers challenges.
`req_close` is called from everywhere and calls the user, who may start the next request
there.

**HttpServer** (`src/http/server.c`).  Connections with their references, timers and the
certificate that was asked for; a segment may hold several requests, and the user may close
or keep the connection in each.

**WebSock** (`src/websock/websock.c`).  Connections that take a reference to themselves in
their destructor to say goodbye, and the `websock` that does the same to call the shutdown
handler; frames are data, or what ends the connection.

**SipCtransProofs** has the theorems about SipCtrans.

The `MC...` modules put several parts into one run.  A variable `part`, chosen in
the initial state and never changed, says which of them moves, so that a run is
the union of the runs of its parts; each property speaks of its own part.

## 3. Runs, properties and bounds

| Run | Module | Result |
|---|---|---|
| `core` | MCCore | passes, 423,000 states |
| `core_live` | MCCoreLive | passes, 106,000 states |
| `async_pipe_full` | MCCoreLive | violation, finding 1 |
| `timer_cancel_race` | MCCore | violation, finding 2 |
| `sip_client` | MCSipClient | passes, 131,000 states |
| `sip_request_failed` | SipRequest | violation, finding 3 |
| `sip_server` | MCSipServer | passes, 248,000 states |
| `sip_ua` | MCSipUa | passes, 136,000 states |
| `net` | MCNet | passes, 58,000 states |
| `sess_late_progress` | SipSess | violation, finding 4 |
| `conn` | MCConn | passes, 86,000 states |
| `sip_flush` | SipTransp | violation, finding 5 |

**core.**  Two workers, two calling threads, two items and two requests with
one cancel; a pipe of two messages.  That is the smallest pool in which an item
is reused while another worker is busy and a cancel meets every state of it.
`OneOwner`: an item is in one pair of hands.  `NoUseAfterRelease`: an argument is
not released under a running handler.  `CallbackOnce`: at most one callback, with
the error of its own request.  Two event
loops share two timers with delays 0 and 1, two starts and two cancels:
`TimerLists` (the lock chosen without a lock is the right one, a timer is linked
once, the list is in order, a poll leaves no expired timer behind).  `CancelKept`: no callback after a cancel of work, and no
call of the handler by the thread that cancelled a timer.  A main loop with two
descriptors, three handles, a table of two, one other thread and one call of
`re_main()`: `LoopSound` (no handle is used after it was freed, and a thread that
leaves releases the mutex).  It holds under conditions that
are part of its statement: a failed `EPOLL_CTL_MOD` frees a handle that epoll
and the caller still have, and when `polling` changes between enter and leave the
mutex is not released.  `MainBound` cuts off what comes after these two events.

**core_live.**  One worker, so that the second request has to allocate its item:
`EveryRequestSettled`.  One timer, two threads: `EventuallyOff`.

**sip_client.**  The timers of `re_sip.h` in units of T1 (T2 = 8, T4 = 10,
64\*T1 = 64, COMPLETE_WAIT = 64), over UDP and over a connection.  `OneFinal`,
`TimersRun`, `SendRules` (7 and 11 transmissions, a CANCEL only after a
response), `Ends`.  A request with up to three addresses, three SRV records and
three transports: `RequestSound` (the pointer of the user is valid, and
a request that lives waits for something), `Answered`.

**sip_server.**  Shortened timers (T1 = 1, T2 = T4 = 2, 64\*T1 = 4) and at
most two copies of a request that get through to the user.  `Owned`: the user has
the pointer exactly as long as the timer does not own the transaction.
`MergeDetected`, `RetransmitUntilAck`, `EndsAfterFinal`.  A call between client
and server with 64\*T1 = 16: `OneDecision` (the server transaction outlives all
copies of the INVITE) and `AckKept` (the client is there to acknowledge as long as
the server retransmits).

**sip_ua.**  A session with two numbered replies and all kinds of in-dialog
requests, in an incoming or an outgoing call; two replies are what re-INVITEs of the
peer need to leave more than one without an ACK.  A registration, a subscription and a notifier with a request loop limit
of 4 (16 in the code), three failed re-subscriptions (7 in the code) and two
REGISTERs open at once.  The limits are counters that end in the same branch at
any value above the number of challenges in a row.  `UaRefsSound` is the
central property: at every moment the reference count equals the number of those
who hold the object, and nobody has a pointer to a freed one.  Its statement leaves out
three cases in which the code does otherwise, marked by the history fields `dropped`
(SipSess), `overlap` (SipReg) and `foreign` (SipSub); see "Findings".  `OneFinal` (one
final response by the transaction of the INVITE, and at most one 504 past it), `ModifyKept`,
`RefreshPending`, `GoodbyeTried` (a BYE, an un-REGISTER, an un-SUBSCRIBE, a last NOTIFY), `NotifyInTurn`, `StaysUnregistered`, `UaFreed`.

**net.**  Two queries for one name, two servers (fewer or none later), two rounds over
the servers; two transactions with three transmissions; an allocation, a permission and
a channel with a loop limit of 3 (16 in the code) and one channel number.  Two queries
are enough to share a connection and to lose it together; three rounds of challenges
reach both tests of `turnc_request_loops()`.  `NetSound`: the pointer a user was given is
valid as long as it is set, handlers are called once, the mapped address that was
reported is the current one, an allocation is given back.  `NetPending`: whatever is open
has a timer or a request on its way, and a transaction follows the schedule of RFC 5389.
`NetEnds`: every query and transaction ends, and a server cannot keep the TURN client in
a loop.

**conn.**  Two messages of one or two units, a queue of three units, two descriptors and
any number of connections in turn for TCP; one request, one keepalive, two connections, two
receptions and one held message on each for SIP; two keepalives with two addresses and two
flows in turn for UDP; two HTTP requests in two parts, two addresses and one retry (3 in
the code); two server connections with two requests in a segment; three WebSocket
connections.  A second message is what queues up behind a first that was taken
in part and overflows the queue, a second connection what is opened while an older one is
held by its messages, a second flow what follows one that was closed.  `ConnOwned`: a
descriptor has one owner and is closed once, the references of a SIP connection add up, no
pointer to a queue entry or a keepalive outlives it, a request and its connection point
at each other, every request that ends was answered once.  `ConnPending`: bytes go out in the
order of the calls, what is queued is polled for, every SIP connection has its timer, and
keepalives are signalled with the end of what they watch; an HTTP request is sent from its
beginning and has queries, or a connection with a timer.  `ConnEnds`: a send queue is
drained, a silent connection is closed, a flow that nobody watches is freed, the
connections of an HTTP server end, and a WebSocket shutdown does.  The end of HTTP requests
is covered by the timers of `ConnPending` only.  The
properties of TcpConn name the cases in which they do not hold, `lost` and `torn` (see
"Findings").

Deadlock is not checked: an application that makes no more calls, and a session
that was freed, are proper ends.

Each property is known to fail when the code is changed in a plausible way: the
`mutants` of `PROJECT.json` name, for each, a definition and a mutated form of it
(`Mut...`, defined next to it).

## 4. Fairness

Worker threads and the main loop run when they can (weak fairness of their steps);
nothing is assumed of callers but that a cancel in progress goes on.  The clock
ticks, and a timer that is due is served: the main loop calls `tmr_poll()` after
every wait and the wait ends at the next expiry.  Requests are answered in the end,
if only by the timeout of their transaction; that is `Ends` of SipCtrans.
`getaddrinfo()` returns, and the work pool then makes the callback
(`EveryRequestSettled`).  Polling is level triggered and the peer reads in the end, so a
descriptor that is polled for writing becomes writable; the timers of connections expire,
and the 10 s that a keepalive waits for its pong are less than the shortest interval
between two (16 s); STUN transactions end (`Ends` of StunClient).  Application calls and messages of the peer are never fair.

## 5. Proofs

SipCtransProofs proves, for every value of the timers and for both kinds of
transport, from `CtransAssumption` (all timer constants are positive):

* `TypeCorrect`: the type invariant; the interval `SIP_T1 << txc` is always a
  natural number;
* `OneFinalResult`: `resph()` gets exactly one final result per transaction;
* `NoneForgotten`: a transaction that lives has a running timer, except an INVITE
  with a provisional response that was not cancelled;
* `CancelWaits`: a CANCEL is on the wire only after a response to its INVITE.

None of them is inductive alone.  The inductive invariant `IInv` adds `TimerLive`
(a timer runs only for a transaction that lives, so a timeout cannot report a
second result) and `CancelOrder` (there is no CANCEL transaction before the INVITE
has a response, so a provisional response may stop the timer of the INVITE without
leaving a cancelled call without one).  There is one lemma per action, and one
step per conjunct below it.

Only model-checked are: liveness, which the prover does not cover; all other
modules; `SendRules`, whose numbers depend on the values of the timers.

## 6. Findings

 1. `async_pipe_full`: `worker_thread()` ignores the result of `mqueue_push()`; when
    the pipe is full the completion is lost and the callback never made.
 2. `timer_cancel_race`: `tmr_startcont_dbg()` clears `active` before the timer is off
    its list ("Prevent multiple cancel race conditions"), so a second cancel returns
    while the timer is linked, and its handler is called afterwards.
 3. `sip_request_failed`: when the A query was started and the AAAA query cannot be,
    `sip_request()` returns an error, but the request lives on and is sent later.
 4. `sess_late_progress`: a provisional response with a body that comes after the hang
    up takes the reference of the pending INVITE away; the final response then takes
    that of the application.
 5. `sip_flush`: `sip_transp_flush()` ("Flush all transports") only takes the reference
    of the table; a connection of which a message is held stays open, and its end
    releases the reference of the table again.

Steps the models contain, for which no document says what is expected:

* `fd_listen()` does not take `nfds` back when epoll refuses the descriptor;
* the first `FD_WRITE` of a TCP connection polls for reading alone, so that what was queued
  before, or a send handler that was set before, waits for good (`lost`); a message of
  which the kernel took a part and whose rest cannot be queued is left torn (`torn`);
* an accepted WebSocket connection is never `established`: a request to its peer is queued
  until the connection closes; it has no timer before its first message;
* the HTTP client never uses an idle connection again: `send_req_buf()` refuses a
  connection that has no request yet, and the connection is freed;
* an HTTP request that goes on to the next address after it was sent is not sent again from
  its beginning (`again` names the case); one with a handler for the body has no timer while
  the body is received, unless it comes in chunks;
* when a connection of the HTTP server closes while a certificate is awaited, the data of
  the verification is not freed;
* the keepalive reports a request it cannot send, and a response without an address, but
  keeps the mapping, so that the same address is not reported again afterwards
  (`MappingTold` names the case);
* queries that wait for an answer out of the cache when the DNS client ends are freed, and
  neither the handler nor the pointer of the user learn of it;
* `send_tcp()` gives up a query that it put on a connection being established when an
  earlier server had failed; a late answer for a query that was dropped closes the TCP
  connection under the others;
* when re-INVITEs of the peer have left several replies without an ACK, each that times
  out after the end of the session drops a reference, while `termwait()` took one for all
  of them (`dropped` names the case, and `UaRefsSound` leaves it out);
* when the PRACK does not come, a 504 is sent without the transaction of the INVITE, which
  stays open: a final response of the application may follow or precede it (`OneFinal` has
  the orders that occur), and `prack_waiting_cnt` is not taken back;
* a call that was not acknowledged is dropped without a BYE;
* two REGISTERs may be open at once; `reg->req` is cleared by the first that ends, or by a
  second one that cannot be sent, and the registration may then be freed under the other
  (`overlap`);
* a NOTIFY that ends with an error other than a timeout is not sent again;
* `re_main()` that is left by an error of the wait clears `polling` after it has released
  the mutex, under a thread that may be inside (`switched`);
* when `read_req_data()` fails after a part of an HTTP request was sent, the rest of it is
  never sent, neither over this connection nor, if that is given up, to the next address;
* a 2xx for another fork of a subscription leaves it without a refresh timer, and
  drops or keeps a reference that is not its own (`RefsBalanced` of SipSub names the
  case); a fork of a REFER sends a REFER where a SUBSCRIBE is meant.

## 7. What is assumed and what is not modelled

* Async: handlers do not call back into the async object.  Timer: a start excludes
  other calls on the same timer.  MainLoop: kqueue, `re_thread_init()` and attached
  threads are left out; a signal is seen when it ends the wait.
* SipSess: the application releases the session only from `closeh()` or outside of
  handlers and does not use `sipsess_abort()`; in `sip_ua` no provisional response comes
  after the hang up (that is finding 4).
* SipReg, SipSub and SipNot: intervals are reduced to whether a timer runs, credentials
  to whether a challenge can be answered.
* DnsClient: a handler does not drop other queries; `dnsc_conf_set()`, which replaces the
  tables under open queries, is not called; all queries are for the same name.
* TcpConn: helpers only where they delay the establishment.  SipTransp: TCP and WebSocket
  connections do not have the same peer address and port (`ws_conn_find()` does not compare
  the transport); the handler of a queued message does not end other transactions; the
  framing of messages, and a ping that is split over two segments, are left out; in `conn`
  the transports are not flushed while messages are held (that is finding 5).
  SipKeepaliveUdp: keepalives are not started in the handler of another.
* HttpClient, HttpServer: the user does not release the client, the socket or other requests
  in handlers; a certificate is sent in time or not at all.  WebSock: no connections are
  opened after the shutdown; the user does not release the websock in the shutdown
  handler, where `mem_deref()` would go on with freed memory; frames that come in one
  segment with the response to the handshake are left out.
* TurnClient: the data that goes over the relay is left out.
* Messages are reduced to their class, lists of DNS records to their number.
* Parsers and printers, codecs and wrappers of cryptographic libraries have no
  control state and are not modelled; `PROJECT.json` lists every part with its status.

## 8. Plan

In this order; the first five are done but for dialogs and realms, of the sixth DNS, STUN
and TURN, of the seventh all but TLS,
RTMP and BFCP.

 1. Event loop: Async, Timer, MainLoop.
 2. SIP transactions: SipCtrans, SipStrans, SipTransaction; SipCtransProofs.
 3. SipRequest.
 4. User agents: SipSess, SipReg, SipSub, SipNot.
 5. SIP transport: SipTransp, SipKeepaliveUdp; then dialogs and the realm list.
 6. Network clients: DnsClient, StunClient, TurnClient; then ICE and trickle ICE check
    lists with an abstract specification of nomination that both implement, and PCP.
 7. Connections: TcpConn, HttpClient, HttpServer, WebSock; then TLS state, RTMP, BFCP.
 8. Media: RTP sources and members, SRTP replay window, audio buffers and mixers shared by
    threads.
 9. Proofs: `Owned` and `MergeDetected` of SipStrans for all timers; `OneOwner` of Async for
    any number of workers; `PointerValid` and `Schedule` of StunClient; `RefsBalanced` of SipSess; the refinement of the work pool by an
    abstract queue.
