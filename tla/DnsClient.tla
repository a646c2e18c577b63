----------------------------- MODULE DnsClient -----------------------------
(***************************************************************************)
(* The DNS client, src/dns/client.c: queries for one name over UDP, over   *)
(* TCP connections that queries share, or by getaddrinfo() in the work     *)
(* pool, and the cache.                                                    *)
(*                                                                         *)
(* A query is on one of the lists "query" (ht_query), "hdl" (hdl_cache,    *)
(* waiting for its answer out of the cache) and "cache" (ht_query_cache),  *)
(* and lives until it is dropped by the user, answered and not cached, or  *)
(* its time to live ends.  The query handlers do not drop other queries.   *)
(***************************************************************************)
EXTENDS Integers, Sequences, SequencesExt

CONSTANTS
    Queries,    \* the queries
    Srvc,       \* most DNS servers that the application sets
    NTX_MAX

VARIABLE dns    \* struct dnsc, with its queries and connections

vars == <<dns>>

Protos == {"udp", "tcp", "gai"}

NoQuery == [st |-> "none", proto |-> "udp", ptr |-> FALSE, qh |-> FALSE,
            tmr |-> FALSE, ntx |-> 0, tc |-> 0, calls |-> 0]

(* gai are the queries that the work pool has, dnsc->hdl_tmr is hdl_tmr,   *)
(* app whether the application holds the client, lost the queries that     *)
(* dnsc_destructor() freed without a word; conn[0] is no connection.       *)
Init ==
    dns = [q |-> [q \in Queries |-> NoQuery], srvc |-> Srvc,
           conn |-> [s \in 0..Srvc |-> "none"],
           caching |-> TRUE, gai |-> {}, app |-> TRUE, hdl_tmr |-> FALSE,
           lost |-> {}]

On(d, l) == {q \in Queries : d.q[q].st = l}

-----------------------------------------------------------------------------
(* query_abort(); the reference to the connection goes with tc. *)
query_abort(d, q) == [d EXCEPT !.q[q].tc = 0, !.q[q].tmr = FALSE]

(* mem_deref(q) and query_destructor() *)
Freed(d, q) == [query_abort(d, q) EXCEPT !.q[q].st = "gone"]

MutCalled(d, q) ==
    [d EXCEPT !.q[q].qh = FALSE,
              !.q[q].calls = IF d.q[q].qh THEN @ + 1 ELSE @]

(* *q->qp = NULL, and the handler that is only called once *)
Called(d, q) ==
    [d EXCEPT !.q[q].ptr = FALSE, !.q[q].qh = FALSE,
              !.q[q].calls = IF d.q[q].qh THEN @ + 1 ELSE @]

(* query_handler(): the query leaves ht_query. *)
query_handler(d, q) ==
    [query_abort(Called(d, q), q) EXCEPT !.q[q].st = "answered"]

(* query_handler() and mem_deref(); query() only frees the query it could  *)
(* not send and returns the error.                                         *)
Fail(d, q) ==
    IF d.q[q].st = "starting" THEN Freed(d, q)
    ELSE Freed(query_handler(d, q), q)

-----------------------------------------------------------------------------
(* tcpconn_close(): the queries of the connection are detached from it.    *)
Users(d, s) == SetToSeq({q \in Queries : d.q[q].tc = s})

Detached(d, s) ==
    [d EXCEPT !.conn[s] = "none",
              !.q = [q \in Range(Users(d, s)) |->
                       [d.q[q] EXCEPT !.tc = 0]] @@ @]

Job(q) == [q |-> q, err |-> FALSE]
Jobs(s) == [i \in DOMAIN s |-> Job(s[i])]

(* list_append(&tc->ql, &q->le_tc, q) *)
Attach(d, q, s) == [d EXCEPT !.q[q].tc = s]

(* One server tried in send_tcp() for the first query of todo: what may    *)
(* become of the client and of todo.  A send that fails closes the         *)
(* connection, and tcpconn_fail_handler() sends its queries first.  err    *)
(* keeps the error of the last server when the next one has a connection   *)
(* that is still being established.                                        *)
Tried(d, todo) ==
    LET j == Head(todo)
        n == d.q[j.q].ntx + 1
        e == [d EXCEPT !.q[j.q].ntx = n]
        again == <<[j EXCEPT !.err = TRUE]>> \o Tail(todo)
        Done(f) == <<f, Tail(todo)>>
    IN
    IF n > d.srvc THEN {Done(Fail(d, j.q))}
    ELSE CASE d.conn[n] = "none" ->
                {<<e, again>>,
                 Done(Attach([e EXCEPT !.conn[n] = "connecting"], j.q, n))}
           [] d.conn[n] = "connecting" ->
                {Done(IF j.err THEN Fail(e, j.q) ELSE Attach(e, j.q, n))}
           [] d.conn[n] = "connected" ->
                {Done(Attach(e, j.q, n)),
                 <<Detached(e, n), Jobs(Users(e, n)) \o again>>}

(* send_tcp() for each query of todo in turn *)
RECURSIVE send_tcp(_, _)
send_tcp(d, todo) ==
    IF todo = <<>> THEN {d}
    ELSE UNION {send_tcp(t[1], t[2]) : t \in Tried(d, todo)}

(* tcpconn_close(), by a timeout, an error or the peer *)
tcpconn_close(d, s) == send_tcp(Detached(d, s), Jobs(Users(d, s)))

(* send_udp() tries every server once; tmr_start() when it could send. *)
send_udp(d, q) ==
    {[d EXCEPT !.q[q].ntx = @ + i, !.q[q].tmr = TRUE] : i \in 1..d.srvc}
      \cup {Fail(d, q)}

-----------------------------------------------------------------------------
(* Calls of the application *)

(* What is in the cache is answered by hdl_tmr. *)
FromCache(d, q) ==
    [d EXCEPT !.q[q].st = "hdl", !.q[q].ptr = TRUE, !.hdl_tmr = TRUE]

(* query() after it was sent: the timer, and the pointer of the user *)
Started(d, q) ==
    IF d.q[q].st = "gone" THEN d
    ELSE [d EXCEPT !.q[q].st = "query", !.q[q].ptr = TRUE,
                   !.q[q].tmr = d.q[q].proto # "gai"]

(* The proto of the caller, or getaddrinfo() when it is enabled *)
Sent(d, q) ==
    CASE d.q[q].proto = "udp" -> send_udp(d, q)
      [] d.q[q].proto = "tcp" -> send_tcp(d, <<Job(q)>>)
      [] d.q[q].proto = "gai" -> {[d EXCEPT !.gai = @ \cup {q}], Fail(d, q)}

query(q, proto) ==
    /\ dns.app /\ dns.q[q].st = "none"
    /\ dns.srvc # 0 \/ proto = "gai"
    /\ LET d == [dns EXCEPT !.q[q].st = "starting", !.q[q].proto = proto,
                            !.q[q].qh = TRUE]
       IN  IF On(d, "cache") # {} THEN dns' = FromCache(d, q)
           ELSE dns' \in {Started(e, q) : e \in Sent(d, q)}

(* mem_deref() of a query by the user *)
Drop(q) == dns.q[q].ptr /\ dns' = [Freed(dns, q) EXCEPT !.q[q].ptr = FALSE]

(* hash_flush(dnsc->ht_query_cache) *)
Flushed(d) ==
    [d EXCEPT !.q = [q \in On(d, "cache") |-> Freed(d, q).q[q]] @@ @]

dnsc_cache_flush ==
    dns.app /\ On(dns, "cache") # {} /\ dns' = Flushed(dns)

dnsc_cache_max ==
    /\ dns.app
    /\ dns' = IF dns.caching THEN [Flushed(dns) EXCEPT !.caching = FALSE]
              ELSE [dns EXCEPT !.caching = TRUE]

dnsc_srv_set(n) == dns.app /\ dns' = [dns EXCEPT !.srvc = n]

(* dnsc_destructor(): queries that wait for an answer out of the cache are *)
(* freed first and nobody is told.                                         *)
dnsc_destructor(d) ==
    LET hdl == On(d, "hdl")
        e == [Flushed(d) EXCEPT
                !.q = [q \in On(d, "query") |-> Fail(d, q).q[q]]
                        @@ [q \in hdl |-> Freed(d, q).q[q]] @@ @]
    IN  [e EXCEPT !.conn = [s \in 0..Srvc |-> "none"], !.hdl_tmr = FALSE,
                  !.lost = hdl]

(* The work pool has references to the client. *)
Close ==
    /\ dns.app
    /\ LET d == [dns EXCEPT !.app = FALSE] IN
       dns' = IF d.gai = {} THEN dnsc_destructor(d) ELSE d

-----------------------------------------------------------------------------
(* Answers and timeouts *)

(* The answer goes to the cache if there is one. *)
Kept(d, q) == {IF d.caching THEN [d EXCEPT !.q[q].st = "cache"] ELSE Freed(d, q)}

(* Some answers are never cached. *)
Cached(d, q) == {Freed(d, q)} \cup Kept(d, q)

(* reply_recv() for a query on ht_query: the records are decoded or not *)
Answer(d, q) == {Fail(d, q)} \cup Cached(query_handler(d, q), q)

(* The server failed: over UDP the next is tried at once. *)
TryNext(d, q) == d.q[q].ntx < d.srvc

udp_recv_handler(q) ==
    /\ dns.q[q].st = "query" /\ dns.q[q].proto = "udp"
    /\ \/ TryNext(dns, q) /\ dns' = [dns EXCEPT !.q[q].tmr = TRUE]
       \/ dns' \in Answer(dns, q)

(* An answer that is not good, or that no query waits for any more, closes *)
(* the connection.                                                         *)
tcp_recv_handler(s) ==
    /\ dns.conn[s] = "connected"
    /\ \/ \E q \in Queries :
            /\ dns.q[q].tc = s
            /\ dns' \in Cached(query_handler(dns, q), q)
                          \cup tcpconn_close(Fail(dns, q), s)
       \/ dns' \in tcpconn_close(dns, s)

tcp_estab_handler(s) ==
    /\ dns.conn[s] = "connecting"
    /\ \/ dns' = [dns EXCEPT !.conn[s] = "connected"]
       \/ dns' \in tcpconn_close(dns, s)

(* tcpconn_timeout_handler() and tcp_close_handler() *)
tcp_close_handler(s) == dns.conn[s] # "none" /\ dns' \in tcpconn_close(dns, s)

MutGiveUp(d, q) == d.q[q].ntx = NTX_MAX * d.srvc

GiveUp(d, q) == d.q[q].ntx >= NTX_MAX * d.srvc

udp_timeout_handler(q) ==
    /\ dns.q[q].proto = "udp" /\ dns.q[q].tmr
    /\ LET d == [dns EXCEPT !.q[q].tmr = FALSE] IN
       dns' \in IF GiveUp(d, q) THEN {Fail(d, q)} ELSE send_udp(d, q)

tcp_timeout_handler(q) ==
    dns.q[q].proto = "tcp" /\ dns.q[q].tmr /\ dns' = Fail(dns, q)

(* getaddrinfo_h() finds the query by its id, or it was dropped. *)
getaddrinfo_h(q) ==
    /\ q \in dns.gai
    /\ LET d == [dns EXCEPT !.gai = @ \ {q}]
           answers == IF d.q[q].st = "query"
                      THEN {Fail(d, q)} \cup Kept(query_handler(d, q), q)
                      ELSE {d}
       IN  \E e \in answers :
             dns' = IF ~e.app /\ e.gai = {} THEN dnsc_destructor(e) ELSE e

(* hdl_tmr_cache() and list_flush() *)
hdl_tmr_cache ==
    /\ dns.hdl_tmr
    /\ dns' = [dns EXCEPT
                 !.hdl_tmr = FALSE,
                 !.q = [q \in On(dns, "hdl") |-> Fail(dns, q).q[q]] @@ @]

ttl_timeout_handler(q) ==
    dns.q[q].st = "cache" /\ dns' = Freed(dns, q)

-----------------------------------------------------------------------------
Use(q) == Drop(q) \/ \E proto \in Protos : query(q, proto)

Timeouts ==
    \/ hdl_tmr_cache
    \/ \E q \in Queries :
         \/ udp_timeout_handler(q) \/ tcp_timeout_handler(q)
         \/ getaddrinfo_h(q)

Next ==
    \/ dnsc_cache_flush \/ dnsc_cache_max \/ Close \/ Timeouts
    \/ \E n \in 0..Srvc : dnsc_srv_set(n)
    \/ \E q \in Queries :
         Use(q) \/ udp_recv_handler(q) \/ ttl_timeout_handler(q)
    \/ \E s \in 1..Srvc :
         \/ tcp_recv_handler(s) \/ tcp_estab_handler(s) \/ tcp_close_handler(s)

(* Timers expire, and getaddrinfo() returns. *)
Fairness ==
    /\ WF_vars(hdl_tmr_cache)
    /\ \A q \in Queries :
         /\ WF_vars(udp_timeout_handler(q) \/ tcp_timeout_handler(q))
         /\ WF_vars(getaddrinfo_h(q))

Spec == Init /\ [][Next]_vars /\ Fairness

-----------------------------------------------------------------------------
(* Properties *)

Open(q) == dns.q[q].st \in {"query", "hdl"}

TypeOK ==
    /\ dns.q \in [Queries ->
                    [st : {"none", "query", "hdl", "cache", "gone"},
                     proto : Protos, ptr : BOOLEAN, qh : BOOLEAN, tmr : BOOLEAN,
                     ntx : 0..(NTX_MAX * Srvc + Srvc - 1), tc : 0..Srvc,
                     calls : 0..1]]
    /\ dns.conn \in [0..Srvc -> {"none", "connecting", "connected"}]
    /\ dns.gai \subseteq Queries

(* The pointer that query() gave to the user is set exactly as long as the *)
(* query is open, and the handler is called once for it, or never when the *)
(* user dropped it; unless the client was closed before a cached answer    *)
(* was given.                                                              *)
PointerValid ==
    \A q \in Queries \ dns.lost :
      /\ dns.q[q].ptr <=> Open(q)
      /\ Open(q) => dns.q[q].qh /\ dns.q[q].calls = 0
      /\ dns.q[q].st = "cache" => ~dns.q[q].qh

(* Every open query has a timer, or the work pool has it, so it ends,      *)
(* whatever happens to the connections; a query that is open on a          *)
(* connection is found there.                                              *)
Pending ==
    \A q \in Queries :
      /\ Open(q) => \/ dns.q[q].tmr \/ q \in dns.gai
                    \/ dns.q[q].st = "hdl" /\ dns.hdl_tmr
      /\ dns.q[q].proto = "tcp" /\ dns.q[q].st = "query" =>
           dns.q[q].tc # 0 /\ dns.conn[dns.q[q].tc] # "none"
      /\ dns.q[q].tc # 0 => dns.q[q].st = "query"

(* A query ends: with a result, or by its user. *)
Answered == \A q \in Queries : Open(q) ~> ~Open(q)

=============================================================================
