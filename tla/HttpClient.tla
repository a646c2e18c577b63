----------------------------- MODULE HttpClient -----------------------------
(***************************************************************************)
(* The HTTP client: requests and connections, src/http/client.c, and a     *)
(* request connection that answers challenges, src/http/request.c.         *)
(*                                                                         *)
(* A request looks its host up, then tries one address after the other,    *)
(* the last one first.  It owns its connection until the response is       *)
(* complete; then the connection is idle, or freed.  A function that may   *)
(* fail is the set of its outcomes, each an error flag and a state.        *)
(***************************************************************************)
EXTENDS Integers, FiniteSetsExt, TLC

CONSTANTS
    HttpReqs,       \* requests: numbers, in the order of http_request()
    DataReqs,       \* those of them that have a handler for the body, datah
    HttpConns,      \* bound: connections at one time, numbers
    SRV_MAX,        \* addresses of a host, srvv[]
    PARTS,          \* parts of a request: the head, then what bodyh() gives
    MAX_RETRIES     \* challenges that are answered

VARIABLE http

NoReq == 0
NoLink == 0

(* next: the part of the request that is in mbreq;                         *)
(* again: the request went, at least in part, to an address that failed    *)
NewReq == [st |-> "none", by |-> "app", reqp |-> FALSE, dq |-> FALSE, dq6 |-> FALSE,
           srvc |-> 0, conn |-> NoLink, next |-> 1,
           msg |-> FALSE, close |-> FALSE,
           resps |-> 0, dropped |-> FALSE, again |-> FALSE]

(* from: the first part of the request that was sent over the connection   *)
NoConn == [st |-> "none", addr |-> 0, req |-> NoReq, usec |-> 0, tmr |-> "off",
            estab |-> FALSE, from |-> 0]

(* The request connection and its user: has is the reference of the user   *)
NewReqconn == [nrefs |-> 1, has |-> TRUE, req |-> NoReq, retries |-> 0]

Init == http = [cli |-> "alive", req |-> [q \in HttpReqs |-> NewReq],
                conn |-> [c \in HttpConns |-> NoConn], rc |-> NewReqconn]

Fail(s) == [err |-> TRUE, s |-> s]
Done(s) == [err |-> FALSE, s |-> s]

Alive(s, q) == s.req[q].st = "alive"
Linked(s) == {c \in HttpConns : s.conn[c].st = "alive"}

-----------------------------------------------------------------------------
(* Connections *)

conn_destructor(s, c) ==
    IF c = NoLink THEN s ELSE [s EXCEPT !.conn[c] = NoConn]

conn_idle(s, c) == [s EXCEPT !.conn[c].req = NoReq, !.conn[c].tmr = "idle"]

(* The parts of a request go out until the send queue of the connection is *)
(* used; a part after the first that cannot be sent is left for later.     *)
(* When read_req_data() fails after the first, mbreq stays empty.          *)
send_req_buf(s, c) ==
    LET q == s.conn[c].req
        Sent(n) == [s EXCEPT !.req[q].next = n,
                             !.conn[c].from = IF @ = 0 THEN s.req[q].next ELSE @]
    IN
    IF q = NoReq THEN {Fail(s)}
    ELSE IF s.req[q].next > PARTS THEN {Done(s)}
    ELSE {Fail(s)} \cup (IF PARTS > 1 THEN {Fail(Sent(PARTS + 1))} ELSE {}) \cup
         {Done([Sent(n) EXCEPT !.conn[c].tmr = "recv"]) :
            n \in (s.req[q].next + 1)..(PARTS + 1)}

(* conn_cmp(): an idle connection to the address; the table has the oldest *)
(* first, and which of several it is makes no difference                   *)
Idle(s, q) == {c \in Linked(s) : s.conn[c].addr = s.req[q].srvc /\ s.conn[c].req = NoReq}

(* An idle connection is taken when the request can be sent over it, which *)
(* send_req_buf() refuses as long as the connection has no request.        *)
Reuse(s, q, c) ==
    {[o EXCEPT !.s = IF o.err THEN conn_destructor(o.s, c)
                     ELSE [o.s EXCEPT !.req[q].conn = c, !.conn[c].req = q,
                              !.conn[c].usec = @ + 1, !.conn[c].tmr = "recv"]] :
        o \in send_req_buf(s, c)}

tcp_connect(s, q) ==
    LET free == HttpConns \ Linked(s) IN
    {Fail(s)} \cup
    (IF free = {} THEN {}
     ELSE LET c == Min(free) IN
          {Done([s EXCEPT !.req[q].conn = c,
                          !.conn[c] = [NoConn EXCEPT !.st = "alive", !.usec = 1,
                              !.addr = s.req[q].srvc, !.req = q, !.tmr = "conn"]])})

conn_connect(s, q) ==
    IF Idle(s, q) = {} THEN tcp_connect(s, q)
    ELSE UNION {IF o.err THEN tcp_connect(o.s, q) ELSE {o} :
                o \in Reuse(s, q, Min(Idle(s, q)))}

RECURSIVE req_connect(_, _)
req_connect(s, q) ==
    IF s.req[q].srvc = 0 THEN {Fail(s)}
    ELSE UNION {IF o.err THEN req_connect(o.s, q) ELSE {o} :
                o \in conn_connect([s EXCEPT !.req[q].srvc = @ - 1], q)}

-----------------------------------------------------------------------------
(* Requests *)

req_destructor(s, q) ==
    conn_destructor([s EXCEPT !.req[q] = [NewReq EXCEPT !.st = "freed", !.resps = s.req[q].resps]],
                    s.req[q].conn)

Fresh(s) == {q \in HttpReqs : s.req[q].st = "none"}

(* The lookup: an A query, and an AAAA query when there is IPv6 *)
dnsc_query(s, q) ==
    {Fail(s), Done([s EXCEPT !.req[q].dq = TRUE]),
     Done([s EXCEPT !.req[q].dq = TRUE, !.req[q].dq6 = TRUE])}

(* Returned by http_request(): the pointer is set, or the request freed.   *)
Returned(o, q) ==
    IF o.err THEN Fail([req_destructor(o.s, q) EXCEPT !.req[q].dropped = TRUE])
    ELSE Done([o.s EXCEPT !.req[q].reqp = TRUE])

(* A request of the user or of the request connection, by name or address  *)
http_request(s, by) ==
    LET q == Min(Fresh(s)) IN
    LET n == [s EXCEPT !.req[q] = [NewReq EXCEPT !.st = "alive", !.by = by]]
    IN  {Returned(o, q) :
            o \in dnsc_query(n, q) \cup req_connect([n EXCEPT !.req[q].srvc = 1], q)}

(* *reqp, with reqp = &conn->req *)
Pointer(s, q) == [s EXCEPT !.rc.req = q]

(* mem_deref() of the request connection, and its destructor *)
Deref(s) ==
    LET d == [s EXCEPT !.rc.nrefs = @ - 1] IN
    IF d.rc.nrefs > 0 \/ d.rc.req = NoReq THEN d ELSE req_destructor(d, d.rc.req)

(* send_req() keeps a reference for resp_handler(). *)
send_req(s) ==
    IF Fresh(s) = {} THEN {Fail(s)}
    ELSE {IF o.err THEN o ELSE Done([Pointer(o.s, Min(Fresh(s))) EXCEPT !.rc.nrefs = @ + 1]) :
            o \in http_request(s, "rc")}

(* A challenge is answered by another request, up to MAX_RETRIES times.    *)
resp_handler(s, err) ==
    {Deref(s)} \cup
    (IF err \/ s.rc.retries >= MAX_RETRIES THEN {}
     ELSE {Deref(o.s) : o \in send_req([s EXCEPT !.rc.retries = @ + 1])})

(* What becomes of the connection of a request that ends *)
Afterwards(s, q, err) ==
    IF s.req[q].conn = NoLink THEN s
    ELSE IF err \/ s.req[q].close THEN conn_destructor(s, s.req[q].conn)
    ELSE conn_idle(s, s.req[q].conn)

(* The pointer is reset before the handler is called, which may start      *)
(* another request over the connection that has become idle.               *)
req_close(s, q, err) ==
    LET a == [Afterwards(s, q, err) EXCEPT
                !.req[q].conn = NoLink, !.req[q].dq = FALSE, !.req[q].dq6 = FALSE,
                !.req[q].reqp = FALSE, !.req[q].resps = @ + 1,
                !.rc.req = IF s.req[q].by = "rc" /\ s.req[q].reqp THEN NoReq ELSE @]
    IN  {req_destructor(r, q) : r \in IF s.req[q].by = "rc" THEN resp_handler(a, err)
                                                          ELSE {a}}

OrClose(outcomes, q) ==
    UNION {IF o.err THEN req_close(o.s, q, TRUE) ELSE {o.s} : o \in outcomes}

(* The connection is given up.  Its request goes on to the next address,   *)
(* or to the same one when the connection had been used before, unless the *)
(* response has begun.                                                     *)
try_next(s, c) ==
    LET q == s.conn[c].req
        d == conn_destructor(s, c)
        n == [d EXCEPT !.req[q].conn = NoLink,
                       !.req[q].again = @ \/ s.conn[c].from # 0,
                       !.req[q].srvc = IF s.conn[c].usec > 1 THEN @ + 1 ELSE @]
    IN  IF q = NoReq THEN {d}
        ELSE IF n.req[q].srvc > 0 /\ ~n.req[q].msg THEN OrClose(req_connect(n, q), q)
        ELSE req_close(n, q, TRUE)

-----------------------------------------------------------------------------
(* The user *)

Request ==
    /\ http.cli = "alive" /\ Fresh(http) # {}
    /\ http' \in {o.s : o \in http_request(http, "app")}

(* mem_deref() of a request by its user *)
Drop(q) ==
    /\ Alive(http, q) /\ http.req[q].by = "app"
    /\ http' = [req_destructor(http, q) EXCEPT !.req[q].dropped = TRUE]

(* Also while an earlier request of the connection is open *)
http_reqconn_send ==
    /\ http.cli = "alive" /\ http.rc.has /\ Fresh(http) # {}
    /\ http' \in {o.s : o \in send_req([http EXCEPT !.rc.retries = 0])}

DropReqconn ==
    /\ http.rc.has
    /\ http' = Deref([http EXCEPT !.rc.has = FALSE])

(* The end of the client closes all requests and frees all connections.    *)
cli_destructor ==
    /\ http.cli = "alive"
    /\ LET Close(q, s) == IF Alive(s, q) THEN CHOOSE r \in req_close(s, q, TRUE) : TRUE
                                         ELSE s
           Free(c, s) == IF c \in Linked(s) THEN conn_destructor(s, c) ELSE s
           closed == FoldSet(Close, http, HttpReqs)
       IN  http' = [FoldSet(Free, closed, HttpConns) EXCEPT !.cli = "freed"]

-----------------------------------------------------------------------------
(* The network and the timers *)

(* An answer to one of the queries, with n addresses *)
query_handler(q) ==
    /\ http.req[q].dq \/ http.req[q].dq6
    /\ \E n \in 0..SRV_MAX, six \in BOOLEAN :
       /\ IF six THEN http.req[q].dq6 ELSE http.req[q].dq
       /\ LET a == [http EXCEPT !.req[q].srvc = Min({@ + n, SRV_MAX}),
                                !.req[q].dq = @ /\ six, !.req[q].dq6 = @ /\ ~six]
          IN  IF a.req[q].dq \/ a.req[q].dq6 THEN http' = a
              ELSE IF a.req[q].srvc = 0 THEN http' \in req_close(a, q, TRUE)
              ELSE http' \in OrClose(req_connect(a, q), q)

estab_handler(c) ==
    /\ c \in Linked(http) /\ ~http.conn[c].estab
    /\ LET q == http.conn[c].req
           s == [http EXCEPT !.conn[c].estab = TRUE]
       IN  /\ q # NoReq
           /\ http' \in UNION {
                IF o.err THEN try_next(o.s, c)
                ELSE {[o.s EXCEPT !.conn[c].tmr = "recv"]} : o \in send_req_buf(s, c)}

(* The connection takes more data, and there is some: tcp_set_send() was   *)
(* called.  An error is seen when the connection closes.                   *)
send_req_handler(c) ==
    /\ http.conn[c].estab /\ http.conn[c].req # NoReq
    /\ http.req[http.conn[c].req].next <= PARTS
    /\ http' \in {o.s : o \in send_req_buf(http, c)}

(* After a part of the response it goes on, is complete, or cannot be used. *)
req_recv(s, q) == {s} \cup req_close(s, q, TRUE) \cup req_close(s, q, FALSE)

(* With a handler for the body the timer is off from the head on, unless   *)
(* chunks start it again.                                                  *)
recv_handler(c) ==
    LET q == http.conn[c].req IN
    /\ http.conn[c].estab /\ q # NoReq
    /\ \/ http.req[q].msg /\ http' \in req_recv(http, q)
       \/ ~http.req[q].msg /\ http' \in req_close(http, q, TRUE)
       \/ /\ ~http.req[q].msg
          /\ \E close, chunked \in BOOLEAN :
                LET t == IF q \in DataReqs /\ ~chunked THEN "off" ELSE "recv" IN
                http' \in req_recv([http EXCEPT !.req[q].msg = TRUE, !.conn[c].tmr = t,
                                               !.req[q].close = close], q)

(* close_handler() or, when the timer is running, timeout_handler() *)
close_handler(c) == c \in Linked(http) /\ http' \in try_next(http, c)

timeout_handler(c) ==
    /\ http.conn[c].tmr # "off"
    /\ http' \in try_next([http EXCEPT !.conn[c].tmr = "off"], c)

-----------------------------------------------------------------------------
Next ==
    \/ Request \/ http_reqconn_send \/ DropReqconn \/ cli_destructor
    \/ \E q \in HttpReqs : Drop(q) \/ query_handler(q)
    \/ \E c \in HttpConns :
          estab_handler(c) \/ send_req_handler(c) \/ recv_handler(c)
            \/ close_handler(c) \/ timeout_handler(c)

Spec == Init /\ [][Next]_http

-----------------------------------------------------------------------------
(* The types; a response handler is called once at most. *)
TypeOK ==
    /\ http.cli \in {"alive", "freed"}
    /\ \A q \in HttpReqs :
          /\ http.req[q].st \in {"none", "alive", "freed"}
          /\ http.req[q].srvc \in 0..SRV_MAX /\ http.req[q].conn \in HttpConns \cup {NoLink}
          /\ http.req[q].next \in 1..(PARTS + 1) /\ http.req[q].resps \in 0..1
    /\ \A c \in HttpConns :
          /\ http.conn[c].st \in {"none", "alive"}
          /\ http.conn[c].req \in HttpReqs \cup {NoReq}
          /\ http.conn[c].tmr \in {"off", "conn", "recv", "idle"}
    /\ http.rc.nrefs \in Nat

(* A request and its connection point at each other, a request that has    *)
(* ended had its response unless its user dropped it, and the request      *)
(* connection lives as long as its user or a request needs it.             *)
Owned ==
    /\ \A q \in HttpReqs, c \in HttpConns :
          http.req[q].conn = c <=> c \in Linked(http) /\ http.conn[c].req = q
    /\ \A q \in HttpReqs :
          /\ http.req[q].reqp <=> Alive(http, q)
          /\ http.req[q].st = "freed" <=> http.req[q].resps = 1 \/ http.req[q].dropped
    /\ http.rc.nrefs = (IF http.rc.has THEN 1 ELSE 0) +
                       Cardinality({q \in HttpReqs : Alive(http, q) /\ http.req[q].by = "rc"})
    /\ http.rc.req # NoReq => Alive(http, http.rc.req)

(* A request that lives waits for its queries or has a connection, and a   *)
(* connection has a timer, except while its user is handed the body.  A    *)
(* request is sent from its beginning, except to an address that comes     *)
(* after one to which it was sent.                                         *)
Pending ==
    /\ \A q \in HttpReqs : Alive(http, q) =>
          (http.req[q].conn # NoLink) # (http.req[q].dq \/ http.req[q].dq6)
    /\ \A c \in Linked(http) : LET q == http.conn[c].req IN
          /\ http.conn[c].tmr = "idle" <=> q = NoReq
          /\ http.conn[c].tmr = "off" => http.req[q].msg /\ q \in DataReqs
          /\ q # NoReq /\ http.conn[c].from > 1 => http.req[q].again
          /\ q # NoReq /\ http.conn[c].estab /\ ~http.req[q].again => http.conn[c].from = 1

=============================================================================
