----------------------------- MODULE HttpServer -----------------------------
(***************************************************************************)
(* The HTTP server, src/http/server.c: connections that peers open, the    *)
(* requests on them, and the certificates that the user may ask for before *)
(* a request is handled.  A connection is on the list of its socket with a *)
(* reference of its own until it is closed; the user may keep another one  *)
(* to answer later.                                                        *)
(***************************************************************************)
EXTENDS Integers, FiniteSets, TLC

CONSTANTS
    SrvConns,   \* connections
    PIPE_MAX    \* bound: requests in one segment

VARIABLE srv

(* sock: conn->sock is set; tmr: the idle timer; verify: a certificate was *)
(* asked for and verify_cert_tmr is running; held: a reference of the user *)
NoSrvConn == [st |-> "none", nrefs |-> 0, list |-> FALSE, sock |-> FALSE, tc |-> FALSE,
              tmr |-> FALSE, verify |-> FALSE, held |-> FALSE]

(* late: a handler went on with a connection that was freed or closed      *)
Init == srv = [sock |-> "alive", conn |-> [c \in SrvConns |-> NoSrvConn], late |-> FALSE]

Alive(s, c) == s.conn[c].st = "alive"

mem_deref(s, c) ==
    IF s.conn[c].nrefs > 1 THEN [s EXCEPT !.conn[c].nrefs = @ - 1]
    ELSE [s EXCEPT !.conn[c] = [NoSrvConn EXCEPT !.st = "freed"]]

conn_close(s, c) ==
    [s EXCEPT !.conn[c].list = FALSE, !.conn[c].tmr = FALSE, !.conn[c].verify = FALSE,
              !.conn[c].tc = FALSE, !.conn[c].sock = FALSE]

(* The end of a connection in all its handlers *)
Closed(s, c) == mem_deref(conn_close(s, c), c)

http_conn_close(s, c) == [s EXCEPT !.conn[c].tc = FALSE]

(* What the user does in reqh(): answer, keep the connection, close it. *)
reqh(s, c) ==
    LET keep == IF s.conn[c].held THEN s
                ELSE [s EXCEPT !.conn[c].held = TRUE, !.conn[c].nrefs = @ + 1]
        r == IF s.conn[c].sock THEN s ELSE [s EXCEPT !.late = TRUE]
    IN  IF r.late THEN {r} ELSE {s, keep, http_conn_close(s, c), http_conn_close(keep, c)}

(* The user lets the request be handled, ignores it, or asks for a         *)
(* certificate, which may fail after the timer was started.                *)
verify_msg(s, c) == reqh(s, c) \cup {s, [s EXCEPT !.conn[c].verify = TRUE]}

(* After a request: the user has closed the connection, or it waits for    *)
(* the next one.                                                           *)
AfterRequest(s, c) ==
    IF ~s.conn[c].tc THEN Closed(s, c) ELSE [s EXCEPT !.conn[c].tmr = TRUE]

(* The requests of one segment, as long as the connection lives *)
RECURSIVE Requests(_, _, _)
Requests(s, c, n) ==
    IF n = 0 \/ ~s.conn[c].tc THEN {s}
    ELSE UNION {Requests(AfterRequest(t, c), c, n - 1) : t \in verify_msg(s, c)}

-----------------------------------------------------------------------------
(* The network and the timers *)

(* Accepted, and the timer for the first request started; or rejected *)
connect_handler(c) ==
    /\ srv.sock = "alive" /\ srv.conn[c].st = "none"
    /\ srv' \in {[srv EXCEPT !.conn[c] = [st |-> "alive", nrefs |-> 1, list |-> TRUE,
                        sock |-> TRUE, tc |-> TRUE, tmr |-> TRUE, verify |-> FALSE,
                        held |-> FALSE]],
                 [srv EXCEPT !.conn[c].st = "freed"]}

(* A segment completes n requests; then there is nothing left, the begin   *)
(* of another request, or something that cannot be used.                   *)
recv_handler(c) ==
    /\ srv.conn[c].tc
    /\ \E n \in 0..PIPE_MAX : \E s \in Requests(srv, c, n) :
          \/ srv' = s
          \/ s.conn[c].tc /\ srv' = Closed(s, c)

close_handler(c) == srv.conn[c].tc /\ srv' = Closed(srv, c)

timeout_handler(c) == srv.conn[c].tmr /\ srv' = Closed(srv, c)

(* The certificate was checked, and the timer is started for 1 ms; or it   *)
(* was not sent in time.  Then the request is handled, or refused.         *)
verify_cert_done(c) ==
    /\ srv.conn[c].verify
    /\ LET s == [srv EXCEPT !.conn[c].verify = FALSE] IN srv' \in {s} \cup reqh(s, c)

-----------------------------------------------------------------------------
(* The user, outside of handlers *)

Release(c) ==
    /\ srv.conn[c].held
    /\ srv' = mem_deref([srv EXCEPT !.conn[c].held = FALSE], c)

HeldClose(c) == srv.conn[c].held /\ srv.conn[c].tc /\ srv' = http_conn_close(srv, c)

(* The socket is released with all its connections. *)
sock_destructor ==
    /\ srv.sock = "alive"
    /\ srv' = [srv EXCEPT !.sock = "freed",
                 !.conn = [c \in SrvConns |->
                             IF srv.conn[c].list THEN Closed(srv, c).conn[c] ELSE @[c]]]

-----------------------------------------------------------------------------
Next ==
    \/ sock_destructor
    \/ \E c \in SrvConns :
          connect_handler(c) \/ recv_handler(c) \/ close_handler(c) \/ timeout_handler(c)
            \/ verify_cert_done(c) \/ Release(c) \/ HeldClose(c)

(* Timers expire: a peer does not send requests for ever. *)
Fair == \E c \in SrvConns : timeout_handler(c)

Spec == Init /\ [][Next]_srv /\ WF_srv(Fair)

-----------------------------------------------------------------------------
(* The types; no handler goes on with a connection that was closed. *)
TypeOK ==
    /\ srv.sock \in {"alive", "freed"} /\ ~srv.late
    /\ srv.conn \in [SrvConns -> [st : {"none", "alive", "freed"}, nrefs : 0..2,
                                  list : BOOLEAN, sock : BOOLEAN, tc : BOOLEAN, tmr : BOOLEAN,
                                  verify : BOOLEAN, held : BOOLEAN]]

(* A connection lives as long as it is on the list or kept by the user,    *)
(* and points to its socket only while that is alive.                      *)
Owned ==
    \A c \in SrvConns : LET w == srv.conn[c] IN
        /\ w.nrefs = (IF w.list THEN 1 ELSE 0) + (IF w.held THEN 1 ELSE 0)
        /\ Alive(srv, c) <=> w.nrefs > 0
        /\ w.list <=> w.sock
        /\ w.sock => srv.sock = "alive"

(* A connection on the list has its idle timer running, also after the     *)
(* user has closed it; one that is not on it has no timers.                *)
Pending == \A c \in SrvConns : LET w == srv.conn[c] IN
    /\ w.list <=> w.tmr
    /\ w.tc \/ w.verify => w.list

(* Every connection leaves the list. *)
Quiet == \A c \in SrvConns : ~srv.conn[c].list

Ends == []<>Quiet
=============================================================================
