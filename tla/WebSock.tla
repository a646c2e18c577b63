------------------------------ MODULE WebSock ------------------------------
(***************************************************************************)
(* WebSocket connections, src/websock/websock.c.  A connection that its    *)
(* user releases while it is open says goodbye first: its destructor takes *)
(* a reference again, and the answer of the peer or a timer ends it.  All  *)
(* connections refer to one websock, which tells its user when the last of *)
(* them is gone.  A function that may fail, or that calls the user, is the *)
(* set of states that it may leave.  The user does not release the websock *)
(* in the shutdown handler: mem_deref() would go on with freed memory.     *)
(***************************************************************************)
EXTENDS Integers, FiniteSets, TLC

CONSTANT WsConns    \* connections

VARIABLE ws

(* has: the user refers to the connection; own: closeh and recvh are the   *)
(* internal ones; tc: the TCP connection; req: the HTTP request            *)
NoWsConn == [st |-> "none", state |-> "ACCEPTING", nrefs |-> 0, has |-> FALSE,
             own |-> FALSE, tc |-> FALSE, req |-> FALSE, tmr |-> "off", closed |-> 0]

(* shuts: calls of the shutdown handler; late: a handler went on with a    *)
(* connection that was freed                                               *)
Init == ws = [sock |-> [nrefs |-> 1, has |-> TRUE, shutdown |-> FALSE, shuts |-> 0],
              conn |-> [c \in WsConns |-> NoWsConn], late |-> FALSE]

Alive(s, c) == s.conn[c].st = "alive"
Open(s, c) == s.conn[c].state = "OPEN"

-----------------------------------------------------------------------------
(* mem_deref() of the websock, and its destructor: the first time, it      *)
(* returns to its user.                                                    *)
sock_destructor(s) ==
    IF s.sock.shutdown
    THEN [s EXCEPT !.sock = [nrefs |-> 1, has |-> TRUE, shutdown |-> FALSE,
                             shuts |-> s.sock.shuts + 1]]
    ELSE s

DerefSock(s) ==
    LET d == [s EXCEPT !.sock.nrefs = @ - 1] IN
    IF d.sock.nrefs > 0 THEN d ELSE sock_destructor(d)

(* A frame is sent, or not. *)
websock_close(s, c) ==
    IF Open(s, c) THEN {s, [s EXCEPT !.conn[c].state = "CLOSING"]} ELSE {s}

(* The second part of conn_destructor(): a connection that is closing      *)
(* lives on by itself, any other one is freed.                             *)
Goodbye(s, c) ==
    IF s.conn[c].state # "CLOSING" THEN DerefSock([s EXCEPT !.conn[c] = [NoWsConn EXCEPT
                                        !.st = "freed", !.closed = s.conn[c].closed]])
    ELSE [s EXCEPT !.conn[c].own = TRUE, !.conn[c].nrefs = 1, !.conn[c].tmr = "close"]

conn_destructor(s, c) == {Goodbye(t, c) : t \in websock_close(s, c)}

mem_deref(s, c) ==
    LET d == [s EXCEPT !.conn[c].nrefs = @ - 1] IN
    IF d.conn[c].nrefs > 0 THEN {d} ELSE conn_destructor(d, c)

(* The user releases the connection. *)
Released(s, c) ==
    IF s.conn[c].has THEN mem_deref([s EXCEPT !.conn[c].has = FALSE], c) ELSE {s}

(* closeh() is internal_close_handler(), or the one of the user, who may   *)
(* release the connection there.                                           *)
conn_close(s, c) ==
    LET t == [s EXCEPT !.conn[c].tmr = "off", !.conn[c].tc = FALSE,
                       !.conn[c].state = "CLOSED"]
        u == [t EXCEPT !.conn[c].closed = @ + 1]
    IN  IF t.conn[c].own THEN mem_deref(t, c) ELSE {u} \cup Released(u, c)

-----------------------------------------------------------------------------
(* The user *)

MayOpen(c) == ws.conn[c].st = "none" /\ ws.sock.has /\ ws.sock.shuts = 0

(* Keepalives are optional. *)
KaTimer == {"off", "ka"}

websock_connect(c) ==
    /\ MayOpen(c)
    /\ ws' = [ws EXCEPT !.sock.nrefs = @ + 1,
                        !.conn[c] = [NoWsConn EXCEPT !.st = "alive", !.nrefs = 1, !.has = TRUE,
                                        !.state = "CONNECTING", !.req = TRUE]]

websock_accept(c) ==
    /\ MayOpen(c)
    /\ \E t \in KaTimer :
        ws' = [ws EXCEPT !.sock.nrefs = @ + 1,
                         !.conn[c] = [NoWsConn EXCEPT !.st = "alive", !.nrefs = 1, !.has = TRUE,
                                         !.state = "OPEN", !.tc = TRUE, !.tmr = t]]

Close(c) == ws.conn[c].has /\ Open(ws, c) /\ ws' \in websock_close(ws, c)

Release(c) == ws.conn[c].has /\ ws' \in Released(ws, c)

websock_shutdown ==
    /\ ws.sock.has /\ ws.sock.shuts = 0
    /\ ws' = DerefSock([ws EXCEPT !.sock.shutdown = TRUE, !.sock.has = FALSE])

(* The user releases the websock after the shutdown handler was called.    *)
ReleaseSock ==
    /\ ws.sock.has /\ ws.sock.shuts = 1
    /\ ws' = DerefSock([ws EXCEPT !.sock.has = FALSE])

-----------------------------------------------------------------------------
(* The peer and the timers *)

(* The response to the handshake; http_conn_handler() has taken the TCP    *)
(* connection over.  The user may release the connection in estabh().      *)
http_resp_handler(c) ==
    /\ ws.conn[c].req
    /\ LET s == [ws EXCEPT !.conn[c].req = FALSE, !.conn[c].tc = TRUE] IN
       \/ ws' \in conn_close(s, c)
       \/ \E t \in KaTimer :
            LET o == [s EXCEPT !.conn[c].state = "OPEN", !.conn[c].tmr = t] IN
            ws' \in {o} \cup Released(o, c)

(* What the user may do in recvh(); the internal one does nothing. *)
recvh(s, c) ==
    IF s.conn[c].own THEN {s}
    ELSE {s} \cup websock_close(s, c) \cup Released(s, c)
             \cup UNION {Released(t, c) : t \in websock_close(s, c)}

MutEnforce(s, c) == websock_close(s, c)

(* "We enforce CLOSING state so we know the connection will continue to    *)
(* live."                                                                  *)
Enforce(s, c) == {[t EXCEPT !.conn[c].state = "CLOSING"] : t \in websock_close(s, c)}

Data(s, c) ==
    LET n(t) == t.conn[c].nrefs
        called == recvh([s EXCEPT !.conn[c].nrefs = @ + 1], c)
    IN  UNION {mem_deref(t, c) :
            t \in UNION {IF n(u) = 1 THEN Enforce(u, c) ELSE {u} : u \in called}}

(* The frames of one segment.  After a data frame or a ping the loop goes  *)
(* on; a frame of the peer that closes, or that is not allowed, ends it.   *)
Last(s, c) == UNION {conn_close(t, c) : t \in {s} \cup websock_close(s, c)}

Late(s, c) == IF Alive(s, c) THEN s ELSE [s EXCEPT !.late = TRUE]

recv_handler(c) ==
    /\ ws.conn[c].tc
    /\ LET first == {Late(s, c) : s \in Data(ws, c)} IN
       \/ ws' \in Last(ws, c)
       \/ ws' \in first
       \/ \E s \in first : Alive(s, c) /\ s.conn[c].tc /\ ws' \in Last(s, c)

close_handler(c) == ws.conn[c].tc /\ ws' \in conn_close(ws, c)

(* The timer of the keepalive is started again, a ping is sent. *)
timeout_handler(c) == ws.conn[c].tmr = "close" /\ ws' \in conn_close(ws, c)

-----------------------------------------------------------------------------
Next ==
    \/ \E c \in WsConns :
          \/ websock_connect(c) \/ websock_accept(c) \/ Close(c) \/ Release(c)
          \/ http_resp_handler(c) \/ recv_handler(c) \/ close_handler(c)
          \/ timeout_handler(c)
    \/ websock_shutdown \/ ReleaseSock

(* The timer expires. *)
Fair == \E c \in WsConns : timeout_handler(c)

Spec == Init /\ [][Next]_ws /\ WF_ws(Fair)

-----------------------------------------------------------------------------
(* The types; the close handler of the user is called once at most. *)
TypeOK ==
    /\ ws.sock \in [nrefs : 0..(Cardinality(WsConns) + 1), has : BOOLEAN,
                    shutdown : BOOLEAN, shuts : 0..1]
    /\ ws.conn \in [WsConns ->
          [st : {"none", "alive", "freed"}, nrefs : 0..1, has : BOOLEAN, own : BOOLEAN,
           state : {"ACCEPTING", "CONNECTING", "OPEN", "CLOSING", "CLOSED"},
           tc : BOOLEAN, req : BOOLEAN, tmr : {"off", "ka", "close"}, closed : 0..1]]
    /\ ~ws.late

(* A connection belongs to its user or to itself, and the websock to its   *)
(* user and the connections; the user is not called after the release, and *)
(* learns of the shutdown when there are no connections any more.          *)
Owned ==
    /\ \A c \in WsConns :
          /\ Alive(ws, c) <=> ws.conn[c].nrefs = 1
          /\ Alive(ws, c) <=> (ws.conn[c].has # ws.conn[c].own)
    /\ ws.sock.nrefs = Cardinality({c \in WsConns : Alive(ws, c)}) +
                       (IF ws.sock.has THEN 1 ELSE 0)
    /\ ws.sock.shuts = 1 => \A c \in WsConns : ~Alive(ws, c)

(* A connection that was released waits for its peer with the timer        *)
(* running; one whose TCP connection is gone has told its user.            *)
Pending ==
    \A c \in WsConns : LET w == ws.conn[c] IN
        /\ w.own => w.state = "CLOSING" /\ w.tc /\ w.tmr = "close"
        /\ w.state = "CLOSED" => w.closed = 1 /\ ~w.tc /\ w.tmr = "off"
        /\ w.state \in {"OPEN", "CLOSING"} => w.tc
        /\ w.state = "CONNECTING" <=> w.req

(* Connections that were released go, and the shutdown ends when all of    *)
(* them were released.                                                     *)
Quiet ==
    /\ \A c \in WsConns : ~ws.conn[c].own
    /\ ws.sock.shutdown => \E c \in WsConns : ws.conn[c].has

Ends == []<>Quiet
=============================================================================
