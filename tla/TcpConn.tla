------------------------------ MODULE TcpConn ------------------------------
(***************************************************************************)
(* TCP connections and listening sockets, src/tcp/tcp.c: who owns a file   *)
(* descriptor, when a connection is polled for writing, and the queue of   *)
(* data that the kernel did not take at once.                              *)
(*                                                                         *)
(* A byte is a pair of the number of its message and its place in it.      *)
(* wire is what the kernel took, stream what tcp_send() returned 0 for.    *)
(* Helpers (TLS, say) are modelled by what they do to the establishment of *)
(* the connection.  The listening descriptor itself is not in the model.   *)
(***************************************************************************)
EXTENDS Integers, FiniteSets, SequencesExt

CONSTANTS
    Fds,            \* file descriptors of connections, numbers
    Bad,            \* RE_BAD_SOCK
    TXQSZ_MAX,      \* tc->txqsz_max
    Sizes,          \* lengths of messages
    MSG_MAX         \* bound: messages sent over one connection

ASSUME TcpAssumption ==
    /\ Fds \subseteq Nat /\ Fds # {} /\ Bad \notin Fds
    /\ TXQSZ_MAX \in Nat /\ Sizes \subseteq Nat \ {0}

VARIABLE tcp    \* the kernel's open descriptors, two tcp_socks, a tcp_conn

Flags == {"read", "write", "except"}

(* lost: the connection was told to forget that it has to write, by the    *)
(* first FD_WRITE or by a tcp_set_send() that failed.                      *)
(* torn: a tcp_send() failed when a part of its message was on the wire.   *)
NoConn == [st |-> "none", fdc |-> Bad, poll |-> {}, active |-> FALSE,
           connected |-> FALSE, helper |-> FALSE, sendq |-> <<>>, txqsz |-> 0,
           sendh |-> FALSE, msgs |-> 0, stream |-> <<>>, wire |-> <<>>,
           estabs |-> 0, closes |-> 0, lost |-> FALSE, torn |-> FALSE]

NoSock == [st |-> "none", fdc |-> Bad]

Socks == {"ts", "dup"}

Init == tcp = [open |-> {}, tc |-> NoConn,
               sock |-> [s \in Socks |-> IF s = "ts" THEN [NoSock EXCEPT !.st = "alive"]
                                                     ELSE NoSock]]

-----------------------------------------------------------------------------
(* Descriptors.  The kernel hands out the lowest number that is free.      *)

NewFd(t) == CHOOSE f \in Fds \ t.open : \A g \in Fds \ t.open : f <= g

close(t, fd) == [t EXCEPT !.open = @ \ {fd}]

MutReject(t, s) == close(t, t.sock[s].fdc)

Reject(t, s) == [close(t, t.sock[s].fdc) EXCEPT !.sock[s].fdc = Bad]

conn_destructor(t) ==
    [close(t, t.tc.fdc) EXCEPT !.tc = [NoConn EXCEPT !.st = "freed"]]

conn_close(t) ==
    [close(t, t.tc.fdc) EXCEPT
        !.tc.sendq = <<>>, !.tc.txqsz = 0, !.tc.poll = {}, !.tc.fdc = Bad,
        !.tc.closes = @ + 1]

-----------------------------------------------------------------------------
(* Listening sockets *)

(* The connection that was not accepted by now is closed. *)
tcp_conn_handler ==
    /\ tcp.sock["ts"].st = "alive"
    /\ LET t == Reject(tcp, "ts") IN
       \/ tcp' = t
       \/ /\ t.open # Fds
          /\ tcp' = [t EXCEPT !.open = @ \cup {NewFd(t)},
                              !.sock["ts"].fdc = NewFd(t)]

tcp_reject(s) == tcp.sock[s].st = "alive" /\ tcp' = Reject(tcp, s)

tcp_sock_dup ==
    /\ tcp.sock["ts"].st = "alive" /\ tcp.sock["dup"].st = "none"
    /\ tcp' = [tcp EXCEPT !.sock["dup"] = tcp.sock["ts"],
                          !.sock["ts"].fdc = Bad]

sock_destructor(s) ==
    /\ tcp.sock[s].st = "alive"
    /\ tcp' = [close(tcp, tcp.sock[s].fdc) EXCEPT
                  !.sock[s] = IF s = "dup" THEN NoSock ELSE [NoSock EXCEPT !.st = "freed"]]

(* A new connection with all events polled *)
Polled(fd, active, helper) ==
    [NoConn EXCEPT !.st = "alive", !.fdc = fd, !.poll = Flags,
                   !.active = active, !.helper = helper]

(* One connection at a time *)
MayOpen == tcp.tc.st # "alive"

(* A connection that cannot be polled is destroyed with its descriptor. *)
tcp_accept(s, helper) ==
    /\ MayOpen /\ tcp.sock[s].st = "alive" /\ tcp.sock[s].fdc # Bad
    /\ LET fd == tcp.sock[s].fdc
           t == [tcp EXCEPT !.sock[s].fdc = Bad,
                            !.tc = Polled(fd, FALSE, helper)]
       IN  tcp' \in {t, conn_destructor(t)}

(* tcp_conn_alloc(), tcp_conn_bind() and tcp_conn_connect() *)
tcp_connect(helper) ==
    /\ MayOpen /\ tcp.open # Fds
    /\ tcp' = [tcp EXCEPT !.open = @ \cup {NewFd(tcp)},
                          !.tc = Polled(NewFd(tcp), TRUE, helper)]

-----------------------------------------------------------------------------
(* Sending *)

Room(c, m) == c.txqsz + Len(m) <= TXQSZ_MAX

(* The connection is polled for writing when the first entry is queued. *)
Armed(c) ==
    IF c.sendq = <<>> /\ ~c.sendh THEN [c EXCEPT !.poll = {"read", "write"}]
                                  ELSE c

Queued(c, m) == [Armed(c) EXCEPT !.sendq = Append(@, m), !.txqsz = @ + Len(m)]

Outcome(c, ok) == [tc |-> c, ok |-> ok]

(* enqueue() fails without room, when fd_listen() does, or for want of     *)
(* memory when the connection is polled already.                           *)
enqueue(c, m) ==
    {Outcome(c, FALSE)}
      \cup (IF Room(c, m) THEN {Outcome(Queued(c, m), TRUE), Outcome(Armed(c), FALSE)}
                          ELSE {})

Written(c, b) == [c EXCEPT !.wire = @ \o b]

(* send() takes all, a part, or nothing of the message, or fails. *)
Direct(c, m) ==
    {Outcome(Written(c, m), TRUE), Outcome(c, FALSE)} \cup enqueue(c, m)
      \cup UNION {enqueue(Written(c, SubSeq(m, 1, n)), SubSeq(m, n + 1, Len(m))) :
                    n \in 1..(Len(m) - 1)}

tcp_send_internal(c, m) == IF c.sendq # <<>> THEN enqueue(c, m) ELSE Direct(c, m)

(* The message with the next number and what becomes of it *)
SendOne(c, size) ==
    LET m == [i \in 1..size |-> <<c.msgs + 1, i>>] IN
    {[o.tc EXCEPT !.msgs = @ + 1,
                  !.stream = IF o.ok THEN @ \o m ELSE @,
                  !.torn = @ \/ (~o.ok /\ o.tc.wire # c.wire)] :
        o \in tcp_send_internal(c, m)}

Sends(c) ==
    IF c.msgs < MSG_MAX THEN UNION {SendOne(c, n) : n \in Sizes} ELSE {}

Usable == tcp.tc.st = "alive" /\ tcp.tc.fdc # Bad

tcp_send == Usable /\ \E c \in Sends(tcp.tc) : tcp' = [tcp EXCEPT !.tc = c]

(* tc->sendh is set even if the connection can then not be polled. *)
tcp_set_send(on) ==
    /\ Usable
    /\ LET c == [tcp.tc EXCEPT !.sendh = on] IN
       IF c.sendq # <<>> \/ ~on THEN tcp' = [tcp EXCEPT !.tc = c]
       ELSE \/ tcp' = [tcp EXCEPT !.tc = [c EXCEPT !.poll = {"read", "write"}]]
            \/ tcp' = [tcp EXCEPT !.tc = [c EXCEPT !.lost = @ \/ "write" \notin c.poll]]

(* mem_deref() of the connection by the application *)
Drop == tcp.tc.st = "alive" /\ tcp' = conn_destructor(tcp)

-----------------------------------------------------------------------------
(* Events.  The operators return the states that an event may lead to.     *)

(* n bytes of the first entry are written. *)
Taken(c, n) ==
    LET m == Head(c.sendq) IN
    [Written(c, SubSeq(m, 1, n)) EXCEPT
        !.txqsz = @ - n,
        !.sendq = IF n = Len(m) THEN Tail(@)
                  ELSE <<SubSeq(m, n + 1, Len(m))>> \o Tail(@)]

(* dequeue() of a connection with nothing queued: the send handler of the  *)
(* application may send, remove itself or release the connection.          *)
SendHandler(t) ==
    IF ~t.tc.sendh THEN {t}
    ELSE {t, [t EXCEPT !.tc.sendh = FALSE], conn_destructor(t)}
           \cup {[t EXCEPT !.tc = c] : c \in Sends(t.tc)}

(* dequeue() that writes *)
Writes(t) == {[t EXCEPT !.tc = Taken(@, n)] : n \in 1..Len(Head(t.tc.sendq))}

MutRelisten(t) ==
    {[t EXCEPT !.tc.poll = {"read"}], conn_close(t)}

(* With nothing left to write, only reading is polled. *)
Relisten(t) ==
    IF t.tc.sendq = <<>> /\ ~t.tc.sendh
    THEN {[t EXCEPT !.tc.poll = {"read"}], conn_close(t)}
    ELSE {t}

(* A connection that the send handler released is not touched again. *)
AfterDequeue(t) == IF t.tc.st = "alive" THEN Relisten(t) ELSE {t}

Writable(t) ==
    UNION {AfterDequeue(u) : u \in IF t.tc.sendq = <<>> THEN SendHandler(t) ELSE Writes(t)}

(* send() gives EAGAIN, or fails. *)
NotWritable(t) ==
    IF t.tc.sendq = <<>> THEN {} ELSE {t, conn_close(t)}

Estab(t) == [t EXCEPT !.tc.estabs = @ + 1]

(* The first FD_WRITE.  A helper takes over or fails, or the application   *)
(* is told.                                                                *)
Connected(t) ==
    LET u == [t EXCEPT !.tc.connected = TRUE, !.tc.poll = {"read"},
                       !.tc.lost = @ \/ t.tc.sendq # <<>> \/ t.tc.sendh]
    IN  {conn_close([t EXCEPT !.tc.connected = TRUE])}
          \cup (IF t.tc.helper THEN {u, conn_close(u)} ELSE {Estab(u)})

(* recv() fails, returns nothing, or data that a helper may take.  The     *)
(* helper that is done tells the application, which may release the        *)
(* connection.                                                             *)
Read(t) ==
    {t, conn_close(t)}
      \cup (IF t.tc.helper /\ t.tc.connected
            THEN {Estab([t EXCEPT !.tc.helper = FALSE]), conn_destructor(t)} ELSE {})

(* What follows FD_WRITE when FD_READ is signalled with it *)
ThenRead(t, flags) ==
    IF "read" \in flags /\ t.tc.st = "alive" /\ t.tc.fdc # Bad THEN Read(t) ELSE {t}

tcp_recv_handler(flags) ==
    /\ Usable /\ flags \subseteq tcp.tc.poll /\ flags # {}
    /\ \/ tcp.tc.active /\ ~tcp.tc.connected /\ tcp' = conn_close(tcp)
       \/ /\ "write" \in flags /\ tcp.tc.connected
          /\ \E t \in Writable(tcp) \cup NotWritable(tcp) : tcp' \in ThenRead(t, flags)
       \/ "write" \in flags /\ ~tcp.tc.connected /\ tcp' \in Connected(tcp)
       \/ "write" \notin flags /\ tcp' \in Read(tcp)

(* An event that lets the connection write *)
Progress ==
    Usable /\ tcp.tc.connected /\ "write" \in tcp.tc.poll /\ tcp' \in Writable(tcp)

-----------------------------------------------------------------------------
Next ==
    \/ tcp_conn_handler \/ tcp_sock_dup \/ tcp_send \/ Drop
    \/ \E s \in Socks : tcp_reject(s) \/ sock_destructor(s)
    \/ \E h \in BOOLEAN : tcp_connect(h) \/ tcp_set_send(h)
    \/ \E s \in Socks, h \in BOOLEAN : tcp_accept(s, h)
    \/ \E flags \in SUBSET Flags : tcp_recv_handler(flags)

(* The poll reports a descriptor as long as it is writable, and the peer   *)
(* reads what was sent.                                                    *)
Fairness == WF_tcp(Progress /\ tcp.tc.sendq # <<>>)

Spec == Init /\ [][Next]_tcp /\ Fairness

-----------------------------------------------------------------------------
(* The types; the established and the close handler are called at most     *)
(* once.                                                                   *)
TypeOK ==
    /\ tcp.open \subseteq Fds
    /\ \A s \in Socks : /\ tcp.sock[s].st \in {"none", "alive", "freed"}
                        /\ tcp.sock[s].fdc \in Fds \cup {Bad}
    /\ tcp.tc.st \in {"none", "alive", "freed"}
    /\ tcp.tc.fdc \in Fds \cup {Bad} /\ tcp.tc.poll \subseteq Flags
    /\ tcp.tc.estabs \in 0..1 /\ tcp.tc.closes \in 0..1

(* A descriptor that is open belongs to one object, which is alive, and    *)
(* an object has no descriptor that is closed; one that is polled is open. *)
FdOwned ==
    LET Owner(fd) == {s \in Socks : tcp.sock[s].fdc = fd}
                       \cup {c \in {"tc"} : tcp.tc.fdc = fd}
    IN  /\ \A fd \in Fds : Cardinality(Owner(fd)) = IF fd \in tcp.open THEN 1 ELSE 0
        /\ tcp.tc.fdc = Bad => tcp.tc.poll = {}
        /\ tcp.tc.st # "alive" => tcp.tc.fdc = Bad

(* The kernel was given, and the queue holds, the bytes that tcp_send()    *)
(* returned 0 for, in their order, until a message was torn; txqsz counts  *)
(* what is queued and keeps its limit.                                     *)
InOrder ==
    LET queued == FlattenSeq(tcp.tc.sendq) IN
    /\ Usable /\ ~tcp.tc.torn => tcp.tc.wire \o queued = tcp.tc.stream
    /\ tcp.tc.txqsz = Len(queued) /\ tcp.tc.txqsz <= TXQSZ_MAX

(* A connection that has something to write is polled for writing, and so  *)
(* is one that is not connected yet.                                       *)
WritePolled ==
    Usable /\ ~tcp.tc.lost
      /\ (tcp.tc.sendq # <<>> \/ tcp.tc.sendh \/ ~tcp.tc.connected)
    => "write" \in tcp.tc.poll

(* Data that was queued on an established connection leaves the queue.     *)
Drained ==
    []<>(tcp.tc.connected /\ ~tcp.tc.lost => tcp.tc.sendq = <<>>)

=============================================================================
