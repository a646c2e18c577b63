----------------------------- MODULE SipTransp -----------------------------
(***************************************************************************)
(* The connections of the SIP transport layer to one peer,                 *)
(* src/sip/transp.c, with the messages queued on them and the keepalives   *)
(* that watch them, src/sip/keepalive.c.                                   *)
(*                                                                         *)
(* A connection is created by the peer or for a message when there is no   *)
(* other.  The table of connections holds one reference to it, and every   *)
(* message that was received over it another one.  A message is queued     *)
(* until the connection is established; the entry of a client transaction  *)
(* stays on the queue after that, so that the transaction learns of the    *)
(* end of the connection.                                                  *)
(***************************************************************************)
EXTENDS Integers, SequencesExt, TLC

CONSTANTS
    Conns,      \* connections, numbers in the order of their creation
    Reqs,       \* client transactions
    Kas,        \* keepalives
    HELD_MAX,   \* bound: messages of one connection that are held
    RX_MAX,     \* bound: receptions over one connection
    FlushHeld   \* the transports are flushed also when messages are held

VARIABLE sip    \* struct sip: ht_conn, the transactions and keepalives

(* A message that nobody waits for: qent->qentp is NULL. *)
Anon == "anon"

(* told: how often the handler of the user was called *)
NoUser == [st |-> "none", told |-> 0]

(* link: the tcp_conn, or the websock_conn, of the connection *)
NoConn == [st |-> "none", out |-> FALSE, table |-> FALSE, link |-> FALSE,
           established |-> FALSE, nrefs |-> 0, held |-> 0, tmr |-> "off",
           tmr_ka |-> FALSE, ql |-> <<>>, kal |-> {}, rx |-> 0,
           flushed |-> FALSE]

(* Kind is the transport of the peer: TCP (and TLS), or WebSockets. *)
Init == \E kind \in {"tcp", "ws"} :
    sip = [kind |-> kind, flushed |-> FALSE, conn |-> [c \in Conns |-> NoConn],
           req |-> [r \in Reqs |-> NoUser], ka |-> [k \in Kas |-> NoUser]]

-----------------------------------------------------------------------------
(* Users.  Ended(u) is a user that has no entry on a connection any more.  *)

Ended(u) == [u EXCEPT !.st = "free"]

Told(u) == [u EXCEPT !.st = "free", !.told = @ + 1]

Queue(s, c) == Reqs \cap ToSet(s.conn[c].ql)

(* The entries and the keepalives are freed and their pointers reset; no   *)
(* handler is called.                                                      *)
conn_destructor(s, c) ==
    [s EXCEPT !.conn[c] = [NoConn EXCEPT !.st = "freed", !.held = s.conn[c].held],
              !.req = [r \in Queue(s, c) |-> Ended(@[r])] @@ @,
              !.ka = [k \in s.conn[c].kal |-> Ended(@[k])] @@ @]

mem_deref(s, c) ==
    IF s.conn[c].nrefs > 1 THEN [s EXCEPT !.conn[c].nrefs = @ - 1]
                           ELSE conn_destructor(s, c)

(* sip_keepalive_signal() *)
Signalled(s, c) ==
    [s EXCEPT !.conn[c].kal = {},
              !.ka = [k \in s.conn[c].kal |-> Told(@[k])] @@ @]

(* A client transaction ends in its handler, and its entry with it. *)
conn_close(s, c) ==
    Signalled([s EXCEPT
        !.conn[c].link = FALSE, !.conn[c].table = FALSE, !.conn[c].tmr = "off",
        !.conn[c].tmr_ka = FALSE, !.conn[c].ql = <<>>,
        !.req = [r \in Queue(s, c) |-> Told(@[r])] @@ @], c)

(* The end of a connection in all its handlers *)
Closed(s, c) == mem_deref(conn_close(s, c), c)

-----------------------------------------------------------------------------
(* Sending *)

NewConn(s) == CHOOSE c \in Conns : /\ s.conn[c].st = "none"
                                   /\ \A d \in Conns : d < c => s.conn[d].st # "none"

HasNew(s) == \E c \in Conns : s.conn[c].st = "none"

Table(s) == {c \in Conns : s.conn[c].table}

(* The list of a bucket is in the order in which it was appended to. *)
conn_find(s) == CHOOSE c \in Table(s) : \A d \in Table(s) : c <= d

Enqueue(s, c, m) == [s EXCEPT !.conn[c].ql = Append(@, m)]

(* A connection in the table, with the timer that watches over it *)
Opened(s, out, tmr) ==
    [s EXCEPT !.conn[NewConn(s)] =
        [NoConn EXCEPT !.st = "open", !.out = out, !.table = TRUE, !.link = TRUE,
                       !.nrefs = 1, !.tmr = tmr]]

(* What becomes of a message: sent over an established connection, queued  *)
(* on one that is not, or on a new one; "none" is an error.                *)
Sending(s, m) ==
    {[s |-> s, st |-> "none"]} \cup
    IF Table(s) # {}
    THEN LET c == conn_find(s) IN
         IF s.conn[c].established THEN {[s |-> s, st |-> "free"]}
         ELSE {[s |-> Enqueue(s, c, m), st |-> "queued"]}
    ELSE IF HasNew(s)
         THEN {[s |-> Enqueue(Opened(s, TRUE, "idle"), NewConn(s), m), st |-> "queued"]}
         ELSE {}

(* sip_transp_send() of a client transaction, which ends with an error *)
conn_send(r) ==
    /\ sip.req[r].st = "none"
    /\ \E o \in Sending(sip, r) :
          sip' = [o.s EXCEPT !.req[r].st = IF o.st = "none" THEN "free" ELSE o.st]

(* sip_send() of an ACK *)
SendAnon ==
    /\ \A c \in Conns : Anon \notin ToSet(sip.conn[c].ql)
    /\ \E o \in Sending(sip, Anon) : sip' = o.s

(* The transaction gets a response or its timer expires: ct->qent is freed *)
qent_destructor(r) ==
    /\ sip.req[r].st = "queued"
    /\ sip' = [sip EXCEPT !.req[r] = Ended(@),
                          !.conn = [c \in Conns |-> [@[c] EXCEPT !.ql = Remove(@, r)]]]

-----------------------------------------------------------------------------
(* Handlers of a connection *)

Linked(c) == sip.conn[c].link

(* The queue is sent; the entries of transactions stay, but for those that *)
(* cannot be sent: their handler is called.                                *)
FlushQueue(s, c, failed) ==
    [s EXCEPT !.conn[c].ql = SelectSeq(@, LAMBDA m : m \in Reqs \ failed),
              !.req = [r \in failed |-> Told(@[r])] @@ @]

(* tcp_estab_handler(), or websock_estab_handler() of a connection that we *)
(* opened, which leaves the queue if the local address is not known.       *)
Established(c) ==
    /\ Linked(c) /\ ~sip.conn[c].established
    /\ sip.kind = "ws" => sip.conn[c].out
    /\ LET s == [sip EXCEPT !.conn[c].established = TRUE] IN
       \/ \E failed \in SUBSET Queue(s, c) : sip' = FlushQueue(s, c, failed)
       \/ sip.kind = "ws" /\ sip' = s

Idle(s, c) == [s EXCEPT !.conn[c].tmr = "idle"]

(* A message that a transaction or the application keeps *)
Held(s, c) == [s EXCEPT !.conn[c].held = @ + 1, !.conn[c].nrefs = @ + 1]

(* tcp_recv_handler(): a part of a message, CRLF, CRLFCRLF that is         *)
(* answered, a message, or an error.  websock_recv_handler(): a message or *)
(* what is none.                                                           *)
Received(c) ==
    /\ Linked(c) /\ sip.conn[c].rx < RX_MAX
    /\ sip.conn[c].established \/ (sip.kind = "ws" /\ ~sip.conn[c].out)
    /\ LET s == [sip EXCEPT !.conn[c].rx = @ + 1] IN
       \/ sip' = s
       \/ sip' = Idle(s, c)
       \/ sip.conn[c].held < HELD_MAX /\ sip' = Held(Idle(s, c), c)
       \/ sip.kind = "tcp" /\ sip' \in {Closed(s, c), Closed(Idle(s, c), c)}

(* tcp_close_handler() and websock_close_handler() *)
PeerCloses(c) == Linked(c) /\ sip' = Closed(sip, c)

(* tcp_connect_handler() and http_req_handler(), which starts no timer; on *)
(* errors the connection is freed at once.                                 *)
tcp_connect_handler ==
    /\ HasNew(sip)
    /\ sip' = Opened(sip, FALSE, IF sip.kind = "tcp" THEN "accept" ELSE "off")

conn_tmr_handler(c) == sip.conn[c].tmr # "off" /\ sip' = Closed(sip, c)

conn_keepalive_handler(c) ==
    /\ sip.conn[c].tmr_ka
    /\ sip' \in {Closed(sip, c), [sip EXCEPT !.conn[c].tmr = "keepalive"]}

-----------------------------------------------------------------------------
(* Keepalives and messages of the application *)

(* A keepalive is started with a message that was received over the        *)
(* connection; ENOTCONN when that is closed.                               *)
sip_keepalive_tcp(k, c) ==
    /\ sip.ka[k].st = "none" /\ sip.conn[c].held > 0 /\ sip.kind = "tcp"
    /\ Linked(c) /\ sip.conn[c].established
    /\ sip' = [sip EXCEPT !.ka[k].st = "queued", !.conn[c].tmr_ka = TRUE,
                          !.conn[c].kal = @ \cup {k}]

(* mem_deref() of a keepalive *)
DropKeepalive(k) ==
    /\ sip.ka[k].st = "queued"
    /\ sip' = [sip EXCEPT !.ka[k] = Ended(@),
                          !.conn = [c \in Conns |-> [@[c] EXCEPT !.kal = @ \ {k}]]]

(* mem_deref() of a message: of the connection that msg->sock is *)
Release(c) ==
    /\ sip.conn[c].held > 0
    /\ sip' = mem_deref([sip EXCEPT !.conn[c].held = @ - 1], c)

(* hash_flush(): the table gives up its reference of every connection.     *)
(* Bound: the transports are flushed once.                                 *)
sip_transp_flush ==
    /\ ~sip.flushed
    /\ FlushHeld \/ \A c \in Conns : sip.conn[c].held = 0
    /\ LET Flush(s, c) == mem_deref([s EXCEPT !.conn[c].table = FALSE,
                                                !.conn[c].flushed = TRUE], c)
       IN  sip' = [FoldSet(LAMBDA c, s : Flush(s, c), sip, Table(sip))
                     EXCEPT !.flushed = TRUE]

-----------------------------------------------------------------------------
ConnStep(c) ==
    \/ Established(c) \/ Received(c) \/ PeerCloses(c) \/ conn_tmr_handler(c)
    \/ conn_keepalive_handler(c) \/ Release(c)

Next ==
    \/ \E c \in Conns : ConnStep(c)
    \/ \E r \in Reqs : conn_send(r) \/ qent_destructor(r)
    \/ \E k \in Kas : DropKeepalive(k) \/ \E c \in Conns : sip_keepalive_tcp(k, c)
    \/ SendAnon \/ tcp_connect_handler \/ sip_transp_flush

(* Timers expire. *)
Fairness == \A c \in Conns : WF_sip(conn_tmr_handler(c))

Spec == Init /\ [][Next]_sip /\ Fairness

-----------------------------------------------------------------------------
(* The types; the handler of a transaction or keepalive is called once at  *)
(* most.                                                                   *)
TypeOK ==
    /\ sip.kind \in {"tcp", "ws"} /\ sip.flushed \in BOOLEAN
    /\ \A c \in Conns :
          /\ sip.conn[c].st \in {"none", "open", "freed"}
          /\ sip.conn[c].tmr \in {"off", "accept", "idle", "keepalive"}
          /\ sip.conn[c].nrefs \in 0..(HELD_MAX + 1)
          /\ sip.conn[c].ql \in Seq(Reqs \cup {Anon}) /\ sip.conn[c].kal \subseteq Kas
    /\ \A r \in Reqs : sip.req[r] \in [st : {"none", "queued", "free"}, told : 0..1]
    /\ \A k \in Kas : sip.ka[k] \in [st : {"none", "queued", "free"}, told : 0..1]

(* A connection lives as long as the table or a message refers to it, and  *)
(* no longer: its references are those of the table and of the messages.   *)
RefsBalanced ==
    \A c \in Conns :
        /\ sip.conn[c].nrefs = sip.conn[c].held + IF sip.conn[c].table THEN 1 ELSE 0
        /\ sip.conn[c].st = "open" <=> sip.conn[c].nrefs > 0

(* ct->qent and the pointer of a keepalive point to an entry of exactly    *)
(* one connection, which is open, or are reset.                            *)
PointerValid ==
    /\ \A r \in Reqs : LET On == {c \in Conns : r \in Queue(sip, c)} IN
          IF sip.req[r].st = "queued" THEN \E c \in Conns : On = {c} /\ Linked(c)
                                      ELSE On = {}
    /\ \A k \in Kas : LET On == {c \in Conns : k \in sip.conn[c].kal} IN
          IF sip.ka[k].st = "queued" THEN \E c \in Conns : On = {c} /\ Linked(c)
                                     ELSE On = {}

(* A connection in the table is open, and a timer will end it when the     *)
(* peer is silent; only a WebSocket that the peer opened has none until    *)
(* its first message.  One that keepalives watch sends them.               *)
Watched ==
    \A c \in Conns :
        /\ sip.conn[c].table <=> sip.conn[c].link
        /\ Linked(c) /\ sip.conn[c].tmr = "off"
             => sip.kind = "ws" /\ ~sip.conn[c].out
        /\ sip.conn[c].kal # {} => sip.conn[c].tmr_ka
        /\ sip.conn[c].tmr_ka => Linked(c)

(* A connection over TCP on which nothing is received any more is closed.  *)
Closes ==
    \A c \in Conns :
        []<>(sip.kind = "tcp" => ~Linked(c))

(* "Flush all transports": no connection that sip_transp_flush() found in  *)
(* the table stays open.                                                   *)
FlushCloses == \A c \in Conns : sip.conn[c].flushed => ~Linked(c)

=============================================================================
