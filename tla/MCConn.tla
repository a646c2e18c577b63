------------------------------- MODULE MCConn -------------------------------
(***************************************************************************)
(* Connections and flows.  In a behaviour one part moves: TCP sockets and  *)
(* a connection ("tcp"), the connections of the SIP transport ("sip"), the *)
(* keepalives of a flow over UDP ("udp"), an HTTP client ("http") and      *)
(* server ("srv"), or WebSocket connections ("ws").                        *)
(***************************************************************************)
EXTENDS TcpConn

CONSTANTS Conns, Reqs, Kas, SipKas, HELD_MAX, RX_MAX, FlushHeld, Addrs, None, UC_MAX,
          HttpReqs, DataReqs, HttpConns, SRV_MAX, PARTS, MAX_RETRIES, SrvConns, PIPE_MAX,
          WsConns

VARIABLES part, sip, udp, http, srv, ws

Sip == INSTANCE SipTransp WITH Kas <- SipKas
Udp == INSTANCE SipKeepaliveUdp
Http == INSTANCE HttpClient
Srv == INSTANCE HttpServer
Ws == INSTANCE WebSock

MCInit ==
    /\ Init /\ Sip!Init /\ Udp!Init /\ Http!Init /\ Srv!Init /\ Ws!Init
    /\ part \in {"tcp", "sip", "udp", "http", "srv", "ws"}
    /\ part # "sip" => sip.kind = "tcp"

MCNext ==
    /\ UNCHANGED part
    /\ \/ part = "tcp" /\ Next /\ UNCHANGED <<sip, udp, http, srv, ws>>
       \/ part = "sip" /\ Sip!Next /\ UNCHANGED <<tcp, udp, http, srv, ws>>
       \/ part = "udp" /\ Udp!Next /\ UNCHANGED <<tcp, sip, http, srv, ws>>
       \/ part = "http" /\ Http!Next /\ UNCHANGED <<tcp, sip, udp, srv, ws>>
       \/ part = "srv" /\ Srv!Next /\ UNCHANGED <<tcp, sip, udp, http, ws>>
       \/ part = "ws" /\ Ws!Next /\ UNCHANGED <<tcp, sip, udp, http, srv>>

WebFair ==
    \/ Srv!Fair /\ UNCHANGED ws
    \/ Ws!Fair /\ UNCHANGED srv

(* A part that does not move stays in its initial state, in which nothing  *)
(* that has to be fair is enabled.                                         *)
MCSpec ==
    /\ MCInit /\ [][MCNext]_<<part, tcp, sip, udp, http, srv, ws>>
    /\ Fairness /\ Sip!Fairness /\ Udp!Fairness
    /\ WF_<<srv, ws>>(WebFair)

-----------------------------------------------------------------------------
(* The types; handlers of the end of a connection, a request or a flow are *)
(* called once at most, and no handler goes on with what was freed.        *)
ConnTypeOK ==
    TypeOK /\ Sip!TypeOK /\ Udp!TypeOK /\ Http!TypeOK /\ Srv!TypeOK /\ Ws!TypeOK

(* Every descriptor, connection and request belongs to those who refer to  *)
(* it: it is closed once, when the last of them goes, no pointer outlives  *)
(* what it points to, and who waits for an end is told of it.              *)
ConnOwned ==
    FdOwned /\ Sip!RefsBalanced /\ Sip!PointerValid /\ Http!Owned /\ Srv!Owned /\ Ws!Owned

(* Nothing that waits is forgotten: queued data is in order and polled for *)
(* writing, connections have a timer, keepalives are checked and signalled *)
(* with the end of what they watch.                                        *)
ConnPending ==
    /\ InOrder /\ WritePolled /\ Sip!Watched /\ Udp!Pending
    /\ Http!Pending /\ Srv!Pending /\ Ws!Pending

(* Queued data leaves the queue, a silent connection is closed, a flow     *)
(* that nobody watches is freed, HTTP connections of a server end, and a   *)
(* shutdown too.                                                           *)
ConnEnds ==
    Drained /\ Sip!Closes /\ Udp!Freed /\ []<>(Srv!Quiet /\ Ws!Quiet)

=============================================================================
