-------------------------- MODULE SipKeepaliveUdp --------------------------
(***************************************************************************)
(* Keepalives of a flow over UDP, src/sip/keepalive_udp.c: one sip_udpconn *)
(* asks the peer for the mapped address by STUN, again and again, for all  *)
(* keepalives that watch the flow, and signals them when it changes.       *)
(***************************************************************************)
EXTENDS Integers, TLC

CONSTANTS
    Kas,        \* keepalives
    Addrs,      \* mapped addresses
    None,       \* no address yet
    UC_MAX      \* bound: how often a sip_udpconn is created

VARIABLE udp    \* the sip_udpconn in ht_udpconn, and the keepalives

(* ct: a STUN transaction is on its way *)
NoUc == [st |-> "none", kal |-> {}, tmr_ka |-> FALSE, ct |-> FALSE, maddr |-> None]

NoKa == [st |-> "none", told |-> 0]

Init == udp = [uc |-> NoUc, ucs |-> 0, ka |-> [k \in Kas |-> NoKa]]

(* udpconn_close() and mem_deref(): all keepalives are signalled, and the  *)
(* flow is freed.                                                          *)
udpconn_close(u) ==
    [u EXCEPT !.uc = NoUc,
              !.ka = [k \in u.uc.kal |->
                        [@[k] EXCEPT !.st = "closed", !.told = @ + 1]] @@ @]

(* The first keepalive of a flow creates it and asks at once. *)
sip_keepalive_udp(k) ==
    /\ udp.ka[k].st = "none"
    /\ LET on == [udp EXCEPT !.ka[k].st = "on", !.uc.kal = @ \cup {k}] IN
       \/ udp.uc.st = "alive" /\ udp' = on
       \/ /\ udp.uc.st = "none" /\ udp.ucs < UC_MAX
          /\ udp' = [on EXCEPT !.uc.st = "alive", !.uc.tmr_ka = TRUE, !.ucs = @ + 1]

(* mem_deref() of a keepalive by its user *)
Drop(k) ==
    /\ udp.ka[k].st = "on"
    /\ udp' = [udp EXCEPT !.ka[k].st = "free", !.uc.kal = @ \ {k}]

udpconn_keepalive_handler ==
    /\ udp.uc.tmr_ka
    /\ LET u == [udp EXCEPT !.uc.tmr_ka = FALSE] IN
       IF u.uc.kal = {} THEN udp' = udpconn_close(u)
       ELSE udp' \in {[u EXCEPT !.uc.ct = TRUE], udpconn_close(u)}

MutWaitAgain(u) == u

WaitAgain(u) == [u EXCEPT !.uc.tmr_ka = TRUE]

(* The mapped address is learnt, and from then on has to stay the same. *)
Mapped(u, a) ==
    IF u.uc.maddr = None THEN WaitAgain([u EXCEPT !.uc.maddr = a])
    ELSE IF u.uc.maddr = a THEN WaitAgain(u) ELSE udpconn_close(u)

(* An answer, or an error or timeout of the transaction *)
stun_response_handler ==
    /\ udp.uc.ct
    /\ LET u == [udp EXCEPT !.uc.ct = FALSE] IN
       udp' \in {udpconn_close(u)} \cup {Mapped(u, a) : a \in Addrs}

-----------------------------------------------------------------------------
Next ==
    \/ \E k \in Kas : sip_keepalive_udp(k) \/ Drop(k)
    \/ udpconn_keepalive_handler \/ stun_response_handler

(* Timers expire, and STUN transactions end. *)
Fairness == WF_udp(udpconn_keepalive_handler) /\ WF_udp(stun_response_handler)

Spec == Init /\ [][Next]_udp /\ Fairness

-----------------------------------------------------------------------------
(* The types; a keepalive is signalled at most once. *)
TypeOK ==
    /\ udp.uc \in [st : {"none", "alive"}, kal : SUBSET Kas, tmr_ka : BOOLEAN,
                   ct : BOOLEAN, maddr : Addrs \cup {None}]
    /\ udp.ucs \in 0..UC_MAX
    /\ udp.ka \in [Kas -> [st : {"none", "on", "free", "closed"}, told : 0..1]]

(* A keepalive is on the list of a flow until the user frees it or it is   *)
(* signalled, and a flow has either its timer running or a request on its  *)
(* way.                                                                    *)
Pending ==
    /\ \A k \in Kas : udp.ka[k].st = "closed" <=> udp.ka[k].told = 1
    /\ \A k \in Kas : udp.ka[k].st = "on" <=> k \in udp.uc.kal
    /\ udp.uc.st = "alive" <=> (udp.uc.tmr_ka # udp.uc.ct)

(* A flow that no keepalive watches is freed, or watched again. *)
Freed == []<>(udp.uc.st = "alive" => udp.uc.kal # {})

=============================================================================
