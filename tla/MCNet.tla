-------------------------------- MODULE MCNet --------------------------------
(***************************************************************************)
(* The clients that ask a server and wait for its answer.  In a behaviour  *)
(* one part moves: the DNS client ("dns"), STUN transactions and the       *)
(* keepalive ("stun"), or the TURN client ("turn").                        *)
(***************************************************************************)
EXTENDS StunClient

CONSTANTS Queries, Srvc, NTX_MAX, Perms, Chans, FAILC_MAX, CHAN_NUMB_MAX

VARIABLES part, dns, turn

Dns == INSTANCE DnsClient
Turn == INSTANCE TurnClient

MCInit ==
    /\ Init /\ Dns!Init /\ Turn!Init
    /\ part \in {"dns", "stun", "turn"}

MCNext ==
    /\ UNCHANGED part
    /\ \/ part = "stun" /\ Next /\ UNCHANGED <<dns, turn>>
       \/ part = "dns" /\ Dns!Next /\ UNCHANGED <<stun, turn>>
       \/ part = "turn" /\ Turn!Next /\ UNCHANGED <<stun, dns>>

(* A part that does not move stays in its initial state, in which nothing  *)
(* that has to be fair is enabled.                                         *)
MCSpec ==
    /\ MCInit /\ [][MCNext]_<<part, stun, dns, turn>>
    /\ Fairness /\ Dns!Fairness /\ Turn!Fairness

-----------------------------------------------------------------------------
(* The types of the three clients, with the bounds of their counters: a    *)
(* query is sent to every server NTX_MAX times at most, a STUN request rc  *)
(* times, a handler is called once.                                        *)
NetTypeOK == TypeOK /\ Dns!TypeOK /\ Turn!TypeOK

(* What a user has or knows is right: the pointer to a query or to a       *)
(* transaction is set as long as that lives, and only then; the mapped     *)
(* address that was reported last is the current one; a relay that was     *)
(* allocated is given back.                                                *)
NetSound == PointerValid /\ MappingTold /\ Dns!PointerValid /\ Turn!GivenBack

(* Nothing that is open is forgotten: a query, a transaction, a keepalive, *)
(* an allocation, a permission or a channel has a timer or a request on    *)
(* its way, and the timers of a transaction follow the schedule.           *)
NetPending == KeepaliveRuns /\ Schedule /\ Dns!Pending /\ Turn!Refreshed

(* Every query and transaction ends, and no server can keep the TURN       *)
(* client busy without a result.                                           *)
NetEnds == Ends /\ Dns!Answered /\ Turn!Settled

=============================================================================
