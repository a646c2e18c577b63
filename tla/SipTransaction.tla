--------------------------- MODULE SipTransaction ---------------------------
(***************************************************************************)
(* A SIP client transaction and the server transaction of its INVITE, with *)
(* a network between them that loses, duplicates and reorders messages.    *)
(* The time unit is T1: a message arrives within the time between two      *)
(* ticks (T1 is the estimate of the round-trip time) or not at all.  The   *)
(* server's user answers with a transaction, not statelessly.              *)
(***************************************************************************)
EXTENDS Integers, FiniteSets

CONSTANTS Reliable, T1, T2, T4, T64, COMPLETE_WAIT, MaxPass

VARIABLES
    ct, sent, finals,   \* the client
    st, passed,         \* the server
    requests,           \* messages on their way to the server
    responses,          \* messages on their way to the client
    decided,            \* history: final responses the server has sent
    result              \* history: the final response the client has got

client == <<ct, sent, finals, result>>
server == <<st, passed, decided>>
vars   == <<client, server, requests, responses>>

C == INSTANCE SipCtrans WITH net <- requests
S == INSTANCE SipStrans WITH net <- responses, Keys <- {"inv"},
                              MaxPass <- [inv |-> MaxPass]

Init ==
    /\ C!Init
    /\ S!Init
    /\ decided = {}
    /\ result = "none"

-----------------------------------------------------------------------------
ClientStep ==
    /\ C!Client
    /\ UNCHANGED <<server, responses, result>>

(* A step of the server that may send a final response for the first time *)
Decide ==
    decided' = decided \cup ({st'["inv"].mb} \cap S!Finals)

ServerStep ==
    /\ \/ S!Timeout("inv")
       \/ \E cls \in {"1xx"} \cup S!Finals : S!sip_strans_reply("inv", cls)
    /\ Decide
    /\ UNCHANGED <<client, requests>>

RecvInvite ==
    /\ C!Request("inv") \in requests
    /\ S!Retransmitted("inv") \/ S!Taken("inv")
    /\ Decide
    /\ UNCHANGED <<client, requests>>

RecvCancel ==
    /\ C!Request("can") \in requests
    /\ S!cancel_handler
    /\ UNCHANGED <<st, decided, client, requests>>

RecvAck ==
    /\ C!Ack \in requests
    /\ S!ack_handler("inv")
    /\ UNCHANGED <<decided, client, requests>>

RecvResponse ==
    \E t \in C!Trans, cls \in C!Classes :
      /\ S!Response(t, cls) \in responses
      /\ C!Receive(t, cls)
      /\ result' = IF t = "inv" /\ cls # "1xx" THEN cls ELSE result
      /\ UNCHANGED <<server, responses>>

(* What is still on its way is lost. *)
Tick ==
    /\ C!NothingDue /\ C!TickTimers
    /\ S!NothingDue /\ S!TickTimers
    /\ requests' = {} /\ responses' = {}
    /\ UNCHANGED <<sent, finals, passed, decided, result>>

Next ==
    \/ ClientStep
    \/ ServerStep
    \/ RecvInvite
    \/ RecvCancel
    \/ RecvAck
    \/ RecvResponse
    \/ Tick

Spec == Init /\ [][Next]_vars

-----------------------------------------------------------------------------
(* Properties *)

(* The server decides once, and the client is told that decision: the      *)
(* server transaction outlives every copy of the INVITE, so no copy that   *)
(* comes late is taken for a new call after the first was answered.        *)
OneDecision ==
    /\ Cardinality(decided) <= 1
    /\ result \in S!Finals => decided = {result}
    /\ decided # {} /\ st["inv"].state = "none" =>
         C!Request("inv") \notin requests

(* As long as the server retransmits its rejection the client transaction  *)
(* is there to acknowledge it again: COMPLETE_WAIT of the client is not    *)
(* shorter than 64*T1 of the server.                                       *)
AckKept ==
    /\ result = "3xx" /\ ct["inv"].state = "gone"
    => ~(st["inv"].state = "COMPLETED" /\ st["inv"].tmr > 0)

=============================================================================
