----------------------------- MODULE MCSipServer -----------------------------
(***************************************************************************)
(* The server side.  In a behaviour one part moves: server transactions    *)
(* with shortened timers for an INVITE that arrives by two ways ("merge"), *)
(* for an INVITE and another request over UDP ("udp") and over a reliable  *)
(* transport ("tcp"), or one INVITE between a client and a server with a   *)
(* lossy network between them ("call").                                    *)
(***************************************************************************)
EXTENDS SipStrans, FiniteSets

VARIABLES part, ct, sent, finals, cst, cpassed, requests, responses, decided,
          result

MCMerge == [inv |-> 2, inv2 |-> 2, non |-> 0]
MCOther == [inv |-> 1, inv2 |-> 0, non |-> 2]

Udp  == INSTANCE SipStrans WITH MaxPass <- MCOther
Tcp  == INSTANCE SipStrans WITH MaxPass <- MCOther, Reliable <- TRUE
Call == INSTANCE SipTransaction WITH
          st <- cst, passed <- cpassed, MaxPass <- 2,
          T2 <- 4, T4 <- 5, T64 <- 16, COMPLETE_WAIT <- 16

callvars == <<ct, sent, finals, cst, cpassed, requests, responses, decided,
              result>>

MCInit == Init /\ Call!Init /\ part \in {"merge", "udp", "tcp", "call"}

MCNext ==
    /\ UNCHANGED part
    /\ \/ part = "merge" /\ Next /\ UNCHANGED callvars
       \/ part = "udp" /\ Udp!Next /\ UNCHANGED callvars
       \/ part = "tcp" /\ Tcp!Next /\ UNCHANGED callvars
       \/ part = "call" /\ Call!Next /\ UNCHANGED svars

MCSpec == MCInit /\ [][MCNext]_<<part, svars, callvars>> /\ Fairness

-----------------------------------------------------------------------------
(* The server decides a call once and the client is told that decision: no *)
(* late copy of the INVITE is taken for a new call.                        *)
OneDecision == Call!OneDecision

(* As long as the server retransmits its rejection the client transaction  *)
(* is there to acknowledge it.                                             *)
AckKept == Call!AckKept

=============================================================================
