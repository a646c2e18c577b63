----------------------------- MODULE SipRequest -----------------------------
(***************************************************************************)
(* A stateful SIP request, src/sip/request.c: the lookup of the next hop   *)
(* with NAPTR, SRV, A and AAAA queries, the client transaction for each    *)
(* address in turn, cancellation and the release of the request by its     *)
(* user.                                                                   *)
(*                                                                         *)
(* Lists of DNS records are counted; of a client transaction only what     *)
(* SipCtrans shows is used: it answers with provisional responses and then *)
(* with one final result.                                                  *)
(***************************************************************************)
EXTENDS Integers

CONSTANTS
    MaxAddr,    \* bound: addresses of a host
    MaxSrv,     \* bound: SRV records of a service
    SrvTransports  \* supported transports that have an SRV name

VARIABLES
    req,        \* the request object
    user,       \* what the user of the request knows of it
    results,    \* history: final results that resph() was given
    late        \* history: sent after sip_request() had returned an error

vars == <<req, user, results, late>>

(* dnsq and dnsq2 name the query that runs; tps counts the transports      *)
(* that transp_next_srv() has left.                                        *)
None == [live |-> FALSE, reqp |-> FALSE, resph |-> FALSE, canceled |-> FALSE,
         provrecv |-> FALSE, ct |-> "none", dnsq |-> "none", dnsq2 |-> "none",
         addrl |-> 0, srvl |-> 0, tps |-> 0, tp_selected |-> FALSE]

Init ==
    /\ req = None
    /\ user = "idle"
    /\ results = 0
    /\ late = FALSE

-----------------------------------------------------------------------------
(* What a function may do: the request it leaves and its return value      *)
Ok(r)  == [r |-> r, err |-> FALSE]
Err(r) == [r |-> r, err |-> TRUE]

(* request(): a new branch and a client transaction *)
Request(r) == [r EXCEPT !.provrecv = FALSE, !.ct = "calling"]

(* addr_lookup(): a query for each address family of the transport *)
addr_lookup(r) ==
    {Ok([r EXCEPT !.dnsq = "A"]),
     Ok([r EXCEPT !.dnsq2 = "AAAA"]),
     Ok([r EXCEPT !.dnsq = "A", !.dnsq2 = "AAAA"]),
     Err(r),
     Err([r EXCEPT !.dnsq = "A"])}

(* srv_lookup() and the other uses of dnsc_query(&req->dnsq) *)
Query(r, type) == {Ok([r EXCEPT !.dnsq = type]), Err(r)}

(* request_next(): one address after the other, and when there are no more *)
(* the next SRV record, whose addresses came with it or are looked up.     *)
request_next(r) ==
    LET Left(a, s) == [r EXCEPT !.addrl = a, !.srvl = s]
        FromSrv == {Left(a, s) : a \in 0..(MaxAddr - 1), s \in 0..(r.srvl - 1)}
        FromAddr == {Left(a, r.srvl) : a \in 0..(r.addrl - 1)}
        LookedUp == {Left(0, s) : s \in 0..(r.srvl - 1)}
    IN  {Ok(Request(x)) : x \in FromAddr \cup FromSrv}
        \cup UNION {addr_lookup(x) : x \in LookedUp}
        \cup {Err(Left(0, 0))}

-----------------------------------------------------------------------------
(* terminate(), and mem_deref(req): with reqp cleared the request is freed *)
Terminate ==
    /\ req' = None
    /\ user' = IF user = "waiting" THEN "told" ELSE user
    /\ results' = IF req.resph THEN results + 1 ELSE results

MutFinish(o) ==
    /\ req' = o.r
    /\ UNCHANGED <<user, results>>

(* A handler ends with the outcome o of what it called. *)
Finish(o) ==
    \/ /\ ~o.err
       /\ req' = o.r
       /\ UNCHANGED <<user, results>>
    \/ /\ o.err
       /\ Terminate

(* sip_request_cancel(): before a provisional response the transaction is  *)
(* dropped, after it the CANCEL is sent or has been sent.                  *)
Canceled(r) ==
    IF r.canceled THEN r
    ELSE [r EXCEPT !.canceled = TRUE, !.ct = IF r.provrecv THEN @ ELSE "none"]

(* destructor(): while the user's pointer is linked the request lives on,  *)
(* canceled; otherwise it is freed.                                        *)
destructor(r) ==
    IF r.reqp
    THEN Canceled([r EXCEPT !.reqp = FALSE, !.resph = FALSE])
    ELSE None

-----------------------------------------------------------------------------
(* sip_request_alloc() and sip_request_send(): an address, a host with a   *)
(* port, a host and a transport, or a host alone.  An error dereferences   *)
(* the request, with reqp set.                                             *)
sip_request(reqp, selected) ==
    LET r == [None EXCEPT !.live = TRUE, !.reqp = reqp, !.resph = TRUE,
                          !.tp_selected = selected]
    IN
    /\ user = "idle"
    /\ \E o \in {Ok(Request(r)), Err(r)} \cup addr_lookup(r)
                \cup Query(r, IF selected THEN "SRV" ELSE "NAPTR") :
         IF o.err
         THEN req' = destructor(o.r) /\ user' = "failed"
         ELSE req' = o.r /\ user' = IF reqp THEN "waiting" ELSE "no pointer"
    /\ UNCHANGED <<results, late>>

(* A transaction is started after sip_request() has failed. *)
Track == late' = (late \/ (user = "failed" /\ req'.ct = "calling"))

(* naptr_handler(): a supported service, with SRV records or to be looked  *)
(* up; otherwise the first transport with an SRV name is tried.            *)
naptr_handler ==
    LET r == [req EXCEPT !.dnsq = "none"]
        found == [r EXCEPT !.tp_selected = TRUE]
    IN
    /\ req.dnsq = "NAPTR"
    /\ \/ \E n \in 1..MaxSrv :
            \E o \in request_next([found EXCEPT !.srvl = n]) : Finish(o)
       \/ \E o \in Query(found, "SRV") : Finish(o)
       \/ /\ SrvTransports > 0
          /\ \E o \in Query([r EXCEPT !.tps = SrvTransports - 1], "SRV") :
               Finish(o)
       \/ SrvTransports = 0 /\ Finish(Err(r))
    /\ Track

(* transp_next_srv() *)
MoreTransports(r) == r.tps > 0

(* srv_handler(): the records are used in turn; when there are none the    *)
(* next transport is tried, then the addresses of the host.                *)
srv_handler ==
    LET r == [req EXCEPT !.dnsq = "none"] IN
    /\ req.dnsq = "SRV"
    /\ \/ \E n \in 1..MaxSrv :
            \E o \in request_next([r EXCEPT !.srvl = n]) : Finish(o)
       \/ /\ ~r.tp_selected /\ MoreTransports(r)
          /\ \E o \in Query([r EXCEPT !.tps = @ - 1], "SRV") : Finish(o)
       \/ /\ r.tp_selected \/ ~MoreTransports(r)
          /\ \E o \in addr_lookup(r) : Finish(o)
    /\ Track

(* wait for other (A/AAAA) query to complete *)
AddrWait(r) == r.dnsq = "none" /\ r.dnsq2 = "none"

(* addr_handler(): the answer of the query that ended *)
addr_handler(q) ==
    LET type == IF q = "dnsq" THEN "A" ELSE "AAAA" IN
    /\ req[q] = type
    /\ \E n \in 0..MaxAddr :
         LET r == [req EXCEPT ![q] = "none",
                              !.addrl = IF @ + n <= MaxAddr THEN @ + n
                                        ELSE MaxAddr]
         IN \/ /\ ~AddrWait(r)
               /\ Finish(Ok(r))
            \/ /\ AddrWait(r)
               /\ r.addrl = 0 /\ r.srvl = 0
               /\ Finish(Err(r))
            \/ /\ AddrWait(r)
               /\ r.addrl > 0 \/ r.srvl > 0
               /\ \E o \in request_next(r) : Finish(o)
    /\ Track

-----------------------------------------------------------------------------
(* response_handler(), a provisional response: a CANCEL that waits for it  *)
(* is sent now.                                                            *)
Provisional ==
    /\ req.ct # "none"
    /\ req' = [req EXCEPT !.provrecv = TRUE, !.ct = "proceeding"]
    /\ UNCHANGED <<user, results, late>>

(* an error or 503, and another address to go to *)
MayRetry(r) == ~r.canceled /\ (r.addrl > 0 \/ r.srvl > 0)

(* response_handler(), the final result; retry is for an error or 503 *)
Final(retry) ==
    LET r == [req EXCEPT !.ct = "none"] IN
    /\ req.ct # "none"
    /\ \/ /\ retry /\ MayRetry(r)
          /\ \E o \in request_next(r) : Finish(o)
       \/ /\ ~(retry /\ MayRetry(r))
          /\ Terminate
    /\ Track

-----------------------------------------------------------------------------
(* sip_request_cancel() by the user, as sipsess does before it drops the   *)
(* request                                                                 *)
sip_request_cancel ==
    /\ user = "waiting"
    /\ ~req.canceled
    /\ req' = Canceled(req)
    /\ UNCHANGED <<user, results, late>>

(* mem_deref(req) by the user *)
Deref ==
    /\ user = "waiting"
    /\ req' = destructor(req)
    /\ user' = "dropped"
    /\ UNCHANGED <<results, late>>

(* sip_close(): close_handler() for every request *)
sip_request_close ==
    /\ req.live
    /\ Terminate
    /\ UNCHANGED late

Lookup == \/ naptr_handler
          \/ srv_handler
          \/ addr_handler("dnsq")
          \/ addr_handler("dnsq2")

Next ==
    \/ \E p, s \in BOOLEAN : sip_request(p, s)
    \/ Lookup
    \/ Provisional
    \/ \E retry \in BOOLEAN : Final(retry)
    \/ sip_request_cancel
    \/ Deref
    \/ sip_request_close

(* DNS queries end, by their own timeout at the latest, and so does a      *)
(* client transaction that has not got a provisional response (Ends of     *)
(* SipCtrans).                                                             *)
Fairness ==
    /\ WF_vars(Lookup)
    /\ WF_vars(req.ct = "calling" /\
               (Provisional \/ \E retry \in BOOLEAN : Final(retry)))

Spec == Init /\ [][Next]_vars

FairSpec == Spec /\ Fairness

-----------------------------------------------------------------------------
(* Properties *)

TypeOK ==
    /\ req \in [live : BOOLEAN, reqp : BOOLEAN, resph : BOOLEAN,
                canceled : BOOLEAN, provrecv : BOOLEAN,
                ct : {"none", "calling", "proceeding"},
                dnsq : {"none", "NAPTR", "SRV", "A"},
                dnsq2 : {"none", "AAAA"},
                addrl : 0..MaxAddr, srvl : 0..MaxSrv,
                tps : 0..SrvTransports, tp_selected : BOOLEAN]
    /\ user \in {"idle", "failed", "waiting", "no pointer", "told", "dropped"}
    /\ results \in 0..1
    /\ late \in BOOLEAN

(* The pointer of the user is set while the request lives, so it is never  *)
(* stale, and the result comes once: not before the pointer is cleared,    *)
(* and never after the user has dropped the request.                       *)
PointerValid ==
    /\ user = "waiting" => req.live /\ req.reqp /\ req.resph /\ results = 0
    /\ user \in {"dropped", "failed"} => results = 0

(* A request that lives waits for something, a query or a transaction, so  *)
(* that it ends some day.  The exception is a request that was canceled    *)
(* before a provisional response: it stays until sip_close().              *)
NoneParked ==
    req.live => \/ req.dnsq # "none" \/ req.dnsq2 # "none"
                \/ req.ct # "none"
                \/ req.canceled /\ ~req.provrecv

(* Addresses are tried one at a time: no transaction runs while a query    *)
(* for the addresses of the same host runs.                                *)
OneAtATime == req.ct # "none" => req.dnsq = "none" /\ req.dnsq2 = "none"

(* A canceled request is not sent to another address when its transaction  *)
(* fails or is answered with 503.                                          *)
NoRetryWhenCanceled ==
    [][req.canceled /\ req.ct # "none" => req'.ct \in {req.ct, "proceeding",
                                                       "none"}
                                          /\ req'.dnsq = "none"
                                          /\ req'.dnsq2 = "none"]_vars

(* sip_request() returns "0 if success, otherwise errorcode": a request    *)
(* that could not be made is not sent later.                               *)
FailedNotSent == ~late

(* Unless it is canceled, a request ends with a result for its user or     *)
(* with a provisional response.                                            *)
Answered ==
    user = "waiting" ~> user # "waiting" \/ req.canceled \/ req.provrecv

=============================================================================
