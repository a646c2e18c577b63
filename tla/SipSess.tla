------------------------------ MODULE SipSess ------------------------------
(***************************************************************************)
(* A SIP session, src/sipsess: how an INVITE session is set up, modified,  *)
(* and torn down by the application, the peer, timeouts and errors, and    *)
(* how long the session object lives.                                      *)
(*                                                                         *)
(* The object is reference counted: the application holds one reference;   *)
(* termwait() takes one for a request, one for the replies and one for the *)
(* in-dialog requests that are still to be waited for, terminate() takes   *)
(* one for the BYE.  A session whose last reference goes away may take new *)
(* ones in its destructor and lives on.                                    *)
(*                                                                         *)
(* Functions of the code that may fail or call the application are sets of *)
(* the sessions they may leave.  The application does not release the      *)
(* session from a handler other than closeh() and does not use             *)
(* sipsess_abort().                                                        *)
(***************************************************************************)
EXTENDS Integers, Sequences, SequencesExt

CONSTANTS
    MaxSeq,         \* bound: CSeq of the last INVITE of the peer
    Requests,       \* in-dialog requests used; at most one of each is open
    LateProgress    \* provisional responses may come after the hang up

ASSUME SessAssumption ==
    /\ MaxSeq \in Nat \ {0}
    /\ Requests \subseteq {"PRACK", "UPDATE", "INFO"}
    /\ LateProgress \in BOOLEAN

VARIABLE sess

vars == <<sess>>

NegStates == {"NONE", "LOCAL_OFFER", "REMOTE_OFFER", "PREVIEW_ANSWER", "DONE"}

None == [k \in Requests |-> "none"]

(* struct sipsess; req names the request that sess->req points to, early   *)
(* that it has got a provisional response.  The last fields are not in the *)
(* code: app, the reference of the application; closed, calls of closeh(); *)
(* finals, the final responses to the first INVITE; bye, what became of    *)
(* the BYE; lost, a request or response that could not be sent; dropped,   *)
(* the one reference that waits for the replies was dropped by the timeout *)
(* of one of several; fault, a reference to a freed session was used.      *)
NoSess ==
    [alive |-> FALSE, owner |-> FALSE, nrefs |-> 0, terminated |-> 0,
     established |-> FALSE, peerterm |-> FALSE, dlg |-> FALSE, st |-> FALSE,
     rseq |-> 0, req |-> "none", early |-> FALSE, offer |-> FALSE,
     neg |-> "NONE", desc |-> FALSE, modify_pending |-> FALSE, tmr |-> FALSE,
     rel100 |-> FALSE, rel_seq |-> FALSE, prack_waiting |-> 0,
     replyl |-> <<>>, requestl |-> None,
     app |-> FALSE, closed |-> 0, finals |-> <<>>, bye |-> "no",
     lost |-> FALSE, dropped |-> FALSE, fault |-> FALSE]

Init == sess = NoSess

-----------------------------------------------------------------------------
(* Requests and replies *)

Idle(s) == s.requestl = None

Ok(s)  == [s |-> s, err |-> FALSE]
Err(s) == [s |-> s, err |-> TRUE]

(* sip_drequestf(&sess->req, ...) *)
Drequest(s, met) ==
    {Ok([s EXCEPT !.req = met, !.early = FALSE]), Err([s EXCEPT !.lost = TRUE])}

Map(outcomes, Then(_)) == UNION {Then(o) : o \in outcomes}

sipsess_bye(s) ==
    IF s.req # "none" THEN {Err(s)}
    ELSE {[o EXCEPT !.s.bye = IF o.err THEN "failed" ELSE "sent"] :
              o \in Drequest(s, "BYE")}

MutFinalReply(s, class) ==
    IF s.st THEN [s EXCEPT !.finals = Append(@, class)] ELSE s

(* The final response that sip_treply(&sess->st, ...) sends *)
FinalReply(s, class) ==
    IF s.st THEN [s EXCEPT !.st = FALSE, !.finals = Append(@, class)] ELSE s

-----------------------------------------------------------------------------
(* The end of a session *)

MutWaits(s) ==
    IF s.early \/ s.replyl # <<>> \/ ~Idle(s) THEN 1 ELSE 0

(* What termwait() waits for: a request that can only be canceled, replies *)
(* without an ACK or PRACK, and requests without a response.               *)
Waits(s) ==
      (IF s.early THEN 1 ELSE 0)
    + (IF s.replyl # <<>> THEN 1 ELSE 0)
    + (IF ~Idle(s) THEN 1 ELSE 0)

(* An open INVITE is answered with 486, sess->req is canceled. *)
termwait(s) ==
    [FinalReply(s, "fail") EXCEPT
        !.terminated = 1, !.tmr = FALSE,
        !.req = IF s.early THEN @ ELSE "none",
        !.nrefs = @ + Waits(s)]

NeedsBye(s) == s.established /\ ~s.peerterm

terminate(s) ==
    LET t == [s EXCEPT !.terminated = 2] IN
    IF ~NeedsBye(s) THEN {t}
    ELSE {IF o.err THEN o.s ELSE [o.s EXCEPT !.nrefs = @ + 1] :
              o \in sipsess_bye(t)}

(* The rest of destructor(): a request that is flushed here dereferences   *)
(* the session again.                                                      *)
Free(s) ==
    [s EXCEPT !.alive = FALSE, !.replyl = <<>>, !.requestl = None,
              !.req = "none", !.early = FALSE, !.st = FALSE, !.tmr = FALSE,
              !.desc = FALSE, !.fault = @ \/ ~Idle(s)]

destructor(s) ==
    LET waited == IF s.terminated = 0 THEN termwait(s) ELSE s
        Ended(t) == IF t.nrefs > 0 THEN {t} ELSE {Free(t)}
    IN  IF waited.nrefs > 0 THEN {waited}
        ELSE IF waited.terminated = 1
             THEN UNION {Ended(t) : t \in terminate(waited)}
             ELSE {Free(waited)}

(* mem_deref(sess) *)
Deref(s) ==
    IF ~s.alive THEN {[s EXCEPT !.fault = TRUE]}
    ELSE IF s.nrefs > 1 THEN {[s EXCEPT !.nrefs = @ - 1]}
    ELSE destructor([s EXCEPT !.nrefs = 0])

Release(s) == Deref([s EXCEPT !.app = FALSE])

Closes(s) == s.terminated = 0

(* sipsess_terminate(): closeh() is called last; the application may       *)
(* release the session in it.                                              *)
sipsess_terminate(s) ==
    IF ~Closes(s) THEN {s}
    ELSE LET w == termwait(s)
             Told(t) == [t EXCEPT !.closed = @ + 1]
         IN UNION {{Told(t)} \cup (IF t.app THEN Release(Told(t)) ELSE {}) :
                     t \in IF w.nrefs > s.nrefs THEN {w} ELSE terminate(w)}

(* Where the response handlers end *)
Out(s) == IF s.terminated = 0 THEN sipsess_terminate(s) ELSE Deref(s)

(* An error of answerh() and offerh(); after termwait() they are internal  *)
(* handlers, which always fail.                                            *)
HandlerErr(s) == IF s.terminated = 0 THEN BOOLEAN ELSE {TRUE}

-----------------------------------------------------------------------------
(* src/sipsess/reply.c *)

(* sipsess_reply_2xx() to an INVITE; sdp: the INVITE has an offer *)
reply_invite(s, seq, sdp, desc) ==
    LET d == desc /\ s.neg # "DONE"
        t == IF seq = 1 THEN FinalReply(s, "2xx") ELSE s
    IN  IF (s.neg = "NONE" /\ ~desc) \/ s.prack_waiting > 0 THEN {Err(s)}
        ELSE {Ok([t EXCEPT !.replyl = Append(@, [seq |-> seq, rel |-> FALSE]),
                           !.neg = IF ~d THEN @
                                   ELSE IF sdp THEN "DONE" ELSE "LOCAL_OFFER"]),
              Err([s EXCEPT !.st = FALSE, !.lost = TRUE])}

(* sipsess_reply_2xx() to PRACK and UPDATE *)
reply_non_invite(s, sdp, desc) ==
    {[s EXCEPT !.neg = IF sdp /\ desc /\ @ = "REMOTE_OFFER" THEN "DONE" ELSE @],
     [s EXCEPT !.lost = TRUE]}

(* no second reliable response while the first is not acknowledged *)
Reliable(s) == s.prack_waiting = 0

(* sipsess_reply_1xx(); reliably: both sides want 100rel *)
reply_1xx(s, sdp, reliably, desc) ==
    LET d == desc /\ s.neg \in {"NONE", "REMOTE_OFFER", "PREVIEW_ANSWER"}
        rel == [s EXCEPT
                  !.replyl = Append(@, [seq |-> 1, rel |-> TRUE]),
                  !.prack_waiting = @ + 1,
                  !.neg = IF ~d THEN @
                          ELSE IF sdp THEN "DONE" ELSE "LOCAL_OFFER"]
        unrel == [s EXCEPT !.neg = IF d /\ @ = "REMOTE_OFFER"
                                   THEN "PREVIEW_ANSWER" ELSE @]
        failed == Err([s EXCEPT !.st = FALSE, !.lost = TRUE])
    IN  IF ~reliably THEN {Ok(unrel), failed}
        ELSE IF ~Reliable(s) \/ (s.neg = "NONE" /\ ~desc) THEN {Err(s)}
        ELSE {Ok(rel), failed}

(* 100rel is required by one side and not supported by the other: 421, 420 *)
reply_extension(s) == {Err(FinalReply(s, "fail"))}

(* we want to send bye *)
TimedOut(s) == [s EXCEPT !.established = TRUE]

(* sip_reply() without a transaction: that of the INVITE, and the count of *)
(* the PRACKs to wait for, are left as they are.                           *)
NoPrack(s) ==
    {[s EXCEPT !.finals = Append(@, "504")], [s EXCEPT !.lost = TRUE]}

(* tmr_handler() of a reply, after 64 * T1; in a session that has ended    *)
(* each reply drops a reference                                            *)
reply_timeout(i) ==
    LET r == sess.replyl[i]
        s == [sess EXCEPT !.replyl = RemoveAt(@, i)]
    IN
    /\ i \in 1..Len(sess.replyl)
    /\ \/ /\ sess.terminated = 0 /\ r.rel /\ ~sess.established
          /\ sess' \in NoPrack(s)
       \/ /\ sess.terminated = 0 /\ (~r.rel \/ sess.established)
          /\ sess' \in sipsess_terminate(TimedOut(s))
       \/ /\ sess.terminated # 0
          /\ sess' \in Deref([s EXCEPT !.dropped = @ \/ s.replyl # <<>>])

-----------------------------------------------------------------------------
(* src/sipsess/connect.c, accept.c: calls of the application *)

(* invite(): send_handler() gets the offer from desch() *)
invite(s) ==
    {IF o.err \/ ~o.s.offer THEN o ELSE [o EXCEPT !.s.neg = "LOCAL_OFFER"] :
        o \in Drequest([s EXCEPT !.modify_pending = FALSE], "INVITE")}

(* A new session: on an error it is dereferenced and not handed out. *)
Created(outcomes) ==
    Map(outcomes, LAMBDA o : IF o.err THEN Deref(o.s)
                             ELSE {[o.s EXCEPT !.app = TRUE]})

sipsess_connect(offer, rel100) ==
    LET s == [NoSess EXCEPT !.alive = TRUE, !.owner = TRUE, !.nrefs = 1,
                            !.offer = offer, !.rel100 = rel100]
    IN  /\ sess = NoSess
        /\ sess' \in Created(invite(s))

sipsess_accept(offer, reliably, desc) ==
    LET s == [NoSess EXCEPT !.alive = TRUE, !.nrefs = 1, !.dlg = TRUE,
                            !.st = TRUE, !.rseq = 1, !.offer = offer,
                            !.neg = IF offer THEN "REMOTE_OFFER" ELSE "NONE"]
    IN  /\ sess = NoSess
        /\ sess' \in Created(reply_1xx(s, offer, reliably, desc)
                             \cup reply_invite(s, 1, offer, desc)
                             \cup reply_extension(s))

(* What the application may do with a session it holds *)
Held == sess.alive /\ sess.app

sipsess_progress(reliably, desc) ==
    /\ Held /\ sess.st
    /\ \E o \in reply_1xx(sess, sess.offer, reliably, desc) : sess' = o.s

sipsess_answer(desc) ==
    /\ Held /\ sess.st
    /\ \E o \in reply_invite(sess, 1, sess.offer, desc) : sess' = o.s

sipsess_reject ==
    /\ Held /\ sess.st
    /\ sess' = FinalReply(sess, "fail")

Hangup ==
    /\ Held
    /\ sess' \in Release(sess)

-----------------------------------------------------------------------------
(* src/sipsess/request.c: PRACK, UPDATE and INFO *)

(* sipsess_request_alloc() and the request itself *)
request(s, met) ==
    {Ok([s EXCEPT !.requestl[met] = "sent"]), Err([s EXCEPT !.lost = TRUE])}

(* wait for pending requests *)
LastRequest(s) == s.terminated > 0 /\ Idle(s)

(* mem_deref() of a request *)
request_done(s, met) ==
    LET t == [s EXCEPT !.requestl[met] = "none"] IN
    IF LastRequest(t) THEN Deref(t) ELSE {t}

sipsess_prack(s) ==
    IF s.terminated > 0 THEN {Err(s)} ELSE request(s, "PRACK")

Offered(s) == [s EXCEPT !.neg = IF s.desc THEN "LOCAL_OFFER" ELSE @]

update_request(s) ==
    {IF o.err THEN o ELSE Ok(Offered(o.s)) : o \in request(s, "UPDATE")}

sipsess_update(s) ==
    IF ~s.desc THEN {s}
    ELSE {IF o.err THEN o.s ELSE [o.s EXCEPT !.modify_pending = FALSE] :
              o \in update_request(s)}

sipsess_info ==
    /\ "INFO" \in Requests /\ sess.requestl["INFO"] = "none"
    /\ Held /\ sess.terminated = 0 /\ sess.dlg
    /\ \E o \in request(sess, "INFO") : sess' = o.s

(* A request that is to be sent again: at once with credentials, or when   *)
(* a timer of 491 or Retry-After expires                                   *)
Again(s, met) ==
    Map(IF met = "UPDATE" THEN update_request(s) ELSE request(s, met),
        LAMBDA o : IF o.err THEN request_done(o.s, met) ELSE {o.s})

Open(met) == met \in Requests /\ sess.requestl[met] = "sent"

(* A response handler is done with the request, or sends it again with     *)
(* credentials; s is the session it has changed.                           *)
Done(s, met) == sess' \in request_done(s, met)

Challenged(s, met) == s.terminated = 0 /\ sess' \in Again(s, met)

(* The end of the request ends the session. *)
Ends(s, met) ==
    /\ s.terminated = 0
    /\ sess' \in Map(sipsess_terminate(s), LAMBDA t : request_done(t, met))

Answered(s) == [s EXCEPT !.neg = IF @ = "LOCAL_OFFER" THEN "DONE" ELSE @]

(* Its retry timer is not modelled: the handler gets the wrong argument. *)
prack_resp_handler ==
    /\ Open("PRACK")
    /\ \/ Done(sess, "PRACK")
       \/ Done([Answered(sess) EXCEPT !.desc = FALSE], "PRACK")
       \/ Challenged(sess, "PRACK")
       \/ Ends(sess, "PRACK")                       \* a timeout

update_resp_handler ==
    LET s == [sess EXCEPT !.neg = "DONE"] IN
    /\ Open("UPDATE")
    /\ \/ Done(sess, "UPDATE")                      \* an error, a loop
       \/ Done(Answered(sess), "UPDATE")            \* 2xx
       \/ sess.terminated = 0 /\ Done(s, "UPDATE")
       \/ Challenged(s, "UPDATE")
       \/ Ends(s, "UPDATE") \/ Ends(sess, "UPDATE")  \* 408, 481, a timeout
       \/ /\ sess.terminated = 0                    \* 491, 500
          /\ sess' = [s EXCEPT !.requestl["UPDATE"] = "retry"]

info_resp_handler ==
    /\ Open("INFO")
    /\ \/ Done(sess, "INFO")
       \/ Challenged(sess, "INFO")
       \/ Ends(sess, "INFO")                        \* 408, 481, a timeout

(* tmr_handler() of an UPDATE *)
update_tmr ==
    /\ "UPDATE" \in Requests /\ sess.requestl["UPDATE"] = "retry"
    /\ sess' \in Again(sess, "UPDATE")

-----------------------------------------------------------------------------
(* src/sipsess/connect.c: responses to the INVITE *)

(* A description in the response is the answer, or the offer when the      *)
(* INVITE had none; desc: offerh() has given an answer to it.              *)
Description(s) ==
    IF s.neg = "LOCAL_OFFER"
    THEN {[s |-> [s EXCEPT !.neg = "DONE"], err |-> e, desc |-> FALSE] :
              e \in HandlerErr(s)}
    ELSE IF s.neg = "NONE"
    THEN {[s |-> [s EXCEPT !.neg = "REMOTE_OFFER"], err |-> e, desc |-> d] :
              e \in HandlerErr(s), d \in BOOLEAN}
    ELSE {[s |-> s, err |-> FALSE, desc |-> FALSE]}

NoDescription(s) == {[s |-> s, err |-> FALSE, desc |-> FALSE]}

AnswerSent(s, desc) ==
    [s EXCEPT !.neg = IF desc /\ @ = "REMOTE_OFFER" THEN "DONE" ELSE @]

(* a reliable provisional response, acknowledged with PRACK *)
progress_rel(s, sdp, inorder) ==
    LET t == [s EXCEPT !.rel_seq = TRUE]
        Acked(x) ==
            Map(sipsess_prack(x.s),
                LAMBDA o : IF x.err \/ o.err THEN Out(o.s)
                           ELSE {[AnswerSent(o.s, x.desc) EXCEPT
                                      !.desc = FALSE]})
    IN  IF s.rel_seq /\ ~inorder THEN {s}
        ELSE IF s.neg = "NONE" /\ ~sdp THEN Out(t)
        ELSE Map(IF sdp THEN Description(t) ELSE NoDescription(t), Acked)

(* invite_resp_handler() for a provisional response: 100, one that does    *)
(* not match the dialog or cannot create it, one with another code, and    *)
(* one that requires 100rel                                                *)
InviteProgress(tag, sdp, inorder) ==
    LET s == [sess EXCEPT !.early = TRUE]
        t == [s EXCEPT !.dlg = @ \/ tag]
        previewErr == IF sdp /\ s.neg = "LOCAL_OFFER" THEN HandlerErr(s)
                      ELSE {FALSE}
    IN
    /\ sess.req = "INVITE"
    /\ sess.terminated = 0 \/ LateProgress
    /\ \/ sess' = s
       \/ sess' \in Out(s)
       \/ \E e \in previewErr : sess' \in IF e THEN Out(t) ELSE {t}
       \/ /\ sess.rel100 /\ "PRACK" \in Requests
          /\ sess.requestl["PRACK"] = "none"
          /\ sess' \in progress_rel(t, sdp, inorder)

Responded(s) == [s EXCEPT !.req = "none", !.early = FALSE]

Confirmed(s) == [s EXCEPT !.established = TRUE, !.dlg = TRUE]

(* sipsess_reinvite() *)
reinvite(s) ==
    IF s.req # "none" THEN {Err(s)}
    ELSE {IF o.err THEN o
          ELSE Ok(Offered([o.s EXCEPT !.modify_pending = FALSE])) :
              o \in Drequest(s, "re-INVITE")}

(* A pending modification is sent now, the others are done with. *)
NextModify(s) ==
    IF s.modify_pending THEN {o.s : o \in reinvite(s)}
    ELSE {[s EXCEPT !.desc = FALSE]}

(* invite_resp_handler() for a 2xx; bad: no Contact, or no ACK could be    *)
(* sent                                                                    *)
InviteOk(sdp, bad) ==
    LET s == Confirmed(Responded(sess))
        Handled(x) ==
            LET t == AnswerSent(x.s, x.desc) IN
            IF bad \/ x.err \/ (x.s.neg = "NONE" /\ ~sdp) THEN Out(x.s)
            ELSE IF t.terminated > 0 THEN Out(t)
            ELSE NextModify(t)
    IN
    /\ sess.req = "INVITE"
    /\ sess' \in Map(IF sdp /\ ~bad THEN Description(s) ELSE NoDescription(s),
                     Handled)

(* a redirection, or a challenge that can be answered *)
InviteAgain ==
    /\ sess.req = "INVITE" /\ sess.terminated = 0
    /\ sess' \in Map(invite(Responded(sess)),
                     LAMBDA o : IF o.err THEN Out(o.s) ELSE {o.s})

(* any other final response, or an error *)
InviteFailed ==
    /\ sess.req = "INVITE"
    /\ sess' \in Out(Responded(sess))

-----------------------------------------------------------------------------
(* src/sipsess/modify.c *)

sipsess_modify(desc) ==
    LET s == [sess EXCEPT !.desc = desc] IN
    /\ Held /\ sess.terminated = 0 /\ sess.dlg
    /\ desc => sess.neg \in {"DONE", "NONE"}
    /\ \/ /\ ~s.established
          /\ "UPDATE" \in Requests /\ s.requestl["UPDATE"] = "none"
          /\ sess' \in sipsess_update(s)
       \/ /\ s.established
          /\ s.req # "none" \/ s.tmr \/ s.replyl # <<>>
          /\ sess' = [s EXCEPT !.modify_pending = TRUE]
       \/ /\ s.established
          /\ s.req = "none" /\ ~s.tmr /\ s.replyl = <<>>
          /\ \E o \in reinvite(s) : sess' = o.s

(* tmr_handler() *)
reinvite_tmr ==
    /\ sess.tmr
    /\ \E o \in reinvite([sess EXCEPT !.tmr = FALSE]) : sess' = o.s

reinvite_progress ==
    /\ sess.req = "re-INVITE"
    /\ sess' = [sess EXCEPT !.early = TRUE]

MutReinviteDone(s) ==
    IF s.terminated > 0 THEN Deref(s) ELSE {[s EXCEPT !.desc = FALSE]}

(* where reinvite_resp_handler() ends *)
ReinviteDone(s) == IF s.terminated > 0 THEN Deref(s) ELSE NextModify(s)

(* reinvite_resp_handler() for a 2xx; an error of a handler or of the ACK  *)
(* leads to the same end                                                   *)
ReinviteOk(sdp) ==
    LET s == Responded(sess)
        Handled(x) == ReinviteDone(IF x.err THEN x.s
                                   ELSE AnswerSent(x.s, x.desc))
    IN
    /\ sess.req = "re-INVITE"
    /\ sess' \in Map(IF sdp THEN Description(s) ELSE NoDescription(s), Handled)

ReinviteFailed ==
    LET s == Responded(sess)
        answered == [s EXCEPT !.neg = "DONE"]
    IN
    /\ sess.req = "re-INVITE"
    /\ \/ sess' \in ReinviteDone(s)             \* an error, a loop
       \/ sess' \in ReinviteDone(answered)      \* any other response
       \/ /\ s.terminated = 0                   \* 401, 407
          /\ sess' \in Map(reinvite(answered),
                           LAMBDA o : IF o.err THEN ReinviteDone(o.s)
                                      ELSE {o.s})
       \/ /\ s.terminated = 0                   \* 408, 481, a timeout
          /\ \E t \in {s, answered} : sess' \in sipsess_terminate(t)
       \/ /\ s.terminated = 0                   \* 491, 500
          /\ sess' = [answered EXCEPT !.tmr = TRUE]

-----------------------------------------------------------------------------
(* src/sipsess/close.c *)

bye_resp_handler(again) ==
    LET s == Responded(sess) IN
    /\ sess.req = "BYE"
    /\ again => ~s.peerterm
    /\ sess' \in IF ~again THEN Deref(s)
                 ELSE Map(sipsess_bye(s),
                          LAMBDA o : IF o.err THEN Deref(o.s) ELSE {o.s})

-----------------------------------------------------------------------------
(* src/sipsess/listen.c, accept.c: requests of the peer *)

(* sipsess_find() *)
Found == sess.alive /\ sess.dlg

(* the open INVITE is answered with 487, in bye_handler() and in           *)
(* cancel_handler()                                                        *)
PeerEnds ==
    sipsess_terminate(FinalReply([sess EXCEPT !.peerterm = TRUE], "fail"))

bye_handler ==
    /\ Found
    /\ sess' \in PeerEnds

cancel_handler ==
    /\ sess.alive /\ sess.st
    /\ sess' \in PeerEnds

LastReply(s) == s.replyl = <<>>

MutReplyDone(s) == {s}

(* The end of a reply of a session that is terminated *)
ReplyDone(s) ==
    IF LastReply(s) THEN Deref([s EXCEPT !.established = TRUE]) ELSE {s}

(* sipsess_reply_ack() and sipsess_reply_prack() look for these. *)
AckOf(r, seq) == r.seq = seq

PrackOf(r) == r.rel

(* The ACK of the first reply with the CSeq *)
ack_handler(seq, sdp) ==
    LET Is(r) == AckOf(r, seq)
        s == [sess EXCEPT !.replyl = RemoveFirstMatch(@, Is)]
        answer == s.neg = "LOCAL_OFFER"
        Modified(t) == IF t.modify_pending /\ t.replyl = <<>>
                       THEN {o.s : o \in reinvite(t)} ELSE {t}
        Established(t, e) ==
            IF t.established THEN {t}
            ELSE IF e THEN sipsess_terminate([t EXCEPT !.established = TRUE])
            ELSE {[t EXCEPT !.established = TRUE]}
    IN
    /\ Found /\ SelectInSeq(sess.replyl, Is) # 0
    /\ \/ /\ s.terminated > 0
          /\ sess' \in ReplyDone(s)
       \/ /\ s.terminated = 0 /\ answer /\ ~sdp
          /\ sess' \in sipsess_terminate(s)
       \/ /\ s.terminated = 0 /\ (answer => sdp)
          /\ \E e \in (IF answer THEN HandlerErr(s) ELSE {FALSE}) :
               \E t \in Modified([s EXCEPT !.neg = IF answer THEN "DONE"
                                                   ELSE @]) :
                   sess' \in Established(t, e)

Pracked(s) == [s EXCEPT !.prack_waiting = @ - 1]

(* prack_handler() for a reply that waits *)
prack_handler(sdp) ==
    LET s == [sess EXCEPT !.replyl = RemoveFirstMatch(@, PrackOf)]
        t == Pracked(s)
        answered == [t EXCEPT !.neg = "DONE"]
        offered == [t EXCEPT !.neg = "REMOTE_OFFER"]
    IN
    /\ Found /\ SelectInSeq(sess.replyl, PrackOf) # 0
    /\ \/ /\ s.terminated > 0
          /\ sess' \in ReplyDone(s)
       \/ /\ s.terminated = 0 /\ s.neg = "LOCAL_OFFER" /\ ~sdp
          /\ sess' \in sipsess_terminate(t)
       \/ /\ s.terminated = 0 /\ s.neg = "LOCAL_OFFER" /\ sdp
          /\ sess' \in reply_non_invite(answered, sdp, FALSE)
       \/ /\ s.terminated = 0 /\ s.neg = "DONE" /\ sdp
          /\ \E desc \in BOOLEAN :
               sess' \in reply_non_invite(offered, sdp, desc)
       \/ /\ s.terminated = 0
          /\ s.neg # "LOCAL_OFFER" /\ (sdp => s.neg # "DONE")
          /\ sess' \in reply_non_invite(t, sdp, FALSE)

(* target_refresh_handler() answers 500, 491 or 488 *)
Refused(s, inv, sdp) ==
    \/ inv /\ (s.st \/ s.req # "none")
    \/ sdp /\ s.neg # "DONE"

(* target_refresh_handler() for a re-INVITE or UPDATE that is not refused. *)
(* A modification of our own that waits is dropped.                        *)
target_refresh_handler(inv, sdp) ==
    LET s == [sess EXCEPT !.rseq = IF inv THEN @ + 1 ELSE @]
        offered == [s EXCEPT !.neg = IF sdp THEN "REMOTE_OFFER"
                                     ELSE IF inv THEN "LOCAL_OFFER" ELSE @]
        Outdated(t) == [t EXCEPT !.desc = FALSE, !.modify_pending = FALSE,
                                 !.tmr = FALSE]
    IN
    /\ Found /\ sess.terminated = 0
    /\ inv => sess.rseq < MaxSeq
    /\ ~Refused(sess, inv, sdp)
    /\ \/ /\ inv \/ sdp
          /\ sess' = [s EXCEPT !.neg = "DONE"]       \* offerh() fails
       \/ \E desc \in (IF inv \/ sdp THEN BOOLEAN ELSE {FALSE}) :
            sess' \in
              {Outdated(t) :
                t \in IF inv
                      THEN {o.s : o \in reply_invite(offered, s.rseq, sdp,
                                                     desc)}
                      ELSE reply_non_invite(offered, sdp, desc)}

-----------------------------------------------------------------------------
Responses ==
    \/ \E sdp, bad \in BOOLEAN : InviteOk(sdp, bad)
    \/ InviteFailed
    \/ \E sdp \in BOOLEAN : ReinviteOk(sdp)
    \/ ReinviteFailed
    \/ bye_resp_handler(FALSE)
    \/ prack_resp_handler
    \/ update_resp_handler
    \/ info_resp_handler

Timeouts ==
    \/ \E i \in 1..MaxSeq + 1 : reply_timeout(i)
    \/ update_tmr
    \/ reinvite_tmr

Application ==
    \/ \E offer, rel100 \in BOOLEAN : sipsess_connect(offer, rel100)
    \/ \E offer, rel, desc \in BOOLEAN : sipsess_accept(offer, rel, desc)
    \/ \E rel, desc \in BOOLEAN : sipsess_progress(rel, desc)
    \/ \E desc \in BOOLEAN : sipsess_answer(desc)
    \/ sipsess_reject
    \/ \E desc \in BOOLEAN : sipsess_modify(desc)
    \/ sipsess_info
    \/ Hangup

Peer ==
    \/ \E tag, sdp, inorder \in BOOLEAN : InviteProgress(tag, sdp, inorder)
    \/ InviteAgain
    \/ reinvite_progress
    \/ bye_resp_handler(TRUE)
    \/ bye_handler
    \/ cancel_handler
    \/ \E seq \in 1..MaxSeq, sdp \in BOOLEAN : ack_handler(seq, sdp)
    \/ \E sdp \in BOOLEAN : prack_handler(sdp)
    \/ \E inv, sdp \in BOOLEAN : target_refresh_handler(inv, sdp)

Next == Responses \/ Timeouts \/ Application \/ Peer

(* A request of ours ends, by the timeout of its transaction at the        *)
(* latest, and timers expire.                                              *)
Fairness == WF_vars(Responses) /\ WF_vars(Timeouts)

Spec == Init /\ [][Next]_vars

FairSpec == Spec /\ Fairness

-----------------------------------------------------------------------------
(* Properties *)

TypeOK ==
    /\ DOMAIN sess = DOMAIN NoSess
    /\ sess.nrefs \in 0..4 /\ sess.terminated \in 0..2
    /\ sess.req \in {"none", "INVITE", "re-INVITE", "BYE"}
    /\ sess.neg \in NegStates
    /\ sess.rseq \in 0..MaxSeq /\ sess.prack_waiting \in 0..1
    /\ \A i \in 1..Len(sess.replyl) :
         sess.replyl[i] \in [seq : 1..MaxSeq, rel : BOOLEAN]
    /\ sess.requestl \in [Requests -> {"none", "sent", "retry"}]
    /\ sess.bye \in {"no", "sent", "failed"}

(* The reference count is the number of those who hold the session: the    *)
(* application, and everything that termwait() or terminate() waits for,   *)
(* whichever of the handlers it ends in.  So the session is not freed too  *)
(* early and not kept for ever.  One case is left out: re-INVITEs of the   *)
(* peer may leave several replies without an ACK, termwait() takes one     *)
(* reference for them, and each that times out drops one.                  *)
RefsBalanced ==
    LET Count(b) == IF b THEN 1 ELSE 0 IN
    sess.alive /\ ~sess.dropped =>
      sess.nrefs = Count(sess.app)
        + CASE sess.terminated = 0 -> 0
            [] sess.terminated = 1 -> Count(sess.req # "none")
                                      + Count(sess.replyl # <<>>)
                                      + Count(sess.requestl # None)
            [] sess.terminated = 2 -> Count(sess.req = "BYE")

(* The application can use the session until it releases it, and nothing   *)
(* refers to a session that was freed: "Memory management with reference   *)
(* counting" (src/mem/mem.c).  The case that RefsBalanced leaves out is    *)
(* left out here too.                                                      *)
NoDangling == sess.dropped \/ (~sess.fault /\ (sess.app => sess.alive))

(* An established session that is gone was ended with a BYE of either side *)
ByeSent ==
    ~sess.alive /\ sess.established => sess.bye # "no" \/ sess.peerterm

(* The INVITE of the peer gets one final response from its transaction,    *)
(* whatever ends the session: answer, reject, hang up, CANCEL or BYE.  The *)
(* 504 for a reliable provisional response without PRACK goes past the     *)
(* transaction, before or after that response; it is sent at most once,    *)
(* and never in a call that is answered.  Reliable provisional responses   *)
(* are sent one at a time, and the 2xx waits for the PRACK.  closeh() is   *)
(* called at most once.                                                    *)
OneFinal ==
    /\ sess.finals \in {<<>>, <<"2xx">>, <<"fail">>, <<"504">>,
                        <<"504", "fail">>, <<"fail", "504">>}
    /\ sess.closed <= 1
    /\ \A i \in 1..Len(sess.replyl) :
         sess.replyl[i].rel => Len(sess.replyl) = 1
    /\ ~sess.alive /\ sess.rseq > 0 /\ ~sess.owner =>
         sess.finals \notin {<<>>, <<"504">>} \/ sess.lost

(* A modification that was put off is sent later: something is open that   *)
(* will call sipsess_reinvite().  No re-INVITE of ours is open while the   *)
(* peer still owes an ACK to one of our replies, in whichever order the    *)
(* two sides start.                                                        *)
ModifyKept ==
    /\ sess.modify_pending =>
         \/ sess.req # "none" \/ sess.tmr \/ sess.replyl # <<>>
         \/ sess.terminated > 0 \/ sess.lost
    /\ sess.req = "re-INVITE" => sess.replyl = <<>>

(* After the application has released the session, it is freed: nothing is *)
(* waited for that does not come, and nothing gives it back.               *)
Freed ==
    /\ []<>(sess.alive => sess.app)
    /\ [][sess.alive /\ ~sess.app => ~sess'.alive \/ ~sess'.app]_sess

=============================================================================
