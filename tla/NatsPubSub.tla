----------------------------- MODULE NatsPubSub -----------------------------
(***************************************************************************)
(* Publications over NATS that want an answer (pubsub_nats.go), and the    *)
(* reply a subscriber may give (Publication.Reply, publication.go).        *)
(*                                                                         *)
(* One subscriber; a request is one publication, and reaches it at most    *)
(* once.  NATS is external: it may lose a message, and it runs the         *)
(* callback of a subscription for one message at a time.  mux is the mutex *)
(* of the publication the subscriber got; Reply holds it while it waits on *)
(* the unbuffered replyCh.                                                 *)
(***************************************************************************)
EXTENDS Naturals, Sequences, FiniteSets, Functions

CONSTANTS
    Request,       \* the publications published
    Mode,          \* [Request -> {"none", "ack", "publication"}]: ResponseMode
    Caller,        \* goroutines of the subscriber that call Reply
    NoRequest, NoCaller,
    PubsCap,       \* capacity of the subscriber's channel of publications
    ErrorsCap      \* capacity of its channel of errors

ASSUME NatsAssumption ==
    /\ Mode \in [Request -> {"none", "ack", "publication"}]
    /\ NoRequest \notin Request
    /\ NoCaller \notin Caller
    /\ IsFiniteSet(Caller)
    /\ PubsCap \in Nat \ {0}
    /\ ErrorsCap \in Nat \ {0}

VARIABLES
    ppc,           \* [Request -> PublishPc]: the publisher
    net,           \* SUBSET Request: on the way to the subscriber
    answers,       \* SUBSET (Request \X {"ack", "response"}): on the way back
    handling,      \* the request the callback is at, or NoRequest
    hpc,           \* the callback: "free", "queueing", "failing"
    pubs,          \* Seq(Request): the subscriber's channel
    errs,          \* number of errors in the subscriber's channel
    taken,         \* SUBSET Request: read from pubs
    replyCh,       \* SUBSET Request: publications with a reply channel
    mux,           \* [Request -> Caller \cup {NoCaller}]: who holds the mutex
    replied,       \* SUBSET Request
    timedOut,      \* SUBSET Request
    rh,            \* [Request -> HandlerPc]: responseHandler
    rpc            \* [Request -> [Caller -> ReplyPc]]: the calls of Reply

publisherVars == <<ppc, net, answers>>
callbackVars == <<handling, hpc, pubs, errs, taken>>
replyVars == <<replyCh, mux, replied, timedOut, rh, rpc>>
nvars == <<publisherVars, callbackVars, replyVars>>

PublishPc == {"idle", "waiting", "answering", "ok", "failed"}
HandlerPc == {"none", "select", "publishing", "expiring", "reporting", "done"}
ReplyPc == {"idle", "called", "sending", "ok", "failed"}

NTypeOK ==
    /\ ppc \in [Request -> PublishPc]
    /\ net \in SUBSET Request
    /\ answers \in SUBSET (Request \X {"ack", "response"})
    /\ handling \in Request \cup {NoRequest}
    /\ hpc \in {"free", "queueing", "failing"}
    /\ pubs \in Seq(Request)
    /\ errs \in 0..ErrorsCap
    /\ taken \in SUBSET Request
    /\ replyCh \in SUBSET Request
    /\ mux \in [Request -> Caller \cup {NoCaller}]
    /\ replied \in SUBSET Request
    /\ timedOut \in SUBSET Request
    /\ rh \in [Request -> HandlerPc]
    /\ rpc \in [Request -> [Caller -> ReplyPc]]

NInit ==
    /\ ppc = [r \in Request |-> "idle"]
    /\ net = {}
    /\ answers = {}
    /\ handling = NoRequest
    /\ hpc = "free"
    /\ pubs = <<>>
    /\ errs = 0
    /\ taken = {}
    /\ replyCh = {}
    /\ mux = [r \in Request |-> NoCaller]
    /\ replied = {}
    /\ timedOut = {}
    /\ rh = [r \in Request |-> "none"]
    /\ rpc = [r \in Request |-> [c \in Caller |-> "idle"]]

-----------------------------------------------------------------------------
(* Publish *)

PublishGoto(r, pc) == ppc' = [ppc EXCEPT ![r] = pc]

\* Not connected, or the publication cannot be encoded, or NATS refuses it.
PublishRefused(r) ==
    /\ ppc[r] = "idle"
    /\ PublishGoto(r, "failed")
    /\ UNCHANGED <<net, answers, callbackVars, replyVars>>

\* client.Publish returns at once, RequestWithContext waits.
Publish(r) ==
    /\ ppc[r] = "idle"
    /\ net' = net \cup {r}
    /\ PublishGoto(r, IF Mode[r] = "none" THEN "ok" ELSE "waiting")
    /\ UNCHANGED <<answers, callbackVars, replyVars>>

\* RequestWithContext returns an error: the context ends, or nobody listens.
PublishTimeout(r) ==
    /\ ppc[r] = "waiting"
    /\ PublishGoto(r, "failed")
    /\ UNCHANGED <<net, answers, callbackVars, replyVars>>

\* RequestWithContext returns an answer; a publication must decode, and is then
\* handed to responseCh.
PublishAnswered(r) ==
    /\ ppc[r] = "waiting"
    /\ \E a \in answers :
         /\ a[1] = r
         /\ answers' = answers \ {a}
         /\ \/ Mode[r] = "ack" /\ PublishGoto(r, IF a[2] = "ack" THEN "ok" ELSE "failed")
            \/ Mode[r] = "publication" /\ (PublishGoto(r, "answering") \/ PublishGoto(r, "failed"))
    /\ UNCHANGED <<net, callbackVars, replyVars>>

\* The publisher reads responseCh.
PublishHandsOver(r) ==
    /\ ppc[r] = "answering"
    /\ PublishGoto(r, "ok")
    /\ UNCHANGED <<net, answers, callbackVars, replyVars>>

Publisher(r) ==
    \/ PublishRefused(r)
    \/ Publish(r)
    \/ PublishTimeout(r)
    \/ PublishAnswered(r)
    \/ PublishHandsOver(r)

-----------------------------------------------------------------------------
(* The callback of Subscribe *)

\* NATS loses the message, or its envelope does not decode.
Lose(r) ==
    /\ r \in net
    /\ net' = net \ {r}
    /\ UNCHANGED <<ppc, answers, callbackVars, replyVars>>

\* handler(m): the acknowledgement is sent, or fails, or a reply channel and its
\* responseHandler are set up; the publication is not on pubs yet.
Handle(r) ==
    /\ r \in net
    /\ handling = NoRequest
    /\ net' = net \ {r}
    /\ handling' = r
    /\ \/ /\ Mode[r] = "none"
          /\ hpc' = "queueing"
          /\ UNCHANGED <<answers, replyCh, rh>>
       \/ /\ Mode[r] = "ack"
          /\ \/ hpc' = "queueing" /\ answers' = answers \cup {<<r, "ack">>}
             \/ hpc' = "failing" /\ UNCHANGED answers
          /\ UNCHANGED <<replyCh, rh>>
       \/ /\ Mode[r] = "publication"
          /\ hpc' = "queueing"
          /\ replyCh' = replyCh \cup {r}
          /\ rh' = [rh EXCEPT ![r] = "select"]
          /\ UNCHANGED answers
    /\ UNCHANGED <<ppc, pubs, errs, taken, mux, replied, timedOut, rpc>>

\* Mutant: a publication for which there is no room is dropped.
QueueDropping ==
    /\ hpc = "queueing"
    /\ pubs' = IF Len(pubs) < PubsCap THEN Append(pubs, handling) ELSE pubs
    /\ handling' = NoRequest
    /\ hpc' = "free"
    /\ UNCHANGED <<publisherVars, errs, taken, replyVars>>

\* pubs <- publication
Queue ==
    /\ hpc = "queueing"
    /\ Len(pubs) < PubsCap
    /\ pubs' = Append(pubs, handling)
    /\ handling' = NoRequest
    /\ hpc' = "free"
    /\ UNCHANGED <<publisherVars, errs, taken, replyVars>>

\* errors <- err, and the callback returns without queueing the publication.
AckFails ==
    /\ hpc = "failing"
    /\ errs < ErrorsCap
    /\ errs' = errs + 1
    /\ handling' = NoRequest
    /\ hpc' = "free"
    /\ UNCHANGED <<publisherVars, pubs, taken, replyVars>>

\* The subscriber reads its two channels.
Take ==
    /\ pubs # <<>>
    /\ taken' = taken \cup {Head(pubs)}
    /\ pubs' = Tail(pubs)
    /\ UNCHANGED <<publisherVars, handling, hpc, errs, replyVars>>

ReadError ==
    /\ errs > 0
    /\ errs' = errs - 1
    /\ UNCHANGED <<publisherVars, handling, hpc, pubs, taken, replyVars>>

Callback ==
    \/ \E r \in Request : Lose(r) \/ Handle(r)
    \/ Queue
    \/ AckFails
    \/ Take
    \/ ReadError

-----------------------------------------------------------------------------
(* Reply *)

ReplyGoto(r, c, pc) == rpc' = [rpc EXCEPT ![r][c] = pc]

CallReply(r, c) ==
    /\ r \in taken
    /\ rpc[r][c] = "idle"
    /\ ReplyGoto(r, c, "called")
    /\ UNCHANGED <<publisherVars, callbackVars, replyCh, mux, replied, timedOut, rh>>

\* Mutant: replied is not looked at.
LockTwice(r, c) ==
    /\ rpc[r][c] = "called"
    /\ mux[r] = NoCaller
    /\ IF r \in timedOut \/ r \notin replyCh
         THEN ReplyGoto(r, c, "failed") /\ UNCHANGED mux
         ELSE ReplyGoto(r, c, "sending") /\ mux' = [mux EXCEPT ![r] = c]
    /\ UNCHANGED <<publisherVars, callbackVars, replyCh, replied, timedOut, rh>>

\* The mutex is taken and the switch goes through: Reply fails, or is left with
\* the mutex at the send on replyCh.  (A nil response fails as well, and is no
\* use of Reply.)
Lock(r, c) ==
    /\ rpc[r][c] = "called"
    /\ mux[r] = NoCaller
    /\ IF r \in timedOut \/ r \in replied \/ r \notin replyCh
         THEN ReplyGoto(r, c, "failed") /\ UNCHANGED mux
         ELSE ReplyGoto(r, c, "sending") /\ mux' = [mux EXCEPT ![r] = c]
    /\ UNCHANGED <<publisherVars, callbackVars, replyCh, replied, timedOut, rh>>

\* Mutant: replyCh has a buffer, and Reply does not wait for responseHandler.
HandReplyBuffered(r, c) ==
    /\ rpc[r][c] = "sending"
    /\ IF rh[r] = "select"
         THEN rh' = [rh EXCEPT ![r] = "publishing"] /\ replied' = replied \cup {r}
         ELSE UNCHANGED <<rh, replied>>
    /\ mux' = [mux EXCEPT ![r] = NoCaller]
    /\ ReplyGoto(r, c, "ok")
    /\ UNCHANGED <<publisherVars, callbackVars, replyCh, timedOut>>

\* p.replyCh <- response meets the select of responseHandler; replied is set and
\* the mutex released.
HandReply(r, c) ==
    /\ rpc[r][c] = "sending"
    /\ rh[r] = "select"
    /\ rh' = [rh EXCEPT ![r] = "publishing"]
    /\ replied' = replied \cup {r}
    /\ mux' = [mux EXCEPT ![r] = NoCaller]
    /\ ReplyGoto(r, c, "ok")
    /\ UNCHANGED <<publisherVars, callbackVars, replyCh, timedOut>>

Reply(r, c) == CallReply(r, c) \/ Lock(r, c) \/ HandReply(r, c)

-----------------------------------------------------------------------------
(* responseHandler *)

HandlerGoto(r, pc) == rh' = [rh EXCEPT ![r] = pc]

\* Mutant: the publisher is answered when the time is up, too.
ReplyTimeoutAnswers(r) ==
    /\ rh[r] = "select"
    /\ HandlerGoto(r, "publishing")
    /\ UNCHANGED <<publisherVars, callbackVars, replyCh, mux, replied, timedOut, rpc>>

\* case <-time.After(config.replyTimeout)
ReplyTimeout(r) ==
    /\ rh[r] = "select"
    /\ HandlerGoto(r, "expiring")
    /\ UNCHANGED <<publisherVars, callbackVars, replyCh, mux, replied, timedOut, rpc>>

\* setExpired, once it has the mutex.
SetExpired(r) ==
    /\ rh[r] = "expiring"
    /\ mux[r] = NoCaller
    /\ timedOut' = timedOut \cup {r}
    /\ replyCh' = replyCh \ {r}
    /\ HandlerGoto(r, "reporting")
    /\ UNCHANGED <<publisherVars, callbackVars, mux, replied, rpc>>

\* The response is published to the address of the publisher, or that fails.
PublishResponse(r) ==
    /\ rh[r] = "publishing"
    /\ \/ HandlerGoto(r, "done") /\ answers' = answers \cup {<<r, "response">>}
       \/ HandlerGoto(r, "reporting") /\ UNCHANGED answers
    /\ UNCHANGED <<ppc, net, callbackVars, replyCh, mux, replied, timedOut, rpc>>

\* errors <- err
Report(r) ==
    /\ rh[r] = "reporting"
    /\ errs < ErrorsCap
    /\ errs' = errs + 1
    /\ HandlerGoto(r, "done")
    /\ UNCHANGED <<publisherVars, handling, hpc, pubs, taken, replyCh, mux, replied,
                   timedOut, rpc>>

ResponseHandler(r) ==
    \/ ReplyTimeout(r)
    \/ SetExpired(r)
    \/ PublishResponse(r)
    \/ Report(r)

-----------------------------------------------------------------------------
NNext ==
    \/ \E r \in Request : Publisher(r) \/ ResponseHandler(r)
    \/ \E r \in Request, c \in Caller : Reply(r, c)
    \/ Callback

NSpec == NInit /\ [][NNext]_nvars

\* Goroutines that can run do, timers fire, the subscriber reads its channels.
NFairness ==
    /\ \A r \in Request : WF_nvars(ResponseHandler(r))
    /\ \A r \in Request, c \in Caller : WF_nvars(Lock(r, c) \/ HandReply(r, c))
    /\ WF_nvars(Queue \/ AckFails)
    /\ WF_nvars(Take)
    /\ WF_nvars(ReadError)

NFairSpec == NSpec /\ NFairness

-----------------------------------------------------------------------------
\* Reply, called by several goroutines while the timer of responseHandler runs:
\* at most one call succeeds, and none does once the publication has expired.
OneReplySucceeds ==
    \A r \in Request :
      /\ \A c, d \in Caller : rpc[r][c] = "ok" /\ rpc[r][d] = "ok" => c = d
      /\ \A c \in Caller : rpc[r][c] = "ok" => r \notin timedOut

\* A Reply that waits at replyCh with the mutex never waits for a
\* responseHandler that has ended: it can still be met, or the timer has just
\* won the race.
BlockedReplyHasHandler ==
    \A r \in Request, c \in Caller :
      rpc[r][c] = "sending" => mux[r] = c /\ rh[r] \in {"select", "expiring"}

\* Publish with an acknowledgement, which is sent before the publication is
\* queued: what was acknowledged is still in the callback's hands, on the
\* subscriber's channel, or read.
AckedIsKept ==
    \A r \in Request :
      Mode[r] = "ack" /\ ppc[r] = "ok"
        => r = handling \/ r \in Range(pubs) \/ r \in taken

-----------------------------------------------------------------------------
\* What the publisher is told: with "answering" it has the response.
ToldAt == [idle |-> "nothing", waiting |-> "wait", answering |-> "success",
           ok |-> "success", failed |-> "error"]

Told == [r \in Request |-> ToldAt[ppc[r]]]

\* Received by the callback and not given up for an acknowledgement that failed.
Kept(r) ==
    \/ handling = r /\ hpc = "queueing"
    \/ \E i \in DOMAIN pubs : pubs[i] = r
    \/ r \in taken

Received == {r \in Request : Kept(r)}

\* The call of Reply that returned without an error.
Replier(r) ==
    IF \E c \in Caller : rpc[r][c] = "ok" THEN CHOOSE c \in Caller : rpc[r][c] = "ok"
                                         ELSE NoCaller

Repliers == [r \in Request |-> Replier(r)]

Exchange == INSTANCE RequestReply
    WITH told <- Told, received <- Received, reply <- Repliers, expired <- timedOut

\* Publish, the callback, Reply and responseHandler together implement an
\* exchange of requests and replies: the publisher gets a response only if a call
\* of Reply for it returned without an error, and an acknowledgement only of a
\* publication that is kept; one call of Reply counts, and none after the timer.
IsRequestReply == Exchange!XSpec

-----------------------------------------------------------------------------
\* "this should fail now because we took too long to call Reply": a call that
\* begins once the timer of responseHandler has fired returns an error.
LateReplyFails ==
    \A r \in Request, c \in Caller :
      [](rpc[r][c] = "idle" /\ rh[r] \in {"expiring", "reporting", "done"}
           => [](rpc[r][c] = "called" => <>(rpc[r][c] = "failed")))
=============================================================================
