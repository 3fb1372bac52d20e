-------------------------- MODULE NatsPubSubProofs --------------------------
(***************************************************************************)
(* Replies and acknowledgements over NATS, for any number of requests and  *)
(* of goroutines that reply.  The first invariant ties the mutex, replied, *)
(* timedOut and replyCh of a publication to the position of its            *)
(* responseHandler; the second ties what the publisher was told to it; the *)
(* third is for the refinement of RequestReply.  At the end, what the      *)
(* publisher may rely on.                                                  *)
(***************************************************************************)
EXTENDS NatsPubSub, TLAPS

\* The callback has a request whenever it is not between two messages.
CallbackHasRequest == hpc # "free" => handling \in Request

TypeInv == NTypeOK /\ CallbackHasRequest

\* The client starts with its types.
LEMMA TypeInit == NInit => TypeInv
BY NatsAssumption DEF NInit, TypeInv, NTypeOK, CallbackHasRequest, PublishPc, HandlerPc, ReplyPc

\* A call of Reply moves on within its positions.
LEMMA ReplyGotoType ==
    ASSUME NTypeOK, NEW r \in Request, NEW c \in Caller, NEW pc \in ReplyPc, ReplyGoto(r, c, pc)
    PROVE  rpc' \in [Request -> [Caller -> ReplyPc]]
BY DEF NTypeOK, ReplyGoto

\* Every step keeps the types.
LEMMA TypeNext == TypeInv /\ [NNext]_nvars => TypeInv'
<1> SUFFICES ASSUME TypeInv, [NNext]_nvars PROVE TypeInv'
  OBVIOUS
<1> USE DEF TypeInv, NTypeOK, CallbackHasRequest, PublishPc, HandlerPc, ReplyPc,
            nvars, publisherVars, callbackVars, replyVars
<1>1. ASSUME NEW r \in Request, Publisher(r) PROVE TypeInv'
  <2>1. CASE PublishRefused(r)
    BY <2>1 DEF PublishRefused, PublishGoto
  <2>2. CASE Publish(r)
    BY <2>2 DEF Publish, PublishGoto
  <2>3. CASE PublishTimeout(r)
    BY <2>3 DEF PublishTimeout, PublishGoto
  <2>4. CASE PublishAnswered(r)
    BY <2>4, ZenonT(40) DEF PublishAnswered, PublishGoto
  <2>5. CASE PublishHandsOver(r)
    BY <2>5 DEF PublishHandsOver, PublishGoto
  <2> QED
    BY <1>1, <2>1, <2>2, <2>3, <2>4, <2>5 DEF Publisher
<1>2. ASSUME NEW r \in Request, ResponseHandler(r) PROVE TypeInv'
  <2>1. CASE ReplyTimeout(r)
    BY <2>1 DEF ReplyTimeout, HandlerGoto
  <2>2. CASE SetExpired(r)
    BY <2>2 DEF SetExpired, HandlerGoto
  <2>3. CASE PublishResponse(r)
    BY <2>3 DEF PublishResponse, HandlerGoto
  <2>4. CASE Report(r)
    BY <2>4, NatsAssumption DEF Report, HandlerGoto
  <2> QED
    BY <1>2, <2>1, <2>2, <2>3, <2>4 DEF ResponseHandler
<1>3. ASSUME NEW r \in Request, NEW c \in Caller, Reply(r, c) PROVE TypeInv'
  <2>1. CASE CallReply(r, c)
    BY <2>1 DEF CallReply, ReplyGoto
  <2>2. CASE Lock(r, c)
    <3>1. rpc' \in [Request -> [Caller -> ReplyPc]]
      BY <2>2, ReplyGotoType DEF Lock
    <3>2. mux' \in [Request -> Caller \cup {NoCaller}]
      BY <2>2, ZenonT(40) DEF Lock
    <3> QED
      BY <2>2, <3>1, <3>2 DEF Lock
  <2>3. CASE HandReply(r, c)
    BY <2>3 DEF HandReply, ReplyGoto
  <2> QED
    BY <1>3, <2>1, <2>2, <2>3 DEF Reply
<1>4. CASE Callback
  <2>1. ASSUME NEW r \in Request, Lose(r) PROVE TypeInv'
    BY <2>1 DEF Lose
  <2>2. ASSUME NEW r \in Request, Handle(r) PROVE TypeInv'
    BY <2>2, SMTT(30) DEF Handle
  <2>3. CASE Queue
    <3>1. handling \in Request /\ pubs' = Append(pubs, handling)
      BY <2>3 DEF Queue
    <3>2. pubs' \in Seq(Request)
      BY <3>1
    <3> QED
      BY <2>3, <3>2 DEF Queue
  <2>4. CASE AckFails
    BY <2>4, NatsAssumption DEF AckFails
  <2>5. CASE Take
    <3>1. pubs # <<>> /\ pubs' = Tail(pubs) /\ taken' = taken \cup {Head(pubs)}
      BY <2>5 DEF Take
    <3>2. Head(pubs) \in Request /\ Tail(pubs) \in Seq(Request)
      BY <3>1
    <3> QED
      BY <2>5, <3>1, <3>2 DEF Take
  <2>6. CASE ReadError
    BY <2>6, NatsAssumption DEF ReadError
  <2> QED
    BY <1>4, <2>1, <2>2, <2>3, <2>4, <2>5, <2>6 DEF Callback
<1>5. CASE UNCHANGED nvars
  BY <1>5
<1> QED
  BY <1>1, <1>2, <1>3, <1>4, <1>5, SMTT(30) DEF NNext

(***************************************************************************)
(* Every variable of the NATS client and of its publications keeps its     *)
(* type; in particular errors are only counted where the channel has room. *)
(***************************************************************************)
THEOREM NTypeCorrect == NSpec => []NTypeOK
<1>1. TypeInv => NTypeOK
  BY DEF TypeInv
<1> QED
  BY <1>1, TypeInit, TypeNext, PTL DEF NSpec

-----------------------------------------------------------------------------
(***************************************************************************)
(* Reply against the timer.  A call at replyCh has the mutex, and          *)
(* responseHandler is before setExpired; once it is past its select, either *)
(* a reply was taken or the publication has expired.                       *)
(***************************************************************************)
NotHandledYet ==
    \A r \in Request : r \in net => rh[r] = "none"

NotPublishedYet ==
    \A r \in Request : ppc[r] = "idle" => r \notin net /\ rh[r] = "none"

RepliedIsPast ==
    \A r \in Request : r \in replied => /\ rh[r] \in {"publishing", "reporting", "done"}
                                       /\ \E c \in Caller : rpc[r][c] = "ok"

PublishingIsReplied ==
    \A r \in Request : rh[r] = "publishing" => r \in replied

ExpiredIsPast ==
    \A r \in Request : r \in timedOut => rh[r] \in {"reporting", "done"} /\ r \notin replied

OpenHasHandler ==
    \A r \in Request : r \in replyCh /\ r \notin replied => rh[r] \in {"select", "expiring"}

OkIsReplied ==
    \A r \in Request, c \in Caller : rpc[r][c] = "ok" => r \in replied

OneOk ==
    \A r \in Request : \A c, d \in Caller : rpc[r][c] = "ok" /\ rpc[r][d] = "ok" => c = d

ReplyInv ==
    /\ TypeInv
    /\ NotHandledYet
    /\ NotPublishedYet
    /\ RepliedIsPast
    /\ PublishingIsReplied
    /\ ExpiredIsPast
    /\ OpenHasHandler
    /\ OkIsReplied
    /\ OneOk
    /\ BlockedReplyHasHandler

\* Before any request nothing was replied or has expired.
LEMMA ReplyInvInit == NInit => ReplyInv
BY TypeInit, NatsAssumption, SMTT(30)
   DEF NInit, ReplyInv, NotHandledYet, NotPublishedYet, RepliedIsPast, PublishingIsReplied,
       ExpiredIsPast, OpenHasHandler, OkIsReplied, OneOk, BlockedReplyHasHandler

\* Every step of the callers of Reply, the timer and the publisher keeps the invariant.
LEMMA ReplyInvNext == ReplyInv /\ [NNext]_nvars => ReplyInv'
<1> SUFFICES ASSUME ReplyInv, [NNext]_nvars, TypeInv' PROVE ReplyInv'
  BY TypeNext, SMTT(30) DEF ReplyInv
<1> USE NatsAssumption
    DEF ReplyInv, TypeInv, NTypeOK, NotHandledYet, NotPublishedYet, RepliedIsPast,
        PublishingIsReplied, ExpiredIsPast, OpenHasHandler, OkIsReplied, OneOk,
        BlockedReplyHasHandler, nvars, publisherVars, callbackVars, replyVars
<1>1. ASSUME NEW r \in Request, Publisher(r) PROVE ReplyInv'
  <2>1. CASE PublishRefused(r)
    BY <2>1, SMTT(30) DEF PublishRefused, PublishGoto
  <2>2. CASE Publish(r)
    BY <2>2, SMTT(30) DEF Publish, PublishGoto
  <2>3. CASE PublishTimeout(r)
    BY <2>3, SMTT(30) DEF PublishTimeout, PublishGoto
  <2>4. CASE PublishAnswered(r)
    BY <2>4, SMTT(30) DEF PublishAnswered, PublishGoto
  <2>5. CASE PublishHandsOver(r)
    BY <2>5, SMTT(30) DEF PublishHandsOver, PublishGoto
  <2> QED
    BY <1>1, <2>1, <2>2, <2>3, <2>4, <2>5, ZenonT(40) DEF Publisher
<1>2. ASSUME NEW r \in Request, ResponseHandler(r) PROVE ReplyInv'
  <2>1. CASE ReplyTimeout(r)
    BY <2>1, SMTT(30) DEF ReplyTimeout, HandlerGoto
  <2>2. CASE SetExpired(r)
    BY <2>2, SMTT(30) DEF SetExpired, HandlerGoto
  <2>3. CASE PublishResponse(r)
    <3>1. \E pc \in {"done", "reporting"} : rh' = [rh EXCEPT ![r] = pc]
      BY <2>3, SMTT(30) DEF PublishResponse, HandlerGoto
    <3>2. rh[r] = "publishing" /\ UNCHANGED <<ppc, net, replyCh, mux, replied, timedOut, rpc>>
      BY <2>3, SMTT(30) DEF PublishResponse
    <3> QED
      BY <3>1, <3>2, SMTT(30)
  <2>4. CASE Report(r)
    BY <2>4, SMTT(30) DEF Report, HandlerGoto
  <2> QED
    BY <1>2, <2>1, <2>2, <2>3, <2>4, ZenonT(40) DEF ResponseHandler
<1>3. ASSUME NEW r \in Request, NEW c \in Caller, Reply(r, c) PROVE ReplyInv'
  <2>1. CASE CallReply(r, c)
    BY <2>1, SMTT(30) DEF CallReply, ReplyGoto
  <2>2. CASE Lock(r, c)
    <3>1. CASE r \in timedOut \/ r \in replied \/ r \notin replyCh
      <4>1. /\ rpc[r][c] = "called"
            /\ rpc' = [rpc EXCEPT ![r][c] = "failed"]
            /\ UNCHANGED <<ppc, net, replyCh, mux, replied, timedOut, rh>>
        BY <2>2, <3>1, SMTT(30) DEF Lock, ReplyGoto
      <4> QED
        BY <4>1, SMTT(30)
    <3>2. CASE r \notin timedOut /\ r \notin replied /\ r \in replyCh
      <4>1. /\ rpc[r][c] = "called"
            /\ mux[r] = NoCaller
            /\ rpc' = [rpc EXCEPT ![r][c] = "sending"]
            /\ mux' = [mux EXCEPT ![r] = c]
            /\ UNCHANGED <<ppc, net, replyCh, replied, timedOut, rh>>
        BY <2>2, <3>2, SMTT(30) DEF Lock, ReplyGoto
      <4> QED
        BY <3>2, <4>1, SMTT(30)
    <3> QED
      BY <3>1, <3>2, ZenonT(40)
  <2>3. CASE HandReply(r, c)
    BY <2>3, SMTT(30) DEF HandReply, ReplyGoto
  <2> QED
    BY <1>3, <2>1, <2>2, <2>3, ZenonT(40) DEF Reply
<1>4. CASE Callback
  <2>1. ASSUME NEW r \in Request, Lose(r) PROVE ReplyInv'
    BY <2>1, SMTT(30) DEF Lose
  <2>2. ASSUME NEW r \in Request, Handle(r) PROVE ReplyInv'
    <3>1. r \in net /\ net' = net \ {r} /\ UNCHANGED <<ppc, mux, replied, timedOut, rpc>>
      BY <2>2, SMTT(30) DEF Handle
    <3>2. CASE UNCHANGED <<replyCh, rh>>
      BY <3>1, <3>2, SMTT(30)
    <3>3. CASE replyCh' = replyCh \cup {r} /\ rh' = [rh EXCEPT ![r] = "select"]
      BY <3>1, <3>3, SMTT(30)
    <3> QED
      BY <2>2, <3>2, <3>3, ZenonT(40) DEF Handle
  <2>3. CASE Queue \/ AckFails \/ Take \/ ReadError
    BY <2>3, SMTT(30) DEF Queue, AckFails, Take, ReadError
  <2> QED
    BY <1>4, <2>1, <2>2, <2>3, ZenonT(40) DEF Callback
<1>5. CASE UNCHANGED nvars
  BY <1>5
<1> QED
  BY <1>1, <1>2, <1>3, <1>4, <1>5, ZenonT(40) DEF NNext

-----------------------------------------------------------------------------
(***************************************************************************)
(* What the publisher is told.  An acknowledgement on its way, or received, *)
(* is about a request that is kept; a response, about one that was replied. *)
(***************************************************************************)
AnswersAreTrue ==
    \A r \in Request : /\ <<r, "ack">> \in answers => Mode[r] = "ack" /\ Kept(r)
                       /\ <<r, "response">> \in answers => r \in replied

AckedIsTrue ==
    \A r \in Request : Mode[r] = "ack" /\ ppc[r] = "ok" => Kept(r)

AnsweredIsReplied ==
    \A r \in Request : Mode[r] = "publication" /\ ppc[r] \in {"answering", "ok"} => r \in replied

OnlyResponsesAreHandedOver ==
    \A r \in Request : ppc[r] = "answering" => Mode[r] = "publication"

AnswerInv ==
    /\ ReplyInv
    /\ OnlyResponsesAreHandedOver
    /\ AnswersAreTrue
    /\ AckedIsTrue
    /\ AnsweredIsReplied

\* Before any request nothing was answered.
LEMMA AnswerInvInit == NInit => AnswerInv
BY ReplyInvInit, SMTT(30) DEF NInit, AnswerInv, AnswersAreTrue, AckedIsTrue, AnsweredIsReplied,
                        OnlyResponsesAreHandedOver

\* A request that is kept stays so: the callback queues it, the reader takes it.
LEMMA KeptStaysKept ==
    ASSUME TypeInv, [NNext]_nvars, NEW r \in Request, Kept(r)
    PROVE  Kept(r)'
<1> USE DEF TypeInv, NTypeOK, Kept
<1>1. CASE UNCHANGED <<handling, hpc, pubs, taken>>
  BY <1>1
<1>2. ASSUME NEW q \in Request, Handle(q) PROVE Kept(r)'
  <2>1. handling = NoRequest /\ UNCHANGED <<pubs, taken>>
    BY <1>2 DEF Handle
  <2> QED
    BY <2>1, NatsAssumption
<1>3. CASE Queue
  <2>1. /\ handling \in Request
        /\ pubs' = Append(pubs, handling)
        /\ UNCHANGED taken
    BY <1>3 DEF Queue, CallbackHasRequest
  <2>2. /\ DOMAIN pubs' = 1..(Len(pubs) + 1)
        /\ pubs'[Len(pubs) + 1] = handling
        /\ \A i \in DOMAIN pubs : i \in DOMAIN pubs' /\ pubs'[i] = pubs[i]
    BY <2>1
  <2>3. Len(pubs) + 1 \in DOMAIN pubs'
    BY <2>2
  <2> QED
    BY <2>1, <2>2, <2>3
<1>4. CASE AckFails
  BY <1>4 DEF AckFails
<1>5. CASE Take
  <2>1. /\ pubs # <<>>
        /\ pubs' = Tail(pubs)
        /\ taken' = taken \cup {Head(pubs)}
        /\ UNCHANGED <<handling, hpc>>
    BY <1>5 DEF Take
  <2>2. ASSUME NEW i \in DOMAIN pubs, pubs[i] = r PROVE Kept(r)'
    <3>1. CASE i = 1
      BY <2>1, <2>2, <3>1
    <3>2. CASE i # 1
      <4>1. i - 1 \in DOMAIN Tail(pubs) /\ Tail(pubs)[i - 1] = r
        BY <2>1, <2>2, <3>2, SMTT(30)
      <4> QED
        BY <2>1, <4>1
    <3> QED
      BY <3>1, <3>2
  <2> QED
    BY <2>1, <2>2
<1> QED
  BY <1>1, <1>2, <1>3, <1>4, <1>5, ZenonT(40)
     DEF NNext, nvars, callbackVars, replyVars, Publisher, PublishRefused, Publish, PublishTimeout,
         PublishAnswered, PublishHandsOver, ResponseHandler, ReplyTimeout, SetExpired,
         PublishResponse, Report, Reply, CallReply, Lock, HandReply, Callback, Lose, ReadError

\* replied is never reset.
LEMMA RepliedStays ==
    ASSUME [NNext]_nvars
    PROVE  replied \subseteq replied'
BY ZenonT(40) DEF NNext, nvars, replyVars, Publisher, PublishRefused, Publish, PublishTimeout,
       PublishAnswered, PublishHandsOver, ResponseHandler, ReplyTimeout, SetExpired,
       PublishResponse, Report, Reply, CallReply, Lock, HandReply, Callback, Lose, Handle, Queue,
       AckFails, Take, ReadError

\* Every step keeps what answers say.
LEMMA AnswerInvNext == AnswerInv /\ [NNext]_nvars => AnswerInv'
<1> SUFFICES ASSUME AnswerInv, [NNext]_nvars, ReplyInv'
             PROVE  AnswerInv'
  BY ReplyInvNext DEF AnswerInv
<1>a. \A r \in Request : /\ Kept(r) => Kept(r)'
                         /\ r \in replied => r \in replied'
  BY KeptStaysKept, RepliedStays, SMTT(30) DEF AnswerInv, ReplyInv
<1> USE <1>a, NatsAssumption
    DEF AnswerInv, ReplyInv, TypeInv, NTypeOK, AnswersAreTrue, AckedIsTrue, AnsweredIsReplied,
        OnlyResponsesAreHandedOver
<1>1. CASE UNCHANGED <<ppc, answers>>
  BY <1>1, ZenonT(40)
<1>2. ASSUME NEW r \in Request, PublishRefused(r) \/ PublishTimeout(r)
      PROVE  AnswerInv'
  BY <1>2, SMTT(30) DEF PublishRefused, PublishTimeout, PublishGoto
<1>3. ASSUME NEW r \in Request, Publish(r)
      PROVE  AnswerInv'
  BY <1>3, ZenonT(40) DEF Publish, PublishGoto
<1>4. ASSUME NEW r \in Request, PublishAnswered(r)
      PROVE  AnswerInv'
  <2>1. PICK a \in answers :
          /\ a[1] = r
          /\ answers' = answers \ {a}
          /\ \/ Mode[r] = "ack" /\ PublishGoto(r, IF a[2] = "ack" THEN "ok" ELSE "failed")
             \/ Mode[r] = "publication" /\ (PublishGoto(r, "answering") \/ PublishGoto(r, "failed"))
    BY <1>4, SMTT(30) DEF PublishAnswered
  <2>2. a = <<r, "ack">> \/ a = <<r, "response">>
    BY <2>1, SMTT(30)
  <2>3. CASE a = <<r, "ack">>
    <3>1. Mode[r] = "ack" /\ Kept(r)
      BY <2>3, ZenonT(40)
    <3>2. ppc' = [ppc EXCEPT ![r] = "ok"]
      BY <2>1, <2>3, <3>1, SMTT(30) DEF PublishGoto
    <3> QED
      BY <2>1, <3>1, <3>2
  <2>4. CASE a = <<r, "response">>
    <3>1. r \in replied
      BY <2>4, ZenonT(40)
    <3>2. \/ Mode[r] = "ack" /\ ppc' = [ppc EXCEPT ![r] = "failed"]
          \/ Mode[r] = "publication" /\ ppc' = [ppc EXCEPT ![r] = "answering"]
          \/ Mode[r] = "publication" /\ ppc' = [ppc EXCEPT ![r] = "failed"]
      BY <2>1, <2>4 DEF PublishGoto
    <3> QED
      BY <2>1, <3>1, <3>2, SMTT(30)
  <2> QED
    BY <2>2, <2>3, <2>4, ZenonT(40)
<1>5. ASSUME NEW r \in Request, PublishHandsOver(r)
      PROVE  AnswerInv'
  BY <1>5, ZenonT(40) DEF PublishHandsOver, PublishGoto
<1>6. ASSUME NEW r \in Request, Handle(r)
      PROVE  AnswerInv'
  <2>1. CASE UNCHANGED answers
    BY <1>6, <2>1, ZenonT(40) DEF Handle
  <2>2. CASE Mode[r] = "ack" /\ hpc' = "queueing" /\ answers' = answers \cup {<<r, "ack">>}
    <3>1. Kept(r)'
      BY <1>6, <2>2, ZenonT(40) DEF Handle, Kept
    <3> QED
      BY <1>6, <2>2, <3>1, ZenonT(40) DEF Handle
  <2> QED
    BY <1>6, <2>1, <2>2, ZenonT(40) DEF Handle
<1>7. ASSUME NEW r \in Request, PublishResponse(r)
      PROVE  AnswerInv'
  BY <1>7, ZenonT(40) DEF PublishResponse, PublishingIsReplied
<1> QED
  BY <1>1, <1>2, <1>3, <1>4, <1>5, <1>6, <1>7, ZenonT(40)
     DEF NNext, nvars, publisherVars, callbackVars, replyVars, Publisher, ResponseHandler,
         ReplyTimeout, SetExpired, Report, Reply, CallReply, Lock, HandReply, Callback, Lose,
         Queue, AckFails, Take, ReadError

(* What was answered agrees with what happened to the request. *)
THEOREM AnswerInvariant == NSpec => []AnswerInv
BY AnswerInvInit, AnswerInvNext, PTL DEF NSpec

(***************************************************************************)
(* Reply, for any number of goroutines that call it beside the timer: at   *)
(* most one call succeeds, and none on a publication that has expired.     *)
(***************************************************************************)
THEOREM OneReply == NSpec => []OneReplySucceeds
<1>1. AnswerInv => OneReplySucceeds
  BY DEF AnswerInv, ReplyInv, OneOk, OkIsReplied, ExpiredIsPast, OneReplySucceeds
<1> QED
  BY <1>1, AnswerInvariant, PTL

(***************************************************************************)
(* A call of Reply that waits at replyCh has the mutex, and the            *)
(* responseHandler of the publication has not ended.                       *)
(***************************************************************************)
THEOREM BlockedReply == NSpec => []BlockedReplyHasHandler
<1>1. AnswerInv => BlockedReplyHasHandler
  BY DEF AnswerInv, ReplyInv
<1> QED
  BY <1>1, AnswerInvariant, PTL

(***************************************************************************)
(* Publish with an acknowledgement: although it is sent before the         *)
(* publication is queued, what was acknowledged is never dropped.          *)
(***************************************************************************)
THEOREM AckedKept == NSpec => []AckedIsKept
<1>1. AnswerInv => AckedIsKept
  BY DEF AnswerInv, AckedIsTrue, Kept, AckedIsKept, Range
<1> QED
  BY <1>1, AnswerInvariant, PTL

-----------------------------------------------------------------------------
(***************************************************************************)
(* The exchange.  A request on its way was not received before, a call of  *)
(* Reply is about a publication that was taken, and a responseHandler      *)
(* about one that was received and wants a response.                       *)
(***************************************************************************)
FreshIsUnreceived ==
    \A r \in Request : ppc[r] = "idle" \/ r \in net => ~ Kept(r) /\ handling # r

RepliesAreToTaken ==
    \A r \in Request, c \in Caller : rpc[r][c] # "idle" => r \in taken

HandlersHaveReceived ==
    \A r \in Request : rh[r] # "none" => Mode[r] = "publication" /\ Kept(r)

ExchangeInv ==
    /\ AnswerInv
    /\ FreshIsUnreceived
    /\ RepliesAreToTaken
    /\ HandlersHaveReceived

\* Before any request nothing was received.
LEMMA ExchangeInvInit == NInit => ExchangeInv
BY AnswerInvInit, NatsAssumption, SMTT(30)
   DEF NInit, ExchangeInv, FreshIsUnreceived, RepliesAreToTaken, HandlersHaveReceived, Kept

\* What is received was handled: nothing else is added to what is kept.
LEMMA OnlyHandledIsKept ==
    ASSUME TypeInv, [NNext]_nvars, NEW r \in Request, ~ Kept(r), ~ Handle(r), handling # r
    PROVE  ~ Kept(r)' /\ handling' # r
<1> USE DEF TypeInv, NTypeOK, Kept
<1>1. CASE UNCHANGED <<handling, hpc, pubs, taken>>
  BY <1>1
<1>2. ASSUME NEW q \in Request, Handle(q) PROVE ~ Kept(r)' /\ handling' # r
  <2>1. handling' = q /\ q # r /\ UNCHANGED <<pubs, taken>>
    BY <1>2, SMTT(30) DEF Handle
  <2> QED
    BY <2>1, SMTT(30)
<1>3. CASE Queue
  <2>1. /\ handling \in Request /\ handling # r
        /\ pubs' = Append(pubs, handling) /\ handling' = NoRequest
        /\ UNCHANGED taken
    BY <1>3, SMTT(30) DEF Queue, CallbackHasRequest
  <2>2. \A i \in DOMAIN pubs' : pubs'[i] = handling \/ (i \in DOMAIN pubs /\ pubs'[i] = pubs[i])
    BY <2>1, SMTT(30)
  <2> QED
    BY <2>1, <2>2, NatsAssumption, ZenonT(40)
<1>4. CASE AckFails
  BY <1>4, NatsAssumption, SMTT(30) DEF AckFails
<1>5. CASE Take
  <2>1. /\ pubs # <<>>
        /\ pubs' = Tail(pubs)
        /\ taken' = taken \cup {Head(pubs)}
        /\ UNCHANGED <<handling, hpc>>
    BY <1>5, SMTT(30) DEF Take
  <2>2. 1 \in DOMAIN pubs /\ Head(pubs) = pubs[1]
    BY <2>1
  <2>3. \A i \in DOMAIN pubs' : i + 1 \in DOMAIN pubs /\ pubs'[i] = pubs[i + 1]
    BY <2>1, SMTT(30)
  <2> QED
    BY <2>1, <2>2, <2>3, SMTT(30)
<1> QED
  BY <1>1, <1>2, <1>3, <1>4, <1>5, ZenonT(40)
     DEF NNext, nvars, callbackVars, replyVars, Publisher, PublishRefused, Publish, PublishTimeout,
         PublishAnswered, PublishHandsOver, ResponseHandler, ReplyTimeout, SetExpired,
         PublishResponse, Report, Reply, CallReply, Lock, HandReply, Callback, Lose, ReadError

\* A request on its way was not received: only Publish sends one, and the callback
\* takes what it handles.
LEMMA FreshStaysUnreceived ==
    ASSUME TypeInv, ReplyInv, FreshIsUnreceived, [NNext]_nvars
    PROVE  FreshIsUnreceived'
<1> SUFFICES ASSUME NEW r \in Request, (ppc[r] = "idle" \/ r \in net)'
             PROVE  ~ Kept(r)' /\ handling' # r
  BY SMTT(30) DEF FreshIsUnreceived
<1>1. (ppc[r] = "idle" \/ r \in net) /\ ~ Handle(r)
  <2>1. CASE UNCHANGED <<ppc, net>>
    <3>1. ~ Handle(r)
      BY <2>1 DEF Handle
    <3> QED
      BY <2>1, <3>1, SMTT(30)
  <2>2. ASSUME NEW q \in Request,
               PublishRefused(q) \/ Publish(q) \/ PublishTimeout(q) \/ PublishAnswered(q)
                 \/ PublishHandsOver(q)
        PROVE  (ppc[r] = "idle" \/ r \in net) /\ ~ Handle(r)
    <3>1. UNCHANGED handling /\ (net' = net \/ (ppc[q] = "idle" /\ net' = net \cup {q}))
      BY <2>2, SMTT(30) DEF PublishRefused, Publish, PublishTimeout, PublishAnswered, PublishHandsOver,
                  callbackVars
    <3>2. \E pc \in {"failed", "ok", "waiting", "answering"} : PublishGoto(q, pc)
      BY <2>2 DEF PublishRefused, Publish, PublishTimeout, PublishAnswered, PublishHandsOver
    <3>3. ppc'[r] = "idle" => ppc[r] = "idle"
      BY <3>2, SMTT(30) DEF PublishGoto, TypeInv, NTypeOK
    <3>4. ~ Handle(r)
      BY <3>1, NatsAssumption DEF Handle
    <3> QED
      BY <3>1, <3>3, <3>4, SMTT(30)
  <2>3. ASSUME NEW q \in Request, Lose(q) \/ Handle(q)
        PROVE  (ppc[r] = "idle" \/ r \in net) /\ ~ Handle(r)
    <3>1. q \in net /\ net' = net \ {q} /\ UNCHANGED ppc
      BY <2>3 DEF Lose, Handle
    <3>2. ppc[q] # "idle"
      BY <3>1 DEF ReplyInv, NotPublishedYet
    <3>3. r # q
      BY <3>1, <3>2, SMTT(30)
    <3>4. Handle(r) => r \in net /\ r \notin net'
      BY ZenonT(40) DEF Handle
    <3> QED
      BY <3>1, <3>2, <3>3, <3>4, SMTT(30)
  <2> QED
    BY <2>1, <2>2, <2>3, ZenonT(40)
       DEF NNext, nvars, publisherVars, Publisher, ResponseHandler, ReplyTimeout, SetExpired,
           PublishResponse, Report, Reply, CallReply, Lock, HandReply, Callback, Queue, AckFails,
           Take, ReadError
<1>2. ~ Kept(r) /\ handling # r
  BY <1>1, SMTT(30) DEF FreshIsUnreceived
<1> QED
  BY <1>1, <1>2, OnlyHandledIsKept, ZenonT(40)

\* Reply is called on what was taken.
LEMMA RepliesStayToTaken ==
    ASSUME TypeInv, RepliesAreToTaken, [NNext]_nvars
    PROVE  RepliesAreToTaken'
<1> USE DEF TypeInv, NTypeOK, RepliesAreToTaken
<1>1. taken \subseteq taken'
  BY ZenonT(40) DEF NNext, nvars, callbackVars, replyVars, Publisher, PublishRefused, Publish, PublishTimeout,
         PublishAnswered, PublishHandsOver, ResponseHandler, ReplyTimeout, SetExpired,
         PublishResponse, Report, Reply, CallReply, Lock, HandReply, Callback, Lose, Handle, Queue,
         AckFails, Take, ReadError
<1>2. CASE UNCHANGED rpc
  BY <1>1, <1>2
<1>3. ASSUME NEW r \in Request, NEW c \in Caller, Reply(r, c) PROVE RepliesAreToTaken'
  <2>1. r \in taken
    BY <1>3, SMTT(30) DEF Reply, CallReply, Lock, HandReply
  <2>2. \E pc \in ReplyPc : ReplyGoto(r, c, pc)
    BY <1>3, SMTT(30) DEF Reply, CallReply, Lock, HandReply, ReplyPc
  <2>3. \A q \in Request, d \in Caller : q # r \/ d # c => rpc'[q][d] = rpc[q][d]
    BY <2>2, SMTT(30) DEF ReplyGoto
  <2> QED
    BY <1>1, <2>1, <2>3, SMTT(30)
<1> QED
  BY <1>2, <1>3, ZenonT(40)
     DEF NNext, nvars, callbackVars, replyVars, Publisher, PublishRefused, Publish, PublishTimeout,
         PublishAnswered, PublishHandsOver, ResponseHandler, ReplyTimeout, SetExpired,
         PublishResponse, Report, Callback, Lose, Handle, Queue, AckFails, Take, ReadError

\* A responseHandler is started for a publication that wants a response.
LEMMA HandlersStayWithReceived ==
    ASSUME TypeInv, HandlersHaveReceived, [NNext]_nvars
    PROVE  HandlersHaveReceived'
<1> USE DEF TypeInv, NTypeOK, HandlersHaveReceived
<1>1. \A r \in Request : Kept(r) => Kept(r)'
  BY KeptStaysKept, SMTT(30)
<1>2. CASE UNCHANGED rh
  BY <1>1, <1>2, SMTT(30)
<1>3. ASSUME NEW r \in Request, NEW pc \in HandlerPc, HandlerGoto(r, pc), rh[r] # "none"
      PROVE  HandlersHaveReceived'
  BY <1>1, <1>3, SMTT(30) DEF HandlerGoto
<1>4. ASSUME NEW r \in Request, Handle(r) PROVE HandlersHaveReceived'
  <2>1. CASE UNCHANGED rh
    BY <1>1, <2>1, SMTT(30)
  <2>2. CASE Mode[r] = "publication" /\ hpc' = "queueing" /\ rh' = [rh EXCEPT ![r] = "select"]
    <3>1. Kept(r)'
      BY <1>4, <2>2, SMTT(30) DEF Handle, Kept
    <3> QED
      BY <1>1, <2>2, <3>1, SMTT(30)
  <2> QED
    BY <1>4, <2>1, <2>2, SMTT(30) DEF Handle
<1>5. ASSUME NEW r \in Request, ResponseHandler(r) PROVE HandlersHaveReceived'
  <2>1. rh[r] # "none" /\ \E pc \in HandlerPc : HandlerGoto(r, pc)
    BY <1>5, SMTT(30) DEF ResponseHandler, ReplyTimeout, SetExpired, PublishResponse, Report, HandlerPc
  <2> QED
    BY <1>3, <2>1, SMTT(30)
<1>6. ASSUME NEW r \in Request, NEW c \in Caller, HandReply(r, c) PROVE HandlersHaveReceived'
  <2>1. rh[r] # "none" /\ HandlerGoto(r, "publishing")
    BY <1>6, SMTT(30) DEF HandReply, HandlerGoto
  <2> QED
    BY <1>3, <2>1, SMTT(30) DEF HandlerPc
<1> QED
  BY <1>2, <1>4, <1>5, <1>6, ZenonT(40)
     DEF NNext, nvars, callbackVars, replyVars, Publisher, PublishRefused, Publish, PublishTimeout,
         PublishAnswered, PublishHandsOver, Reply, CallReply, Lock, Callback, Lose, Queue,
         AckFails, Take, ReadError

\* Every step keeps the invariant of the exchange.
LEMMA ExchangeInvNext == ExchangeInv /\ [NNext]_nvars => ExchangeInv'
BY AnswerInvNext, FreshStaysUnreceived, RepliesStayToTaken, HandlersStayWithReceived, SMTT(30)
   DEF ExchangeInv, AnswerInv, ReplyInv

(* What was received, and what handlers and replies are about. *)
THEOREM ExchangeInvariant == NSpec => []ExchangeInv
BY ExchangeInvInit, ExchangeInvNext, PTL DEF NSpec

-----------------------------------------------------------------------------
(* The refinement: what every step does to the four variables of the exchange. *)

\* The client starts as the exchange does.
LEMMA ExchangeInit == NInit => Exchange!XInit
<1> SUFFICES ASSUME NInit PROVE Exchange!XInit
  BY SMTT(30)
<1>1. \A r \in Request : Told[r] = "nothing"
  BY DEF NInit, Told, ToldAt
<1>2. \A r \in Request : ~ Kept(r)
  BY NatsAssumption DEF NInit, Kept
<1>3. \A r \in Request : Replier(r) = NoCaller
  BY DEF NInit, Replier
<1> QED
  BY <1>1, <1>2, <1>3 DEF NInit, Told, Received, Repliers, Exchange!XInit

\* Nothing is told, received or replied by a step that leaves these alone.
LEMMA ExchangeStutters ==
    /\ UNCHANGED ppc => UNCHANGED Told
    /\ UNCHANGED <<handling, hpc, pubs, taken>> => UNCHANGED Received
    /\ UNCHANGED rpc => UNCHANGED Repliers
<1>1. UNCHANGED ppc => UNCHANGED Told
  BY DEF Told
<1>2. UNCHANGED <<handling, hpc, pubs, taken>> => UNCHANGED Received
  <2> SUFFICES ASSUME UNCHANGED <<handling, hpc, pubs, taken>>, NEW r \in Request
               PROVE  Kept(r)' <=> Kept(r)
    BY DEF Received
  <2> QED
    BY DEF Kept
<1>3. UNCHANGED rpc => UNCHANGED Repliers
  <2> SUFFICES ASSUME UNCHANGED rpc, NEW r \in Request
               PROVE  Replier(r)' = Replier(r)
    BY DEF Repliers
  <2> QED
    BY Zenon DEF Replier
<1> QED
  BY <1>1, <1>2, <1>3

\* What the publisher is told follows its position.
LEMMA TellRefines ==
    ASSUME TypeInv, NEW r \in Request, NEW pc \in PublishPc, PublishGoto(r, pc),
           UNCHANGED <<callbackVars, replyVars>>
    PROVE  /\ Told' = [Told EXCEPT ![r] = ToldAt[pc]]
           /\ UNCHANGED <<Received, Repliers, timedOut>>
<1>1. ppc' = [ppc EXCEPT ![r] = pc] /\ ppc \in [Request -> PublishPc]
  BY DEF PublishGoto, TypeInv, NTypeOK
<1>2. UNCHANGED <<handling, hpc, pubs, taken, rpc, timedOut>>
  BY DEF callbackVars, replyVars
<1>3. UNCHANGED <<Received, Repliers>>
  BY <1>2, ExchangeStutters
<1> QED
  BY <1>1, <1>2, <1>3, ZenonT(40) DEF Told

\* The steps of Publish tell the publisher.
LEMMA PublisherRefines ==
    ASSUME ExchangeInv, NEW r \in Request, Publisher(r)
    PROVE  Exchange!XNext \/ UNCHANGED Exchange!xvars
<1>0. TypeInv /\ UNCHANGED <<callbackVars, replyVars>>
  BY DEF ExchangeInv, AnswerInv, ReplyInv, Publisher, PublishRefused, Publish, PublishTimeout,
         PublishAnswered, PublishHandsOver
<1>1. \A pc \in PublishPc : PublishGoto(r, pc) =>
        /\ Told' = [Told EXCEPT ![r] = ToldAt[pc]]
        /\ UNCHANGED <<Received, Repliers, timedOut>>
  BY <1>0, TellRefines, SMTT(30)
<1>2. /\ ppc[r] = "idle" => Told[r] = "nothing"
      /\ ppc[r] = "waiting" => Told[r] = "wait"
  BY SMTT(30) DEF Told, ToldAt
<1>told. /\ ToldAt["waiting"] = "wait" /\ ToldAt["failed"] = "error"
         /\ ToldAt["answering"] = "success" /\ ToldAt["ok"] = "success"
  BY DEF ToldAt
<1>fail. ASSUME ppc[r] \in {"idle", "waiting"}, PublishGoto(r, "failed") PROVE Exchange!Fail(r)
  BY <1>1, <1>2, <1>told, <1>fail, SMTT(30) DEF PublishPc, Exchange!Fail, Exchange!Tell
<1>3. CASE PublishRefused(r) \/ PublishTimeout(r)
  BY <1>3, <1>fail DEF PublishRefused, PublishTimeout, Exchange!XNext
<1>4. CASE Publish(r)
  <2>1. Exchange!Ask(r)
    BY <1>1, <1>2, <1>told, <1>4 DEF Publish, PublishPc, Exchange!Ask, Exchange!Tell
  <2> QED
    BY <2>1, SMTT(30) DEF Exchange!XNext
<1>5. CASE PublishAnswered(r)
  <2>0. ppc[r] = "waiting"
    BY <1>5 DEF PublishAnswered
  <2>1. CASE PublishGoto(r, "failed")
    BY <1>fail, <2>0, <2>1 DEF Exchange!XNext
  <2>2. CASE ~ PublishGoto(r, "failed")
    <3>1. PICK a \in answers :
            /\ a[1] = r
            /\ \/ Mode[r] = "ack" /\ a[2] = "ack" /\ PublishGoto(r, "ok")
               \/ Mode[r] = "publication" /\ PublishGoto(r, "answering")
      BY <1>5, <2>2, SMTT(30) DEF PublishAnswered
    <3>2. a \in Request \X {"ack", "response"}
      BY <1>0 DEF TypeInv, NTypeOK
    <3>3. CASE Mode[r] = "ack" /\ a[2] = "ack" /\ PublishGoto(r, "ok")
      <4>1. r \in Received
        <5>1. <<r, "ack">> \in answers
          BY <3>1, <3>2, <3>3, SMTT(30)
        <5> QED
          BY <5>1, ZenonT(40) DEF ExchangeInv, AnswerInv, AnswersAreTrue, Received
      <4>2. Exchange!Succeed(r)
        BY <1>1, <1>2, <1>told, <2>0, <3>3, <4>1 DEF PublishPc, Exchange!Succeed, Exchange!Tell
      <4> QED
        BY <4>2 DEF Exchange!XNext
    <3>4. CASE Mode[r] = "publication" /\ PublishGoto(r, "answering")
      <4>1. a = <<r, "response">>
        <5>1. a = <<r, "ack">> \/ a = <<r, "response">>
          BY <3>1, <3>2
        <5>2. <<r, "ack">> \notin answers
          BY <3>4, ZenonT(40) DEF ExchangeInv, AnswerInv, AnswersAreTrue
        <5> QED
          BY <5>1, <5>2
      <4>2. \E c \in Caller : rpc[r][c] = "ok"
        BY <4>1, ZenonT(40) DEF ExchangeInv, AnswerInv, AnswersAreTrue, ReplyInv, RepliedIsPast
      <4>3. Repliers[r] # NoCaller
        BY <4>2, NatsAssumption, SMTT(30) DEF Repliers, Replier
      <4>4. Exchange!Succeed(r)
        BY <1>1, <1>2, <1>told, <2>0, <3>4, <4>3, ZenonT(40) DEF PublishPc, Exchange!Succeed, Exchange!Tell
      <4> QED
        BY <4>4 DEF Exchange!XNext
    <3> QED
      BY <3>1, <3>3, <3>4, SMTT(30)
  <2> QED
    BY <2>1, <2>2
<1>6. CASE PublishHandsOver(r)
  <2>1. ppc[r] = "answering" /\ PublishGoto(r, "ok")
    BY <1>6, SMTT(30) DEF PublishHandsOver
  <2>2. Told[r] = "success"
    BY <2>1, SMTT(30) DEF Told, ToldAt
  <2>3. Told' = [Told EXCEPT ![r] = "success"] /\ UNCHANGED <<Received, Repliers, timedOut>>
    BY <1>1, <1>told, <2>1, SMTT(30) DEF PublishPc
  <2>4. Told' = Told
    <3>1. Told = [q \in Request |-> Told[q]]
      BY SMTT(30) DEF Told
    <3> QED
      BY <2>2, <2>3, <3>1, SMTT(30)
  <2> QED
    BY <2>3, <2>4 DEF Exchange!xvars
<1> QED
  BY <1>3, <1>4, <1>5, <1>6, SMTT(30) DEF Publisher

\* Handling a request receives it, unless its acknowledgement fails.
LEMMA HandleRefines ==
    ASSUME ExchangeInv, NEW r \in Request, Handle(r)
    PROVE  Exchange!XNext \/ UNCHANGED Exchange!xvars
<1>1. TypeInv /\ r \in net /\ ppc[r] # "idle" /\ ~ Kept(r)
  BY ZenonT(40) DEF Handle, ExchangeInv, AnswerInv, ReplyInv, NotPublishedYet, FreshIsUnreceived
<1>2. /\ handling = NoRequest /\ handling' = r /\ UNCHANGED <<ppc, pubs, taken, rpc, timedOut>>
      /\ hpc' \in {"queueing", "failing"}
  BY DEF Handle
<1>3. UNCHANGED <<Told, Repliers, timedOut>>
  BY <1>2, ExchangeStutters, SMTT(30)
<1>4. \A q \in Request : Kept(q)' <=> Kept(q) \/ (q = r /\ hpc' = "queueing")
  BY <1>2, NatsAssumption DEF Kept
<1>5. CASE hpc' = "failing"
  BY <1>3, <1>4, <1>5, SMTT(30) DEF Received, Exchange!xvars
<1>6. CASE hpc' = "queueing"
  <2>1. Received' = Received \cup {r} /\ r \notin Received
    BY <1>1, <1>4, <1>6, SMTT(30) DEF Received
  <2>2. Told[r] # "nothing"
    BY <1>1 DEF Told, ToldAt, TypeInv, NTypeOK, PublishPc
  <2>3. Exchange!Receive(r)
    BY <1>3, <2>1, <2>2, SMTT(30) DEF Exchange!Receive
  <2> QED
    BY <2>3 DEF Exchange!XNext
<1> QED
  BY <1>2, <1>5, <1>6, SMTT(30)

\* The other steps of the callback and of the reader receive nothing.
LEMMA CallbackRefines ==
    ASSUME ExchangeInv, [NNext]_nvars,
           Queue \/ AckFails \/ Take \/ ReadError \/ \E q \in Request : Lose(q)
    PROVE  UNCHANGED Exchange!xvars
<1>1. TypeInv
  BY SMTT(30) DEF ExchangeInv, AnswerInv, ReplyInv
<1>2. UNCHANGED <<ppc, rpc, timedOut>>
  BY DEF Queue, AckFails, Take, ReadError, Lose, publisherVars, replyVars
<1>3. ASSUME NEW r \in Request PROVE Kept(r)' <=> Kept(r)
  <2>1. Kept(r) => Kept(r)'
    BY <1>1, KeptStaysKept
  <2>2. ASSUME ~ Kept(r), handling # r PROVE ~ Kept(r)'
    <3>1. ~ Handle(r)
      BY NatsAssumption, ZenonT(40) DEF Queue, AckFails, Take, ReadError, Lose, Handle, callbackVars
    <3> QED
      BY <1>1, <2>2, <3>1, OnlyHandledIsKept, SMTT(30)
  <2>3. ASSUME ~ Kept(r), handling = r PROVE ~ Kept(r)'
    <3>1. hpc # "queueing"
      BY <2>3 DEF Kept
    <3>2. ~ Queue
      BY <3>1, SMTT(30) DEF Queue
    <3>3. CASE AckFails
      BY <2>3, <3>3, NatsAssumption, SMTT(30) DEF AckFails, Kept
    <3>4. CASE Take
      <4>1. /\ pubs # <<>> /\ pubs \in Seq(Request)
            /\ pubs' = Tail(pubs) /\ taken' = taken \cup {Head(pubs)}
            /\ UNCHANGED <<handling, hpc>>
        BY <1>1, <3>4, ZenonT(40) DEF Take, TypeInv, NTypeOK
      <4>2. 1 \in DOMAIN pubs /\ Head(pubs) = pubs[1]
        BY <4>1
      <4>3. \A i \in DOMAIN pubs' : i + 1 \in DOMAIN pubs /\ pubs'[i] = pubs[i + 1]
        BY <4>1, SMTT(30)
      <4> QED
        BY <2>3, <4>1, <4>2, <4>3, SMTT(30) DEF Kept
    <3>5. CASE ReadError \/ \E q \in Request : Lose(q)
      BY <2>3, <3>5 DEF ReadError, Lose, callbackVars, Kept
    <3> QED
      BY <3>2, <3>3, <3>4, <3>5
  <2> QED
    BY <2>1, <2>2, <2>3
<1> QED
  BY <1>2, <1>3, ExchangeStutters DEF Received, Exchange!xvars

\* The reply that responseHandler takes is the one that counts.
LEMMA HandReplyRefines ==
    ASSUME ExchangeInv, NEW r \in Request, NEW c \in Caller, HandReply(r, c)
    PROVE  Exchange!Reply(r, c)
<1>1. /\ rpc \in [Request -> [Caller -> ReplyPc]] /\ rpc' = [rpc EXCEPT ![r][c] = "ok"]
      /\ rh[r] = "select" /\ rpc[r][c] = "sending"
      /\ UNCHANGED <<ppc, handling, hpc, pubs, taken, timedOut>>
  BY ZenonT(40) DEF HandReply, ReplyGoto, publisherVars, callbackVars, ExchangeInv, AnswerInv, ReplyInv,
         TypeInv, NTypeOK
<1>2. r \notin replied /\ r \notin timedOut
  BY <1>1, SMTT(30) DEF ExchangeInv, AnswerInv, ReplyInv, RepliedIsPast, ExpiredIsPast
<1>3. \A d \in Caller : rpc[r][d] # "ok"
  BY <1>2, SMTT(30) DEF ExchangeInv, AnswerInv, ReplyInv, OkIsReplied
<1>4. Mode[r] = "publication" /\ r \in Received
  BY <1>1, SMTT(30) DEF ExchangeInv, HandlersHaveReceived, Received
<1>5. Repliers[r] = NoCaller
  BY <1>3, SMTT(30) DEF Repliers, Replier
<1>6. \A d \in Caller : rpc'[r][d] = "ok" <=> d = c
  BY <1>1, <1>3, SMTT(30)
<1>7. Replier(r)' = c
  BY <1>6 DEF Replier
<1>8. ASSUME NEW q \in Request, q # r PROVE Replier(q)' = Replier(q)
  <2>1. rpc'[q] = rpc[q]
    BY <1>1, <1>8
  <2> QED
    BY <2>1, Zenon DEF Replier
<1>9. Repliers' = [Repliers EXCEPT ![r] = c]
  BY <1>7, <1>8, ZenonT(40) DEF Repliers
<1>10. UNCHANGED <<Told, Received, timedOut>>
  BY <1>1, ExchangeStutters, SMTT(30)
<1> QED
  BY <1>2, <1>4, <1>5, <1>9, <1>10, SMTT(30) DEF Exchange!Reply

\* Whoever calls Reply, waits for the mutex or is refused does not count.
LEMMA ReplyRefines ==
    ASSUME ExchangeInv, NEW r \in Request, NEW c \in Caller, CallReply(r, c) \/ Lock(r, c)
    PROVE  UNCHANGED Exchange!xvars
<1>1. /\ rpc \in [Request -> [Caller -> ReplyPc]] /\ rpc[r][c] # "ok"
      /\ \E pc \in {"called", "failed", "sending"} : rpc' = [rpc EXCEPT ![r][c] = pc]
      /\ UNCHANGED <<ppc, handling, hpc, pubs, taken, timedOut>>
  BY DEF CallReply, Lock, ReplyGoto, publisherVars, callbackVars, ExchangeInv, AnswerInv, ReplyInv,
         TypeInv, NTypeOK
<1>2. ASSUME NEW q \in Request PROVE Replier(q)' = Replier(q)
  <2>1. \A d \in Caller : rpc'[q][d] = "ok" <=> rpc[q][d] = "ok"
    BY <1>1
  <2> QED
    BY <2>1, ZenonT(40) DEF Replier
<1>3. UNCHANGED Repliers
  BY <1>2, SMTT(30) DEF Repliers
<1> QED
  BY <1>1, <1>3, ExchangeStutters, SMTT(30) DEF Exchange!xvars

\* setExpired is the end of the time to reply; nothing else of responseHandler
\* is seen by the exchange.
LEMMA HandlerRefines ==
    ASSUME ExchangeInv, NEW r \in Request, ResponseHandler(r)
    PROVE  Exchange!XNext \/ UNCHANGED Exchange!xvars
<1>1. UNCHANGED <<ppc, handling, hpc, pubs, taken, rpc>>
  BY ZenonT(40) DEF ResponseHandler, ReplyTimeout, SetExpired, PublishResponse, Report, publisherVars,
         callbackVars
<1>2. UNCHANGED <<Told, Received, Repliers>>
  BY <1>1, ExchangeStutters
<1>3. CASE UNCHANGED timedOut
  BY <1>2, <1>3 DEF Exchange!xvars
<1>4. CASE SetExpired(r)
  <2>1. rh[r] = "expiring" /\ timedOut' = timedOut \cup {r}
    BY <1>4, SMTT(30) DEF SetExpired
  <2>2. \A c \in Caller : rpc[r][c] # "ok"
    BY <2>1, SMTT(30) DEF ExchangeInv, AnswerInv, ReplyInv, RepliedIsPast, OkIsReplied
  <2>3. r \in Received /\ Repliers[r] = NoCaller
    BY <2>1, <2>2, SMTT(30) DEF ExchangeInv, HandlersHaveReceived, Received, Repliers, Replier
  <2>4. Exchange!Expire(r)
    BY <1>2, <2>1, <2>3 DEF Exchange!Expire
  <2> QED
    BY <2>4, SMTT(30) DEF Exchange!XNext
<1> QED
  BY <1>3, <1>4 DEF ResponseHandler, ReplyTimeout, PublishResponse, Report

\* Every step of the client is a step of the exchange or changes nothing of it.
LEMMA ExchangeNext == ExchangeInv /\ [NNext]_nvars => [Exchange!XNext]_(Exchange!xvars)
<1> SUFFICES ASSUME ExchangeInv, [NNext]_nvars
             PROVE  Exchange!XNext \/ UNCHANGED Exchange!xvars
  OBVIOUS
<1>1. ASSUME NEW r \in Request, Publisher(r) \/ ResponseHandler(r)
      PROVE  Exchange!XNext \/ UNCHANGED Exchange!xvars
  BY <1>1, PublisherRefines, HandlerRefines
<1>2. ASSUME NEW r \in Request, NEW c \in Caller, Reply(r, c)
      PROVE  Exchange!XNext \/ UNCHANGED Exchange!xvars
  <2>1. CASE HandReply(r, c)
    BY <2>1, HandReplyRefines DEF Exchange!XNext
  <2>2. CASE CallReply(r, c) \/ Lock(r, c)
    BY <2>2, ReplyRefines
  <2> QED
    BY <1>2, <2>1, <2>2 DEF Reply
<1>3. CASE Callback
  <2>1. ASSUME NEW r \in Request, Handle(r)
        PROVE  Exchange!XNext \/ UNCHANGED Exchange!xvars
    BY <2>1, HandleRefines
  <2>2. CASE Queue \/ AckFails \/ Take \/ ReadError \/ \E q \in Request : Lose(q)
    BY <2>2, CallbackRefines, SMTT(30)
  <2> QED
    BY <1>3, <2>1, <2>2 DEF Callback
<1>4. CASE UNCHANGED nvars
  BY <1>4, ExchangeStutters DEF nvars, publisherVars, callbackVars, replyVars, Exchange!xvars
<1> QED
  BY <1>1, <1>2, <1>3, <1>4 DEF NNext

(***************************************************************************)
(* The NATS client, with its callback, the goroutines that reply and the   *)
(* timer, implements the exchange of requests and replies: in particular a *)
(* publisher only gets a response that a successful Reply gave.            *)
(***************************************************************************)
THEOREM ImplementsRequestReply == NSpec => IsRequestReply
BY ExchangeInit, ExchangeNext, ExchangeInvariant, PTL DEF NSpec, IsRequestReply, Exchange!XSpec

-----------------------------------------------------------------------------
(* What the exchange means to the publisher and to those who reply. *)

\* Publish, which gets a response: the subscriber has read the publication from
\* its channel, one goroutine's Reply has returned without an error, and the
\* publication has not expired, although the timer ran beside all that.
ResponseIsEarned ==
    \A r \in Request :
      Mode[r] = "publication" /\ ppc[r] \in {"answering", "ok"} =>
        /\ r \in taken \ timedOut
        /\ \E c \in Caller : rpc[r][c] = "ok" /\ \A d \in Caller \ {c} : rpc[r][d] # "ok"

\* No step of the client, of the callback, of a replier or of a timer takes
\* anything back: what the publisher was told, a publication received, the one
\* reply that counts, and the expiry stand.
OutcomesStand ==
    /\ \A r \in Request : Told[r] \in {"success", "error"} => Told'[r] = Told[r]
    /\ Received \subseteq Received'
    /\ \A r \in Request : Repliers[r] # NoCaller => Repliers'[r] = Repliers[r]
    /\ timedOut \subseteq timedOut'
    /\ \A r \in timedOut : Repliers'[r] = Repliers[r]

(***************************************************************************)
(* Publish with a response, for any number of requests and of goroutines   *)
(* that call Reply: whoever gets a response gets the one reply to a        *)
(* publication that was read.                                              *)
(***************************************************************************)
THEOREM ResponseEarned == NSpec => []ResponseIsEarned
<1>1. ASSUME ExchangeInv
      PROVE  ResponseIsEarned
  <2> SUFFICES ASSUME NEW r \in Request, Mode[r] = "publication", ppc[r] \in {"answering", "ok"}
               PROVE  /\ r \in taken \ timedOut
                      /\ \E c \in Caller : rpc[r][c] = "ok" /\ \A d \in Caller \ {c} : rpc[r][d] # "ok"
    BY DEF ResponseIsEarned
  <2>1. PICK c \in Caller : rpc[r][c] = "ok"
    BY <1>1 DEF ExchangeInv, AnswerInv, ReplyInv, RepliedIsPast, AnsweredIsReplied
  <2>2. r \in taken \ timedOut
    BY <1>1, <2>1 DEF ExchangeInv, RepliesAreToTaken, AnswerInv, ReplyInv, OkIsReplied, ExpiredIsPast
  <2>3. \A d \in Caller \ {c} : rpc[r][d] # "ok"
    BY <1>1, <2>1, ZenonT(40) DEF ExchangeInv, AnswerInv, ReplyInv, OneOk
  <2> QED
    BY <2>1, <2>2, <2>3, ZenonT(40)
<1> QED
  BY <1>1, ExchangeInvariant, PTL

\* No step of the exchange takes anything back.
LEMMA ExchangeStands ==
    ASSUME TypeInv, Exchange!XNext \/ UNCHANGED Exchange!xvars
    PROVE  OutcomesStand
<1>1. /\ Told = [r \in Request |-> Told[r]]
      /\ Repliers = [r \in Request |-> Repliers[r]]
      /\ timedOut \subseteq Request
  BY DEF Told, Repliers, TypeInv, NTypeOK
<1>2. ASSUME NEW r \in Request, Exchange!Ask(r) \/ Exchange!Fail(r) \/ Exchange!Succeed(r)
      PROVE  OutcomesStand
  <2>1. /\ Told[r] \notin {"success", "error"}
        /\ \E what : Told' = [Told EXCEPT ![r] = what]
        /\ UNCHANGED <<Received, Repliers, timedOut>>
    BY <1>2 DEF Exchange!Ask, Exchange!Fail, Exchange!Succeed, Exchange!Tell
  <2>2. \A q \in Request : Told[q] \in {"success", "error"} => Told'[q] = Told[q]
    BY <1>1, <2>1, ZenonT(40)
  <2> QED
    BY <2>1, <2>2, ZenonT(40) DEF OutcomesStand
<1>3. ASSUME NEW r \in Request, Exchange!Receive(r) \/ Exchange!Expire(r)
      PROVE  OutcomesStand
  BY <1>3, ZenonT(40) DEF Exchange!Receive, Exchange!Expire, OutcomesStand
<1>4. ASSUME NEW r \in Request, NEW c \in Caller, Exchange!Reply(r, c)
      PROVE  OutcomesStand
  <2>1. /\ Repliers[r] = NoCaller /\ r \notin timedOut
        /\ Repliers' = [Repliers EXCEPT ![r] = c]
        /\ UNCHANGED <<Told, Received, timedOut>>
    BY <1>4 DEF Exchange!Reply
  <2>2. \A q \in Request \ {r} : Repliers'[q] = Repliers[q]
    BY <1>1, <2>1, ZenonT(40)
  <2> QED
    BY <1>1, <2>1, <2>2, ZenonT(40) DEF OutcomesStand
<1>5. CASE UNCHANGED Exchange!xvars
  BY <1>5, ZenonT(40) DEF Exchange!xvars, OutcomesStand
<1> QED
  BY <1>2, <1>3, <1>4, <1>5, ZenonT(40) DEF Exchange!XNext

(***************************************************************************)
(* Publish, the callback, Reply and responseHandler: for any number of     *)
(* requests and repliers, and whatever NATS loses, an outcome that one of  *)
(* them was told of stays true.                                            *)
(***************************************************************************)
THEOREM OutcomesFinal == NSpec => [][OutcomesStand]_nvars
<1>1. ASSUME ExchangeInv, [NNext]_nvars
      PROVE  OutcomesStand
  <2>1. TypeInv
    BY <1>1 DEF ExchangeInv, AnswerInv, ReplyInv
  <2> QED
    BY <1>1, <2>1, ExchangeNext, ExchangeStands
<1>2. ExchangeInv /\ [NNext]_nvars => [OutcomesStand]_nvars
  BY <1>1
<1> QED
  BY <1>2, ExchangeInvariant, PTL DEF NSpec
=============================================================================
