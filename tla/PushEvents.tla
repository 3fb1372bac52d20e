----------------------------- MODULE PushEvents -----------------------------
(***************************************************************************)
(* The publishing side (pushEvents, websocket_server.go) in front of the   *)
(* push server.  A pusher is a goroutine that calls pushEvents one batch   *)
(* after the other: a REST dispatcher pushes the events its processor      *)
(* enqueued, then the event about the main object.                         *)
(*                                                                         *)
(* The pubsub service is external here.  topicQueue is one topic of it:    *)
(* what Publish accepted comes out in that order, to the server that is    *)
(* subscribed at that moment (LocalPubSub is shown to do this).            *)
(***************************************************************************)
EXTENDS PushServer

CONSTANTS
    Pusher,         \* the goroutines that call pushEvents
    Batches,        \* [Pusher -> Seq(Seq(Event))]: the calls each makes, in order
    MaxAttempts     \* how often pushEvents calls Publish for an event (3)

\* An element of Event stands for one event of one call: what is pushed twice
\* is two events here.
ASSUME PushAssumption ==
    /\ Batches \in [Pusher -> Seq(Seq(Event) \ {<<>>})]
    /\ \A p, q \in Pusher : \A i \in DOMAIN Batches[p], j \in DOMAIN Batches[q] :
         \A k \in DOMAIN Batches[p][i], l \in DOMAIN Batches[q][j] :
           Batches[p][i][k] = Batches[q][j][l] => p = q /\ i = j /\ k = l
    /\ MaxAttempts \in Nat \ {0}

VARIABLES
    batch,          \* [Pusher -> Nat]: the call the pusher is in, or begins next
    at,             \* [Pusher -> Nat]: the event of it in hand, 0 between calls
    attempt,        \* [Pusher -> Nat]: calls to Publish for it that failed
    topicQueue,     \* Seq(Event): accepted by Publish, not delivered yet
    published       \* Seq(Event), history: everything Publish accepted

pushVars == <<batch, at, attempt, topicQueue, published>>
pvars == <<vars, pushVars>>

PTypeOK ==
    /\ TypeOK
    /\ batch \in [Pusher -> Nat]
    /\ at \in [Pusher -> Nat]
    /\ attempt \in [Pusher -> 0..(MaxAttempts - 1)]
    /\ topicQueue \in Seq(Event)
    /\ published \in Seq(Event)

PInit ==
    /\ Init
    /\ batch = [p \in Pusher |-> 1]
    /\ at = [p \in Pusher |-> 0]
    /\ attempt = [p \in Pusher |-> 0]
    /\ topicQueue = <<>>
    /\ published = <<>>

-----------------------------------------------------------------------------
Batch(p) == Batches[p][batch[p]]
InHand(p) == Batch(p)[at[p]]
InCall(p) == at[p] # 0

\* pushEvents(events...), with events that exist.
PushEvents(p) ==
    /\ ~InCall(p)
    /\ batch[p] <= Len(Batches[p])
    /\ \A i \in DOMAIN Batch(p) : Batch(p)[i] \in Born
    /\ at' = [at EXCEPT ![p] = 1]
    /\ UNCHANGED <<vars, batch, attempt, topicQueue, published>>

\* The end of the call, by the end of the loop or by its break.
Leave(p) ==
    /\ at' = [at EXCEPT ![p] = 0]
    /\ batch' = [batch EXCEPT ![p] = @ + 1]

\* The next iteration of the loop on events.
NextEvent(p) ==
    /\ attempt' = [attempt EXCEPT ![p] = 0]
    /\ IF at[p] < Len(Batch(p))
         THEN at' = [at EXCEPT ![p] = @ + 1] /\ UNCHANGED batch
         ELSE Leave(p)

\* ShouldPublish fails or says no: continue.
NotPublished(p) ==
    /\ InCall(p)
    /\ attempt[p] = 0
    /\ NextEvent(p)
    /\ UNCHANGED <<vars, topicQueue, published>>

\* Encode fails: break, which gives up the rest of the batch too.
EncodeFails(p) ==
    /\ InCall(p)
    /\ attempt[p] = 0
    /\ Leave(p)
    /\ UNCHANGED <<vars, attempt, topicQueue, published>>

\* Mutant: one attempt more than the loop has.
PublishFailsOnceMore(p) ==
    /\ InCall(p)
    /\ IF attempt[p] < MaxAttempts
         THEN attempt' = [attempt EXCEPT ![p] = @ + 1] /\ UNCHANGED <<at, batch>>
         ELSE NextEvent(p)
    /\ UNCHANGED <<vars, topicQueue, published>>

\* Publish fails: tried again, MaxAttempts times in all, then given up.
PublishFails(p) ==
    /\ InCall(p)
    /\ IF attempt[p] + 1 < MaxAttempts
         THEN attempt' = [attempt EXCEPT ![p] = @ + 1] /\ UNCHANGED <<at, batch>>
         ELSE NextEvent(p)
    /\ UNCHANGED <<vars, topicQueue, published>>

\* Mutant: the loop on attempts is not left when Publish succeeds.
PublishUntilLastAttempt(p) ==
    /\ InCall(p)
    /\ topicQueue' = Append(topicQueue, InHand(p))
    /\ published' = Append(published, InHand(p))
    /\ IF attempt[p] + 1 < MaxAttempts
         THEN attempt' = [attempt EXCEPT ![p] = @ + 1] /\ UNCHANGED <<at, batch>>
         ELSE NextEvent(p)
    /\ UNCHANGED vars

\* Publish succeeds.
Publish(p) ==
    /\ InCall(p)
    /\ topicQueue' = Append(topicQueue, InHand(p))
    /\ published' = Append(published, InHand(p))
    /\ NextEvent(p)
    /\ UNCHANGED vars

Push(p) ==
    \/ PushEvents(p)
    \/ NotPublished(p)
    \/ EncodeFails(p)
    \/ PublishFails(p)
    \/ Publish(p)

\* The pubsub service delivers to the server, or to nobody when it is not
\* subscribed.
Deliver ==
    /\ topicQueue # <<>>
    /\ topicQueue' = Tail(topicQueue)
    /\ IF startPc = "running" THEN Receive(Head(topicQueue)) ELSE UNCHANGED vars
    /\ UNCHANGED <<batch, at, attempt, published>>

\* The steps of a session; the application does not also DirectPush the events
\* it pushes.
PushedSessionStep(s) ==
    \/ HandleRequest(s)
    \/ Handler(s)
    \/ Listen(s) /\ UNCHANGED <<serverVars, dispatchVars>>
    \/ Disconnect(s) /\ UNCHANGED <<serverVars, dispatchVars>>

PNext ==
    \/ \E p \in Pusher : Push(p)
    \/ Deliver
    \/ /\ \/ \E s \in Session : PushedSessionStep(s)
          \/ \E e \in Event : CreateEvent(e) \/ Spawn(e) \/ Dispatch(e)
          \/ ServerStep
       /\ UNCHANGED pushVars

PSpec == PInit /\ [][PNext]_pvars

\* A pubsub service that works delivers what it accepted.
PFairness ==
    /\ WF_pvars(Deliver)
    /\ WF_pvars(Start /\ UNCHANGED pushVars)
    /\ \A e \in Event : WF_pvars((Spawn(e) \/ Dispatch(e)) /\ UNCHANGED pushVars)

PFairSpec == PSpec /\ PFairness

-----------------------------------------------------------------------------
\* The position of an event in the calls of the pusher that has it.
Before(p, d, e) ==
    \E i, j \in DOMAIN Batches[p] :
      \/ i < j /\ \E k \in DOMAIN Batches[p][i], l \in DOMAIN Batches[p][j] :
                     d = Batches[p][i][k] /\ e = Batches[p][j][l]
      \/ i = j /\ \E k, l \in DOMAIN Batches[p][i] :
                     k < l /\ d = Batches[p][i][k] /\ e = Batches[p][i][l]

\* pushEvents retries, skips and gives up, beside other pushers: Publish still
\* accepts every event at most once, and the events of a pusher in the order in
\* which it pushes them.
PublishedOnceInOrder ==
    \A i, j \in DOMAIN published : i < j =>
      /\ published[i] # published[j]
      /\ \A p \in Pusher : ~Before(p, published[j], published[i])

\* start: an event that a running server's topic holds gets a dispatcher that
\* ends, unless the server is being stopped.
PublishedIsDispatched ==
    \A e \in Event :
      (startPc = "running" /\ \E i \in DOMAIN topicQueue : topicQueue[i] = e)
        ~> (dpc[e] = "done" \/ ctxDone)
=============================================================================
