----------------------------- MODULE LocalPubSub -----------------------------
(***************************************************************************)
(* The in-process pubsub client (pubsub_local.go): one listen goroutine    *)
(* that owns the table of subscribers, the goroutines it starts to hand a  *)
(* publication to each of them, and the callers of Publish, Subscribe and  *)
(* the function Subscribe returns.                                         *)
(*                                                                         *)
(* register and unregister are unbuffered channels: a caller waits until   *)
(* listen receives.  Every call of Subscribe brings a channel of its own,  *)
(* as all calls in the repository do, so a subscription stands for its     *)
(* channel.  Its reader is the program that subscribed.                    *)
(***************************************************************************)
EXTENDS Naturals, Sequences, Functions

CONSTANTS
    Subscription,  \* the calls of Subscribe
    Pub,           \* the publications, each published by a goroutine of its own
    Topic,
    TopicOf,       \* [Subscription \cup Pub -> Topic]
    NoPub,
    QueueCap,      \* capacity of publications (1024 in the code)
    ChanCap        \* capacity of the subscribers' channels

ASSUME LocalPubSubAssumption ==
    /\ TopicOf \in [Subscription \cup Pub -> Topic]
    /\ NoPub \notin Pub
    /\ QueueCap \in Nat \ {0}
    /\ ChanCap \in Nat \ {0}

VARIABLES
    subscribers,   \* [Topic -> Seq(Subscription)]
    publications,  \* Seq(Pub)
    stop,          \* "open" or "closed"
    lpc,           \* listen: "off", "select", "delivering", "stopped"
    inHand,        \* the publication listen is delivering
    senders,       \* the goroutines delivering it, by subscription
    ch,            \* [Subscription -> Seq(Pub)]
    closed,        \* SUBSET Subscription: channels closed
    spc,           \* [Subscription -> SubscriptionPc]
    ppc,           \* [Pub -> PublishPc]
    got            \* [Subscription -> Seq(Pub)]: read from the channel

listenVars == <<subscribers, lpc, inHand, senders, closed>>
lvars == <<listenVars, publications, stop, ch, spc, ppc, got>>

SubscriptionPc == {"idle", "registering", "subscribed", "unregistering", "done"}
PublishPc == {"idle", "publishing", "published"}

LTypeOK ==
    /\ subscribers \in [Topic -> Seq(Subscription)]
    /\ publications \in Seq(Pub)
    /\ stop \in {"open", "closed"}
    /\ lpc \in {"off", "select", "delivering", "stopped"}
    /\ inHand \in Pub \cup {NoPub}
    /\ senders \in SUBSET Subscription
    /\ ch \in [Subscription -> Seq(Pub)]
    /\ closed \in SUBSET Subscription
    /\ spc \in [Subscription -> SubscriptionPc]
    /\ ppc \in [Pub -> PublishPc]
    /\ got \in [Subscription -> Seq(Pub)]

LInit ==
    /\ subscribers = [t \in Topic |-> <<>>]
    /\ publications = <<>>
    /\ stop = "open"
    /\ lpc = "off"
    /\ inHand = NoPub
    /\ senders = {}
    /\ ch = [s \in Subscription |-> <<>>]
    /\ closed = {}
    /\ spc = [s \in Subscription |-> "idle"]
    /\ ppc = [p \in Pub |-> "idle"]
    /\ got = [s \in Subscription |-> <<>>]

-----------------------------------------------------------------------------
(* The callers *)

Connect ==
    /\ lpc = "off"
    /\ lpc' = "select"
    /\ UNCHANGED <<subscribers, inHand, senders, closed, publications, stop, ch, spc,
                   ppc, got>>

Disconnect ==
    /\ stop = "open"
    /\ stop' = "closed"
    /\ UNCHANGED <<listenVars, publications, ch, spc, ppc, got>>

\* Publish is called, and returns once there is room in publications.
CallPublish(p) ==
    /\ ppc[p] = "idle"
    /\ ppc' = [ppc EXCEPT ![p] = "publishing"]
    /\ UNCHANGED <<listenVars, publications, stop, ch, spc, got>>

Publish(p) ==
    /\ ppc[p] = "publishing"
    /\ Len(publications) < QueueCap
    /\ publications' = Append(publications, p)
    /\ ppc' = [ppc EXCEPT ![p] = "published"]
    /\ UNCHANGED <<listenVars, stop, ch, spc, got>>

Subscribe(s) ==
    /\ spc[s] = "idle"
    /\ spc' = [spc EXCEPT ![s] = "registering"]
    /\ UNCHANGED <<listenVars, publications, stop, ch, ppc, got>>

\* close(unsubscribe): the goroutine of the subscription unregisters.
Unsubscribe(s) ==
    /\ spc[s] = "subscribed"
    /\ spc' = [spc EXCEPT ![s] = "unregistering"]
    /\ UNCHANGED <<listenVars, publications, stop, ch, ppc, got>>

\* The subscriber reads its channel, after it was closed too.
Read(s) ==
    /\ ch[s] # <<>>
    /\ got' = [got EXCEPT ![s] = Append(@, Head(ch[s]))]
    /\ ch' = [ch EXCEPT ![s] = Tail(@)]
    /\ UNCHANGED <<listenVars, publications, stop, spc, ppc>>

-----------------------------------------------------------------------------
(* listen *)

\* Mutant: the lock is not released, and listen stays at its next Lock.
ListenRegisterLocked(s) ==
    /\ lpc = "select"
    /\ spc[s] = "registering"
    /\ subscribers' = [subscribers EXCEPT ![TopicOf[s]] = Append(@, s)]
    /\ spc' = [spc EXCEPT ![s] = "subscribed"]
    /\ lpc' = "locked"
    /\ UNCHANGED <<inHand, senders, closed, publications, stop, ch, ppc, got>>

\* case reg := <-p.register
ListenRegister(s) ==
    /\ lpc = "select"
    /\ spc[s] = "registering"
    /\ subscribers' = [subscribers EXCEPT ![TopicOf[s]] = Append(@, s)]
    /\ spc' = [spc EXCEPT ![s] = "subscribed"]
    /\ UNCHANGED <<lpc, inHand, senders, closed, publications, stop, ch, ppc, got>>

\* Mutant: the channel is closed and stays in the table.
ListenUnregisterKeeping(s) ==
    /\ lpc = "select"
    /\ spc[s] = "unregistering"
    /\ closed' = closed \cup {s}
    /\ spc' = [spc EXCEPT ![s] = "done"]
    /\ UNCHANGED <<subscribers, lpc, inHand, senders, publications, stop, ch, ppc, got>>

\* Mutant: the first channel of the topic is cut out of the slice.
ListenUnregisterFirst(s) ==
    /\ lpc = "select"
    /\ spc[s] = "unregistering"
    /\ subscribers' = [subscribers EXCEPT ![TopicOf[s]] = Tail(@)]
    /\ closed' = closed \cup {s}
    /\ spc' = [spc EXCEPT ![s] = "done"]
    /\ UNCHANGED <<lpc, inHand, senders, publications, stop, ch, ppc, got>>

\* Mutant: the channel is not closed.
ListenUnregisterOpen(s) ==
    /\ lpc = "select"
    /\ spc[s] = "unregistering"
    /\ subscribers' = [subscribers EXCEPT ![TopicOf[s]] = SelectSeq(@, LAMBDA r : r # s)]
    /\ spc' = [spc EXCEPT ![s] = "done"]
    /\ UNCHANGED <<lpc, inHand, senders, closed, publications, stop, ch, ppc, got>>

\* append(subs[:i], subs[i+1:]...)
Cut(subs, i) == [j \in 1..(Len(subs) - 1) |-> IF j < i THEN subs[j] ELSE subs[j + 1]]

\* case reg := <-p.unregister: cut out of the slice, and closed.
ListenUnregister(s) ==
    /\ lpc = "select"
    /\ spc[s] = "unregistering"
    /\ \E i \in DOMAIN subscribers[TopicOf[s]] :
         /\ subscribers[TopicOf[s]][i] = s
         /\ subscribers' = [subscribers EXCEPT ![TopicOf[s]] = Cut(@, i)]
    /\ closed' = closed \cup {s}
    /\ spc' = [spc EXCEPT ![s] = "done"]
    /\ UNCHANGED <<lpc, inHand, senders, publications, stop, ch, ppc, got>>

\* case publication := <-p.publications: a goroutine for each subscriber
ListenPublication ==
    /\ lpc = "select"
    /\ publications # <<>>
    /\ publications' = Tail(publications)
    /\ inHand' = Head(publications)
    /\ senders' = Range(subscribers[TopicOf[Head(publications)]])
    /\ lpc' = "delivering"
    /\ UNCHANGED <<subscribers, closed, stop, ch, spc, ppc, got>>

\* s <- p.Duplicate()
Send(s) ==
    /\ s \in senders
    /\ Len(ch[s]) < ChanCap
    /\ ch' = [ch EXCEPT ![s] = Append(@, inHand)]
    /\ senders' = senders \ {s}
    /\ UNCHANGED <<subscribers, lpc, inHand, closed, publications, stop, spc, ppc, got>>

\* wg.Wait() returns.
ListenDelivered ==
    /\ lpc = "delivering"
    /\ senders = {}
    /\ lpc' = "select"
    /\ inHand' = NoPub
    /\ UNCHANGED <<subscribers, senders, closed, publications, stop, ch, spc, ppc, got>>

\* case <-p.stop: the subscribers are forgotten; their channels stay open.
ListenStop ==
    /\ lpc = "select"
    /\ stop = "closed"
    /\ lpc' = "stopped"
    /\ subscribers' = [t \in Topic |-> <<>>]
    /\ UNCHANGED <<inHand, senders, closed, publications, stop, ch, spc, ppc, got>>

Listen ==
    \/ \E s \in Subscription : ListenRegister(s) \/ ListenUnregister(s)
    \/ ListenPublication
    \/ ListenDelivered
    \/ ListenStop

LNext ==
    \/ Connect
    \/ Disconnect
    \/ \E p \in Pub : CallPublish(p) \/ Publish(p)
    \/ \E s \in Subscription : Subscribe(s) \/ Unsubscribe(s) \/ Read(s) \/ Send(s)
    \/ Listen

LSpec == LInit /\ [][LNext]_lvars

\* Goroutines that can run do, select takes a branch that stays ready, and every
\* subscriber reads its channel for as long as something comes.
LFairness ==
    /\ WF_lvars(Connect)
    /\ WF_lvars(ListenPublication)
    /\ WF_lvars(ListenDelivered)
    /\ WF_lvars(ListenStop)
    /\ \A p \in Pub : WF_lvars(Publish(p))
    /\ \A s \in Subscription : /\ SF_lvars(ListenRegister(s))
                               /\ SF_lvars(ListenUnregister(s))
                               /\ WF_lvars(Send(s))
                               /\ WF_lvars(Read(s))

LFairSpec == LSpec /\ LFairness

-----------------------------------------------------------------------------
\* listen: a goroutine delivering a publication never has a channel that was
\* closed (which would panic), although subscribers come and go meanwhile.
NoSendOnClosed == senders \cap closed = {}

\* The publications handed to a subscription: those it read, those in its
\* channel, and the one in the hands of its goroutine.
Feed(s) == got[s] \o ch[s] \o IF s \in senders THEN <<inHand>> ELSE <<>>

Feeds == [s \in Subscription |-> Feed(s)]
Active == {s \in Subscription : s \in Range(subscribers[TopicOf[s]])}

Broadcast == INSTANCE TopicBroadcast
    WITH accepted <- publications, active <- Active, feed <- Feeds, ended <- closed

\* Publish, Subscribe and listen together implement an atomic broadcast: every
\* subscriber gets the publications of its topic between its registration and
\* its unregistration, each once and in the order Publish accepted them, and
\* its channel is closed after the last.
IsBroadcast == Broadcast!BSpec

\* Publish returns, as long as subscribers read their channels and the service
\* is not disconnected.
PublishReturns ==
    \A p \in Pub : ppc[p] = "publishing" ~> ppc[p] = "published" \/ stop = "closed"

\* A subscriber that unsubscribes finds its channel closed in the end, unless
\* the service is disconnected.
UnsubscribeCloses ==
    \A s \in Subscription : spc[s] = "unregistering" ~> s \in closed \/ stop = "closed"
=============================================================================
