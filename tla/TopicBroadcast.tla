--------------------------- MODULE TopicBroadcast ---------------------------
(***************************************************************************)
(* What an in-process pubsub service promises: publications are accepted   *)
(* in one order, and each is handed, in that order and in one step, to     *)
(* everybody who is subscribed to its topic at that moment.                *)
(***************************************************************************)
EXTENDS Naturals, Sequences

CONSTANTS
    Subscription,  \* the calls of Subscribe, each with a channel of its own
    Pub,           \* the publications
    Topic,
    TopicOf        \* [Subscription \cup Pub -> Topic]

VARIABLES
    accepted,      \* Seq(Pub): accepted and not broadcast yet
    active,        \* SUBSET Subscription: who is subscribed
    feed,          \* [Subscription -> Seq(Pub)]: all that each was handed
    ended          \* SUBSET Subscription: told that nothing more will come

bvars == <<accepted, active, feed, ended>>

BInit ==
    /\ accepted = <<>>
    /\ active = {}
    /\ feed = [s \in Subscription |-> <<>>]
    /\ ended = {}

Accept(p) ==
    /\ accepted' = Append(accepted, p)
    /\ UNCHANGED <<active, feed, ended>>

Join(s) ==
    /\ s \notin active \cup ended
    /\ active' = active \cup {s}
    /\ UNCHANGED <<accepted, feed, ended>>

\* From here on the subscriber gets nothing, and it is told so.
Leave(s) ==
    /\ s \in active
    /\ active' = active \ {s}
    /\ ended' = ended \cup {s}
    /\ UNCHANGED <<accepted, feed>>

Broadcast ==
    /\ accepted # <<>>
    /\ accepted' = Tail(accepted)
    /\ feed' = [s \in Subscription |->
                  IF s \in active /\ TopicOf[s] = TopicOf[Head(accepted)]
                    THEN Append(feed[s], Head(accepted))
                    ELSE feed[s]]
    /\ UNCHANGED <<active, ended>>

\* The service is disconnected: nobody is subscribed any more.
Shutdown ==
    /\ active' = {}
    /\ UNCHANGED <<accepted, feed, ended>>

BNext ==
    \/ \E p \in Pub : Accept(p)
    \/ \E s \in Subscription : Join(s) \/ Leave(s)
    \/ Broadcast
    \/ Shutdown

BSpec == BInit /\ [][BNext]_bvars
=============================================================================
