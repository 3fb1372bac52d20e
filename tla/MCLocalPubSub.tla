--------------------------- MODULE MCLocalPubSub ---------------------------
(* LocalPubSub with two topics, of which one has two subscribers. *)
EXTENDS LocalPubSub, TLC

CONSTANTS r1, r2, r3, p1, p2, p3, t1, t2

\* One publication, and one subscription if there are three, on the second topic.
Topics == [x \in Subscription \cup Pub |-> IF x \in {r3, p3} THEN t2 ELSE t1]
=============================================================================
