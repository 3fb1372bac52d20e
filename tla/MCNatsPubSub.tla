---------------------------- MODULE MCNatsPubSub ----------------------------
(* NatsPubSub on small instances. *)
EXTENDS NatsPubSub, TLC

CONSTANTS q1, q2, q3, c1, c2

\* One request of each mode, and one request alone.
Modes == (q1 :> "publication") @@ (q2 :> "ack") @@ (q3 :> "none")
OneRequest == q1 :> "publication"
=============================================================================
