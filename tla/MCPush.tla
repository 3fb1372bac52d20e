------------------------------- MODULE MCPush -------------------------------
(* Values for the constants of PushServer, shared by its TLC instances. *)
EXTENDS TLC

CONSTANTS s1, s2, e1, e2, a, b

TwoEvents == (e1 :> a) @@ (e2 :> b)
OneEvent == e1 :> a

\* Filters on one identity: each lets one event through and not the other.
OnA == {a}
OnB == {b}
OnAOrOnB == {OnA, OnB}
OnlyOnB == {OnB}

\* A push on a must also trigger a push on b, or not.
BRelatedToA == (a :> {b}) @@ (b :> {})
Unrelated == (a :> {}) @@ (b :> {})

\* Messages of the clients.
OneAndNone == (s1 :> 1) @@ (s2 :> 0)
Two == s1 :> 2
=============================================================================
