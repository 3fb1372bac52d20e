---------------------------- MODULE MCPushEvents ----------------------------
(* PushEvents on small instances. *)
EXTENDS PushEvents, MCPush

CONSTANT p1

\* An application that pushes two events in one call.
TwoInOneCall == p1 :> <<<<e1, e2>>>>

NoMessages == s1 :> 0
=============================================================================
