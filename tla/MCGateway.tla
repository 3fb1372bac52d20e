----------------------------- MODULE MCGateway ------------------------------
(* A small instance of Gateway. *)
EXTENDS Gateway, TLC

CONSTANTS r1, r2, p1

MCSource == r1 :> "token" @@ r2 :> "token"

\* An interceptor that is not registered, fails, stops, forwards with and without
\* an upstream of its own, or forwards as a websocket or directly.
MCResults ==
    {[action |-> "none", upstream |-> FALSE, err |-> FALSE],
     [action |-> "none", upstream |-> FALSE, err |-> TRUE],
     [action |-> "stop", upstream |-> FALSE, err |-> FALSE],
     [action |-> "forward", upstream |-> TRUE, err |-> FALSE],
     [action |-> "ws", upstream |-> TRUE, err |-> FALSE],
     [action |-> "direct", upstream |-> FALSE, err |-> FALSE]}
=============================================================================
