------------------------------ MODULE MCServer ------------------------------
(* A small instance of Server. *)
EXTENDS Server

\* The decider of the mtls verifiers leaves their verdicts as they are.
PlainDecider == [v \in {"ok", "ko", "continue"} |-> v]
=============================================================================
