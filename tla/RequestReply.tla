---------------------------- MODULE RequestReply ----------------------------
(***************************************************************************)
(* What a publication that asks for an answer promises.  The subscriber    *)
(* receives it at most once, and keeps it.  Of the replies to it one at    *)
(* most counts, and none once it has expired.  The publisher is told of a  *)
(* success only after what it asked for has happened; it may be told of an *)
(* error at any time, and the publication may then still be received.      *)
(***************************************************************************)
CONSTANTS
    Request,       \* the publications
    Mode,          \* [Request -> {"none", "ack", "publication"}]: what is asked for
    Caller,        \* those who reply
    NoCaller

VARIABLES
    told,          \* [Request -> {"nothing", "wait", "success", "error"}]
    received,      \* SUBSET Request
    reply,         \* [Request -> Caller \cup {NoCaller}]: whose reply counts
    expired        \* SUBSET Request

xvars == <<told, received, reply, expired>>

XInit ==
    /\ told = [r \in Request |-> "nothing"]
    /\ received = {}
    /\ reply = [r \in Request |-> NoCaller]
    /\ expired = {}

Tell(r, what) ==
    /\ told' = [told EXCEPT ![r] = what]
    /\ UNCHANGED <<received, reply, expired>>

Ask(r) ==
    /\ told[r] = "nothing"
    /\ Tell(r, IF Mode[r] = "none" THEN "success" ELSE "wait")

Fail(r) == told[r] \in {"nothing", "wait"} /\ Tell(r, "error")

Succeed(r) ==
    /\ told[r] = "wait"
    /\ Mode[r] = "ack" => r \in received
    /\ Mode[r] = "publication" => reply[r] # NoCaller
    /\ Tell(r, "success")

Receive(r) ==
    /\ told[r] # "nothing"
    /\ r \notin received
    /\ received' = received \cup {r}
    /\ UNCHANGED <<told, reply, expired>>

Reply(r, c) ==
    /\ Mode[r] = "publication"
    /\ r \in received \ expired
    /\ reply[r] = NoCaller
    /\ reply' = [reply EXCEPT ![r] = c]
    /\ UNCHANGED <<told, received, expired>>

Expire(r) ==
    /\ r \in received
    /\ reply[r] = NoCaller
    /\ expired' = expired \cup {r}
    /\ UNCHANGED <<told, received, reply>>

XNext ==
    \E r \in Request :
      \/ Ask(r) \/ Fail(r) \/ Succeed(r)
      \/ Receive(r) \/ Expire(r)
      \/ \E c \in Caller : Reply(r, c)

XSpec == XInit /\ [][XNext]_xvars
=============================================================================
