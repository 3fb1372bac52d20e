------------------------- MODULE PushDispatchHistory -------------------------
(***************************************************************************)
(* PushServer with two history variables, which record what was true of    *)
(* each session at some moment since the dispatcher of an event started.   *)
(* They say what a dispatcher's three separate reads of a session that     *)
(* changes beside it amount to.                                            *)
(***************************************************************************)
EXTENDS PushServer

VARIABLES
    open,          \* [Event -> SUBSET Session]: a configuration of the session
                   \*   in force since then lets the event through
    calm           \* [Event -> SUBSET Session]: the session was out of the
                   \*   error state at some moment since then

hvars == <<vars, open, calm>>

HTypeOK ==
    /\ TypeOK
    /\ open \in [Event -> SUBSET Session]
    /\ calm \in [Event -> SUBSET Session]

HInit ==
    /\ Init
    /\ open = [e \in Event |-> {}]
    /\ calm = [e \in Event |-> {}]

Dispatching(pc) == pc \notin {"none", "created", "received", "done"}

\* Taken with every step.
Record ==
    /\ open' = [e \in Event |->
                  {s \in Session : /\ Dispatching(dpc'[e])
                                   /\ \/ s \in open[e]
                                      \/ LetsThrough(pushConfig'[s], Identities(e))}]
    /\ calm' = [e \in Event |->
                  {s \in Session : /\ Dispatching(dpc'[e])
                                   /\ \/ s \in calm[e]
                                      \/ s \notin errorState'}]

HNext == Next /\ Record

HSpec == HInit /\ [][HNext]_hvars

\* The dispatcher's checks against a listen loop that runs beside it: when a
\* dispatcher is about to send, the session was out of the error state at some
\* moment since the dispatcher started and one of its configurations since then
\* lets the event through.  (The two moments may differ, and may be past.)
SendsAreJustified ==
    \A e \in Event : dpc[e] = "sending" => current[e] \subseteq open[e] \cap calm[e]
=============================================================================
