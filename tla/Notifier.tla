------------------------------ MODULE Notifier ------------------------------
(***************************************************************************)
(* The notifiers (gateway/upstreamer/push/notifier.go): every instance of  *)
(* a service announces itself to the gateways with hello pings, from a     *)
(* goroutine its start hook leaves behind, and its stop hook says goodbye. *)
(* Nothing orders the two: a hello that was about to be published when the *)
(* context was cancelled follows the goodbye.                              *)
(*                                                                         *)
(* pubs is the channel of one gateway, on which the pings of the service   *)
(* topics arrive.  The pubsub service is external: it keeps the order and  *)
(* may lose any ping.  A ping that cannot be decoded is a lost one.        *)
(***************************************************************************)
EXTENDS Naturals, Sequences

CONSTANTS
    Notifier,       \* the instances
    PubsCap         \* bound on the pings in flight

VARIABLES
    phase,          \* [Notifier -> Phase]
    pubs            \* Seq([from : Notifier, status : Status])

notifierVars == <<phase, pubs>>

\* "waiting" and "pinging" are the positions of the goroutine while the service
\* runs; after the stop hook it has ended, "said", or is "late".
Phase == {"off", "waiting", "pinging", "late", "said", "gone"}
Status == {"hello", "goodbye"}

NotifierTypeOK ==
    /\ phase \in [Notifier -> Phase]
    /\ pubs \in Seq([from : Notifier, status : Status])

NotifierInit ==
    /\ phase = [n \in Notifier |-> "off"]
    /\ pubs = <<>>

Go(n, from, to) ==
    /\ phase[n] = from
    /\ phase' = [phase EXCEPT ![n] = to]

\* Publish, for this gateway: the ping arrives, or it does not.
Arrives(n, status) ==
    /\ Len(pubs) < PubsCap
    /\ pubs' = Append(pubs, [from |-> n, status |-> status])

Publish(n, status) == Arrives(n, status) \/ UNCHANGED pubs

-----------------------------------------------------------------------------
\* MakeStartHook: the first hello, then the goroutine.
StartHook(n) == Go(n, "off", "waiting") /\ Publish(n, "hello")

\* An error of the start hook ends the process.
StartHookFails(n) == Go(n, "off", "gone") /\ UNCHANGED pubs

\* The time between two pings is over: the load is measured and encoded.
Tick(n) == Go(n, "waiting", "pinging") /\ UNCHANGED pubs

\* The goroutine publishes its hello.
Hello(n) ==
    /\ Go(n, "pinging", "waiting") \/ Go(n, "late", "said")
    /\ Publish(n, "hello")

\* The context is cancelled, which ends a waiting goroutine, and Run calls the
\* stop hook: MakeStopHook's goodbye, acknowledged by some gateway or not.
StopHook(n) ==
    /\ Go(n, "waiting", "said") \/ Go(n, "pinging", "late")
    /\ Publish(n, "goodbye")

\* A second later Disconnect, or Run goes on after the error of the stop hook.
Disconnect(n) ==
    /\ Go(n, "said", "gone") \/ Go(n, "late", "gone")
    /\ UNCHANGED pubs

\* The process dies.
Crash(n) ==
    /\ Go(n, "waiting", "gone") \/ Go(n, "pinging", "gone")
    /\ UNCHANGED pubs

\* The instance is started again, at the same address.
Restart(n) == Go(n, "gone", "off") /\ UNCHANGED pubs

NotifierStep(n) ==
    \/ StartHook(n) \/ StartHookFails(n)
    \/ Tick(n) \/ Hello(n)
    \/ StopHook(n) \/ Disconnect(n)
    \/ Crash(n) \/ Restart(n)

\* The instance runs and pings, or has ended.
Alive(n) == phase[n] \in {"waiting", "pinging"}
Dead(n) == phase[n] = "gone"
=============================================================================
