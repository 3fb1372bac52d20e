---------------------------- MODULE MCUpstreamer ----------------------------
(* Small instances of Upstreamer. *)
EXTENDS Upstreamer, TLC

CONSTANTS n1, n2, s1, a1, a2, k1, k2, c1, c2, p1

MCEndpointOf == n1 :> <<s1, a1>> @@ n2 :> <<s1, a2>>
MCRoutesInfo == s1 :> (Api \X {FALSE})
MCPrivateOverrides == s1 :> {}
MCEventsAPIs == s1 :> {}
MCAPILimiters == s1 :> [k \in Api |-> 3]
MCNameOf == s1 :> "s1"
NoneRequired == <<>>
Callers == Permutations(Caller)

\* Both instances are registered and then stop; the first one's goodbye, and a
\* hello after it, are still on their way.  From here the gateway runs alone: its
\* peers and its requests come and go.  ExtractRates, which writes nothing that
\* Upstream reads, is checked with Gateway.
SettledInit ==
    /\ RatesInit
    /\ call = [c \in Caller |-> CIdle]
    /\ phase = [n \in Notifier |-> "said"]
    /\ pubs = <<[from |-> n1, status |-> "goodbye"], [from |-> n1, status |-> "hello"]>>
    /\ endpoints = Endpoint
    /\ outdated = {}
    /\ routes = [s \in Service |-> PingRoutes(s)]
    /\ limiters = [e \in Endpoint |-> NewLimiters(e)]
    /\ apis = [k \in Api |-> Endpoint]
    /\ latencies = {}
    /\ heard = Required
    /\ ready = TRUE
    /\ readers = {}

SettledSpec == SettledInit /\ [][UpstreamerStep]_upstreamerVars
=============================================================================
