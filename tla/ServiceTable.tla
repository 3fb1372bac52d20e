---------------------------- MODULE ServiceTable ----------------------------
(***************************************************************************)
(* listenServices of the gateway's upstreamer (upstreamer.go, services.go, *)
(* utils.go): from the pings it keeps the services with their endpoints,   *)
(* and from those the table apis in which Upstream finds endpoints.        *)
(*                                                                         *)
(* An endpoint is a service with the address of a ping, after              *)
(* overrideEndpointAddress.  lastSeen is abstracted to whether             *)
(* serviceTimeout has passed since.  services is private to the goroutine, *)
(* so a step is one iteration of its loop; the table is replaced under a   *)
(* lock that waits for the readers.                                        *)
(***************************************************************************)
EXTENDS Notifier, Integers, FiniteSets

CONSTANTS
    Service,            \* the keys of services: prefix/name
    NameOf,             \* [Service -> names]: the key without the prefix
    Address,
    Api,                \* the keys of the table: prefix/identity
    EndpointOf,         \* [Notifier -> Service \X Address]
    RoutesInfo,         \* [Service -> SUBSET (Api \X BOOLEAN)]: route, private
    PrivateOverrides,   \* [Service -> set of <<route, private>>]
    ExposePrivateAPIs,  \* BOOLEAN
    EventsAPIs,         \* [Service -> SUBSET Api]
    APILimiters,        \* [Service -> [Api -> burst announced, or NoLimiter]]
    RequiredServices,   \* sequence of names
    Caller              \* the goroutines that call Upstream

NoLimiter == -1
Endpoint == {EndpointOf[n] : n \in Notifier}
Required == {RequiredServices[i] : i \in DOMAIN RequiredServices}

ASSUME TableAssumption ==
    /\ IsFiniteSet(Api)
    /\ EndpointOf \in [Notifier -> Service \X Address]
    /\ RoutesInfo \in [Service -> SUBSET (Api \X BOOLEAN)]
    /\ PrivateOverrides \in [Service -> SUBSET (Api \X BOOLEAN)]
    /\ ExposePrivateAPIs \in BOOLEAN
    /\ EventsAPIs \in [Service -> SUBSET Api]
    /\ APILimiters \in [Service -> [Api -> Nat \cup {NoLimiter}]]
    /\ NameOf \in [Service -> {NameOf[s] : s \in Service}]
    /\ RequiredServices \in Seq({NameOf[s] : s \in Service})

VARIABLES
    endpoints,      \* SUBSET Endpoint: registered; a service without is no service
    outdated,       \* SUBSET Endpoint: not seen for serviceTimeout
    routes,         \* [Service -> SUBSET (Api \X BOOLEAN)]
    limiters,       \* [Endpoint -> [burst : [Api -> Int], adjusted : Nat, raced : BOOLEAN]]
    apis,           \* [Api -> SUBSET Endpoint]: the table
    latencies,      \* SUBSET Address: those with samples
    heard,          \* SUBSET Required: has said hello
    ready,          \* BOOLEAN: the channel that Start returned is closed
    readers         \* SUBSET Caller: hold the lock of the table for reading

pingVars == <<heard, ready>>
serviceVars == <<endpoints, outdated, routes, limiters, apis, latencies, pingVars>>
tableVars == <<notifierVars, serviceVars, readers>>

TableTypeOK ==
    /\ NotifierTypeOK
    /\ endpoints \in SUBSET Endpoint
    /\ outdated \in SUBSET endpoints
    /\ routes \in [Service -> SUBSET (Api \X BOOLEAN)]
    /\ limiters \in [Endpoint -> [burst : [Api -> Int], adjusted : Nat, raced : BOOLEAN]]
    /\ apis \in [Api -> SUBSET Endpoint]
    /\ latencies \in SUBSET Address
    /\ heard \in SUBSET Required
    /\ ready \in BOOLEAN
    /\ readers \in SUBSET Caller

\* registerEndpoint instantiates the limiters announced, adjusted at the zero
\* time.  raced is history: an Upstream call that a change of peers overtook
\* set the burst last.
NewLimiters(e) == [burst |-> APILimiters[e[1]], adjusted |-> 0, raced |-> FALSE]

TableInit ==
    /\ NotifierInit
    /\ endpoints = {}
    /\ outdated = {}
    /\ routes = [s \in Service |-> {}]
    /\ limiters = [e \in Endpoint |-> NewLimiters(e)]
    /\ apis = [k \in Api |-> {}]
    /\ latencies = {}
    /\ heard = {}
    /\ ready = (RequiredServices = <<>>)
    /\ readers = {}

-----------------------------------------------------------------------------
\* The routes of a ping: the start hook replaces the private flags it is told
\* to override.
PingRoutes(s) ==
    {r \in RoutesInfo[s] : \A o \in PrivateOverrides[s] : o[1] # r[1]}
      \cup {o \in PrivateOverrides[s] : \E r \in RoutesInfo[s] : r[1] = o[1]}

\* What the gateway offers to clients of a service with these routes.
Offered(s, rts) ==
    {r[1] : r \in {q \in rts : ~q[2] \/ ExposePrivateAPIs}} \cup EventsAPIs[s]

Of(s, eps) == {e \in eps : e[1] = s}

Offering(k, eps, rts) == {s \in Service : Of(s, eps) # {} /\ k \in Offered(s, rts[s])}

\* resyncRoutes: of several services that offer the same key, the one that the
\* iteration over the map reaches last has it.
resyncRoutes(eps, rts) ==
    apis' \in {[k \in Api |-> IF Offering(k, eps, rts) = {} THEN {} ELSE Of(last[k], eps)] :
                 last \in {f \in [Api -> Service] : \A k \in Api :
                             Offering(k, eps, rts) # {} => f[k] \in Offering(k, eps, rts)}}

\* handleAddServicePing for an endpoint that is not registered.
handleAddServicePing(e) ==
    /\ endpoints' = endpoints \cup {e}
    /\ routes' = [routes EXCEPT ![e[1]] = PingRoutes(e[1])]
    /\ limiters' = [limiters EXCEPT ![e] = NewLimiters(e)]
    /\ resyncRoutes(endpoints', routes')

\* Mutant: the table is not made again.
RemoveServicePingOnly(e) ==
    /\ endpoints' = endpoints \ {e}
    /\ outdated' = outdated \ {e}
    /\ routes' = [routes EXCEPT ![e[1]] = IF Of(e[1], endpoints) = {e} THEN {} ELSE @]
    /\ UNCHANGED apis

\* handleRemoveServicePing for an endpoint that is registered; the service goes
\* with its last one.
handleRemoveServicePing(e) ==
    /\ endpoints' = endpoints \ {e}
    /\ outdated' = outdated \ {e}
    /\ routes' = [routes EXCEPT ![e[1]] = IF Of(e[1], endpoints) = {e} THEN {} ELSE @]
    /\ resyncRoutes(endpoints', routes')

\* Mutant: one hello from any required service is enough.
MarkAnyRequired(s) ==
    /\ heard' = IF ready THEN heard ELSE heard \cup ({NameOf[s]} \cap Required)
    /\ ready' = (ready \/ heard' # {})

\* Mutant: one hello too many is waited for.
MarkMoreThanRequired(s) ==
    /\ heard' = IF ready THEN heard ELSE heard \cup ({NameOf[s]} \cap Required)
    /\ ready' = (ready \/ Cardinality(heard') > Len(RequiredServices))

\* The bookkeeping after a hello: ready is closed once as many of the required
\* services were heard as are configured.
MarkRequired(s) ==
    /\ heard' = IF ready THEN heard ELSE heard \cup ({NameOf[s]} \cap Required)
    /\ ready' = (ready \/ Cardinality(heard') = Len(RequiredServices))

-----------------------------------------------------------------------------
\* The next ping on the channel has this status and sender.
Receive(st, n) ==
    /\ pubs # <<>>
    /\ Head(pubs) = [from |-> n, status |-> st]
    /\ pubs' = Tail(pubs)
    /\ UNCHANGED <<phase, readers>>

\* A hello of a registered endpoint: pokeEndpoint.
HelloAgain(n) ==
    /\ Receive("hello", n)
    /\ EndpointOf[n] \in endpoints
    /\ outdated' = outdated \ {EndpointOf[n]}
    /\ MarkRequired(EndpointOf[n][1])
    /\ UNCHANGED <<endpoints, routes, limiters, apis, latencies>>

\* Mutant: hellos only refresh what is registered.
HelloNewIgnored(n) ==
    /\ Receive("hello", n)
    /\ EndpointOf[n] \notin endpoints
    /\ MarkRequired(EndpointOf[n][1])
    /\ UNCHANGED <<endpoints, outdated, routes, limiters, apis, latencies>>

\* A hello of a new one: registered, and the table made again.
HelloNew(n) ==
    /\ Receive("hello", n)
    /\ EndpointOf[n] \notin endpoints
    /\ readers = {}
    /\ handleAddServicePing(EndpointOf[n])
    /\ MarkRequired(EndpointOf[n][1])
    /\ UNCHANGED <<outdated, latencies>>

\* A goodbye of an endpoint that is not registered.
GoodbyeUnknown(n) ==
    /\ Receive("goodbye", n)
    /\ EndpointOf[n] \notin endpoints
    /\ UNCHANGED serviceVars

\* Mutant: the table is replaced without its lock.
GoodbyeWithoutLock(n) ==
    /\ Receive("goodbye", n)
    /\ EndpointOf[n] \in endpoints
    /\ handleRemoveServicePing(EndpointOf[n])
    /\ latencies' = latencies \ {EndpointOf[n][2]}
    /\ UNCHANGED <<limiters, pingVars>>

\* A goodbye of a registered one.
GoodbyeKnown(n) ==
    /\ Receive("goodbye", n)
    /\ EndpointOf[n] \in endpoints
    /\ readers = {}
    /\ handleRemoveServicePing(EndpointOf[n])
    /\ latencies' = latencies \ {EndpointOf[n][2]}
    /\ UNCHANGED <<limiters, pingVars>>

\* serviceTimeout has passed since the last hello of an endpoint.
Age(e) ==
    /\ e \in endpoints \ outdated
    /\ outdated' = outdated \cup {e}
    /\ UNCHANGED <<notifierVars, endpoints, routes, limiters, apis, latencies,
                   pingVars, readers>>

\* Mutant: a tick only deletes the latencies of outdated endpoints.
SweepLatencies(e) ==
    /\ e \in outdated
    /\ latencies' = latencies \ {o[2] : o \in outdated}
    /\ UNCHANGED <<notifierVars, endpoints, outdated, routes, limiters, apis,
                   pingVars, readers>>

\* A tick that finds outdated endpoints.  foundOutdated || handleRemove... calls
\* handleRemoveServicePing for the first one only, whichever the iterations over
\* the maps give first; the latencies of all of them are deleted.
Sweep(e) ==
    /\ e \in outdated
    /\ readers = {}
    /\ handleRemoveServicePing(e)
    /\ latencies' = latencies \ {o[2] : o \in outdated}
    /\ UNCHANGED <<notifierVars, limiters, pingVars, readers>>

ReceivePing ==
    \E n \in Notifier :
      HelloAgain(n) \/ HelloNew(n) \/ GoodbyeUnknown(n) \/ GoodbyeKnown(n)

listenServices == ReceivePing \/ \E e \in Endpoint : Age(e) \/ Sweep(e)

\* The callers of Upstream, as far as the table is concerned.
RLock(c) ==
    /\ c \notin readers
    /\ readers' = readers \cup {c}
    /\ UNCHANGED <<notifierVars, serviceVars>>

RUnlock(c) ==
    /\ c \in readers
    /\ readers' = readers \ {c}
    /\ UNCHANGED <<notifierVars, serviceVars>>

NotifiersStep ==
    \E n \in Notifier : NotifierStep(n) /\ UNCHANGED <<serviceVars, readers>>

TableNext ==
    \/ NotifiersStep
    \/ listenServices
    \/ \E c \in Caller : RLock(c) \/ RUnlock(c)

\* The goroutines run; of the outdated endpoints the random iteration order
\* leaves none aside forever; of a notifier's hellos not all are lost.
TableFairness ==
    /\ SF_tableVars(ReceivePing)
    /\ \A e \in Endpoint : WF_tableVars(Age(e)) /\ SF_tableVars(Sweep(e))
    /\ \A c \in Caller : WF_tableVars(RUnlock(c))
    /\ \A n \in Notifier :
         /\ WF_tableVars((Tick(n) \/ Hello(n)) /\ UNCHANGED <<serviceVars, readers>>)
         /\ []<><<Hello(n)>>_tableVars => []<><<Hello(n) /\ Arrives(n, "hello")>>_tableVars

TableSpec == TableInit /\ [][TableNext]_tableVars
FairTableSpec == TableSpec /\ TableFairness

-----------------------------------------------------------------------------
\* resyncRoutes is called wherever it is needed: after any history of pings,
\* timeouts and sweeps, a key leads to all the endpoints of one registered
\* service that offers it, and to none only if no registered service does.
TableMatchesServices ==
    \A k \in Api :
      IF Offering(k, endpoints, routes) = {}
        THEN apis[k] = {}
        ELSE \E s \in Offering(k, endpoints, routes) : apis[k] = Of(s, endpoints)

\* The ready channel that Start returns is closed only once every required service
\* has said hello, whatever is repeated, lost or followed by a goodbye.
ReadyMeansHeard == ready => heard = Required

\* An instance that ends without its goodbye, crashed or unheard, is forgotten:
\* its endpoint leaves the table for good although a sweep removes one endpoint
\* only, other endpoints come and go, and late hellos may still be on their way.
DeadIsForgotten ==
    \A n \in Notifier :
      <>[]Dead(n) => <>[](\A k \in Api : EndpointOf[n] \notin apis[k])

\* An instance that keeps pinging is found again after every sweep.
AliveIsRouted ==
    \A n \in Notifier : <>[]Alive(n) => []<>(EndpointOf[n] \in endpoints)

\* The gateway becomes ready if its required services stay up.
RequiredMakeReady ==
    (\A nm \in Required : \E n \in Notifier :
        NameOf[EndpointOf[n][1]] = nm /\ <>[]Alive(n)) => <>ready
=============================================================================
