---------------------------- MODULE TableProofs -----------------------------
(***************************************************************************)
(* The service table of the gateway, for any services, instances, routes   *)
(* and callers: it follows the registered services, and the gateway is     *)
(* ready only when all the required ones were heard.                       *)
(***************************************************************************)
EXTENDS ServiceTable, FiniteSetTheorems, TLAPS

\* The table, with its variables' types, which the other two facts rest on.
TableInv == TableTypeOK /\ TableMatchesServices /\ ReadyMeansHeard

Limiters == [burst : [Api -> Int], adjusted : Nat, raced : BOOLEAN]

ServiceTypeOK ==
    /\ endpoints \in SUBSET Endpoint
    /\ outdated \in SUBSET endpoints
    /\ routes \in [Service -> SUBSET (Api \X BOOLEAN)]
    /\ limiters \in [Endpoint -> Limiters]
    /\ apis \in [Api -> SUBSET Endpoint]
    /\ latencies \in SUBSET Address
    /\ heard \in SUBSET Required
    /\ ready \in BOOLEAN

-----------------------------------------------------------------------------
(* The operators. *)

\* The endpoints are pairs of a service and an address.
LEMMA EndpointType ==
    ASSUME NEW e \in Endpoint
    PROVE  e[1] \in Service /\ e[2] \in Address
BY TableAssumption DEF Endpoint

\* Every notifier has an endpoint.
LEMMA NotifierEndpoint ==
    ASSUME NEW n \in Notifier
    PROVE  EndpointOf[n] \in Endpoint
BY DEF Endpoint

\* The routes of a ping are those announced, or overridden.
LEMMA PingRoutesType ==
    ASSUME NEW s \in Service
    PROVE  PingRoutes(s) \in SUBSET (Api \X BOOLEAN)
<1>1. RoutesInfo[s] \in SUBSET (Api \X BOOLEAN) /\ PrivateOverrides[s] \in SUBSET (Api \X BOOLEAN)
  BY TableAssumption
<1> QED
  BY <1>1 DEF PingRoutes

\* A new endpoint has the limiters announced.
LEMMA NewLimitersType ==
    ASSUME NEW e \in Endpoint
    PROVE  NewLimiters(e) \in Limiters
<1>1. APILimiters[e[1]] \in [Api -> Nat \cup {NoLimiter}]
  BY EndpointType, TableAssumption
<1>2. APILimiters[e[1]] \in [Api -> Int]
  BY <1>1 DEF NoLimiter
<1> QED
  BY <1>2 DEF NewLimiters, Limiters

\* resyncRoutes makes a table that matches the services it is given.
LEMMA ResyncMatches ==
    ASSUME NEW eps \in SUBSET Endpoint, NEW rts, resyncRoutes(eps, rts)
    PROVE  /\ apis' \in [Api -> SUBSET Endpoint]
           /\ \A k \in Api :
                IF Offering(k, eps, rts) = {}
                  THEN apis'[k] = {}
                  ELSE \E s \in Offering(k, eps, rts) : apis'[k] = Of(s, eps)
<1>1. PICK last \in [Api -> Service] :
        /\ \A k \in Api : Offering(k, eps, rts) # {} => last[k] \in Offering(k, eps, rts)
        /\ apis' = [k \in Api |-> IF Offering(k, eps, rts) = {} THEN {} ELSE Of(last[k], eps)]
  BY DEF resyncRoutes
<1>2. \A s : Of(s, eps) \in SUBSET Endpoint
  BY DEF Of
<1> QED
  BY <1>1, <1>2

\* At most as many services are required as the option names.
LEMMA RequiredCount ==
    ASSUME NEW S \in SUBSET Required, Cardinality(S) = Len(RequiredServices)
    PROVE  S = Required
<1> DEFINE n == Len(RequiredServices)
<1>1. n \in Nat /\ DOMAIN RequiredServices = 1..n
  BY TableAssumption
<1>2. IsFiniteSet(1..n) /\ Cardinality(1..n) = n
  <2> HIDE DEF n
  <2>1. 1 \in Int /\ n \in Int
    BY <1>1
  <2>2. IsFiniteSet(1..n) /\ Cardinality(1..n) = IF 1 > n THEN 0 ELSE n - 1 + 1
    BY <2>1, FS_Interval, Zenon
  <2> QED
    BY <1>1, <2>2
<1>3. IsFiniteSet(Required) /\ Cardinality(Required) <= n
  <2>1. RequiredServices \in Surjection(1..n, Required)
    <3>1. RequiredServices \in [1..n -> Required]
      BY <1>1, TableAssumption DEF Required
    <3> QED
      BY <1>1, <3>1 DEF Surjection, Required
  <2> QED
    BY <1>2, <2>1, FS_Surjection
<1> QED
  BY <1>1, <1>3, FS_Subset, FS_CardinalityType

-----------------------------------------------------------------------------
(* The steps. *)

ServiceInv == ServiceTypeOK /\ TableMatchesServices /\ ReadyMeansHeard

\* The bookkeeping of the hellos: the count reaches the number of names in the
\* option only with all of them.
LEMMA Marks ==
    ASSUME ServiceInv, NEW s, MarkRequired(s)
    PROVE  /\ heard' \in SUBSET Required
           /\ ready' \in BOOLEAN
           /\ ReadyMeansHeard'
<1>1. heard' \in SUBSET Required
  BY DEF ServiceInv, ServiceTypeOK, MarkRequired
<1>2. ready' \in BOOLEAN
  BY DEF MarkRequired
<1>3. CASE ready
  BY <1>3 DEF ServiceInv, MarkRequired, ReadyMeansHeard, Required
<1>4. CASE ~ready
  <2>1. ready' => Cardinality(heard') = Len(RequiredServices)
    BY <1>4, ZenonT(40) DEF MarkRequired
  <2>2. ready' => heard' = Required
    BY <1>1, <2>1, RequiredCount
  <2> QED
    BY <1>1, <1>2, <2>2 DEF ReadyMeansHeard, Required
<1> QED
  BY <1>1, <1>2, <1>3, <1>4

\* A table just made matches the services.
LEMMA Resynced ==
    ASSUME endpoints' \in SUBSET Endpoint, resyncRoutes(endpoints', routes')
    PROVE  apis' \in [Api -> SUBSET Endpoint] /\ TableMatchesServices'
<1>1. /\ apis' \in [Api -> SUBSET Endpoint]
      /\ \A k \in Api :
           IF Offering(k, endpoints', routes') = {}
             THEN apis'[k] = {}
             ELSE \E s \in Offering(k, endpoints', routes') : apis'[k] = Of(s, endpoints')
  BY ResyncMatches
<1> QED
  BY <1>1 DEF TableMatchesServices, Offering, Offered, Of

\* A table that is kept matches if the services are kept too.
LEMMA Kept ==
    ASSUME TableMatchesServices, UNCHANGED <<endpoints, routes, apis>>
    PROVE  TableMatchesServices'
BY DEF TableMatchesServices, Offering, Offered, Of

\* An endpoint is removed, and its service with the last one.
LEMMA Removes ==
    ASSUME ServiceInv, NEW e \in Endpoint, handleRemoveServicePing(e)
    PROVE  /\ endpoints' \in SUBSET Endpoint
           /\ outdated' \in SUBSET endpoints'
           /\ routes' \in [Service -> SUBSET (Api \X BOOLEAN)]
           /\ apis' \in [Api -> SUBSET Endpoint]
           /\ TableMatchesServices'
<1>1. endpoints' \in SUBSET Endpoint /\ outdated' \in SUBSET endpoints'
  BY DEF ServiceInv, ServiceTypeOK, handleRemoveServicePing
<1>2. routes' \in [Service -> SUBSET (Api \X BOOLEAN)]
  <2>1. e[1] \in Service
    BY EndpointType
  <2> QED
    BY <2>1 DEF ServiceInv, ServiceTypeOK, handleRemoveServicePing
<1>3. resyncRoutes(endpoints', routes')
  BY DEF handleRemoveServicePing
<1> QED
  BY <1>1, <1>2, <1>3, Resynced

\* An endpoint is added, with the routes its ping announces.
LEMMA Adds ==
    ASSUME ServiceInv, NEW e \in Endpoint, handleAddServicePing(e)
    PROVE  /\ endpoints' \in SUBSET Endpoint
           /\ endpoints \subseteq endpoints'
           /\ routes' \in [Service -> SUBSET (Api \X BOOLEAN)]
           /\ limiters' \in [Endpoint -> Limiters]
           /\ apis' \in [Api -> SUBSET Endpoint]
           /\ TableMatchesServices'
<1>1. endpoints' \in SUBSET Endpoint /\ endpoints \subseteq endpoints'
  BY DEF ServiceInv, ServiceTypeOK, handleAddServicePing
<1>2. routes' \in [Service -> SUBSET (Api \X BOOLEAN)]
  <2>1. e[1] \in Service /\ PingRoutes(e[1]) \in SUBSET (Api \X BOOLEAN)
    BY EndpointType, PingRoutesType
  <2> QED
    BY <2>1 DEF ServiceInv, ServiceTypeOK, handleAddServicePing
<1>3. limiters' \in [Endpoint -> Limiters]
  BY NewLimitersType DEF ServiceInv, ServiceTypeOK, handleAddServicePing
<1>4. resyncRoutes(endpoints', routes')
  BY DEF handleAddServicePing
<1> QED
  BY <1>1, <1>2, <1>3, <1>4, Resynced

\* A step of listenServices keeps the table and the readiness right.
LEMMA ListenKeepsServices ==
    ASSUME ServiceInv, listenServices
    PROVE  ServiceInv'
<1>1. ASSUME NEW n \in Notifier, HelloAgain(n)
      PROVE  ServiceInv'
  <2>1. heard' \in SUBSET Required /\ ready' \in BOOLEAN /\ ReadyMeansHeard'
    BY <1>1, Marks DEF HelloAgain
  <2>2. TableMatchesServices'
    BY <1>1, Kept DEF HelloAgain, ServiceInv
  <2>3. outdated' \in SUBSET endpoints'
    BY <1>1 DEF HelloAgain, ServiceInv, ServiceTypeOK
  <2> QED
    BY <1>1, <2>1, <2>2, <2>3 DEF HelloAgain, ServiceInv, ServiceTypeOK, Required
<1>2. ASSUME NEW n \in Notifier, HelloNew(n)
      PROVE  ServiceInv'
  <2> DEFINE e == EndpointOf[n]
  <2>1. e \in Endpoint
    BY NotifierEndpoint
  <2>2. handleAddServicePing(e) /\ MarkRequired(e[1]) /\ UNCHANGED <<outdated, latencies>>
    BY <1>2 DEF HelloNew
  <2> HIDE DEF e
  <2>3. heard' \in SUBSET Required /\ ready' \in BOOLEAN /\ ReadyMeansHeard'
    BY <2>2, Marks
  <2>4. /\ endpoints' \in SUBSET Endpoint
        /\ endpoints \subseteq endpoints'
        /\ routes' \in [Service -> SUBSET (Api \X BOOLEAN)]
        /\ limiters' \in [Endpoint -> Limiters]
        /\ apis' \in [Api -> SUBSET Endpoint]
        /\ TableMatchesServices'
    BY <2>1, <2>2, Adds
  <2> QED
    BY <2>2, <2>3, <2>4 DEF ServiceInv, ServiceTypeOK, Required
<1>3. ASSUME NEW n \in Notifier, GoodbyeUnknown(n)
      PROVE  ServiceInv'
  <2>1. UNCHANGED serviceVars
    BY <1>3 DEF GoodbyeUnknown
  <2>2. TableMatchesServices'
    BY <2>1, Kept DEF serviceVars, ServiceInv
  <2> QED
    BY <2>1, <2>2 DEF serviceVars, pingVars, ServiceInv, ServiceTypeOK, ReadyMeansHeard, Required
<1>4. ASSUME NEW e \in Endpoint, NEW S \in SUBSET Address,
             handleRemoveServicePing(e), latencies' = latencies \ S,
             UNCHANGED <<limiters, pingVars>>
      PROVE  ServiceInv'
  <2>1. /\ endpoints' \in SUBSET Endpoint
        /\ outdated' \in SUBSET endpoints'
        /\ routes' \in [Service -> SUBSET (Api \X BOOLEAN)]
        /\ apis' \in [Api -> SUBSET Endpoint]
        /\ TableMatchesServices'
    BY <1>4, Removes
  <2> QED
    BY <1>4, <2>1 DEF pingVars, ServiceInv, ServiceTypeOK, ReadyMeansHeard, Required
<1>5. ASSUME NEW n \in Notifier, GoodbyeKnown(n)
      PROVE  ServiceInv'
  <2>1. EndpointOf[n] \in Endpoint /\ {EndpointOf[n][2]} \in SUBSET Address
    BY NotifierEndpoint, EndpointType
  <2> QED
    BY <1>4, <1>5, <2>1, ZenonT(40) DEF GoodbyeKnown
<1>6. ASSUME NEW e \in Endpoint, Age(e)
      PROVE  ServiceInv'
  <2>1. TableMatchesServices'
    BY <1>6, Kept DEF Age, ServiceInv
  <2> QED
    BY <1>6, <2>1 DEF Age, pingVars, ServiceInv, ServiceTypeOK, ReadyMeansHeard, Required
<1>7. ASSUME NEW e \in Endpoint, Sweep(e)
      PROVE  ServiceInv'
  <2>1. {o[2] : o \in outdated} \in SUBSET Address
    BY EndpointType DEF ServiceInv, ServiceTypeOK
  <2> QED
    BY <1>4, <1>7, <2>1, ZenonT(40) DEF Sweep
<1> QED
  BY <1>1, <1>2, <1>3, <1>5, <1>6, <1>7, SMTT(30) DEF listenServices, ReceivePing

\* The other processes: the notifiers and the callers.
LEMMA NotifiersKeepType ==
    ASSUME NotifierTypeOK, NEW n \in Notifier, NotifierStep(n)
    PROVE  NotifierTypeOK'
<1>1. \A from \in Phase, to \in Phase : Go(n, from, to) => phase' \in [Notifier -> Phase]
  BY DEF NotifierTypeOK, Go
<1>2. phase' \in [Notifier -> Phase]
  BY <1>1 DEF NotifierStep, StartHook, StartHookFails, Tick, Hello, StopHook, Disconnect,
              Crash, Restart, Phase
<1>3. \A st \in Status : Publish(n, st) => pubs' \in Seq([from : Notifier, status : Status])
  <2> DEFINE Ping == [from : Notifier, status : Status]
  <2> SUFFICES ASSUME NEW st \in Status, Publish(n, st)
               PROVE  pubs' \in Seq(Ping)
    BY ZenonT(40)
  <2>1. [from |-> n, status |-> st] \in Ping
    OBVIOUS
  <2>2. pubs \in Seq(Ping)
    BY DEF NotifierTypeOK
  <2> HIDE DEF Ping
  <2>3. CASE pubs' = Append(pubs, [from |-> n, status |-> st])
    BY <2>1, <2>2, <2>3
  <2> QED
    BY <2>2, <2>3 DEF Publish, Arrives
<1>4. pubs' \in Seq([from : Notifier, status : Status])
  <2>1. (\E st \in Status : Publish(n, st)) \/ UNCHANGED pubs
    BY DEF NotifierStep, StartHook, StartHookFails, Tick, Hello, StopHook, Disconnect,
           Crash, Restart, Status
  <2> QED
    BY <1>3, <2>1, ZenonT(40) DEF NotifierTypeOK
<1> QED
  BY <1>2, <1>4 DEF NotifierTypeOK

\* A ping is taken from the channel.
LEMMA ReceiveKeepsType ==
    ASSUME NotifierTypeOK, NEW st, NEW n, Receive(st, n)
    PROVE  NotifierTypeOK'
<1>1. pubs' \in Seq([from : Notifier, status : Status])
  BY DEF NotifierTypeOK, Receive
<1> QED
  BY <1>1 DEF NotifierTypeOK, Receive

\* listenServices changes the pings by taking one, if at all, and replaces the
\* table only while nobody reads it.
LEMMA ListenFrame ==
    ASSUME NotifierTypeOK, listenServices
    PROVE  NotifierTypeOK' /\ readers' = readers /\ (apis' = apis \/ readers = {})
<1>1. ASSUME NEW n \in Notifier, HelloAgain(n) \/ HelloNew(n) \/ GoodbyeUnknown(n) \/ GoodbyeKnown(n)
      PROVE  NotifierTypeOK' /\ readers' = readers /\ (apis' = apis \/ readers = {})
  <2>1. \E st \in Status : Receive(st, n)
    BY <1>1 DEF HelloAgain, HelloNew, GoodbyeUnknown, GoodbyeKnown, Status
  <2>2. NotifierTypeOK' /\ readers' = readers
    BY <2>1, ReceiveKeepsType, SMTT(30) DEF Receive
  <2>3. apis' = apis \/ readers = {}
    BY <1>1, SMTT(30) DEF HelloAgain, HelloNew, GoodbyeUnknown, GoodbyeKnown, serviceVars
  <2> QED
    BY <2>2, <2>3
<1>2. ASSUME NEW e \in Endpoint, Age(e) \/ Sweep(e)
      PROVE  NotifierTypeOK' /\ readers' = readers /\ (apis' = apis \/ readers = {})
  BY <1>2, SMTT(30) DEF Age, Sweep, notifierVars, NotifierTypeOK
<1> QED
  BY <1>1, <1>2 DEF listenServices, ReceivePing

\* A step that leaves the services alone.
LEMMA ServicesKept ==
    ASSUME ServiceInv, UNCHANGED serviceVars
    PROVE  ServiceInv'
<1>1. TableMatchesServices'
  BY Kept DEF serviceVars, ServiceInv
<1> QED
  BY <1>1 DEF serviceVars, pingVars, ServiceInv, ServiceTypeOK, ReadyMeansHeard, Required

\* The invariant, part by part.
LEMMA TableInvParts == TableInv <=> NotifierTypeOK /\ ServiceInv /\ readers \in SUBSET Caller
BY DEF TableInv, TableTypeOK, ServiceInv, ServiceTypeOK, Limiters

\* The gateway starts with an empty table.
LEMMA TableInvInit == TableInit => TableInv
<1> SUFFICES ASSUME TableInit
             PROVE  TableInv
  OBVIOUS
<1>1. NotifierTypeOK
  BY DEF TableInit, NotifierInit, NotifierTypeOK, Phase
<1>2. limiters \in [Endpoint -> Limiters]
  BY NewLimitersType DEF TableInit
<1>3. ready \in BOOLEAN
  BY DEF TableInit
<1>4. ServiceTypeOK
  BY <1>2, <1>3 DEF TableInit, ServiceTypeOK
<1>5. TableMatchesServices
  BY DEF TableInit, TableMatchesServices, Offering, Of
<1>6. ReadyMeansHeard
  <2>1. ready => RequiredServices = <<>>
    BY ZenonT(40) DEF TableInit
  <2>2. RequiredServices = <<>> => Required = {}
    BY DEF Required
  <2> QED
    BY <2>1, <2>2 DEF TableInit, ReadyMeansHeard
<1>7. readers \in SUBSET Caller
  BY DEF TableInit
<1> QED
  BY <1>1, <1>4, <1>5, <1>6, <1>7, TableInvParts DEF ServiceInv

\* Every step of the gateway, of an instance or of a caller keeps the table right.
LEMMA TableInvNext == TableInv /\ [TableNext]_tableVars => TableInv'
<1> SUFFICES ASSUME NotifierTypeOK, ServiceInv, readers \in SUBSET Caller, [TableNext]_tableVars
             PROVE  NotifierTypeOK' /\ ServiceInv' /\ readers' \in SUBSET Caller
  BY TableInvParts DEF TableInv, TableTypeOK, ServiceInv, ServiceTypeOK, Limiters
<1>1. CASE NotifiersStep
  BY <1>1, NotifiersKeepType, ServicesKept DEF NotifiersStep
<1>2. CASE listenServices
  BY <1>2, ListenKeepsServices, ListenFrame
<1>3. ASSUME NEW c \in Caller, RLock(c) \/ RUnlock(c)
      PROVE  NotifierTypeOK' /\ ServiceInv' /\ readers' \in SUBSET Caller
  BY <1>3, ServicesKept DEF RLock, RUnlock, notifierVars, NotifierTypeOK
<1>4. CASE UNCHANGED tableVars
  BY <1>4, ServicesKept DEF tableVars, notifierVars, NotifierTypeOK
<1> QED
  BY <1>1, <1>2, <1>3, <1>4, SMTT(30) DEF TableNext

\* In every state the table is right.
THEOREM TableInvariant == TableSpec => []TableInv
BY TableInvInit, TableInvNext, PTL DEF TableSpec

\* The variables keep their types; in particular an outdated endpoint is a
\* registered one.
THEOREM TableTypeCorrect == TableSpec => []TableTypeOK
<1>1. TableInv => TableTypeOK
  BY DEF TableInv
<1> QED
  BY <1>1, TableInvariant, PTL

\* resyncRoutes is called wherever it is needed, whatever the services, their
\* routes, overrides and instances.
THEOREM TableFollowsServices == TableSpec => []TableMatchesServices
<1>1. TableInv => TableMatchesServices
  BY DEF TableInv
<1> QED
  BY <1>1, TableInvariant, PTL

\* The gateway is ready only after the hellos of all its required services, also
\* when the option repeats a name.
THEOREM ReadyAfterHellos == TableSpec => []ReadyMeansHeard
<1>1. TableInv => ReadyMeansHeard
  BY DEF TableInv
<1> QED
  BY <1>1, TableInvariant, PTL
=============================================================================
