-------------------------- MODULE PushServerProofs --------------------------
(***************************************************************************)
(* Proofs about PushServer for every value of its constants, and, in the   *)
(* last section, about what its history variables (PushDispatchHistory)    *)
(* record.                                                                 *)
(***************************************************************************)
EXTENDS PushDispatchHistory, FiniteSetTheorems, TLAPS

(***************************************************************************)
(* Type correctness: every field keeps its type whatever the interleaving  *)
(* of requests, listen loops, dispatchers and shutdown.  gauge is a        *)
(* natural number only because of the invariant MapInv below, so the       *)
(* type invariant proved here leaves it an integer.                        *)
(***************************************************************************)
CoreTypeOK ==
    /\ SessionTypeOK
    /\ startPc \in {"new", "running", "returned"}
    /\ stopPc \in {"idle", "polling", "returned"}
    /\ sessions \in SUBSET Session
    /\ gauge \in Int
    /\ publications \in Seq(Event)
    /\ dpc \in [Event -> DispatchPc]
    /\ todo \in [Event -> SUBSET Session]
    /\ current \in [Event -> SUBSET Session]

\* A channel keeps its type when send queues something, or drops it.
LEMMA SentType ==
    ASSUME NEW S, NEW ch \in Seq(S), NEW d \in S
    PROVE  Sent(ch, d) \in Seq(S)
BY DEF Sent

\* So do the channels of all sessions.
LEMMA SendType ==
    ASSUME SessionTypeOK, NEW s \in Session,
           NEW d \in Event \cup {ErrorEvent}, Send(s, d)
    PROVE  dataCh' \in [Session -> Seq(Event \cup {ErrorEvent})]
BY SentType, ZenonT(40) DEF SessionTypeOK, Send

\* The server starts in states of these types.
LEMMA CoreTypeInit == Init => CoreTypeOK
<1> SUFFICES ASSUME Init PROVE CoreTypeOK
  OBVIOUS
<1>1. errorsParam \in SUBSET Session
  BY SessionAssumption DEF Init, SessionInit
<1>2. dataCh \in [Session -> Seq(Event \cup {ErrorEvent})]
  BY DEF Init, SessionInit
<1>3. /\ ctxDone \in BOOLEAN
      /\ hpc \in [Session -> HandlerPc]
      /\ connDone \in SUBSET Session
      /\ errorState \in SUBSET Session
      /\ pushConfig \in [Session -> Config]
      /\ pending \in [Session -> Config]
      /\ early \in [Session -> SUBSET Event]
      /\ received \in [Session -> Nat]
  BY ZenonT(40) DEF Init, SessionInit, HandlerPc, Config
<1> QED
  BY <1>1, <1>2, <1>3 DEF Init, CoreTypeOK, SessionTypeOK, DispatchPc

\* Every step keeps them.
LEMMA CoreTypeNext == CoreTypeOK /\ [Next]_vars => CoreTypeOK'
<1> SUFFICES ASSUME CoreTypeOK, [Next]_vars
             PROVE  CoreTypeOK'
  OBVIOUS
<1> USE DEF CoreTypeOK, SessionTypeOK
<1>1. ASSUME NEW s \in Session, HandleRequest(s)
      PROVE  CoreTypeOK'
  <2>1. hpc' \in [Session -> HandlerPc] /\ early' \in [Session -> SUBSET Event]
    <3>1. CASE startPc = "new"
      BY <1>1, <3>1, ZenonT(40) DEF HandleRequest, Goto, HandlerPc
    <3>2. CASE startPc # "new"
      <4>1. Born \in SUBSET Event
        BY DEF Born
      <4>2. hpc' = [hpc EXCEPT ![s] = "created"] /\ early' = [early EXCEPT ![s] = Born]
        BY <1>1, <3>2, SMTT(30) DEF HandleRequest, Goto
      <4> QED
        BY <4>1, <4>2 DEF HandlerPc
    <3> QED BY <3>1, <3>2
  <2> QED
    BY <1>1, <2>1 DEF HandleRequest, serverVars, dispatchVars
<1>2. ASSUME NEW s \in Session, Handler(s)
      PROVE  CoreTypeOK'
  <2> USE <1>2 DEF Goto, HandlerPc, sessionFields, serverVars, dispatchVars
  <2>1. CASE Admit(s)
    BY <2>1, ZenonT(40) DEF Admit
  <2>2. CASE RegisterMetric(s)
    BY <2>2 DEF RegisterMetric
  <2>5. CASE UnregisterMetric(s)
    BY <2>5 DEF UnregisterMetric
  <2>3. CASE RegisterInMap(s) \/ UnregisterFromMap(s)
    BY <2>3, ZenonT(40) DEF RegisterInMap, UnregisterFromMap
  <2>4. CASE OnPushSessionStart(s) \/ OnPushSessionStop(s)
    BY <2>4, ZenonT(40) DEF OnPushSessionStart, OnPushSessionStop
  <2> QED
    BY <2>1, <2>2, <2>3, <2>4, <2>5, ZenonT(40) DEF Handler
<1>3. ASSUME NEW s \in Session, Listen(s), UNCHANGED <<serverVars, dispatchVars>>
      PROVE  CoreTypeOK'
  <2> USE <1>3 DEF serverVars, dispatchVars, HandlerPc, Goto
  <2>1. CASE ListenWrite(s)
    BY <2>1 DEF ListenWrite
  <2>2. CASE ListenReadInvalid(s)
    <3>1. /\ received' \in [Session -> Nat]
          /\ UNCHANGED <<ctxDone, pushConfig, pending, errorsParam, early, dataCh>>
      BY <2>2 DEF ListenReadInvalid, Reads
    <3>2. /\ hpc' \in [Session -> HandlerPc]
          /\ errorState' \in SUBSET Session
          /\ connDone' \in SUBSET Session
      BY <2>2, ZenonT(40) DEF ListenReadInvalid
    <3> QED
      BY <3>1, <3>2, SMTT(30)
  <2>3. CASE SendWSError(s)
    BY <2>3, SendType, ZenonT(40) DEF SendWSError
  <2>4. CASE ListenReadValid(s)
    BY <2>4 DEF ListenReadValid, Reads, Config
  <2>5. CASE SetCurrentPushConfig(s)
    BY <2>5 DEF SetCurrentPushConfig, Config
  <2>6. CASE ListenConnDone(s) \/ ListenCtxDone(s)
    BY <2>6, ZenonT(40) DEF ListenConnDone, ListenCtxDone
  <2> QED
    BY <2>1, <2>2, <2>3, <2>4, <2>5, <2>6, ZenonT(40) DEF Listen
<1>4. ASSUME NEW s \in Session, Disconnect(s), UNCHANGED <<serverVars, dispatchVars>>
      PROVE  CoreTypeOK'
  BY <1>4 DEF Disconnect, serverVars, dispatchVars
<1>5. ASSUME NEW s \in Session, NEW e \in Born, DirectPush(s, e),
             UNCHANGED <<serverVars, dispatchVars>>
      PROVE  CoreTypeOK'
  BY <1>5, SentType, ZenonT(40) DEF DirectPush, Born, serverVars, dispatchVars
<1>6. ASSUME NEW e \in Event, CreateEvent(e) \/ Receive(e) \/ Spawn(e)
      PROVE  CoreTypeOK'
  <2>1. publications' \in Seq(Event)
    <3>1. CASE CreateEvent(e)
      BY <3>1 DEF CreateEvent
    <3>2. CASE Receive(e)
      <4>1. publications' = Append(publications, e)
        BY <3>2 DEF Receive
      <4> QED
        BY <4>1
    <3>3. CASE Spawn(e)
      <4>1. publications # <<>> /\ publications' = Tail(publications)
        BY <3>3, SMTT(30) DEF Spawn
      <4> QED
        BY <4>1
    <3> QED
      BY <1>6, <3>1, <3>2, <3>3
  <2> QED
    BY <1>6, <2>1, ZenonT(40) DEF CreateEvent, Receive, Spawn, EventGoto, sessionVars, serverVars,
                      DispatchPc
<1>7. ASSUME NEW e \in Event, Dispatch(e)
      PROVE  CoreTypeOK'
  <2> USE <1>7 DEF sessionVars, serverVars, DispatchPc, EventGoto
  <2>1. CASE Prepare(e)
    BY <2>1, ZenonT(40) DEF Prepare
  <2>2. CASE CheckSession(e)
    <3> PICK s \in todo[e] :
          /\ todo' = [todo EXCEPT ![e] = @ \ {s}]
          /\ IF s \in errorState \/ e \in early[s]
               THEN UNCHANGED <<dpc, current>>
               ELSE EventGoto(e, "checked") /\ current' = [current EXCEPT ![e] = {s}]
      BY <2>2, ZenonT(40) DEF CheckSession
    <3> s \in Session
      OBVIOUS
    <3>1. CASE s \in errorState \/ e \in early[s]
      BY <2>2, <3>1 DEF CheckSession
    <3>2. CASE ~(s \in errorState \/ e \in early[s])
      <4>1. dpc' = [dpc EXCEPT ![e] = "checked"] /\ current' = [current EXCEPT ![e] = {s}]
        BY <3>2
      <4>2. dpc' \in [Event -> DispatchPc]
        BY <4>1
      <4>3. current' \in [Event -> SUBSET Session]
        <5>1. {s} \in SUBSET Session
          OBVIOUS
        <5> QED
          BY <4>1, <5>1
      <4>4. todo' \in [Event -> SUBSET Session]
        OBVIOUS
      <4> QED
        BY <2>2, <4>2, <4>3, <4>4, SMTT(30) DEF CheckSession
    <3> QED
      BY <3>1, <3>2, ZenonT(40)
  <2>3. CASE SkipSession(e) \/ PassFilters(e) \/ FinishDispatch(e)
    BY <2>3, ZenonT(40) DEF SkipSession, PassFilters, FinishDispatch
  <2>4. CASE SendToSession(e)
    BY <2>4, SendType, SMTT(30) DEF SendToSession
  <2> QED
    BY <2>1, <2>2, <2>3, <2>4, ZenonT(40) DEF Dispatch
<1>8. CASE ServerStep
  BY <1>8, ZenonT(40) DEF ServerStep, Start, StartReturns, Cancel, StopBegins, StopReturns,
              sessionVars, serverVars, dispatchVars
<1>9. CASE UNCHANGED vars
  BY <1>9 DEF vars, sessionVars, serverVars, dispatchVars
<1> QED
  BY <1>1, <1>2, <1>3, <1>4, <1>5, <1>6, <1>7, <1>8, <1>9, ZenonT(40)
     DEF Next, SessionStep, EventStep

(* Every variable keeps its type, with the gauge an integer. *)
THEOREM CoreTypeCorrect == Spec => []CoreTypeOK
BY CoreTypeInit, CoreTypeNext, PTL DEF Spec

-----------------------------------------------------------------------------
(***************************************************************************)
(* The map of sessions and the gauge.  Only four steps matter: the two     *)
(* metric calls and the two map operations; every other step keeps each    *)
(* request goroutine on the same side of all four.                         *)
(***************************************************************************)
Neutral ==
    /\ UNCHANGED <<sessions, gauge>>
    /\ \A t \in Session : /\ hpc'[t] \in InMapPc <=> hpc[t] \in InMapPc
                          /\ hpc'[t] \in CountedPc <=> hpc[t] \in CountedPc

\* A session that moves without entering or leaving the map or the count.
LEMMA MoveIsNeutral ==
    ASSUME CoreTypeOK, NEW s \in Session, NEW pc \in HandlerPc, Goto(s, pc),
           hpc[s] \in InMapPc <=> pc \in InMapPc,
           hpc[s] \in CountedPc <=> pc \in CountedPc,
           UNCHANGED <<sessions, gauge>>
    PROVE  Neutral
BY DEF CoreTypeOK, SessionTypeOK, Goto, Neutral

\* Nor does a step matter in which no session moves.
LEMMA StayIsNeutral ==
    ASSUME UNCHANGED <<hpc, sessions, gauge>>
    PROVE  Neutral
BY DEF Neutral

\* What each step does to the map, the gauge and the two sets of sessions.
LEMMA StepsOnMap ==
    ASSUME CoreTypeOK, [Next]_vars
    PROVE  \/ Neutral
           \/ \E s \in Session : \/ RegisterMetric(s) \/ RegisterInMap(s)
                                 \/ UnregisterFromMap(s) \/ UnregisterMetric(s)
<1> USE DEF InMapPc, CountedPc, HandlerPc
<1>1. ASSUME NEW s \in Session, HandleRequest(s)
      PROVE  Neutral
  <2>1. /\ hpc[s] = "idle"
        /\ Goto(s, "panicked") \/ Goto(s, "created")
        /\ UNCHANGED <<sessions, gauge>>
    BY <1>1, SMTT(30) DEF HandleRequest, serverVars
  <2> QED
    BY <2>1, MoveIsNeutral
<1>2. ASSUME NEW s \in Session, Admit(s)
      PROVE  Neutral
  BY <1>2, MoveIsNeutral, SMTT(30) DEF Admit, serverVars
<1>3. ASSUME NEW s \in Session, OnPushSessionStart(s) \/ OnPushSessionStop(s)
      PROVE  Neutral
  BY <1>3, MoveIsNeutral DEF OnPushSessionStart, OnPushSessionStop, serverVars
<1>4. ASSUME NEW s \in Session, Listen(s), UNCHANGED <<serverVars, dispatchVars>>
      PROVE  Neutral
  <2>1. UNCHANGED <<sessions, gauge>>
    BY <1>4 DEF serverVars
  <2>2. CASE ListenWrite(s)
    BY <2>1, <2>2, StayIsNeutral, SMTT(30) DEF ListenWrite
  <2>3. CASE ListenReadInvalid(s)
    BY <2>1, <2>3, MoveIsNeutral, SMTT(30) DEF ListenReadInvalid, Reads
  <2>4. CASE ListenReadValid(s)
    BY <2>1, <2>4, MoveIsNeutral, SMTT(30) DEF ListenReadValid, Reads
  <2>5. CASE SendWSError(s) \/ SetCurrentPushConfig(s)
    BY <2>1, <2>5, MoveIsNeutral, SMTT(30) DEF SendWSError, SetCurrentPushConfig
  <2>6. CASE ListenConnDone(s) \/ ListenCtxDone(s)
    BY <2>1, <2>6, MoveIsNeutral, SMTT(30) DEF ListenConnDone, ListenCtxDone
  <2> QED
    BY <1>4, <2>2, <2>3, <2>4, <2>5, <2>6, SMTT(30) DEF Listen
<1>5. ASSUME NEW s \in Session, NEW e \in Born,
             DirectPush(s, e), UNCHANGED <<serverVars, dispatchVars>>
      PROVE  Neutral
  BY <1>5, StayIsNeutral DEF DirectPush, serverVars
<1>6. ASSUME NEW s \in Session, Disconnect(s), UNCHANGED <<serverVars, dispatchVars>>
      PROVE  Neutral
  BY <1>6, StayIsNeutral, SMTT(30) DEF Disconnect, serverVars
<1>7. ASSUME NEW e \in Event, EventStep(e)
      PROVE  Neutral
  BY <1>7, StayIsNeutral, ZenonT(40)
     DEF EventStep, CreateEvent, Receive, Spawn, Dispatch, Prepare, CheckSession,
         SkipSession, PassFilters, SendToSession, FinishDispatch, sessionVars, serverVars
<1>8. CASE ServerStep
  BY <1>8, StayIsNeutral, SMTT(30)
     DEF ServerStep, Start, StartReturns, Cancel, StopBegins, StopReturns,
         sessionVars, serverVars
<1>9. CASE UNCHANGED vars
  BY <1>9, StayIsNeutral DEF vars, sessionVars, serverVars
<1> QED
  BY <1>1, <1>2, <1>3, <1>4, <1>5, <1>6, <1>7, <1>8, <1>9, SMTT(30)
     DEF Next, SessionStep, Handler

\* The inductive invariant: the map is exactly the set of requests between the
\* insertion and the deletion, the gauge the number of those between the two
\* metric calls.  Neither is inductive without the types.
MapInv ==
    /\ CoreTypeOK
    /\ sessions = InMap
    /\ gauge = Cardinality(Counted)

\* There are finitely many sessions to count.
LEMMA CountedFinite == IsFiniteSet(Counted)
BY ServerAssumption, FS_Subset DEF Counted

\* Nobody is connected at the start.
LEMMA MapInvInit == Init => MapInv
<1> SUFFICES ASSUME Init PROVE MapInv
  OBVIOUS
<1>1. InMap = {} /\ Counted = {}
  BY SMTT(30) DEF Init, SessionInit, InMap, Counted, InMapPc, CountedPc
<1> QED
  BY <1>1, CoreTypeInit, FS_EmptySet, SMTT(30) DEF Init, MapInv

\* Every step keeps the map and the gauge right.
LEMMA MapInvNext == MapInv /\ [Next]_vars => MapInv'
<1> SUFFICES ASSUME MapInv, [Next]_vars
             PROVE  sessions' = InMap' /\ gauge' = Cardinality(Counted')
  BY CoreTypeNext, SMTT(30) DEF MapInv
<1> USE DEF MapInv, CoreTypeOK, SessionTypeOK
<1>1. CASE Neutral
  <2>1. InMap' = InMap /\ Counted' = Counted
    BY <1>1 DEF Neutral, InMap, Counted
  <2> QED
    BY <1>1, <2>1, SMTT(30) DEF Neutral
<1>2. ASSUME NEW s \in Session, RegisterMetric(s)
      PROVE  sessions' = InMap' /\ gauge' = Cardinality(Counted')
  <2>1. InMap' = InMap /\ Counted' = Counted \cup {s} /\ s \notin Counted
    BY <1>2, SMTT(30) DEF RegisterMetric, Goto, InMap, Counted, InMapPc, CountedPc
  <2> QED
    BY <1>2, <2>1, CountedFinite, FS_AddElement, ZenonT(40) DEF RegisterMetric
<1>3. ASSUME NEW s \in Session, UnregisterMetric(s)
      PROVE  sessions' = InMap' /\ gauge' = Cardinality(Counted')
  <2>1. InMap' = InMap /\ Counted' = Counted \ {s} /\ s \in Counted
    BY <1>3, SMTT(30) DEF UnregisterMetric, Goto, InMap, Counted, InMapPc, CountedPc
  <2> QED
    BY <1>3, <2>1, CountedFinite, FS_RemoveElement, ZenonT(40) DEF UnregisterMetric
<1>4. ASSUME NEW s \in Session, RegisterInMap(s)
      PROVE  sessions' = InMap' /\ gauge' = Cardinality(Counted')
  <2>1. InMap' = InMap \cup {s} /\ Counted' = Counted
    BY <1>4, SMTT(30) DEF RegisterInMap, Goto, InMap, Counted, InMapPc, CountedPc
  <2> QED
    BY <1>4, <2>1, SMTT(30) DEF RegisterInMap
<1>5. ASSUME NEW s \in Session, UnregisterFromMap(s)
      PROVE  sessions' = InMap' /\ gauge' = Cardinality(Counted')
  <2>1. InMap' = InMap \ {s} /\ Counted' = Counted
    BY <1>5, SMTT(30) DEF UnregisterFromMap, Goto, InMap, Counted, InMapPc, CountedPc
  <2> QED
    BY <1>5, <2>1, SMTT(30) DEF UnregisterFromMap
<1> QED
  BY <1>1, <1>2, <1>3, <1>4, <1>5, StepsOnMap, SMTT(30)

(* The map and the gauge agree with where the request goroutines are. *)
THEOREM MapInvariant == Spec => []MapInv
BY MapInvInit, MapInvNext, PTL DEF Spec

\* The state invariants that follow.
LEMMA MapInvImplies == MapInv => TypeOK /\ MapEntriesAreOwned /\ GaugeCountsConnections
<1> SUFFICES ASSUME MapInv PROVE TypeOK /\ MapEntriesAreOwned /\ GaugeCountsConnections
  OBVIOUS
<1>1. Cardinality(Counted) \in Nat
  BY CountedFinite, FS_CardinalityType
<1>2. InMap \subseteq Counted
  BY DEF InMap, Counted, CountedPc
<1>3. Cardinality(InMap) <= Cardinality(Counted)
  BY <1>2, CountedFinite, FS_Subset
<1> QED
  BY <1>1, <1>3
     DEF MapInv, CoreTypeOK, TypeOK, MapEntriesAreOwned, GaugeCountsConnections

(***************************************************************************)
(* Every variable of the push server keeps its type; in particular the     *)
(* websocket gauge is never negative.                                      *)
(***************************************************************************)
THEOREM TypeCorrect == Spec => []TypeOK
BY MapInvariant, MapInvImplies, PTL

(***************************************************************************)
(* registerSession/unregisterSession, for any number of requests: an entry *)
(* of n.sessions always has a goroutine that will delete it.               *)
(***************************************************************************)
THEOREM MapEntriesOwned == Spec => []MapEntriesAreOwned
BY MapInvariant, MapInvImplies, PTL

(***************************************************************************)
(* registerSession/unregisterSession, for any number of requests: the      *)
(* gauge counts the connections and is at least the number of sessions.    *)
(***************************************************************************)
THEOREM GaugeCorrect == Spec => []GaugeCountsConnections
BY MapInvariant, MapInvImplies, PTL

-----------------------------------------------------------------------------
(***************************************************************************)
(* No event from before a session is queued for it.  startTime is set once *)
(* per request, when nothing can be queued yet: dispatchers only know      *)
(* sessions that were in the map, and DirectPush only created ones.        *)
(***************************************************************************)
PastPc == InMapPc \cup {"deleted", "gone"}
CreatedPc == HandlerPc \ {"idle", "panicked"}

KnownSessions ==
    \A e \in Event : \A s \in todo[e] \cup current[e] : hpc[s] \in PastPc

CheckedAreLater ==
    \A e \in Event : \A s \in current[e] : e \notin early[s]

QueuedAreCreated ==
    \A s \in Session : dataCh[s] # <<>> => hpc[s] \in CreatedPc

LaterInv ==
    /\ MapInv
    /\ KnownSessions
    /\ CheckedAreLater
    /\ OnlyLaterEventsQueued
    /\ QueuedAreCreated

\* Nothing is queued at the start.
LEMMA LaterInvInit == Init => LaterInv
BY MapInvInit, SMTT(30)
   DEF Init, SessionInit, LaterInv, KnownSessions, CheckedAreLater, OnlyLaterEventsQueued,
       QueuedAreCreated

\* A request goroutine never goes back.
LEMMA HandlersMoveForward ==
    ASSUME CoreTypeOK, [Next]_vars, NEW s \in Session
    PROVE  /\ hpc[s] \in PastPc => hpc'[s] \in PastPc
           /\ hpc[s] \in CreatedPc => hpc'[s] \in CreatedPc
           /\ early'[s] # early[s] => hpc[s] = "idle"
<1> USE DEF CoreTypeOK, SessionTypeOK, PastPc, CreatedPc, InMapPc, HandlerPc
<1>1. ASSUME NEW t \in Session, HandleRequest(t)
      PROVE  /\ hpc[s] \in CreatedPc => hpc'[s] = hpc[s]
             /\ early'[s] # early[s] => hpc[s] = "idle"
  BY <1>1, SMTT(30) DEF HandleRequest, Goto
<1>2. ASSUME NEW t \in Session, Handler(t)
      PROVE  /\ hpc[s] \in PastPc => hpc'[s] \in PastPc
             /\ hpc[s] \in CreatedPc => hpc'[s] \in CreatedPc
             /\ early' = early
  BY <1>2, ZenonT(40) DEF Handler, Admit, RegisterMetric, RegisterInMap, OnPushSessionStart,
              OnPushSessionStop, UnregisterFromMap, UnregisterMetric, Goto, sessionFields
<1>3. ASSUME NEW t \in Session, Listen(t)
      PROVE  /\ hpc[s] \in PastPc => hpc'[s] \in PastPc
             /\ hpc[s] \in CreatedPc => hpc'[s] \in CreatedPc
             /\ early' = early
  BY <1>3, ZenonT(40) DEF Listen, ListenWrite, ListenReadInvalid, ListenReadValid, Reads, SendWSError,
              SetCurrentPushConfig, ListenConnDone, ListenCtxDone, Goto
<1>4. ASSUME NEW t \in Session, NEW e \in Born, DirectPush(t, e)
      PROVE  UNCHANGED <<hpc, early>>
  BY <1>4, SMTT(30) DEF DirectPush
<1>5. ASSUME NEW t \in Session, Disconnect(t)
      PROVE  UNCHANGED <<hpc, early>>
  BY <1>5, SMTT(30) DEF Disconnect
<1>6. ASSUME NEW e \in Event, EventStep(e)
      PROVE  UNCHANGED <<hpc, early>>
  BY <1>6, ZenonT(40)
     DEF EventStep, CreateEvent, Receive, Spawn, Dispatch, Prepare, CheckSession,
         SkipSession, PassFilters, SendToSession, FinishDispatch, sessionVars
<1>7. CASE ServerStep \/ UNCHANGED vars
  BY <1>7, ZenonT(40)
     DEF ServerStep, Start, StartReturns, Cancel, StopBegins, StopReturns,
         sessionVars, vars
<1> QED
  BY <1>1, <1>2, <1>3, <1>4, <1>5, <1>6, <1>7, SMTT(30) DEF Next, SessionStep

\* What a dispatcher knows: the rest of its snapshot, a session of it that is
\* younger than the event, or, in Prepare, the map.
LEMMA DispatcherSets ==
    ASSUME CoreTypeOK, [Next]_vars, NEW e \in Event
    PROVE  /\ todo'[e] \cup current'[e] \subseteq todo[e] \cup current[e] \cup sessions
           /\ \A s \in current'[e] : s \in current[e] \/ e \notin early[s]
<1> USE DEF CoreTypeOK, SessionTypeOK
<1>1. ASSUME NEW f \in Event, EventStep(f)
      PROVE  /\ todo'[e] \cup current'[e] \subseteq todo[e] \cup current[e] \cup sessions
             /\ \A s \in current'[e] : s \in current[e] \/ e \notin early[s]
  <2>1. CASE CreateEvent(f) \/ Receive(f) \/ Spawn(f)
    BY <2>1 DEF CreateEvent, Receive, Spawn
  <2>2. CASE Prepare(f)
    BY <2>2, ZenonT(40) DEF Prepare
  <2>3. CASE CheckSession(f)
    BY <2>3, SMTT(30) DEF CheckSession
  <2>4. CASE SkipSession(f) \/ PassFilters(f) \/ SendToSession(f) \/ FinishDispatch(f)
    BY <2>4, SMTT(30) DEF SkipSession, PassFilters, SendToSession, FinishDispatch
  <2> QED
    BY <1>1, <2>1, <2>2, <2>3, <2>4, ZenonT(40) DEF EventStep, Dispatch
<1>2. ASSUME NEW s \in Session, SessionStep(s)
      PROVE  UNCHANGED <<todo, current>>
  BY <1>2, ZenonT(40) DEF SessionStep, HandleRequest, Handler, Admit, RegisterMetric, RegisterInMap,
              OnPushSessionStart, OnPushSessionStop, UnregisterFromMap, UnregisterMetric,
              dispatchVars
<1>3. CASE ServerStep \/ UNCHANGED vars
  BY <1>3, SMTT(30) DEF ServerStep, Start, StartReturns, Cancel, StopBegins, StopReturns,
              dispatchVars, vars
<1> QED
  BY <1>1, <1>2, <1>3, SMTT(30) DEF Next

Entries(ch) == {ch[i] : i \in DOMAIN ch}

\* What send leaves in a channel was there, or is what was sent.
LEMMA SentEntries ==
    ASSUME NEW S, NEW ch \in Seq(S), NEW d \in S
    PROVE  Entries(Sent(ch, d)) \subseteq Entries(ch) \cup {d}
BY DEF Sent, Entries

\* What listen leaves in a channel was there.
LEMMA TailEntries ==
    ASSUME NEW S, NEW ch \in Seq(S), ch # <<>>
    PROVE  Entries(Tail(ch)) \subseteq Entries(ch)
BY SMTT(30) DEF Entries

\* The channel of the session sent to, and the others.
LEMMA SendEntries ==
    ASSUME CoreTypeOK, NEW s \in Session, NEW d \in Event \cup {ErrorEvent}, Send(s, d),
           NEW t \in Session
    PROVE  Entries(dataCh'[t]) \subseteq Entries(dataCh[t]) \cup IF t = s THEN {d} ELSE {}
<1> DEFINE S == Event \cup {ErrorEvent}
<1>1. dataCh[s] \in Seq(S) /\ dataCh \in [Session -> Seq(S)]
  BY DEF CoreTypeOK, SessionTypeOK
<1>2. dataCh'[t] = IF t = s /\ s \notin BadEncoding THEN Sent(dataCh[s], d) ELSE dataCh[t]
  BY <1>1 DEF Send
<1>3. Entries(Sent(dataCh[s], d)) \subseteq Entries(dataCh[s]) \cup {d}
  BY <1>1, SentEntries, SMTT(30)
<1> QED
  BY <1>2, <1>3, SMTT(30)

\* What may appear in a channel: the error event, or an event that is not
\* earlier than the session, which has been created.
LEMMA QueueEntries ==
    ASSUME LaterInv, [Next]_vars, NEW s \in Session, NEW d \in Entries(dataCh'[s]),
           d \notin Entries(dataCh[s])
    PROVE  /\ d \notin early[s]
           /\ hpc[s] \in CreatedPc
<1> USE DEF LaterInv, MapInv
<1>0. early[s] \subseteq Event
  BY ZenonT(40) DEF CoreTypeOK, SessionTypeOK
<1>1. ASSUME NEW t \in Session, Listen(t)
      PROVE  d \notin early[s] /\ hpc[s] \in CreatedPc
  <2>1. CASE ListenWrite(t)
    <3>1. Entries(dataCh'[s]) \subseteq Entries(dataCh[s])
      BY <2>1, TailEntries, SMTT(30) DEF ListenWrite, CoreTypeOK, SessionTypeOK
    <3> QED
      BY <3>1, SMTT(30)
  <2>2. CASE SendWSError(t)
    <3>1. CASE UNCHANGED dataCh
      BY <3>1, SMTT(30)
    <3>2. CASE Send(t, ErrorEvent)
      <4>1. d = ErrorEvent /\ s = t
        BY <3>2, SendEntries, ZenonT(40)
      <4> QED
        BY <4>1, <1>0, <2>2, SessionAssumption, ZenonT(40)
           DEF SendWSError, CreatedPc, HandlerPc
    <3> QED
      BY <2>2, <3>1, <3>2, ZenonT(40) DEF SendWSError
  <2>3. CASE UNCHANGED dataCh
    BY <2>3
  <2> QED
    BY <1>1, <2>1, <2>2, <2>3, ZenonT(40)
       DEF Listen, ListenReadInvalid, ListenReadValid, SetCurrentPushConfig,
           ListenConnDone, ListenCtxDone
<1>2. ASSUME NEW t \in Session, NEW e \in Born, DirectPush(t, e)
      PROVE  d \notin early[s] /\ hpc[s] \in CreatedPc
  <2>1. d = e /\ s = t
    <3>1. e \in Event
      BY SMTT(30) DEF Born
    <3>2. dataCh[t] \in Seq(Event \cup {ErrorEvent}) /\ dataCh \in [Session -> Seq(Event \cup {ErrorEvent})]
      BY SMTT(30) DEF CoreTypeOK, SessionTypeOK
    <3>3. dataCh'[s] = IF s = t THEN Sent(dataCh[t], e) ELSE dataCh[s]
      BY <1>2, <3>2, SMTT(30) DEF DirectPush
    <3>4. Entries(Sent(dataCh[t], e)) \subseteq Entries(dataCh[t]) \cup {e}
      BY <3>1, <3>2, SentEntries, SMTT(30)
    <3> QED
      BY <3>3, <3>4, ZenonT(40)
  <2> QED
    BY <1>2, <2>1, SMTT(30)
       DEF DirectPush, CreatedPc, CoreTypeOK, SessionTypeOK
<1>3. ASSUME NEW e \in Event, SendToSession(e)
      PROVE  d \notin early[s] /\ hpc[s] \in CreatedPc
  <2>1. PICK t \in current[e] : Send(t, e)
    BY <1>3, SMTT(30) DEF SendToSession
  <2>2. t \in Session
    BY <2>1, SMTT(30) DEF CoreTypeOK
  <2>3. d = e /\ s = t
    BY <2>1, <2>2, SendEntries, ZenonT(40)
  <2> QED
    BY <2>1, <2>3, SMTT(30) DEF KnownSessions, CheckedAreLater, CreatedPc, HandlerPc, PastPc, InMapPc
<1>4. CASE UNCHANGED dataCh
  BY <1>4, SMTT(30)
<1>5. ASSUME NEW t \in Session, HandleRequest(t) \/ Handler(t) \/ Disconnect(t)
      PROVE  UNCHANGED dataCh
  BY <1>5, ZenonT(40) DEF HandleRequest, Handler, Admit, RegisterMetric, RegisterInMap,
              OnPushSessionStart, OnPushSessionStop, UnregisterFromMap,
              UnregisterMetric, Disconnect, sessionFields
<1>6. ASSUME NEW e \in Event, EventStep(e), ~SendToSession(e)
      PROVE  UNCHANGED dataCh
  BY <1>6, ZenonT(40) DEF EventStep, CreateEvent, Receive, Spawn, Dispatch, Prepare, CheckSession,
              SkipSession, PassFilters, FinishDispatch, sessionVars
<1>7. CASE ServerStep \/ UNCHANGED vars
  BY <1>7, ZenonT(40) DEF ServerStep, Start, StartReturns, Cancel, StopBegins, StopReturns,
              sessionVars, vars
<1> QED
  BY <1>1, <1>2, <1>3, <1>4, <1>5, <1>6, <1>7, ZenonT(40) DEF Next, SessionStep

\* Every step keeps what is queued younger than the session.
LEMMA LaterInvNext == LaterInv /\ [Next]_vars => LaterInv'
<1> SUFFICES ASSUME LaterInv, [Next]_vars
             PROVE  LaterInv'
  OBVIOUS
<1>0. CoreTypeOK /\ MapInv /\ MapInv'
  BY MapInvNext, SMTT(30) DEF LaterInv, MapInv
<1>1. KnownSessions'
  <2> SUFFICES ASSUME NEW e \in Event, NEW s \in (todo[e] \cup current[e])'
               PROVE  hpc'[s] \in PastPc
    BY SMTT(30) DEF KnownSessions
  <2>1. s \in todo[e] \cup current[e] \/ s \in sessions
    BY <1>0, DispatcherSets, SMTT(30)
  <2>2. s \in Session /\ hpc[s] \in PastPc
    BY <1>0, <2>1, ZenonT(40) DEF LaterInv, KnownSessions, MapInv, MapEntriesAreOwned, InMap, PastPc,
                      CoreTypeOK
  <2> QED
    BY <1>0, <2>2, HandlersMoveForward, SMTT(30)
<1>2. CheckedAreLater'
  <2> SUFFICES ASSUME NEW e \in Event, NEW s \in current'[e]
               PROVE  e \notin early'[s]
    BY SMTT(30) DEF CheckedAreLater
  <2>1. e \notin early[s]
    BY <1>0, DispatcherSets, SMTT(30) DEF LaterInv, CheckedAreLater
  <2>2. s \in Session /\ hpc[s] \in PastPc
    <3>1. s \in todo[e] \cup current[e] \/ s \in sessions
      BY <1>0, DispatcherSets, ZenonT(40)
    <3> QED
      BY <1>0, <3>1, ZenonT(40) DEF LaterInv, KnownSessions, MapInv, MapEntriesAreOwned, InMap, PastPc,
                        CoreTypeOK
  <2>3. early'[s] = early[s]
    BY <1>0, <2>2, HandlersMoveForward, SMTT(30) DEF PastPc, InMapPc
  <2> QED
    BY <2>1, <2>3, SMTT(30)
<1>3. ASSUME NEW s \in Session, NEW i \in DOMAIN dataCh'[s]
      PROVE  dataCh'[s][i] \notin early[s] /\ hpc[s] \in CreatedPc
  <2> DEFINE d == dataCh'[s][i]
  <2>1. d \in Entries(dataCh'[s])
    BY SMTT(30) DEF Entries
  <2>2. CASE d \in Entries(dataCh[s])
    <3>1. PICK j \in DOMAIN dataCh[s] : d = dataCh[s][j]
      BY <2>2, SMTT(30) DEF Entries
    <3>2. dataCh[s] # <<>>
      BY <3>1, SMTT(30)
    <3> QED
      BY <3>1, <3>2, SMTT(30) DEF LaterInv, OnlyLaterEventsQueued, QueuedAreCreated
  <2>3. CASE d \notin Entries(dataCh[s])
    BY <2>1, <2>3, QueueEntries, SMTT(30)
  <2> QED
    BY <2>2, <2>3, SMTT(30)
<1>4. OnlyLaterEventsQueued'
  <2> SUFFICES ASSUME NEW s \in Session, NEW i \in DOMAIN dataCh'[s]
               PROVE  dataCh'[s][i] \notin early'[s]
    BY SMTT(30) DEF OnlyLaterEventsQueued
  <2>1. early'[s] = early[s]
    BY <1>0, <1>3, HandlersMoveForward, SMTT(30) DEF CreatedPc
  <2> QED
    BY <1>3, <2>1, SMTT(30)
<1>5. QueuedAreCreated'
  <2> SUFFICES ASSUME NEW s \in Session, dataCh'[s] # <<>>
               PROVE  hpc'[s] \in CreatedPc
    BY SMTT(30) DEF QueuedAreCreated
  <2>1. dataCh'[s] \in Seq(Event \cup {ErrorEvent})
    BY <1>0, ZenonT(40) DEF MapInv, CoreTypeOK, SessionTypeOK
  <2>2. 1 \in DOMAIN dataCh'[s]
    BY <2>1
  <2> QED
    BY <1>0, <1>3, <2>2, HandlersMoveForward, SMTT(30)
<1> QED
  BY <1>0, <1>1, <1>2, <1>4, <1>5, SMTT(30) DEF LaterInv

\* websocket_server.go and DirectPush: whatever the number of sessions, events
\* and messages and the capacity of the channel, no event created before a
\* session is ever queued for it.
THEOREM OnlyLaterQueued == Spec => []OnlyLaterEventsQueued
<1>1. LaterInv => OnlyLaterEventsQueued
  BY DEF LaterInv
<1> QED
  BY <1>1, LaterInvInit, LaterInvNext, PTL DEF Spec

-----------------------------------------------------------------------------
(***************************************************************************)
(* A dispatcher visits each session once.  An event waits in the channel   *)
(* of publications once, while its position says so, and the dispatcher    *)
(* takes a session out of its snapshot before it looks at it.              *)
(***************************************************************************)
QueuedOnce ==
    /\ \A i \in DOMAIN publications : dpc[publications[i]] = "received"
    /\ \A i, j \in DOMAIN publications : publications[i] = publications[j] => i = j

Waiting == {"none", "created", "received", "spawned"}

LeftApart ==
    \A e \in Event :
      /\ todo[e] \cap current[e] = {}
      /\ dpc[e] \in Waiting => todo[e] = {}
      /\ dpc[e] \in Waiting \cup {"looping", "done"} => current[e] = {}

VisitInv ==
    /\ CoreTypeOK
    /\ QueuedOnce
    /\ LeftApart

\* The sessions that the dispatcher of e has not done with.
Left(e) == todo[e] \cup current[e]

\* start's dispatcher goroutines: an event gets one of them, which never starts
\* again; a session that it has sent the event to, or skipped, it never visits
\* again, and a session that registers after its snapshot it never visits at all.
VisitsOnce ==
    \A e \in Event :
      /\ dpc[e] \notin Waiting => dpc'[e] \notin Waiting /\ Left(e)' \subseteq Left(e)
      /\ SendToSession(e) => Left(e)' = Left(e) \ current[e]

\* Requests, listen loops, DirectPush and the shutdown leave the dispatchers alone.
LEMMA OnlyEventsDispatch ==
    ASSUME Next
    PROVE  UNCHANGED dispatchVars \/ \E e \in Event : EventStep(e)
<1>1. ASSUME NEW s \in Session, SessionStep(s)
      PROVE  UNCHANGED dispatchVars
  BY <1>1, ZenonT(40) DEF SessionStep, HandleRequest, Handler, Admit, RegisterMetric, RegisterInMap,
              OnPushSessionStart, OnPushSessionStop, UnregisterFromMap, UnregisterMetric
<1>2. ASSUME ServerStep
      PROVE  UNCHANGED dispatchVars
  BY <1>2, ZenonT(40) DEF ServerStep, Start, StartReturns, Cancel, StopBegins, StopReturns
<1> QED
  BY <1>1, <1>2, ZenonT(40) DEF Next

\* No event waits and no dispatcher runs at the start.
LEMMA VisitInit == Init => VisitInv
<1> SUFFICES ASSUME Init PROVE VisitInv
  OBVIOUS
<1>1. QueuedOnce
  BY SMTT(30) DEF Init, QueuedOnce
<1>2. LeftApart
  BY SMTT(30) DEF Init, LeftApart
<1> QED
  BY <1>1, <1>2, CoreTypeInit, ZenonT(40) DEF VisitInv

\* An event that does not wait in the channel moves on.
LEMMA MoveKeepsQueue ==
    ASSUME CoreTypeOK, QueuedOnce, NEW e \in Event, NEW pc, dpc[e] # "received",
           EventGoto(e, pc), UNCHANGED publications
    PROVE  QueuedOnce'
<1>1. ASSUME NEW i \in DOMAIN publications
      PROVE  dpc'[publications[i]] = "received"
  <2>1. dpc[publications[i]] = "received" /\ publications[i] # e
    BY ZenonT(40) DEF QueuedOnce
  <2>2. publications[i] \in Event
    BY DEF CoreTypeOK
  <2> QED
    BY <2>1, <2>2 DEF EventGoto, CoreTypeOK
<1> QED
  BY <1>1, ZenonT(40) DEF QueuedOnce

\* So does one that enters the channel, or leaves it.
LEMMA QueueKept ==
    ASSUME CoreTypeOK, QueuedOnce, NEW e \in Event, EventStep(e)
    PROVE  QueuedOnce'
<1> USE DEF CoreTypeOK
<1>1. CASE Receive(e)
  <2>1. /\ dpc[e] = "created" /\ publications' = Append(publications, e)
        /\ dpc' = [dpc EXCEPT ![e] = "received"]
    BY <1>1, ZenonT(40) DEF Receive, EventGoto
  <2>2. \A i \in DOMAIN publications : publications[i] \in Event \ {e}
    BY <2>1 DEF QueuedOnce
  <2>3. DOMAIN publications = 1..Len(publications) /\ Len(publications) \in Nat
    OBVIOUS
  <2>4. /\ DOMAIN publications' = 1..(Len(publications) + 1)
        /\ publications'[Len(publications) + 1] = e
        /\ \A i \in DOMAIN publications : publications'[i] = publications[i]
    BY <2>1, <2>3
  <2>5. \A i \in DOMAIN publications' : dpc'[publications'[i]] = "received"
    BY <2>1, <2>2, <2>3, <2>4 DEF QueuedOnce
  <2>6. \A i, j \in DOMAIN publications' : publications'[i] = publications'[j] => i = j
    BY <2>2, <2>3, <2>4 DEF QueuedOnce
  <2> QED
    BY <2>5, <2>6 DEF QueuedOnce
<1>2. CASE Spawn(e)
  <2>1. /\ publications # <<>> /\ e = Head(publications) /\ publications' = Tail(publications)
        /\ dpc' = [dpc EXCEPT ![e] = "spawned"]
    BY <1>2, ZenonT(40) DEF Spawn, EventGoto
  <2>2. /\ 1 \in DOMAIN publications /\ e = publications[1]
        /\ \A i \in DOMAIN publications' :
             i \in Nat \ {0} /\ i + 1 \in DOMAIN publications /\ publications'[i] = publications[i + 1]
    BY <2>1
  <2>3. \A i \in DOMAIN publications' : publications'[i] \in Event \ {e}
    BY <2>2 DEF QueuedOnce
  <2>4. \A i \in DOMAIN publications' : dpc'[publications'[i]] = "received"
    BY <2>1, <2>2, <2>3 DEF QueuedOnce
  <2>5. \A i, j \in DOMAIN publications' : publications'[i] = publications'[j] => i = j
    BY <2>2 DEF QueuedOnce
  <2> QED
    BY <2>4, <2>5 DEF QueuedOnce
<1>3. CASE CreateEvent(e)
  BY <1>3, MoveKeepsQueue, ZenonT(40) DEF CreateEvent
<1>4. CASE Dispatch(e)
  <2>1. dpc[e] # "received" /\ UNCHANGED publications
    BY <1>4 DEF Dispatch, Prepare, CheckSession, SkipSession, PassFilters, SendToSession, FinishDispatch
  <2>2. UNCHANGED dpc \/ \E pc : EventGoto(e, pc)
    BY <1>4, ZenonT(40)
       DEF Dispatch, Prepare, CheckSession, SkipSession, PassFilters, SendToSession, FinishDispatch
  <2>3. CASE UNCHANGED dpc
    BY <2>1, <2>3, ZenonT(40) DEF QueuedOnce
  <2> QED
    BY <2>1, <2>2, <2>3, MoveKeepsQueue, ZenonT(40)
<1> QED
  BY <1>1, <1>2, <1>3, <1>4, ZenonT(40) DEF EventStep

\* What a step on f does to the dispatcher of an event: others are left alone,
\* and its own is taken on by one of these moves.
LEMMA DispatcherMoves ==
    ASSUME CoreTypeOK, NEW f \in Event, EventStep(f)
    PROVE  /\ \A e \in Event \ {f} :
                dpc'[e] = dpc[e] /\ todo'[e] = todo[e] /\ current'[e] = current[e]
           /\ \/ /\ dpc[f] \in {"none", "created", "received"} \/ (publications # <<>> /\ f = Head(publications))
                 /\ dpc'[f] \in Waiting /\ todo'[f] = todo[f] /\ current'[f] = current[f]
              \/ /\ dpc[f] = "spawned" /\ dpc'[f] \in {"looping", "done"} /\ current'[f] = current[f]
                 /\ dpc'[f] = "done" => todo'[f] = todo[f]
              \/ /\ dpc[f] = "looping" /\ dpc'[f] \in {"looping", "done"} /\ todo'[f] \subseteq todo[f]
                 /\ current'[f] = current[f]
              \/ /\ dpc[f] = "looping" /\ dpc'[f] = "checked"
                 /\ \E s \in todo[f] : todo'[f] = todo[f] \ {s} /\ current'[f] = {s}
              \/ /\ dpc[f] = "checked" /\ dpc'[f] = "sending"
                 /\ todo'[f] = todo[f] /\ current'[f] = current[f]
              \/ /\ dpc[f] \in {"checked", "sending"} /\ dpc'[f] = "looping"
                 /\ todo'[f] = todo[f] /\ current'[f] = {}
<1> USE DEF CoreTypeOK, EventGoto
<1>1. CASE CreateEvent(f) \/ Receive(f) \/ Spawn(f)
  <2>1. /\ dpc[f] \in {"none", "created", "received"} \/ (publications # <<>> /\ f = Head(publications))
        /\ todo' = todo /\ current' = current
    BY <1>1, ZenonT(40) DEF CreateEvent, Receive, Spawn
  <2>2. /\ EventGoto(f, "created") \/ EventGoto(f, "received") \/ EventGoto(f, "spawned")
        /\ dpc \in [Event -> DispatchPc]
    BY <1>1, ZenonT(40) DEF CreateEvent, Receive, Spawn
  <2>3. dpc'[f] \in Waiting /\ \A e \in Event \ {f} : dpc'[e] = dpc[e]
    BY <2>2, SMTT(30) DEF Waiting
  <2> QED
    BY <2>1, <2>3, ZenonT(40)
<1>2. CASE Prepare(f)
  BY <1>2, SMTT(30) DEF Prepare
<1>3. CASE CheckSession(f)
  BY <1>3, SMTT(30) DEF CheckSession
<1>4. CASE SkipSession(f) \/ PassFilters(f)
  BY <1>4, SMTT(30) DEF SkipSession, PassFilters
<1>5. CASE SendToSession(f)
  BY <1>5, SMTT(30) DEF SendToSession
<1>6. CASE FinishDispatch(f)
  BY <1>6, SMTT(30) DEF FinishDispatch
<1> QED
  BY <1>1, <1>2, <1>3, <1>4, <1>5, <1>6, ZenonT(40) DEF EventStep, Dispatch

\* The head of a queue is its first element.
LEMMA HeadIsFirst ==
    ASSUME NEW q \in Seq(Event), q # <<>>
    PROVE  1 \in DOMAIN q /\ Head(q) = q[1]
OBVIOUS

\* Only the head of the channel is spawned, and it waits there.
LEMMA SpawnedWasReceived ==
    ASSUME CoreTypeOK, QueuedOnce, publications # <<>>
    PROVE  dpc[Head(publications)] = "received"
<1>1. publications \in Seq(Event)
  BY ZenonT(40) DEF CoreTypeOK
<1>2. 1 \in DOMAIN publications /\ Head(publications) = publications[1]
  BY <1>1, HeadIsFirst, ZenonT(40)
<1> QED
  BY <1>2, ZenonT(40) DEF QueuedOnce

\* Every step keeps the two parts of the snapshot apart.
LEMMA LeftKept ==
    ASSUME VisitInv, NEW f \in Event, EventStep(f)
    PROVE  LeftApart'
<1> SUFFICES ASSUME NEW e \in Event
             PROVE  /\ todo'[e] \cap current'[e] = {}
                    /\ dpc'[e] \in Waiting => todo'[e] = {}
                    /\ dpc'[e] \in Waiting \cup {"looping", "done"} => current'[e] = {}
  BY ZenonT(40) DEF LeftApart
<1>1. CASE e # f
  BY <1>1, DispatcherMoves, ZenonT(40) DEF VisitInv, LeftApart
<1>2. CASE e = f
  <2>1. publications # <<>> /\ f = Head(publications) => dpc[f] = "received"
    BY SpawnedWasReceived, ZenonT(40) DEF VisitInv
  <2> QED
    BY <1>2, <2>1, DispatcherMoves, SMTT(30) DEF VisitInv, LeftApart, Waiting
<1> QED
  BY <1>1, <1>2

\* Every step keeps the invariant.
LEMMA VisitNext == VisitInv /\ [Next]_vars => VisitInv'
<1> SUFFICES ASSUME VisitInv, [Next]_vars
             PROVE  VisitInv'
  OBVIOUS
<1>1. CoreTypeOK'
  BY CoreTypeNext, ZenonT(40) DEF VisitInv
<1>2. CASE UNCHANGED dispatchVars
  BY <1>1, <1>2, ZenonT(40) DEF dispatchVars, VisitInv, QueuedOnce, LeftApart
<1>3. CASE \E e \in Event : EventStep(e)
  BY <1>1, <1>3, QueueKept, LeftKept, ZenonT(40) DEF VisitInv
<1>4. CASE UNCHANGED vars
  BY <1>2, <1>4, ZenonT(40) DEF vars
<1> QED
  BY <1>2, <1>3, <1>4, OnlyEventsDispatch, ZenonT(40)

\* From the invariant, no step revisits.
LEMMA StepVisitsOnce ==
    ASSUME VisitInv, [Next]_vars
    PROVE  VisitsOnce
<1> SUFFICES ASSUME NEW e \in Event
             PROVE  /\ dpc[e] \notin Waiting => dpc'[e] \notin Waiting /\ Left(e)' \subseteq Left(e)
                    /\ SendToSession(e) => Left(e)' = Left(e) \ current[e]
  BY ZenonT(40) DEF VisitsOnce
<1>1. SendToSession(e) => Left(e)' = Left(e) \ current[e]
  <2> SUFFICES ASSUME SendToSession(e)
               PROVE  Left(e)' = Left(e) \ current[e]
    OBVIOUS
  <2>1. todo' = todo /\ current'[e] = {} /\ todo[e] \cap current[e] = {}
    BY SMTT(30) DEF SendToSession, VisitInv, LeftApart, CoreTypeOK
  <2> QED
    BY <2>1 DEF Left
<1>2. CASE UNCHANGED dispatchVars
  BY <1>1, <1>2, ZenonT(40) DEF dispatchVars, Left
<1>3. ASSUME NEW f \in Event, EventStep(f), dpc[e] \notin Waiting
      PROVE  dpc'[e] \notin Waiting /\ Left(e)' \subseteq Left(e)
  <2>1. CASE e # f
    BY <1>3, <2>1, DispatcherMoves, ZenonT(40) DEF VisitInv, Left
  <2>2. CASE e = f
    <3>1. publications # <<>> /\ f = Head(publications) => dpc[f] = "received"
      BY SpawnedWasReceived, ZenonT(40) DEF VisitInv
    <3> QED
      BY <1>3, <2>2, <3>1, DispatcherMoves, SMTT(30) DEF VisitInv, Left, Waiting
  <2> QED
    BY <2>1, <2>2
<1>4. CASE UNCHANGED vars
  BY <1>2, <1>4, ZenonT(40) DEF vars
<1> QED
  BY <1>1, <1>2, <1>3, <1>4, OnlyEventsDispatch, ZenonT(40)

\* start: for every number of sessions and events, an event published on the
\* channel is taken from it by one dispatcher goroutine, which sends it at most
\* once to each session of its snapshot.
THEOREM DispatchedOnce == Spec => [][VisitsOnce]_vars
<1>1. VisitInv /\ [Next]_vars => [VisitsOnce]_vars
  BY StepVisitsOnce, ZenonT(40)
<1> QED
  BY <1>1, VisitInit, VisitNext, PTL DEF Spec

-----------------------------------------------------------------------------
(***************************************************************************)
(* What a dispatcher's send is based on: proof of SendsAreJustified.  The  *)
(* invariant says what each of the dispatcher's positions has established  *)
(* about its session.                                                      *)
(***************************************************************************)
CheckedWasCalm ==
    \A e \in Event : dpc[e] \in {"checked", "sending"} => current[e] \subseteq calm[e]

SendingWasOpen ==
    \A e \in Event : dpc[e] = "sending" => current[e] \subseteq open[e]

HistoryInv ==
    /\ CoreTypeOK
    /\ CheckedWasCalm
    /\ SendingWasOpen

\* No dispatcher runs at the start.
LEMMA HistoryInit == HInit => HistoryInv
BY CoreTypeInit, SMTT(30) DEF HInit, Init, HistoryInv, CheckedWasCalm, SendingWasOpen

\* Only the dispatcher itself moves to "checked" and "sending", and the reads it
\* then makes are those of the recorded instants.
LEMMA DispatcherReads ==
    ASSUME CoreTypeOK, Next, NEW e \in Event
    PROVE  /\ dpc'[e] \in {"checked", "sending"} =>
                \/ dpc[e] \in {"checked", "sending"} /\ current'[e] = current[e]
                \/ dpc'[e] = "checked" /\ \A s \in current'[e] : s \notin errorState'
           /\ dpc'[e] = "sending" =>
                \/ dpc[e] = "sending" /\ current'[e] = current[e]
                \/ \A s \in current'[e] : LetsThrough(pushConfig'[s], Identities(e))
<1> USE DEF CoreTypeOK, SessionTypeOK, EventGoto
<1> DEFINE P == /\ dpc'[e] \in {"checked", "sending"} =>
                     \/ dpc[e] \in {"checked", "sending"} /\ current'[e] = current[e]
                     \/ dpc'[e] = "checked" /\ \A s \in current'[e] : s \notin errorState'
                /\ dpc'[e] = "sending" =>
                     \/ dpc[e] = "sending" /\ current'[e] = current[e]
                     \/ \A s \in current'[e] : LetsThrough(pushConfig'[s], Identities(e))
<1>1. ASSUME NEW f \in Event, EventStep(f)
      PROVE  P
  <2>1. CASE CreateEvent(f) \/ Receive(f) \/ Spawn(f) \/ Prepare(f) \/ FinishDispatch(f)
    BY <2>1, ZenonT(40) DEF CreateEvent, Receive, Spawn, Prepare, FinishDispatch
  <2>2. CASE CheckSession(f)
    BY <2>2, SMTT(30) DEF CheckSession, sessionVars
  <2>3. CASE SkipSession(f) \/ SendToSession(f)
    BY <2>3, ZenonT(40) DEF SkipSession, SendToSession
  <2>4. CASE PassFilters(f)
    <3>1. /\ dpc' = [dpc EXCEPT ![f] = "sending"]
          /\ UNCHANGED <<current, pushConfig>>
          /\ dpc[f] = "checked"
          /\ \A s \in current[f] : LetsThrough(pushConfig[s], Identities(f))
      BY <2>4, SMTT(30) DEF PassFilters, sessionVars
    <3>2. \A s \in current[f] : LetsThrough(pushConfig'[s], Identities(f))
      BY <3>1, SMTT(30)
    <3>3. CASE e = f
      BY <3>1, <3>2, <3>3, SMTT(30)
    <3>4. CASE e # f
      BY <3>1, <3>4, ZenonT(40)
    <3> QED
      BY <3>3, <3>4, ZenonT(40)
  <2> QED
    BY <1>1, <2>1, <2>2, <2>3, <2>4, ZenonT(40) DEF EventStep, Dispatch
<1>2. CASE UNCHANGED dispatchVars
  BY <1>2, ZenonT(40) DEF dispatchVars
<1> QED
  BY <1>1, <1>2, OnlyEventsDispatch, ZenonT(40)

\* Every step, with what it records, keeps the invariant.
LEMMA HistoryNext == HistoryInv /\ [HNext]_hvars => HistoryInv'
<1> SUFFICES ASSUME HistoryInv, [HNext]_hvars
             PROVE  HistoryInv'
  OBVIOUS
<1>1. CASE UNCHANGED hvars
  <2>1. UNCHANGED vars
    BY <1>1 DEF hvars
  <2>2. CoreTypeOK'
    BY <2>1, CoreTypeNext, SMTT(30) DEF HistoryInv
  <2>3. UNCHANGED <<dpc, current, calm, open>>
    BY <1>1, SMTT(30) DEF hvars, vars, dispatchVars
  <2> QED
    BY <2>2, <2>3, ZenonT(40) DEF HistoryInv, CheckedWasCalm, SendingWasOpen
<1>2. CASE HNext
  <2>1. Next /\ CoreTypeOK /\ CoreTypeOK'
    BY <1>2, CoreTypeNext, SMTT(30) DEF HNext, HistoryInv
  <2>2. ASSUME NEW e \in Event, dpc'[e] \in {"checked", "sending"}, NEW s \in current'[e]
        PROVE  s \in calm'[e]
    <3>1. s \in Session
      BY <2>1, ZenonT(40) DEF CoreTypeOK
    <3>2. s \in calm[e] \/ s \notin errorState'
      BY <2>1, <2>2, DispatcherReads, ZenonT(40) DEF HistoryInv, CheckedWasCalm
    <3> QED
      BY <1>2, <2>2, <3>1, <3>2, ZenonT(40) DEF HNext, Record, Dispatching
  <2>3. ASSUME NEW e \in Event, dpc'[e] = "sending", NEW s \in current'[e]
        PROVE  s \in open'[e]
    <3>1. s \in Session
      BY <2>1 DEF CoreTypeOK
    <3>2. s \in open[e] \/ LetsThrough(pushConfig'[s], Identities(e))
      BY <2>1, <2>3, DispatcherReads, ZenonT(40) DEF HistoryInv, SendingWasOpen
    <3> QED
      BY <1>2, <2>3, <3>1, <3>2, ZenonT(40) DEF HNext, Record, Dispatching
  <2> QED
    BY <2>1, <2>2, <2>3, ZenonT(40) DEF HistoryInv, CheckedWasCalm, SendingWasOpen
<1> QED
  BY <1>1, <1>2, SMTT(30)

\* start's dispatcher goroutines: for every number of sessions, events and
\* messages, a dispatcher only sends to a session that, at some moment since
\* the dispatcher started, was out of the error state, and that had at some
\* moment since then a configuration letting the event through.
THEOREM SendsJustified == HSpec => []SendsAreJustified
<1>1. HistoryInv => SendsAreJustified
  BY DEF HistoryInv, CheckedWasCalm, SendingWasOpen, SendsAreJustified
<1> QED
  BY <1>1, HistoryInit, HistoryNext, PTL DEF HSpec
=============================================================================
