----------------------------- MODULE PushServer -----------------------------
(***************************************************************************)
(* The push server (websocket_server.go): the request goroutine that turns *)
(* a websocket request into a registered session and unregisters it, the   *)
(* start loop, the goroutine start gives to every publication (the         *)
(* dispatcher of the event), and stop.                                     *)
(*                                                                         *)
(* A dispatcher reads each session's error flag, then its configuration,   *)
(* then sends: three steps, between which the listen loop of the session   *)
(* may do anything.                                                        *)
(***************************************************************************)
EXTENDS PushSession

CONSTANTS
    Related,       \* [Identity -> SUBSET Identity]: RelatedEventIdentities
    PublicationsCap \* capacity of n.publications (24000 in the code)

ASSUME ServerAssumption ==
    /\ Related \in [Identity -> SUBSET Identity]
    /\ PublicationsCap \in Nat \ {0}
    /\ IsFiniteSet(Session)

VARIABLES
    startPc,       \* "new" until mainContext is set, "running", "returned"
    stopPc,        \* "idle", "polling", "returned"
    sessions,      \* the keys of n.sessions
    gauge,         \* current websocket connections of the metrics manager
    publications,  \* Seq(Event): n.publications
    dpc,           \* [Event -> DispatchPc]: the event and then its dispatcher
    todo,          \* [Event -> SUBSET Session]: rest of the snapshot
    current        \* [Event -> SUBSET Session]: the session being looked at

serverVars == <<startPc, stopPc, sessions, gauge>>
dispatchVars == <<publications, dpc, todo, current>>
vars == <<ctxDone, sessionVars, serverVars, dispatchVars>>

\* An event does not exist, is created, sits in n.publications, has a
\* dispatcher (about to take the snapshot, between two sessions, past the error
\* check, past the filters), is dispatched.
DispatchPc ==
    {"none", "created", "received", "spawned", "looping", "checked", "sending",
     "done"}

TypeOK ==
    /\ SessionTypeOK
    /\ startPc \in {"new", "running", "returned"}
    /\ stopPc \in {"idle", "polling", "returned"}
    /\ sessions \in SUBSET Session
    /\ gauge \in Nat
    /\ publications \in Seq(Event)
    /\ dpc \in [Event -> DispatchPc]
    /\ todo \in [Event -> SUBSET Session]
    /\ current \in [Event -> SUBSET Session]

Init ==
    /\ SessionInit
    /\ startPc = "new"
    /\ stopPc = "idle"
    /\ sessions = {}
    /\ gauge = 0
    /\ publications = <<>>
    /\ dpc = [e \in Event |-> "none"]
    /\ todo = [e \in Event |-> {}]
    /\ current = [e \in Event |-> {}]

-----------------------------------------------------------------------------
(* handleRequest: from the request to listen, and after it *)

Born == {e \in Event : dpc[e] # "none"}

\* r.WithContext(n.mainContext) panics while start has not set mainContext.
\* Otherwise the session is created; a request whose encoding is refused gets
\* an error response and goes on all the same (BadEncoding).
HandleRequest(s) ==
    /\ hpc[s] = "idle"
    /\ IF startPc = "new"
         THEN Goto(s, "panicked") /\ UNCHANGED early
         ELSE Goto(s, "created") /\ early' = [early EXCEPT ![s] = Born]
    /\ UNCHANGED <<ctxDone, connDone, errorState, pushConfig, pending,
                   errorsParam, dataCh, received, serverVars, dispatchVars>>

\* authSession, initPushSession, Upgrade and Accept follow each other without
\* touching shared state, and each of them may refuse the request.
Admit(s) ==
    /\ hpc[s] = "created"
    /\ Goto(s, "upgraded") \/ Goto(s, "refused")
    /\ UNCHANGED <<ctxDone, connDone, errorState, pushConfig, pending,
                   errorsParam, early, dataCh, received, serverVars,
                   dispatchVars>>

sessionFields ==
    <<ctxDone, connDone, errorState, pushConfig, pending, errorsParam, early,
      dataCh, received>>

\* Mutant: registerSession does not tell the metrics manager.
RegisterMetricForgotten(s) ==
    /\ hpc[s] = "upgraded"
    /\ Goto(s, "counted")
    /\ UNCHANGED <<sessionFields, serverVars, dispatchVars>>

\* registerSession: the metric, the map, then OnPushSessionStart and listen.
RegisterMetric(s) ==
    /\ hpc[s] = "upgraded"
    /\ gauge' = gauge + 1
    /\ Goto(s, "counted")
    /\ UNCHANGED <<sessionFields, startPc, stopPc, sessions, dispatchVars>>

RegisterInMap(s) ==
    /\ hpc[s] = "counted"
    /\ sessions' = sessions \cup {s}
    /\ Goto(s, "registered")
    /\ UNCHANGED <<sessionFields, startPc, stopPc, gauge, dispatchVars>>

OnPushSessionStart(s) ==
    /\ hpc[s] = "registered"
    /\ Goto(s, "listening")
    /\ UNCHANGED <<sessionFields, serverVars, dispatchVars>>

\* unregisterSession, deferred by listen: OnPushSessionStop and cancel, the
\* map, the metric.
OnPushSessionStop(s) ==
    /\ hpc[s] = "leaving"
    /\ Goto(s, "cancelled")
    /\ UNCHANGED <<sessionFields, serverVars, dispatchVars>>

\* Mutant: unregisterSession leaves the entry in the map.
UnregisterFromMapForgotten(s) ==
    /\ hpc[s] = "cancelled"
    /\ Goto(s, "deleted")
    /\ UNCHANGED <<sessionFields, serverVars, dispatchVars>>

UnregisterFromMap(s) ==
    /\ hpc[s] = "cancelled"
    /\ sessions' = sessions \ {s}
    /\ Goto(s, "deleted")
    /\ UNCHANGED <<sessionFields, startPc, stopPc, gauge, dispatchVars>>

\* Mutant: unregisterSession does not tell the metrics manager.
UnregisterMetricForgotten(s) ==
    /\ hpc[s] = "deleted"
    /\ Goto(s, "gone")
    /\ UNCHANGED <<sessionFields, serverVars, dispatchVars>>

UnregisterMetric(s) ==
    /\ hpc[s] = "deleted"
    /\ gauge' = gauge - 1
    /\ Goto(s, "gone")
    /\ UNCHANGED <<sessionFields, startPc, stopPc, sessions, dispatchVars>>

Handler(s) ==
    \/ Admit(s)
    \/ RegisterMetric(s)
    \/ RegisterInMap(s)
    \/ OnPushSessionStart(s)
    \/ OnPushSessionStop(s)
    \/ UnregisterFromMap(s)
    \/ UnregisterMetric(s)

-----------------------------------------------------------------------------
(* start and its dispatchers *)

\* start sets mainContext and subscribes.
Start ==
    /\ startPc = "new"
    /\ startPc' = "running"
    /\ UNCHANGED <<ctxDone, sessionVars, stopPc, sessions, gauge, dispatchVars>>

\* case <-ctx.Done(): the deferred unsubscribe runs and start returns.
StartReturns ==
    /\ startPc = "running"
    /\ ctxDone
    /\ startPc' = "returned"
    /\ UNCHANGED <<ctxDone, sessionVars, stopPc, sessions, gauge, dispatchVars>>

EventGoto(e, pc) == dpc' = [dpc EXCEPT ![e] = pc]

\* The application or a REST dispatcher creates an event: its Timestamp is set.
CreateEvent(e) ==
    /\ dpc[e] = "none"
    /\ EventGoto(e, "created")
    /\ UNCHANGED <<ctxDone, sessionVars, serverVars, publications, todo, current>>

\* The pubsub service puts the event on n.publications, to which it is
\* subscribed as long as start runs.
Receive(e) ==
    /\ startPc = "running"
    /\ dpc[e] = "created"
    /\ Len(publications) < PublicationsCap
    /\ publications' = Append(publications, e)
    /\ EventGoto(e, "received")
    /\ UNCHANGED <<ctxDone, sessionVars, serverVars, todo, current>>

\* case p := <-n.publications: go func(publication)
Spawn(e) ==
    /\ startPc = "running"
    /\ publications # <<>>
    /\ e = Head(publications)
    /\ publications' = Tail(publications)
    /\ EventGoto(e, "spawned")
    /\ UNCHANGED <<ctxDone, sessionVars, serverVars, todo, current>>

\* Decode, prepareEventData or SummarizeEvent fails and the event is given up,
\* or the dispatcher takes its snapshot of the sessions under the read lock.
Prepare(e) ==
    /\ dpc[e] = "spawned"
    /\ \/ EventGoto(e, "done") /\ UNCHANGED todo
       \/ EventGoto(e, "looping") /\ todo' = [todo EXCEPT ![e] = sessions]
    /\ UNCHANGED <<ctxDone, sessionVars, serverVars, publications, current>>

\* Mutant: the dispatcher does not look at the error state.
CheckSessionIgnoringErrors(e) ==
    /\ dpc[e] = "looping"
    /\ \E s \in todo[e] :
         /\ todo' = [todo EXCEPT ![e] = @ \ {s}]
         /\ IF e \in early[s]
              THEN UNCHANGED <<dpc, current>>
              ELSE EventGoto(e, "checked") /\ current' = [current EXCEPT ![e] = {s}]
    /\ UNCHANGED <<ctxDone, sessionVars, serverVars, publications>>

\* The next session of the snapshot, skipped when it is in the error state or
\* started after the event.
CheckSession(e) ==
    /\ dpc[e] = "looping"
    /\ \E s \in todo[e] :
         /\ todo' = [todo EXCEPT ![e] = @ \ {s}]
         /\ IF s \in errorState \/ e \in early[s]
              THEN UNCHANGED <<dpc, current>>
              ELSE EventGoto(e, "checked") /\ current' = [current EXCEPT ![e] = {s}]
    /\ UNCHANGED <<ctxDone, sessionVars, serverVars, publications>>

\* The identities the filter is tried with.
Identities(e) == {IdentityOf[e]} \cup Related[IdentityOf[e]]

\* The session's configuration filters the event out, or ShouldDispatch says
\* no or fails.
SkipSession(e) ==
    /\ dpc[e] = "checked"
    /\ EventGoto(e, "looping")
    /\ current' = [current EXCEPT ![e] = {}]
    /\ UNCHANGED <<ctxDone, sessionVars, serverVars, publications, todo>>

\* The configuration lets the event through and ShouldDispatch says yes.
PassFilters(e) ==
    /\ dpc[e] = "checked"
    /\ \A s \in current[e] : LetsThrough(pushConfig[s], Identities(e))
    /\ EventGoto(e, "sending")
    /\ UNCHANGED <<ctxDone, sessionVars, serverVars, publications, todo, current>>

\* Mutant: send waits for room in dataCh.
SendToSessionBlocking(e) ==
    /\ dpc[e] = "sending"
    /\ \E s \in current[e] : Len(dataCh[s]) < DataChCap /\ Send(s, e)
    /\ EventGoto(e, "looping")
    /\ current' = [current EXCEPT ![e] = {}]
    /\ UNCHANGED <<ctxDone, hpc, connDone, errorState, pushConfig, pending,
                   errorsParam, early, received, serverVars, publications, todo>>

\* session.send(data)
SendToSession(e) ==
    /\ dpc[e] = "sending"
    /\ \E s \in current[e] : Send(s, e)
    /\ EventGoto(e, "looping")
    /\ current' = [current EXCEPT ![e] = {}]
    /\ UNCHANGED <<ctxDone, hpc, connDone, errorState, pushConfig, pending,
                   errorsParam, early, received, serverVars, publications, todo>>

FinishDispatch(e) ==
    /\ dpc[e] = "looping"
    /\ todo[e] = {}
    /\ EventGoto(e, "done")
    /\ UNCHANGED <<ctxDone, sessionVars, serverVars, publications, todo, current>>

Dispatch(e) ==
    \/ Prepare(e)
    \/ CheckSession(e)
    \/ SkipSession(e)
    \/ PassFilters(e)
    \/ SendToSession(e)
    \/ FinishDispatch(e)

-----------------------------------------------------------------------------
(* Run: the context is cancelled, then stop polls until the map is empty *)

Cancel ==
    /\ ~ctxDone
    /\ ctxDone' = TRUE
    /\ UNCHANGED <<sessionVars, serverVars, dispatchVars>>

StopBegins ==
    /\ ctxDone
    /\ stopPc = "idle"
    /\ stopPc' = "polling"
    /\ UNCHANGED <<ctxDone, sessionVars, startPc, sessions, gauge, dispatchVars>>

StopReturns ==
    /\ stopPc = "polling"
    /\ sessions = {}
    /\ stopPc' = "returned"
    /\ UNCHANGED <<ctxDone, sessionVars, startPc, sessions, gauge, dispatchVars>>

-----------------------------------------------------------------------------
SessionStep(s) ==
    \/ HandleRequest(s)
    \/ Handler(s)
    \/ Listen(s) /\ UNCHANGED <<serverVars, dispatchVars>>
    \/ Disconnect(s) /\ UNCHANGED <<serverVars, dispatchVars>>
    \/ \E e \in Born : DirectPush(s, e) /\ UNCHANGED <<serverVars, dispatchVars>>

EventStep(e) ==
    CreateEvent(e) \/ Receive(e) \/ Spawn(e) \/ Dispatch(e)

ServerStep ==
    Start \/ StartReturns \/ Cancel \/ StopBegins \/ StopReturns

Next ==
    \/ \E s \in Session : SessionStep(s)
    \/ \E e \in Event : EventStep(e)
    \/ ServerStep

Spec == Init /\ [][Next]_vars

\* The Go scheduler runs every goroutine that can run, and select picks a ready
\* branch at random: listen leaves when a branch that leaves stays ready.  Nothing
\* is assumed of clients, of the application, or of when the context is cancelled.
\* Each subscript is what all the steps of its action change.
SessionFairness(s) ==
    /\ WF_hpc(Handler(s) \/ SendWSError(s) \/ SetCurrentPushConfig(s))
    /\ WF_hpc(ListenConnDone(s) \/ ListenCtxDone(s))

Fairness ==
    /\ \A s \in Session : SessionFairness(s)
    /\ \A e \in Event : WF_dispatchVars(Spawn(e)) /\ WF_dispatchVars(Dispatch(e))
    /\ WF_startPc(Start \/ StartReturns)
    /\ WF_stopPc(StopBegins \/ StopReturns)

FairSpec == Spec /\ Fairness

-----------------------------------------------------------------------------
(* Safety *)

\* Handler positions between the insertion in the map and the deletion, and
\* between the two metric calls.
InMapPc == {"registered", "listening", "applying", "erroring", "leaving", "cancelled"}
CountedPc == InMapPc \cup {"counted", "deleted"}

InMap == {s \in Session : hpc[s] \in InMapPc}
Counted == {s \in Session : hpc[s] \in CountedPc}

\* registerSession/unregisterSession: every entry of n.sessions belongs to a
\* request goroutine that still has to delete it, and the goroutine of every
\* session past insertion finds its entry there.  An entry without such a
\* goroutine would make stop poll for ever and dispatchers fill a dead channel.
MapEntriesAreOwned == sessions = InMap

\* registerSession/unregisterSession: the websocket gauge counts exactly the
\* connections between their two metric calls, so it is never negative, never
\* less than the number of sessions in the map, and 0 when all have left.
GaugeCountsConnections ==
    /\ gauge = Cardinality(Counted)
    /\ Cardinality(sessions) <= gauge

\* Neither dispatchers nor DirectPush queue an event created before the session
\* (event.Timestamp.Before(session.startTime)), whatever happens to the session
\* between the moment a dispatcher looks at it and the moment it sends.
OnlyLaterEventsQueued ==
    \A s \in Session : \A i \in DOMAIN dataCh[s] : dataCh[s][i] \notin early[s]

-----------------------------------------------------------------------------
(* Liveness *)

\* Run: once the context is cancelled, stop returns.
ShutdownCompletes == ctxDone ~> stopPc = "returned"

\* Once the context is cancelled every session leaves the map for good, the
\* ones whose request was still being admitted included.
SessionsDrain == ctxDone ~> [](sessions = {})

\* A dispatcher always finishes: send never blocks it, not even on the full
\* channel of a session whose listen loop has returned.
DispatchersFinish == \A e \in Event : dpc[e] = "spawned" ~> dpc[e] = "done"
=============================================================================
