---------------------------- MODULE ServerProofs ----------------------------
(***************************************************************************)
(* The life of the server, for any number of connections and any limit:    *)
(* the health server stops first, Run waits for the requests, the listener *)
(* keeps its limit and the gauge counts the connections.                   *)
(* Then its requests: the chains of verdicts let in what they should, and  *)
(* the stages still ahead of a request say what was done for it.  What a   *)
(* request has pushed was earned, whatever panics.                         *)
(***************************************************************************)
EXTENDS Server, FiniteSetTheorems, SequenceTheorems, TLAPS

\* A request is being worked on only while its connection is open.
BusyIsOpen == \A c \in Conn : Busy(c) => conn[c] = "open"

\* Once Run has stopped the health server, it stays closed.
HealthClosed ==
    run \in {"health", "stopRest", "rest", "stopProfiling", "returned"}
      => srv["health"] = "closed"

\* Once Run is past the REST server, it is closed, and its connections are gone
\* unless the wait for them was given up.
RestClosed ==
    /\ run \in {"rest", "stopProfiling", "returned"} => srv["rest"] = "closed"
    /\ run \in {"stopProfiling", "returned"} /\ "rest" \notin late
         => \A c \in Conn : conn[c] # "open"

\* Shutdown is what kicks connections.
KickedIsClosed == \A c \in Conn : conn[c] = "kicked" => srv["rest"] = "closed"

\* Only a secure server turns clients away.
TurnedIsSecure == \A c \in Conn : conn[c] = "turned" => Secure

LifeTypeOK ==
    /\ run \in {"new", "hook", "waiting", "stopHealth", "health", "stopRest", "rest",
                "stopProfiling", "returned", "exited", "crashed"}
    /\ cancelled \in BOOLEAN
    /\ srv \in [Http -> {"nil", "built", "listening", "closed"}]
    /\ conn \in [Conn -> {"none", "open", "refused", "hijacked", "turned", "kicked"}]
    /\ nConn \in Int /\ twice \in Nat
    /\ late \subseteq {"health", "rest"}
    /\ rq = [c \in Conn |-> rq[c]]

StopInv ==
    /\ LifeTypeOK
    /\ BusyIsOpen
    /\ HealthClosed
    /\ RestClosed
    /\ KickedIsClosed /\ TurnedIsSecure
    /\ UnhealthyFirst

-----------------------------------------------------------------------------
(* Requests. *)

\* The record of a connection without a request has nothing left to do.
LEMMA NoRequestIsIdle == NoRequest.todo = <<>>
BY DEF NoRequest, NewContext

\* A step of a request is one of a busy connection, and of no other.
LEMMA HandleIsLocal ==
    ASSUME NEW c \in Conn, Handle(c)
    PROVE  Busy(c) /\ \E rec : rq' = [rq EXCEPT ![c] = rec]
<1>1. CASE Pass(c)
  BY <1>1, ZenonT(40) DEF Pass, At, Set
<1>2. CASE Fail(c)
  BY <1>2, ZenonT(40) DEF Fail, At, Set
<1>3. CASE Cancelled(c)
  BY <1>3, ZenonT(40) DEF Cancelled, At, Set
<1>4. CASE Process(c)
  BY <1>4, ZenonT(40) DEF Process, At, Set
<1>5. CASE ProcessFails(c)
  BY <1>5, ZenonT(40) DEF ProcessFails, At, Set
<1>6. CASE PushEvents(c)
  BY <1>6, ZenonT(40) DEF PushEvents, At, Set
<1>7. CASE PushOutput(c)
  BY <1>7, ZenonT(40) DEF PushOutput, At, Set
<1>8. CASE AuditOK(c)
  BY <1>8, ZenonT(40) DEF AuditOK, At, Set
<1>9. CASE makeResponse(c)
  BY <1>9, ZenonT(40) DEF makeResponse, At, Set
<1>10. CASE makeErrorResponse(c)
  BY <1>10, ZenonT(40) DEF makeErrorResponse, At, Set
<1>11. CASE Write(c)
  BY <1>11, ZenonT(40) DEF Write, At, Set
<1>12. CASE handleRecoveredPanic(c)
  BY <1>12 DEF handleRecoveredPanic, At, Set, Drop
<1>13. CASE PanicOutside(c)
  BY <1>13, ZenonT(40) DEF PanicOutside, At, Set, Drop
<1> QED
  BY <1>1, <1>2, <1>3, <1>4, <1>5, <1>6, <1>7, <1>8, <1>9, <1>10, <1>11, <1>12, <1>13, SMTT(30)
     DEF Handle

-----------------------------------------------------------------------------
(* The order of the stops. *)

\* The server starts with nothing closed and nobody connected.
LEMMA StopInvInit == ServerInit => StopInv
<1> SUFFICES ASSUME ServerInit
             PROVE  StopInv
  OBVIOUS
<1>1. LifeTypeOK
  <2>1. rq = [c \in Conn |-> rq[c]]
    BY DEF ServerInit, RestInit
  <2>2. srv \in [Http -> {"nil", "built", "listening", "closed"}]
    BY DEF ServerInit, Http
  <2>3. conn \in [Conn -> {"none", "open", "refused", "hijacked", "turned", "kicked"}]
    BY DEF ServerInit
  <2>4. run = "new" /\ cancelled = FALSE /\ nConn = 0 /\ late = {} /\ twice = 0
    BY DEF ServerInit
  <2>5. cancelled \in BOOLEAN
    BY <2>4, ZenonT(40)
  <2> QED
    BY <2>1, <2>2, <2>3, <2>4, <2>5, SMTT(30) DEF LifeTypeOK
<1>2. BusyIsOpen
  BY NoRequestIsIdle DEF ServerInit, RestInit, BusyIsOpen, Busy
<1>3. HealthClosed /\ RestClosed /\ KickedIsClosed /\ TurnedIsSecure /\ UnhealthyFirst
  BY DEF ServerInit, HealthClosed, RestClosed, KickedIsClosed, TurnedIsSecure, UnhealthyFirst, Http
<1> QED
  BY <1>1, <1>2, <1>3 DEF StopInv

\* A step of Run, of a server that starts or of the application leaves the
\* connections and their requests alone.
LEMMA RunKeepsStopInv ==
    ASSUME StopInv,
           \/ Run \/ PostStart \/ Cancel \/ Stop \/ Application \/ Over
           \/ \E h \in Http : Build(h) \/ Listen(h) \/ ListenFails(h)
    PROVE  StopInv'
<1> USE DEF StopInv, LifeTypeOK, BusyIsOpen, Busy, HealthClosed, RestClosed,
            KickedIsClosed, TurnedIsSecure, UnhealthyFirst, Unchanged, restVars, Http
<1>1. CASE Run
  BY <1>1, ZenonT(40) DEF Run
<1>2. CASE PostStart
  BY <1>2, SMTT(30) DEF PostStart
<1>3. CASE Cancel
  BY <1>3 DEF Cancel
<1>4. CASE PreStop
  BY <1>4, SMTT(30) DEF PreStop, Step
<1>5. CASE StopHealth
  BY <1>5 DEF StopHealth, Step, Shutdown
<1>6. CASE HealthStopped
  BY <1>6, SMTT(30) DEF HealthStopped, Step
<1>7. CASE StopRest
  BY <1>7, SMTT(30) DEF StopRest, Step, Shutdown
<1>8. CASE RestDrained
  BY <1>8 DEF RestDrained, Step
<1>9. CASE RestTimeout
  BY <1>9, SMTT(30) DEF RestTimeout, Step
<1>10. CASE StopProfiling
  BY <1>10, SMTT(30) DEF StopProfiling, Step, Shutdown
<1>11. CASE Application
  BY <1>11, SMTT(30) DEF Application, RegisterProcessor, UnregisterProcessor, lifeVars
<1>12. CASE Over
  BY <1>12, SMTT(30) DEF Over, serverVars, lifeVars
<1>13. CASE \E h \in Http : Build(h) \/ Listen(h) \/ ListenFails(h)
  BY <1>13, SMTT(30) DEF Build, Listen, ListenFails
<1> QED
  BY <1>1, <1>2, <1>3, <1>4, <1>5, <1>6, <1>7, <1>8, <1>9, <1>10, <1>11, <1>12, <1>13, ZenonT(40)
     DEF Stop

\* So does a step of a connection, which changes no server.
LEMMA ConnectionKeepsStopInv ==
    ASSUME StopInv, NEW c \in Conn, Connection(c)
    PROVE  StopInv'
<1> USE DEF StopInv, LifeTypeOK, BusyIsOpen, HealthClosed, RestClosed,
            KickedIsClosed, TurnedIsSecure, UnhealthyFirst, Unchanged, restVars, Http, Become
<1>1. CASE Accept(c)
  BY <1>1, SMTT(30) DEF Accept, Busy
<1>2. CASE Retry(c)
  BY <1>2, SMTT(30) DEF Retry, Busy
<1>3. CASE Receive(c)
  BY <1>3, SMTT(30) DEF Receive, Reads, lifeVars, Busy
<1>4. CASE HandleRequest(c)
  <2>1. Busy(c) /\ \E rec : rq' = [rq EXCEPT ![c] = rec]
    BY <1>4, HandleIsLocal DEF HandleRequest
  <2>2. UNCHANGED lifeVars
    BY <1>4, SMTT(30) DEF HandleRequest
  <2> QED
    BY <2>1, <2>2, SMTT(30) DEF lifeVars, Busy
<1>5. CASE Disconnect(c)
  BY <1>5, NoRequestIsIdle, SMTT(30) DEF Disconnect, Close, Busy
<1>6. CASE CloseIdle(c)
  BY <1>6, NoRequestIsIdle, SMTT(30) DEF CloseIdle, Busy
<1>7. CASE CloseAgain(c)
  BY <1>7, SMTT(30) DEF CloseAgain, Close, Busy
<1>8. CASE Hijack(c)
  BY <1>8, NoRequestIsIdle, SMTT(30) DEF Hijack, Reads, Busy
<1>9. CASE SessionEnds(c)
  BY <1>9 DEF SessionEnds, Close, Busy
<1>10. CASE TurnAway(c)
  BY <1>10, SMTT(30) DEF TurnAway, Busy
<1> QED
  BY <1>1, <1>2, <1>3, <1>4, <1>5, <1>6, <1>7, <1>8, <1>9, <1>10, ZenonT(40) DEF Connection

\* Every step keeps the order of the stops.
LEMMA StopInvNext == StopInv /\ [ServerNext]_serverVars => StopInv'
<1> SUFFICES ASSUME StopInv, [ServerNext]_serverVars
             PROVE  StopInv'
  OBVIOUS
<1>1. CASE UNCHANGED serverVars
  BY <1>1 DEF StopInv, LifeTypeOK, BusyIsOpen, Busy, HealthClosed, RestClosed,
              KickedIsClosed, TurnedIsSecure, UnhealthyFirst, serverVars, restVars, lifeVars
<1>2. CASE \E c \in Conn : Connection(c)
  BY <1>2, ConnectionKeepsStopInv
<1>3. CASE ServerNext /\ ~(\E c \in Conn : Connection(c))
  BY <1>3, RunKeepsStopInv DEF ServerNext
<1> QED
  BY <1>1, <1>2, <1>3

\* In every state the servers are closed in the order of stop, and a connection
\* with a request in progress is open.
THEOREM StopInvariant == ServerSpec => []StopInv
BY StopInvInit, StopInvNext, PTL DEF ServerSpec

\* The health server is closed before the REST server refuses anybody, however
\* their goroutines are scheduled.
THEOREM HealthFirst == ServerSpec => []UnhealthyFirst
<1>1. StopInv => UnhealthyFirst
  BY SMTT(30) DEF StopInv
<1> QED
  BY <1>1, StopInvariant, PTL

\* Run returns when no request is being worked on, or after its wait.
THEOREM Drains == ServerSpec => []ReturnMeansDrained
<1>1. StopInv => ReturnMeansDrained
  BY DEF StopInv, RestClosed, BusyIsOpen, ReturnMeansDrained
<1> QED
  BY <1>1, StopInvariant, PTL

-----------------------------------------------------------------------------
(* The connections. *)

InService == {c \in Conn : conn[c] \in Attended}

\* The gauge and the limit; the counter is only right until Shutdown.
ConnInv ==
    /\ StopInv
    /\ tcp = Cardinality(InService)
    /\ ConnectionsBounded

\* One connection more in a set of connections.
LEMMA OneMore ==
    ASSUME NEW S \in SUBSET Conn, NEW c \in Conn, c \notin S
    PROVE  /\ Cardinality(S) \in Nat
           /\ Cardinality(S \cup {c}) = Cardinality(S) + 1
<1>1. IsFiniteSet(S)
  BY FS_Subset, ServerAssumption
<1> QED
  BY <1>1, FS_CardinalityType, FS_AddElement, SMTT(30)

\* And one less.
LEMMA OneLess ==
    ASSUME NEW S \in SUBSET Conn, NEW c \in S
    PROVE  /\ Cardinality(S) \in Nat
           /\ Cardinality(S \ {c}) = Cardinality(S) - 1
<1>1. IsFiniteSet(S)
  BY FS_Subset, ServerAssumption
<1> QED
  BY <1>1, FS_CardinalityType, FS_RemoveElement

\* The gauge and the count of slots start right, at zero.
LEMMA ConnInvInit == ServerInit => ConnInv
<1> SUFFICES ASSUME ServerInit
             PROVE  ConnInv
  OBVIOUS
<1>1. InService = {} /\ Live = {}
  BY DEF ServerInit, InService, Attended, Live
<1>2. Cardinality({}) = 0
  BY FS_EmptySet
<1>3. tcp = 0 /\ nConn = 0 /\ twice = 0
  BY DEF ServerInit
<1> QED
  BY <1>1, <1>2, <1>3, StopInvInit, ServerAssumption, SMTT(30) DEF ConnInv, ConnectionsBounded

\* A step that moves no connection, and opens no server again.
LEMMA NoMove ==
    ASSUME ConnInv, StopInv', UNCHANGED <<conn, nConn, tcp, twice>>,
           srv["rest"] = "closed" => srv'["rest"] = "closed"
    PROVE  ConnInv'
BY DEF ConnInv, ConnectionsBounded, InService, Live

\* Run only moves the REST server forward.
LEMMA RunMovesNoConnection ==
    ASSUME StopInv,
           \/ Run \/ PostStart \/ Cancel \/ Stop \/ Application \/ Over
           \/ \E h \in Http : Build(h) \/ Listen(h) \/ ListenFails(h)
    PROVE  /\ UNCHANGED <<conn, nConn, tcp, twice>>
           /\ srv["rest"] = "closed" => srv'["rest"] = "closed"
<1> USE DEF StopInv, LifeTypeOK, Unchanged, Http
<1>1. CASE Run \/ PostStart \/ Cancel
  BY <1>1, ZenonT(40) DEF Run, PostStart, Cancel
<1>2. CASE PreStop \/ StopHealth \/ HealthStopped
  BY <1>2, SMTT(30) DEF PreStop, StopHealth, HealthStopped, Shutdown
<1>3. CASE StopRest \/ RestDrained \/ RestTimeout \/ StopProfiling
  BY <1>3 DEF StopRest, RestDrained, RestTimeout, StopProfiling, Shutdown
<1>4. CASE Application \/ Over
  BY <1>4, SMTT(30) DEF Application, Over, lifeVars, serverVars
<1>5. CASE \E h \in Http : Build(h) \/ Listen(h) \/ ListenFails(h)
  BY <1>5, SMTT(30) DEF Build, Listen, ListenFails
<1> QED
  BY <1>1, <1>2, <1>3, <1>4, <1>5, SMTT(30) DEF Stop

\* What becomes of the two sets when one connection moves.
LEMMA Moves ==
    ASSUME StopInv, NEW c \in Conn, NEW to, Become(c, to)
    PROVE  /\ InService \in SUBSET Conn /\ Live \in SUBSET Conn
           /\ c \in InService <=> conn[c] \in Attended
           /\ c \in Live <=> conn[c] \in {"open", "hijacked"}
           /\ InService' = IF to \in Attended THEN InService \cup {c} ELSE InService \ {c}
           /\ Live' = IF to \in {"open", "hijacked"} THEN Live \cup {c} ELSE Live \ {c}
BY SMTT(30) DEF StopInv, LifeTypeOK, Become, InService, Live, Attended

\* A step of one connection keeps the gauge and the count of slots right.
LEMMA ConnectionKeepsConnInv ==
    ASSUME ConnInv, StopInv', NEW c \in Conn, Connection(c)
    PROVE  ConnInv'
<1> USE DEF ConnInv, ConnectionsBounded
<1>a. IsFiniteSet(InService)
  BY FS_Subset, ServerAssumption, ZenonT(40) DEF InService
<1>0. StopInv /\ nConn \in Int /\ MaxConnection \in Nat /\ tcp \in Int /\ twice \in Nat
  BY <1>a, FS_CardinalityType, ServerAssumption, SMTT(30) DEF StopInv, LifeTypeOK
<1>1. CASE Accept(c)
  <2>1. CASE UNCHANGED <<nConn, tcp>> /\ Become(c, "refused")
    <3>1. InService' = InService /\ Live' = Live
      BY <1>0, <1>1, <2>1, Moves, ZenonT(40) DEF Accept, Attended
    <3>2. UNCHANGED <<srv, twice, nConn, tcp>>
      BY <1>1, <2>1, ZenonT(40) DEF Accept, Unchanged
    <3> QED
      BY <3>1, <3>2, SMTT(30)
  <2>2. CASE Become(c, "open") /\ ConnState("none", "open")
             /\ (MaxConnection > 0 => nConn' = nConn + 1 /\ nConn + 1 <= MaxConnection)
    <3>1. /\ c \notin InService /\ InService' = InService \cup {c}
          /\ c \notin Live /\ Live' = Live \cup {c}
          /\ InService \in SUBSET Conn /\ Live \in SUBSET Conn
      BY <1>0, <1>1, <2>2, Moves, ZenonT(40) DEF Accept, Attended
    <3>2. tcp' = tcp + 1
      BY <1>0, <2>2, SMTT(30) DEF ConnState, Attended
    <3>3. srv["rest"] = "listening" /\ srv' = srv /\ twice' = twice
      BY <1>1, SMTT(30) DEF Accept, Unchanged
    <3> QED
      BY <1>0, <2>2, <3>1, <3>2, <3>3, OneMore, SMTT(30)
  <2> QED
    BY <1>0, <1>1, <2>1, <2>2, SMTT(30) DEF Accept
<1>2. CASE Retry(c)
  <2>1. InService' = InService /\ Live' = Live
    BY <1>0, <1>2, Moves, SMTT(30) DEF Retry, Attended
  <2> QED
    BY <1>2, <2>1, SMTT(30) DEF Retry, Unchanged
<1>3. CASE Receive(c) \/ HandleRequest(c)
  BY <1>3, NoMove, SMTT(30) DEF Receive, HandleRequest, lifeVars
<1>4. CASE Disconnect(c)
  <2>1. /\ c \in InService /\ InService' = InService \ {c}
        /\ c \in Live /\ Live' = Live \ {c}
        /\ InService \in SUBSET Conn /\ Live \in SUBSET Conn
    BY <1>0, <1>4, Moves, SMTT(30) DEF Disconnect, Close, Attended
  <2>2. tcp' = tcp - 1
    BY <1>0, <1>4, SMTT(30) DEF Disconnect, Close, ConnState, Attended
  <2>3. nConn' = nConn - 1 /\ srv' = srv /\ twice' = twice
    BY <1>4, SMTT(30) DEF Disconnect, Close
  <2> QED
    BY <1>0, <2>1, <2>2, <2>3, OneLess, SMTT(30)
<1>5. CASE CloseIdle(c)
  <2>1. /\ c \in InService /\ InService' = InService
        /\ c \in Live /\ Live' = Live \ {c} /\ Live \in SUBSET Conn
    BY <1>0, <1>5, Moves, SMTT(30) DEF CloseIdle, Attended
  <2>2. tcp' = tcp /\ srv' = srv /\ srv["rest"] = "closed" /\ twice' = twice
    BY <1>5, SMTT(30) DEF CloseIdle
  <2> QED
    BY <1>0, <2>1, <2>2, OneLess, SMTT(30)
<1>6. CASE CloseAgain(c)
  <2>1. Become(c, "none") /\ conn[c] \in {"kicked", "turned"} /\ ConnState(conn[c], "none")
    BY <1>6, ZenonT(40) DEF CloseAgain, Close
  <2>2. /\ c \in InService /\ InService' = InService \ {c} /\ InService \in SUBSET Conn
        /\ Live' = Live /\ Live \in SUBSET Conn
    BY <1>0, <2>1, Moves, SMTT(30) DEF Attended
  <2>3. tcp' = tcp - 1
    BY <1>0, <2>1, SMTT(30) DEF ConnState, Attended
  <2>4. tcp' = Cardinality(InService')
    BY <1>0, <2>2, <2>3, OneLess, SMTT(30)
  <2>5. IsFiniteSet(Live) /\ Cardinality(Live) \in Nat
    BY <2>2, FS_Subset, FS_CardinalityType, ServerAssumption, ZenonT(40)
  <2>6. CASE conn[c] = "kicked"
    <3>1. twice' = twice /\ srv' = srv /\ srv["rest"] = "closed"
      BY <1>0, <1>6, <2>6, SMTT(30) DEF CloseAgain, Unchanged, StopInv, KickedIsClosed
    <3> QED
      BY <1>0, <2>2, <2>4, <3>1, SMTT(30)
  <2>7. CASE conn[c] = "turned"
    <3>1. twice' = twice + 1 /\ nConn' = nConn - 1 /\ srv' = srv /\ Secure
      BY <1>0, <1>6, <2>7, SMTT(30) DEF CloseAgain, Close, Unchanged, StopInv, TurnedIsSecure
    <3> QED
      BY <1>0, <2>2, <2>4, <2>5, <3>1, SMTT(30)
  <2> QED
    BY <2>1, <2>6, <2>7, ZenonT(40)
<1>7. CASE Hijack(c)
  <2>1. /\ c \in InService /\ InService' = InService \ {c} /\ InService \in SUBSET Conn
        /\ Live' = Live
    BY <1>0, <1>7, Moves, ZenonT(40) DEF Hijack, Reads, Attended
  <2>2. tcp' = tcp - 1
    BY <1>0, <1>7 DEF Hijack, ConnState, Attended
  <2>3. UNCHANGED <<srv, nConn, twice>>
    BY <1>7 DEF Hijack
  <2> QED
    BY <1>0, <2>1, <2>2, <2>3, OneLess, SMTT(30)
<1>8. CASE SessionEnds(c)
  <2>1. /\ InService' = InService
        /\ c \in Live /\ Live' = Live \ {c} /\ Live \in SUBSET Conn
    <3>1. conn[c] = "hijacked" /\ Become(c, "none")
      BY <1>8 DEF SessionEnds, Close
    <3>2. InService' = InService \ {c} /\ c \notin InService
      BY <1>0, <3>1, Moves, SMTT(30) DEF Attended
    <3>3. c \in Live /\ Live' = Live \ {c} /\ Live \in SUBSET Conn
      BY <1>0, <3>1, Moves, SMTT(30)
    <3> QED
      BY <3>2, <3>3, SMTT(30)
  <2>2. tcp' = tcp
    BY <1>0, <1>8 DEF SessionEnds, Close, ConnState, Attended
  <2>3. nConn' = nConn - 1 /\ srv' = srv /\ twice' = twice
    BY <1>8, SMTT(30) DEF SessionEnds, Close, Unchanged
  <2> QED
    BY <1>0, <2>1, <2>2, <2>3, OneLess
<1>9. CASE TurnAway(c)
  <2>1. /\ InService' = InService
        /\ c \in Live /\ Live' = Live \ {c} /\ Live \in SUBSET Conn
    BY <1>0, <1>9, Moves, SMTT(30) DEF TurnAway, Attended
  <2>2. nConn' = nConn - 1 /\ UNCHANGED <<srv, tcp, twice>>
    BY <1>9, SMTT(30) DEF TurnAway, Unchanged
  <2> QED
    BY <1>0, <2>1, <2>2, OneLess, SMTT(30)
<1> QED
  BY <1>1, <1>2, <1>3, <1>4, <1>5, <1>6, <1>7, <1>8, <1>9, SMTT(30) DEF Connection

\* Every step of the server does.
LEMMA ConnInvNext == ConnInv /\ [ServerNext]_serverVars => ConnInv'
<1> SUFFICES ASSUME ConnInv, [ServerNext]_serverVars
             PROVE  ConnInv'
  OBVIOUS
<1>1. StopInv /\ StopInv'
  BY StopInvNext DEF ConnInv
<1>2. CASE UNCHANGED serverVars
  BY <1>1, <1>2, NoMove, SMTT(30) DEF serverVars, lifeVars
<1>3. CASE \E c \in Conn : Connection(c)
  BY <1>1, <1>3, ConnectionKeepsConnInv, SMTT(30)
<1>4. CASE ServerNext /\ ~(\E c \in Conn : Connection(c))
  BY <1>1, <1>4, RunMovesNoConnection, NoMove, SMTT(30) DEF ServerNext
<1> QED
  BY <1>2, <1>3, <1>4

\* In every state the gauge and the count of slots are right.
THEOREM ConnInvariant == ServerSpec => []ConnInv
BY ConnInvInit, ConnInvNext, PTL DEF ServerSpec

\* For any limit and any number of clients, more connections than the limit are
\* open only by as many as net/http closed twice while it serves, and none is
\* without TLS; what Shutdown closes twice does not matter.
THEOREM LimitKept == ServerSpec => []ConnectionsBounded
<1>1. ConnInv => ConnectionsBounded
  BY SMTT(30) DEF ConnInv
<1> QED
  BY <1>1, ConnInvariant, PTL

\* Without TLS the listener keeps its promise.
AtMostMaxConnection == MaxConnection > 0 => Cardinality(Live) <= MaxConnection

\* A server without certificates never has more connections open than its limit,
\* whatever Shutdown closes twice.
THEOREM PlainLimitKept == ASSUME ~ Secure PROVE ServerSpec => []AtMostMaxConnection
<1>1. ConnInv => AtMostMaxConnection
  <2> SUFFICES ASSUME ConnInv, MaxConnection > 0
               PROVE  Cardinality(Live) <= MaxConnection
    BY DEF AtMostMaxConnection
  <2>1. twice = 0 /\ Cardinality(Live) <= MaxConnection + twice /\ MaxConnection \in Nat
    BY ServerAssumption, ZenonT(40) DEF ConnInv, ConnectionsBounded
  <2> QED
    BY <2>1, SMTT(30)
<1> QED
  BY <1>1, ConnInvariant, PTL

\* The gauge counts the connections that net/http serves.
THEOREM GaugeCountsServed == ServerSpec => []TCPGauge
<1>1. ConnInv => TCPGauge
  BY SMTT(30) DEF ConnInv, TCPGauge, InService
<1> QED
  BY <1>1, ConnInvariant, PTL

\* Every variable of the life cycle keeps its type; that the gauge is never
\* negative rests on what it counts.
THEOREM ServerTypeCorrect == ServerSpec => []ServerTypeOK
<1>1. ConnInv => ServerTypeOK
  <2> SUFFICES ASSUME ConnInv
               PROVE  ServerTypeOK
    OBVIOUS
  <2>1. IsFiniteSet(InService)
    BY FS_Subset, ServerAssumption DEF InService
  <2>2. tcp \in Nat
    BY <2>1, FS_CardinalityType, SMTT(30) DEF ConnInv
  <2> QED
    BY <2>2 DEF ConnInv, StopInv, LifeTypeOK, ServerTypeOK
<1> QED
  BY <1>1, ConnInvariant, PTL



\* A set of naturals that is not empty has a least element.
LEMMA Least ==
    ASSUME NEW T \in SUBSET Nat, T # {}
    PROVE  Min(T) \in T /\ \A k \in T : Min(T) <= k
<1> DEFINE R == {ss \in Nat \X Nat : ss[1] < ss[2]}
<1>1. IsWellFoundedOn(R, Nat)
  BY NatLessThanWellFounded, Zenon DEF OpToRel
<1>2. PICK m \in T : \A k \in T : ~ (<<k, m>> \in R)
  <2> HIDE DEF R
  <2> QED
    BY <1>1, WFMin, ZenonT(40)
<1>3. \A k \in T : ~ (k < m)
  BY <1>2, ZenonT(40)
<1>4. \A k \in T : m <= k
  BY <1>3, SMTT(30)
<1> QED
  BY <1>4, ZenonT(40) DEF Min

\* The loop over a chain of any length lets in exactly what the chain grants.
THEOREM WalkGrants ==
    ASSUME NEW chain \in Seq(Verdict)
    PROVE  Walk(chain) <=> Grants(chain)
<1> DEFINE deciding == {i \in 1..Len(chain) : chain[i] # "continue"}
<1>1. Len(chain) \in Nat /\ \A i \in 1..Len(chain) : chain[i] \in Verdict
  BY ElementOfSeq, LenProperties, SMTT(30)
<1>2. Walk(chain) <=> (deciding # {} => chain[Min(deciding)] = "ok")
  BY DEF Walk
<1>3. CASE deciding = {}
  BY <1>1, <1>2, <1>3, SMTT(30) DEF Grants
<1>4. CASE deciding # {}
  <2>1. /\ Min(deciding) \in deciding
        /\ \A k \in deciding : Min(deciding) <= k
    <3>1. deciding \in SUBSET Nat
      BY <1>1, SMTT(30)
    <3> HIDE DEF deciding
    <3> QED
      BY <1>4, <3>1, Least, SMTT(30)
  <2> DEFINE first == Min(deciding)
  <2>2. first \in 1..Len(chain) /\ chain[first] # "continue" /\ chain[first] \in Verdict
    BY <1>1, <2>1, SMTT(30)
  <2>3. \A k \in 1..Len(chain) : chain[k] # "continue" => first <= k
    BY <2>1, SMTT(30)
  <2>4. Walk(chain) <=> chain[first] = "ok"
    BY <1>2, <1>4, SMTT(30)
  <2> HIDE DEF first
  <2>5. ASSUME chain[first] = "ok"
        PROVE  Grants(chain)
    <3> SUFFICES ASSUME NEW i \in 1..Len(chain), chain[i] \in {"ko", "error"}
                 PROVE  \E j \in 1..(i - 1) : chain[j] = "ok"
      BY DEF Grants
    <3>1. first \in 1..(i - 1)
      BY <1>1, <2>2, <2>3, <2>5, SMTT(30)
    <3> QED
      BY <2>5, <3>1, SMTT(30)
  <2>6. ASSUME Grants(chain), chain[first] # "ok"
        PROVE  FALSE
    <3>1. chain[first] \in {"ko", "error"}
      BY <2>2, <2>6, SMTT(30) DEF Verdict
    <3>2. PICK j \in 1..(first - 1) : chain[j] = "ok"
      BY <2>2, <2>6, <3>1, SMTT(30) DEF Grants
    <3>3. j \in 1..Len(chain) /\ chain[j] # "continue" /\ ~ (first <= j)
      BY <1>1, <2>2, <3>2, SMTT(30)
    <3> QED
      BY <2>3, <3>3, SMTT(30)
  <2> QED
    BY <2>4, <2>5, <2>6, SMTT(30)
<1> QED
  BY <1>3, <1>4, SMTT(30)

-----------------------------------------------------------------------------
(* The requests of the REST server: what is left of a request to do says    *)
(* what was done for it.                                                    *)

\* What follows the processor when it succeeds.
AfterProcess(writes) ==
    IF writes THEN <<"pushEvents", "pushOutput", "audit", "respond", "write">>
              ELSE <<"pushEvents", "audit", "respond", "write">>

\* Some checks, the processor, and then what is given.
Ahead(todo, after) ==
    \E n \in 0..Len(todo) :
      /\ Len(todo) = n + 1 + Len(after)
      /\ \A i \in 1..n : todo[i] \in Checks
      /\ todo[n + 1] = "process"
      /\ \A i \in 1..Len(after) : todo[n + 1 + i] = after[i]

Unanswered(rec) == rec.resp = "none" /\ rec.sent = "no"
Undisturbed(rec) == rec.failed = "none" /\ ~ rec.panicked

\* One audit for each outcome.
AuditsMatch(rec) ==
    /\ rec.failed \in Unaudited => rec.audits = <<>>
    /\ rec.failed \notin Unaudited \cup {"none"} => rec.audits = <<"error">>
    /\ rec.failed = "none" => (rec.audits = <<"ok">> \/ (rec.audits = <<>> /\ rec.panicked))

\* What an answer tells the client is so.
Truthful(rec) ==
    /\ rec.resp = "data" =>
         rec.result = "ok" /\ rec.pushed = Due(rec) /\ rec.audits = <<"ok">>
    /\ rec.resp \in {"error", "nil"} /\ ~ rec.panicked => rec.pushed = <<>>
    /\ AuditsMatch(rec)

\* The request waits for its checks or for its processor.
Checking(rec) ==
    /\ Ahead(rec.todo, AfterProcess(rec.writes))
    /\ Unanswered(rec) /\ Undisturbed(rec)
    /\ rec.result = "none" /\ rec.pushed = <<>> /\ rec.audits = <<>>

\* Its processor succeeded, and what was pushed is what the stages behind push.
Succeeding(rec) ==
    /\ Unanswered(rec) /\ Undisturbed(rec)
    /\ rec.result = "ok"
    /\ \/ rec.todo = AfterProcess(rec.writes) /\ rec.pushed = <<>> /\ rec.audits = <<>>
       \/ /\ rec.todo = <<"pushOutput", "audit", "respond", "write">> /\ rec.writes
          /\ rec.pushed = (IF rec.events THEN <<"events">> ELSE <<>>) /\ rec.audits = <<>>
       \/ rec.todo = <<"audit", "respond", "write">> /\ rec.pushed = Due(rec) /\ rec.audits = <<>>
       \/ rec.todo = <<"respond", "write">> /\ rec.pushed = Due(rec) /\ rec.audits = <<"ok">>

\* A check or the processor failed, or a panic was recovered.
Failed(rec) ==
    /\ Unanswered(rec)
    /\ AuditsMatch(rec)
    /\ \/ /\ rec.todo \in {<<"refuse", "write">>, <<"errorResponse", "write">>}
          /\ rec.failed # "none" /\ ~ rec.panicked /\ rec.pushed = <<>>
       \/ rec.todo = <<"recovered", "write">> /\ rec.panicked

\* The answer is made, or given; or there is no request.
Answering(rec) == rec.todo = <<"write">> /\ Truthful(rec)
Answered(rec) == rec.todo = <<>> /\ (rec.sent # "no" => Truthful(rec))

Stages == Checks \cup Inside \cup {"refuse", "recovered", "write"}

RequestRecord ==
    [writes : BOOLEAN, excluded : BOOLEAN, todo : Seq(Stages), granted : SUBSET Checks,
     failed : Stages \cup {"none"}, panicked : BOOLEAN, result : {"none", "ok", "failed"},
     events : BOOLEAN, output : {"none", "object", "silent", "writer"}, pushed : Seq({"events", "object"}),
     audits : Seq({"ok", "error"}), resp : {"none", "data", "error", "nil"},
     sent : {"no", "custom", "resp", "dropped"}]

RequestInv(rec) ==
    /\ rec \in RequestRecord
    /\ Checking(rec) \/ Succeeding(rec) \/ Failed(rec) \/ Answering(rec) \/ Answered(rec)

RequestsInv == \A c \in Conn : RequestInv(rq[c])

\* The verdicts of the verifiers are verdicts.
LEMMA ChainsHoldVerdicts ==
    ASSUME NEW stage, NEW chain \in Chains(stage)
    PROVE  chain \in Seq(Verdict)
<1>1. ASSUME NEW s \in TLSState, NEW h \in Header
      PROVE  DeciderFunc[checkAction(s, h)] \in Verdict
  <2>1. checkAction(s, h) \in {"ok", "ko", "continue"}
    BY DEF checkAction
  <2> QED
    BY <2>1, AuthAssumption, SMTT(30) DEF Verdict
<1>2. ASSUME NEW v \in Verdict, NEW w \in Verdict
      PROVE  <<v, w>> \in Seq(Verdict)
  OBVIOUS
<1>3. CASE chain = <<>>
  BY <1>3, SMTT(30)
<1>4. CASE chain # <<>> /\ stage = "authenticate"
  <2>1. PICK s \in TLSState, h \in Header, f \in Verdict \cup {"nil"} :
          chain = <<mtlsAuthenticateRequest(s, h), simpleAuthenticateRequest(f)>>
    BY <1>4, SMTT(30) DEF Chains
  <2>2. mtlsAuthenticateRequest(s, h) \in Verdict /\ simpleAuthenticateRequest(f) \in Verdict
    BY <1>1, SMTT(30) DEF mtlsAuthenticateRequest, simpleAuthenticateRequest, Verdict
  <2> QED
    BY <1>2, <2>1, <2>2, SMTT(30)
<1>5. CASE chain # <<>> /\ stage # "authenticate"
  <2>1. PICK i \in BOOLEAN, s \in TLSState, h \in Header, f \in Verdict \cup {"nil"} :
          chain = <<mtlsIsAuthorized(i, s, h), simpleIsAuthorized(f)>>
    BY <1>5, SMTT(30) DEF Chains
  <2>2. mtlsIsAuthorized(i, s, h) \in Verdict /\ simpleIsAuthorized(f) \in Verdict
    BY <1>1, SMTT(30) DEF mtlsIsAuthorized, simpleIsAuthorized, Verdict
  <2> QED
    BY <1>2, <2>1, <2>2, SMTT(30)
<1> QED
  BY <1>3, <1>4, <1>5, SMTT(30)

\* A check that passes was due to pass.
LEMMA PassIsDue ==
    ASSUME NEW c \in Conn, NEW o \in Outcomes(c), o.pass
    PROVE  o.due /\ (Stage(c) = "readOnly" => makeReadOnlyError(rq[c].excluded))
<1>1. CASE Stage(c) \in {"authenticate", "authorize"}
  <2>1. PICK chain \in Chains(Stage(c)) : o = [pass |-> Walk(chain), due |-> Grants(chain)]
    BY <1>1, ZenonT(40) DEF Outcomes, CheckAuthentication, CheckAuthorization
  <2>2. Walk(chain)
    BY <2>1, SMTT(30)
  <2>3. Grants(chain)
    BY <2>2, ChainsHoldVerdicts, WalkGrants, SMTT(30)
  <2>4. o.due
    BY <2>1, <2>3, SMTT(30)
  <2> QED
    BY <1>1, <2>4, ZenonT(40)
<1>2. CASE Stage(c) = "readOnly"
  <2>1. o = [pass |-> makeReadOnlyError(rq[c].excluded), due |-> TRUE]
    BY <1>2, SMTT(30) DEF Outcomes
  <2> QED
    BY <2>1, ZenonT(40)
<1>3. CASE Stage(c) = "find"
  BY <1>3 DEF Outcomes
<1>4. CASE Stage(c) \notin {"authenticate", "authorize", "readOnly", "find"}
  BY <1>4, ZenonT(40) DEF Outcomes
<1> QED
  BY <1>1, <1>2, <1>3, <1>4, SMTT(30)

\* What follows the processor, stage by stage.
LEMMA AfterIsStages ==
    ASSUME NEW writes \in BOOLEAN
    PROVE  AfterProcess(writes) \in Seq(Stages)
<1> DEFINE S == {"pushEvents", "pushOutput", "audit", "respond", "write"}
<1>1. /\ <<"pushEvents", "pushOutput", "audit", "respond", "write">> \in Seq(S)
      /\ <<"pushEvents", "audit", "respond", "write">> \in Seq(S)
  OBVIOUS
<1>2. S \subseteq Stages
  BY DEF Stages, Inside
<1> HIDE DEF S
<1>3. AfterProcess(writes) \in Seq(S)
  BY <1>1, SMTT(30) DEF AfterProcess
<1> QED
  BY <1>2, <1>3, SeqMonotonic, SMTT(30)

\* A request whose checks lie ahead comes to one of them, or to its processor.
LEMMA AheadMoves ==
    ASSUME NEW todo \in Seq(Stages), NEW after \in Seq(Stages), Ahead(todo, after)
    PROVE  /\ todo # <<>>
           /\ Tail(todo) \in Seq(Stages)
           /\ \/ Head(todo) \in Checks /\ Ahead(Tail(todo), after)
              \/ Head(todo) = "process" /\ Tail(todo) = after
<1>1. PICK n \in 0..Len(todo) :
        /\ Len(todo) = n + 1 + Len(after)
        /\ \A i \in 1..n : todo[i] \in Checks
        /\ todo[n + 1] = "process"
        /\ \A i \in 1..Len(after) : todo[n + 1 + i] = after[i]
  BY Zenon DEF Ahead
<1>2. Len(after) \in Nat /\ Len(todo) \in Nat
  BY LenProperties, SMTT(30)
<1>3. todo # <<>>
  BY <1>1, <1>2, SMTT(30)
<1>4. /\ Tail(todo) \in Seq(Stages)
      /\ Len(Tail(todo)) = Len(todo) - 1
      /\ \A i \in 1..Len(Tail(todo)) : Tail(todo)[i] = todo[i + 1]
      /\ Head(todo) = todo[1]
  BY <1>3, HeadTailProperties, SMTT(30)
<1> DEFINE rest == Tail(todo)
<1> HIDE DEF rest
<1>5. /\ rest \in Seq(Stages) /\ Len(rest) = n + Len(after)
      /\ \A i \in 1..(n + Len(after)) : rest[i] = todo[i + 1]
  BY <1>1, <1>2, <1>4, SMTT(30) DEF rest
<1>6. CASE n = 0
  <2>1. Head(todo) = "process"
    BY <1>1, <1>4, <1>6, SMTT(30)
  <2>2. Len(rest) = Len(after)
    BY <1>2, <1>5, <1>6, SMTT(30)
  <2>3. \A i \in 1..Len(rest) : rest[i] = after[i]
    BY <1>1, <1>2, <1>5, <1>6, SMTT(30)
  <2>4. rest = after
    BY <1>5, <2>2, <2>3, SeqEqual, ZenonT(40)
  <2> QED
    BY <1>3, <1>4, <2>1, <2>4, SMTT(30) DEF rest
<1>7. CASE n > 0
  <2>1. Head(todo) \in Checks
    BY <1>1, <1>4, <1>7, SMTT(30)
  <2> DEFINE m == n - 1
  <2>2. m \in 0..Len(rest) /\ Len(rest) = m + 1 + Len(after) /\ n = m + 1
    BY <1>2, <1>5, <1>7, SMTT(30)
  <2> HIDE DEF m
  <2>3. ASSUME NEW i \in 1..m
        PROVE  rest[i] \in Checks
    <3>1. rest[i] = todo[i + 1] /\ i + 1 \in 1..n
      BY <1>2, <1>5, <2>2, SMTT(30)
    <3> QED
      BY <1>1, <3>1, SMTT(30)
  <2>4. rest[m + 1] = "process"
    BY <1>1, <1>2, <1>5, <2>2, SMTT(30)
  <2>5. ASSUME NEW i \in 1..Len(after)
        PROVE  rest[m + 1 + i] = after[i]
    <3>1. rest[m + 1 + i] = todo[m + 1 + i + 1]
      BY <1>2, <1>5, <2>2, SMTT(30)
    <3>2. todo[m + 1 + i + 1] = todo[n + 1 + i]
      BY <1>2, <2>2, SMTT(30)
    <3> QED
      BY <1>1, <3>1, <3>2, SMTT(30)
  <2>6. Ahead(rest, after)
    BY <2>2, <2>3, <2>4, <2>5, SMTT(30) DEF Ahead
  <2> QED
    BY <1>3, <1>4, <2>1, <2>6, SMTT(30) DEF rest
<1> QED
  BY <1>6, <1>7, SMTT(30)

\* More checks before them, or more stages behind, leave the checks ahead.
LEMMA AheadPrefix ==
    ASSUME NEW pre \in Seq(Checks), NEW todo \in Seq(Stages), NEW after \in Seq(Stages),
           Ahead(todo, after)
    PROVE  pre \o todo \in Seq(Stages) /\ Ahead(pre \o todo, after)
<1>1. PICK n \in 0..Len(todo) :
        /\ Len(todo) = n + 1 + Len(after)
        /\ \A i \in 1..n : todo[i] \in Checks
        /\ todo[n + 1] = "process"
        /\ \A i \in 1..Len(after) : todo[n + 1 + i] = after[i]
  BY Zenon DEF Ahead
<1>2. Len(after) \in Nat /\ Len(todo) \in Nat /\ Len(pre) \in Nat
  BY LenProperties
<1>3. pre \in Seq(Stages)
  BY SeqMonotonic, SMTT(30) DEF Stages
<1> DEFINE s == pre \o todo
           m == Len(pre) + n
<1>4. /\ s \in Seq(Stages)
      /\ Len(s) = Len(pre) + Len(todo)
      /\ \A i \in 1..(Len(pre) + Len(todo)) :
           s[i] = IF i <= Len(pre) THEN pre[i] ELSE todo[i - Len(pre)]
  BY <1>3, ConcatProperties, SMTT(30)
<1>5. m \in 0..Len(s) /\ Len(s) = m + 1 + Len(after)
  BY <1>1, <1>2, <1>4, SMTT(30)
<1> HIDE DEF s
<1>6. ASSUME NEW i \in 1..m
      PROVE  s[i] \in Checks
  <2>1. CASE i <= Len(pre)
    BY <1>1, <1>2, <1>4, <2>1, ElementOfSeq, SMTT(30)
  <2>2. CASE i > Len(pre)
    <3>1. s[i] = todo[i - Len(pre)] /\ i - Len(pre) \in 1..n
      BY <1>1, <1>2, <1>4, <2>2, SMTT(30)
    <3> QED
      BY <1>1, <3>1, SMTT(30)
  <2> QED
    BY <1>2, <2>1, <2>2, SMTT(30)
<1>7. s[m + 1] = "process"
  <2>1. s[m + 1] = todo[(m + 1) - Len(pre)]
    BY <1>1, <1>2, <1>4, SMTT(30)
  <2>2. (m + 1) - Len(pre) = n + 1
    BY <1>2, SMTT(30)
  <2> QED
    BY <1>1, <2>1, <2>2, ZenonT(40)
<1>8. ASSUME NEW i \in 1..Len(after)
      PROVE  s[m + 1 + i] = after[i]
  <2>1. s[m + 1 + i] = todo[(m + 1 + i) - Len(pre)]
    BY <1>1, <1>2, <1>4, SMTT(30)
  <2>2. (m + 1 + i) - Len(pre) = n + 1 + i
    BY <1>2
  <2> QED
    BY <1>1, <2>1, <2>2, SMTT(30)
<1> HIDE DEF m
<1>9. Ahead(s, after)
  BY <1>5, <1>6, <1>7, <1>8, ZenonT(40) DEF Ahead
<1> QED
  BY <1>4, <1>9, SMTT(30) DEF s

\* The same behind them.
LEMMA AheadSuffix ==
    ASSUME NEW todo \in Seq(Stages), NEW after \in Seq(Stages), NEW stage \in Stages,
           Ahead(todo, after)
    PROVE  /\ todo \o <<stage>> \in Seq(Stages)
           /\ after \o <<stage>> \in Seq(Stages)
           /\ Ahead(todo \o <<stage>>, after \o <<stage>>)
<1>1. PICK n \in 0..Len(todo) :
        /\ Len(todo) = n + 1 + Len(after)
        /\ \A i \in 1..n : todo[i] \in Checks
        /\ todo[n + 1] = "process"
        /\ \A i \in 1..Len(after) : todo[n + 1 + i] = after[i]
  BY Zenon DEF Ahead
<1>2. Len(after) \in Nat /\ Len(todo) \in Nat
  BY LenProperties, SMTT(30)
<1> DEFINE s == todo \o <<stage>>
           a == after \o <<stage>>
<1>3. <<stage>> \in Seq(Stages) /\ Len(<<stage>>) = 1 /\ <<stage>>[1] = stage
  BY SMTT(30)
<1>4. /\ s \in Seq(Stages)
      /\ Len(s) = Len(todo) + 1
      /\ \A i \in 1..(Len(todo) + 1) :
           s[i] = IF i <= Len(todo) THEN todo[i] ELSE <<stage>>[i - Len(todo)]
  BY <1>3, ConcatProperties, SMTT(30)
<1>5. /\ a \in Seq(Stages)
      /\ Len(a) = Len(after) + 1
      /\ \A i \in 1..(Len(after) + 1) :
           a[i] = IF i <= Len(after) THEN after[i] ELSE <<stage>>[i - Len(after)]
  BY <1>3, ConcatProperties, SMTT(30)
<1> HIDE DEF s, a
<1>6. n \in 0..Len(s) /\ Len(s) = n + 1 + Len(a)
  BY <1>1, <1>2, <1>4, <1>5, SMTT(30)
<1>7. /\ \A i \in 1..n : s[i] \in Checks
      /\ s[n + 1] = "process"
  BY <1>1, <1>2, <1>4, SMTT(30)
<1>8. ASSUME NEW i \in 1..Len(a)
      PROVE  s[n + 1 + i] = a[i]
  <2>1. CASE i <= Len(after)
    <3>1. s[n + 1 + i] = todo[n + 1 + i] /\ a[i] = after[i]
      BY <1>1, <1>2, <1>4, <1>5, <2>1, SMTT(30)
    <3> QED
      BY <1>1, <1>2, <2>1, <3>1, SMTT(30)
  <2>2. CASE i > Len(after)
    <3>1. i = Len(after) + 1 /\ n + 1 + i = Len(todo) + 1
      <4>1. Len(a) = Len(after) + 1 /\ Len(todo) = n + 1 + Len(after)
        BY <1>1, <1>5, SMTT(30)
      <4>2. i \in Nat /\ i <= Len(after) + 1
        BY <1>2, <4>1, SMTT(30)
      <4>3. i = Len(after) + 1
        BY <1>2, <2>2, <4>2, SMTT(30)
      <4> QED
        BY <1>2, <4>1, <4>3, SMTT(30)
    <3>2. a[i] = <<stage>>[1]
      <4>1. i \in 1..(Len(after) + 1) /\ ~ (i <= Len(after)) /\ i - Len(after) = 1
        BY <1>2, <3>1, SMTT(30)
      <4> QED
        BY <1>5, <4>1, ZenonT(40)
    <3>3. s[n + 1 + i] = <<stage>>[1]
      <4> DEFINE k == n + 1 + i
      <4>1. k \in 1..(Len(todo) + 1) /\ ~ (k <= Len(todo)) /\ k - Len(todo) = 1
        BY <1>2, <3>1, SMTT(30)
      <4> HIDE DEF k
      <4> QED
        BY <1>4, <4>1, SMTT(30) DEF k
    <3> QED
      BY <3>2, <3>3, ZenonT(40)
  <2> QED
    BY <1>2, <1>5, <2>1, <2>2, SMTT(30)
<1>9. Ahead(s, a)
  BY <1>6, <1>7, <1>8, ZenonT(40) DEF Ahead
<1> QED
  BY <1>4, <1>5, <1>9, ZenonT(40) DEF s, a

\* A sequence is another one with one more element.
LEMMA AppendOne ==
    ASSUME NEW S, NEW s \in Seq(S), NEW x \in S, NEW t \in Seq(S),
           Len(t) = Len(s) + 1, \A i \in 1..Len(s) : t[i] = s[i], t[Len(s) + 1] = x
    PROVE  s \o <<x>> = t /\ Append(s, x) = t
<1>1. Append(s, x) \in Seq(S) /\ Len(Append(s, x)) = Len(s) + 1
  BY AppendProperties, SMTT(30)
<1>2. \A i \in 1..Len(s) : Append(s, x)[i] = s[i]
  BY AppendProperties, SMTT(30)
<1>3. Append(s, x)[Len(s) + 1] = x
  BY AppendProperties, SMTT(30)
<1>4. Len(s) \in Nat
  BY LenProperties, SMTT(30)
<1>5. \A i \in 1..(Len(s) + 1) : Append(s, x)[i] = t[i]
  BY <1>2, <1>3, <1>4, SMTT(30)
<1>6. Append(s, x) = t
  BY <1>1, <1>5, SeqEqual, SMTT(30)
<1> QED
  BY <1>6, AppendIsConcat, SMTT(30)

\* Tuples with one more component.
LEMMA Tuple2 ==
    ASSUME NEW a, NEW b
    PROVE  <<a>> \o <<b>> = <<a, b>> /\ Append(<<a>>, b) = <<a, b>>
<1> DEFINE S == {a, b}
           s == <<a>>
           t == <<a, b>>
<1>1. s \in Seq(S) /\ t \in Seq(S) /\ b \in S
  OBVIOUS
<1>2. Len(t) = Len(s) + 1 /\ (\A i \in 1..Len(s) : t[i] = s[i]) /\ t[Len(s) + 1] = b
  BY SMTT(30)
<1>3. s \o <<b>> = t /\ Append(s, b) = t
  <2> HIDE DEF S, s, t
  <2> QED
    BY <1>1, <1>2, AppendOne, ZenonT(40)
<1> QED
  BY <1>3

\* A tuple of 3 is one of 2 and its last component.
LEMMA Tuple3 ==
    ASSUME NEW a, NEW b, NEW c
    PROVE  <<a, b>> \o <<c>> = <<a, b, c>>
<1> DEFINE S == {a, b, c}
           s == <<a, b>>
           t == <<a, b, c>>
<1>1. s \in Seq(S) /\ t \in Seq(S) /\ c \in S
  OBVIOUS
<1>2. Len(t) = Len(s) + 1 /\ (\A i \in 1..Len(s) : t[i] = s[i]) /\ t[Len(s) + 1] = c
  BY SMTT(30)
<1>3. s \o <<c>> = t /\ Append(s, c) = t
  <2> HIDE DEF S, s, t
  <2> QED
    BY <1>1, <1>2, AppendOne
<1> QED
  BY <1>3, SMTT(30)

\* A tuple of 4 is one of 3 and its last component.
LEMMA Tuple4 ==
    ASSUME NEW a, NEW b, NEW c, NEW d
    PROVE  <<a, b, c>> \o <<d>> = <<a, b, c, d>>
<1> DEFINE S == {a, b, c, d}
           s == <<a, b, c>>
           t == <<a, b, c, d>>
<1>1. s \in Seq(S) /\ t \in Seq(S) /\ d \in S
  OBVIOUS
<1>2. Len(t) = Len(s) + 1 /\ (\A i \in 1..Len(s) : t[i] = s[i]) /\ t[Len(s) + 1] = d
  BY SMTT(30)
<1>3. s \o <<d>> = t /\ Append(s, d) = t
  <2> HIDE DEF S, s, t
  <2> QED
    BY <1>1, <1>2, AppendOne
<1> QED
  BY <1>3, SMTT(30)

\* A tuple of 5 is one of 4 and its last component.
LEMMA Tuple5 ==
    ASSUME NEW a, NEW b, NEW c, NEW d, NEW e
    PROVE  <<a, b, c, d>> \o <<e>> = <<a, b, c, d, e>>
<1> DEFINE S == {a, b, c, d, e}
           s == <<a, b, c, d>>
           t == <<a, b, c, d, e>>
<1>1. s \in Seq(S) /\ t \in Seq(S) /\ e \in S
  OBVIOUS
<1>2. Len(t) = Len(s) + 1 /\ (\A i \in 1..Len(s) : t[i] = s[i]) /\ t[Len(s) + 1] = e
  BY SMTT(30)
<1>3. s \o <<e>> = t /\ Append(s, e) = t
  <2> HIDE DEF S, s, t
  <2> QED
    BY <1>1, <1>2, AppendOne
<1> QED
  BY <1>3, SMTT(30)

\* The stages of the handlers that come before the processor are checks.
LEMMA PrefixesAreChecks ==
    /\ <<"version", "manager", "request", "globalLimit", "apiLimit">> \in Seq(Checks)
    /\ <<"allowed">> \in Seq(Checks)
    /\ Guards \in Seq(Checks)
    /\ <<"readOnly", "find", "decode">> \in Seq(Checks)
    /\ <<"retrieve", "patchable", "identity", "validate">> \in Seq(Checks)
BY DEF Checks, Outside, Guards

\* The part of a dispatcher from its last guard on.
LEMMA DispatchersAhead ==
    LET reads == <<"pushEvents", "audit">>
        writes == <<"pushEvents", "pushOutput", "audit">>
    IN  /\ reads \in Seq(Stages) /\ writes \in Seq(Stages)
        /\ LET d == <<"find", "process", "pushEvents", "audit">>
           IN  d \in Seq(Stages) /\ Ahead(d, reads)
        /\ LET d == <<"readOnly", "find", "process", "pushEvents", "pushOutput", "audit">>
           IN  d \in Seq(Stages) /\ Ahead(d, writes)
        /\ LET d == <<"readOnly", "find", "decode", "validate", "process", "pushEvents",
                      "pushOutput", "audit">>
           IN  d \in Seq(Stages) /\ Ahead(d, writes)
        /\ LET d == <<"process", "pushEvents", "pushOutput", "audit">>
           IN  d \in Seq(Stages) /\ Ahead(d, writes)
<1> DEFINE S == {"readOnly", "find", "decode", "validate", "process", "pushEvents",
                 "pushOutput", "audit"}
           reads == <<"pushEvents", "audit">>
           writes == <<"pushEvents", "pushOutput", "audit">>
           d1 == <<"find", "process", "pushEvents", "audit">>
           d2 == <<"readOnly", "find", "process", "pushEvents", "pushOutput", "audit">>
           d3 == <<"readOnly", "find", "decode", "validate", "process", "pushEvents",
                   "pushOutput", "audit">>
           d4 == <<"process", "pushEvents", "pushOutput", "audit">>
<1>1. /\ reads \in Seq(S) /\ writes \in Seq(S)
      /\ d1 \in Seq(S) /\ d2 \in Seq(S) /\ d3 \in Seq(S) /\ d4 \in Seq(S)
  OBVIOUS
<1>2. S \subseteq Stages
  BY DEF Stages, Inside, Checks, Outside
<1>3. /\ reads \in Seq(Stages) /\ writes \in Seq(Stages)
      /\ d1 \in Seq(Stages) /\ d2 \in Seq(Stages) /\ d3 \in Seq(Stages) /\ d4 \in Seq(Stages)
  <2> HIDE DEF S, reads, writes, d1, d2, d3, d4
  <2> QED
    BY <1>1, <1>2, SeqMonotonic, SMTT(30)
<1>4. \A s \in {"readOnly", "find", "decode", "validate"} : s \in Checks
  BY ZenonT(40) DEF Checks
<1>5. Ahead(d1, reads)
  <2>1. /\ 1 \in 0..Len(d1)
        /\ Len(d1) = 1 + 1 + Len(reads)
        /\ \A i \in 1..1 : d1[i] \in Checks
        /\ d1[1 + 1] = "process"
        /\ \A i \in 1..Len(reads) : d1[1 + 1 + i] = reads[i]
    BY <1>4
  <2> HIDE DEF d1, reads
  <2> QED
    BY <2>1, Zenon DEF Ahead
<1>6. Ahead(d2, writes)
  <2>1. /\ 2 \in 0..Len(d2)
        /\ Len(d2) = 2 + 1 + Len(writes)
        /\ \A i \in 1..2 : d2[i] \in Checks
        /\ d2[2 + 1] = "process"
        /\ \A i \in 1..Len(writes) : d2[2 + 1 + i] = writes[i]
    BY <1>4
  <2> HIDE DEF d2, writes
  <2> QED
    BY <2>1, Zenon DEF Ahead
<1>7. Ahead(d3, writes)
  <2>1. /\ 4 \in 0..Len(d3)
        /\ Len(d3) = 4 + 1 + Len(writes)
        /\ \A i \in 1..4 : d3[i] \in Checks
        /\ d3[4 + 1] = "process"
        /\ \A i \in 1..Len(writes) : d3[4 + 1 + i] = writes[i]
    BY <1>4
  <2> HIDE DEF d3, writes
  <2> QED
    BY <2>1, Zenon DEF Ahead
<1>8. Ahead(d4, writes)
  <2>1. /\ 0 \in 0..Len(d4)
        /\ Len(d4) = 0 + 1 + Len(writes)
        /\ \A i \in 1..0 : d4[i] \in Checks
        /\ d4[0 + 1] = "process"
        /\ \A i \in 1..Len(writes) : d4[0 + 1 + i] = writes[i]
    OBVIOUS
  <2> HIDE DEF d4, writes
  <2> QED
    BY <2>1, Zenon DEF Ahead
<1> HIDE DEF reads, writes, d1, d2, d3, d4
<1> QED
  BY <1>3, <1>5, <1>6, <1>7, <1>8, ZenonT(40) DEF reads, writes, d1, d2, d3, d4

\* What follows the processor, put together as the handlers do.
LEMMA AfterIsConcat ==
    /\ (<<"pushEvents", "audit">> \o <<"respond">>) \o <<"write">> = AfterProcess(FALSE)
    /\ (<<"pushEvents", "pushOutput", "audit">> \o <<"respond">>) \o <<"write">>
         = AfterProcess(TRUE)
<1>1. <<"pushEvents", "audit">> \o <<"respond">> = <<"pushEvents", "audit", "respond">>
  BY Tuple3, ZenonT(40)
<1>2. <<"pushEvents", "audit", "respond">> \o <<"write">>
        = <<"pushEvents", "audit", "respond", "write">>
  BY Tuple4
<1>3. <<"pushEvents", "pushOutput", "audit">> \o <<"respond">>
        = <<"pushEvents", "pushOutput", "audit", "respond">>
  BY Tuple4
<1>4. <<"pushEvents", "pushOutput", "audit", "respond">> \o <<"write">>
        = <<"pushEvents", "pushOutput", "audit", "respond", "write">>
  BY Tuple5
<1>5. /\ AfterProcess(FALSE) = <<"pushEvents", "audit", "respond", "write">>
      /\ AfterProcess(TRUE) = <<"pushEvents", "pushOutput", "audit", "respond", "write">>
  BY DEF AfterProcess
<1> QED
  BY <1>1, <1>2, <1>3, <1>4, <1>5, ZenonT(40)

\* A handler whose dispatcher has its checks ahead has them ahead itself.
LEMMA HandlerAhead ==
    ASSUME NEW dispatcher \in Seq(Stages), NEW after \in Seq(Stages), Ahead(dispatcher, after)
    PROVE  LET h == makeHandler(runDispatcher(dispatcher))
           IN  h \in Seq(Stages) /\ Ahead(h, (after \o <<"respond">>) \o <<"write">>)
<1> DEFINE a == <<"allowed">> \o dispatcher
           r == a \o <<"respond">>
           m == <<"version", "manager", "request", "globalLimit", "apiLimit">> \o r
           after1 == after \o <<"respond">>
<1>0. "respond" \in Stages /\ "write" \in Stages
  BY DEF Stages, Inside
<1>1. a \in Seq(Stages) /\ Ahead(a, after)
  BY PrefixesAreChecks, AheadPrefix, ZenonT(40)
<1> HIDE DEF a
<1>2. r \in Seq(Stages) /\ after1 \in Seq(Stages) /\ Ahead(r, after1)
  BY <1>0, <1>1, AheadSuffix, SMTT(30)
<1> HIDE DEF r, after1
<1>3. m \in Seq(Stages) /\ Ahead(m, after1)
  BY <1>2, PrefixesAreChecks, AheadPrefix, ZenonT(40)
<1> HIDE DEF m
<1>4. m \o <<"write">> \in Seq(Stages) /\ Ahead(m \o <<"write">>, after1 \o <<"write">>)
  BY <1>0, <1>2, <1>3, AheadSuffix, SMTT(30)
<1>5. makeHandler(runDispatcher(dispatcher)) = m \o <<"write">>
  BY SMTT(30) DEF makeHandler, runDispatcher, m, r, a
<1> QED
  BY <1>4, <1>5, SMTT(30) DEF after1

\* Every operation is some checks, its processor and what follows it.
LEMMA OperationsAhead ==
    ASSUME NEW op \in Op
    PROVE  LET h == makeHandler(installRoutes(op))
           IN  h \in Seq(Stages) /\ Ahead(h, AfterProcess(op \in Writes))
<1> DEFINE reads == <<"pushEvents", "audit">>
           writes == <<"pushEvents", "pushOutput", "audit">>
           d1 == <<"find", "process", "pushEvents", "audit">>
           d2 == <<"readOnly", "find", "process", "pushEvents", "pushOutput", "audit">>
           d3 == <<"readOnly", "find", "decode", "validate", "process", "pushEvents",
                   "pushOutput", "audit">>
           d4 == <<"process", "pushEvents", "pushOutput", "audit">>
           p == (Guards \o <<"readOnly", "find", "decode">>)
                  \o (IF Retriever THEN <<"retrieve", "patchable", "identity", "validate">>
                                   ELSE <<>>)
<1>1. /\ reads \in Seq(Stages) /\ writes \in Seq(Stages)
      /\ d1 \in Seq(Stages) /\ Ahead(d1, reads)
      /\ d2 \in Seq(Stages) /\ Ahead(d2, writes)
      /\ d3 \in Seq(Stages) /\ Ahead(d3, writes)
      /\ d4 \in Seq(Stages) /\ Ahead(d4, writes)
  BY DispatchersAhead, Zenon
<1>2. p \in Seq(Checks)
  <2>1. Guards \o <<"readOnly", "find", "decode">> \in Seq(Checks)
    BY PrefixesAreChecks, ConcatProperties, SMTT(30)
  <2>2. (IF Retriever THEN <<"retrieve", "patchable", "identity", "validate">> ELSE <<>>)
          \in Seq(Checks)
    BY PrefixesAreChecks
  <2> QED
    BY <2>1, <2>2, ConcatProperties, SMTT(30)
<1>3. /\ (reads \o <<"respond">>) \o <<"write">> = AfterProcess(FALSE)
      /\ (writes \o <<"respond">>) \o <<"write">> = AfterProcess(TRUE)
  BY AfterIsConcat, ZenonT(40)
<1>a. /\ dispatchRetrieveManyOperation = Guards \o d1
      /\ dispatchRetrieveOperation = Guards \o d1
      /\ dispatchInfoOperation = Guards \o d1
      /\ dispatchDeleteOperation = Guards \o d2
      /\ dispatchCreateOperation = Guards \o d3
      /\ dispatchUpdateOperation = Guards \o d3
      /\ dispatchPatchOperation = p \o d4
  BY Zenon DEF dispatchRetrieveManyOperation, dispatchRetrieveOperation, dispatchInfoOperation,
         dispatchDeleteOperation, dispatchCreateOperation, dispatchUpdateOperation,
         dispatchPatchOperation
<1> HIDE DEF reads, writes, d1, d2, d3, d4, p
<1>4. ASSUME NEW pre \in Seq(Checks), NEW d \in Seq(Stages), Ahead(d, reads)
      PROVE  LET h == makeHandler(runDispatcher(pre \o d))
             IN  h \in Seq(Stages) /\ Ahead(h, AfterProcess(FALSE))
  <2>1. pre \o d \in Seq(Stages) /\ Ahead(pre \o d, reads)
    BY <1>1, <1>4, AheadPrefix, ZenonT(40)
  <2> QED
    BY <1>1, <1>3, <2>1, HandlerAhead, ZenonT(40)
<1>5. ASSUME NEW pre \in Seq(Checks), NEW d \in Seq(Stages), Ahead(d, writes)
      PROVE  LET h == makeHandler(runDispatcher(pre \o d))
             IN  h \in Seq(Stages) /\ Ahead(h, AfterProcess(TRUE))
  <2>1. pre \o d \in Seq(Stages) /\ Ahead(pre \o d, writes)
    BY <1>1, <1>5, AheadPrefix, ZenonT(40)
  <2> QED
    BY <1>1, <1>3, <2>1, HandlerAhead, ZenonT(40)
<1>6. CASE op \in {"retrieveMany", "retrieve", "info"}
  <2>1. installRoutes(op) = runDispatcher(Guards \o d1)
    BY <1>6, <1>a, ZenonT(40) DEF installRoutes, handleRetrieveMany, handleRetrieve, handleInfo
  <2>2. (op \in Writes) = FALSE
    BY <1>6 DEF Writes
  <2> QED
    BY <1>1, <1>4, <2>1, <2>2, PrefixesAreChecks, ZenonT(40)
<1>7. CASE op \in {"create", "update"}
  <2>1. installRoutes(op) = runDispatcher(Guards \o d3)
    BY <1>7, <1>a, ZenonT(40) DEF installRoutes, handleCreate, handleUpdate
  <2>2. (op \in Writes) = TRUE
    BY <1>7 DEF Writes
  <2> QED
    BY <1>1, <1>5, <2>1, <2>2, PrefixesAreChecks, ZenonT(40)
<1>8. CASE op = "delete"
  <2>1. installRoutes(op) = runDispatcher(Guards \o d2)
    BY <1>8, <1>a, ZenonT(40) DEF installRoutes, handleDelete
  <2>2. (op \in Writes) = TRUE
    BY <1>8 DEF Writes
  <2> QED
    BY <1>1, <1>5, <2>1, <2>2, PrefixesAreChecks, ZenonT(40)
<1>9. CASE op = "patch"
  <2>1. installRoutes(op) = runDispatcher(p \o d4)
    BY <1>9, <1>a, ZenonT(40) DEF installRoutes, handlePatch
  <2>2. (op \in Writes) = TRUE
    BY <1>9, SMTT(30) DEF Writes
  <2> QED
    BY <1>1, <1>2, <1>5, <2>1, <2>2, ZenonT(40)
<1> QED
  BY <1>6, <1>7, <1>8, <1>9, SMTT(30) DEF Op

\* Where a request stands decides which of the phases it is in.
LEMMA PhaseOfStage ==
    ASSUME NEW rec, RequestInv(rec), rec.todo # <<>>
    PROVE  /\ Head(rec.todo) \in Checks \cup {"process"} <=> Checking(rec)
           /\ Head(rec.todo) \in {"pushEvents", "pushOutput", "audit", "respond"}
                <=> Succeeding(rec)
           /\ Head(rec.todo) \in {"refuse", "errorResponse", "recovered"} <=> Failed(rec)
           /\ Head(rec.todo) = "write" <=> Answering(rec)
<1>1. rec.todo \in Seq(Stages) /\ rec.writes \in BOOLEAN
  BY ZenonT(40) DEF RequestInv, RequestRecord
<1>2. Checking(rec) => Head(rec.todo) \in Checks \cup {"process"}
  BY <1>1, AfterIsStages, AheadMoves, SMTT(30) DEF Checking
<1>3. Succeeding(rec) => Head(rec.todo) \in {"pushEvents", "pushOutput", "audit", "respond"}
  BY SMTT(30) DEF Succeeding, AfterProcess
<1>4. Failed(rec) => Head(rec.todo) \in {"refuse", "errorResponse", "recovered"}
  BY DEF Failed
<1>5. Answering(rec) => Head(rec.todo) = "write"
  BY DEF Answering
<1>6. ~ Answered(rec)
  BY SMTT(30) DEF Answered
<1>7. Checking(rec) \/ Succeeding(rec) \/ Failed(rec) \/ Answering(rec)
  BY <1>6, ZenonT(40) DEF RequestInv
<1>8. \A s \in Checks \cup {"process"} :
        s \notin {"pushEvents", "pushOutput", "audit", "respond", "refuse", "errorResponse",
                  "recovered", "write"}
  BY DEF Checks, Outside
<1> QED
  BY <1>2, <1>3, <1>4, <1>5, <1>7, <1>8, SMTT(30)

\* A check passes: the checks that are left lie ahead.
LEMMA PassKeeps ==
    ASSUME NEW rec, RequestInv(rec), rec.todo # <<>>, Head(rec.todo) \in Checks,
           NEW granted \in SUBSET Checks
    PROVE  RequestInv([rec EXCEPT !.todo = Tail(rec.todo), !.granted = granted])
<1> DEFINE new == [rec EXCEPT !.todo = Tail(rec.todo), !.granted = granted]
<1>1. Checking(rec) /\ rec \in RequestRecord
  BY PhaseOfStage, ZenonT(40) DEF RequestInv
<1>2. rec.todo \in Seq(Stages) /\ rec.writes \in BOOLEAN
  BY <1>1, SMTT(30) DEF RequestRecord
<1>3. Tail(rec.todo) \in Seq(Stages) /\ Ahead(Tail(rec.todo), AfterProcess(rec.writes))
  <2>1. "process" \notin Checks
    BY ZenonT(40) DEF Checks, Outside
  <2> QED
    BY <1>1, <1>2, <2>1, AfterIsStages, AheadMoves, ZenonT(40) DEF Checking
<1>4. /\ new \in RequestRecord
      /\ new.todo = Tail(rec.todo) /\ new.writes = rec.writes
      /\ new.failed = rec.failed /\ new.panicked = rec.panicked /\ new.result = rec.result
      /\ new.pushed = rec.pushed /\ new.audits = rec.audits
      /\ new.resp = rec.resp /\ new.sent = rec.sent
  BY <1>1, <1>3, ZenonT(40) DEF RequestRecord
<1> HIDE DEF new
<1>5. Checking(new)
  BY <1>1, <1>3, <1>4, ZenonT(40) DEF Checking, Unanswered, Undisturbed
<1>6. RequestInv(new)
  BY <1>1, <1>4, <1>5, ZenonT(40) DEF RequestInv
<1> QED
  BY <1>6, SMTT(30) DEF new

\* A check or the processor fails, and what is left is the answer.
LEMMA FailKeeps ==
    ASSUME NEW rec, Checking(rec), NEW new \in RequestRecord, NEW stage \in Stages,
           ~ new.panicked, new.failed = stage,
           new.audits = IF stage \in Unaudited THEN rec.audits ELSE Append(rec.audits, "error"),
           new.pushed = rec.pushed, new.sent = rec.sent,
           \/ /\ new.resp = rec.resp
              /\ new.todo \in {<<"refuse", "write">>, <<"errorResponse", "write">>}
           \/ new.resp = "nil" /\ new.todo = <<"write">>
    PROVE  RequestInv(new)
<1>1. rec.audits = <<>> /\ rec.pushed = <<>> /\ rec.sent = "no" /\ rec.resp = "none"
  BY ZenonT(40) DEF Checking, Unanswered
<1>2. stage # "none"
  BY DEF Stages, Checks, Inside, Outside
<1>3. AuditsMatch(new)
  <2>1. Append(<<>>, "error") = <<"error">>
    BY SMTT(30)
  <2>2. new.failed # "none"
    BY <1>2, SMTT(30)
  <2>3. new.audits = IF new.failed \in Unaudited THEN <<>> ELSE <<"error">>
    BY <1>1, <2>1, SMTT(30)
  <2> QED
    BY <2>2, <2>3, ZenonT(40) DEF AuditsMatch
<1>4. CASE new.resp = rec.resp /\ new.todo \in {<<"refuse", "write">>, <<"errorResponse", "write">>}
  <2>1. Failed(new)
    BY <1>1, <1>2, <1>3, <1>4, SMTT(30) DEF Failed, Unanswered
  <2> QED
    BY <2>1, ZenonT(40) DEF RequestInv
<1>5. CASE new.resp = "nil" /\ new.todo = <<"write">>
  <2>1. Answering(new)
    BY <1>1, <1>3, <1>5, SMTT(30) DEF Answering, Truthful
  <2> QED
    BY <2>1, ZenonT(40) DEF RequestInv
<1> QED
  BY <1>4, <1>5, ZenonT(40)

\* The processor succeeds: what follows it is left to do.
LEMMA ProcessKeeps ==
    ASSUME NEW rec, RequestInv(rec), rec.todo # <<>>, Head(rec.todo) = "process",
           NEW ev \in BOOLEAN, NEW out \in {"none", "object", "silent", "writer"}
    PROVE  RequestInv([rec EXCEPT !.todo = Tail(rec.todo), !.result = "ok",
                                  !.events = ev, !.output = out])
<1> DEFINE new == [rec EXCEPT !.todo = Tail(rec.todo), !.result = "ok",
                              !.events = ev, !.output = out]
<1>1. Checking(rec) /\ rec \in RequestRecord
  BY PhaseOfStage, ZenonT(40) DEF RequestInv
<1>2. rec.todo \in Seq(Stages) /\ rec.writes \in BOOLEAN
  BY <1>1, SMTT(30) DEF RequestRecord
<1>3. Tail(rec.todo) \in Seq(Stages) /\ Tail(rec.todo) = AfterProcess(rec.writes)
  <2>1. "process" \notin Checks
    BY DEF Checks, Outside
  <2> QED
    BY <1>1, <1>2, <2>1, AfterIsStages, AheadMoves, ZenonT(40) DEF Checking
<1>4. /\ new \in RequestRecord
      /\ new.todo = Tail(rec.todo) /\ new.writes = rec.writes
      /\ new.failed = rec.failed /\ new.panicked = rec.panicked /\ new.result = "ok"
      /\ new.pushed = rec.pushed /\ new.audits = rec.audits
      /\ new.resp = rec.resp /\ new.sent = rec.sent
  BY <1>1, <1>3, ZenonT(40) DEF RequestRecord
<1> HIDE DEF new
<1>5. Succeeding(new)
  BY <1>1, <1>3, <1>4, ZenonT(40) DEF Checking, Succeeding, Unanswered, Undisturbed
<1>6. RequestInv(new)
  BY <1>1, <1>4, <1>5, ZenonT(40) DEF RequestInv
<1> QED
  BY <1>6, SMTT(30) DEF new

\* pushEvents: the events come first.
LEMMA PushEventsKeeps ==
    ASSUME NEW rec, RequestInv(rec), rec.todo # <<>>, Head(rec.todo) = "pushEvents"
    PROVE  RequestInv([rec EXCEPT !.todo = Tail(rec.todo),
                                  !.pushed = IF rec.events THEN Append(rec.pushed, "events")
                                                           ELSE rec.pushed])
<1> DEFINE pushed == IF rec.events THEN Append(rec.pushed, "events") ELSE rec.pushed
           new == [rec EXCEPT !.todo = Tail(rec.todo), !.pushed = pushed]
<1>1. Succeeding(rec) /\ rec \in RequestRecord
  BY PhaseOfStage, ZenonT(40) DEF RequestInv
<1>2. rec.todo \in Seq(Stages) /\ rec.writes \in BOOLEAN /\ rec.events \in BOOLEAN
  BY <1>1, SMTT(30) DEF RequestRecord
<1>3. rec.todo = AfterProcess(rec.writes) /\ rec.pushed = <<>> /\ rec.audits = <<>>
  BY <1>1, SMTT(30) DEF Succeeding
<1>4. pushed = IF rec.events THEN <<"events">> ELSE <<>>
  BY <1>3, SMTT(30)
<1>5. pushed \in Seq({"events", "object"})
  <2>1. <<"events">> \in Seq({"events", "object"}) /\ <<>> \in Seq({"events", "object"})
    BY SMTT(30)
  <2> HIDE DEF pushed
  <2> QED
    BY <1>2, <1>4, <2>1, SMTT(30)
<1>6. /\ rec.writes => Tail(rec.todo) = <<"pushOutput", "audit", "respond", "write">>
      /\ ~ rec.writes => Tail(rec.todo) = <<"audit", "respond", "write">>
  BY <1>2, <1>3, SMTT(30) DEF AfterProcess
<1> HIDE DEF pushed
<1>7. Tail(rec.todo) \in Seq(Stages)
  BY <1>2, HeadTailProperties, SMTT(30)
<1>8. /\ new \in RequestRecord
      /\ new.todo = Tail(rec.todo) /\ new.writes = rec.writes
      /\ new.failed = rec.failed /\ new.panicked = rec.panicked /\ new.result = rec.result
      /\ new.events = rec.events /\ new.output = rec.output
      /\ new.pushed = pushed /\ new.audits = rec.audits
      /\ new.resp = rec.resp /\ new.sent = rec.sent
  BY <1>1, <1>5, <1>7, ZenonT(40) DEF RequestRecord
<1> HIDE DEF new
<1>9. ~ new.writes => Due(new) = pushed
  <2>1. <<"events">> \o <<>> = <<"events">> /\ <<>> \o <<>> = <<>>
    BY ConcatEmptySeq, SMTT(30)
  <2> QED
    BY <1>4, <1>8, <2>1, SMTT(30) DEF Due
<1>10. Unanswered(new) /\ Undisturbed(new) /\ new.result = "ok"
  BY <1>1, <1>8, ZenonT(40) DEF Succeeding, Unanswered, Undisturbed
<1>11. Succeeding(new)
  <2>1. CASE rec.writes
    BY <1>3, <1>4, <1>6, <1>8, <1>10, <2>1, ZenonT(40) DEF Succeeding
  <2>2. CASE ~ rec.writes
    BY <1>3, <1>6, <1>8, <1>9, <1>10, <2>2, ZenonT(40) DEF Succeeding
  <2> QED
    BY <1>2, <2>1, <2>2, ZenonT(40)
<1>12. RequestInv(new)
  BY <1>1, <1>8, <1>11, ZenonT(40) DEF RequestInv
<1> QED
  BY <1>12, SMTT(30) DEF new, pushed

\* The event about the output comes after them.
LEMMA PushOutputKeeps ==
    ASSUME NEW rec, RequestInv(rec), rec.todo # <<>>, Head(rec.todo) = "pushOutput"
    PROVE  RequestInv([rec EXCEPT !.todo = Tail(rec.todo),
                                  !.pushed = IF rec.output = "object"
                                             THEN Append(rec.pushed, "object")
                                             ELSE rec.pushed])
<1> DEFINE pushed == IF rec.output = "object" THEN Append(rec.pushed, "object") ELSE rec.pushed
           new == [rec EXCEPT !.todo = Tail(rec.todo), !.pushed = pushed]
<1>1. Succeeding(rec) /\ rec \in RequestRecord
  BY PhaseOfStage, ZenonT(40) DEF RequestInv
<1>2. rec.todo \in Seq(Stages) /\ rec.writes \in BOOLEAN /\ rec.events \in BOOLEAN
      /\ rec.pushed \in Seq({"events", "object"})
  BY <1>1, SMTT(30) DEF RequestRecord
<1>3. /\ rec.todo = <<"pushOutput", "audit", "respond", "write">> /\ rec.writes
      /\ rec.pushed = (IF rec.events THEN <<"events">> ELSE <<>>) /\ rec.audits = <<>>
  BY <1>1, <1>2, SMTT(30) DEF Succeeding, AfterProcess
<1>4. pushed \in Seq({"events", "object"})
  BY <1>2, AppendProperties, ZenonT(40)
<1>5. Tail(rec.todo) = <<"audit", "respond", "write">>
  BY <1>3, SMTT(30)
<1>6. pushed = Due(rec)
  <2>1. Due(rec) = (IF rec.events THEN <<"events">> ELSE <<>>)
                     \o (IF rec.output = "object" THEN <<"object">> ELSE <<>>)
    BY <1>3, ZenonT(40) DEF Due
  <2>2. /\ <<"events">> \o <<"object">> = <<"events", "object">>
        /\ Append(<<"events">>, "object") = <<"events", "object">>
    BY Tuple2, ZenonT(40)
  <2>3. /\ <<"events">> \o <<>> = <<"events">> /\ <<>> \o <<>> = <<>>
        /\ <<>> \o <<"object">> = <<"object">> /\ Append(<<>>, "object") = <<"object">>
    BY ConcatEmptySeq, SMTT(30)
  <2> QED
    BY <1>2, <1>3, <2>1, <2>2, <2>3, ZenonT(40)
<1> HIDE DEF pushed
<1>7. Tail(rec.todo) \in Seq(Stages)
  BY <1>2, HeadTailProperties, SMTT(30)
<1>8. /\ new \in RequestRecord
      /\ new.todo = Tail(rec.todo) /\ new.writes = rec.writes
      /\ new.failed = rec.failed /\ new.panicked = rec.panicked /\ new.result = rec.result
      /\ new.events = rec.events /\ new.output = rec.output
      /\ new.pushed = pushed /\ new.audits = rec.audits
      /\ new.resp = rec.resp /\ new.sent = rec.sent
  BY <1>1, <1>4, <1>7, ZenonT(40) DEF RequestRecord
<1> HIDE DEF new
<1>9. new.pushed = Due(new)
  BY <1>6, <1>8, ZenonT(40) DEF Due
<1>10. Succeeding(new)
  BY <1>1, <1>3, <1>5, <1>8, <1>9, ZenonT(40) DEF Succeeding, Unanswered, Undisturbed
<1>11. RequestInv(new)
  BY <1>1, <1>8, <1>10, ZenonT(40) DEF RequestInv
<1> QED
  BY <1>11, SMTT(30) DEF new, pushed

\* The audit of a success.
LEMMA AuditKeeps ==
    ASSUME NEW rec, RequestInv(rec), rec.todo # <<>>, Head(rec.todo) = "audit"
    PROVE  RequestInv([rec EXCEPT !.todo = Tail(rec.todo), !.audits = Append(rec.audits, "ok")])
<1> DEFINE audits == Append(rec.audits, "ok")
           new == [rec EXCEPT !.todo = Tail(rec.todo), !.audits = audits]
<1>1. Succeeding(rec) /\ rec \in RequestRecord
  BY PhaseOfStage, SMTT(30) DEF RequestInv
<1>2. rec.todo \in Seq(Stages) /\ rec.writes \in BOOLEAN
  BY <1>1, SMTT(30) DEF RequestRecord
<1>3. rec.todo = <<"audit", "respond", "write">> /\ rec.pushed = Due(rec) /\ rec.audits = <<>>
  BY <1>1, <1>2, SMTT(30) DEF Succeeding, AfterProcess
<1>4. audits = <<"ok">> /\ audits \in Seq({"ok", "error"})
  BY <1>3, SMTT(30)
<1>5. Tail(rec.todo) = <<"respond", "write">>
  BY <1>3, SMTT(30)
<1> HIDE DEF audits
<1>6. Tail(rec.todo) \in Seq(Stages)
  BY <1>2, HeadTailProperties, SMTT(30)
<1>7. /\ new \in RequestRecord
      /\ new.todo = Tail(rec.todo) /\ new.writes = rec.writes
      /\ new.failed = rec.failed /\ new.panicked = rec.panicked /\ new.result = rec.result
      /\ new.events = rec.events /\ new.output = rec.output
      /\ new.pushed = rec.pushed /\ new.audits = audits
      /\ new.resp = rec.resp /\ new.sent = rec.sent
  BY <1>1, <1>4, <1>6, ZenonT(40) DEF RequestRecord
<1> HIDE DEF new
<1>8. new.pushed = Due(new)
  BY <1>3, <1>7, ZenonT(40) DEF Due
<1>9. Succeeding(new)
  BY <1>1, <1>4, <1>5, <1>7, <1>8, ZenonT(40) DEF Succeeding, Unanswered, Undisturbed
<1>10. RequestInv(new)
  BY <1>1, <1>7, <1>9, ZenonT(40) DEF RequestInv
<1> QED
  BY <1>10, SMTT(30) DEF new, audits

\* The response of a success.
LEMMA RespondKeeps ==
    ASSUME NEW rec, RequestInv(rec), rec.todo # <<>>, Head(rec.todo) = "respond"
    PROVE  RequestInv([rec EXCEPT !.todo = Tail(rec.todo), !.resp = "data"])
<1> DEFINE new == [rec EXCEPT !.todo = Tail(rec.todo), !.resp = "data"]
<1>1. Succeeding(rec) /\ rec \in RequestRecord
  BY PhaseOfStage, SMTT(30) DEF RequestInv
<1>2. rec.todo \in Seq(Stages) /\ rec.writes \in BOOLEAN
  BY <1>1, SMTT(30) DEF RequestRecord
<1>3. rec.todo = <<"respond", "write">> /\ rec.pushed = Due(rec) /\ rec.audits = <<"ok">>
  BY <1>1, <1>2, SMTT(30) DEF Succeeding, AfterProcess
<1>4. Tail(rec.todo) = <<"write">>
  BY <1>3, SMTT(30)
<1>5. Tail(rec.todo) \in Seq(Stages)
  BY <1>2, HeadTailProperties, SMTT(30)
<1>6. /\ new \in RequestRecord
      /\ new.todo = Tail(rec.todo) /\ new.writes = rec.writes
      /\ new.failed = rec.failed /\ new.panicked = rec.panicked /\ new.result = rec.result
      /\ new.events = rec.events /\ new.output = rec.output
      /\ new.pushed = rec.pushed /\ new.audits = rec.audits
      /\ new.resp = "data" /\ new.sent = rec.sent
  BY <1>1, <1>5, ZenonT(40) DEF RequestRecord
<1> HIDE DEF new
<1>7. new.pushed = Due(new)
  BY <1>3, <1>6, ZenonT(40) DEF Due
<1>8. AuditsMatch(new)
  <2>1. "none" \notin Unaudited
    BY ZenonT(40) DEF Unaudited, Outside
  <2> QED
    BY <1>1, <1>3, <1>6, <2>1, ZenonT(40) DEF AuditsMatch, Succeeding, Undisturbed
<1>9. Answering(new)
  BY <1>1, <1>3, <1>4, <1>6, <1>7, <1>8, ZenonT(40) DEF Answering, Truthful, Succeeding
<1>10. RequestInv(new)
  BY <1>1, <1>6, <1>9, ZenonT(40) DEF RequestInv
<1> QED
  BY <1>10, SMTT(30) DEF new

\* The response of a failure.
LEMMA ErrorResponseKeeps ==
    ASSUME NEW rec, RequestInv(rec), rec.todo # <<>>,
           Head(rec.todo) \in {"refuse", "errorResponse", "recovered"}
    PROVE  RequestInv([rec EXCEPT !.todo = Tail(rec.todo), !.resp = "error"])
<1> DEFINE new == [rec EXCEPT !.todo = Tail(rec.todo), !.resp = "error"]
<1>1. Failed(rec) /\ rec \in RequestRecord
  BY PhaseOfStage, ZenonT(40) DEF RequestInv
<1>2. rec.todo \in Seq(Stages)
  BY <1>1, SMTT(30) DEF RequestRecord
<1>3. Tail(rec.todo) = <<"write">> /\ (~ rec.panicked => rec.pushed = <<>>)
  <2>1. /\ rec.todo \in {<<"refuse", "write">>, <<"errorResponse", "write">>,
                        <<"recovered", "write">>}
        /\ ~ rec.panicked => rec.pushed = <<>>
    BY <1>1, ZenonT(40) DEF Failed
  <2>2. /\ Tail(<<"refuse", "write">>) = <<"write">>
        /\ Tail(<<"errorResponse", "write">>) = <<"write">>
        /\ Tail(<<"recovered", "write">>) = <<"write">>
    BY SMTT(30)
  <2> QED
    BY <2>1, <2>2, ZenonT(40)
<1>4. Tail(rec.todo) \in Seq(Stages)
  BY <1>2, HeadTailProperties, SMTT(30)
<1>5. /\ new \in RequestRecord
      /\ new.todo = Tail(rec.todo)
      /\ new.failed = rec.failed /\ new.panicked = rec.panicked
      /\ new.pushed = rec.pushed /\ new.audits = rec.audits /\ new.resp = "error"
  BY <1>1, <1>4, ZenonT(40) DEF RequestRecord
<1> HIDE DEF new
<1>6. Answering(new)
  BY <1>1, <1>3, <1>5, ZenonT(40) DEF Answering, Truthful, AuditsMatch, Failed
<1>7. RequestInv(new)
  BY <1>1, <1>5, <1>6, ZenonT(40) DEF RequestInv
<1> QED
  BY <1>7, SMTT(30) DEF new

\* The answer is given.
LEMMA WriteKeeps ==
    ASSUME NEW rec, RequestInv(rec), rec.todo # <<>>, Head(rec.todo) = "write",
           NEW sent \in {"custom", "resp"}
    PROVE  RequestInv([rec EXCEPT !.todo = Tail(rec.todo), !.sent = sent])
<1> DEFINE new == [rec EXCEPT !.todo = Tail(rec.todo), !.sent = sent]
<1>1. Answering(rec) /\ rec \in RequestRecord
  BY PhaseOfStage, ZenonT(40) DEF RequestInv
<1>2. Tail(rec.todo) = <<>> /\ <<>> \in Seq(Stages)
  BY <1>1, SMTT(30) DEF Answering
<1>3. /\ new \in RequestRecord
      /\ new.todo = <<>> /\ new.writes = rec.writes
      /\ new.failed = rec.failed /\ new.panicked = rec.panicked /\ new.result = rec.result
      /\ new.events = rec.events /\ new.output = rec.output
      /\ new.pushed = rec.pushed /\ new.audits = rec.audits /\ new.resp = rec.resp
  BY <1>1, <1>2, ZenonT(40) DEF RequestRecord
<1> HIDE DEF new
<1>4. Due(new) = Due(rec)
  BY <1>3, ZenonT(40) DEF Due
<1>5. Truthful(new)
  BY <1>1, <1>3, <1>4, ZenonT(40) DEF Answering, Truthful, AuditsMatch
<1>6. RequestInv(new)
  BY <1>1, <1>3, <1>5, ZenonT(40) DEF RequestInv, Answered
<1> QED
  BY <1>6, SMTT(30) DEF new

\* Audits of a request that panics: those it had fit it.
LEMMA PanicAudits ==
    ASSUME NEW rec, RequestInv(rec), rec.todo # <<>>
    PROVE  /\ AuditsMatch([rec EXCEPT !.panicked = TRUE])
           /\ rec.resp = "data" =>
                rec.result = "ok" /\ rec.pushed = Due(rec) /\ rec.audits = <<"ok">>
<1> DEFINE new == [rec EXCEPT !.panicked = TRUE]
<1>1. rec \in RequestRecord
  BY ZenonT(40) DEF RequestInv
<1>2. new.panicked = TRUE /\ new.failed = rec.failed /\ new.audits = rec.audits
  BY <1>1, SMTT(30) DEF RequestRecord
<1> HIDE DEF new
<1>3. "none" \notin Unaudited
  BY DEF Unaudited, Outside
<1>4. CASE Checking(rec)
  <2>1. rec.failed = "none" /\ rec.audits = <<>> /\ rec.resp = "none"
    BY <1>4, ZenonT(40) DEF Checking, Unanswered, Undisturbed
  <2> QED
    BY <1>2, <1>3, <2>1, SMTT(30) DEF AuditsMatch, new
<1>5. CASE Succeeding(rec)
  <2>1. rec.failed = "none" /\ (rec.audits = <<>> \/ rec.audits = <<"ok">>) /\ rec.resp = "none"
    BY <1>5, ZenonT(40) DEF Succeeding, Unanswered, Undisturbed
  <2> QED
    BY <1>2, <1>3, <2>1, SMTT(30) DEF AuditsMatch, new
<1>6. CASE Failed(rec)
  <2>1. AuditsMatch(rec) /\ rec.resp = "none"
    BY <1>6, ZenonT(40) DEF Failed, Unanswered
  <2> QED
    BY <1>2, <2>1, SMTT(30) DEF AuditsMatch, new
<1>7. CASE Answering(rec)
  <2>1. Truthful(rec)
    BY <1>7, SMTT(30) DEF Answering
  <2> QED
    BY <1>2, <2>1, SMTT(30) DEF AuditsMatch, Truthful, new
<1> QED
  BY <1>4, <1>5, <1>6, <1>7, ZenonT(40) DEF RequestInv, Answered

\* A panic that nothing recovers: net/http drops the connection.
LEMMA DropKeeps ==
    ASSUME NEW rec, RequestInv(rec), rec.todo # <<>>
    PROVE  RequestInv([rec EXCEPT !.todo = <<>>, !.panicked = TRUE, !.sent = "dropped"])
<1> DEFINE new == [rec EXCEPT !.todo = <<>>, !.panicked = TRUE, !.sent = "dropped"]
           mid == [rec EXCEPT !.panicked = TRUE]
<1>1. rec \in RequestRecord
  BY SMTT(30) DEF RequestInv
<1>2. <<>> \in Seq(Stages)
  OBVIOUS
<1>3. /\ new \in RequestRecord
      /\ new.todo = <<>> /\ new.writes = rec.writes
      /\ new.failed = rec.failed /\ new.panicked = TRUE /\ new.result = rec.result
      /\ new.events = rec.events /\ new.output = rec.output
      /\ new.pushed = rec.pushed /\ new.audits = rec.audits /\ new.resp = rec.resp
  BY <1>1, <1>2, ZenonT(40) DEF RequestRecord
<1>4. mid.failed = rec.failed /\ mid.audits = rec.audits /\ mid.panicked = TRUE
  BY <1>1 DEF RequestRecord
<1>5. AuditsMatch(mid)
  BY PanicAudits, SMTT(30)
<1> HIDE DEF new, mid
<1>6. AuditsMatch(new)
  BY <1>3, <1>4, <1>5, ZenonT(40) DEF AuditsMatch
<1>7. Due(new) = Due(rec)
  BY <1>3, SMTT(30) DEF Due
<1>8. Truthful(new)
  BY <1>3, <1>6, <1>7, PanicAudits, ZenonT(40) DEF Truthful
<1>9. RequestInv(new)
  BY <1>1, <1>3, <1>8, ZenonT(40) DEF RequestInv, Answered
<1> QED
  BY <1>9, SMTT(30) DEF new

\* A panic inside the dispatcher is recovered: nothing was answered before.
LEMMA RecoverKeeps ==
    ASSUME NEW rec, RequestInv(rec), rec.todo # <<>>, Head(rec.todo) \in Inside
    PROVE  RequestInv([rec EXCEPT !.todo = <<"recovered", "write">>, !.panicked = TRUE])
<1> DEFINE new == [rec EXCEPT !.todo = <<"recovered", "write">>, !.panicked = TRUE]
           mid == [rec EXCEPT !.panicked = TRUE]
<1>1. rec \in RequestRecord
  BY DEF RequestInv
<1>2. <<"recovered", "write">> \in Seq(Stages)
  <2>1. "recovered" \in Stages /\ "write" \in Stages
    BY DEF Stages
  <2> QED
    BY <2>1, SMTT(30)
<1>3. /\ new \in RequestRecord
      /\ new.todo = <<"recovered", "write">>
      /\ new.failed = rec.failed /\ new.panicked = TRUE
      /\ new.audits = rec.audits /\ new.resp = rec.resp /\ new.sent = rec.sent
  BY <1>1, <1>2, ZenonT(40) DEF RequestRecord
<1>4. mid.failed = rec.failed /\ mid.audits = rec.audits /\ mid.panicked = TRUE
  BY <1>1, SMTT(30) DEF RequestRecord
<1>5. AuditsMatch(mid)
  BY PanicAudits, SMTT(30)
<1> HIDE DEF new, mid
<1>6. AuditsMatch(new)
  BY <1>3, <1>4, <1>5, ZenonT(40) DEF AuditsMatch
<1>7. Unanswered(rec)
  <2>1. Head(rec.todo) # "write"
    BY SMTT(30) DEF Inside, Checks
  <2>2. Checking(rec) \/ Succeeding(rec) \/ Failed(rec)
    BY <2>1, PhaseOfStage, ZenonT(40) DEF RequestInv, Answered
  <2> QED
    BY <2>2, ZenonT(40) DEF Checking, Succeeding, Failed
<1>8. Failed(new)
  BY <1>3, <1>6, <1>7, ZenonT(40) DEF Failed, Unanswered
<1>9. RequestInv(new)
  BY <1>1, <1>3, <1>8, ZenonT(40) DEF RequestInv
<1> QED
  BY <1>9, SMTT(30) DEF new

\* A request that has just arrived, or none.
LEMMA NewContextInv ==
    ASSUME NEW op \in Op, NEW excluded \in BOOLEAN
    PROVE  RequestInv(NewContext(op, excluded))
<1> DEFINE new == NewContext(op, excluded)
           todo == makeHandler(installRoutes(op))
           writes == op \in Writes
<1>1. todo \in Seq(Stages) /\ Ahead(todo, AfterProcess(writes))
  BY OperationsAhead, SMTT(30)
<1>2. writes \in BOOLEAN
  OBVIOUS
<1>3. <<>> \in Seq({"events", "object"}) /\ <<>> \in Seq({"ok", "error"})
  BY SMTT(30)
<1> HIDE DEF todo, writes
<1>4. new = [writes |-> writes, excluded |-> excluded, todo |-> todo, granted |-> {},
             failed |-> "none", panicked |-> FALSE, result |-> "none", events |-> FALSE,
             output |-> "none", pushed |-> <<>>, audits |-> <<>>, resp |-> "none",
             sent |-> "no"]
  BY ZenonT(40) DEF NewContext, todo, writes
<1> HIDE DEF new
<1>5. new \in RequestRecord
  BY <1>1, <1>2, <1>3, <1>4, ZenonT(40) DEF RequestRecord
<1>6. Checking(new)
  BY <1>1, <1>4, ZenonT(40) DEF Checking, Unanswered, Undisturbed
<1> QED
  BY <1>5, <1>6, ZenonT(40) DEF RequestInv, new

\* A connection without a request.
LEMMA NoRequestInv == RequestInv(NoRequest)
<1>1. RequestInv(NewContext("info", FALSE))
  BY NewContextInv, ZenonT(40) DEF Op
<1> DEFINE rec == NewContext("info", FALSE)
           new == [rec EXCEPT !.todo = <<>>]
<1>2. rec \in RequestRecord /\ rec.sent = "no"
  BY <1>1, ZenonT(40) DEF RequestInv, NewContext
<1>3. <<>> \in Seq(Stages)
  OBVIOUS
<1> HIDE DEF rec
<1>4. new \in RequestRecord /\ new.todo = <<>> /\ new.sent = "no"
  BY <1>2, <1>3, ZenonT(40) DEF RequestRecord
<1>5. NoRequest = new
  BY SMTT(30) DEF NoRequest, rec
<1> HIDE DEF new
<1>6. RequestInv(new)
  BY <1>2, <1>4, ZenonT(40) DEF RequestInv, Answered
<1> QED
  BY <1>5, <1>6, SMTT(30)

\* The records of the requests but the one that is set are as they were.
LEMMA SetGives ==
    ASSUME LifeTypeOK, RequestsInv, NEW c \in Conn, NEW rec, RequestInv(rec),
           rq' = [rq EXCEPT ![c] = rec]
    PROVE  RequestsInv'
<1>1. \A d \in Conn : rq'[d] = IF d = c THEN rec ELSE rq[d]
  BY SMTT(30) DEF LifeTypeOK
<1>2. \A d \in Conn : RequestInv(rq'[d])
  BY <1>1, SMTT(30) DEF RequestsInv
<1> QED
  BY <1>2, SMTT(30) DEF RequestsInv

\* The record of a request after a step of it.
LEMMA StepGives ==
    ASSUME LifeTypeOK, NEW c \in Conn, NEW rec, Set(c, rec)
    PROVE  rq'[c] = rec
BY ZenonT(40) DEF LifeTypeOK, Set

\* What Failing makes of a record.
LEMMA FailingGives ==
    ASSUME NEW c \in Conn, RequestInv(rq[c]), At(c, Checks \cup {"process"})
    PROVE  /\ Checking(rq[c]) /\ Stage(c) \in Stages
           /\ Failing(c) \in RequestRecord
           /\ ~ Failing(c).panicked /\ Failing(c).failed = Stage(c)
           /\ Failing(c).audits = IF Stage(c) \in Unaudited THEN rq[c].audits
                                                            ELSE Append(rq[c].audits, "error")
           /\ Failing(c).pushed = rq[c].pushed /\ Failing(c).sent = rq[c].sent
           /\ Failing(c).resp = rq[c].resp
<1> DEFINE rec == rq[c]
           failed == [rec EXCEPT !.failed = Stage(c)]
<1>1. Checking(rec) /\ rec \in RequestRecord /\ ~ rec.panicked
  BY PhaseOfStage, ZenonT(40) DEF RequestInv, At, Busy, Stage, Checking, Undisturbed
<1>2. Stage(c) \in Stages
  BY SMTT(30) DEF At, Stages, Inside
<1>3. rec.audits \in Seq({"ok", "error"})
  BY <1>1, SMTT(30) DEF RequestRecord
<1>4. Append(rec.audits, "error") \in Seq({"ok", "error"})
  BY <1>3, AppendProperties, SMTT(30)
<1> HIDE DEF rec
<1>5. /\ failed \in RequestRecord
      /\ failed.panicked = rec.panicked
      /\ failed.failed = Stage(c) /\ failed.audits = rec.audits
      /\ failed.pushed = rec.pushed /\ failed.sent = rec.sent /\ failed.resp = rec.resp
  BY <1>1, <1>2, ZenonT(40) DEF RequestRecord
<1> HIDE DEF failed
<1>6. /\ audit(failed, "error") \in RequestRecord
      /\ audit(failed, "error").panicked = failed.panicked
      /\ audit(failed, "error").failed = failed.failed
      /\ audit(failed, "error").audits = Append(failed.audits, "error")
      /\ audit(failed, "error").pushed = failed.pushed
      /\ audit(failed, "error").sent = failed.sent
      /\ audit(failed, "error").resp = failed.resp
  BY <1>4, <1>5, ZenonT(40) DEF RequestRecord, audit
<1>7. Failing(c) = IF Stage(c) \in Unaudited THEN failed ELSE audit(failed, "error")
  BY DEF Failing, failed, rec
<1>8. CASE Stage(c) \in Unaudited
  BY <1>1, <1>2, <1>5, <1>7, <1>8, ZenonT(40) DEF rec
<1>9. CASE Stage(c) \notin Unaudited
  BY <1>1, <1>2, <1>5, <1>6, <1>7, <1>9, ZenonT(40) DEF rec
<1> QED
  BY <1>8, <1>9, ZenonT(40)

\* A failure changes neither what vets a request nor its result.
LEMMA FailingLeaves ==
    ASSUME NEW c \in Conn, rq[c] \in RequestRecord
    PROVE  /\ Failing(c).granted = rq[c].granted /\ Failing(c).excluded = rq[c].excluded
           /\ Failing(c).writes = rq[c].writes /\ Failing(c).result = rq[c].result
<1> DEFINE failed == [rq[c] EXCEPT !.failed = Stage(c)]
           audited == [failed EXCEPT !.audits = Append(@, "error")]
<1>1. /\ failed.granted = rq[c].granted /\ failed.excluded = rq[c].excluded
      /\ failed.writes = rq[c].writes /\ failed.result = rq[c].result
  BY ZenonT(40) DEF RequestRecord
<1>2. /\ audited.granted = rq[c].granted /\ audited.excluded = rq[c].excluded
      /\ audited.writes = rq[c].writes /\ audited.result = rq[c].result
  BY ZenonT(40) DEF RequestRecord
<1>3. Failing(c) = IF Stage(c) \in Unaudited THEN failed ELSE audited
  BY ZenonT(40) DEF Failing, audit
<1> HIDE DEF failed, audited
<1> QED
  BY <1>1, <1>2, <1>3, ZenonT(40)

\* A request that fails is left its answer: that of the stage that failed, or
\* none when the error was that of its context.
LEMMA FailingKeeps ==
    ASSUME NEW c \in Conn, RequestInv(rq[c]), At(c, Checks \cup {"process"}),
           NEW new \in RequestRecord,
           new.panicked = Failing(c).panicked,
           new.failed = Failing(c).failed, new.audits = Failing(c).audits,
           new.pushed = Failing(c).pushed, new.sent = Failing(c).sent,
           \/ /\ new.resp = Failing(c).resp
              /\ new.todo \in {<<"refuse", "write">>, <<"errorResponse", "write">>}
           \/ new.resp = "nil" /\ new.todo = <<"write">>
    PROVE  RequestInv(new)
<1>1. /\ ~ new.panicked /\ new.failed = Stage(c)
      /\ new.audits = IF Stage(c) \in Unaudited THEN rq[c].audits
                                                ELSE Append(rq[c].audits, "error")
      /\ new.pushed = rq[c].pushed /\ new.sent = rq[c].sent
  BY FailingGives, ZenonT(40)
<1>2. \/ /\ new.resp = rq[c].resp
         /\ new.todo \in {<<"refuse", "write">>, <<"errorResponse", "write">>}
      \/ new.resp = "nil" /\ new.todo = <<"write">>
  BY FailingGives, ZenonT(40)
<1>3. Checking(rq[c]) /\ Stage(c) \in Stages
  BY FailingGives, ZenonT(40)
<1> QED
  BY <1>1, <1>2, <1>3, FailKeeps, ZenonT(40)

\* What is left of a request that failed are stages.
LEMMA AnswersAreStages ==
    /\ <<"refuse", "write">> \in Seq(Stages)
    /\ <<"errorResponse", "write">> \in Seq(Stages)
    /\ <<"write">> \in Seq(Stages)
<1>1. "refuse" \in Stages /\ "errorResponse" \in Stages /\ "write" \in Stages
  BY SMTT(30) DEF Stages, Inside
<1> QED
  BY <1>1, SMTT(30)

\* The three ways to fail.
LEMMA FailuresKeep ==
    ASSUME LifeTypeOK, RequestsInv, NEW c \in Conn,
           Fail(c) \/ Cancelled(c) \/ ProcessFails(c)
    PROVE  RequestsInv'
<1> DEFINE old == Failing(c)
<1>1. RequestInv(rq[c])
  BY ZenonT(40) DEF RequestsInv
<1>2. At(c, Checks \cup {"process"})
  BY ZenonT(40) DEF Fail, Cancelled, ProcessFails, At, Foreign, Checks
<1>3. old \in RequestRecord
  BY <1>1, <1>2, FailingGives, ZenonT(40)
<1>4. CASE Fail(c)
  <2> DEFINE todo == IF Stage(c) \in Outside THEN <<"refuse", "write">>
                                             ELSE <<"errorResponse", "write">>
             new == [old EXCEPT !.todo = todo]
  <2>1. rq' = [rq EXCEPT ![c] = new]
    BY <1>4, SMTT(30) DEF Fail, Set
  <2>2. todo \in {<<"refuse", "write">>, <<"errorResponse", "write">>} /\ todo \in Seq(Stages)
    BY AnswersAreStages, SMTT(30)
  <2> HIDE DEF old, todo
  <2>3. /\ new \in RequestRecord /\ new.todo = todo /\ new.resp = old.resp
        /\ new.panicked = old.panicked
        /\ new.failed = old.failed /\ new.audits = old.audits
        /\ new.pushed = old.pushed /\ new.sent = old.sent
    BY <1>3, <2>2, ZenonT(40) DEF RequestRecord
  <2> HIDE DEF new
  <2>4. RequestInv(new)
    BY <1>1, <1>2, <2>2, <2>3, FailingKeeps, ZenonT(40) DEF old
  <2> QED
    BY <2>1, <2>4, SetGives, ZenonT(40)
<1>5. CASE Cancelled(c)
  <2> DEFINE new == [old EXCEPT !.todo = <<"write">>, !.resp = "nil"]
  <2>1. rq' = [rq EXCEPT ![c] = new]
    BY <1>5, ZenonT(40) DEF Cancelled, Set
  <2> HIDE DEF old
  <2>2. /\ new \in RequestRecord /\ new.todo = <<"write">> /\ new.resp = "nil"
        /\ new.panicked = old.panicked
        /\ new.failed = old.failed /\ new.audits = old.audits
        /\ new.pushed = old.pushed /\ new.sent = old.sent
    BY <1>3, AnswersAreStages, ZenonT(40) DEF RequestRecord
  <2> HIDE DEF new
  <2>3. RequestInv(new)
    BY <1>1, <1>2, <2>2, FailingKeeps, ZenonT(40) DEF old
  <2> QED
    BY <2>1, <2>3, SetGives, ZenonT(40)
<1>6. CASE ProcessFails(c)
  <2>1. PICK out \in {"none", "writer"}, own \in BOOLEAN :
          rq' = [rq EXCEPT ![c] = [old EXCEPT
                    !.todo = IF own THEN <<"errorResponse", "write">> ELSE <<"write">>,
                    !.resp = IF own THEN @ ELSE "nil",
                    !.result = "failed", !.output = out]]
    BY <1>6, ZenonT(40) DEF ProcessFails, Set
  <2> DEFINE todo == IF own THEN <<"errorResponse", "write">> ELSE <<"write">>
             resp == IF own THEN old.resp ELSE "nil"
             new == [old EXCEPT !.todo = todo, !.resp = resp, !.result = "failed",
                                !.output = out]
  <2>2. rq' = [rq EXCEPT ![c] = new]
    BY <2>1, SMTT(30)
  <2>3. todo \in Seq(Stages)
    BY AnswersAreStages, SMTT(30)
  <2>4. \/ resp = old.resp /\ todo = <<"errorResponse", "write">>
        \/ resp = "nil" /\ todo = <<"write">>
    OBVIOUS
  <2>5. resp \in {"none", "data", "error", "nil"}
    <3>1. old.resp \in {"none", "data", "error", "nil"}
      BY <1>3, SMTT(30) DEF RequestRecord
    <3> HIDE DEF old
    <3> QED
      BY <3>1, SMTT(30)
  <2> HIDE DEF old, todo, resp
  <2>6. /\ new \in RequestRecord /\ new.todo = todo /\ new.resp = resp
        /\ new.panicked = old.panicked
        /\ new.failed = old.failed /\ new.audits = old.audits
        /\ new.pushed = old.pushed /\ new.sent = old.sent
    BY <1>3, <2>3, <2>5, ZenonT(40) DEF RequestRecord
  <2> HIDE DEF new
  <2>7. RequestInv(new)
    BY <1>1, <1>2, <2>4, <2>6, FailingKeeps, ZenonT(40) DEF old
  <2> QED
    BY <2>2, <2>7, SetGives, ZenonT(40)
<1> QED
  BY <1>4, <1>5, <1>6, SMTT(30)

\* A check that passes was right to, and is noted.
LEMMA PassGives ==
    ASSUME NEW c \in Conn, rq[c] \in RequestRecord, Pass(c)
    PROVE  /\ rq' = [rq EXCEPT ![c] = [rq[c] EXCEPT !.todo = Tail(rq[c].todo),
                                        !.granted = rq[c].granted \cup {Head(rq[c].todo)}]]
           /\ rq[c].todo # <<>> /\ Head(rq[c].todo) \in Checks
           /\ Head(rq[c].todo) = "readOnly" => (ReadOnly => rq[c].excluded)
<1>1. rq[c].todo # <<>> /\ Head(rq[c].todo) \in Checks
  BY DEF Pass, At, Busy, Stage
<1>2. PICK o \in Outcomes(c) :
        /\ o.pass
        /\ Set(c, [Next1(c) EXCEPT !.granted = IF o.due THEN @ \cup {Stage(c)} ELSE @])
  BY ZenonT(40) DEF Pass
<1>3. o.due /\ (Stage(c) = "readOnly" => makeReadOnlyError(rq[c].excluded))
  BY <1>2, PassIsDue, ZenonT(40)
<1>4. Next1(c).granted = rq[c].granted
  BY ZenonT(40) DEF Next1, RequestRecord
<1>5. rq' = [rq EXCEPT ![c] = [Next1(c) EXCEPT !.granted = rq[c].granted \cup {Stage(c)}]]
  BY <1>2, <1>3, <1>4, ZenonT(40) DEF Set
<1>6. [Next1(c) EXCEPT !.granted = rq[c].granted \cup {Stage(c)}]
        = [rq[c] EXCEPT !.todo = Tail(rq[c].todo),
                        !.granted = rq[c].granted \cup {Head(rq[c].todo)}]
  BY ZenonT(40) DEF Next1, Stage
<1> QED
  BY <1>1, <1>3, <1>5, <1>6, ZenonT(40) DEF Stage, makeReadOnlyError

\* A check passes.
LEMMA ChecksKeep ==
    ASSUME LifeTypeOK, RequestsInv, NEW c \in Conn, Pass(c)
    PROVE  RequestsInv'
<1> DEFINE rec == rq[c]
           granted == rec.granted \cup {Head(rec.todo)}
           new == [rec EXCEPT !.todo = Tail(rec.todo), !.granted = granted]
<1>1. RequestInv(rec) /\ rec \in RequestRecord
  BY ZenonT(40) DEF RequestsInv, RequestInv
<1>2. /\ rq' = [rq EXCEPT ![c] = new]
      /\ rec.todo # <<>> /\ Head(rec.todo) \in Checks
  BY <1>1, PassGives, ZenonT(40)
<1>3. granted \in SUBSET Checks
  BY <1>1, <1>2, ZenonT(40) DEF RequestRecord
<1>4. RequestInv(new)
  <2> HIDE DEF granted
  <2> QED
    BY <1>1, <1>2, <1>3, PassKeeps, ZenonT(40)
<1> HIDE DEF new
<1> QED
  BY <1>2, <1>4, SetGives, ZenonT(40)

\* The processor succeeds.
LEMMA ProcessStep ==
    ASSUME LifeTypeOK, RequestsInv, NEW c \in Conn, Process(c)
    PROVE  RequestsInv'
<1> DEFINE rec == rq[c]
<1>1. RequestInv(rec)
  BY DEF RequestsInv
<1>2. rec.todo # <<>> /\ Head(rec.todo) = "process"
  BY DEF Process, At, Busy, Stage
<1>3. PICK ev \in BOOLEAN, out \in {"none", "object", "silent", "writer"} :
        Set(c, [Next1(c) EXCEPT !.result = "ok", !.events = ev, !.output = out])
  BY Zenon DEF Process
<1> DEFINE new == [rec EXCEPT !.todo = Tail(rec.todo), !.result = "ok", !.events = ev,
                              !.output = out]
<1>4. rq' = [rq EXCEPT ![c] = new]
  BY <1>3, ZenonT(40) DEF Set, Next1
<1>5. RequestInv(new)
  BY <1>1, <1>2, ProcessKeeps, ZenonT(40)
<1> HIDE DEF new
<1> QED
  BY <1>4, <1>5, SetGives, ZenonT(40)

\* Its events are pushed.
LEMMA PushEventsStep ==
    ASSUME LifeTypeOK, RequestsInv, NEW c \in Conn, PushEvents(c)
    PROVE  RequestsInv'
<1> DEFINE rec == rq[c]
<1>1. RequestInv(rec)
  BY DEF RequestsInv
<1>2. rec.todo # <<>> /\ Head(rec.todo) = "pushEvents"
  BY SMTT(30) DEF PushEvents, At, Busy, Stage
<1>3. Next1(c).pushed = rec.pushed
  BY <1>1, SMTT(30) DEF Next1, RequestInv, RequestRecord
<1> DEFINE new == [rec EXCEPT !.todo = Tail(rec.todo),
                              !.pushed = IF rec.events THEN Append(rec.pushed, "events")
                                                       ELSE rec.pushed]
<1>4. rq' = [rq EXCEPT ![c] = new]
  BY <1>3, Zenon DEF PushEvents, Set, Next1
<1>5. RequestInv(new)
  BY <1>1, <1>2, PushEventsKeeps, ZenonT(40)
<1> HIDE DEF new
<1> QED
  BY <1>4, <1>5, SetGives, ZenonT(40)

\* So is the event about its output.
LEMMA PushOutputStep ==
    ASSUME LifeTypeOK, RequestsInv, NEW c \in Conn, PushOutput(c)
    PROVE  RequestsInv'
<1> DEFINE rec == rq[c]
<1>1. RequestInv(rec)
  BY DEF RequestsInv
<1>2. rec.todo # <<>> /\ Head(rec.todo) = "pushOutput"
  BY SMTT(30) DEF PushOutput, At, Busy, Stage
<1>3. Next1(c).pushed = rec.pushed
  BY <1>1 DEF Next1, RequestInv, RequestRecord
<1> DEFINE new == [rec EXCEPT !.todo = Tail(rec.todo),
                              !.pushed = IF rec.output = "object"
                                         THEN Append(rec.pushed, "object") ELSE rec.pushed]
<1>4. rq' = [rq EXCEPT ![c] = new]
  BY <1>3, ZenonT(40) DEF PushOutput, Set, Next1
<1>5. RequestInv(new)
  BY <1>1, <1>2, PushOutputKeeps, ZenonT(40)
<1> HIDE DEF new
<1> QED
  BY <1>4, <1>5, SetGives, ZenonT(40)

\* The success is audited.
LEMMA AuditStep ==
    ASSUME LifeTypeOK, RequestsInv, NEW c \in Conn, AuditOK(c)
    PROVE  RequestsInv'
<1> DEFINE rec == rq[c]
<1>1. RequestInv(rec)
  BY DEF RequestsInv
<1>2. rec.todo # <<>> /\ Head(rec.todo) = "audit"
  BY DEF AuditOK, At, Busy, Stage
<1>3. Next1(c).audits = rec.audits
  BY <1>1, SMTT(30) DEF Next1, RequestInv, RequestRecord
<1> DEFINE new == [rec EXCEPT !.todo = Tail(rec.todo), !.audits = Append(rec.audits, "ok")]
<1>4. rq' = [rq EXCEPT ![c] = new]
  BY <1>3, ZenonT(40) DEF AuditOK, Set, Next1, audit
<1>5. RequestInv(new)
  BY <1>1, <1>2, AuditKeeps, ZenonT(40)
<1> HIDE DEF new
<1> QED
  BY <1>4, <1>5, SetGives, ZenonT(40)

\* The response to a success is made.
LEMMA RespondStep ==
    ASSUME LifeTypeOK, RequestsInv, NEW c \in Conn, makeResponse(c)
    PROVE  RequestsInv'
<1> DEFINE rec == rq[c]
<1>1. RequestInv(rec)
  BY DEF RequestsInv
<1>2. rec.todo # <<>> /\ Head(rec.todo) = "respond"
  BY DEF makeResponse, At, Busy, Stage
<1> DEFINE new == [rec EXCEPT !.todo = Tail(rec.todo), !.resp = "data"]
<1>3. rq' = [rq EXCEPT ![c] = new]
  BY ZenonT(40) DEF makeResponse, Set, Next1
<1>4. RequestInv(new)
  BY <1>1, <1>2, RespondKeeps, ZenonT(40)
<1> HIDE DEF new
<1> QED
  BY <1>3, <1>4, SetGives, ZenonT(40)

\* The response to an error is made.
LEMMA ErrorResponseStep ==
    ASSUME LifeTypeOK, RequestsInv, NEW c \in Conn, makeErrorResponse(c)
    PROVE  RequestsInv'
<1> DEFINE rec == rq[c]
<1>1. RequestInv(rec)
  BY DEF RequestsInv
<1>2. rec.todo # <<>> /\ Head(rec.todo) \in {"refuse", "errorResponse", "recovered"}
  BY DEF makeErrorResponse, At, Busy, Stage
<1> DEFINE new == [rec EXCEPT !.todo = Tail(rec.todo), !.resp = "error"]
<1>3. rq' = [rq EXCEPT ![c] = new]
  BY ZenonT(40) DEF makeErrorResponse, Set, Next1
<1>4. RequestInv(new)
  BY <1>1, <1>2, ErrorResponseKeeps, ZenonT(40)
<1> HIDE DEF new
<1> QED
  BY <1>3, <1>4, SetGives, ZenonT(40)

\* The answer is written.
LEMMA WriteStep ==
    ASSUME LifeTypeOK, RequestsInv, NEW c \in Conn, Write(c)
    PROVE  RequestsInv'
<1> DEFINE rec == rq[c]
<1>1. RequestInv(rec)
  BY DEF RequestsInv
<1>2. rec.todo # <<>> /\ Head(rec.todo) = "write"
  BY DEF Write, At, Busy, Stage
<1> DEFINE new == [rec EXCEPT !.todo = Tail(rec.todo),
                              !.sent = IF rec.output = "writer" THEN "custom" ELSE "resp"]
<1>3. rq' = [rq EXCEPT ![c] = new]
  BY ZenonT(40) DEF Write, Set, Next1
<1>4. RequestInv(new)
  BY <1>1, <1>2, WriteKeeps, ZenonT(40)
<1> HIDE DEF new
<1> QED
  BY <1>3, <1>4, SetGives, ZenonT(40)

\* Panics, recovered and not.
LEMMA PanicsKeep ==
    ASSUME LifeTypeOK, RequestsInv, NEW c \in Conn, handleRecoveredPanic(c) \/ PanicOutside(c)
    PROVE  RequestsInv'
<1> DEFINE rec == rq[c]
           dropped == [rec EXCEPT !.todo = <<>>, !.panicked = TRUE, !.sent = "dropped"]
           recovered == [rec EXCEPT !.todo = <<"recovered", "write">>, !.panicked = TRUE]
<1>1. RequestInv(rec) /\ rec.todo # <<>>
  BY ZenonT(40) DEF RequestsInv, handleRecoveredPanic, PanicOutside, At, Busy
<1>2. CASE Drop(c)
  <2>1. rq' = [rq EXCEPT ![c] = dropped]
    BY <1>2, ZenonT(40) DEF Drop, Set
  <2>2. RequestInv(dropped)
    BY <1>1, DropKeeps, ZenonT(40)
  <2> HIDE DEF dropped
  <2> QED
    BY <2>1, <2>2, SetGives, ZenonT(40)
<1>3. CASE handleRecoveredPanic(c) /\ ~ PanicRecoveryDisabled
  <2>1. rq' = [rq EXCEPT ![c] = recovered] /\ Head(rec.todo) \in Inside
    BY <1>3, ZenonT(40) DEF handleRecoveredPanic, Set, At, Stage
  <2>2. RequestInv(recovered)
    BY <1>1, <2>1, RecoverKeeps, ZenonT(40)
  <2> HIDE DEF recovered
  <2> QED
    BY <2>1, <2>2, SetGives, ZenonT(40)
<1>4. handleRecoveredPanic(c) /\ PanicRecoveryDisabled => Drop(c)
  BY ZenonT(40) DEF handleRecoveredPanic
<1>5. PanicOutside(c) => Drop(c)
  BY SMTT(30) DEF PanicOutside
<1> QED
  BY <1>2, <1>3, <1>4, <1>5, ZenonT(40)

\* A step of one connection keeps what is said of the requests.
LEMMA ConnectionKeepsRequests ==
    ASSUME LifeTypeOK, RequestsInv, NEW c \in Conn, Connection(c)
    PROVE  RequestsInv'
<1>1. CASE Receive(c)
  <2>1. PICK op \in Op, excluded \in BOOLEAN : rq' = [rq EXCEPT ![c] = NewContext(op, excluded)]
    BY <1>1, ZenonT(40) DEF Receive
  <2> QED
    BY <2>1, NewContextInv, SetGives, ZenonT(40)
<1>2. CASE HandleRequest(c)
  <2>1. Handle(c)
    BY <1>2, ZenonT(40) DEF HandleRequest
  <2>2. CASE Pass(c) \/ Fail(c) \/ Cancelled(c) \/ ProcessFails(c)
    BY <2>2, ChecksKeep, FailuresKeep, SMTT(30)
  <2>3. CASE Process(c) \/ PushEvents(c) \/ PushOutput(c) \/ AuditOK(c)
    BY <2>3, ProcessStep, PushEventsStep, PushOutputStep, AuditStep, ZenonT(40)
  <2>4. CASE makeResponse(c) \/ makeErrorResponse(c) \/ Write(c)
    BY <2>4, RespondStep, ErrorResponseStep, WriteStep, ZenonT(40)
  <2>5. CASE handleRecoveredPanic(c) \/ PanicOutside(c)
    BY <2>5, PanicsKeep, ZenonT(40)
  <2> QED
    BY <2>1, <2>2, <2>3, <2>4, <2>5, SMTT(30) DEF Handle
<1>3. CASE Disconnect(c) \/ CloseIdle(c) \/ Hijack(c)
  <2>1. rq' = [rq EXCEPT ![c] = NoRequest]
    BY <1>3, ZenonT(40) DEF Disconnect, CloseIdle, Hijack
  <2> QED
    BY <2>1, NoRequestInv, SetGives, ZenonT(40)
<1>4. CASE Accept(c) \/ Retry(c) \/ TurnAway(c) \/ CloseAgain(c) \/ SessionEnds(c)
  <2>1. rq' = rq
    BY <1>4, ZenonT(40) DEF Accept, Retry, TurnAway, CloseAgain, SessionEnds, Unchanged, restVars
  <2> QED
    BY <2>1, SMTT(30) DEF RequestsInv
<1> QED
  BY <1>1, <1>2, <1>3, <1>4, SMTT(30) DEF Connection

\* No other step touches a request.
LEMMA RunMovesNoRequest ==
    ASSUME \/ Run \/ PostStart \/ Cancel \/ Stop \/ Application \/ Over
           \/ \E h \in Http : Build(h) \/ Listen(h) \/ ListenFails(h)
    PROVE  rq' = rq
<1> USE DEF Unchanged, restVars
<1>1. CASE Run \/ PostStart \/ Cancel
  BY <1>1, ZenonT(40) DEF Run, PostStart, Cancel
<1>2. CASE PreStop \/ StopHealth \/ HealthStopped
  BY <1>2, SMTT(30) DEF PreStop, StopHealth, HealthStopped
<1>3. CASE StopRest \/ RestDrained \/ RestTimeout \/ StopProfiling
  BY <1>3, ZenonT(40) DEF StopRest, RestDrained, RestTimeout, StopProfiling
<1>4. CASE Application
  BY <1>4, ZenonT(40) DEF Application, RegisterProcessor, UnregisterProcessor
<1>5. CASE Over
  BY <1>5, ZenonT(40) DEF Over, serverVars
<1>6. CASE \E h \in Http : Build(h) \/ Listen(h) \/ ListenFails(h)
  BY <1>6, ZenonT(40) DEF Build, Listen, ListenFails
<1> QED
  BY <1>1, <1>2, <1>3, <1>4, <1>5, <1>6, SMTT(30) DEF Stop

\* There is no request at the start.
LEMMA RequestsInvInit == ServerInit => RequestsInv
BY NoRequestInv, ZenonT(40) DEF ServerInit, RestInit, RequestsInv

\* Every step of the server keeps what is said of the requests.
LEMMA RequestsInvNext ==
    StopInv /\ RequestsInv /\ [ServerNext]_serverVars => RequestsInv'
<1> SUFFICES ASSUME StopInv, RequestsInv, [ServerNext]_serverVars
             PROVE  RequestsInv'
  BY ZenonT(40)
<1>1. LifeTypeOK
  BY SMTT(30) DEF StopInv
<1>2. CASE UNCHANGED serverVars
  BY <1>2, SMTT(30) DEF RequestsInv, serverVars, restVars
<1>3. CASE \E c \in Conn : Connection(c)
  BY <1>1, <1>3, ConnectionKeepsRequests, SMTT(30)
<1>4. CASE ServerNext /\ ~(\E c \in Conn : Connection(c))
  <2>1. rq' = rq
    BY <1>4, RunMovesNoRequest, SMTT(30) DEF ServerNext
  <2> QED
    BY <2>1, ZenonT(40) DEF RequestsInv
<1> QED
  BY <1>2, <1>3, <1>4, SMTT(30)

\* In every state what is left of a request to do says what was done for it.
THEOREM RequestsInvariant == ServerSpec => []RequestsInv
<1>1. StopInv /\ RequestsInv /\ [ServerNext]_serverVars => RequestsInv'
  BY RequestsInvNext, ZenonT(40)
<1> QED
  BY <1>1, RequestsInvInit, StopInvariant, PTL DEF ServerSpec

\* A request that was answered is one whose answer is so.
LEMMA ServedIsTruthful ==
    ASSUME RequestsInv, NEW c \in Conn, Served(c)
    PROVE  Truthful(rq[c])
<1>1. RequestInv(rq[c]) /\ rq[c].todo = <<>> /\ rq[c].sent # "no"
  BY SMTT(30) DEF RequestsInv, Served, Busy
<1>2. ~ Unanswered(rq[c])
  BY <1>1, SMTT(30) DEF Unanswered
<1>3. ~ Checking(rq[c]) /\ ~ Succeeding(rq[c]) /\ ~ Failed(rq[c])
  BY <1>2, Zenon DEF Checking, Succeeding, Failed
<1>4. <<"write">> # <<>>
  OBVIOUS
<1>5. ~ Answering(rq[c])
  BY <1>1, <1>4, ZenonT(40) DEF Answering
<1>6. Answered(rq[c])
  BY <1>1, <1>3, <1>5, ZenonT(40) DEF RequestInv
<1> QED
  BY <1>1, <1>6, ZenonT(40) DEF Answered

\* A success that a client reads was processed, pushed and audited before.
THEOREM SuccessComplete == ServerSpec => []SuccessIsComplete
<1>1. RequestsInv => SuccessIsComplete
  BY ServedIsTruthful, ZenonT(40) DEF Truthful, SuccessIsComplete
<1> QED
  BY <1>1, RequestsInvariant, PTL

\* An error that a client reads, without a panic, came with no event.
THEOREM ErrorsArePushless == ServerSpec => []ErrorsPushNothing
<1>1. RequestsInv => ErrorsPushNothing
  BY ServedIsTruthful, ZenonT(40) DEF Truthful, ErrorsPushNothing
<1> QED
  BY <1>1, RequestsInvariant, PTL

\* A request is audited once, with its outcome.
THEOREM OneAudit == ServerSpec => []AuditedOnce
<1>1. RequestsInv => AuditedOnce
  <2> SUFFICES ASSUME RequestsInv, NEW c \in Conn, Served(c)
               PROVE  LET rec == rq[c] IN
                      CASE rec.failed \in Unaudited -> rec.audits = <<>>
                        [] rec.failed \notin Unaudited \cup {"none"} -> rec.audits = <<"error">>
                        [] rec.failed = "none" -> \/ rec.audits = <<"ok">>
                                                  \/ rec.audits = <<>> /\ rec.panicked
    BY ZenonT(40) DEF AuditedOnce
  <2>1. AuditsMatch(rq[c])
    BY ServedIsTruthful, SMTT(30) DEF Truthful
  <2>2. "none" \notin Unaudited
    BY DEF Unaudited, Outside
  <2>3. CASE rq[c].failed \in Unaudited
    BY <2>1, <2>2, <2>3, ZenonT(40) DEF AuditsMatch
  <2>4. CASE rq[c].failed \notin Unaudited \cup {"none"}
    BY <2>1, <2>2, <2>4, ZenonT(40) DEF AuditsMatch
  <2>5. CASE rq[c].failed = "none"
    BY <2>1, <2>2, <2>5, SMTT(30) DEF AuditsMatch
  <2> QED
    BY <2>3, <2>4, <2>5, ZenonT(40)
<1> QED
  BY <1>1, RequestsInvariant, PTL

-----------------------------------------------------------------------------
(* No processor without its guards: a guard of a request that waits for its *)
(* processor holds already, or still lies ahead.                            *)

\* The guards an operation has to pass.
Required(writes) == {"authenticate", "authorize"} \cup (IF writes THEN {"readOnly"} ELSE {})

\* A guard passed, and was right to.
Holds(rec, g) == IF g = "readOnly" THEN ReadOnly => rec.excluded ELSE g \in rec.granted

Lies(g, todo) == \E i \in 1..Len(todo) : todo[i] = g

GuardInv(rec) ==
    /\ rec.result # "none" => Vetted(rec)
    /\ Checking(rec) => \A g \in Required(rec.writes) : Holds(rec, g) \/ Lies(g, rec.todo)

GuardsInv == \A c \in Conn : GuardInv(rq[c])

\* The guards that hold are what vets a request.
LEMMA HoldingIsVetted ==
    ASSUME NEW rec, rec.writes \in BOOLEAN, \A g \in Required(rec.writes) : Holds(rec, g)
    PROVE  Vetted(rec)
<1>1. Holds(rec, "authenticate") /\ Holds(rec, "authorize")
  BY ZenonT(40) DEF Required
<1>2. rec.writes => Holds(rec, "readOnly")
  BY ZenonT(40) DEF Required
<1>3. "authenticate" \in rec.granted /\ "authorize" \in rec.granted
  BY <1>1 DEF Holds
<1>4. rec.writes => (ReadOnly => rec.excluded)
  BY <1>2 DEF Holds
<1> QED
  BY <1>3, <1>4, ZenonT(40) DEF Vetted

\* What lies in a part lies in the whole.
LEMMA LiesInWhole ==
    ASSUME NEW s \in Seq(Stages), NEW t \in Seq(Stages), NEW g, Lies(g, s) \/ Lies(g, t)
    PROVE  s \o t \in Seq(Stages) /\ Lies(g, s \o t)
<1>1. /\ s \o t \in Seq(Stages) /\ Len(s \o t) = Len(s) + Len(t)
      /\ \A i \in 1..(Len(s) + Len(t)) : (s \o t)[i] = IF i <= Len(s) THEN s[i] ELSE t[i - Len(s)]
  BY ConcatProperties, SMTT(30)
<1>2. CASE Lies(g, s)
  <2>1. PICK i \in 1..Len(s) : s[i] = g
    BY <1>2 DEF Lies
  <2>2. i \in 1..(Len(s) + Len(t)) /\ i <= Len(s)
    BY <2>1, LenProperties, SMTT(30)
  <2> QED
    BY <1>1, <2>1, <2>2, SMTT(30) DEF Lies
<1>3. CASE Lies(g, t)
  <2>1. PICK i \in 1..Len(t) : t[i] = g
    BY <1>3 DEF Lies
  <2>2. /\ Len(s) + i \in 1..(Len(s) + Len(t)) /\ ~(Len(s) + i <= Len(s))
        /\ Len(s) + i - Len(s) = i
    BY <2>1, LenProperties, SMTT(30)
  <2> QED
    BY <1>1, <2>1, <2>2, SMTT(30) DEF Lies
<1> QED
  BY <1>2, <1>3

\* What lies in a dispatcher lies in its handler.
LEMMA LiesInHandler ==
    ASSUME NEW d \in Seq(Stages), NEW g, Lies(g, d)
    PROVE  Lies(g, makeHandler(runDispatcher(d)))
<1> DEFINE first == <<"version", "manager", "request", "globalLimit", "apiLimit">>
           a == <<"allowed">> \o d
           r == a \o <<"respond">>
           m == first \o r
<1>1. /\ first \in Seq(Stages) /\ <<"allowed">> \in Seq(Stages)
      /\ <<"respond">> \in Seq(Stages) /\ <<"write">> \in Seq(Stages)
  <2>1. /\ {"version", "manager", "request", "globalLimit", "apiLimit", "allowed"} \subseteq Stages
        /\ "respond" \in Stages /\ "write" \in Stages
    BY DEF Stages, Checks, Outside, Inside
  <2> QED
    BY <2>1, SMTT(30)
<1>2. makeHandler(runDispatcher(d)) = m \o <<"write">>
  BY SMTT(30) DEF makeHandler, runDispatcher
<1> HIDE DEF first
<1>3. a \in Seq(Stages) /\ Lies(g, a)
  BY <1>1, LiesInWhole, ZenonT(40)
<1> HIDE DEF a
<1>4. r \in Seq(Stages) /\ Lies(g, r)
  BY <1>1, <1>3, LiesInWhole, ZenonT(40)
<1> HIDE DEF r
<1>5. m \in Seq(Stages) /\ Lies(g, m)
  BY <1>1, <1>4, LiesInWhole, ZenonT(40)
<1> HIDE DEF m
<1>6. Lies(g, m \o <<"write">>)
  BY <1>1, <1>5, LiesInWhole, ZenonT(40)
<1> QED
  BY <1>2, <1>6, ZenonT(40)

\* Every operation has its guards ahead of it.
LEMMA OperationsAreGuarded ==
    ASSUME NEW op \in Op, NEW g \in Required(op \in Writes)
    PROVE  Lies(g, makeHandler(installRoutes(op)))
<1> DEFINE d1 == <<"find", "process", "pushEvents", "audit">>
           d2 == <<"readOnly", "find", "process", "pushEvents", "pushOutput", "audit">>
           d3 == <<"readOnly", "find", "decode", "validate", "process", "pushEvents",
                   "pushOutput", "audit">>
           d4 == <<"process", "pushEvents", "pushOutput", "audit">>
           q == <<"readOnly", "find", "decode">>
           u == IF Retriever THEN <<"retrieve", "patchable", "identity", "validate">> ELSE <<>>
<1>1. /\ d1 \in Seq(Stages) /\ d2 \in Seq(Stages) /\ d3 \in Seq(Stages) /\ d4 \in Seq(Stages)
  BY DispatchersAhead, Zenon
<1>2. Guards \in Seq(Stages) /\ q \in Seq(Stages) /\ u \in Seq(Stages)
  <2>1. /\ {"authenticate", "authorize", "readOnly", "find", "decode", "retrieve", "patchable",
            "identity", "validate"} \subseteq Stages
    BY DEF Stages, Checks
  <2> QED
    BY <2>1, SMTT(30) DEF Guards
<1>3. Lies("authenticate", Guards) /\ Lies("authorize", Guards)
  BY SMTT(30) DEF Lies, Guards
<1>4. Lies("readOnly", d2)
  BY SMTT(30) DEF Lies
<1>5. Lies("readOnly", d3)
  BY SMTT(30) DEF Lies
<1>6. Lies("readOnly", q)
  BY SMTT(30) DEF Lies
<1>7. /\ dispatchRetrieveManyOperation = Guards \o d1
      /\ dispatchRetrieveOperation = Guards \o d1
      /\ dispatchInfoOperation = Guards \o d1
      /\ dispatchDeleteOperation = Guards \o d2
      /\ dispatchCreateOperation = Guards \o d3
      /\ dispatchUpdateOperation = Guards \o d3
      /\ dispatchPatchOperation = ((Guards \o q) \o u) \o d4
  BY Zenon DEF dispatchRetrieveManyOperation, dispatchRetrieveOperation, dispatchInfoOperation,
         dispatchDeleteOperation, dispatchCreateOperation, dispatchUpdateOperation,
         dispatchPatchOperation
<1> HIDE DEF d1, d2, d3, d4, q, u
<1>8. CASE op \in {"retrieveMany", "retrieve", "info"}
  <2>1. installRoutes(op) = runDispatcher(Guards \o d1)
    BY <1>7, <1>8, ZenonT(40) DEF installRoutes, handleRetrieveMany, handleRetrieve, handleInfo
  <2>2. g = "authenticate" \/ g = "authorize"
    BY <1>8 DEF Writes, Required
  <2> QED
    BY <1>1, <1>2, <1>3, <2>1, <2>2, LiesInWhole, LiesInHandler, ZenonT(40)
<1>9. g = "authenticate" \/ g = "authorize" \/ g = "readOnly"
  BY ZenonT(40) DEF Required
<1>10. CASE op = "delete"
  <2>1. installRoutes(op) = runDispatcher(Guards \o d2)
    BY <1>7, <1>10, ZenonT(40) DEF installRoutes, handleDelete
  <2> QED
    BY <1>1, <1>2, <1>3, <1>4, <1>9, <2>1, LiesInWhole, LiesInHandler, ZenonT(40)
<1>11. CASE op \in {"create", "update"}
  <2>1. installRoutes(op) = runDispatcher(Guards \o d3)
    BY <1>7, <1>11, ZenonT(40) DEF installRoutes, handleCreate, handleUpdate
  <2> QED
    BY <1>1, <1>2, <1>3, <1>5, <1>9, <2>1, LiesInWhole, LiesInHandler, ZenonT(40)
<1>12. CASE op = "patch"
  <2> DEFINE p == Guards \o q
             v == p \o u
  <2>1. installRoutes(op) = runDispatcher(v \o d4)
    BY <1>7, <1>12, ZenonT(40) DEF installRoutes, handlePatch
  <2>2. p \in Seq(Stages) /\ Lies(g, p)
    BY <1>2, <1>3, <1>6, <1>9, LiesInWhole, ZenonT(40)
  <2> HIDE DEF p
  <2>3. v \in Seq(Stages) /\ Lies(g, v)
    BY <1>2, <2>2, LiesInWhole, ZenonT(40)
  <2> HIDE DEF v
  <2>4. v \o d4 \in Seq(Stages) /\ Lies(g, v \o d4)
    BY <1>1, <2>3, LiesInWhole, ZenonT(40)
  <2> QED
    BY <2>1, <2>4, LiesInHandler, ZenonT(40)
<1> QED
  BY <1>8, <1>10, <1>11, <1>12, SMTT(30) DEF Op

\* A request that has just arrived has its guards ahead; no request needs none.
LEMMA NewContextGuarded ==
    ASSUME NEW op \in Op, NEW excluded \in BOOLEAN
    PROVE  GuardInv(NewContext(op, excluded))
<1> DEFINE new == NewContext(op, excluded)
<1>1. /\ new.result = "none" /\ new.writes = (op \in Writes)
      /\ new.todo = makeHandler(installRoutes(op))
  BY ZenonT(40) DEF NewContext
<1> HIDE DEF new
<1>2. \A g \in Required(new.writes) : Lies(g, new.todo)
  BY <1>1, OperationsAreGuarded, ZenonT(40)
<1> QED
  BY <1>1, <1>2, ZenonT(40) DEF GuardInv, new

LEMMA NoRequestGuarded == GuardInv(NoRequest)
<1>1. NoRequest.result = "none" /\ NoRequest.todo = <<>> /\ NoRequest.writes \in BOOLEAN
  <2>1. NoRequest \in RequestRecord
    BY NoRequestInv, ZenonT(40) DEF RequestInv
  <2>2. NoRequest.result = "none" /\ NoRequest.todo = <<>>
    BY ZenonT(40) DEF NoRequest, NewContext
  <2> QED
    BY <2>1, <2>2, ZenonT(40) DEF RequestRecord
<1>2. AfterProcess(NoRequest.writes) \in Seq(Stages) /\ <<>> \in Seq(Stages)
  BY <1>1, AfterIsStages, SMTT(30)
<1>3. ~ Ahead(<<>>, AfterProcess(NoRequest.writes))
  BY <1>2, AheadMoves, ZenonT(40)
<1> QED
  BY <1>1, <1>3, ZenonT(40) DEF GuardInv, Checking

\* No guard lies behind the processor.
LEMMA NoGuardBehind ==
    ASSUME NEW rec \in RequestRecord, Checking(rec), GuardInv(rec), Head(rec.todo) = "process"
    PROVE  Vetted(rec)
<1>1. rec.todo \in Seq(Stages) /\ rec.writes \in BOOLEAN
  BY ZenonT(40) DEF RequestRecord
<1> DEFINE after == AfterProcess(rec.writes)
<1>2. after \in Seq(Stages)
  BY <1>1, AfterIsStages, ZenonT(40)
<1>3. rec.todo # <<>> /\ Tail(rec.todo) = after
  <2>1. "process" \notin Checks
    BY DEF Checks, Outside
  <2>2. Ahead(rec.todo, after)
    BY ZenonT(40) DEF Checking
  <2> HIDE DEF after
  <2>3. /\ rec.todo # <<>>
        /\ Head(rec.todo) \in Checks \/ Tail(rec.todo) = after
    BY <1>1, <1>2, <2>2, AheadMoves, ZenonT(40)
  <2> QED
    BY <2>1, <2>3, ZenonT(40)
<1>4. \A i \in 1..Len(after) : after[i] \in {"pushEvents", "pushOutput", "audit", "respond", "write"}
  <2>1. CASE rec.writes
    BY <2>1, SMTT(30) DEF AfterProcess
  <2>2. CASE ~ rec.writes
    BY <2>2, SMTT(30) DEF AfterProcess
  <2> QED
    BY <2>1, <2>2
<1> HIDE DEF after
<1>5. ASSUME NEW g \in Required(rec.writes), Lies(g, rec.todo)
      PROVE  FALSE
  <2>1. PICK i \in 1..Len(rec.todo) : rec.todo[i] = g
    BY <1>5 DEF Lies
  <2>2. g = "authenticate" \/ g = "authorize" \/ g = "readOnly"
    BY <1>5, ZenonT(40) DEF Required
  <2>3. i # 1
    <3>1. Head(rec.todo) = rec.todo[1]
      BY <1>1, <1>3, SMTT(30)
    <3> QED
      BY <2>1, <2>2, <3>1, ZenonT(40)
  <2>4. i - 1 \in 1..Len(after) /\ after[i - 1] = rec.todo[i]
    BY <1>1, <1>3, <2>1, <2>3, SMTT(30)
  <2>5. after[i - 1] \in {"pushEvents", "pushOutput", "audit", "respond", "write"}
    BY <1>4, <2>4, ZenonT(40)
  <2> QED
    BY <2>1, <2>2, <2>4, <2>5, ZenonT(40)
<1>6. \A g \in Required(rec.writes) : Holds(rec, g)
  <2>1. \A g \in Required(rec.writes) : Holds(rec, g) \/ Lies(g, rec.todo)
    BY ZenonT(40) DEF GuardInv
  <2> QED
    BY <1>5, <2>1, ZenonT(40)
<1> QED
  BY <1>1, <1>6, HoldingIsVetted, SMTT(30)

\* A check passes: if it is a guard, it holds from now on.
LEMMA PassGuarded ==
    ASSUME RequestsInv, GuardsInv, LifeTypeOK, NEW c \in Conn, Pass(c)
    PROVE  GuardInv(rq'[c])
<1> DEFINE rec == rq[c]
           new == [rec EXCEPT !.todo = Tail(rec.todo),
                              !.granted = rec.granted \cup {Head(rec.todo)}]
<1>1. RequestInv(rec) /\ rec \in RequestRecord /\ GuardInv(rec)
  BY ZenonT(40) DEF RequestsInv, RequestInv, GuardsInv
<1>2. /\ rq' = [rq EXCEPT ![c] = new]
      /\ rec.todo # <<>> /\ Head(rec.todo) \in Checks
      /\ Head(rec.todo) = "readOnly" => (ReadOnly => rec.excluded)
  BY <1>1, PassGives, ZenonT(40)
<1>3. rq'[c] = new
  BY <1>2, ZenonT(40) DEF LifeTypeOK
<1>4. Checking(rec)
  BY <1>1, <1>2, PhaseOfStage, ZenonT(40)
<1>5. /\ new.result = rec.result /\ new.writes = rec.writes /\ new.excluded = rec.excluded
      /\ new.todo = Tail(rec.todo) /\ new.granted = rec.granted \cup {Head(rec.todo)}
  BY <1>1, ZenonT(40) DEF RequestRecord
<1> HIDE DEF new
<1>6. ASSUME NEW g \in Required(rec.writes)
      PROVE  Holds(new, g) \/ Lies(g, new.todo)
  <2>1. CASE Holds(rec, g)
    BY <1>5, <2>1, ZenonT(40) DEF Holds
  <2>2. CASE g = Head(rec.todo)
    BY <1>2, <1>5, <2>2, ZenonT(40) DEF Holds
  <2>3. CASE Lies(g, rec.todo) /\ g # Head(rec.todo)
    <3>1. PICK i \in 1..Len(rec.todo) : rec.todo[i] = g
      BY <2>3 DEF Lies
    <3>2. rec.todo \in Seq(Stages)
      BY <1>1, ZenonT(40) DEF RequestRecord
    <3>3. i - 1 \in 1..Len(Tail(rec.todo)) /\ Tail(rec.todo)[i - 1] = g
      BY <1>2, <2>3, <3>1, <3>2, SMTT(30)
    <3> QED
      BY <1>5, <3>3, ZenonT(40) DEF Lies
  <2> QED
    BY <1>1, <1>4, <2>1, <2>2, <2>3, ZenonT(40) DEF GuardInv
<1>7. new.result = "none"
  BY <1>4, <1>5, ZenonT(40) DEF Checking
<1> QED
  BY <1>3, <1>5, <1>6, <1>7, ZenonT(40) DEF GuardInv

\* The processor is called, whatever comes of it.
LEMMA ProcessGuarded ==
    ASSUME RequestsInv, GuardsInv, LifeTypeOK, NEW c \in Conn, Process(c) \/ ProcessFails(c)
    PROVE  GuardInv(rq'[c])
<1> DEFINE rec == rq[c]
<1>1. RequestInv(rec) /\ rec \in RequestRecord /\ GuardInv(rec)
  BY ZenonT(40) DEF RequestsInv, RequestInv, GuardsInv
<1>2. rec.todo # <<>> /\ Head(rec.todo) = "process" /\ At(c, Checks \cup {"process"})
  BY ZenonT(40) DEF Process, ProcessFails, At, Busy, Stage
<1>3. Checking(rec)
  BY <1>1, <1>2, PhaseOfStage, ZenonT(40)
<1>4. Vetted(rec)
  BY <1>1, <1>2, <1>3, NoGuardBehind, ZenonT(40)
<1>5. /\ rq'[c].granted = rec.granted /\ rq'[c].excluded = rec.excluded
      /\ rq'[c].writes = rec.writes /\ rq'[c].result # "none"
  <2>1. CASE Process(c)
    <3>1. PICK ev, out : Set(c, [Next1(c) EXCEPT !.result = "ok", !.events = ev, !.output = out])
      BY <2>1, ZenonT(40) DEF Process
    <3>2. rq'[c] = [Next1(c) EXCEPT !.result = "ok", !.events = ev, !.output = out]
      BY <3>1, StepGives, ZenonT(40)
    <3> QED
      BY <1>1, <3>2, ZenonT(40) DEF Next1, RequestRecord
  <2>2. CASE ProcessFails(c)
    <3>1. PICK out, todo, resp :
            Set(c, [Failing(c) EXCEPT !.todo = todo, !.resp = resp, !.result = "failed", !.output = out])
      BY <2>2, ZenonT(40) DEF ProcessFails
    <3>2. rq'[c] = [Failing(c) EXCEPT !.todo = todo, !.resp = resp, !.result = "failed", !.output = out]
      BY <3>1, StepGives, ZenonT(40)
    <3>3. /\ Failing(c) \in RequestRecord
          /\ Failing(c).granted = rec.granted /\ Failing(c).excluded = rec.excluded
          /\ Failing(c).writes = rec.writes
      BY <1>1, <1>2, FailingGives, FailingLeaves, ZenonT(40)
    <3> QED
      BY <3>2, <3>3, ZenonT(40) DEF RequestRecord
  <2> QED
    BY <2>1, <2>2, ZenonT(40)
<1>6. Vetted(rq'[c])
  BY <1>4, <1>5, ZenonT(40) DEF Vetted
<1> QED
  BY <1>5, <1>6, ZenonT(40) DEF GuardInv, Checking

\* A check fails: the processor is not called any more.
LEMMA FailGuarded ==
    ASSUME RequestsInv, LifeTypeOK, NEW c \in Conn, Fail(c) \/ Cancelled(c)
    PROVE  GuardInv(rq'[c])
<1> DEFINE rec == rq[c]
<1>1. RequestInv(rec) /\ rec \in RequestRecord
  BY ZenonT(40) DEF RequestsInv, RequestInv
<1>2. At(c, Checks \cup {"process"}) /\ At(c, Checks)
  BY ZenonT(40) DEF Fail, Cancelled, At, Foreign, Checks
<1>3. /\ Failing(c) \in RequestRecord /\ Failing(c).failed = Stage(c)
      /\ Failing(c).result = "none"
  BY <1>1, <1>2, FailingGives, FailingLeaves, ZenonT(40) DEF Checking
<1>4. Stage(c) # "none"
  BY <1>2 DEF At, Checks, Outside
<1>5. \E todo, resp : rq'[c] = [Failing(c) EXCEPT !.todo = todo, !.resp = resp]
                      \/ rq'[c] = [Failing(c) EXCEPT !.todo = todo]
  BY StepGives, ZenonT(40) DEF Fail, Cancelled
<1>6. rq'[c].result = "none" /\ rq'[c].failed # "none"
  BY <1>3, <1>4, <1>5, ZenonT(40) DEF RequestRecord
<1> QED
  BY <1>6, ZenonT(40) DEF GuardInv, Checking, Undisturbed

\* Behind the processor, and once a check failed, nothing changes what vets the
\* request, and the processor is not ahead any more.
LEMMA AnswersGuarded ==
    ASSUME RequestsInv, GuardsInv, LifeTypeOK, NEW c \in Conn,
           \/ PushEvents(c) \/ PushOutput(c) \/ AuditOK(c) \/ makeResponse(c)
           \/ makeErrorResponse(c) \/ Write(c) \/ handleRecoveredPanic(c) \/ PanicOutside(c)
    PROVE  GuardInv(rq'[c])
<1> DEFINE rec == rq[c]
           Same(new) == /\ new.result = rec.result /\ new.granted = rec.granted
                        /\ new.excluded = rec.excluded /\ new.writes = rec.writes
<1>1. RequestInv(rec) /\ rec \in RequestRecord /\ GuardInv(rec)
  BY ZenonT(40) DEF RequestsInv, RequestInv, GuardsInv
<1>2. CASE PushEvents(c) \/ PushOutput(c) \/ AuditOK(c) \/ makeResponse(c)
  <2>1. /\ rec.todo # <<>>
        /\ Head(rec.todo) \in {"pushEvents", "pushOutput", "audit", "respond"}
    BY <1>2, ZenonT(40) DEF PushEvents, PushOutput, AuditOK, makeResponse, At, Busy, Stage
  <2>2. rec.result = "ok"
    BY <1>1, <2>1, PhaseOfStage, ZenonT(40) DEF Succeeding
  <2>3. \E x : \/ rq'[c] = [Next1(c) EXCEPT !.pushed = x]
               \/ rq'[c] = [Next1(c) EXCEPT !.audits = x]
               \/ rq'[c] = [Next1(c) EXCEPT !.resp = x]
    BY <1>2, StepGives, ZenonT(40) DEF PushEvents, PushOutput, AuditOK, audit, makeResponse
  <2>4. Same(rq'[c])
    BY <1>1, <2>3, ZenonT(40) DEF Next1, RequestRecord
  <2> QED
    BY <1>1, <2>2, <2>4, ZenonT(40) DEF GuardInv, Vetted, Checking
<1>3. CASE makeErrorResponse(c)
  <2>1. rq'[c] = [Next1(c) EXCEPT !.resp = "error"]
    BY <1>3, StepGives, ZenonT(40) DEF makeErrorResponse
  <2>2. Same(rq'[c]) /\ rq'[c].resp = "error"
    BY <1>1, <2>1, ZenonT(40) DEF Next1, RequestRecord
  <2> QED
    BY <1>1, <2>2, ZenonT(40) DEF GuardInv, Vetted, Checking, Unanswered
<1>4. CASE Write(c)
  <2>1. PICK sent \in {"custom", "resp"} : rq'[c] = [Next1(c) EXCEPT !.sent = sent]
    BY <1>4, StepGives, ZenonT(40) DEF Write
  <2>2. Same(rq'[c]) /\ rq'[c].sent # "no"
    BY <1>1, <2>1, ZenonT(40) DEF Next1, RequestRecord
  <2> QED
    BY <1>1, <2>2, ZenonT(40) DEF GuardInv, Vetted, Checking, Unanswered
<1>5. CASE handleRecoveredPanic(c) \/ PanicOutside(c)
  <2>1. \E todo : \/ rq'[c] = [rec EXCEPT !.todo = todo, !.panicked = TRUE]
                  \/ rq'[c] = [rec EXCEPT !.todo = todo, !.panicked = TRUE, !.sent = "dropped"]
    BY <1>5, StepGives, ZenonT(40) DEF handleRecoveredPanic, PanicOutside, Drop
  <2>2. Same(rq'[c]) /\ rq'[c].panicked = TRUE
    BY <1>1, <2>1, ZenonT(40) DEF RequestRecord
  <2> QED
    BY <1>1, <2>2, ZenonT(40) DEF GuardInv, Vetted, Checking, Undisturbed
<1> QED
  BY <1>2, <1>3, <1>4, <1>5, ZenonT(40)

\* A step of one connection keeps its request guarded.
LEMMA ConnectionKeepsGuards ==
    ASSUME RequestsInv, GuardsInv, LifeTypeOK, NEW c \in Conn, Connection(c)
    PROVE  GuardsInv'
<1>1. ASSUME NEW rec, rq' = [rq EXCEPT ![c] = rec], GuardInv(rq'[c])
      PROVE  GuardsInv'
  <2>1. \A d \in Conn \ {c} : rq'[d] = rq[d]
    BY <1>1, ZenonT(40) DEF LifeTypeOK
  <2> QED
    BY <1>1, <2>1, ZenonT(40) DEF GuardsInv
<1>2. CASE Receive(c) \/ Disconnect(c) \/ CloseIdle(c) \/ Hijack(c)
  <2>1. PICK rec : /\ rq' = [rq EXCEPT ![c] = rec]
                   /\ \/ rec = NoRequest
                      \/ \E op \in Op, excluded \in BOOLEAN : rec = NewContext(op, excluded)
    BY <1>2, ZenonT(40) DEF Receive, Disconnect, CloseIdle, Hijack
  <2>2. GuardInv(rec) /\ rq'[c] = rec
    BY <2>1, NoRequestGuarded, NewContextGuarded, ZenonT(40) DEF LifeTypeOK
  <2> QED
    BY <1>1, <2>1, <2>2, ZenonT(40)
<1>3. CASE HandleRequest(c)
  <2>1. Handle(c) /\ \E rec : rq' = [rq EXCEPT ![c] = rec]
    BY <1>3, HandleIsLocal, ZenonT(40) DEF HandleRequest
  <2>2. GuardInv(rq'[c])
    BY <2>1, PassGuarded, ProcessGuarded, FailGuarded, AnswersGuarded, ZenonT(40) DEF Handle
  <2> QED
    BY <1>1, <2>1, <2>2, ZenonT(40)
<1>4. CASE Accept(c) \/ Retry(c) \/ TurnAway(c) \/ CloseAgain(c) \/ SessionEnds(c)
  <2>1. rq' = rq
    BY <1>4, ZenonT(40) DEF Accept, Retry, TurnAway, CloseAgain, SessionEnds, Unchanged, restVars
  <2> QED
    BY <2>1, ZenonT(40) DEF GuardsInv
<1> QED
  BY <1>2, <1>3, <1>4, ZenonT(40) DEF Connection

\* In every state the guards of a request hold or lie ahead of its processor.
THEOREM GuardsInvariant == ServerSpec => []GuardsInv
<1>1. ServerInit => GuardsInv
  BY NoRequestGuarded, ZenonT(40) DEF ServerInit, RestInit, GuardsInv
<1>2. StopInv /\ RequestsInv /\ GuardsInv /\ [ServerNext]_serverVars => GuardsInv'
  <2> SUFFICES ASSUME StopInv, RequestsInv, GuardsInv, [ServerNext]_serverVars
               PROVE  GuardsInv'
    BY ZenonT(40)
  <2>1. CASE \E c \in Conn : Connection(c)
    BY <2>1, ConnectionKeepsGuards, ZenonT(40) DEF StopInv
  <2>2. CASE ~(\E c \in Conn : Connection(c))
    <3>1. rq' = rq
      BY <2>2, RunMovesNoRequest, ZenonT(40) DEF ServerNext, serverVars, restVars
    <3> QED
      BY <3>1, ZenonT(40) DEF GuardsInv
  <2> QED
    BY <2>1, <2>2
<1> QED
  BY <1>1, <1>2, StopInvariant, RequestsInvariant, PTL DEF ServerSpec

\* No dispatcher calls its processor for a request that its authenticators and
\* authorizers did not have to let through, or for one that writes while the API
\* is read-only and its identity is not excluded from that.
THEOREM ProcessedGranted == ServerSpec => []ProcessedIsGranted
<1>1. GuardsInv => ProcessedIsGranted
  BY ZenonT(40) DEF GuardsInv, GuardInv, ProcessedIsGranted
<1> QED
  BY <1>1, GuardsInvariant, PTL

-----------------------------------------------------------------------------
(* What a request has pushed at any moment, whatever panics.                *)

\* The events of the processor, and then the one about its output: as far as
\* the request came, for a processor that succeeded.
Earned(rec) ==
    /\ rec.pushed \in {<<>>, IF rec.events THEN <<"events">> ELSE <<>>, Due(rec)}
    /\ rec.pushed # <<>> => rec.result = "ok" /\ Vetted(rec)

\* The dispatchers and runDispatcher: an event that a request pushed, even if it
\* panicked later or its answer is lost, is due to a processor that succeeded
\* for a vetted request; no event is pushed twice, and
\* the enqueued ones go first.
PushedIsEarned == \A c \in Conn : Earned(rq[c])

\* What is said of the pushes depends on these.
SamePushes(new, rec) ==
    /\ new.pushed = rec.pushed /\ new.result = rec.result /\ new.granted = rec.granted
    /\ new.excluded = rec.excluded
    /\ new.events = rec.events /\ new.output = rec.output /\ new.writes = rec.writes

LEMMA EarnedKept ==
    ASSUME NEW rec, NEW new, Earned(rec), SamePushes(new, rec)
    PROVE  Earned(new)
<1>1. Due(new) = Due(rec)
  BY ZenonT(40) DEF Due, SamePushes
<1> QED
  BY <1>1, ZenonT(40) DEF Earned, Vetted, SamePushes

\* Nothing pushed is nothing to earn.
LEMMA NothingPushed ==
    ASSUME NEW rec, rec.pushed = <<>>
    PROVE  Earned(rec)
BY ZenonT(40) DEF Earned

\* A request whose processor succeeded, and that nothing disturbed, pushed what
\* the stages behind it push.
LEMMA SucceedingIsEarned ==
    ASSUME NEW rec, GuardInv(rec), Succeeding(rec)
    PROVE  Earned(rec)
BY ZenonT(40) DEF Succeeding, GuardInv, Earned

\* Before the processor is done nothing is pushed.
LEMMA ChecksPushNothing ==
    ASSUME LifeTypeOK, RequestsInv, NEW c \in Conn,
           Pass(c) \/ Fail(c) \/ Cancelled(c) \/ Process(c) \/ ProcessFails(c)
    PROVE  rq'[c].pushed = <<>>
<1> DEFINE rec == rq[c]
<1>1. RequestInv(rec) /\ rec \in RequestRecord
  BY ZenonT(40) DEF RequestsInv, RequestInv
<1>2. At(c, Checks \cup {"process"})
  BY ZenonT(40) DEF Pass, Fail, Cancelled, Process, ProcessFails, At, Foreign, Checks
<1>3. /\ rec.pushed = <<>> /\ Failing(c).pushed = rec.pushed
      /\ Failing(c) \in RequestRecord
  BY <1>1, <1>2, FailingGives, ZenonT(40) DEF Checking
<1>4. CASE Pass(c)
  <2>1. PICK granted : Set(c, [Next1(c) EXCEPT !.granted = granted])
    BY <1>4, ZenonT(40) DEF Pass
  <2>2. rq'[c] = [Next1(c) EXCEPT !.granted = granted]
    BY <2>1, StepGives, ZenonT(40)
  <2> QED
    BY <1>1, <1>3, <2>2, ZenonT(40) DEF Next1, RequestRecord
<1>5. CASE Process(c)
  <2>1. PICK ev \in BOOLEAN, out \in {"none", "object", "silent", "writer"} :
          Set(c, [Next1(c) EXCEPT !.result = "ok", !.events = ev, !.output = out])
    BY <1>5, ZenonT(40) DEF Process
  <2>2. rq'[c] = [Next1(c) EXCEPT !.result = "ok", !.events = ev, !.output = out]
    BY <2>1, StepGives, ZenonT(40)
  <2> QED
    BY <1>1, <1>3, <2>2, ZenonT(40) DEF Next1, RequestRecord
<1>6. CASE Fail(c)
  <2>1. \E todo : rq'[c] = [Failing(c) EXCEPT !.todo = todo]
    BY <1>6, StepGives, ZenonT(40) DEF Fail
  <2> QED
    BY <1>3, <2>1, ZenonT(40) DEF RequestRecord
<1>7. CASE Cancelled(c)
  <2>1. rq'[c] = [Failing(c) EXCEPT !.todo = <<"write">>, !.resp = "nil"]
    BY <1>7, StepGives, ZenonT(40) DEF Cancelled
  <2> QED
    BY <1>3, <2>1, ZenonT(40) DEF RequestRecord
<1>8. CASE ProcessFails(c)
  <2>1. PICK out, todo, resp :
          Set(c, [Failing(c) EXCEPT !.todo = todo, !.resp = resp, !.result = "failed", !.output = out])
    BY <1>8, ZenonT(40) DEF ProcessFails
  <2>2. rq'[c] = [Failing(c) EXCEPT !.todo = todo, !.resp = resp, !.result = "failed", !.output = out]
    BY <2>1, StepGives, ZenonT(40)
  <2> QED
    BY <1>3, <2>2, ZenonT(40) DEF RequestRecord
<1> QED
  BY <1>4, <1>5, <1>6, <1>7, <1>8, ZenonT(40)

\* The last stages of a success.
LEMMA LastStages ==
    LET last3 == <<"audit", "respond", "write">>
        last4 == <<"pushOutput", "audit", "respond", "write">>
    IN  /\ last3 # <<>> /\ Head(last3) = "audit"
        /\ last4 # <<>> /\ Head(last4) = "pushOutput" /\ Tail(last4) = last3
        /\ Head(<<"respond", "write">>) = "respond"
        /\ Tail(<<"pushEvents", "pushOutput", "audit", "respond", "write">>) = last4
        /\ Tail(<<"pushEvents", "audit", "respond", "write">>) = last3
<1> DEFINE last3 == <<"audit", "respond", "write">>
           last4 == <<"pushOutput", "audit", "respond", "write">>
<1>1. last3 # <<>> /\ Head(last3) = "audit"
  OBVIOUS
<1>2. last4 # <<>> /\ Head(last4) = "pushOutput"
  OBVIOUS
<1>3. Tail(last4) = last3
  OBVIOUS
<1>4. Head(<<"respond", "write">>) = "respond"
  OBVIOUS
<1>5. Tail(<<"pushEvents", "pushOutput", "audit", "respond", "write">>) = last4
  OBVIOUS
<1>6. Tail(<<"pushEvents", "audit", "respond", "write">>) = last3
  OBVIOUS
<1> QED
  BY <1>1, <1>2, <1>3, <1>4, <1>5, <1>6, ZenonT(40)

\* A push leaves a request that goes on to push or to its audit.
LEMMA PushesAreEarned ==
    ASSUME LifeTypeOK, RequestsInv, RequestsInv', GuardsInv', NEW c \in Conn,
           PushEvents(c) \/ PushOutput(c)
    PROVE  Earned(rq[c])'
<1> DEFINE rec == rq[c]
<1>1. RequestInv(rec) /\ rec \in RequestRecord /\ RequestInv(rq'[c])
  BY ZenonT(40) DEF RequestsInv, RequestInv
<1>2. rec.todo # <<>> /\ Head(rec.todo) \in {"pushEvents", "pushOutput"}
  BY DEF PushEvents, PushOutput, At, Busy, Stage
<1>3. Succeeding(rec)
  BY <1>1, <1>2, PhaseOfStage
<1> DEFINE last3 == <<"audit", "respond", "write">>
           last4 == <<"pushOutput", "audit", "respond", "write">>
<1>4. Tail(rec.todo) = last4 \/ Tail(rec.todo) = last3
  <2>1. \/ rec.todo = <<"pushEvents", "pushOutput", "audit", "respond", "write">>
        \/ rec.todo = <<"pushEvents", "audit", "respond", "write">>
        \/ rec.todo = last4 \/ rec.todo = last3 \/ rec.todo = <<"respond", "write">>
    BY <1>3, ZenonT(40) DEF Succeeding, AfterProcess
  <2>2. Head(last3) = "audit" /\ Head(<<"respond", "write">>) = "respond"
    BY LastStages, ZenonT(40)
  <2>3. rec.todo # last3 /\ rec.todo # <<"respond", "write">>
    BY <1>2, <2>2, ZenonT(40)
  <2>4. /\ Tail(<<"pushEvents", "pushOutput", "audit", "respond", "write">>) = last4
        /\ Tail(<<"pushEvents", "audit", "respond", "write">>) = last3
        /\ Tail(last4) = last3
    BY LastStages, ZenonT(40)
  <2> QED
    BY <2>1, <2>3, <2>4, ZenonT(40)
<1>5. rq'[c].todo = Tail(rec.todo)
  <2>1. PICK pushed : Set(c, [Next1(c) EXCEPT !.pushed = pushed])
    BY ZenonT(40) DEF PushEvents, PushOutput
  <2>2. rq'[c] = [Next1(c) EXCEPT !.pushed = pushed]
    BY <2>1, StepGives, ZenonT(40)
  <2> QED
    BY <1>1, <2>2, ZenonT(40) DEF Next1, RequestRecord
<1>6. rq'[c].todo # <<>> /\ Head(rq'[c].todo) \in {"pushEvents", "pushOutput", "audit", "respond"}
  <2>1. last3 # <<>> /\ last4 # <<>> /\ Head(last3) = "audit" /\ Head(last4) = "pushOutput"
    BY LastStages, ZenonT(40)
  <2> QED
    BY <1>4, <1>5, <2>1, ZenonT(40)
<1>7. Succeeding(rq'[c])
  BY <1>1, <1>6, PhaseOfStage, ZenonT(40)
<1> QED
  BY <1>7, SucceedingIsEarned, ZenonT(40) DEF GuardsInv

\* Audits, answers and panics leave what was pushed.
LEMMA AnswersPushNothing ==
    ASSUME LifeTypeOK, RequestsInv, NEW c \in Conn,
           \/ AuditOK(c) \/ makeResponse(c) \/ makeErrorResponse(c) \/ Write(c)
           \/ handleRecoveredPanic(c) \/ PanicOutside(c)
    PROVE  SamePushes(rq'[c], rq[c])
<1> DEFINE rec == rq[c]
<1>1. rec \in RequestRecord
  BY ZenonT(40) DEF RequestsInv, RequestInv
<1>2. ASSUME NEW todo, NEW audits, rq'[c] = [rec EXCEPT !.todo = todo, !.audits = audits]
      PROVE  SamePushes(rq'[c], rec)
  BY <1>1, <1>2, ZenonT(40) DEF RequestRecord, SamePushes
<1>3. ASSUME NEW todo, NEW resp, rq'[c] = [rec EXCEPT !.todo = todo, !.resp = resp]
      PROVE  SamePushes(rq'[c], rec)
  BY <1>1, <1>3, ZenonT(40) DEF RequestRecord, SamePushes
<1>4. ASSUME NEW todo, NEW sent, rq'[c] = [rec EXCEPT !.todo = todo, !.sent = sent]
      PROVE  SamePushes(rq'[c], rec)
  BY <1>1, <1>4, ZenonT(40) DEF RequestRecord, SamePushes
<1>5. ASSUME NEW todo, rq'[c] = [rec EXCEPT !.todo = todo, !.panicked = TRUE]
      PROVE  SamePushes(rq'[c], rec)
  BY <1>1, <1>5, ZenonT(40) DEF RequestRecord, SamePushes
<1>6. CASE AuditOK(c)
  <2>1. \E todo, audits : rq'[c] = [rec EXCEPT !.todo = todo, !.audits = audits]
    BY <1>6, StepGives, ZenonT(40) DEF AuditOK, audit, Next1
  <2> QED
    BY <1>2, <2>1, ZenonT(40)
<1>7. CASE makeResponse(c) \/ makeErrorResponse(c)
  <2>1. \E todo, resp : rq'[c] = [rec EXCEPT !.todo = todo, !.resp = resp]
    BY <1>7, StepGives, ZenonT(40) DEF makeResponse, makeErrorResponse, Next1
  <2> QED
    BY <1>3, <2>1, ZenonT(40)
<1>8. CASE Write(c)
  <2>1. \E todo, sent : rq'[c] = [rec EXCEPT !.todo = todo, !.sent = sent]
    BY <1>8, StepGives, ZenonT(40) DEF Write, Next1
  <2> QED
    BY <1>4, <2>1, ZenonT(40)
<1>9. CASE Drop(c)
  <2>1. rq'[c] = [rec EXCEPT !.todo = <<>>, !.panicked = TRUE, !.sent = "dropped"]
    BY <1>9, StepGives, ZenonT(40) DEF Drop
  <2> QED
    BY <1>1, <2>1, ZenonT(40) DEF RequestRecord, SamePushes
<1>10. CASE handleRecoveredPanic(c) /\ ~ PanicRecoveryDisabled
  <2>1. rq'[c] = [rec EXCEPT !.todo = <<"recovered", "write">>, !.panicked = TRUE]
    BY <1>10, StepGives, ZenonT(40) DEF handleRecoveredPanic
  <2> QED
    BY <1>5, <2>1, ZenonT(40)
<1>11. /\ handleRecoveredPanic(c) /\ PanicRecoveryDisabled => Drop(c)
       /\ PanicOutside(c) => Drop(c)
  BY ZenonT(40) DEF handleRecoveredPanic, PanicOutside
<1> QED
  BY <1>6, <1>7, <1>8, <1>9, <1>10, <1>11, ZenonT(40)

\* A step of one connection leaves the pushes of its request earned.
LEMMA ConnectionKeepsEarned ==
    ASSUME LifeTypeOK, RequestsInv, RequestsInv', GuardsInv', PushedIsEarned, NEW c \in Conn,
           Connection(c)
    PROVE  PushedIsEarned'
<1>1. CASE rq' = rq
  BY <1>1, ZenonT(40) DEF PushedIsEarned
<1>2. ASSUME NEW rec, rq' = [rq EXCEPT ![c] = rec], Earned(rq'[c])
      PROVE  PushedIsEarned'
  <2>1. \A d \in Conn \ {c} : rq'[d] = rq[d]
    BY <1>2, ZenonT(40) DEF LifeTypeOK
  <2> QED
    BY <1>2, <2>1, ZenonT(40) DEF PushedIsEarned
<1>3. CASE Receive(c) \/ Disconnect(c) \/ CloseIdle(c) \/ Hijack(c)
  <2>1. PICK rec : /\ rq' = [rq EXCEPT ![c] = rec]
                   /\ \/ rec = NoRequest
                      \/ \E op \in Op, excluded \in BOOLEAN : rec = NewContext(op, excluded)
    BY <1>3, ZenonT(40) DEF Receive, Disconnect, CloseIdle, Hijack
  <2>2. rec.pushed = <<>> /\ rq'[c] = rec
    BY <2>1 DEF LifeTypeOK, NoRequest, NewContext
  <2> QED
    BY <1>2, <2>1, <2>2, NothingPushed, ZenonT(40)
<1>4. CASE HandleRequest(c)
  <2>1. Handle(c) /\ \E rec : rq' = [rq EXCEPT ![c] = rec]
    BY <1>4, HandleIsLocal, ZenonT(40) DEF HandleRequest
  <2>2. CASE Pass(c) \/ Fail(c) \/ Cancelled(c) \/ Process(c) \/ ProcessFails(c)
    BY <1>2, <2>1, <2>2, ChecksPushNothing, NothingPushed, ZenonT(40)
  <2>3. CASE PushEvents(c) \/ PushOutput(c)
    BY <1>2, <2>1, <2>3, PushesAreEarned, ZenonT(40)
  <2>4. CASE \/ AuditOK(c) \/ makeResponse(c) \/ makeErrorResponse(c) \/ Write(c)
             \/ handleRecoveredPanic(c) \/ PanicOutside(c)
    <3>1. Earned(rq[c]) /\ SamePushes(rq'[c], rq[c])
      BY <2>4, AnswersPushNothing, ZenonT(40) DEF PushedIsEarned
    <3> QED
      BY <1>2, <2>1, <3>1, EarnedKept, ZenonT(40)
  <2> QED
    BY <2>1, <2>2, <2>3, <2>4, ZenonT(40) DEF Handle
<1>5. CASE Accept(c) \/ Retry(c) \/ TurnAway(c) \/ CloseAgain(c) \/ SessionEnds(c)
  <2>1. rq' = rq
    BY <1>5, ZenonT(40) DEF Accept, Retry, TurnAway, CloseAgain, SessionEnds, Unchanged, restVars
  <2> QED
    BY <1>1, <2>1
<1> QED
  BY <1>3, <1>4, <1>5, ZenonT(40) DEF Connection

\* Whatever a request has pushed is due to a processor that succeeded.
THEOREM EventsEarned == ServerSpec => []PushedIsEarned
<1>1. ServerInit => PushedIsEarned
  <2>1. NoRequest.pushed = <<>>
    BY DEF NoRequest, NewContext
  <2> QED
    BY <2>1, NothingPushed, ZenonT(40) DEF ServerInit, RestInit, PushedIsEarned
<1>2. StopInv /\ RequestsInv /\ RequestsInv' /\ GuardsInv' /\ PushedIsEarned
        /\ [ServerNext]_serverVars => PushedIsEarned'
  <2> SUFFICES ASSUME StopInv, RequestsInv, RequestsInv', GuardsInv', PushedIsEarned,
                      [ServerNext]_serverVars
               PROVE  PushedIsEarned'
    BY ZenonT(40)
  <2>1. CASE \E c \in Conn : Connection(c)
    BY <2>1, ConnectionKeepsEarned, ZenonT(40) DEF StopInv
  <2>2. CASE ~(\E c \in Conn : Connection(c))
    <3>1. rq' = rq
      BY <2>2, RunMovesNoRequest, ZenonT(40) DEF ServerNext, serverVars, restVars
    <3> QED
      BY <3>1, ZenonT(40) DEF PushedIsEarned
  <2> QED
    BY <2>1, <2>2
<1> QED
  BY <1>1, <1>2, StopInvariant, RequestsInvariant, GuardsInvariant, PTL DEF ServerSpec
=============================================================================
