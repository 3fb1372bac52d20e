------------------------------- MODULE Server -------------------------------
(***************************************************************************)
(* The life of a bahamut server: Run (bahamut.go) starts the profiling,    *)
(* REST and health servers in goroutines of their own, waits for its       *)
(* context, then stops them one after the other; the REST server accepts   *)
(* connections through the limiting listener of netlimiter.go and works on *)
(* their requests meanwhile.  The push server, which Run stops between the *)
(* health and the REST server, is modelled in PushServer; here a push      *)
(* session is a connection taken over from net/http.                       *)
(***************************************************************************)
EXTENDS RestServer, Integers, FiniteSets

CONSTANTS MaxConnection,  \* cfg.restServer.maxConnection
          Secure,         \* are there server certificates: start calls ServeTLS
          Plain,          \* connections of clients that do not speak TLS
          MaxTwice        \* bound on twice

ASSUME ServerAssumption ==
    /\ IsFiniteSet(Conn)
    /\ MaxConnection \in Nat /\ MaxTwice \in Nat /\ Secure \in BOOLEAN /\ Plain \subseteq Conn
    /\ Retriever \in BOOLEAN /\ PanicRecoveryDisabled \in BOOLEAN /\ ReadOnly \in BOOLEAN

VARIABLES run,        \* where Run stands
          cancelled,  \* the context given to Run is done
          srv,        \* the http.Server of each server
          conn,       \* what became of each connection
          nConn,      \* limitListener.nConn
          tcp,        \* the gauge of tcp connections
          late,       \* which shutdowns gave up waiting
          twice       \* history: connections net/http alone closed twice

lifeVars == <<run, cancelled, srv, conn, nConn, tcp, late, twice>>
serverVars == <<restVars, lifeVars>>

Http == {"profiling", "rest", "health"}
Running == run \notin {"new", "exited", "crashed"}
-----------------------------------------------------------------------------
(* Run starts the servers.  http.Server is built with the health server,   *)
(* and by the goroutine for the two others.                                *)
Unchanged(vs) == UNCHANGED <<restVars, vs>>

ServerInit ==
    /\ RestInit
    /\ run = "new" /\ cancelled = FALSE
    /\ srv = [h \in Http |-> IF h = "health" THEN "built" ELSE "nil"]
    /\ conn = [c \in Conn |-> "none"]
    /\ nConn = 0 /\ tcp = 0 /\ late = {} /\ twice = 0

Run == run = "new" /\ run' = "hook" /\ Unchanged(<<cancelled, srv, conn, nConn, tcp, late, twice>>)

\* start of the REST and of the profiling server builds its http.Server.
Build(h) ==
    /\ Running /\ srv[h] = "nil"
    /\ srv' = [srv EXCEPT ![h] = "built"]
    /\ Unchanged(<<run, cancelled, conn, nConn, tcp, late, twice>>)

\* Mutant: Serve does not notice that the server was shut down.
ListenAnyway(h) ==
    /\ Running /\ srv[h] \in {"built", "closed"}
    /\ srv' = [srv EXCEPT ![h] = "listening"]
    /\ Unchanged(<<run, cancelled, conn, nConn, tcp, late, twice>>)

\* Serve: a server that was shut down before returns ErrServerClosed.
Listen(h) ==
    /\ Running /\ srv[h] = "built"
    /\ srv' = [srv EXCEPT ![h] = "listening"]
    /\ Unchanged(<<run, cancelled, conn, nConn, tcp, late, twice>>)

\* Any other error of a server that starts is fatal.
ListenFails(h) ==
    /\ Running /\ srv[h] = "built" /\ run' = "exited"
    /\ Unchanged(<<cancelled, srv, conn, nConn, tcp, late, twice>>)

\* The postStart hook; its failure is fatal.
PostStart ==
    /\ run = "hook" /\ run' \in {"waiting", "exited"}
    /\ Unchanged(<<cancelled, srv, conn, nConn, tcp, late, twice>>)

\* The signal handler, or the caller of Run, cancels the context.
Cancel ==
    /\ ~ cancelled /\ cancelled' = TRUE
    /\ Unchanged(<<run, srv, conn, nConn, tcp, late, twice>>)
-----------------------------------------------------------------------------
(* Run stops them.  The goroutine in which a stop calls Shutdown runs      *)
(* within the time that stop allows for it.                                *)
Step(from, to) ==
    /\ run = from /\ run' = to

\* ctx.Done, then the preStop hook, whose failure is only logged.
PreStop ==
    /\ cancelled /\ Step("waiting", "stopHealth")
    /\ Unchanged(<<cancelled, srv, conn, nConn, tcp, late, twice>>)

Shutdown(h) == srv' = [srv EXCEPT ![h] = "closed"]

StopHealth ==
    /\ Step("stopHealth", "health") /\ Shutdown("health")
    /\ Unchanged(<<cancelled, conn, nConn, tcp, late, twice>>)

\* Shutdown of the health server returns, or its second has passed; then the
\* push server is stopped.
HealthStopped ==
    /\ Step("health", "stopRest")
    /\ late' \in {late, late \cup {"health"}}
    /\ Unchanged(<<cancelled, srv, conn, nConn, tcp, twice>>)

\* Shutdown of a nil http.Server is a nil dereference in its goroutine.
StopRest ==
    /\ IF srv["rest"] = "nil"
       THEN Step("stopRest", "crashed") /\ UNCHANGED srv
       ELSE Step("stopRest", "rest") /\ Shutdown("rest")
    /\ Unchanged(<<cancelled, conn, nConn, tcp, late, twice>>)

\* Mutant: Run does not wait for the context stop returns.
RestNotWaited ==
    /\ Step("rest", "stopProfiling")
    /\ Unchanged(<<cancelled, srv, conn, nConn, tcp, late, twice>>)

\* http.Server.Shutdown closes idle connections and waits for the others.
RestDrained ==
    /\ \A c \in Conn : conn[c] \notin {"open", "turned"}
    /\ Step("rest", "stopProfiling")
    /\ Unchanged(<<cancelled, srv, conn, nConn, tcp, late, twice>>)

\* Mutant: Run waits for the requests as long as they take.
RestNoTimeout == run = "rest" /\ UNCHANGED serverVars

RestTimeout ==
    /\ Step("rest", "stopProfiling")
    /\ late' = late \cup {"rest"}
    /\ Unchanged(<<cancelled, srv, conn, nConn, tcp, twice>>)

\* The profiling server is not waited for, and not stopped if not built yet.
StopProfiling ==
    /\ Step("stopProfiling", "returned")
    /\ IF srv["profiling"] = "nil" THEN UNCHANGED srv ELSE Shutdown("profiling")
    /\ Unchanged(<<cancelled, conn, nConn, tcp, late, twice>>)

Stop == \/ PreStop \/ StopHealth \/ HealthStopped \/ StopRest
        \/ RestDrained \/ RestTimeout \/ StopProfiling
-----------------------------------------------------------------------------
(* Connections.  *)
\* Those that a goroutine of net/http serves.
Attended == {"open", "turned", "kicked"}

\* Mutant: a hijacked connection stays in the gauge.
ConnStateNotHijacked(from, to) ==
    tcp' = tcp + (IF to = "open" THEN 1 ELSE 0)
               - (IF from \in Attended /\ to # "hijacked" THEN 1 ELSE 0)

ConnState(from, to) ==
    tcp' = tcp + (IF to = "open" THEN 1 ELSE 0) - (IF from \in Attended THEN 1 ELSE 0)

Become(c, to) == conn' = [conn EXCEPT ![c] = to]

\* Mutant: the limit is compared before the connection counts.
AcceptOneMore(c) ==
    /\ Running /\ srv["rest"] = "listening" /\ conn[c] = "none"
    /\ IF nConn > MaxConnection
       THEN UNCHANGED <<conn, nConn, tcp>>
       ELSE Become(c, "open") /\ ConnState("none", "open") /\ nConn' = nConn + 1
    /\ Unchanged(<<run, cancelled, srv, late, twice>>)

\* limitListener.Accept: over the limit, the connection is closed at once.
Accept(c) ==
    /\ Running /\ srv["rest"] = "listening" /\ conn[c] = "none"
    /\ LET current == IF MaxConnection > 0 THEN nConn + 1 ELSE 0 IN
       IF current > MaxConnection
       THEN Become(c, "refused") /\ UNCHANGED <<nConn, tcp>>
       ELSE Become(c, "open") /\ ConnState("none", "open")
            /\ nConn' = IF MaxConnection > 0 THEN current ELSE nConn
    /\ Unchanged(<<run, cancelled, srv, late, twice>>)

\* A refused client may try again.
Retry(c) ==
    /\ conn[c] = "refused" /\ Become(c, "none")
    /\ Unchanged(<<run, cancelled, srv, nConn, tcp, late, twice>>)

\* net/http reads a request from an idle connection: not one in plain HTTP if the
\* server is secure, and once it shuts down, only the first of the connection.
Reads(c) ==
    /\ Running /\ conn[c] = "open" /\ ~ Busy(c) /\ rq[c].sent # "dropped"
    /\ Secure => c \notin Plain
    /\ srv["rest"] = "closed" => rq[c].sent = "no"

\* The exclusions from the read-only mode only matter to operations that write.
Receive(c) ==
    /\ Reads(c)
    /\ \E op \in Op, excluded \in BOOLEAN :
          /\ excluded => op \in Writes
          /\ rq' = [rq EXCEPT ![c] = NewContext(op, excluded)]
    /\ UNCHANGED <<registered, lifeVars>>

HandleRequest(c) == Running /\ Handle(c) /\ UNCHANGED lifeVars

\* limitListenerConn.Close releases the slot, whoever calls it.
Close(c, from) ==
    Become(c, "none") /\ ConnState(from, "none") /\ nConn' = nConn - 1

\* An idle connection ends: the client leaves, or its request was dropped.
Disconnect(c) ==
    /\ Running /\ conn[c] = "open" /\ ~ Busy(c)
    /\ Close(c, "open")
    /\ rq' = [rq EXCEPT ![c] = NoRequest]
    /\ UNCHANGED <<registered, run, cancelled, srv, late, twice>>

\* A request in plain HTTP to a secure server: net/http answers on the connection
\* below the TLS one and closes it there.
TurnAway(c) ==
    /\ Running /\ Secure /\ c \in Plain /\ conn[c] = "open" /\ ~ Busy(c)
    /\ twice < MaxTwice
    /\ Become(c, "turned") /\ nConn' = nConn - 1
    /\ Unchanged(<<run, cancelled, srv, tcp, late, twice>>)

\* Shutdown closes an idle connection, beside the goroutine that serves it.
CloseIdle(c) ==
    /\ srv["rest"] = "closed" /\ conn[c] = "open" /\ ~ Busy(c)
    /\ Become(c, "kicked") /\ nConn' = nConn - 1
    /\ rq' = [rq EXCEPT ![c] = NoRequest]
    /\ UNCHANGED <<registered, run, cancelled, srv, tcp, late, twice>>

\* The goroutine of a closed connection closes it as well, and calls ConnState.
\* A TLS connection that was closed does not close the one below again; that one
\* was all that TurnAway closed.
CloseAgain(c) ==
    /\ conn[c] \in {"kicked", "turned"}
    /\ IF conn[c] = "kicked" /\ Secure
       THEN Become(c, "none") /\ ConnState("kicked", "none") /\ UNCHANGED nConn
       ELSE Close(c, conn[c])
    /\ twice' = twice + (IF conn[c] = "turned" THEN 1 ELSE 0)
    /\ Unchanged(<<run, cancelled, srv, late>>)

\* A request on the push endpoint becomes a session if its authenticators let
\* it in; net/http forgets the connection, the listener does not.
Hijack(c) ==
    /\ Reads(c)
    /\ \E s \in TLSState, f \in Verdict :
          authSession(<<mtlsAuthenticateSession(s), simpleAuthenticateSession(f)>>)
    /\ Become(c, "hijacked") /\ ConnState("open", "hijacked")
    /\ rq' = [rq EXCEPT ![c] = NoRequest]
    /\ UNCHANGED <<registered, run, cancelled, srv, nConn, late, twice>>

SessionEnds(c) ==
    /\ Running /\ conn[c] = "hijacked" /\ Close(c, "hijacked")
    /\ Unchanged(<<run, cancelled, srv, late, twice>>)
-----------------------------------------------------------------------------
Application ==
    /\ run \notin {"exited", "crashed"}
    /\ RegisterProcessor \/ UnregisterProcessor
    /\ UNCHANGED lifeVars

Connection(c) ==
    \/ Accept(c)
    \/ Retry(c)
    \/ Receive(c)
    \/ HandleRequest(c)
    \/ Disconnect(c)
    \/ TurnAway(c)
    \/ CloseIdle(c)
    \/ CloseAgain(c)
    \/ Hijack(c)
    \/ SessionEnds(c)

\* Run has returned, or the process has gone.
Over == run \in {"returned", "exited", "crashed"} /\ UNCHANGED serverVars

ServerNext ==
    \/ Run
    \/ \E h \in Http : Build(h) \/ Listen(h) \/ ListenFails(h)
    \/ PostStart
    \/ Cancel
    \/ Stop
    \/ Application
    \/ \E c \in Conn : Connection(c)
    \/ Over

ServerSpec == ServerInit /\ [][ServerNext]_serverVars

\* The goroutine of Run is scheduled, and hooks and shutdowns return.
FairServerSpec ==
    ServerSpec /\ WF_serverVars(Run \/ PostStart) /\ WF_serverVars(Stop)
-----------------------------------------------------------------------------
ServerTypeOK ==
    /\ run \in {"new", "hook", "waiting", "stopHealth", "health", "stopRest", "rest",
                "stopProfiling", "returned", "exited", "crashed"}
    /\ cancelled \in BOOLEAN
    /\ srv \in [Http -> {"nil", "built", "listening", "closed"}]
    /\ conn \in [Conn -> {"none", "open", "refused", "hijacked", "turned", "kicked"}]
    /\ nConn \in Int /\ tcp \in Nat
    /\ late \subseteq {"health", "rest"}
    /\ twice \in Nat

Live == {c \in Conn : conn[c] \in {"open", "hijacked"}}

\* The connections that are open at once, push sessions included, are at most
\* maxConnection, and one more for every connection that was closed twice while
\* the server serves; as long as the listener accepts, its counter is too low by
\* exactly those.  What Shutdown closes twice lets nobody in.  (The comment of
\* newListener promises "at most n simultaneous connections": so it is without
\* TLS, where no connection counts in twice.)
ConnectionsBounded ==
    /\ MaxConnection > 0 =>
          /\ Cardinality(Live) <= MaxConnection + twice
          /\ srv["rest"] # "closed" => nConn = Cardinality(Live) - twice
    /\ ~ Secure => twice = 0

\* The gauge of tcp connections counts the connections that a goroutine of
\* net/http serves, however they end: push sessions and those that Shutdown
\* closes under it included.
TCPGauge == tcp = Cardinality({c \in Conn : conn[c] \in Attended})

\* When Run has returned, no request is being worked on, unless the sixty
\* seconds the REST server waits for its requests have passed.
ReturnMeansDrained ==
    run = "returned" /\ "rest" \notin late => \A c \in Conn : ~ Busy(c)

\* From the moment the REST server refuses connections, the health server does
\* not answer any more, however late its goroutine comes to listen.
UnhealthyFirst == srv["rest"] = "closed" => srv["health"] = "closed"

\* Once its context is cancelled Run returns, or the process has gone.
RunReturns == [](cancelled => <>(run \in {"returned", "exited", "crashed"}))

\* "Stop the restserver and wait for current requests to complete": stopping
\* does not crash the process.
StopNeverCrashes == run # "crashed"
=============================================================================
