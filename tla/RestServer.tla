----------------------------- MODULE RestServer -----------------------------
(***************************************************************************)
(* What the REST server does with one request on each of its connections:  *)
(* the handler makeHandler builds (rest_server.go), the operation handlers *)
(* and runDispatcher (handlers.go) and the dispatchers (dispatchers.go).   *)
(* An operation is the list of the stages its code goes through, and a     *)
(* request is the list of the stages it still has to do.  A stage that     *)
(* checks passes or fails; a failed one leaves for the answer at once.  A  *)
(* panic inside runDispatcher is recovered, and one outside of it reaches  *)
(* net/http, which drops the connection.                                   *)
(***************************************************************************)
EXTENDS AuthChain

CONSTANTS Conn,                   \* connections to the server
          Retriever,              \* is an IdentifiableRetriever configured
          PanicRecoveryDisabled,  \* cfg.general.panicRecoveryDisabled
          ReadOnly                \* cfg.model.readOnly

VARIABLES rq,          \* the request each connection is working on
          registered   \* is a processor registered for the identity

restVars == <<rq, registered>>

Op == {"retrieveMany", "retrieve", "create", "update", "delete", "info", "patch"}
Writes == {"create", "update", "delete", "patch"}
-----------------------------------------------------------------------------
(* The stages.  *)
Guards == <<"authenticate", "authorize">>

dispatchRetrieveManyOperation ==
    Guards \o <<"find", "process", "pushEvents", "audit">>

dispatchRetrieveOperation ==
    Guards \o <<"find", "process", "pushEvents", "audit">>

\* Mutant: the event about the output goes first.
CreatePushesOutputFirst ==
    Guards \o <<"readOnly", "find", "decode", "validate", "process",
                "pushOutput", "pushEvents", "audit">>

dispatchCreateOperation ==
    Guards \o <<"readOnly", "find", "decode", "validate", "process",
                "pushEvents", "pushOutput", "audit">>

dispatchUpdateOperation ==
    Guards \o <<"readOnly", "find", "decode", "validate", "process",
                "pushEvents", "pushOutput", "audit">>

\* Mutant: one dispatcher forgets the read-only mode.
DeleteThoughLocked ==
    Guards \o <<"find", "process", "pushEvents", "pushOutput", "audit">>

dispatchDeleteOperation ==
    Guards \o <<"readOnly", "find", "process", "pushEvents", "pushOutput", "audit">>

dispatchPatchOperation ==
    Guards \o <<"readOnly", "find", "decode">>
           \o (IF Retriever THEN <<"retrieve", "patchable", "identity", "validate">> ELSE <<>>)
           \o <<"process", "pushEvents", "pushOutput", "audit">>

dispatchInfoOperation ==
    Guards \o <<"find", "process", "pushEvents", "audit">>

\* Every handler checks the relationships, then runs its dispatcher.
runDispatcher(dispatcher) == <<"allowed">> \o dispatcher \o <<"respond">>

handleRetrieveMany == runDispatcher(dispatchRetrieveManyOperation)
handleRetrieve     == runDispatcher(dispatchRetrieveOperation)
handleCreate       == runDispatcher(dispatchCreateOperation)
handleUpdate       == runDispatcher(dispatchUpdateOperation)
handleDelete       == runDispatcher(dispatchDeleteOperation)
handleInfo         == runDispatcher(dispatchInfoOperation)
handlePatch        == runDispatcher(dispatchPatchOperation)

\* The handler a method and a path are routed to.
installRoutes(op) ==
    CASE op = "retrieveMany" -> handleRetrieveMany
      [] op = "retrieve"     -> handleRetrieve
      [] op = "create"       -> handleCreate
      [] op = "update"       -> handleUpdate
      [] op = "delete"       -> handleDelete
      [] op = "info"         -> handleInfo
      [] op = "patch"        -> handlePatch

makeHandler(handler) ==
    <<"version", "manager", "request", "globalLimit", "apiLimit">> \o handler \o <<"write">>

\* Stages whose failure is answered outside of runDispatcher, and not audited.
Outside == {"version", "manager", "request", "globalLimit", "apiLimit", "allowed"}
Unaudited == Outside \cup {"readOnly"}
\* Stages that return the error of a function the application provides.
Foreign == {"authenticate", "authorize", "retrieve", "validate"}
Checks == Outside \cup {"authenticate", "authorize", "readOnly", "find", "decode",
                        "retrieve", "patchable", "identity", "validate"}
Inside == (Checks \ Outside) \cup
          {"process", "pushEvents", "pushOutput", "audit", "respond", "errorResponse"}
-----------------------------------------------------------------------------
\* The context of a request: what it is, what it still has to do, and what became
\* of it; granted is history, the checks that were right to let it pass.
NewContext(op, excluded) ==
    [writes |-> op \in Writes, excluded |-> excluded,
     todo |-> makeHandler(installRoutes(op)), granted |-> {}, failed |-> "none",
     panicked |-> FALSE, result |-> "none", events |-> FALSE, output |-> "none",
     pushed |-> <<>>, audits |-> <<>>, resp |-> "none", sent |-> "no"]

NoRequest == [NewContext("info", FALSE) EXCEPT !.todo = <<>>]

Busy(c) == rq[c].todo # <<>>
Stage(c) == Head(rq[c].todo)
At(c, stages) == Busy(c) /\ Stage(c) \in stages

Next1(c) == [rq[c] EXCEPT !.todo = Tail(@)]

Set(c, rec) == rq' = [rq EXCEPT ![c] = rec] /\ UNCHANGED registered

\* The chains the two guards may see: one mtls and one simple verifier.
Chains(stage) ==
    {<<>>} \cup
    IF stage = "authenticate"
    THEN {<<mtlsAuthenticateRequest(s, h), simpleAuthenticateRequest(f)>> :
             s \in TLSState, h \in Header, f \in Verdict \cup {"nil"}}
    ELSE {<<mtlsIsAuthorized(i, s, h), simpleIsAuthorized(f)>> :
             i \in BOOLEAN, s \in TLSState, h \in Header, f \in Verdict \cup {"nil"}}

\* No error if the mode is off, or on and the identity is among its exclusions.
makeReadOnlyError(excluded) == ~ ReadOnly \/ excluded

\* The outcomes of a check: whether it passes, and whether it should.
Outcomes(c) ==
    CASE Stage(c) = "authenticate" ->
           {[pass |-> CheckAuthentication(ch), due |-> Grants(ch)] : ch \in Chains("authenticate")}
      [] Stage(c) = "authorize" ->
           {[pass |-> CheckAuthorization(ch), due |-> Grants(ch)] : ch \in Chains("authorize")}
      [] Stage(c) = "readOnly" ->
           {[pass |-> makeReadOnlyError(rq[c].excluded), due |-> TRUE]}
      [] Stage(c) = "find" ->
           {[pass |-> registered /\ implemented, due |-> TRUE] : implemented \in BOOLEAN}
      [] OTHER -> [pass : BOOLEAN, due : {TRUE}]

\* A check passes.
Pass(c) ==
    /\ At(c, Checks)
    /\ \E o \in Outcomes(c) :
          /\ o.pass
          /\ Set(c, [Next1(c) EXCEPT !.granted = IF o.due THEN @ \cup {Stage(c)} ELSE @])

audit(rec, err) == [rec EXCEPT !.audits = Append(@, err)]

\* Mutant: an error path without its audit.
FailingSilently(c) == [rq[c] EXCEPT !.failed = Stage(c)]

\* The error path of a stage: audited, except for the stages above.
Failing(c) ==
    LET rec == [rq[c] EXCEPT !.failed = Stage(c)]
    IN  IF Stage(c) \in Unaudited THEN rec ELSE audit(rec, "error")

Fail(c) ==
    /\ At(c, Checks)
    /\ \E o \in Outcomes(c) : ~ o.pass
    /\ Set(c, [Failing(c) EXCEPT
                 !.todo = IF Stage(c) \in Outside THEN <<"refuse", "write">>
                                                  ELSE <<"errorResponse", "write">>])

\* The function returned the error of a cancelled or expired context:
\* makeErrorResponse makes no response.
Cancelled(c) ==
    /\ At(c, Foreign)
    /\ Set(c, [Failing(c) EXCEPT !.todo = <<"write">>, !.resp = "nil"])

\* The processor succeeds, leaving events and output in the context.
Process(c) ==
    /\ At(c, {"process"})
    /\ \E ev \in BOOLEAN, out \in {"none", "object", "silent", "writer"} :
          Set(c, [Next1(c) EXCEPT !.result = "ok", !.events = ev, !.output = out])

\* Mutant: events go out even when the processor failed.
ProcessFailsLate(c) ==
    /\ At(c, {"process"})
    /\ Set(c, [Failing(c) EXCEPT !.todo = <<"pushEvents", "errorResponse", "write">>,
                                 !.result = "failed", !.events = TRUE])

\* The processor fails, with its own error or with that of its context; it
\* may have set a response writer before.
ProcessFails(c) ==
    /\ At(c, {"process"})
    /\ \E out \in {"none", "writer"}, own \in BOOLEAN :
          Set(c, [Failing(c) EXCEPT
                    !.todo = IF own THEN <<"errorResponse", "write">> ELSE <<"write">>,
                    !.resp = IF own THEN @ ELSE "nil",
                    !.result = "failed", !.output = out])

PushEvents(c) ==
    /\ At(c, {"pushEvents"})
    /\ Set(c, [Next1(c) EXCEPT !.pushed = IF rq[c].events THEN Append(@, "events") ELSE @])

PushOutput(c) ==
    /\ At(c, {"pushOutput"})
    /\ Set(c, [Next1(c) EXCEPT !.pushed = IF rq[c].output = "object"
                                          THEN Append(@, "object") ELSE @])

AuditOK(c) == At(c, {"audit"}) /\ Set(c, audit(Next1(c), "ok"))

makeResponse(c) == At(c, {"respond"}) /\ Set(c, [Next1(c) EXCEPT !.resp = "data"])

makeErrorResponse(c) ==
    /\ At(c, {"refuse", "errorResponse", "recovered"})
    /\ Set(c, [Next1(c) EXCEPT !.resp = "error"])

\* The answer: the response writer of the context wins over the response.
Write(c) ==
    /\ At(c, {"write"})
    /\ Set(c, [Next1(c) EXCEPT !.sent = IF rq[c].output = "writer" THEN "custom" ELSE "resp"])

Drop(c) == Set(c, [rq[c] EXCEPT !.todo = <<>>, !.panicked = TRUE, !.sent = "dropped"])

\* A panic in the dispatcher or in the encoding of its answer.
handleRecoveredPanic(c) ==
    /\ At(c, Inside)
    /\ IF PanicRecoveryDisabled
       THEN Drop(c)
       ELSE Set(c, [rq[c] EXCEPT !.todo = <<"recovered", "write">>, !.panicked = TRUE])

\* A panic nothing recovers before net/http.
PanicOutside(c) ==
    /\ \/ At(c, {"refuse", "recovered"})
       \/ At(c, {"write"}) /\ rq[c].output = "writer"
    /\ Drop(c)

\* The request moves on; nothing here waits for another one.
Handle(c) ==
    \/ Pass(c)
    \/ Fail(c)
    \/ Cancelled(c)
    \/ Process(c)
    \/ ProcessFails(c)
    \/ PushEvents(c)
    \/ PushOutput(c)
    \/ AuditOK(c)
    \/ makeResponse(c)
    \/ makeErrorResponse(c)
    \/ Write(c)
    \/ handleRecoveredPanic(c)
    \/ PanicOutside(c)

\* The application may register and unregister processors at any time.
RegisterProcessor == ~ registered /\ registered' = TRUE /\ UNCHANGED rq
UnregisterProcessor == registered /\ registered' = FALSE /\ UNCHANGED rq

RestInit == rq = [c \in Conn |-> NoRequest] /\ registered = FALSE
-----------------------------------------------------------------------------
Served(c) == ~ Busy(c) /\ rq[c].sent # "no"

\* What a successful request pushes: the events its processor enqueued, then,
\* for an operation that writes, the event about its output.
Due(rec) ==
    (IF rec.events THEN <<"events">> ELSE <<>>) \o
    (IF rec.output = "object" /\ rec.writes THEN <<"object">> ELSE <<>>)

\* The authenticators and the authorizers were asked and had to let the request
\* pass, and if it writes while the API is read-only, its identity is excluded.
Vetted(rec) ==
    /\ {"authenticate", "authorize"} \subseteq rec.granted
    /\ ReadOnly /\ rec.writes => rec.excluded

\* Whatever the operation, its processor is called for a vetted request only: no
\* dispatcher leaves one of the guards out, or calls its processor before it.
ProcessedIsGranted == \A c \in Conn : rq[c].result # "none" => Vetted(rq[c])

\* A client that reads a success reads it after the processor succeeded, after
\* all of its events were pushed, the enqueued ones first, and after the audit:
\* the dispatchers call Audit themselves, where the documentation of the option
\* gives it a goroutine.
SuccessIsComplete ==
    \A c \in Conn :
        Served(c) /\ rq[c].resp = "data" =>
            /\ rq[c].result = "ok"
            /\ rq[c].pushed = Due(rq[c])
            /\ rq[c].audits = <<"ok">>

\* A client that reads an error, with no panic involved, caused no event.
ErrorsPushNothing ==
    \A c \in Conn :
        Served(c) /\ rq[c].resp \in {"error", "nil"} /\ ~ rq[c].panicked =>
            rq[c].pushed = <<>>

\* A request is audited once, with its outcome: never twice, and not at all
\* only if it was refused before its dispatcher or by the read-only mode, or
\* if it panicked before its audit.
AuditedOnce ==
    \A c \in Conn :
        LET rec == rq[c] IN
        Served(c) =>
            CASE rec.failed \in Unaudited -> rec.audits = <<>>
              [] rec.failed \notin Unaudited \cup {"none"} -> rec.audits = <<"error">>
              [] rec.failed = "none" -> \/ rec.audits = <<"ok">>
                                        \/ rec.audits = <<>> /\ rec.panicked
=============================================================================
