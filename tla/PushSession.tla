----------------------------- MODULE PushSession -----------------------------
(***************************************************************************)
(* A websocket push session (websocket_push_session.go): its error flag,   *)
(* its push configuration, the bounded channel dataCh and the listen loop  *)
(* that writes to the client and reads its messages.                       *)
(*                                                                         *)
(* Every session is a record of the Go program; here each field is a       *)
(* function on Session.  The goroutine of handleRequest owns hpc[s]; this  *)
(* module has the part of it that runs inside listen, PushServer the rest. *)
(* dataCh is also written by dispatchers and by DirectPush.                *)
(*                                                                         *)
(* Abstractions.  A push configuration is the set of identities it lets    *)
(* through.  Time is "e was created before s": early[s] is the set of      *)
(* events whose Timestamp is before s.startTime, with a single clock.      *)
(* The websocket library is external: Write takes the data and returns,    *)
(* Close and a disconnecting client both make Done ready for ever.         *)
(***************************************************************************)
EXTENDS Naturals, Sequences, FiniteSets

CONSTANTS
    Session,       \* the websocket requests, each of which may become a session
    Event,         \* the events pushed
    Identity,      \* what events and filters are about
    IdentityOf,    \* [Event -> Identity]: event.Identity
    Configs,       \* the configurations clients send
    EnablingConfigs, \* those whose parameters include enableErrors
    NoConfig,      \* the nil *elemental.PushConfig
    ErrorEvent,    \* the event sendWSError queues
    EnableErrors,  \* sessions whose URL carries the enableErrors parameter
    BadEncoding,   \* requests whose headers EncodingFromHeaders refuses
    DataChCap,     \* capacity of dataCh (64 in the code)
    MaxMessages    \* [Session -> Nat], bound: messages a client sends

ASSUME SessionAssumption ==
    /\ IdentityOf \in [Event -> Identity]
    /\ Configs \subseteq SUBSET Identity
    /\ EnablingConfigs \subseteq Configs
    /\ NoConfig \notin Configs
    /\ ErrorEvent \notin Event
    /\ EnableErrors \subseteq Session
    /\ BadEncoding \subseteq Session
    /\ DataChCap \in Nat \ {0}
    /\ MaxMessages \in [Session -> Nat]

VARIABLES
    ctxDone,       \* the context every session context derives from is cancelled
    hpc,           \* [Session -> HandlerPc]: where the request goroutine is
    connDone,      \* sessions whose conn.Done() is ready
    errorState,    \* sessions whose errorStateActive is set
    pushConfig,    \* [Session -> Config]
    pending,       \* [Session -> Config]: decoded by listen, not set yet
    errorsParam,   \* sessions whose parameters hold enableErrors
    early,         \* [Session -> SUBSET Event]
    dataCh,        \* [Session -> Seq(Event \cup {ErrorEvent})]
    received       \* [Session -> Nat]: messages read from the client

sessionVars ==
    <<hpc, connDone, errorState, pushConfig, pending, errorsParam, early,
      dataCh, received>>

Config == Configs \cup {NoConfig}

\* handleRequest, in order: not started; session created; upgraded, once it
\* was authenticated and initialised; registerSession (counted, then in the
\* map); listen with its two windows; unregisterSession (callback and cancel
\* done, deleted from the map); returned.  A request may be refused, or panic.
HandlerPc ==
    {"idle", "created", "upgraded", "counted", "registered", "listening",
     "applying", "erroring", "leaving", "cancelled", "deleted", "gone",
     "refused", "panicked"}

SessionTypeOK ==
    /\ ctxDone \in BOOLEAN
    /\ hpc \in [Session -> HandlerPc]
    /\ connDone \in SUBSET Session
    /\ errorState \in SUBSET Session
    /\ pushConfig \in [Session -> Config]
    /\ pending \in [Session -> Config]
    /\ errorsParam \in SUBSET Session
    /\ early \in [Session -> SUBSET Event]
    /\ dataCh \in [Session -> Seq(Event \cup {ErrorEvent})]
    /\ received \in [Session -> Nat]

SessionInit ==
    /\ ctxDone = FALSE
    /\ hpc = [s \in Session |-> "idle"]
    /\ connDone = {}
    /\ errorState = {}
    /\ pushConfig = [s \in Session |-> NoConfig]
    /\ pending = [s \in Session |-> NoConfig]
    /\ errorsParam = EnableErrors
    /\ early = [s \in Session |-> {}]
    /\ dataCh = [s \in Session |-> <<>>]
    /\ received = [s \in Session |-> 0]

-----------------------------------------------------------------------------
(* Helpers *)

Goto(s, pc) == hpc' = [hpc EXCEPT ![s] = pc]

\* f == nil || !f.IsFilteredOut(i, event.Type) for one of the identities
LetsThrough(config, identities) ==
    config # NoConfig => identities \cap config # {}

\* The channel after send(data): the value is dropped when dataCh is full.
Sent(ch, data) == IF Len(ch) < DataChCap THEN Append(ch, data) ELSE ch

\* The switch on encodingWrite in front of the send of dispatchers and of
\* sendWSError: a session created from headers that do not parse has no encoding
\* and is sent nothing.
Send(s, data) ==
    dataCh' = [dataCh EXCEPT ![s] = IF s \in BadEncoding THEN @ ELSE Sent(@, data)]

-----------------------------------------------------------------------------
(* listen, one action per branch of its select *)

\* case data := <-s.dataCh
ListenWrite(s) ==
    /\ hpc[s] = "listening"
    /\ dataCh[s] # <<>>
    /\ dataCh' = [dataCh EXCEPT ![s] = Tail(@)]
    /\ UNCHANGED <<ctxDone, hpc, connDone, errorState, pushConfig, pending,
                   errorsParam, early, received>>

Reads(s) ==
    /\ hpc[s] = "listening"
    /\ received[s] < MaxMessages[s]
    /\ received' = [received EXCEPT ![s] = @ + 1]

\* case data := <-s.conn.Read(), the message does not decode or its filters do
\* not parse.  Either the client handles error events and sendWSError begins
\* with setErrorState(true), or the connection is closed and listen returns.
ListenReadInvalid(s) ==
    /\ Reads(s)
    /\ IF s \in errorsParam
         THEN /\ errorState' = errorState \cup {s}
              /\ Goto(s, "erroring")
              /\ UNCHANGED connDone
         ELSE /\ connDone' = connDone \cup {s}
              /\ Goto(s, "leaving")
              /\ UNCHANGED errorState
    /\ UNCHANGED <<ctxDone, pushConfig, pending, errorsParam, early, dataCh>>

\* The rest of sendWSError: the error event is queued, or it cannot be
\* prepared and the socket is closed.  listen continues in both cases.
SendWSError(s) ==
    /\ hpc[s] = "erroring"
    /\ Goto(s, "listening")
    /\ \/ Send(s, ErrorEvent) /\ UNCHANGED connDone
       \/ connDone' = connDone \cup {s} /\ UNCHANGED dataCh
    /\ UNCHANGED <<ctxDone, errorState, pushConfig, pending, errorsParam,
                   early, received>>

\* case data := <-s.conn.Read(), a valid configuration: setErrorState(false)
ListenReadValid(s) ==
    /\ Reads(s)
    /\ \E c \in Configs : pending' = [pending EXCEPT ![s] = c]
    /\ errorState' = errorState \ {s}
    /\ Goto(s, "applying")
    /\ UNCHANGED <<ctxDone, connDone, pushConfig, errorsParam, early, dataCh>>

\* ... then setCurrentPushConfig, which also merges the parameters of the
\* configuration into those of the session (they may add enableErrors).
SetCurrentPushConfig(s) ==
    /\ hpc[s] = "applying"
    /\ pushConfig' = [pushConfig EXCEPT ![s] = pending[s]]
    /\ pending' = [pending EXCEPT ![s] = NoConfig]
    /\ errorsParam' = errorsParam \cup {t \in {s} : pending[t] \in EnablingConfigs}
    /\ Goto(s, "listening")
    /\ UNCHANGED <<ctxDone, connDone, errorState, early, dataCh, received>>

\* case <-s.conn.Done()
ListenConnDone(s) ==
    /\ hpc[s] = "listening"
    /\ s \in connDone
    /\ Goto(s, "leaving")
    /\ UNCHANGED <<ctxDone, connDone, errorState, pushConfig, pending,
                   errorsParam, early, dataCh, received>>

\* Mutant: listen only notices the end of the context once the client is gone.
ListenCtxDoneLate(s) ==
    /\ hpc[s] = "listening"
    /\ ctxDone
    /\ s \in connDone
    /\ Goto(s, "leaving")
    /\ UNCHANGED <<ctxDone, connDone, errorState, pushConfig, pending, errorsParam,
                   early, dataCh, received>>

\* case <-s.ctx.Done(): close(websocket.CloseGoingAway)
ListenCtxDone(s) ==
    /\ hpc[s] = "listening"
    /\ ctxDone
    /\ connDone' = connDone \cup {s}
    /\ Goto(s, "leaving")
    /\ UNCHANGED <<ctxDone, errorState, pushConfig, pending, errorsParam,
                   early, dataCh, received>>

Listen(s) ==
    \/ ListenWrite(s)
    \/ ListenReadInvalid(s)
    \/ SendWSError(s)
    \/ ListenReadValid(s)
    \/ SetCurrentPushConfig(s)
    \/ ListenConnDone(s)
    \/ ListenCtxDone(s)

-----------------------------------------------------------------------------
(* What others do to a session *)

\* The session has a websocket: setConn was called.
Connected(s) ==
    hpc[s] \in {"upgraded", "counted", "registered", "listening", "applying",
                "erroring", "leaving", "cancelled", "deleted"}

\* The client goes away, or the network drops it.
Disconnect(s) ==
    /\ Connected(s)
    /\ s \notin connDone
    /\ connDone' = connDone \cup {s}
    /\ UNCHANGED <<ctxDone, hpc, errorState, pushConfig, pending, errorsParam,
                   early, dataCh, received>>

\* Mutant: DirectPush does not compare the timestamps.
DirectPushOfOldEvents(s, e) ==
    /\ hpc[s] \notin {"idle", "panicked"}
    /\ LetsThrough(pushConfig[s], {IdentityOf[e]})
    /\ dataCh' = [dataCh EXCEPT ![s] = Sent(@, e)]
    /\ UNCHANGED <<ctxDone, hpc, connDone, errorState, pushConfig, pending,
                   errorsParam, early, received>>

\* DirectPush(event), by application code that got the session in a callback:
\* authenticators and OnPushSessionInit see it before it has a connection.
\* It looks at the timestamp and the filter, not at the error state; an event
\* that cannot be converted or encoded is skipped, which is no step at all.
DirectPush(s, e) ==
    /\ hpc[s] \notin {"idle", "panicked"}
    /\ e \notin early[s]
    /\ LetsThrough(pushConfig[s], {IdentityOf[e]})
    /\ dataCh' = [dataCh EXCEPT ![s] = Sent(@, e)]
    /\ UNCHANGED <<ctxDone, hpc, connDone, errorState, pushConfig, pending,
                   errorsParam, early, received>>
=============================================================================
