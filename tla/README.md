# A TLA+ model of bahamut

Bahamut is a Go library for API servers: a REST server that dispatches
operations to processors, a push server that sends events to websocket clients,
publish/subscribe clients that connect the instances of a service, and a gateway
that finds and balances those services.  These modules model it from the source,
TLC checks them on small instances, and TLAPS proves their safety properties
for every instance.

## The system

| Part | State | Operations | What makes it hard |
|---|---|---|---|
| push server (`websocket_server.go`) | map of sessions, channel of publications, context | `handleRequest`, `registerSession`, `unregisterSession`, `start`, `stop`, `pushEvents` | one goroutine per request and one per event, on a map that changes; shutdown against admission |
| push session (`websocket_push_session.go`) | error flag, push configuration, parameters, `dataCh` of 64 | `listen`, `send`, `DirectPush`, `sendWSError` | each field has its own lock: readers see them at different moments |
| local pubsub (`pubsub_local.go`) | table of subscriber channels, channel of 1024 publications | `Publish`, `Subscribe`, `Connect`, `Disconnect`, `listen` | unbuffered registration, channels closed by one goroutine and written by others |
| NATS pubsub (`pubsub_nats.go`, `publication.go`) | reply channel, `replied`, `timedOut` and mutex of each publication | `Publish` in three response modes, the callback of `Subscribe`, `Reply`, `setExpired` | a timer against a reply; acknowledgement before delivery; full channels |
| REST server (`rest_server.go`, `handlers.go`, `dispatchers.go`) | per request; the processors registered | `makeHandler`, `runDispatcher`, one dispatcher per operation | many early returns; events and audit before the response; panics |
| authentication, authorization (`processor_helpers.go`, `authorizer/`) | none | chains of verdicts; mtls and simple verifiers | the first verdict that is not "continue" decides |
| life cycle (`bahamut.go`, `health_server.go`, `profiling_server.go`) | which servers run | `Run`, `start` and `stop` of each server | each start in a goroutine of its own; order of stops, each with a timeout |
| listener (`netlimiter.go`) | number of connections | `Accept`, `Close` | a slot released twice |
| upstreamer (`gateway/upstreamer/push`) | services and their endpoints, routing table, peers, latencies, limiters | hello and goodbye pings, sweep of outdated endpoints, `Upstream`, `ExtractRates` | pings lost or late; values read in several steps beside their writers |
| notifier (same directory) | none shared | start hook (hello, then one per period), stop hook (goodbye) | a hello after the goodbye; a crash without goodbye |
| gateway (`gateway/`) | per request; source limiters; metrics | `ServeHTTP`, interceptors, limiters, `Stop` | check then act on the cache of limiters; two servers for one address |

The interactions: a REST dispatcher calls `pushEvents`, which publishes on the
pubsub client; the client puts publications on the channel of the push server;
`start` gives each to a dispatcher goroutine, which sends to sessions; `listen`
writes to the client.  `Run` cancels one context, from which every session
context derives, and then stops health, push, REST and profiling servers in this
order.  Services announce themselves to gateways with publications, and gateways
count each other with publications too, so that each takes its share of a rate.

## Modules

| Module | Models |
|---|---|
| `PushSession` | the fields of a session and `listen`, one action per branch of its `select` |
| `PushServer` | extends it with the request goroutine around `listen`, `start`, dispatchers, `stop` |
| `PushDispatchHistory` | `PushServer` with two history variables that only record |
| `PushEvents` | `PushServer` fed by `pushEvents` through an external topic |
| `TopicBroadcast` | abstract: publications handed to all subscribers of a topic in one step |
| `LocalPubSub` | the local pubsub client, which implements `TopicBroadcast` |
| `RequestReply` | abstract: requests that are received at most once, one reply at most that counts, what the publisher may be told |
| `NatsPubSub` | requests and replies over NATS, `Reply` and the response handler, which implement `RequestReply` |
| `AuthChain` | the chains of verdicts and the verifiers, as operators |
| `RestServer` | a request on each connection, as the list of stages it still has to go through; uses `AuthChain` |
| `Server` | extends it with `Run`, the starts and stops of the servers, the limiting listener and its connections |
| `Notifier` | the instances of services and the channel their pings arrive on |
| `ServiceTable` | extends it with `listenServices`: services, endpoints, the table, readiness |
| `PeerRates` | `listenPeers` and `ExtractRates` |
| `Upstreamer` | `ServiceTable` and `PeerRates` composed, with the calls of `Upstream` and `CollectLatency` |
| `Gateway` | `PeerRates` composed with the requests of a gateway, its source limiters, its metrics and `Stop` |
| `...Proofs` | theorems about the module named; `TableProofs` is about `ServiceTable`, `PushServerProofs` about `PushDispatchHistory` too, `ServerProofs` about `RestServer` and `AuthChain` too |
| `MC...` | values of the constants for TLC; `MCPush` is shared |

Operators named as mutants in a comment are no part of the specifications: each
is a definition as a plausible bug would have it, under which a property fails.

**PushSession, PushServer.**  A session field is a function on `Session`, or a
set of sessions for a flag.  `hpc[s]` is the position of the request goroutine.
`handleRequest` up to the upgrade is two actions, `HandleRequest` and `Admit`:
authentication, `OnPushSessionInit` and the upgrade touch nothing shared, so one
step admits or refuses.  `registerSession` and `unregisterSession` are three
actions each, because dispatchers and `stop` see the map between them.
`sendWSError` is two (the flag, then the send), and so is a valid message (the
flag is cleared, then the configuration set).  `dpc[e]` is the position of an
event and then of its dispatcher, whose error check, filter and send are
separate steps.  A push configuration is the set of identities it lets through;
time is the set of events created before a session; `ShouldDispatch`, decoding
and `SummarizeEvent` may go either way.  A request whose encoding is refused
goes on to become a session (the code does not return), and is in `BadEncoding`;
a request before `start` has set `mainContext` panics.

**PushEvents.**  Pushers call `pushEvents` with batches; each event may be
skipped, fail to encode (the rest of the batch is given up), or be tried up to
`MaxAttempts` times.  An element of `Event` stands for one event of one call.

**LocalPubSub.**  Registration, unregistration, delivery and stop are the
branches of `listen`; `senders` are the goroutines that deliver a publication.
The refinement maps what a subscription was handed to what it read, what is in
its channel, and what its goroutine holds.

**NatsPubSub.**  `ppc` is the publisher, `hpc` the callback, `rh` the response
handler and `rpc` the calls of `Reply` of each request; `mux` is the mutex of the
publication.  NATS may lose messages; encoding and publishing may fail.  The
refinement maps what is received to what the callback is about to queue, what is
queued and what was read, and the reply to the call of `Reply` that succeeded.

**AuthChain, RestServer.**  A dispatcher is the sequence of stages its code goes
through, in the order of the code.  `Pass` and `Fail` do one check: the outcomes
of the guards come from the chains of `AuthChain`, the one of `find` from the
registered processors, and the others may go either way.  A failed check leaves
for the answer, audited or not as its `return` does it.  `Process` leaves events
and output in the context; a panic inside `runDispatcher` is recovered unless
recovery is disabled, and one outside drops the connection.  `granted` is
history: the checks that let the request pass and were right to, where `Grants`
says what a chain should do without following its loop.  A request is `Vetted`
when both guards are among them and the read-only mode, asked of the request and
not of the stage, allows it.  `excluded` says whether its identity is among the
exclusions of that mode.  `installRoutes` has the API routes; the routes for
versions, CORS and the application's own handlers change no state.

**Server.**  `srv[h]` is the `http.Server` of each server: nil until its
goroutine builds it (the health server has one from the start), built,
listening, closed.  `run` is the position of `Run`.  `net/http` is external: it
reads requests from a connection (`Reads`), after `Shutdown` has begun only the
first one of a connection.  It closes some connections twice.  `Shutdown` closes
an idle connection, and so does the goroutine that serves it; without TLS both
closes reach the limiting listener (`CloseIdle`, `CloseAgain`), with TLS one.  A
client that talks plain HTTP to a TLS server (`Secure`, the clients in `Plain`) is
answered on the connection below, which is closed there, and then closed again
with the TLS connection (`TurnAway`, `CloseAgain`), while the listener accepts:
`twice` counts these, up to `MaxTwice`.  A push session is a connection hijacked
from `net/http`; what the session does is `PushServer`.

**Notifier, ServiceTable.**  A ping arrives or is lost; `phase[n]` is the life of
an instance, crashes and restarts at the same address included.  `services` is
private to one goroutine, so one iteration of its loop is one step; the table is
replaced under a lock that waits for readers.  Time is whether the service
timeout has passed (`Age`).  `Sweep` removes one endpoint per tick, as the
short-circuit in the code does, and the latencies of all outdated ones.  Of two
services with the same key any may come last in the iteration over the map.

**PeerRates, Upstreamer, Gateway.**  `listenPeers` writes the number of peers, the
date and the rates one after the other, and `Upstream` and `ExtractRates` read
them in steps of their own.  Dates are counted.  `raced` fields are history: a
change of peers was under way between a read and its use.  A rate is abstracted
to the number of gateways that share it.  In `Gateway` a limiter is named after
the request that made it; lookup, creation, insertion, setting its rate and
asking it are separate steps, as two requests of one source may be between them.
The limiter of the model has a rate extractor; one with fixed rates, the other
branch of the code, has no rate that could be stale.  The forwarder may hijack the connection of any request it gets,
not only of one that the interceptors called a websocket.  It is a plain
`httputil.ReverseProxy`, so that a panic of the rewriter ends the handler
(`Panic`); if a library on the way recovered it, that would be `Proxied`.

## Runs

| Run | Instance | Shows |
|---|---|---|
| `push_server` | 2 sessions, 1 event, channels of 1 | the map holds the sessions whose goroutine will delete them; the gauge counts connections; `stop` returns; every session leaves the map for good; dispatchers end |
| `push_dispatch` | 1 session with 2 messages, 2 events | what a send still guarantees when the reads behind it are stale; no event from before the session |
| `push_publish` | 1 pusher with 2 events, 3 attempts | published at most once, in order; what is published to a running server is dispatched |
| `pubsub_local` | 2 subscriptions, 3 publications, 2 topics, channels of 1 and 2 | no closed channel is written; refines `TopicBroadcast`; `Publish` returns; unsubscribing closes the channel |
| `nats_reply` | one request of each mode, 2 repliers, channels of 1 | refines `RequestReply`: one reply at most, only real responses; nothing acknowledged is dropped; a blocked `Reply` has a handler |
| `server` | a TLS server, 2 connections for 1 slot, one of them in plain HTTP and closed twice at most once, every operation, every chain of one mtls and one simple verifier | no processor without the guards of its operation; success means events and audit are done; errors push nothing; one audit; how far the limit holds; the gauge; order and end of `Run` |
| `upstreamer_table` | 2 instances of 2 services that share a key, 2 pings in flight, 1 reader | the table follows the services; readiness; the dead are forgotten, the living found again |
| `upstreamer_calls` | 2 endpoints of 1 service, 2 callers, 1 peer, 2 changes of peers | endpoints weighed stay in the table; the limiter asked has this gateway's share |
| `gateway` | 2 requests of one source, 1 peer, 1 change of peers | rates in use and limiters asked have the share of the peers; metrics; `Stop` waits and ends |

Two sessions show every interference between sessions, which only meet in the
map, the gauge and a dispatcher's snapshot.  Two messages take a session into the
error state and out again, or through two configurations.  Channels of one or
two places are full at once, which 64 or 1024 would only be after longer runs.
Two connections compete for one slot, and one of them is free to retry; the plain
one is enough to free a slot that is taken, and one such slot to exceed the limit.
A server without TLS has fewer behaviours of this kind (`twice` stays 0), and the
theorems have both.  Two
instances are outdated at once, which is what the sweep is about; two callers
and two changes of peers let a call that was overtaken meet one that was not.
`upstreamer_calls` starts from a reachable state in which both instances are
registered (`SettledInit`), as the pings before it are what `upstreamer_table`
checks, and leaves `ExtractRates`, which writes nothing that `Upstream` reads, to
`gateway`; the theorems about `Upstreamer` have both.  In `gateway` one source suffices, since sources share no limiter.

Deadlock is checked in `server`, where `Over` marks the states in which the
process has ended.  Elsewhere it is not: the programs end, the bounds on pings
and changes of peers run out, and after `Disconnect` callers of the local client
wait for ever, as they do in the code.

Three runs show statements of the repository that the code does not keep:

| Run | Statement | What happens |
|---|---|---|
| `nats_late_reply` | "this should fail now because we took too long to call Reply" (`pubsub_nats_test.go:622`) | the timer has fired, `Reply` takes the mutex before `setExpired`: both wait for ever |
| `upstreamer_limiters` | after a change of peers the limiter has the burst of the new share (`upstreamer_test.go:731`, with one identity) | with two identities the first call moves the one date of the endpoint, and the limiter of the other identity is never adjusted |
| `server_early_stop` | "Stop the restserver and wait for current requests to complete." (`bahamut.go:286`) | the context is cancelled before the goroutine of `start` built its `http.Server`: `stop` calls `Shutdown` on nil |

Three more statements are contradicted by what the passing runs check:

| Run, property | Statement | What the code does |
|---|---|---|
| `server`, `ConnectionsBounded` | "accept at most n simultaneous connections" (`netlimiter.go:18`) | every `Close` releases a slot, and a connection in plain HTTP to a TLS server is closed twice: the limit can be exceeded by as many as there were of these, and is kept without TLS |
| `server`, `SuccessIsComplete` | "The Audit() method will be run in a go routine" (`options.go:368`) | `audit` calls it (`dispatchers.go:28`): an answer waits for its audit |
| `gateway`, `GaugesCountConnections` | "panic are recovered from oxy" (`rewriters.go:29` and `:75`) | the panic goes up to the http server, past `UnregisterWSConnection`: the gauge is exact until the first one, and then may count sockets that are gone |

Four more are known of the push server and not run.  A request being admitted
registers after `stop` returned, against "we wait for all session to get cleanly
terminated." (`websocket_server.go:478`).  The error flag is set between a
dispatcher's check and its send (`websocket_server_test.go:619`); what holds
instead is `SendsAreJustified`.  An error event is dropped when `dataCh` is full
(`websocket_push_session_test.go:439`).  Each publication has its own goroutine,
so the second may overtake the first (`interfaces.go:185`); what holds is
`PublishedOnceInOrder`.

## Fairness

Weak fairness of the steps of a goroutine that can run: the Go scheduler runs
it.  A branch of a `select` that stays ready is taken, since Go picks among the
ready ones at random; registration with the local client, ready only while
`listen` is at its `select`, needs strong fairness for the same reason.  Nothing
is assumed of clients, of the application or of the moment the context is
cancelled, with these exceptions:

- in `LocalPubSub` subscribers, and in `NatsPubSub` (`nats_late_reply`) subscribers
  and readers of errors, read their channels; in `PushEvents` the pubsub service
  delivers what it accepted;
- in `ServiceTable` callers release the lock of the table; the writer gets it in
  spite of them (strong fairness of `ReceivePing` and `Sweep`), since a waiting
  writer of a Go `RWMutex` holds back new readers; no outdated endpoint is left
  aside by every random iteration; of infinitely many hellos of an instance not
  all are lost;
- in `Server` hooks and shutdowns return, the latter because each has a timeout;
  in `Gateway` the two goroutines of `Stop` run and its context expires.

## Proofs

All hold for any values of the constants that satisfy the named assumptions:
any sets of sessions (finite, for the gauge), events, subscriptions, requests,
repliers, connections, services, instances, callers and peers, and any
capacities and limits.  Type correctness of each module is among the theorems
(`...TypeCorrect`), so only two runs check a type invariant too.

The push server (`PushServerProofs`):

- `CoreTypeCorrect`: all types but that of the gauge.
- `MapInvariant`: the map is the set of sessions between insertion and deletion,
  and the gauge is the number of those between the two metric calls.  The type
  of the gauge (`gauge - 1` is a natural number) follows only from this, so it
  comes second; `TypeCorrect`, `MapEntriesOwned` and `GaugeCorrect` are its
  consequences.
- `OnlyLaterQueued`: `OnlyLaterEventsQueued` is not inductive.  It is
  strengthened with: a dispatcher past its checks holds a session that started
  before the event was created, and sessions in a snapshot, in the map, or with
  something queued were created, so their start time no longer changes.
- `SendsJustified`: strengthened with what the history variables record at each
  position of a dispatcher: past the error check the session was calm, past the
  filters it was open too.
- `DispatchedOnce` is about steps (`VisitsOnce`): an event gets one dispatcher,
  which sends it at most once to each session of the snapshot it took.  `VisitInv`
  says why: an event is in the channel of publications once and only before its
  goroutine exists (`QueuedOnce`), and the session a dispatcher holds is no longer
  among those it has left.

`pushEvents` (`PushEventsProofs`):

- `PushInvariant`: whatever was published lies behind the position of the pusher
  whose event it is (`PublishedIsPast`), and the list is in order.  The event in
  hand is then not in the list, however often it was tried, and follows what its
  pusher published before.  That two positions of the batches do not hold the
  same event is `PushAssumption`: the model names an event after its push.
  `PublishedInOrder` and `PTypeCorrect` follow.
- `PushersRefineServer`: every step of `PushEvents` is a step of `PushServer` or
  leaves its variables alone, so the theorems about the push server hold of the
  push server with its pushers: `PushersKeepServer` draws this conclusion for
  `MapEntriesAreOwned`, `GaugeCountsConnections`, `OnlyLaterEventsQueued` and
  `VisitsOnce`.
- `StartedInOrder`: only published events get a dispatcher, and they get it in the
  order in which `Publish` accepted them, whichever pushers they are from.
  `PipelineInv` orders the whole way: what was started, what is in the channel and
  what is in the topic lie in this order in the list of publications, and the two
  queues keep it.

The local client (`LocalPubSubProofs`):

- `LInvariant`: the table lists a channel once, under its topic, and only between
  its registration and its unregistration; a closed channel is done with; the
  goroutines `listen` waits for have channels that are in the table.  The lemmas
  `AppendEntries` and `CutEntries` say what `append` and the cut do to a slice
  without repetitions; without that fact the cut could leave a closed channel in
  the table.
- `NoClosedSend` follows: what is in the table is not done with.
- `ImplementsBroadcast`: under `LInv`, `Publish`, registration, unregistration,
  taking a publication and stopping are the steps `Accept`, `Join`, `Leave`,
  `Broadcast` and `Shutdown`; reading, sending and all else leave the feeds as
  they are (`ReadKeepsFeed`, `SendKeepsFeed`).
- `DeliversInOrder`: a subscriber is handed publications of its topic only, each
  once, and any two subscribers that are both handed two publications are handed
  them in the same order.  `DeliveryInv` adds that a publication still in the
  channel was handed to nobody (`AcceptedOnce`).
- `HandsOut` is about steps: who is not in the table gets nothing, the subscribers
  of a topic get a publication all or none, and a closed channel stays closed and
  out of the table.

The NATS client (`NatsPubSubProofs`):

- `ReplyInv` ties the mutex of a publication, `replied`, `timedOut` and the
  position of its response handler: who is at the reply channel has the mutex,
  and its handler has not ended; `timedOut` is set only after the handler's
  timer.  `OneReply` and `BlockedReply` follow.
- `AnswerInv` adds what an answer says: the handler only passes on what `Reply`
  handed it, and an acknowledged request is in the callback's hands, queued or
  read.  `AckedKept` follows.
- `ExchangeInv` adds that a request on its way was not received before, that calls
  of `Reply` are about publications that were read, and response handlers about
  received ones that want a response.  `ImplementsRequestReply`: under it
  `Publish`, its errors and its answers are the steps `Ask`, `Fail` and `Succeed`,
  the callback is `Receive`, the meeting at the reply channel `Reply`, and
  `setExpired` is `Expire`; all else is not seen by the exchange.
- `ResponseEarned` and `OutcomesFinal` are what the exchange promises its
  publisher: a response it was told of comes from a call of `Reply` that
  succeeded, and no later step takes back an outcome, a reply or an expiry.

The server (`ServerProofs`):

- `StopInvariant`: only an open connection has a request, the health and REST
  servers are closed from their place in `Run` on and stay so, a connection that
  `Shutdown` closed is there only once the REST server is closed, and one that was
  turned away only with TLS.
  `HealthFirst` is a part of it, and `Drains` follows: the step that returns
  without a timeout sees no open connection, and none is accepted later.
- `ConnInvariant`: while the listener accepts, its counter is the number of open
  and hijacked connections less `twice`, and the gauge is that of the connections
  served.  When the counter is too low for another reason, a second close after
  `Shutdown`, the server is closed.  `LimitKept`, `GaugeCountsServed` and
  `ServerTypeCorrect` follow, and `PlainLimitKept`: without TLS the limit is kept
  as the comment of `newListener` says.
- `WalkGrants`: the loop over a chain of any length lets in what `Grants` says, that
  every refusal is preceded by a grant.  `Walk` takes the first verdict that
  decides; that there is a first one is the lemma `Least`.
- `RequestsInvariant`: the stages that a request still has before it say what was
  done already.  While `process` is ahead, no result, event, push or audit is
  there; behind it, what was pushed is what was due before the stage reached; the audits match the failure
  or the result.  Every action moves one request, and cuts its list of stages or
  replaces it by that of an answer: there is one lemma for each (`...Keeps`,
  `...Step`), one for the checks and one for the panics.  Closing, kicking and
  the steps of `Run` move none.  `SuccessComplete`, `ErrorsArePushless` and
  `OneAudit` are read off where no stage is left.
- `GuardsInvariant`: as long as the processor is ahead, each guard its operation
  requires holds, or lies ahead too.  Every one of the seven handlers begins with
  its guards ahead (`OperationsAreGuarded`), a check that passes holds from then on
  (`PassGives`, which rests on `WalkGrants`), and no guard lies behind `process`
  (`NoGuardBehind`): so when it is reached they all hold.  `ProcessedGranted`
  follows; a dispatcher without one of its guards, or with one behind its
  processor, would make `OperationsAreGuarded` or `NoGuardBehind` false.
- `EventsEarned` says more of the pushes, at every moment and with panics, which
  `RequestsInv` leaves open: what a request has pushed is a beginning of what is
  due to a processor that succeeded for a vetted request (`PushedIsEarned`).  Before the processor
  nothing is pushed, the two pushes are made in the phase that
  `RequestsInvariant` describes, and audits, answers and panics push nothing.

The service table and the upstreamer (`TableProofs`, `UpstreamerProofs`):

- `TableInvariant`: types, `TableMatchesServices` and `ReadyMeansHeard` are
  inductive together.  That as many names were heard as the option lists means
  all of them needs that a list has at most as many members as its length
  (`RequiredCount`), also for a list with repetitions.
- `UInvariant` adds the calls.  `PeersInv` says that there are no peers before the
  first change; `CallInv` that a call which no change overtook has the current
  number and date; `LimiterInv` that a limiter with the date of the last change,
  one about to get it, and one about to be asked by such a call, have the share.
  `LimiterInv` claims nothing between the write of the number and that of the
  date, and only for endpoints with one limiter: with two it fails, as
  `upstreamer_limiters` shows.  `CallsSee` and `OneLimiterFollows` follow.

The gateway (`GatewayProofs`):

- `RatesInv`: a call of `ExtractRates` that no change overtook has the number of
  peers there are; `SharesFollow` follows.
- `LimitInv`: a request that is being limited and was not overtaken has read the
  current share, and `listenPeers` is at rest; the limiter it is about to ask has
  this share, or was set by a request that was overtaken.
- `GInvariant` combines them with the gauges (`GaugesAddUp`: the one of websockets
  exceeds them by exactly the panics; `OneMoves` says what becomes of the
  counted sets when one request moves) and with the wait of `Stop`;
  `AskedShare`, `GaugesCount` and `StopWaits` are its parts.
- `AddressIsHandedOver`: the goodbye server answers only where the listener of the
  gateway is closed, and only until `Stop` returns: the part of `StopEnds` that
  needs no fairness.

Model-checked only: liveness (`ShutdownCompletes`, `SessionsDrain`,
`DispatchersFinish`, `PublishedIsDispatched`, `PublishReturns`,
`UnsubscribeCloses`, `DeadIsForgotten`, `AliveIsRouted`, `RequiredMakeReady`,
`StopEnds`, `RunReturns`), because fairness is out of the prover's reach.  What
`DispatchedOnce`, `StartedInOrder`, `DeliversInOrder`, `HandsOut`,
`ResponseEarned`, `OutcomesFinal`, `EventsEarned` and `AddressIsHandedOver` state
is no property of a run: it follows from invariants that were tried on the
instances of the runs first.

## Not modelled

Encoding, headers, CORS, tracing, options, mocks and the tables of routes and
versions are data or wiring.  Of the metrics only the gauges of connections are
modelled.  Of the health and profiling servers only start and stop are; their
handlers change nothing.  `Connect`, `Disconnect` and `Ping` of the NATS client
are calls into its library.  `RunJob` and the pingers loop around a function of
the application and share no state.  The moving average of latencies and the
weighted draw of endpoints are any choice of the two endpoints picked.  The
websocket, NATS and HTTP libraries, the forwarder, buffer, circuit breaker and
connection limit of the gateway's chain, Prometheus and the application's
callbacks are external: the model has what the code uses of them.
`PROJECT.json` lists the parts, and the hazards no property covers with the
reason.
