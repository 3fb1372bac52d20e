------------------------------ MODULE Gateway -------------------------------
(***************************************************************************)
(* The gateway (gateway/gateway.go, limiter.go, listener.go): a request    *)
(* goes through the interceptors, the upstreamer and a chain of handlers,  *)
(* among them the limiter of its source, whose rate is this gateway's      *)
(* share (PeerRates); Stop drains the server while a goodbye server tries  *)
(* to take over its address.                                               *)
(*                                                                         *)
(* A request has a connection of its own, closed when it ends.  Upstream   *)
(* returns an address, none or an error: see Upstreamer.  The http server, *)
(* the forwarder, the circuit breaker and the connection limit of the      *)
(* chain are external: they answer, refuse, fail or panic.                 *)
(***************************************************************************)
EXTENDS PeerRates, Integers

CONSTANTS
    Request,
    Source,             \* [Request -> what ExtractSource gives]
    InterceptorResult   \* results of an interceptor: [action, upstream, err]

ASSUME GatewayAssumption ==
    /\ IsFiniteSet(Request)
    /\ Extractor = Request
    /\ InterceptorResult \subseteq
         [action : {"none", "forward", "ws", "direct", "stop"}, upstream : BOOLEAN, err : BOOLEAN]

VARIABLES
    config,         \* which options the gateway was made with
    rq,             \* [Request -> [pc, ws, share, lim, raced]]
    rls,            \* [sources -> SUBSET Request]: the limiter in the cache, after its maker
    burst,          \* [Request -> Nat]: of a limiter, how many gateways share its rate
    gauge,          \* [{"tcp", "ws"} -> Nat]: the metrics of open connections
    panics,         \* Nat: websockets whose handler panicked
    stop,           \* position of Stop, and of its goodbye server
    listening       \* BOOLEAN: the listener is open

gatewayVars == <<config, rq, rls, burst, gauge, panics, stop, listening>>
gVars == <<gatewayVars, peerVars, rateVars>>

Sources == {Source[r] : r \in Request}

\* The positions of a request inside the handler that was chosen for it.
Limiting == {"rates", "get", "set", "limit", "allow"}
Handling == Limiting \cup {"proxy", "hijacked"}

GTypeOK ==
    /\ RatesTypeOK
    /\ config \in [maintenance : BOOLEAN, limited : BOOLEAN]
    /\ rq \in [Request -> [pc : Handling \cup {"new", "serve", "done"},
                           ws : BOOLEAN, share : Nat, lim : SUBSET Request, raced : BOOLEAN]]
    /\ rls \in [Sources -> SUBSET Request]
    /\ burst \in [Request -> Nat]
    /\ gauge \in [{"tcp", "ws"} -> Int]
    /\ panics \in Nat
    /\ stop \in [pc : {"off", "draining", "closing", "returned"}, timeout : BOOLEAN,
                 goodbye : {"off", "trying", "serving", "ended"}]
    /\ listening \in BOOLEAN

GInit ==
    /\ RatesInit
    /\ config \in [maintenance : BOOLEAN, limited : BOOLEAN]
    /\ rq = [r \in Request |->
               [pc |-> "new", ws |-> FALSE, share |-> 0, lim |-> {}, raced |-> FALSE]]
    /\ rls = [s \in Sources |-> {}]
    /\ burst = [r \in Request |-> 0]
    /\ gauge = [g \in {"tcp", "ws"} |-> 0]
    /\ panics = 0
    /\ stop = [pc |-> "off", timeout |-> FALSE, goodbye |-> "off"]
    /\ listening = TRUE

\* Of a request that ended, only the history is kept.
Done(rec) ==
    [pc |-> "done", ws |-> FALSE, share |-> 0,
     lim |-> IF rec.raced THEN rec.lim ELSE {}, raced |-> rec.raced /\ rec.lim # {}]

-----------------------------------------------------------------------------
\* Accept, of the listener that limits the rate of connections, and then New
\* of ConnState.
Accept(r) ==
    /\ rq[r].pc = "new"
    /\ listening
    /\ rq' = [rq EXCEPT ![r].pc = "serve"]
    /\ gauge' = [gauge EXCEPT !["tcp"] = @ + 1]
    /\ UNCHANGED <<config, rls, burst, panics, stop, listening, peerVars, rateVars>>

\* A connection over the rate is closed, and the server finds it so: its New is
\* followed by Closed.
AcceptClosed(r) ==
    /\ rq[r].pc = "new"
    /\ listening
    /\ rq' = [rq EXCEPT ![r] = Done(@)]
    /\ UNCHANGED <<config, rls, burst, gauge, panics, stop, listening, peerVars, rateVars>>

\* ServeHTTP returns before the switch: with the CORS headers, an error or what
\* an interceptor wrote.
Answer(r) ==
    /\ rq' = [rq EXCEPT ![r] = Done(@)]
    /\ gauge' = [gauge EXCEPT !["tcp"] = @ - 1]
    /\ UNCHANGED <<config, rls, burst, panics, stop, listening, peerVars, rateVars>>

Goto(r, pc) ==
    /\ rq' = [rq EXCEPT ![r].pc = pc]
    /\ UNCHANGED <<config, rls, gauge, panics, stop, listening, peerVars>>

Options(r) == rq[r].pc = "serve" /\ Answer(r)

Maintenance(r) == rq[r].pc = "serve" /\ config.maintenance /\ Answer(r)

\* The results of the exact, prefix and suffix registries: the first with an
\* action, else the last.
checkInterceptors(ex, px, sx) ==
    IF ex.action # "none" THEN ex ELSE IF px.action # "none" THEN px ELSE sx

\* The request is forwarded.  Direct requests bypass the chain; the others are
\* limited by source, if the gateway limits; the circuit breaker is not on the way
\* of websockets.
Forward(r, action) ==
    /\ rq' = [rq EXCEPT ![r].pc = IF config.limited /\ action # "direct" THEN "rates" ELSE "proxy",
                        ![r].ws = (action = "ws")]
    /\ gauge' = IF action = "ws" THEN [gauge EXCEPT !["ws"] = @ + 1] ELSE gauge
    /\ UNCHANGED <<config, rls, burst, panics, stop, listening, peerVars, rateVars>>

\* Up to the switch.  Without an upstream from the interceptor, Upstream may give
\* none, or an error.
Intercept(r, ex, px, sx) ==
    LET res == checkInterceptors(ex, px, sx)
    IN /\ rq[r].pc = "serve"
       /\ ~config.maintenance
       /\ \/ (res.err \/ res.action = "stop" \/ ~res.upstream) /\ Answer(r)
          \/ ~res.err /\ res.action # "stop" /\ Forward(r, res.action)

\* Mutant: a hijacked connection is unregistered once more.
FinishTwice(r) ==
    /\ rq' = [rq EXCEPT ![r] = Done(@)]
    /\ gauge' = [g \in {"tcp", "ws"} |->
         gauge[g] - (IF g = "ws" /\ ~rq[r].ws THEN 0 ELSE 1)]
    /\ UNCHANGED <<config, rls, burst, panics, stop, listening, peerVars, rateVars>>

\* The end of the switch: a websocket is unregistered.  For any other request the
\* latency is collected, even if the chain refused it: see Upstreamer.
Finish(r) ==
    /\ rq' = [rq EXCEPT ![r] = Done(@)]
    /\ gauge' = [g \in {"tcp", "ws"} |->
         gauge[g] - (IF g = "ws" THEN IF rq[r].ws THEN 1 ELSE 0
                                 ELSE IF rq[r].pc = "hijacked" THEN 0 ELSE 1)]
    /\ UNCHANGED <<config, rls, burst, panics, stop, listening, peerVars, rateVars>>

\* The circuit breaker refuses, before the limiter.
BreakerOpen(r) ==
    /\ rq[r].pc = IF config.limited THEN "rates" ELSE "proxy"
    /\ ~rq[r].ws
    /\ xcall[r].pc = "idle"
    /\ Finish(r)

\* sourceLimiter.ServeHTTP: the source, or an error; the rates; the limiter of
\* the cache, or a new one that is then put there; its rate set, and asked.
\* raced is history: the share was read in a race, or a change of peers has been
\* under way since.
SourceFails(r) == rq[r].pc = "rates" /\ xcall[r].pc = "idle" /\ Finish(r)

RatesCall(r) ==
    /\ rq[r].pc = "rates"
    /\ LoadRates(r) \/ LoadCount(r)
    /\ UNCHANGED gatewayVars

\* ExtractRates returns: with the set it stored, or the one it found.
RatesReturn(r) ==
    /\ rq[r].pc = "rates"
    /\ \/ StoreRates(r)
       \/ xcall[r].pc = "idle" /\ rateSet.peers # 0 /\ UNCHANGED <<peerVars, rateVars>>
    /\ rq' = [rq EXCEPT ![r].pc = "get", ![r].share = rateSet'.peers,
                        ![r].raced = (@ \/ rateSet'.raced \/ ppc # "idle")]
    /\ UNCHANGED <<config, rls, burst, gauge, panics, stop, listening>>

GetLimiter(r) ==
    /\ rq[r].pc = "get"
    /\ rq' = [rq EXCEPT ![r].pc = IF rls[Source[r]] = {} THEN "set" ELSE "limit",
                        ![r].lim = IF rls[Source[r]] = {} THEN {r} ELSE rls[Source[r]]]
    /\ UNCHANGED <<config, rls, burst, gauge, panics, stop, listening, peerVars, rateVars>>

SetLimiter(r) ==
    /\ rq[r].pc = "set"
    /\ rls' = [rls EXCEPT ![Source[r]] = {r}]
    /\ burst' = [burst EXCEPT ![r] = rq[r].share]
    /\ rq' = [rq EXCEPT ![r].pc = "limit"]
    /\ UNCHANGED <<config, gauge, panics, stop, listening, peerVars, rateVars>>

\* Mutant: a limiter keeps the rate it was made with.
KeepRate(r) == rq[r].pc = "limit" /\ Goto(r, "allow") /\ UNCHANGED <<burst, rateVars>>

SetRate(r) ==
    /\ rq[r].pc = "limit"
    /\ burst' = [l \in Request |-> IF l \in rq[r].lim THEN rq[r].share ELSE burst[l]]
    /\ Goto(r, "allow")
    /\ UNCHANGED rateVars

Allow(r) == rq[r].pc = "allow" /\ Goto(r, "proxy") /\ UNCHANGED <<burst, rateVars>>

Refuse(r) == rq[r].pc = "allow" /\ Finish(r)

\* An hour later.
Expire(s) ==
    /\ rls[s] # {}
    /\ rls' = [rls EXCEPT ![s] = {}]
    /\ UNCHANGED <<config, rq, burst, gauge, panics, stop, listening, peerVars, rateVars>>

\* The forwarder answers, or its error handler does; it hijacks the connection of
\* a request that asks for an upgrade first, whatever the interceptors said of it.
Proxied(r) == rq[r].pc \in {"proxy", "hijacked"} /\ Finish(r)

Hijack(r) ==
    /\ rq[r].pc = "proxy"
    /\ rq' = [rq EXCEPT ![r].pc = "hijacked"]
    /\ gauge' = [gauge EXCEPT !["tcp"] = @ - 1]
    /\ UNCHANGED <<config, rls, burst, panics, stop, listening, peerVars, rateVars>>

\* Rewrite panics.  The forwarder is a plain httputil.ReverseProxy, and the server
\* is the first to recover: what follows ServeHTTP in the switch is not run.  (If
\* something on the way did recover, that would be Proxied.)
Panic(r) ==
    /\ rq[r].pc = "proxy"
    /\ rq' = [rq EXCEPT ![r] = Done(@)]
    /\ gauge' = [gauge EXCEPT !["tcp"] = @ - 1]
    /\ panics' = IF rq[r].ws THEN panics + 1 ELSE panics
    /\ UNCHANGED <<config, rls, burst, stop, listening, peerVars, rateVars>>

Serve(r) ==
    \/ Options(r) \/ Maintenance(r)
    \/ \E ex, px, sx \in InterceptorResult : Intercept(r, ex, px, sx)
    \/ BreakerOpen(r) \/ SourceFails(r) \/ RatesCall(r) \/ RatesReturn(r)
    \/ GetLimiter(r) \/ SetLimiter(r) \/ SetRate(r) \/ Allow(r) \/ Refuse(r)
    \/ Proxied(r) \/ Hijack(r) \/ Panic(r)

-----------------------------------------------------------------------------
StopStep(next) ==
    /\ stop' = next
    /\ UNCHANGED <<config, rq, rls, burst, gauge, panics, peerVars, rateVars>>

\* Stop starts two goroutines and waits.
Stop ==
    /\ stop.pc = "off"
    /\ StopStep([stop EXCEPT !.pc = "draining", !.goodbye = "trying"])
    /\ UNCHANGED listening

\* server.Shutdown closes the listener and then waits for the connections that
\* are not hijacked; stopCtx ends with it, or after 30 seconds.
CloseListener ==
    /\ stop.pc # "off"
    /\ listening
    /\ listening' = FALSE
    /\ StopStep(stop)

\* Mutant: Stop does not wait for Shutdown to return.
NotDrained ==
    /\ stop.pc = "draining"
    /\ ~listening
    /\ StopStep([stop EXCEPT !.pc = "closing"])
    /\ UNCHANGED listening

Drained ==
    /\ stop.pc = "draining"
    /\ ~listening
    /\ \A r \in Request : rq[r].pc \in {"new", "hijacked", "done"}
    /\ StopStep([stop EXCEPT !.pc = "closing"])
    /\ UNCHANGED listening

DrainTimeout ==
    /\ stop.pc = "draining"
    /\ StopStep([stop EXCEPT !.pc = "closing", !.timeout = TRUE])
    /\ UNCHANGED listening

\* The goodbye server tries until the address is free; any other error ends it.
GoodbyeListens ==
    /\ stop.goodbye = "trying"
    /\ stop.pc # "returned"
    /\ ~listening
    /\ StopStep([stop EXCEPT !.goodbye = "serving"])
    /\ UNCHANGED listening

GoodbyeFails ==
    /\ stop.goodbye = "trying"
    /\ StopStep([stop EXCEPT !.goodbye = "ended"])
    /\ UNCHANGED listening

\* Mutant: Stop returns without a shutdown of the goodbye server.
GoodbyeLeftOn ==
    /\ stop.pc = "closing"
    /\ StopStep([stop EXCEPT !.pc = "returned"])
    /\ UNCHANGED listening

\* goodbyeServer.Shutdown: a server, or the next attempt at one, is closed.
GoodbyeShutdown ==
    /\ stop.pc = "closing"
    /\ StopStep([stop EXCEPT !.pc = "returned",
                             !.goodbye = IF @ = "serving" THEN "ended" ELSE @])
    /\ UNCHANGED listening

StopNext ==
    \/ Stop \/ CloseListener \/ Drained \/ DrainTimeout
    \/ GoodbyeListens \/ GoodbyeFails \/ GoodbyeShutdown

\* A step of listenPeers overtakes the requests that are being limited.
GPeersStep ==
    /\ listenPeers
    /\ rq' = [r \in Request |-> [rq[r] EXCEPT !.raced = @ \/ rq[r].pc \in Limiting]]
    /\ UNCHANGED <<config, rls, burst, gauge, panics, stop, listening>>

GNext ==
    \/ \E r \in Request : Accept(r) \/ AcceptClosed(r) \/ Serve(r)
    \/ \E s \in Sources : Expire(s)
    \/ GPeersStep
    \/ StopNext

\* The goroutines of Stop run, and stopCtx ends after 30 seconds.  Each subscript is
\* what all the steps of its action change.
GSpec == GInit /\ [][GNext]_gVars
GFairSpec ==
    GSpec /\ WF_listening(CloseListener) /\ WF_stop(Drained \/ DrainTimeout)
          /\ WF_stop(GoodbyeListens \/ GoodbyeFails) /\ WF_stop(GoodbyeShutdown)

-----------------------------------------------------------------------------
\* The connections that are open and not hijacked, and the websockets that are
\* being handled.
Open == {r \in Request : rq[r].pc \notin {"new", "hijacked", "done"}}
Sockets == {r \in Request : rq[r].ws /\ rq[r].pc \in Handling}

\* The metrics count what is open: connections until they are closed or
\* hijacked, websockets until their handler returns.  No socket is ever missed;
\* but UnregisterWSConnection is not deferred, and once a handler has panicked
\* the count may be too high.
GaugesCountConnections ==
    /\ gauge["tcp"] = Cardinality(Open)
    /\ gauge["ws"] >= Cardinality(Sockets)
    /\ panics = 0 => gauge["ws"] = Cardinality(Sockets)

\* A request is limited to this gateway's share for its source: the limiter it
\* asks has the rate of the peers there are, although it is shared, cached for an
\* hour and replaced.  It can have another one only when a change of peers raced
\* with this request or with one that used the same limiter.
AskedAtShare ==
    \A r \in Request : rq[r].pc = "allow" =>
      \/ \A l \in rq[r].lim : burst[l] = Cardinality(peers) + 1
      \/ \E q \in Request : rq[q].raced /\ rq[q].lim = rq[r].lim

\* Unless it gives up after its 30 seconds, Stop returns when no request is in
\* progress but websockets, and none comes in later.
StopWaitsForRequests ==
    stop.pc \in {"closing", "returned"} /\ ~stop.timeout =>
      ~listening /\ \A r \in Request : rq[r].pc \in {"new", "hijacked", "done"}

\* Stop returns, and its goodbye server does not outlive it, although nothing
\* orders the attempts to listen and the shutdowns of the two servers.
StopEnds == stop.pc = "draining" ~> stop.pc = "returned" /\ stop.goodbye = "ended"
=============================================================================
