----------------------------- MODULE Upstreamer -----------------------------
(***************************************************************************)
(* The push upstreamer of a gateway: the service table, the counting of    *)
(* peers, and the calls of Upstream and CollectLatency that the requests   *)
(* make concurrently with both (upstreamer.go).                            *)
(*                                                                         *)
(* Upstream holds the lock of the table for reading while it weighs two    *)
(* endpoints, and brings their limiters to this gateway's share of the     *)
(* burst announced.  Which of the two the latencies, the loads and the     *)
(* draw favour, and the tokens left in a limiter, are any.                 *)
(***************************************************************************)
EXTENDS ServiceTable, PeerRates

VARIABLE
    call            \* [Caller -> [pc, key, eps, count, date, need, raced]]

upstreamerVars == <<tableVars, peerVars, rateVars, call>>

\* need is the endpoints whose limiter this call has set; raced is history: a
\* change of peers was under way at some moment of the call.
CIdle == [pc |-> "idle", key |-> {}, eps |-> {}, count |-> 0, date |-> 0,
          need |-> {}, raced |-> FALSE]

\* The positions at which Upstream holds the lock.
Locked == {"count", "date", "adjust", "mark", "choose"}

UTypeOK ==
    /\ TableTypeOK
    /\ RatesTypeOK
    /\ call \in [Caller -> [pc : Locked \cup {"idle", "returned"}, key : SUBSET Api,
                            eps : SUBSET Endpoint, count : Nat, date : Nat,
                            need : SUBSET Endpoint, raced : BOOLEAN]]

UInit == TableInit /\ RatesInit /\ call = [c \in Caller |-> CIdle]

\* The limiter of identity k that e announced, if it did.
Limits(e, k) == APILimiters[e[1]][k] # NoLimiter

-----------------------------------------------------------------------------
\* Upstream of a key with one endpoint.  It returns the address without a look
\* at its limiter; with no endpoint it returns the empty address.
UpstreamOne(c, k) ==
    /\ call[c].pc = "idle"
    /\ Cardinality(apis[k]) = 1
    /\ call' = [call EXCEPT ![c].pc = "returned", ![c].eps = apis[k]]
    /\ UNCHANGED <<tableVars, peerVars, rateVars>>

\* Two or more: pick gives two of them.
UpstreamTwo(c, k, eps) ==
    /\ call[c].pc = "idle"
    /\ eps \subseteq apis[k]
    /\ Cardinality(eps) = 2
    /\ readers' = readers \cup {c}
    /\ call' = [call EXCEPT ![c].pc = "count", ![c].key = {k}, ![c].eps = eps]
    /\ UNCHANGED <<notifierVars, serviceVars, peerVars, rateVars>>

ReadCount(c) ==
    /\ call[c].pc = "count"
    /\ call' = [call EXCEPT ![c].pc = "date", ![c].count = peersCount + 1,
                            ![c].raced = (ppc # "idle")]
    /\ UNCHANGED <<tableVars, peerVars, rateVars>>

ReadDate(c) ==
    /\ call[c].pc = "date"
    /\ call' = [call EXCEPT ![c].pc = "adjust", ![c].date = changeDate]
    /\ UNCHANGED <<tableVars, peerVars, rateVars>>

\* The limiters of the identity that were last adjusted before the last change
\* of peers get the share of that number of peers.
AdjustLimiters(c) ==
    LET k == CHOOSE api \in call[c].key : TRUE
        stale == {e \in call[c].eps : Limits(e, k) /\ limiters[e].adjusted < call[c].date}
    IN /\ call[c].pc = "adjust"
       /\ limiters' = [e \in Endpoint |->
            IF e \in stale
              THEN [limiters[e] EXCEPT !.burst[k] = APILimiters[e[1]][k] \div call[c].count,
                                       !.raced = call[c].raced]
              ELSE limiters[e]]
       /\ call' = [call EXCEPT ![c].pc = "mark", ![c].need = stale]
       /\ UNCHANGED <<notifierVars, endpoints, outdated, routes, apis, latencies,
                      pingVars, readers, peerVars, rateVars>>

\* Mutant: the date of the last change is read again.
MarkAdjustedNow(c) ==
    /\ call[c].pc = "mark"
    /\ limiters' = [e \in Endpoint |->
         IF e \in call[c].need THEN [limiters[e] EXCEPT !.adjusted = changeDate]
                               ELSE limiters[e]]
    /\ call' = [call EXCEPT ![c].pc = "choose"]
    /\ UNCHANGED <<notifierVars, endpoints, outdated, routes, apis, latencies,
                   pingVars, readers, peerVars, rateVars>>

\* lastLimiterAdjust is one date for all the limiters of an endpoint.
MarkAdjusted(c) ==
    /\ call[c].pc = "mark"
    /\ limiters' = [e \in Endpoint |->
         IF e \in call[c].need THEN [limiters[e] EXCEPT !.adjusted = call[c].date]
                               ELSE limiters[e]]
    /\ call' = [call EXCEPT ![c].pc = "choose"]
    /\ UNCHANGED <<notifierVars, endpoints, outdated, routes, apis, latencies,
                   pingVars, readers, peerVars, rateVars>>

\* Return unlocks the table.
Return(c, rec) ==
    /\ call[c].pc = "choose"
    /\ call' = [call EXCEPT ![c] = rec]
    /\ readers' = readers \ {c}
    /\ UNCHANGED <<notifierVars, serviceVars, peerVars, rateVars>>

\* The favoured endpoint, or else the other one: its limiter allows it.
Choose(c, e) ==
    /\ e \in call[c].eps
    /\ \A k \in call[c].key : limiters[e].burst[k] # 0
    /\ Return(c, [CIdle EXCEPT !.pc = "returned", !.eps = {e}])

\* Neither limiter allows it: ErrUpstreamerTooManyRequests.
TooManyRequests(c) ==
    /\ \A e \in call[c].eps, k \in call[c].key : Limits(e, k)
    /\ Return(c, CIdle)

\* The request was forwarded: its latency is collected, even if the endpoint was
\* removed and its samples deleted meanwhile.
CollectLatency(c) ==
    /\ call[c].pc = "returned"
    /\ latencies' = latencies \cup {e[2] : e \in call[c].eps}
    /\ call' = [call EXCEPT ![c] = CIdle]
    /\ UNCHANGED <<notifierVars, endpoints, outdated, routes, limiters, apis,
                   pingVars, readers, peerVars, rateVars>>

\* Nothing is collected for a websocket or a request that was not forwarded.
NoLatency(c) ==
    /\ call[c].pc = "returned"
    /\ call' = [call EXCEPT ![c] = CIdle]
    /\ UNCHANGED <<tableVars, peerVars, rateVars>>

Proceed(c) ==
    \/ ReadCount(c) \/ ReadDate(c) \/ AdjustLimiters(c) \/ MarkAdjusted(c)
    \/ \E e \in Endpoint : Choose(c, e)
    \/ TooManyRequests(c)

Upstream(c) ==
    \/ \E k \in Api : UpstreamOne(c, k) \/ \E eps \in SUBSET apis[k] : UpstreamTwo(c, k, eps)
    \/ Proceed(c)

\* A step of listenPeers; the calls in progress are overtaken by it.
PeersStep ==
    /\ listenPeers
    /\ call' = [c \in Caller |->
                  [call[c] EXCEPT !.raced = @ \/ call[c].pc \in Locked \ {"count"}]]
    /\ UNCHANGED tableVars

\* The goroutines that share the table and the limiters.
UpstreamerStep ==
    \/ listenServices /\ UNCHANGED <<peerVars, rateVars, call>>
    \/ PeersStep
    \/ \E c \in Caller : Upstream(c) \/ CollectLatency(c) \/ NoLatency(c)

UNext ==
    \/ NotifiersStep /\ UNCHANGED <<peerVars, rateVars, call>>
    \/ UpstreamerStep
    \/ (\E x \in Extractor : ExtractRates(x)) /\ UNCHANGED <<tableVars, call>>

USpec == UInit /\ [][UNext]_upstreamerVars

-----------------------------------------------------------------------------
\* The lock of the table covers the whole choice: the endpoints that Upstream
\* weighs are in the table at every moment, although pings and sweeps replace it.
CallsSeeTheTable ==
    \A c \in Caller : call[c].pc \in Locked =>
      /\ c \in readers
      /\ \A k \in call[c].key : call[c].eps \subseteq apis[k]

\* Upstream brings a limiter to this gateway's share before it asks it, as its
\* unit test says of one identity.
LimitersFollowPeers ==
    \A c \in Caller : call[c].pc = "choose" /\ ~call[c].raced =>
      \A e \in call[c].eps, k \in call[c].key :
        Limits(e, k) /\ ~limiters[e].raced =>
          limiters[e].burst[k] = APILimiters[e[1]][k] \div (Cardinality(peers) + 1)

\* The same for endpoints with one limiter.  The share is another one only if a
\* change of peers was under way during the call, or during the one that set it.
OneLimiterFollowsPeers ==
    (\A s \in Service : Cardinality({k \in Api : APILimiters[s][k] # NoLimiter}) <= 1)
      => LimitersFollowPeers
=============================================================================
