--------------------------- MODULE GatewayProofs ----------------------------
(***************************************************************************)
(* The gateway, for any requests, sources, interceptors and peers: a       *)
(* request is limited to this gateway's share, the gauges count the        *)
(* connections, Stop waits for the requests and hands the address over.    *)
(***************************************************************************)
EXTENDS Gateway, FiniteSetTheorems, TLAPS

RequestRecord ==
    [pc : Handling \cup {"new", "serve", "done"}, ws : BOOLEAN, share : Nat,
     lim : SUBSET Request, raced : BOOLEAN]

Calls == [pc : {"idle", "count", "store"}, count : Nat, raced : BOOLEAN]

-----------------------------------------------------------------------------
(* The records of the requests. *)

\* A request that ended keeps its limiter if it was overtaken, and nothing else.
LEMMA DoneRecord ==
    ASSUME NEW rec \in RequestRecord
    PROVE  /\ Done(rec) \in RequestRecord
           /\ Done(rec).pc = "done" /\ Done(rec).ws = FALSE
           /\ rec.raced /\ rec.lim # {} => Done(rec).raced /\ Done(rec).lim = rec.lim
<1>1. (IF rec.raced THEN rec.lim ELSE {}) \in SUBSET Request
  BY DEF RequestRecord
<1>2. (rec.raced /\ rec.lim # {}) \in BOOLEAN
  OBVIOUS
<1>3. Done(rec) \in RequestRecord
  BY <1>1, <1>2 DEF Done, RequestRecord
<1>4. Done(rec).pc = "done" /\ Done(rec).ws = FALSE
  BY DEF Done
<1>5. rec.raced /\ rec.lim # {} => Done(rec).raced /\ Done(rec).lim = rec.lim
  BY ZenonT(40) DEF Done
<1> QED
  BY <1>3, <1>4, <1>5

\* A request that only moves.
LEMMA MovedRecord ==
    ASSUME NEW rec \in RequestRecord, NEW pc \in Handling \cup {"serve"}
    PROVE  LET q == [rec EXCEPT !.pc = pc]
           IN  /\ q \in RequestRecord /\ q.pc = pc /\ q.ws = rec.ws /\ q.share = rec.share
               /\ q.lim = rec.lim /\ q.raced = rec.raced
BY DEF RequestRecord

-----------------------------------------------------------------------------
(* The rates: ExtractRates beside listenPeers. *)

\* A call of ExtractRates that no change of peers overtook has their number.
RatesInv ==
    /\ RatesTypeOK
    /\ peersCount = Cardinality(peers)
    /\ \A x \in Extractor : xcall[x].pc = "store" =>
         /\ xcall[x].count > 0
         /\ ~xcall[x].raced => xcall[x].count = peersCount + 1
    /\ SharesFollowPeers

\* The gateway starts without peers and without rates.
LEMMA RatesInvInit == RatesInit => RatesInv
<1> SUFFICES ASSUME RatesInit
             PROVE  RatesInv
  OBVIOUS
<1>1. XIdle \in Calls /\ XIdle.pc = "idle" /\ emptyRateSet \in [peers : Nat, raced : BOOLEAN]
      /\ emptyRateSet.peers = 0
  BY DEF XIdle, Calls, emptyRateSet
<1>2. RatesTypeOK
  BY <1>1 DEF RatesInit, RatesTypeOK, Calls
<1>3. peersCount = Cardinality(peers)
  BY FS_EmptySet DEF RatesInit
<1>4. \A x \in Extractor : xcall[x].pc # "store"
  BY <1>1 DEF RatesInit
<1>5. SharesFollowPeers
  BY <1>1 DEF RatesInit, SharesFollowPeers
<1> QED
  BY <1>2, <1>3, <1>4, <1>5 DEF RatesInv

\* listenPeers counts the peers, overtakes the calls in progress, and clears the
\* rates before it is idle again.
LEMMA ListenPeersKeepsRates ==
    ASSUME RatesInv, listenPeers
    PROVE  RatesInv'
<1>1. ASSUME NEW ps \in SUBSET Peer, PeersBecome(ps)
      PROVE  RatesInv'
  <2>1. /\ IsFiniteSet(ps) /\ IsFiniteSet(peers)
        /\ Cardinality(ps) \in Nat /\ Cardinality(peers) \in Nat
    BY RatesAssumption, FS_Subset, FS_CardinalityType DEF RatesInv, RatesTypeOK
  <2>2. peersCount' = Cardinality(peers') /\ peersCount' \in Nat
    BY <1>1, <2>1 DEF PeersBecome, RatesInv
  <2>3. xcall' \in [Extractor -> Calls]
    BY <1>1, ZenonT(40) DEF PeersBecome, RatesInv, RatesTypeOK, Calls
  <2>4. \A x \in Extractor : /\ xcall'[x].pc = xcall[x].pc /\ xcall'[x].count = xcall[x].count
                             /\ xcall[x].pc = "store" => xcall'[x].raced
    BY <1>1, ZenonT(40) DEF PeersBecome, RatesInv, RatesTypeOK
  <2>5. ppc' = "date" /\ ps \in SUBSET Peer /\ peers' = ps /\ UNCHANGED <<changeDate, rateSet>>
    BY <1>1 DEF PeersBecome
  <2>6. RatesTypeOK'
    BY <2>2, <2>3, <2>5 DEF RatesInv, RatesTypeOK, Calls
  <2> QED
    BY <2>2, <2>4, <2>5, <2>6 DEF RatesInv, SharesFollowPeers
<1>2. ASSUME NEW p \in Peer, PeerHello(p) \/ PeerGoodbye(p)
      PROVE  RatesInv'
  <2>1. peers \cup {p} \in SUBSET Peer /\ peers \ {p} \in SUBSET Peer
    BY DEF RatesInv, RatesTypeOK
  <2> QED
    BY <1>1, <1>2, <2>1 DEF PeerHello, PeerGoodbye
<1>3. ASSUME NEW ps \in SUBSET peers, CleanPeers(ps)
      PROVE  RatesInv'
  <2>1. peers \ ps \in SUBSET Peer
    BY DEF RatesInv, RatesTypeOK
  <2> QED
    BY <1>1, <1>3, <2>1 DEF CleanPeers
<1>4. CASE StoreChangeDate
  BY <1>4 DEF StoreChangeDate, rateVars, RatesInv, RatesTypeOK, SharesFollowPeers
<1>5. CASE ClearRates
  <2>1. emptyRateSet \in [peers : Nat, raced : BOOLEAN] /\ emptyRateSet.peers = 0
    BY DEF emptyRateSet
  <2> QED
    BY <1>5, <2>1 DEF ClearRates, RatesInv, RatesTypeOK, SharesFollowPeers
<1> QED
  BY <1>2, <1>3, <1>4, <1>5 DEF listenPeers

\* ExtractRates stores a set that is right unless it was overtaken.
LEMMA ExtractKeepsRates ==
    ASSUME RatesInv, NEW x \in Extractor, ExtractRates(x)
    PROVE  RatesInv'
<1>0. xcall \in [Extractor -> Calls] /\ XIdle \in Calls /\ XIdle.pc = "idle"
  BY DEF RatesInv, RatesTypeOK, XIdle, Calls
<1>1. CASE LoadRates(x)
  <2>1. xcall' \in [Extractor -> Calls]
    BY <1>0, <1>1 DEF LoadRates, Calls
  <2>2. xcall'[x].pc = "count" /\ \A o \in Extractor \ {x} : xcall'[o] = xcall[o]
    BY <1>0, <1>1 DEF LoadRates, Calls
  <2> QED
    BY <1>1, <2>1, <2>2 DEF LoadRates, peerVars, RatesInv, RatesTypeOK, SharesFollowPeers, Calls
<1>2. CASE LoadCount(x)
  <2> DEFINE n == peersCount + 1
             rec == [pc |-> "store", count |-> n, raced |-> FALSE]
  <2>1. n \in Nat /\ n > 0 /\ n = peersCount + 1
    BY DEF RatesInv, RatesTypeOK
  <2>2. xcall' = [xcall EXCEPT ![x] = rec]
    BY <1>2 DEF LoadCount
  <2> HIDE DEF n
  <2>3. rec \in Calls /\ rec.count = n
    BY <2>1 DEF Calls
  <2> HIDE DEF rec
  <2>4. xcall' \in [Extractor -> Calls]
    BY <1>0, <2>2, <2>3
  <2>5. xcall'[x] = rec /\ \A o \in Extractor \ {x} : xcall'[o] = xcall[o]
    BY <1>0, <2>2
  <2> QED
    BY <1>2, <2>1, <2>3, <2>4, <2>5
       DEF LoadCount, peerVars, RatesInv, RatesTypeOK, SharesFollowPeers, Calls
<1>3. CASE StoreRates(x)
  <2>1. xcall' \in [Extractor -> Calls]
    BY <1>0, <1>3 DEF StoreRates
  <2>2. xcall'[x] = XIdle /\ \A o \in Extractor \ {x} : xcall'[o] = xcall[o]
    BY <1>0, <1>3 DEF StoreRates
  <2>3. rateSet' \in [peers : Nat, raced : BOOLEAN]
    BY <1>0, <1>3 DEF StoreRates, Calls
  <2>4. rateSet'.peers = xcall[x].count /\ rateSet'.raced = xcall[x].raced /\ xcall[x].pc = "store"
    BY <1>3 DEF StoreRates
  <2>5. UNCHANGED <<peers, peersCount, changeDate, ppc>>
    BY <1>3 DEF StoreRates, peerVars
  <2>6. ~rateSet'.raced => rateSet'.peers = Cardinality(peers) + 1
    BY <2>4 DEF RatesInv
  <2>7. SharesFollowPeers'
    BY <2>5, <2>6 DEF SharesFollowPeers
  <2> QED
    BY <1>0, <2>1, <2>2, <2>3, <2>5, <2>7 DEF RatesInv, RatesTypeOK, Calls
<1> QED
  BY <1>1, <1>2, <1>3 DEF ExtractRates

\* A step that leaves the rates alone.
LEMMA RatesKept ==
    ASSUME RatesInv, UNCHANGED <<peerVars, rateVars>>
    PROVE  RatesInv'
BY DEF RatesInv, RatesTypeOK, SharesFollowPeers, peerVars, rateVars

-----------------------------------------------------------------------------
(* The requests. *)

GatewayTypeOK ==
    /\ config \in [maintenance : BOOLEAN, limited : BOOLEAN]
    /\ rq \in [Request -> RequestRecord]
    /\ rls \in [Sources -> SUBSET Request]
    /\ burst \in [Request -> Nat]
    /\ gauge \in [{"tcp", "ws"} -> Int]
    /\ panics \in Nat
    /\ stop \in [pc : {"off", "draining", "closing", "returned"}, timeout : BOOLEAN,
                 goodbye : {"off", "trying", "serving", "ended"}]
    /\ listening \in BOOLEAN

\* What the limiting of a request rests on: a cache entry is one limiter; a
\* request that is being limited has none, its own or a cached one; and if no
\* change of peers overtook it, the share it has read is the one of the peers.
LimitInv ==
    /\ \A s \in Sources : rls[s] = {} \/ \E l \in Request : rls[s] = {l}
    /\ \A r \in Request :
         /\ rq[r].pc \in {"new", "serve", "rates", "get"} => rq[r].lim = {}
         /\ rq[r].pc \in {"set", "limit", "allow"} => \E l \in Request : rq[r].lim = {l}
         /\ rq[r].pc = "set" => rq[r].lim = {r}
         /\ rq[r].pc \in {"get", "set", "limit", "allow"} /\ ~rq[r].raced =>
              ppc = "idle" /\ rq[r].share = Cardinality(peers) + 1
    /\ AskedAtShare

\* What makes the gauges count: beside the websockets, the one of the websockets
\* counts those whose handler panicked.
GaugesAddUp ==
    /\ gauge["tcp"] = Cardinality(Open)
    /\ gauge["ws"] = panics + Cardinality(Sockets)

GInv ==
    /\ RatesInv
    /\ GatewayTypeOK
    /\ LimitInv
    /\ GaugesAddUp
    /\ StopWaitsForRequests

\* What becomes of the two sets when one request moves.
LEMMA OneMoves ==
    ASSUME GatewayTypeOK, NEW r \in Request, NEW rec \in RequestRecord,
           rq' = [rq EXCEPT ![r] = rec]
    PROVE  /\ rq' \in [Request -> RequestRecord]
           /\ rq'[r] = rec
           /\ \A q \in Request \ {r} : rq'[q] = rq[q]
           /\ Open' = IF rec.pc \notin {"new", "hijacked", "done"} THEN Open \cup {r} ELSE Open \ {r}
           /\ Sockets' = IF rec.ws /\ rec.pc \in Handling THEN Sockets \cup {r} ELSE Sockets \ {r}
<1>1. rq' \in [Request -> RequestRecord] /\ rq'[r] = rec /\ \A q \in Request \ {r} : rq'[q] = rq[q]
  BY DEF GatewayTypeOK
<1>2. Open' = IF rec.pc \notin {"new", "hijacked", "done"} THEN Open \cup {r} ELSE Open \ {r}
  BY <1>1 DEF Open
<1>3. Sockets' = IF rec.ws /\ rec.pc \in Handling THEN Sockets \cup {r} ELSE Sockets \ {r}
  BY <1>1 DEF Sockets
<1> QED
  BY <1>1, <1>2, <1>3

\* One request more, or less.
LEMMA OneRequest ==
    ASSUME NEW S \in SUBSET Request, NEW r \in Request
    PROVE  /\ Cardinality(S) \in Nat
           /\ r \notin S => Cardinality(S \cup {r}) = Cardinality(S) + 1
           /\ r \in S => Cardinality(S \ {r}) = Cardinality(S) - 1
<1>1. IsFiniteSet(S)
  BY FS_Subset, GatewayAssumption
<1> QED
  BY <1>1, FS_CardinalityType, FS_AddElement, FS_RemoveElement

\* Stop goes on waiting for the requests, or none is left: whatever one request
\* does, it was there before or the listener is open.
LEMMA RequestKeepsStop ==
    ASSUME GInv, NEW r \in Request, NEW rec \in RequestRecord,
           rq' = [rq EXCEPT ![r] = rec], UNCHANGED <<stop, listening>>,
           \/ rq[r].pc = "new" /\ listening
           \/ rq[r].pc \notin {"new", "hijacked", "done"}
           \/ rec.pc = "done"
    PROVE  StopWaitsForRequests'
<1>1. rq'[r] = rec /\ \A q \in Request \ {r} : rq'[q] = rq[q]
  BY DEF GInv, GatewayTypeOK
<1>2. CASE rec.pc = "done"
  BY <1>1, <1>2 DEF GInv, StopWaitsForRequests
<1>3. CASE listening \/ rq[r].pc \notin {"new", "hijacked", "done"}
  BY <1>3, SMTT(30) DEF GInv, StopWaitsForRequests
<1> QED
  BY <1>2, <1>3

\* A step that sets no limiter, and of whose request the limiter is kept.
LEMMA RequestKeepsLimits ==
    ASSUME GInv, NEW r \in Request, NEW rec \in RequestRecord,
           rq' = [rq EXCEPT ![r] = rec], UNCHANGED <<rls, burst, peers, ppc>>,
           rec.pc \in {"new", "serve", "rates"} => rec.lim = {},
           rec.pc \notin {"get", "set", "limit", "allow"},
           rq[r].raced /\ rq[r].lim # {} => rec.raced /\ rec.lim = rq[r].lim
    PROVE  LimitInv'
<1>1. rq'[r] = rec /\ \A q \in Request \ {r} : rq'[q] = rq[q]
  BY SMTT(30) DEF GInv, GatewayTypeOK
<1>2. ASSUME NEW q \in Request, rq'[q].pc = "allow"
      PROVE  \/ \A l \in rq'[q].lim : burst'[l] = Cardinality(peers') + 1
             \/ \E o \in Request : rq'[o].raced /\ rq'[o].lim = rq'[q].lim
  <2>1. q # r /\ rq'[q] = rq[q]
    BY <1>1, <1>2, SMTT(30)
  <2>2. rq[q].lim # {}
    BY <1>2, <2>1, SMTT(30) DEF GInv, LimitInv
  <2>3. CASE \A l \in rq[q].lim : burst[l] = Cardinality(peers) + 1
    BY <2>1, <2>3
  <2>4. ASSUME NEW o \in Request, rq[o].raced, rq[o].lim = rq[q].lim
        PROVE  rq'[o].raced /\ rq'[o].lim = rq'[q].lim
    BY <1>1, <2>1, <2>2, <2>4, SMTT(30)
  <2> QED
    BY <1>2, <2>1, <2>3, <2>4, SMTT(30) DEF GInv, LimitInv, AskedAtShare
<1>3. AskedAtShare'
  BY <1>2 DEF AskedAtShare
<1> QED
  BY <1>1, <1>3, SMTT(30) DEF GInv, LimitInv

\* A request ends, and the gauges lose what they counted of it.
LEMMA Ends ==
    ASSUME GInv, NEW r \in Request, rq' = [rq EXCEPT ![r] = Done(rq[r])],
           UNCHANGED <<config, rls, burst, stop, listening, peerVars, rateVars>>,
           gauge' \in [{"tcp", "ws"} -> Int], panics' \in Nat,
           gauge'["tcp"] = gauge["tcp"] - (IF r \in Open THEN 1 ELSE 0),
           gauge'["ws"] - panics' = gauge["ws"] - panics - (IF r \in Sockets THEN 1 ELSE 0)
    PROVE  GInv'
<1> DEFINE rec == Done(rq[r])
<1>a. GatewayTypeOK
  BY DEF GInv
<1>1. /\ rec \in RequestRecord /\ rec.pc = "done"
      /\ rq[r].raced /\ rq[r].lim # {} => rec.raced /\ rec.lim = rq[r].lim
  BY <1>a, DoneRecord, ZenonT(40) DEF GatewayTypeOK
<1>2. rq' = [rq EXCEPT ![r] = rec]
  OBVIOUS
<1> HIDE DEF rec
<1>3. /\ rq' \in [Request -> RequestRecord]
      /\ Open' = Open \ {r} /\ Sockets' = Sockets \ {r}
  BY <1>a, <1>1, <1>2, OneMoves, ZenonT(40) DEF Handling, Limiting
<1>4. RatesInv'
  BY RatesKept DEF GInv
<1>5. GatewayTypeOK'
  BY <1>a, <1>3 DEF GatewayTypeOK
<1>6. LimitInv'
  BY <1>1, <1>2, RequestKeepsLimits, ZenonT(40) DEF peerVars
<1>7. StopWaitsForRequests'
  BY <1>1, <1>2, RequestKeepsStop, ZenonT(40)
<1>8. GaugesAddUp'
  <2>1. Open \in SUBSET Request /\ Sockets \in SUBSET Request
    BY DEF Open, Sockets
  <2>a. Cardinality(Sockets) \in Nat
    BY <2>1, OneRequest, ZenonT(40)
  <2>2. /\ gauge["tcp"] = Cardinality(Open) /\ gauge["ws"] = panics + Cardinality(Sockets)
        /\ gauge'["tcp"] \in Int /\ gauge'["ws"] \in Int /\ panics \in Nat
        /\ gauge["tcp"] \in Int /\ gauge["ws"] \in Int
    BY <1>a DEF GInv, GaugesAddUp, GatewayTypeOK
  <2>3. gauge'["tcp"] = Cardinality(Open')
    <3>1. CASE r \in Open
      BY <1>3, <2>1, <2>2, <3>1, OneRequest, SMTT(30)
    <3>2. CASE r \notin Open
      <4>1. Open' = Open
        BY <1>3, <3>2
      <4> QED
        BY <2>2, <3>2, <4>1, SMTT(30)
    <3> QED
      BY <3>1, <3>2
  <2>4. gauge'["ws"] = panics' + Cardinality(Sockets')
    <3>1. CASE r \in Sockets
      BY <1>3, <2>1, <2>2, <3>1, OneRequest, SMTT(30)
    <3>2. CASE r \notin Sockets
      <4>1. Sockets' = Sockets
        BY <1>3, <3>2, SMTT(30)
      <4> QED
        BY <2>2, <2>a, <3>2, <4>1, SMTT(30)
    <3> QED
      BY <3>1, <3>2, SMTT(30)
  <2> QED
    BY <2>3, <2>4 DEF GaugesAddUp
<1> QED
  BY <1>4, <1>5, <1>6, <1>7, <1>8, SMTT(30) DEF GInv

\* The ends of a request: the connection was over the rate, the gateway answered
\* before it chose a handler, the handler returned, or it panicked.
LEMMA EndsKeepGInv ==
    ASSUME GInv, NEW r \in Request,
           \/ AcceptClosed(r)
           \/ rq[r].pc = "serve" /\ Answer(r)
           \/ rq[r].pc \in Handling /\ Finish(r)
           \/ Panic(r)
    PROVE  GInv'
<1>a. /\ gauge \in [{"tcp", "ws"} -> Int] /\ panics \in Nat /\ rq[r] \in RequestRecord
      /\ gauge["tcp"] \in Int /\ gauge["ws"] \in Int
  BY SMTT(30) DEF GInv, GatewayTypeOK
<1>b. /\ r \in Open <=> rq[r].pc \notin {"new", "hijacked", "done"}
      /\ r \in Sockets <=> rq[r].ws /\ rq[r].pc \in Handling
      /\ {"new", "serve", "done"} \cap Handling = {} /\ "proxy" \in Handling
  BY DEF Open, Sockets, Handling, Limiting
<1>1. CASE AcceptClosed(r)
  <2>1. r \notin Open /\ r \notin Sockets
    BY <1>1, <1>b DEF AcceptClosed
  <2>2. UNCHANGED <<gauge, panics>>
    BY <1>1 DEF AcceptClosed
  <2>3. gauge'["tcp"] = gauge["tcp"] - (IF r \in Open THEN 1 ELSE 0)
    BY <1>a, <2>1, <2>2, SMTT(30)
  <2>4. gauge'["ws"] - panics' = gauge["ws"] - panics - (IF r \in Sockets THEN 1 ELSE 0)
    BY <1>a, <2>1, <2>2
  <2> QED
    BY <1>1, <1>a, <2>2, <2>3, <2>4, Ends, ZenonT(40) DEF AcceptClosed
<1>2. CASE rq[r].pc = "serve" /\ Answer(r)
  <2>1. r \in Open /\ r \notin Sockets
    BY <1>2, <1>b
  <2>2. /\ gauge' \in [{"tcp", "ws"} -> Int] /\ panics' = panics
        /\ gauge'["tcp"] = gauge["tcp"] - 1 /\ gauge'["ws"] = gauge["ws"]
    BY <1>2, <1>a DEF Answer
  <2>3. gauge'["ws"] - panics' = gauge["ws"] - panics - (IF r \in Sockets THEN 1 ELSE 0)
    BY <1>a, <2>1, <2>2
  <2> QED
    BY <1>2, <1>a, <2>1, <2>2, <2>3, Ends, ZenonT(40) DEF Answer
<1>3. CASE rq[r].pc \in Handling /\ Finish(r)
  <2>1. /\ gauge'["ws"] = gauge["ws"] - (IF rq[r].ws THEN 1 ELSE 0)
        /\ gauge'["tcp"] = gauge["tcp"] - (IF rq[r].pc = "hijacked" THEN 0 ELSE 1)
        /\ gauge' = [g \in {"tcp", "ws"} |-> gauge'[g]] /\ panics' = panics
    BY <1>3 DEF Finish
  <2>2. gauge' \in [{"tcp", "ws"} -> Int]
    BY <1>a, <2>1, SMTT(30)
  <2>3. rq[r].pc # "hijacked" <=> r \in Open
    BY <1>3, <1>b
  <2>4. rq[r].ws <=> r \in Sockets
    BY <1>3, <1>b
  <2>5. gauge'["tcp"] = gauge["tcp"] - (IF r \in Open THEN 1 ELSE 0)
    BY <2>1, <2>3
  <2>6. gauge'["ws"] - panics' = gauge["ws"] - panics - (IF r \in Sockets THEN 1 ELSE 0)
    BY <1>a, <2>1, <2>4
  <2> QED
    BY <1>3, <1>a, <2>1, <2>2, <2>5, <2>6, Ends, ZenonT(40) DEF Finish
<1>4. CASE Panic(r)
  <2>1. r \in Open /\ (r \in Sockets <=> rq[r].ws)
    BY <1>4, <1>b DEF Panic
  <2>2. /\ gauge' \in [{"tcp", "ws"} -> Int]
        /\ gauge'["tcp"] = gauge["tcp"] - 1 /\ gauge'["ws"] = gauge["ws"]
        /\ panics' = IF rq[r].ws THEN panics + 1 ELSE panics
    BY <1>4, <1>a, SMTT(30) DEF Panic
  <2>3. /\ panics' \in Nat
        /\ gauge'["ws"] - panics' = gauge["ws"] - panics - (IF r \in Sockets THEN 1 ELSE 0)
    BY <1>a, <2>1, <2>2
  <2> QED
    BY <1>4, <1>a, <2>1, <2>2, <2>3, Ends, ZenonT(40) DEF Panic
<1> QED
  BY <1>1, <1>2, <1>3, <1>4, SMTT(30)

\* A request comes in, is forwarded or is hijacked: it moves, and the gauges with
\* it; no limiter is concerned.
LEMMA Advances ==
    ASSUME GInv, NEW r \in Request, NEW rec \in RequestRecord, rq' = [rq EXCEPT ![r] = rec],
           UNCHANGED <<config, rls, burst, panics, stop, listening, peerVars, rateVars>>,
           gauge' \in [{"tcp", "ws"} -> Int],
           (rq[r].pc = "new" /\ listening) \/ rq[r].pc \in {"serve", "proxy"},
           rec.pc \in {"serve", "rates", "proxy", "hijacked"},
           rec.lim = rq[r].lim, rec.raced = rq[r].raced,
           rec.pc \in {"serve", "rates"} => rq[r].pc \in {"new", "serve"},
           gauge'["tcp"] = Cardinality(Open'),
           gauge'["ws"] = panics + Cardinality(Sockets')
    PROVE  GInv'
<1>a. GatewayTypeOK
  BY DEF GInv
<1>1. rq' \in [Request -> RequestRecord]
  BY <1>a, OneMoves, ZenonT(40)
<1>2. RatesInv'
  BY RatesKept DEF GInv
<1>3. GatewayTypeOK'
  BY <1>a, <1>1 DEF GatewayTypeOK
<1>4. LimitInv'
  <2>1. rec.pc \in {"new", "serve", "rates"} => rec.lim = {}
    BY DEF GInv, LimitInv
  <2> QED
    BY <2>1, RequestKeepsLimits, ZenonT(40) DEF peerVars
<1>5. StopWaitsForRequests'
  BY RequestKeepsStop, ZenonT(40)
<1>6. GaugesAddUp'
  BY DEF GaugesAddUp
<1> QED
  BY <1>2, <1>3, <1>4, <1>5, <1>6, SMTT(30) DEF GInv

\* The record of a request that is forwarded.
Forwarded(rec, pc, action) == [rec EXCEPT !.pc = pc, !.ws = (action = "ws")]

\* It is a websocket if the interceptor said so.
LEMMA ForwardedRecord ==
    ASSUME NEW rec \in RequestRecord, NEW pc \in {"rates", "proxy"}, NEW action
    PROVE  /\ Forwarded(rec, pc, action) \in RequestRecord
           /\ Forwarded(rec, pc, action).pc = pc
           /\ Forwarded(rec, pc, action).lim = rec.lim
           /\ Forwarded(rec, pc, action).raced = rec.raced
           /\ Forwarded(rec, pc, action).ws <=> action = "ws"
<1> DEFINE m == [rec EXCEPT !.pc = pc]
           q == Forwarded(rec, pc, action)
<1>1. m \in RequestRecord /\ m.pc = pc /\ m.lim = rec.lim /\ m.raced = rec.raced
  BY DEF RequestRecord, Handling, Limiting
<1>2. q = [m EXCEPT !.ws = (action = "ws")]
  BY DEF Forwarded
<1> HIDE DEF m, q
<1>3. q \in RequestRecord /\ q.pc = m.pc /\ q.lim = m.lim /\ q.raced = m.raced
  BY <1>1, <1>2, ZenonT(40) DEF RequestRecord
<1>4. q.ws <=> action = "ws"
  BY <1>1, <1>2, ZenonT(40) DEF RequestRecord
<1> QED
  BY <1>1, <1>3, <1>4 DEF q

\* The gauge follows the request that comes in, is forwarded or is hijacked.
LEMMA AdvancesKeepGInv ==
    ASSUME GInv, NEW r \in Request,
           \/ Accept(r)
           \/ rq[r].pc = "serve" /\ \E action : Forward(r, action)
           \/ Hijack(r)
    PROVE  GInv'
<1>a. /\ GatewayTypeOK /\ gauge \in [{"tcp", "ws"} -> Int] /\ panics \in Nat
      /\ rq[r] \in RequestRecord /\ gauge["tcp"] \in Int /\ gauge["ws"] \in Int
  BY SMTT(30) DEF GInv, GatewayTypeOK
<1>b. /\ r \in Open <=> rq[r].pc \notin {"new", "hijacked", "done"}
      /\ r \in Sockets <=> rq[r].ws /\ rq[r].pc \in Handling
      /\ Open \in SUBSET Request /\ Sockets \in SUBSET Request
  BY DEF Open, Sockets
<1>c. {"new", "serve", "done"} \cap Handling = {} /\ {"rates", "proxy", "hijacked"} \subseteq Handling
  BY DEF Handling, Limiting
<1>d. gauge["tcp"] = Cardinality(Open) /\ gauge["ws"] = panics + Cardinality(Sockets)
  BY DEF GInv, GaugesAddUp
<1>e. /\ Cardinality(Open) \in Nat /\ Cardinality(Sockets) \in Nat
      /\ r \notin Open => Cardinality(Open \cup {r}) = Cardinality(Open) + 1
      /\ r \in Open => Cardinality(Open \ {r}) = Cardinality(Open) - 1
      /\ r \notin Sockets => Cardinality(Sockets \cup {r}) = Cardinality(Sockets) + 1
  BY <1>b, OneRequest, ZenonT(40)
<1>1. CASE Accept(r)
  <2> DEFINE rec == [rq[r] EXCEPT !.pc = "serve"]
  <2>1. /\ rec \in RequestRecord /\ rec.pc = "serve"
        /\ rec.lim = rq[r].lim /\ rec.raced = rq[r].raced
    BY <1>a, MovedRecord
  <2>2. rq' = [rq EXCEPT ![r] = rec]
    BY <1>1, <1>a DEF Accept, GatewayTypeOK, RequestRecord
  <2> HIDE DEF rec
  <2>3. rq[r].pc = "new" /\ listening
        /\ UNCHANGED <<config, rls, burst, panics, stop, listening, peerVars, rateVars>>
    BY <1>1 DEF Accept
  <2>4. /\ gauge' \in [{"tcp", "ws"} -> Int]
        /\ gauge'["tcp"] = gauge["tcp"] + 1 /\ gauge'["ws"] = gauge["ws"]
    BY <1>1, <1>a DEF Accept
  <2>m. /\ Open' = IF rec.pc \notin {"new", "hijacked", "done"} THEN Open \cup {r} ELSE Open \ {r}
        /\ Sockets' = IF rec.ws /\ rec.pc \in Handling THEN Sockets \cup {r} ELSE Sockets \ {r}
    BY <1>a, <2>1, <2>2, OneMoves, ZenonT(40)
  <2>5. Open' = Open \cup {r} /\ r \notin Open
    BY <1>b, <2>1, <2>3, <2>m, ZenonT(40)
  <2>6. Sockets' = Sockets
    <3>1. rec.pc \notin Handling /\ r \notin Sockets
      BY <1>b, <1>c, <2>1, <2>3, SMTT(30)
    <3> QED
      BY <2>m, <3>1, SMTT(30)
  <2>7. gauge'["tcp"] = Cardinality(Open') /\ gauge'["ws"] = panics + Cardinality(Sockets')
    BY <1>d, <1>e, <2>4, <2>5, <2>6, SMTT(30)
  <2> QED
    BY <2>1, <2>2, <2>3, <2>4, <2>7, Advances, ZenonT(40)
<1>2. ASSUME rq[r].pc = "serve", NEW action, Forward(r, action)
      PROVE  GInv'
  <2> DEFINE pc == IF config.limited /\ action # "direct" THEN "rates" ELSE "proxy"
             rec == Forwarded(rq[r], pc, action)
  <2>1. rq' = [rq EXCEPT ![r] = rec]
    BY <1>2, <1>a, ZenonT(40) DEF Forward, Forwarded, GatewayTypeOK, RequestRecord
  <2>2. pc \in {"rates", "proxy"}
    BY SMTT(30)
  <2> HIDE DEF pc
  <2>3. /\ rec \in RequestRecord /\ rec.pc = pc /\ rec.lim = rq[r].lim /\ rec.raced = rq[r].raced
        /\ rec.ws <=> action = "ws"
    BY <1>a, <2>2, ForwardedRecord, SMTT(30)
  <2> HIDE DEF rec
  <2>4. UNCHANGED <<config, rls, burst, panics, stop, listening, peerVars, rateVars>>
    BY <1>2, SMTT(30) DEF Forward
  <2>5. /\ gauge' \in [{"tcp", "ws"} -> Int] /\ gauge'["tcp"] = gauge["tcp"]
        /\ gauge'["ws"] = IF action = "ws" THEN gauge["ws"] + 1 ELSE gauge["ws"]
    BY <1>2, <1>a DEF Forward
  <2>m. /\ Open' = IF rec.pc \notin {"new", "hijacked", "done"} THEN Open \cup {r} ELSE Open \ {r}
        /\ Sockets' = IF rec.ws /\ rec.pc \in Handling THEN Sockets \cup {r} ELSE Sockets \ {r}
    BY <1>a, <2>1, <2>3, OneMoves, ZenonT(40)
  <2>6. Open' = Open
    BY <1>2, <1>b, <2>2, <2>3, <2>m, SMTT(30)
  <2>7. r \notin Sockets /\ Sockets' = IF action = "ws" THEN Sockets \cup {r} ELSE Sockets
    <3>1. rec.pc \in Handling /\ r \notin Sockets
      BY <1>2, <1>b, <1>c, <2>2, <2>3, SMTT(30)
    <3> QED
      BY <2>3, <2>m, <3>1, ZenonT(40)
  <2>8. gauge'["tcp"] = Cardinality(Open') /\ gauge'["ws"] = panics + Cardinality(Sockets')
    BY <1>a, <1>d, <1>e, <2>5, <2>6, <2>7, SMTT(30)
  <2> QED
    BY <1>2, <2>1, <2>2, <2>3, <2>4, <2>5, <2>8, Advances, ZenonT(40)
<1>3. CASE Hijack(r)
  <2> DEFINE rec == [rq[r] EXCEPT !.pc = "hijacked"]
  <2>1. /\ rec \in RequestRecord /\ rec.pc = "hijacked" /\ rec.ws = rq[r].ws
        /\ rec.lim = rq[r].lim /\ rec.raced = rq[r].raced
    BY <1>a, <1>c, MovedRecord, SMTT(30)
  <2>2. rq' = [rq EXCEPT ![r] = rec]
    BY <1>3, <1>a DEF Hijack, GatewayTypeOK, RequestRecord
  <2> HIDE DEF rec
  <2>3. /\ rq[r].pc = "proxy"
        /\ UNCHANGED <<config, rls, burst, panics, stop, listening, peerVars, rateVars>>
    BY <1>3 DEF Hijack
  <2>4. /\ gauge' \in [{"tcp", "ws"} -> Int]
        /\ gauge'["tcp"] = gauge["tcp"] - 1 /\ gauge'["ws"] = gauge["ws"]
    BY <1>3, <1>a DEF Hijack
  <2>m. /\ Open' = IF rec.pc \notin {"new", "hijacked", "done"} THEN Open \cup {r} ELSE Open \ {r}
        /\ Sockets' = IF rec.ws /\ rec.pc \in Handling THEN Sockets \cup {r} ELSE Sockets \ {r}
    BY <1>a, <2>1, <2>2, OneMoves, ZenonT(40)
  <2>5. Open' = Open \ {r} /\ r \in Open
    BY <1>b, <2>1, <2>3, <2>m, SMTT(30)
  <2>6. Sockets' = Sockets
    <3>1. rec.pc \in Handling /\ (r \in Sockets <=> rec.ws)
      BY <1>b, <1>c, <2>1, <2>3, SMTT(30)
    <3> QED
      BY <2>m, <3>1, SMTT(30)
  <2>7. gauge'["tcp"] = Cardinality(Open') /\ gauge'["ws"] = panics + Cardinality(Sockets')
    BY <1>d, <1>e, <2>4, <2>5, <2>6, SMTT(30)
  <2> QED
    BY <2>1, <2>2, <2>3, <2>4, <2>7, Advances, ZenonT(40)
<1> QED
  BY <1>1, <1>2, <1>3, SMTT(30)

-----------------------------------------------------------------------------
(* The limiting of a request. *)

\* A step of a request that is being limited: no connection is opened or closed.
LEMMA LimitStep ==
    ASSUME GInv, NEW r \in Request, NEW rec \in RequestRecord, rq' = [rq EXCEPT ![r] = rec],
           UNCHANGED <<config, gauge, panics, stop, listening>>,
           rls' \in [Sources -> SUBSET Request], burst' \in [Request -> Nat],
           rq[r].pc \in Limiting, rec.pc \in Limiting \cup {"proxy"}, rec.ws = rq[r].ws,
           RatesInv', LimitInv'
    PROVE  GInv'
<1>a. GatewayTypeOK
  BY DEF GInv
<1>b. /\ Limiting \cap {"new", "hijacked", "done"} = {} /\ Limiting \subseteq Handling
      /\ "proxy" \in Handling
  BY DEF Limiting, Handling
<1>1. /\ rq' \in [Request -> RequestRecord]
      /\ Open' = IF rec.pc \notin {"new", "hijacked", "done"} THEN Open \cup {r} ELSE Open \ {r}
      /\ Sockets' = IF rec.ws /\ rec.pc \in Handling THEN Sockets \cup {r} ELSE Sockets \ {r}
  BY <1>a, OneMoves, ZenonT(40)
<1>2. Open' = Open
  <2>1. r \in Open /\ rec.pc \notin {"new", "hijacked", "done"}
    BY <1>b DEF Open
  <2> QED
    BY <1>1, <2>1, SMTT(30)
<1>3. Sockets' = Sockets
  <2>1. rec.pc \in Handling /\ (r \in Sockets <=> rec.ws)
    BY <1>b, SMTT(30) DEF Sockets
  <2> QED
    BY <1>1, <2>1
<1>4. GatewayTypeOK'
  BY <1>a, <1>1 DEF GatewayTypeOK
<1>5. StopWaitsForRequests'
  BY <1>b, RequestKeepsStop, ZenonT(40)
<1>6. GaugesAddUp'
  <2>1. gauge["tcp"] = Cardinality(Open) /\ gauge["ws"] = panics + Cardinality(Sockets)
    BY DEF GInv, GaugesAddUp
  <2>2. gauge'["tcp"] = Cardinality(Open') /\ gauge'["ws"] = panics' + Cardinality(Sockets')
    BY <1>2, <1>3, <2>1, SMTT(30)
  <2> QED
    BY <2>2, SMTT(30) DEF GaugesAddUp
<1> QED
  BY <1>4, <1>5, <1>6 DEF GInv

\* A step that sets no limiter, of a request that had none.
LEMMA AskedKept ==
    ASSUME GInv, NEW r \in Request, rq[r].lim = {}, rq'[r].pc # "allow",
           \A q \in Request \ {r} : rq'[q] = rq[q], UNCHANGED <<burst, peers>>
    PROVE  AskedAtShare'
<1>1. ASSUME NEW q \in Request, rq'[q].pc = "allow"
      PROVE  \/ \A l \in rq'[q].lim : burst'[l] = Cardinality(peers') + 1
             \/ \E o \in Request : rq'[o].raced /\ rq'[o].lim = rq'[q].lim
  <2>1. q # r /\ rq'[q] = rq[q]
    BY <1>1, SMTT(30)
  <2>2. rq[q].lim # {}
    BY <1>1, <2>1, ZenonT(40) DEF GInv, LimitInv
  <2>3. CASE \A l \in rq[q].lim : burst[l] = Cardinality(peers) + 1
    BY <2>1, <2>3, SMTT(30)
  <2>4. ASSUME NEW o \in Request, rq[o].raced, rq[o].lim = rq[q].lim
        PROVE  rq'[o].raced /\ rq'[o].lim = rq'[q].lim
    BY <2>1, <2>2, <2>4, SMTT(30)
  <2> QED
    BY <1>1, <2>1, <2>3, <2>4, SMTT(30) DEF GInv, LimitInv, AskedAtShare
<1> QED
  BY <1>1, SMTT(30) DEF AskedAtShare

\* A request sets the rate of its limiter to the share it has read.
LEMMA AskedSet ==
    ASSUME GInv, NEW r \in Request, NEW m \in Request, rq[r].lim = {m},
           rq[r].pc \in {"set", "limit"},
           rq'[r].lim = rq[r].lim, rq'[r].raced = rq[r].raced,
           \A q \in Request \ {r} : rq'[q] = rq[q],
           burst'[m] = rq[r].share, \A l \in Request \ {m} : burst'[l] = burst[l],
           UNCHANGED peers
    PROVE  AskedAtShare'
<1>0. ~rq[r].raced => burst'[m] = Cardinality(peers') + 1
  BY SMTT(30) DEF GInv, LimitInv
<1>1. ASSUME NEW q \in Request, rq'[q].pc = "allow"
      PROVE  \/ \A l \in rq'[q].lim : burst'[l] = Cardinality(peers') + 1
             \/ \E o \in Request : rq'[o].raced /\ rq'[o].lim = rq'[q].lim
  <2>1. CASE rq'[q].lim = {m}
    <3>1. CASE rq[r].raced
      BY <2>1, <3>1, ZenonT(40)
    <3>2. CASE ~rq[r].raced
      BY <1>0, <2>1, <3>2, SMTT(30)
    <3> QED
      BY <3>1, <3>2
  <2>2. CASE rq'[q].lim # {m}
    <3>1. q # r /\ rq'[q] = rq[q]
      BY <2>2, ZenonT(40)
    <3>2. PICK l \in Request : rq[q].lim = {l}
      BY <1>1, <3>1, SMTT(30) DEF GInv, LimitInv
    <3>3. burst'[l] = burst[l]
      BY <2>2, <3>1, <3>2, SMTT(30)
    <3>4. CASE burst[l] = Cardinality(peers) + 1
      BY <3>1, <3>2, <3>3, <3>4, SMTT(30)
    <3>5. ASSUME NEW o \in Request, rq[o].raced, rq[o].lim = rq[q].lim
          PROVE  rq'[o].raced /\ rq'[o].lim = rq'[q].lim
      BY <3>1, <3>5, ZenonT(40)
    <3> QED
      BY <1>1, <3>1, <3>2, <3>4, <3>5, SMTT(30) DEF GInv, LimitInv, AskedAtShare
  <2> QED
    BY <2>1, <2>2, SMTT(30)
<1> QED
  BY <1>1, SMTT(30) DEF AskedAtShare

\* The record of a request whose rates were extracted.
Rated(rec, n, b) == [rec EXCEPT !.pc = "get", !.share = n, !.raced = b]

\* It has the share and the history it was given.
LEMMA RatedRecord ==
    ASSUME NEW rec \in RequestRecord, NEW n \in Nat, NEW b \in BOOLEAN
    PROVE  /\ Rated(rec, n, b) \in RequestRecord /\ Rated(rec, n, b).pc = "get"
           /\ Rated(rec, n, b).ws = rec.ws /\ Rated(rec, n, b).share = n
           /\ Rated(rec, n, b).lim = rec.lim
           /\ Rated(rec, n, b).raced = b
<1> DEFINE m == [rec EXCEPT !.pc = "get", !.share = n]
           q == Rated(rec, n, b)
<1>1. m \in RequestRecord /\ m.pc = "get" /\ m.ws = rec.ws /\ m.share = n /\ m.lim = rec.lim
  BY ZenonT(40) DEF RequestRecord, Handling, Limiting
<1>2. q = [m EXCEPT !.raced = b]
  BY DEF Rated
<1> HIDE DEF m, q
<1>3. q \in RequestRecord /\ q.pc = m.pc /\ q.ws = m.ws /\ q.share = m.share /\ q.lim = m.lim
  BY <1>1, <1>2 DEF RequestRecord
<1>4. q.raced = b
  BY <1>1, <1>2 DEF RequestRecord
<1> QED
  BY <1>1, <1>3, <1>4 DEF q

\* A step of one request keeps what is known of the limiters, if it holds of that
\* request afterwards.
LEMMA LimitsKept ==
    ASSUME GInv, NEW r \in Request, \A q \in Request \ {r} : rq'[q] = rq[q],
           UNCHANGED <<peers, ppc>>,
           \A s \in Sources : rls'[s] = {} \/ \E l \in Request : rls'[s] = {l},
           rq'[r].pc = "get" => rq'[r].lim = {},
           rq'[r].pc \in {"get", "set", "limit", "allow"},
           rq'[r].pc # "get" => \E l \in Request : rq'[r].lim = {l},
           rq'[r].pc = "set" => rq'[r].lim = {r},
           ~rq'[r].raced => ppc' = "idle" /\ rq'[r].share = Cardinality(peers') + 1,
           AskedAtShare'
    PROVE  LimitInv'
<1>1. ASSUME NEW q \in Request
      PROVE  /\ rq'[q].pc \in {"new", "serve", "rates", "get"} => rq'[q].lim = {}
             /\ rq'[q].pc \in {"set", "limit", "allow"} => \E l \in Request : rq'[q].lim = {l}
             /\ rq'[q].pc = "set" => rq'[q].lim = {q}
             /\ rq'[q].pc \in {"get", "set", "limit", "allow"} /\ ~rq'[q].raced =>
                  ppc' = "idle" /\ rq'[q].share = Cardinality(peers') + 1
  <2>1. CASE q = r
    BY <2>1, SMTT(30)
  <2>2. CASE q # r
    <3>1. rq'[q] = rq[q] /\ ppc' = ppc /\ peers' = peers
      BY <2>2, ZenonT(40)
    <3> QED
      BY <3>1, ZenonT(40) DEF GInv, LimitInv
  <2> QED
    BY <2>1, <2>2, ZenonT(40)
<1> QED
  BY <1>1, ZenonT(40) DEF LimitInv

\* The calls of ExtractRates that a request makes.
LEMMA RatesKeepGInv ==
    ASSUME GInv, NEW r \in Request, RatesCall(r) \/ RatesReturn(r)
    PROVE  GInv'
<1>a. r \in Extractor /\ RatesInv /\ GatewayTypeOK /\ rq[r] \in RequestRecord
  BY GatewayAssumption DEF GInv, GatewayTypeOK
<1>1. CASE RatesCall(r)
  <2>1. RatesInv' /\ UNCHANGED <<gatewayVars, peers, ppc>>
    <3>1. ExtractRates(r) /\ UNCHANGED <<gatewayVars, peers, ppc>>
      BY <1>1 DEF RatesCall, ExtractRates, LoadRates, LoadCount, peerVars
    <3> QED
      BY <1>a, <3>1, ExtractKeepsRates, SMTT(30)
  <2>2. UNCHANGED <<config, rq, rls, burst, gauge, panics, stop, listening>>
    BY <2>1, SMTT(30) DEF gatewayVars
  <2>3. GatewayTypeOK'
    BY <1>a, <2>2, SMTT(30) DEF GatewayTypeOK
  <2>4. LimitInv'
    BY <2>1, <2>2, ZenonT(40) DEF GInv, LimitInv, AskedAtShare
  <2>5. GaugesAddUp' /\ StopWaitsForRequests'
    BY <2>2, ZenonT(40) DEF GInv, GaugesAddUp, Open, Sockets, StopWaitsForRequests
  <2> QED
    BY <2>1, <2>3, <2>4, <2>5, SMTT(30) DEF GInv
<1>2. CASE RatesReturn(r)
  <2>1. RatesInv' /\ UNCHANGED <<peers, ppc>> /\ rateSet'.peers # 0
    <3>1. CASE StoreRates(r)
      <4>1. RatesInv'
        BY <1>a, <3>1, ExtractKeepsRates, SMTT(30) DEF ExtractRates
      <4>2. rateSet'.peers = xcall[r].count /\ xcall[r].count > 0
        BY <1>a, <3>1, SMTT(30) DEF StoreRates, RatesInv
      <4> QED
        BY <3>1, <4>1, <4>2, SMTT(30) DEF StoreRates, peerVars
    <3>2. CASE rateSet.peers # 0 /\ UNCHANGED <<peerVars, rateVars>>
      BY <1>a, <3>2, RatesKept DEF peerVars, rateVars
    <3> QED
      BY <1>2, <3>1, <3>2, SMTT(30) DEF RatesReturn
  <2> DEFINE b == (rq[r].raced \/ rateSet'.raced \/ ppc # "idle")
             n == rateSet'.peers
             rec == Rated(rq[r], n, b)
  <2>2. /\ rq[r].pc = "rates" /\ rq' = [rq EXCEPT ![r] = rec]
        /\ UNCHANGED <<config, rls, burst, gauge, panics, stop, listening>>
    BY <1>2, <1>a, ZenonT(40) DEF RatesReturn, Rated, GatewayTypeOK, RequestRecord
  <2>3. n \in Nat /\ b \in BOOLEAN
    BY <2>1, SMTT(30) DEF RatesInv, RatesTypeOK
  <2>4. ~b => ppc = "idle" /\ n = Cardinality(peers) + 1
    BY <2>1, SMTT(30) DEF RatesInv, SharesFollowPeers
  <2> HIDE DEF b, n
  <2>5. /\ rec \in RequestRecord /\ rec.pc = "get" /\ rec.ws = rq[r].ws /\ rec.share = n
        /\ rec.lim = rq[r].lim /\ rec.raced = b
    BY <1>a, <2>3, RatedRecord, SMTT(30)
  <2> HIDE DEF rec
  <2>6. rq'[r] = rec /\ \A q \in Request \ {r} : rq'[q] = rq[q]
    BY <1>a, <2>2, SMTT(30) DEF GatewayTypeOK
  <2>7. rq[r].lim = {}
    BY <2>2, SMTT(30) DEF GInv, LimitInv
  <2>8. AskedAtShare'
    BY <2>1, <2>2, <2>5, <2>6, <2>7, AskedKept, ZenonT(40)
  <2>9. ~rec.raced => ppc' = "idle" /\ rec.share = Cardinality(peers') + 1
    BY <2>1, <2>4, <2>5, SMTT(30)
  <2>10. LimitInv'
    <3>1. \A s \in Sources : rls'[s] = {} \/ \E l \in Request : rls'[s] = {l}
      BY <2>2, ZenonT(40) DEF GInv, LimitInv
    <3>2. rq'[r].pc = "get" /\ rq'[r].lim = {}
      BY <2>5, <2>6, <2>7, ZenonT(40)
    <3>3. ~rq'[r].raced => ppc' = "idle" /\ rq'[r].share = Cardinality(peers') + 1
      BY <2>6, <2>9, ZenonT(40)
    <3> QED
      BY <2>1, <2>6, <2>8, <3>1, <3>2, <3>3, LimitsKept, ZenonT(40)
  <2>11. rq[r].pc \in Limiting /\ rec.pc \in Limiting
    BY <2>2, <2>5, SMTT(30) DEF Limiting
  <2> QED
    BY <1>a, <2>1, <2>2, <2>5, <2>10, <2>11, LimitStep, ZenonT(40) DEF GatewayTypeOK
<1> QED
  BY <1>1, <1>2, SMTT(30)

\* The limiter of a request: found or made, put in the cache, set, and asked.
LEMMA LimitersKeepGInv ==
    ASSUME GInv, NEW r \in Request, GetLimiter(r) \/ SetLimiter(r) \/ SetRate(r) \/ Allow(r)
    PROVE  GInv'
<1>a. /\ RatesInv /\ GatewayTypeOK /\ rq[r] \in RequestRecord /\ rq[r].share \in Nat
      /\ rls \in [Sources -> SUBSET Request] /\ burst \in [Request -> Nat] /\ Source[r] \in Sources
  BY ZenonT(40) DEF GInv, GatewayTypeOK, RequestRecord, Sources
<1>b. Limiting \subseteq Handling /\ {"get", "set", "limit", "allow"} \subseteq Limiting /\ "proxy" \in Handling
  BY DEF Limiting, Handling
<1>1. CASE GetLimiter(r)
  <2> DEFINE cached == rls[Source[r]]
             pc == IF cached = {} THEN "set" ELSE "limit"
             lim == IF cached = {} THEN {r} ELSE cached
             rec == [rq[r] EXCEPT !.pc = pc, !.lim = lim]
  <2>1. /\ rq[r].pc = "get" /\ rq' = [rq EXCEPT ![r] = rec]
        /\ UNCHANGED <<config, rls, burst, gauge, panics, stop, listening, peerVars, rateVars>>
    BY <1>1, <1>a, ZenonT(40) DEF GetLimiter, GatewayTypeOK, RequestRecord
  <2>2. /\ pc \in {"set", "limit"} /\ lim \in SUBSET Request
        /\ \E l \in Request : lim = {l}
        /\ pc = "set" => lim = {r}
    BY <1>a, ZenonT(40) DEF GInv, LimitInv
  <2> HIDE DEF pc, lim
  <2>3. /\ rec \in RequestRecord /\ rec.pc = pc /\ rec.ws = rq[r].ws /\ rec.share = rq[r].share
        /\ rec.lim = lim /\ rec.raced = rq[r].raced
    BY <1>a, <2>2, ZenonT(40) DEF RequestRecord, Handling, Limiting
  <2> HIDE DEF rec
  <2>4. rq'[r] = rec /\ \A q \in Request \ {r} : rq'[q] = rq[q]
    BY <1>a, <2>1, SMTT(30) DEF GatewayTypeOK
  <2>5. rq[r].lim = {} /\ (~rq[r].raced => ppc = "idle" /\ rq[r].share = Cardinality(peers) + 1)
    BY <2>1, ZenonT(40) DEF GInv, LimitInv
  <2>6. UNCHANGED <<peers, ppc>>
    BY <2>1, SMTT(30) DEF peerVars
  <2>7. AskedAtShare'
    BY <2>1, <2>2, <2>3, <2>4, <2>5, <2>6, AskedKept, SMTT(30)
  <2>8. LimitInv'
    <3>1. \A s \in Sources : rls'[s] = {} \/ \E l \in Request : rls'[s] = {l}
      BY <2>1, ZenonT(40) DEF GInv, LimitInv
    <3>2. /\ rq'[r].pc \in {"set", "limit"} /\ \E l \in Request : rq'[r].lim = {l}
          /\ rq'[r].pc = "set" => rq'[r].lim = {r}
      BY <2>2, <2>3, <2>4, ZenonT(40)
    <3>3. ~rq'[r].raced => ppc' = "idle" /\ rq'[r].share = Cardinality(peers') + 1
      BY <2>3, <2>4, <2>5, <2>6, ZenonT(40)
    <3> QED
      BY <2>4, <2>6, <2>7, <3>1, <3>2, <3>3, LimitsKept, ZenonT(40)
  <2>9. rq[r].pc \in Limiting /\ rec.pc \in Limiting
    BY <1>b, <2>1, <2>2, <2>3, ZenonT(40)
  <2>10. RatesInv'
    BY <1>a, <2>1, RatesKept, SMTT(30)
  <2> QED
    BY <1>a, <2>1, <2>3, <2>8, <2>9, <2>10, LimitStep, ZenonT(40)
<1>2. CASE SetLimiter(r)
  <2> DEFINE rec == [rq[r] EXCEPT !.pc = "limit"]
  <2>1. /\ rq[r].pc = "set" /\ rq' = [rq EXCEPT ![r] = rec]
        /\ rls' = [rls EXCEPT ![Source[r]] = {r}] /\ burst' = [burst EXCEPT ![r] = rq[r].share]
        /\ UNCHANGED <<config, gauge, panics, stop, listening, peerVars, rateVars>>
    BY <1>2, <1>a DEF SetLimiter, GatewayTypeOK, RequestRecord
  <2>2. /\ rec \in RequestRecord /\ rec.pc = "limit" /\ rec.ws = rq[r].ws /\ rec.share = rq[r].share
        /\ rec.lim = rq[r].lim /\ rec.raced = rq[r].raced
    BY <1>a, <1>b, MovedRecord, SMTT(30)
  <2> HIDE DEF rec
  <2>3. rq'[r] = rec /\ \A q \in Request \ {r} : rq'[q] = rq[q]
    BY <1>a, <2>1, SMTT(30) DEF GatewayTypeOK
  <2>4. /\ rls' \in [Sources -> SUBSET Request] /\ burst' \in [Request -> Nat]
        /\ burst'[r] = rq[r].share /\ \A l \in Request \ {r} : burst'[l] = burst[l]
        /\ \A s \in Sources : rls'[s] = {r} \/ rls'[s] = rls[s]
    BY <1>a, <2>1, SMTT(30)
  <2>5. rq[r].lim = {r} /\ (~rq[r].raced => ppc = "idle" /\ rq[r].share = Cardinality(peers) + 1)
    BY <2>1, ZenonT(40) DEF GInv, LimitInv
  <2>6. UNCHANGED <<peers, ppc>>
    BY <2>1, SMTT(30) DEF peerVars
  <2>7. AskedAtShare'
    BY <2>1, <2>2, <2>3, <2>4, <2>5, <2>6, AskedSet, ZenonT(40)
  <2>8. LimitInv'
    <3>1. \A s \in Sources : rls'[s] = {} \/ \E l \in Request : rls'[s] = {l}
      BY <2>4, SMTT(30) DEF GInv, LimitInv
    <3>2. rq'[r].pc = "limit" /\ \E l \in Request : rq'[r].lim = {l}
      BY <2>2, <2>3, <2>5, ZenonT(40)
    <3>3. ~rq'[r].raced => ppc' = "idle" /\ rq'[r].share = Cardinality(peers') + 1
      BY <2>2, <2>3, <2>5, <2>6, ZenonT(40)
    <3> QED
      BY <2>3, <2>6, <2>7, <3>1, <3>2, <3>3, LimitsKept, ZenonT(40)
  <2>9. rq[r].pc \in Limiting /\ rec.pc \in Limiting
    BY <1>b, <2>1, <2>2, ZenonT(40)
  <2>10. RatesInv'
    BY <1>a, <2>1, RatesKept, SMTT(30)
  <2> QED
    BY <2>1, <2>2, <2>4, <2>8, <2>9, <2>10, LimitStep, ZenonT(40)
<1>3. CASE SetRate(r)
  <2> DEFINE rec == [rq[r] EXCEPT !.pc = "allow"]
  <2>1. /\ rq[r].pc = "limit" /\ rq' = [rq EXCEPT ![r] = rec]
        /\ burst' = [l \in Request |-> IF l \in rq[r].lim THEN rq[r].share ELSE burst[l]]
        /\ UNCHANGED <<config, rls, gauge, panics, stop, listening, peerVars, rateVars>>
    BY <1>3, <1>a DEF SetRate, Goto, GatewayTypeOK, RequestRecord
  <2>2. /\ rec \in RequestRecord /\ rec.pc = "allow" /\ rec.ws = rq[r].ws /\ rec.share = rq[r].share
        /\ rec.lim = rq[r].lim /\ rec.raced = rq[r].raced
    BY <1>a, <1>b, MovedRecord, SMTT(30)
  <2> HIDE DEF rec
  <2>3. rq'[r] = rec /\ \A q \in Request \ {r} : rq'[q] = rq[q]
    BY <1>a, <2>1, ZenonT(40) DEF GatewayTypeOK
  <2>4. PICK m \in Request : rq[r].lim = {m}
    BY <2>1, ZenonT(40) DEF GInv, LimitInv
  <2>5. /\ burst' \in [Request -> Nat]
        /\ burst'[m] = rq[r].share /\ \A l \in Request \ {m} : burst'[l] = burst[l]
    BY <1>a, <2>1, <2>4, ZenonT(40)
  <2>6. ~rq[r].raced => ppc = "idle" /\ rq[r].share = Cardinality(peers) + 1
    BY <2>1, ZenonT(40) DEF GInv, LimitInv
  <2>7. UNCHANGED <<peers, ppc>>
    BY <2>1, ZenonT(40) DEF peerVars
  <2>8. AskedAtShare'
    <3>1. rq[r].pc \in {"set", "limit"} /\ rq'[r].lim = rq[r].lim /\ rq'[r].raced = rq[r].raced
      BY <2>1, <2>2, <2>3, ZenonT(40)
    <3>2. \A q \in Request \ {r} : rq'[q] = rq[q]
      BY <2>3, SMTT(30)
    <3>3. burst'[m] = rq[r].share /\ \A l \in Request \ {m} : burst'[l] = burst[l]
      BY <2>5
    <3>4. UNCHANGED peers
      BY <2>7, SMTT(30)
    <3> HIDE <2>1, <2>2, <2>3, <2>5, <2>7
    <3> QED
      BY <2>4, <3>1, <3>2, <3>3, <3>4, AskedSet, ZenonT(40)
  <2>9. LimitInv'
    <3>1. \A s \in Sources : rls'[s] = {} \/ \E l \in Request : rls'[s] = {l}
      BY <2>1, ZenonT(40) DEF GInv, LimitInv
    <3>2. rq'[r].pc = "allow" /\ \E l \in Request : rq'[r].lim = {l}
      BY <2>2, <2>3, <2>4, ZenonT(40)
    <3>3. ~rq'[r].raced => ppc' = "idle" /\ rq'[r].share = Cardinality(peers') + 1
      BY <2>2, <2>3, <2>6, <2>7, ZenonT(40)
    <3> QED
      BY <2>3, <2>7, <2>8, <3>1, <3>2, <3>3, LimitsKept, ZenonT(40)
  <2>10. rq[r].pc \in Limiting /\ rec.pc \in Limiting
    BY <1>b, <2>1, <2>2, ZenonT(40)
  <2>11. RatesInv'
    BY <1>a, <2>1, RatesKept, ZenonT(40)
  <2> QED
    BY <1>a, <2>1, <2>2, <2>5, <2>9, <2>10, <2>11, LimitStep, ZenonT(40)
<1>4. CASE Allow(r)
  <2> DEFINE rec == [rq[r] EXCEPT !.pc = "proxy"]
  <2>1. /\ rq[r].pc = "allow" /\ rq' = [rq EXCEPT ![r] = rec]
        /\ UNCHANGED <<config, rls, burst, gauge, panics, stop, listening, peerVars, rateVars>>
    BY <1>4, <1>a DEF Allow, Goto, GatewayTypeOK, RequestRecord
  <2>2. /\ rec \in RequestRecord /\ rec.pc = "proxy" /\ rec.ws = rq[r].ws
        /\ rec.lim = rq[r].lim /\ rec.raced = rq[r].raced
    BY <1>a, <1>b, MovedRecord
  <2> HIDE DEF rec
  <2>3. LimitInv'
    BY <2>1, <2>2, RequestKeepsLimits, ZenonT(40) DEF peerVars
  <2>4. rq[r].pc \in Limiting
    BY <1>b, <2>1, SMTT(30)
  <2>5. RatesInv'
    BY <1>a, <2>1, RatesKept, SMTT(30)
  <2> QED
    BY <1>a, <2>1, <2>2, <2>3, <2>4, <2>5, LimitStep, ZenonT(40)
<1> QED
  BY <1>1, <1>2, <1>3, <1>4, SMTT(30)

-----------------------------------------------------------------------------
(* The gateway. *)

\* Every step of a request.
LEMMA RequestKeepsGInv ==
    ASSUME GInv, NEW r \in Request, Accept(r) \/ AcceptClosed(r) \/ Serve(r)
    PROVE  GInv'
<1>a. {"rates", "allow", "proxy", "hijacked"} \subseteq Handling
  BY SMTT(30) DEF Handling, Limiting
<1>1. CASE Options(r) \/ Maintenance(r)
  BY <1>1, EndsKeepGInv, SMTT(30) DEF Options, Maintenance
<1>2. ASSUME NEW ex \in InterceptorResult, NEW px \in InterceptorResult, NEW sx \in InterceptorResult,
             Intercept(r, ex, px, sx)
      PROVE  GInv'
  <2>1. rq[r].pc = "serve" /\ (Answer(r) \/ \E action : Forward(r, action))
    BY <1>2, ZenonT(40) DEF Intercept
  <2> QED
    BY <2>1, EndsKeepGInv, AdvancesKeepGInv, ZenonT(40)
<1>3. CASE BreakerOpen(r) \/ SourceFails(r) \/ Refuse(r) \/ Proxied(r)
  <2>1. rq[r].pc \in Handling /\ Finish(r)
    BY <1>3, <1>a, SMTT(30) DEF BreakerOpen, SourceFails, Refuse, Proxied
  <2> QED
    BY <2>1, EndsKeepGInv, ZenonT(40)
<1> QED
  BY <1>1, <1>2, <1>3, EndsKeepGInv, AdvancesKeepGInv, RatesKeepGInv, LimitersKeepGInv, ZenonT(40) DEF Serve

\* A limiter leaves the cache.
LEMMA ExpireKeepsGInv ==
    ASSUME GInv, NEW s \in Sources, Expire(s)
    PROVE  GInv'
<1>1. RatesInv'
  BY RatesKept, SMTT(30) DEF GInv, Expire
<1>2. /\ UNCHANGED <<config, rq, burst, gauge, panics, stop, listening, peers, ppc>>
      /\ rls' = [rls EXCEPT ![s] = {}]
  BY SMTT(30) DEF Expire, peerVars
<1>3. GatewayTypeOK'
  BY <1>2, SMTT(30) DEF GInv, GatewayTypeOK
<1>4. LimitInv'
  BY <1>2, ZenonT(40) DEF GInv, GatewayTypeOK, LimitInv, AskedAtShare
<1>5. GaugesAddUp' /\ StopWaitsForRequests'
  BY <1>2, SMTT(30) DEF GInv, GaugesAddUp, Open, Sockets, StopWaitsForRequests
<1> QED
  BY <1>1, <1>3, <1>4, <1>5, SMTT(30) DEF GInv

\* A step of listenPeers: it overtakes the requests that are being limited.
LEMMA PeersKeepGInv ==
    ASSUME GInv, GPeersStep
    PROVE  GInv'
<1>1. RatesInv'
  BY ListenPeersKeepsRates DEF GInv, GPeersStep
<1>2. UNCHANGED <<config, rls, burst, gauge, panics, stop, listening>>
  BY DEF GPeersStep
<1>3. rq' \in [Request -> RequestRecord]
  <2>1. ASSUME NEW rec \in RequestRecord, NEW b \in BOOLEAN
        PROVE  [rec EXCEPT !.raced = b] \in RequestRecord
    BY <2>1 DEF RequestRecord
  <2>2. ASSUME NEW r \in Request
        PROVE  [rq[r] EXCEPT !.raced = @ \/ rq[r].pc \in Limiting] \in RequestRecord
    <3>1. rq[r] \in RequestRecord /\ (rq[r].raced \/ rq[r].pc \in Limiting) \in BOOLEAN
      BY DEF GInv, GatewayTypeOK
    <3> QED
      BY <2>1, <3>1, ZenonT(40)
  <2> QED
    BY <2>2 DEF GPeersStep
<1>4. \A r \in Request :
        /\ rq'[r].pc = rq[r].pc /\ rq'[r].ws = rq[r].ws /\ rq'[r].share = rq[r].share
        /\ rq'[r].lim = rq[r].lim
  BY DEF GInv, GatewayTypeOK, GPeersStep, RequestRecord
<1>5. \A r \in Request : rq[r].pc \in {"get", "set", "limit", "allow"} => rq'[r].raced
  BY ZenonT(40) DEF GInv, GatewayTypeOK, GPeersStep, RequestRecord, Limiting
<1>6. GatewayTypeOK'
  BY <1>2, <1>3, SMTT(30) DEF GInv, GatewayTypeOK
<1>7. AskedAtShare'
  BY <1>4, <1>5, SMTT(30) DEF AskedAtShare
<1>8. LimitInv'
  BY <1>2, <1>4, <1>5, <1>7, SMTT(30) DEF GInv, LimitInv
<1>9. GaugesAddUp'
  <2>1. Open' = Open
    BY <1>4, SMTT(30) DEF Open
  <2>2. Sockets' = Sockets
    BY <1>4, SMTT(30) DEF Sockets
  <2> QED
    BY <1>2, <2>1, <2>2, ZenonT(40) DEF GInv, GaugesAddUp
<1>10. StopWaitsForRequests'
  BY <1>2, <1>4, SMTT(30) DEF GInv, StopWaitsForRequests
<1> QED
  BY <1>1, <1>6, <1>8, <1>9, <1>10, SMTT(30) DEF GInv

\* A step of Stop: it goes on without a timeout only when no request is left.
LEMMA StopKeepsGInv ==
    ASSUME GInv, StopNext
    PROVE  GInv'
<1> DEFINE St == [pc : {"off", "draining", "closing", "returned"}, timeout : BOOLEAN,
                  goodbye : {"off", "trying", "serving", "ended"}]
<1>a. stop \in St
  BY DEF GInv, GatewayTypeOK
<1>1. UNCHANGED <<config, rq, rls, burst, gauge, panics, peerVars, rateVars>>
  BY DEF StopNext, Stop, CloseListener, Drained, DrainTimeout, GoodbyeListens, GoodbyeFails,
         GoodbyeShutdown, StopStep
<1>2. RatesInv'
  BY <1>1, RatesKept, SMTT(30) DEF GInv
<1>3. LimitInv' /\ GaugesAddUp'
  BY <1>1, ZenonT(40) DEF GInv, LimitInv, AskedAtShare, GaugesAddUp, Open, Sockets, peerVars
<1>4. stop' \in St
  BY <1>a, ZenonT(40) DEF StopNext, Stop, CloseListener, Drained, DrainTimeout, GoodbyeListens, GoodbyeFails,
              GoodbyeShutdown, StopStep
<1>5. listening' \in BOOLEAN
  BY ZenonT(40) DEF GInv, GatewayTypeOK, StopNext, Stop, CloseListener, Drained, DrainTimeout,
         GoodbyeListens, GoodbyeFails, GoodbyeShutdown
<1>6. StopWaitsForRequests'
  <2> USE <1>1, <1>a DEF GInv, StopWaitsForRequests
  <2>1. CASE Stop
    BY <2>1, SMTT(30) DEF Stop, StopStep
  <2>2. CASE CloseListener
    BY <2>2 DEF CloseListener, StopStep
  <2>3. CASE Drained
    BY <2>3 DEF Drained, StopStep
  <2>4. CASE DrainTimeout
    BY <2>4 DEF DrainTimeout, StopStep
  <2>5. CASE GoodbyeListens \/ GoodbyeFails
    BY <2>5 DEF GoodbyeListens, GoodbyeFails, StopStep
  <2>6. CASE GoodbyeShutdown
    BY <2>6, SMTT(30) DEF GoodbyeShutdown, StopStep
  <2> QED
    BY <2>1, <2>2, <2>3, <2>4, <2>5, <2>6, SMTT(30) DEF StopNext
<1>7. GatewayTypeOK'
  BY <1>1, <1>4, <1>5, SMTT(30) DEF GInv, GatewayTypeOK
<1> QED
  BY <1>2, <1>3, <1>6, <1>7, SMTT(30) DEF GInv

\* The gateway starts without requests.
LEMMA GInvInit == GInit => GInv
<1> SUFFICES ASSUME GInit
             PROVE  GInv
  OBVIOUS
<1> DEFINE rec == [pc |-> "new", ws |-> FALSE, share |-> 0, lim |-> {}, raced |-> FALSE]
<1>1. RatesInv
  BY RatesInvInit, SMTT(30) DEF GInit
<1>2. rec \in RequestRecord /\ rec.pc = "new" /\ rec.ws = FALSE /\ rec.lim = {}
  BY ZenonT(40) DEF RequestRecord
<1>3. rq = [r \in Request |-> rec]
  BY ZenonT(40) DEF GInit
<1> HIDE DEF rec
<1>4. /\ rq \in [Request -> RequestRecord]
      /\ \A r \in Request : rq[r].pc = "new" /\ rq[r].ws = FALSE /\ rq[r].lim = {}
  BY <1>2, <1>3, SMTT(30)
<1>5. GatewayTypeOK
  <2>1. config \in [maintenance : BOOLEAN, limited : BOOLEAN]
    BY ZenonT(40) DEF GInit
  <2>2. rls \in [Sources -> SUBSET Request] /\ burst \in [Request -> Nat]
        /\ gauge \in [{"tcp", "ws"} -> Int] /\ panics \in Nat
    BY SMTT(30) DEF GInit
  <2>3. stop \in [pc : {"off", "draining", "closing", "returned"}, timeout : BOOLEAN,
                  goodbye : {"off", "trying", "serving", "ended"}]
    BY SMTT(30) DEF GInit
  <2>4. listening \in BOOLEAN
    BY SMTT(30) DEF GInit
  <2> QED
    BY <1>4, <2>1, <2>2, <2>3, <2>4, SMTT(30) DEF GatewayTypeOK
<1>6. LimitInv
  BY <1>4, ZenonT(40) DEF GInit, LimitInv, AskedAtShare
<1>7. GaugesAddUp
  <2>1. Open = {} /\ Sockets = {}
    BY <1>4, ZenonT(40) DEF Open, Sockets
  <2>2. gauge["tcp"] = 0 /\ gauge["ws"] = 0 /\ panics = 0
    BY ZenonT(40) DEF GInit
  <2> QED
    BY <2>1, <2>2, FS_EmptySet, SMTT(30) DEF GaugesAddUp
<1>8. StopWaitsForRequests
  BY DEF GInit, StopWaitsForRequests
<1> QED
  BY <1>1, <1>5, <1>6, <1>7, <1>8, SMTT(30) DEF GInv

\* Every step keeps the invariant.
LEMMA GInvNext == GInv /\ [GNext]_gVars => GInv'
<1> SUFFICES ASSUME GInv, [GNext]_gVars
             PROVE  GInv'
  OBVIOUS
<1>1. CASE UNCHANGED gVars
  <2>1. /\ UNCHANGED <<config, rq, rls, burst, gauge, panics, stop, listening>>
        /\ UNCHANGED <<peerVars, rateVars>>
    BY <1>1, SMTT(30) DEF gVars, gatewayVars
  <2>2. RatesInv'
    BY <2>1, RatesKept, SMTT(30) DEF GInv
  <2>3. UNCHANGED <<peers, ppc>>
    BY <2>1, SMTT(30) DEF peerVars
  <2>4. GatewayTypeOK'
    BY <2>1, <2>3, SMTT(30) DEF GInv, GatewayTypeOK
  <2>5. AskedAtShare'
    BY <2>1, <2>3, ZenonT(40) DEF GInv, LimitInv, AskedAtShare
  <2>6. LimitInv'
    BY <2>1, <2>3, <2>5, ZenonT(40) DEF GInv, LimitInv
  <2>7. GaugesAddUp'
    BY <2>1, ZenonT(40) DEF GInv, GaugesAddUp, Open, Sockets
  <2>8. StopWaitsForRequests'
    BY <2>1 DEF GInv, StopWaitsForRequests
  <2> QED
    BY <2>2, <2>4, <2>6, <2>7, <2>8, SMTT(30) DEF GInv
<1> QED
  BY <1>1, RequestKeepsGInv, ExpireKeepsGInv, PeersKeepGInv, StopKeepsGInv, SMTT(30) DEF GNext

\* In every state of the gateway the invariant holds.
THEOREM GInvariant == GSpec => []GInv
BY GInvInit, GInvNext, PTL DEF GSpec

\* The variables of the gateway keep their types.
THEOREM GTypeCorrect == GSpec => []GTypeOK
<1>1. GInv => GTypeOK
  BY SMTT(30) DEF GInv, RatesInv, GatewayTypeOK, GTypeOK, RequestRecord
<1> QED
  BY <1>1, GInvariant, PTL

\* The share in use is that of the peers, unless ExtractRates was overtaken.
THEOREM SharesFollow == GSpec => []SharesFollowPeers
<1>1. GInv => SharesFollowPeers
  BY DEF GInv, RatesInv
<1> QED
  BY <1>1, GInvariant, PTL

\* The limiter that a request asks has this gateway's share, unless a change of
\* peers overtook a request that uses it.
THEOREM AskedShare == GSpec => []AskedAtShare
<1>1. GInv => AskedAtShare
  BY SMTT(30) DEF GInv, LimitInv
<1> QED
  BY <1>1, GInvariant, PTL

\* The gauges count the open connections and the websockets: none is missed, and
\* none is counted that is gone before the handler of one has panicked.
THEOREM GaugesCount == GSpec => []GaugesCountConnections
<1>1. GInv => GaugesCountConnections
  <2> SUFFICES ASSUME GInv
               PROVE  GaugesCountConnections
    OBVIOUS
  <2>1. GaugesAddUp /\ panics \in Nat
    BY DEF GInv, GatewayTypeOK
  <2>2. Cardinality(Sockets) \in Nat
    <3>1. Sockets \in SUBSET Request
      BY DEF Sockets
    <3>2. IsFiniteSet(Sockets)
      BY <3>1, FS_Subset, GatewayAssumption
    <3> QED
      BY <3>2, FS_CardinalityType
  <2> QED
    BY <2>1, <2>2 DEF GaugesAddUp, GaugesCountConnections
<1> QED
  BY <1>1, GInvariant, PTL

\* Stop returns with no request left, unless its wait timed out.
THEOREM StopWaits == GSpec => []StopWaitsForRequests
<1>1. GInv => StopWaitsForRequests
  BY DEF GInv
<1> QED
  BY <1>1, GInvariant, PTL

-----------------------------------------------------------------------------
(* The address during Stop. *)

\* Stop and its goodbye server: the goodbye server comes with Stop, and it answers
\* only where the gateway has closed its listener, while Stop has not returned.
\* The two servers are never at the address together, and Stop leaves no goodbye
\* server behind, in whichever order listeners open, close and time out.
AddressHandedOver ==
    /\ stop.goodbye = "off" <=> stop.pc = "off"
    /\ stop.goodbye = "serving" => ~listening /\ stop.pc \in {"draining", "closing"}

\* Only Stop and what it starts move the listener and the goodbye server.
LEMMA OnlyStopHandsOver ==
    ASSUME [GNext]_gVars
    PROVE  StopNext \/ UNCHANGED <<stop, listening>>
<1>1. CASE UNCHANGED gVars
  BY <1>1, ZenonT(40) DEF gVars, gatewayVars
<1>2. ASSUME NEW r \in Request, Accept(r) \/ AcceptClosed(r) \/ Serve(r)
      PROVE  UNCHANGED <<stop, listening>>
  <2>1. CASE Accept(r) \/ AcceptClosed(r)
    BY <2>1, ZenonT(40) DEF Accept, AcceptClosed
  <2>2. CASE Options(r) \/ Maintenance(r) \/ \E ex, px, sx \in InterceptorResult : Intercept(r, ex, px, sx)
    BY <2>2, ZenonT(40) DEF Options, Maintenance, Intercept, Answer, Forward
  <2>3. CASE BreakerOpen(r) \/ SourceFails(r) \/ Refuse(r) \/ Proxied(r)
    BY <2>3, ZenonT(40) DEF BreakerOpen, SourceFails, Refuse, Proxied, Finish
  <2>4. CASE RatesCall(r) \/ RatesReturn(r)
    BY <2>4, ZenonT(40) DEF RatesCall, RatesReturn, gatewayVars
  <2>5. CASE GetLimiter(r) \/ SetLimiter(r) \/ SetRate(r) \/ Allow(r)
    BY <2>5, ZenonT(40) DEF GetLimiter, SetLimiter, SetRate, Allow, Goto
  <2>6. CASE Hijack(r) \/ Panic(r)
    BY <2>6, ZenonT(40) DEF Hijack, Panic
  <2> QED
    BY <1>2, <2>1, <2>2, <2>3, <2>4, <2>5, <2>6, ZenonT(40) DEF Serve
<1>3. CASE \E s \in Sources : Expire(s)
  BY <1>3, ZenonT(40) DEF Expire
<1>4. CASE GPeersStep
  BY <1>4, ZenonT(40) DEF GPeersStep
<1> QED
  BY <1>1, <1>2, <1>3, <1>4, ZenonT(40) DEF GNext

\* The steps of Stop hand the address over.
LEMMA StopHandsOver ==
    ASSUME GatewayTypeOK, AddressHandedOver, StopNext
    PROVE  AddressHandedOver'
<1>1. stop \in [pc : {"off", "draining", "closing", "returned"}, timeout : BOOLEAN,
                goodbye : {"off", "trying", "serving", "ended"}]
  BY ZenonT(40) DEF GatewayTypeOK
<1> USE <1>1 DEF AddressHandedOver, StopStep
<1>2. CASE Stop
  BY <1>2 DEF Stop
<1>3. CASE CloseListener
  BY <1>3, ZenonT(40) DEF CloseListener
<1>4. CASE Drained
  BY <1>4 DEF Drained
<1>5. CASE DrainTimeout
  BY <1>5 DEF DrainTimeout
<1>6. CASE GoodbyeListens
  BY <1>6 DEF GoodbyeListens
<1>7. CASE GoodbyeFails
  BY <1>7 DEF GoodbyeFails
<1>8. CASE GoodbyeShutdown
  BY <1>8 DEF GoodbyeShutdown
<1> QED
  BY <1>2, <1>3, <1>4, <1>5, <1>6, <1>7, <1>8, ZenonT(40) DEF StopNext

\* The goodbye server is at the address only between the gateway and the end of
\* Stop.
THEOREM AddressIsHandedOver == GSpec => []AddressHandedOver
<1>1. GInit => AddressHandedOver
  BY DEF GInit, AddressHandedOver
<1>2. GInv /\ AddressHandedOver /\ [GNext]_gVars => AddressHandedOver'
  <2> SUFFICES ASSUME GInv, AddressHandedOver, [GNext]_gVars
               PROVE  AddressHandedOver'
    BY ZenonT(40)
  <2>1. CASE StopNext
    BY <2>1, StopHandsOver, ZenonT(40) DEF GInv
  <2>2. CASE UNCHANGED <<stop, listening>>
    BY <2>2, ZenonT(40) DEF AddressHandedOver
  <2> QED
    BY <2>1, <2>2, OnlyStopHandsOver, ZenonT(40)
<1> QED
  BY <1>1, <1>2, GInvariant, PTL DEF GSpec
=============================================================================
