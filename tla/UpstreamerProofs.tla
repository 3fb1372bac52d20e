-------------------------- MODULE UpstreamerProofs --------------------------
(***************************************************************************)
(* The push upstreamer, for any services, callers and peers: what Upstream *)
(* weighs stays in the table, and, where endpoints announce one limiter,   *)
(* it has this gateway's share of the burst whenever Upstream asks it.     *)
(***************************************************************************)
EXTENDS Upstreamer, TableProofs

\* Upstream has read the number of peers; it has read the date of the last
\* change of it too.
Counted == {"date", "adjust", "mark", "choose"}
Dated == {"adjust", "mark", "choose"}

CallRecord ==
    [pc : Locked \cup {"idle", "returned"}, key : SUBSET Api, eps : SUBSET Endpoint,
     count : Nat, date : Nat, need : SUBSET Endpoint, raced : BOOLEAN]

OneLimiter == \A s \in Service : Cardinality({k \in Api : APILimiters[s][k] # NoLimiter}) <= 1

\* The limiters of e have the share of the peers there are, or one was set in a
\* race.
AtShare(e) ==
    ~limiters[e].raced =>
      \A k \in Api : Limits(e, k) =>
        limiters[e].burst[k] = APILimiters[e[1]][k] \div (peersCount + 1)

\* The counter and the date of its last change.
PeersInv ==
    /\ RatesTypeOK
    /\ peersCount = Cardinality(peers)
    /\ changeDate = 0 /\ ppc # "date" => peersCount = 0
    /\ ppc = "rates" => changeDate > 0

\* What a call in progress has read.
CallInv ==
    \A c \in Caller :
      /\ call[c].pc \in Locked => c \in readers /\ \E k \in Api : call[c].key = {k}
      /\ call[c].pc \in Counted => call[c].count > 0
      /\ call[c].pc \in Dated => call[c].date <= changeDate
      /\ call[c].pc \in Counted /\ ~call[c].raced =>
           ppc = "idle" /\ call[c].count = peersCount + 1
      /\ call[c].pc \in Dated /\ ~call[c].raced => call[c].date = changeDate

\* A limiter that carries the date of the last change has the share that goes
\* with it; so has one that is about to be marked with that date, and one that a
\* call which no change overtook is about to ask.  Between the change of the
\* counter and that of the date nothing is claimed.
LimiterInv ==
    /\ \A e \in Endpoint : limiters[e].adjusted <= changeDate
    /\ ppc # "date" => \A e \in Endpoint : limiters[e].adjusted = changeDate => AtShare(e)
    /\ ppc # "date" => \A c \in Caller :
         call[c].pc = "mark" /\ call[c].date = changeDate =>
           \A e \in call[c].need : AtShare(e)
    /\ \A c \in Caller : call[c].pc \in {"mark", "choose"} /\ ~call[c].raced =>
         \A e \in call[c].eps : (\A k \in call[c].key : Limits(e, k)) => AtShare(e)

UInv ==
    /\ NotifierTypeOK /\ ServiceInv /\ readers \in SUBSET Caller
    /\ call \in [Caller -> CallRecord]
    /\ PeersInv
    /\ CallInv
    /\ CallsSeeTheTable
    /\ OneLimiter => LimiterInv

-----------------------------------------------------------------------------
(* The peers. *)

\* One change of the counter, of the date, or of the rates.
LEMMA ListenPeersSteps ==
    ASSUME PeersInv, listenPeers
    PROVE  \/ /\ ppc = "idle" /\ ppc' = "date" /\ changeDate' = changeDate
           \/ /\ ppc = "date" /\ ppc' = "rates" /\ changeDate' = changeDate + 1
              /\ UNCHANGED <<peers, peersCount>>
           \/ /\ ppc = "rates" /\ ppc' = "idle"
              /\ UNCHANGED <<peers, peersCount, changeDate>>
BY ZenonT(40) DEF listenPeers, PeerHello, PeerGoodbye, CleanPeers, PeersBecome, StoreChangeDate, ClearRates

\* peersCount counts the peers, whichever of them come, go or are forgotten.
LEMMA ListenPeersKeepsPeers ==
    ASSUME PeersInv, listenPeers
    PROVE  PeersInv'
<1>1. ASSUME NEW ps \in SUBSET Peer, PeersBecome(ps)
      PROVE  PeersInv'
  <2>1. /\ IsFiniteSet(ps) /\ IsFiniteSet(peers)
        /\ Cardinality(ps) \in Nat /\ Cardinality(peers) \in Nat
    BY RatesAssumption, FS_Subset, FS_CardinalityType DEF PeersInv, RatesTypeOK
  <2>2. peersCount' = Cardinality(peers') /\ peersCount' \in Nat
    BY <1>1, <2>1 DEF PeersBecome, PeersInv
  <2>3. xcall' \in [Extractor -> [pc : {"idle", "count", "store"}, count : Nat, raced : BOOLEAN]]
    BY <1>1, ZenonT(40) DEF PeersBecome, PeersInv, RatesTypeOK
  <2> QED
    BY <1>1, <2>2, <2>3 DEF PeersBecome, PeersInv, RatesTypeOK
<1>2. ASSUME NEW p \in Peer, PeerHello(p) \/ PeerGoodbye(p)
      PROVE  PeersInv'
  <2>1. peers \cup {p} \in SUBSET Peer /\ peers \ {p} \in SUBSET Peer
    BY DEF PeersInv, RatesTypeOK
  <2> QED
    BY <1>1, <1>2, <2>1 DEF PeerHello, PeerGoodbye
<1>3. ASSUME NEW ps \in SUBSET peers, CleanPeers(ps)
      PROVE  PeersInv'
  <2>1. peers \ ps \in SUBSET Peer
    BY DEF PeersInv, RatesTypeOK
  <2> QED
    BY <1>1, <1>3, <2>1 DEF CleanPeers
<1>4. CASE StoreChangeDate
  BY <1>4 DEF StoreChangeDate, rateVars, PeersInv, RatesTypeOK
<1>5. CASE ClearRates
  <2>1. emptyRateSet \in [peers : Nat, raced : BOOLEAN]
    BY DEF emptyRateSet
  <2> QED
    BY <1>5, <2>1 DEF ClearRates, PeersInv, RatesTypeOK
<1> QED
  BY <1>2, <1>3, <1>4, <1>5 DEF listenPeers

\* The callers of ExtractRates change nothing but their own state and the set.
LEMMA ExtractKeepsPeers ==
    ASSUME PeersInv, NEW x \in Extractor, ExtractRates(x)
    PROVE  PeersInv' /\ UNCHANGED peerVars
<1> DEFINE Rec == [pc : {"idle", "count", "store"}, count : Nat, raced : BOOLEAN]
<1>0. xcall \in [Extractor -> Rec] /\ XIdle \in Rec
  BY DEF PeersInv, RatesTypeOK, XIdle
<1>1. CASE LoadRates(x)
  <2>1. xcall' \in [Extractor -> Rec]
    BY <1>0, <1>1 DEF LoadRates
  <2> QED
    BY <1>1, <2>1 DEF LoadRates, peerVars, PeersInv, RatesTypeOK
<1>2. CASE LoadCount(x)
  <2>1. [pc |-> "store", count |-> peersCount + 1, raced |-> FALSE] \in Rec
    BY DEF PeersInv, RatesTypeOK
  <2>2. xcall' \in [Extractor -> Rec]
    BY <1>0, <1>2, <2>1 DEF LoadCount
  <2> QED
    BY <1>2, <2>2 DEF LoadCount, peerVars, PeersInv, RatesTypeOK
<1>3. CASE StoreRates(x)
  <2>1. xcall' \in [Extractor -> Rec]
    BY <1>0, <1>3 DEF StoreRates
  <2>2. rateSet' \in [peers : Nat, raced : BOOLEAN]
    BY <1>0, <1>3 DEF StoreRates
  <2> QED
    BY <1>3, <2>1, <2>2 DEF StoreRates, peerVars, PeersInv, RatesTypeOK
<1> QED
  BY <1>1, <1>2, <1>3 DEF ExtractRates

\* A step that leaves the peers alone.
LEMMA PeersKept ==
    ASSUME PeersInv, UNCHANGED <<peerVars, rateVars>>
    PROVE  PeersInv'
BY DEF PeersInv, RatesTypeOK, peerVars, rateVars

-----------------------------------------------------------------------------
(* The services. *)

\* listenServices makes the limiters of one new endpoint, while nobody reads the
\* table, or none.
LEMMA ListenLimiters ==
    ASSUME listenServices
    PROVE  \/ limiters' = limiters
           \/ readers = {} /\ \E e \in Endpoint : limiters' = [limiters EXCEPT ![e] = NewLimiters(e)]
<1>1. ASSUME NEW n \in Notifier, HelloNew(n)
      PROVE  readers = {} /\ \E e \in Endpoint : limiters' = [limiters EXCEPT ![e] = NewLimiters(e)]
  BY <1>1, NotifierEndpoint, ZenonT(40) DEF HelloNew, handleAddServicePing
<1>2. ASSUME NEW n \in Notifier, HelloAgain(n) \/ GoodbyeUnknown(n) \/ GoodbyeKnown(n)
      PROVE  limiters' = limiters
  BY <1>2 DEF HelloAgain, GoodbyeUnknown, GoodbyeKnown, serviceVars
<1>3. ASSUME NEW e \in Endpoint, Age(e) \/ Sweep(e)
      PROVE  limiters' = limiters
  BY <1>3, SMTT(30) DEF Age, Sweep
<1> QED
  BY <1>1, <1>2, <1>3 DEF listenServices, ReceivePing

\* A share that is right stays right while the limiter and the counter do.
LEMMA ShareKept ==
    ASSUME NEW e, AtShare(e), limiters'[e] = limiters[e], peersCount' = peersCount
    PROVE  AtShare(e)'
BY SMTT(30) DEF AtShare, Limits

\* New limiters are as announced, which is the share without peers.
LEMMA NewAtShare ==
    ASSUME NEW e \in Endpoint, limiters'[e] = NewLimiters(e), peersCount' = 0
    PROVE  AtShare(e)'
<1>1. APILimiters[e[1]] \in [Api -> Nat \cup {NoLimiter}]
  BY EndpointType, TableAssumption, SMTT(30)
<1>2. \A k \in Api : Limits(e, k) => APILimiters[e[1]][k] = APILimiters[e[1]][k] \div (0 + 1)
  BY <1>1 DEF Limits
<1> QED
  BY <1>2 DEF AtShare, Limits, NewLimiters

\* A step of listenServices, beside calls of Upstream.
LEMMA ListenKeepsUInv ==
    ASSUME UInv, listenServices, UNCHANGED <<peerVars, rateVars, call>>
    PROVE  UInv'
<1> USE DEF UInv
<1>1. NotifierTypeOK' /\ readers' = readers /\ (apis' = apis \/ readers = {})
  BY ListenFrame
<1>2. ServiceInv'
  BY ListenKeepsServices
<1>3. PeersInv'
  BY PeersKept
<1>4. CallInv'
  BY <1>1 DEF CallInv, peerVars
<1>5. CallsSeeTheTable'
  BY <1>1 DEF CallsSeeTheTable
<1>6. ASSUME LimiterInv
      PROVE  LimiterInv'
  <2>0. UNCHANGED <<call, ppc, changeDate, peersCount>>
    BY SMTT(30) DEF peerVars
  <2>1. CASE limiters' = limiters
    <3>1. \A e : AtShare(e) => AtShare(e)'
      BY <2>0, <2>1, ShareKept, SMTT(30)
    <3> QED
      BY <1>6, <2>0, <2>1, <3>1, SMTT(30) DEF LimiterInv, Limits
  <2>2. ASSUME readers = {}, NEW e \in Endpoint, limiters' = [limiters EXCEPT ![e] = NewLimiters(e)]
        PROVE  LimiterInv'
    <3>1. \A c \in Caller : call[c].pc \notin Locked
      BY <2>2 DEF CallInv
    <3>2. \A c \in Caller : call[c].pc \notin {"mark", "choose"}
      BY <3>1 DEF Locked
    <3>3. limiters'[e] = NewLimiters(e) /\ \A o \in Endpoint \ {e} : limiters'[o] = limiters[o]
      BY <2>2, SMTT(30) DEF ServiceInv, ServiceTypeOK
    <3>4. changeDate \in Nat /\ NewLimiters(e).adjusted = 0
      BY SMTT(30) DEF PeersInv, RatesTypeOK, NewLimiters
    <3>5. \A o \in Endpoint : limiters'[o].adjusted <= changeDate
      BY <1>6, <3>3, <3>4 DEF LimiterInv
    <3>6. ASSUME ppc # "date", NEW o \in Endpoint, limiters'[o].adjusted = changeDate
          PROVE  AtShare(o)'
      <4>1. CASE o = e
        <5>1. peersCount' = 0
          BY <2>0, <3>3, <3>4, <3>6, <4>1, ZenonT(40) DEF PeersInv
        <5> QED
          BY <3>3, <4>1, <5>1, NewAtShare, SMTT(30)
      <4>2. CASE o # e
        BY <1>6, <2>0, <3>3, <3>6, <4>2, ShareKept, ZenonT(40) DEF LimiterInv
      <4> QED
        BY <4>1, <4>2
    <3> QED
      BY <2>0, <3>2, <3>5, <3>6, SMTT(30) DEF LimiterInv
  <2> QED
    BY <2>1, <2>2, ListenLimiters
<1> QED
  BY <1>1, <1>2, <1>3, <1>4, <1>5, <1>6, SMTT(30) DEF OneLimiter

\* A step of an instance, of ExtractRates, or none.
LEMMA OthersKeepUInv ==
    ASSUME UInv, UNCHANGED <<serviceVars, readers, call, peerVars>>, PeersInv', NotifierTypeOK'
    PROVE  UInv'
<1> USE DEF UInv
<1>0. UNCHANGED <<limiters, apis, readers, call, ppc, changeDate, peersCount>>
  BY DEF serviceVars, peerVars
<1>1. ServiceInv'
  BY ServicesKept, SMTT(30)
<1>2. CallInv' /\ CallsSeeTheTable'
  BY <1>0 DEF CallInv, CallsSeeTheTable
<1>3. \A e : AtShare(e) => AtShare(e)'
  BY <1>0, ShareKept, SMTT(30)
<1>4. LimiterInv => LimiterInv'
  BY <1>0, <1>3, SMTT(30) DEF LimiterInv, Limits
<1> QED
  BY <1>0, <1>1, <1>2, <1>4, SMTT(30) DEF OneLimiter

\* A step of listenPeers: it overtakes the calls in progress, and the dates that
\* limiters carry are old from the moment the new date is stored.
LEMMA PeersStepKeepsUInv ==
    ASSUME UInv, PeersStep
    PROVE  UInv'
<1> USE DEF UInv
<1>0. listenPeers /\ UNCHANGED tableVars
  BY DEF PeersStep
<1>1. PeersInv'
  BY <1>0, ListenPeersKeepsPeers, SMTT(30)
<1>2. NotifierTypeOK' /\ ServiceInv' /\ readers' \in SUBSET Caller
  BY <1>0, ServicesKept DEF tableVars, notifierVars, NotifierTypeOK
<1>3. call' \in [Caller -> CallRecord]
  BY ZenonT(40) DEF PeersStep, CallRecord
<1>4. \A c \in Caller :
        /\ call'[c].pc = call[c].pc /\ call'[c].key = call[c].key /\ call'[c].eps = call[c].eps
        /\ call'[c].count = call[c].count /\ call'[c].date = call[c].date
        /\ call'[c].need = call[c].need
        /\ call[c].pc \in Counted => call'[c].raced
  BY ZenonT(40) DEF PeersStep, CallRecord, Locked, Counted
<1>5. UNCHANGED <<limiters, apis, readers>>
  BY <1>0 DEF tableVars, serviceVars
<1>6. Dated \subseteq Counted /\ {"mark", "choose"} \subseteq Counted
  BY DEF Dated, Counted
<1>7. changeDate \in Nat /\ changeDate' \in Nat /\ changeDate <= changeDate'
  BY <1>0, <1>1, ListenPeersSteps DEF PeersInv, RatesTypeOK
<1>8. \A c \in Caller : call[c].date \in Nat
  BY DEF CallRecord
<1>9. CallInv'
  BY <1>4, <1>5, <1>6, <1>7, <1>8, SMTT(30) DEF CallInv
<1>10. CallsSeeTheTable'
  BY <1>4, <1>5, ZenonT(40) DEF CallsSeeTheTable
<1>11. ASSUME LimiterInv
       PROVE  LimiterInv'
  <2>0. \A e \in Endpoint : limiters[e].adjusted \in Nat
    BY SMTT(30) DEF ServiceInv, ServiceTypeOK, Limiters
  <2>1. \A e \in Endpoint : limiters'[e].adjusted <= changeDate'
    BY <1>5, <1>7, <1>11, <2>0, SMTT(30) DEF LimiterInv
  <2>2. \A c \in Caller : call'[c].pc \in {"mark", "choose"} => call'[c].raced
    BY <1>4, <1>6, SMTT(30)
  <2>3. CASE ppc' = "date"
    BY <2>1, <2>2, <2>3, ZenonT(40) DEF LimiterInv
  <2>4. CASE ppc = "date" /\ ppc' = "rates" /\ changeDate' = changeDate + 1
    <3>1. \A e \in Endpoint : limiters'[e].adjusted # changeDate'
      BY <1>5, <1>7, <1>11, <2>0, <2>4, SMTT(30) DEF LimiterInv
    <3>2. \A c \in Caller : call'[c].pc = "mark" => call'[c].date # changeDate'
      BY <1>4, <1>7, <1>8, <2>4, SMTT(30) DEF CallInv, Dated
    <3> QED
      BY <2>1, <2>2, <3>1, <3>2, ZenonT(40) DEF LimiterInv
  <2>5. CASE ppc = "rates" /\ UNCHANGED <<peersCount, changeDate>>
    <3>1. \A e : AtShare(e) => AtShare(e)'
      BY <1>5, <2>5, ShareKept, SMTT(30)
    <3> QED
      BY <1>4, <1>5, <1>11, <2>1, <2>2, <2>5, <3>1, ZenonT(40) DEF LimiterInv
  <2> QED
    BY <1>0, <2>3, <2>4, <2>5, ListenPeersSteps, SMTT(30)
<1> QED
  BY <1>1, <1>2, <1>3, <1>9, <1>10, <1>11, SMTT(30) DEF OneLimiter

-----------------------------------------------------------------------------
(* The calls of Upstream. *)

\* A step of one call that leaves the limiters and the table alone.
LEMMA CallStep ==
    ASSUME UInv, NEW c \in Caller, NEW rec \in CallRecord,
           call' = [call EXCEPT ![c] = rec],
           UNCHANGED <<notifierVars, endpoints, outdated, routes, limiters, apis, pingVars,
                       peerVars, rateVars>>,
           latencies' \in SUBSET Address,
           readers' \in SUBSET Caller, readers \ {c} \subseteq readers',
           rec.pc \in Locked =>
             /\ c \in readers'
             /\ \E k \in Api : rec.key = {k} /\ rec.eps \subseteq apis[k],
           rec.pc \in Counted =>
             rec.count > 0 /\ (~rec.raced => ppc = "idle" /\ rec.count = peersCount + 1),
           rec.pc \in Dated => rec.date <= changeDate /\ (~rec.raced => rec.date = changeDate),
           rec.pc # "mark",
           OneLimiter /\ LimiterInv /\ rec.pc = "choose" /\ ~rec.raced =>
             \A e \in rec.eps : (\A k \in rec.key : Limits(e, k)) => AtShare(e)
    PROVE  UInv'
<1> USE DEF UInv
<1>0. UNCHANGED <<limiters, apis, ppc, changeDate, peersCount>>
  BY ZenonT(40) DEF peerVars
<1>1. ServiceInv'
  <2>1. TableMatchesServices'
    BY Kept, SMTT(30) DEF ServiceInv
  <2> QED
    BY <2>1, ZenonT(40) DEF pingVars, ServiceInv, ServiceTypeOK, ReadyMeansHeard, Required
<1>2. NotifierTypeOK'
  BY ZenonT(40) DEF notifierVars, NotifierTypeOK
<1>3. PeersInv'
  BY PeersKept, SMTT(30)
<1>4. call' \in [Caller -> CallRecord]
  BY ZenonT(40)
<1>5. call'[c] = rec /\ \A o \in Caller \ {c} : call'[o] = call[o]
  BY SMTT(30)
<1>6. CallInv'
  BY <1>0, <1>5, ZenonT(40) DEF CallInv
<1>7. CallsSeeTheTable'
  BY <1>0, <1>5, ZenonT(40) DEF CallsSeeTheTable
<1>8. ASSUME OneLimiter, LimiterInv
      PROVE  LimiterInv'
  <2>1. \A e : AtShare(e) => AtShare(e)'
    BY <1>0, ShareKept, ZenonT(40)
  <2>2. \A e \in Endpoint : limiters'[e].adjusted <= changeDate'
    BY <1>0, <1>8, ZenonT(40) DEF LimiterInv
  <2>3. ppc' # "date" => \A e \in Endpoint : limiters'[e].adjusted = changeDate' => AtShare(e)'
    BY <1>0, <1>8, <2>1, ZenonT(40) DEF LimiterInv
  <2>4. ppc' # "date" => \A o \in Caller :
           call'[o].pc = "mark" /\ call'[o].date = changeDate' =>
             \A e \in call'[o].need : AtShare(e)'
    BY <1>0, <1>5, <1>8, <2>1, ZenonT(40) DEF LimiterInv
  <2>5. \A o \in Caller : call'[o].pc \in {"mark", "choose"} /\ ~call'[o].raced =>
           \A e \in call'[o].eps : (\A k \in call'[o].key : Limits(e, k)) => AtShare(e)'
    BY <1>0, <1>5, <1>8, <2>1, ZenonT(40) DEF LimiterInv
  <2> QED
    BY <2>2, <2>3, <2>4, <2>5, ZenonT(40) DEF LimiterInv, Limits
<1> QED
  BY <1>1, <1>2, <1>3, <1>4, <1>6, <1>7, <1>8, ZenonT(40) DEF OneLimiter

\* The steps of a call that only read.
LEMMA ReadsKeepUInv ==
    ASSUME UInv, NEW c \in Caller,
           \/ \E k \in Api : UpstreamOne(c, k) \/ \E eps \in SUBSET apis[k] : UpstreamTwo(c, k, eps)
           \/ ReadCount(c) \/ ReadDate(c)
           \/ \E e \in Endpoint : Choose(c, e)
           \/ TooManyRequests(c) \/ CollectLatency(c) \/ NoLatency(c)
    PROVE  UInv'
<1>a. /\ call \in [Caller -> CallRecord] /\ readers \in SUBSET Caller
      /\ apis \in [Api -> SUBSET Endpoint] /\ latencies \in SUBSET Address
      /\ peersCount \in Nat /\ changeDate \in Nat
  BY ZenonT(40) DEF UInv, ServiceInv, ServiceTypeOK, PeersInv, RatesTypeOK
<1>b. CIdle \in CallRecord /\ CIdle.pc = "idle"
  BY ZenonT(40) DEF CIdle, CallRecord
<1>c. /\ {"idle", "returned"} \cap (Locked \cup Counted \cup Dated) = {}
      /\ "count" \notin Counted \cup Dated /\ "date" \notin Dated
      /\ {"count", "date", "adjust", "choose"} \subseteq Locked
      /\ {"date", "adjust"} \subseteq Counted
  BY ZenonT(40) DEF Locked, Counted, Dated
<1>0. ASSUME NEW rec \in CallRecord, rec.pc \in {"idle", "returned"},
             call' = [call EXCEPT ![c] = rec], latencies' \in SUBSET Address,
             readers' = readers \/ readers' = readers \ {c},
             UNCHANGED <<notifierVars, endpoints, outdated, routes, limiters, apis, pingVars,
                         peerVars, rateVars>>
      PROVE  UInv'
  <2>1. rec.pc \notin Locked /\ rec.pc \notin Counted /\ rec.pc \notin Dated
    BY <1>0, <1>c, ZenonT(40)
  <2>2. readers' \in SUBSET Caller /\ readers \ {c} \subseteq readers'
    BY <1>0, <1>a, SMTT(30)
  <2> QED
    BY <1>0, <2>1, <2>2, CallStep, ZenonT(40)
<1>1. ASSUME NEW k \in Api, UpstreamOne(c, k)
      PROVE  UInv'
  <2> DEFINE rec == [call[c] EXCEPT !.pc = "returned", !.eps = apis[k]]
  <2>1. rec \in CallRecord /\ rec.pc = "returned"
    BY <1>a, ZenonT(40) DEF CallRecord
  <2>2. call' = [call EXCEPT ![c] = rec]
    BY <1>1, <1>a, ZenonT(40) DEF UpstreamOne, CallRecord
  <2> HIDE DEF rec
  <2> QED
    BY <1>0, <1>1, <1>a, <2>1, <2>2, ZenonT(40) DEF UpstreamOne, tableVars, serviceVars
<1>2. ASSUME NEW k \in Api, NEW eps \in SUBSET apis[k], UpstreamTwo(c, k, eps)
      PROVE  UInv'
  <2> DEFINE rec == [call[c] EXCEPT !.pc = "count", !.key = {k}, !.eps = eps]
  <2>1. rec \in CallRecord /\ rec.pc = "count" /\ rec.key = {k} /\ rec.eps = eps
    BY <1>a, ZenonT(40) DEF CallRecord, Locked
  <2>2. call' = [call EXCEPT ![c] = rec]
    BY <1>2, <1>a, ZenonT(40) DEF UpstreamTwo, CallRecord
  <2> HIDE DEF rec
  <2>3. rec.pc \notin Counted /\ rec.pc \notin Dated /\ rec.pc # "mark" /\ rec.pc # "choose"
    BY <1>c, <2>1, ZenonT(40)
  <2>4. /\ readers' = readers \cup {c}
        /\ UNCHANGED <<notifierVars, serviceVars, peerVars, rateVars>>
    BY <1>2, ZenonT(40) DEF UpstreamTwo
  <2>5. readers' \in SUBSET Caller /\ readers \ {c} \subseteq readers' /\ c \in readers'
    BY <1>a, <2>4, SMTT(30)
  <2>6. /\ UNCHANGED <<notifierVars, endpoints, outdated, routes, limiters, apis, pingVars,
                        peerVars, rateVars>>
        /\ latencies' \in SUBSET Address
    BY <1>a, <2>4, SMTT(30) DEF serviceVars
  <2> QED
    BY <2>1, <2>2, <2>3, <2>5, <2>6, CallStep, ZenonT(40)
<1>3. CASE ReadCount(c)
  <2> DEFINE n == peersCount + 1
             rec == [call[c] EXCEPT !.pc = "date", !.count = n, !.raced = (ppc # "idle")]
  <2>2. call' = [call EXCEPT ![c] = rec]
    BY <1>3, <1>a, ZenonT(40) DEF ReadCount, CallRecord
  <2>b. n \in Nat /\ n = peersCount + 1 /\ n > 0
    BY <1>a
  <2> HIDE DEF n
  <2>1. /\ rec \in CallRecord /\ rec.pc = "date" /\ rec.key = call[c].key
        /\ rec.eps = call[c].eps /\ rec.count = n
    BY <1>a, <2>b, ZenonT(40) DEF CallRecord, Locked
  <2>a. ~rec.raced => ppc = "idle"
    BY <1>a, ZenonT(40) DEF CallRecord
  <2>3. UNCHANGED <<tableVars, peerVars, rateVars>> /\ call[c].pc = "count"
    BY <1>3 DEF ReadCount
  <2> HIDE DEF rec
  <2>4. rec.pc \notin Dated /\ rec.pc # "mark" /\ rec.pc # "choose"
    BY <1>c, <2>1, ZenonT(40)
  <2>5. rec.count > 0 /\ (~rec.raced => ppc = "idle")
    BY <2>a, <2>b, <2>1, SMTT(30)
  <2>6. c \in readers /\ \E k \in Api : rec.key = {k} /\ rec.eps \subseteq apis[k]
    BY <1>c, <2>1, <2>3, ZenonT(40) DEF UInv, CallInv, CallsSeeTheTable
  <2>7. /\ UNCHANGED <<notifierVars, endpoints, outdated, routes, limiters, apis, pingVars,
                        peerVars, rateVars>>
        /\ latencies' \in SUBSET Address /\ readers' = readers
    BY <1>a, <2>3 DEF tableVars, serviceVars
  <2> QED
    BY <1>a, <2>b, <2>1, <2>2, <2>4, <2>5, <2>6, <2>7, CallStep, ZenonT(40)
<1>4. CASE ReadDate(c)
  <2> DEFINE rec == [call[c] EXCEPT !.pc = "adjust", !.date = changeDate]
  <2>1. /\ rec \in CallRecord /\ rec.pc = "adjust" /\ rec.key = call[c].key
        /\ rec.eps = call[c].eps /\ rec.count = call[c].count
        /\ rec.raced = call[c].raced /\ rec.date = changeDate
    BY <1>a, ZenonT(40) DEF CallRecord, Locked
  <2>2. call' = [call EXCEPT ![c] = rec]
    BY <1>4, <1>a, ZenonT(40) DEF ReadDate, CallRecord
  <2>3. UNCHANGED <<tableVars, peerVars, rateVars>> /\ call[c].pc = "date"
    BY <1>4, SMTT(30) DEF ReadDate
  <2> HIDE DEF rec
  <2>4. rec.count > 0 /\ (~rec.raced => ppc = "idle" /\ rec.count = peersCount + 1)
    BY <1>c, <2>1, <2>3, ZenonT(40) DEF UInv, CallInv
  <2>5. rec.date <= changeDate
    BY <1>a, <2>1, SMTT(30)
  <2>6. c \in readers /\ \E k \in Api : rec.key = {k} /\ rec.eps \subseteq apis[k]
    BY <1>c, <2>1, <2>3, ZenonT(40) DEF UInv, CallInv, CallsSeeTheTable
  <2>7. /\ UNCHANGED <<notifierVars, endpoints, outdated, routes, limiters, apis, pingVars,
                        peerVars, rateVars>>
        /\ latencies' \in SUBSET Address /\ readers' = readers
    BY <1>a, <2>3 DEF tableVars, serviceVars
  <2> QED
    BY <1>a, <2>1, <2>2, <2>4, <2>5, <2>6, <2>7, CallStep, ZenonT(40)
<1>5. ASSUME NEW e \in Endpoint, Choose(c, e)
      PROVE  UInv'
  <2> DEFINE rec == [CIdle EXCEPT !.pc = "returned", !.eps = {e}]
  <2>1. rec \in CallRecord /\ rec.pc = "returned"
    BY <1>b, ZenonT(40) DEF CallRecord
  <2>2. Return(c, rec)
    BY <1>5, ZenonT(40) DEF Choose
  <2> HIDE DEF rec
  <2> QED
    BY <1>0, <1>a, <2>1, <2>2, ZenonT(40) DEF Return, serviceVars
<1>6. CASE TooManyRequests(c)
  BY <1>0, <1>6, <1>a, <1>b, ZenonT(40) DEF TooManyRequests, Return, serviceVars
<1>7. CASE CollectLatency(c)
  <2>1. {e[2] : e \in call[c].eps} \in SUBSET Address
    BY <1>a, EndpointType, ZenonT(40) DEF CallRecord
  <2>2. latencies' \in SUBSET Address
    BY <1>7, <1>a, <2>1, ZenonT(40) DEF CollectLatency
  <2> QED
    BY <1>0, <1>7, <1>b, <2>2, ZenonT(40) DEF CollectLatency
<1>8. CASE NoLatency(c)
  BY <1>0, <1>8, <1>a, <1>b, ZenonT(40) DEF NoLatency, tableVars, serviceVars
<1> QED
  BY <1>1, <1>2, <1>3, <1>4, <1>5, <1>6, <1>7, <1>8, ZenonT(40)

\* The limiters of an endpoint with one of them set.
WithBurst(l, k, v, b) == [l EXCEPT !.burst[k] = v, !.raced = b]

\* Setting a limiter leaves the date alone.
LEMMA BurstSet ==
    ASSUME NEW l \in Limiters, NEW k \in Api, NEW v \in Int, NEW b \in BOOLEAN
    PROVE  /\ WithBurst(l, k, v, b) \in Limiters
           /\ WithBurst(l, k, v, b).adjusted = l.adjusted
           /\ WithBurst(l, k, v, b).raced = b
           /\ WithBurst(l, k, v, b).burst[k] = v
<1> DEFINE m == [l EXCEPT !.burst = [l.burst EXCEPT ![k] = v]]
           q == WithBurst(l, k, v, b)
<1>1. [l.burst EXCEPT ![k] = v] \in [Api -> Int] /\ [l.burst EXCEPT ![k] = v][k] = v
  BY DEF Limiters
<1>2. m \in Limiters /\ m.adjusted = l.adjusted /\ m.burst[k] = v
  BY <1>1 DEF Limiters
<1>3. q = [m EXCEPT !.raced = b]
  BY DEF WithBurst
<1> HIDE DEF m
<1>4. q \in Limiters /\ q.adjusted = m.adjusted /\ q.burst = m.burst
  BY <1>2, <1>3, SMTT(30) DEF Limiters
<1>5. q.raced = b
  BY <1>2, <1>3, SMTT(30) DEF Limiters
<1> QED
  BY <1>2, <1>4, <1>5, SMTT(30)

\* An endpoint with one limiter has it for one identity.
LEMMA TheLimiter ==
    ASSUME OneLimiter, NEW e \in Endpoint, NEW k \in Api, NEW o \in Api, Limits(e, k), Limits(e, o)
    PROVE  k = o
<1> DEFINE S == {a \in Api : APILimiters[e[1]][a] # NoLimiter}
<1>1. Cardinality(S) <= 1 /\ k \in S /\ o \in S
  BY EndpointType, SMTT(30) DEF OneLimiter, Limits
<1>2. IsFiniteSet(S)
  BY TableAssumption, FS_Subset, SMTT(30)
<1> HIDE DEF S
<1> SUFFICES ASSUME k # o
             PROVE  FALSE
  OBVIOUS
<1>3. IsFiniteSet({k}) /\ Cardinality({k}) = 1
  BY FS_Singleton, ZenonT(40)
<1>4. Cardinality({k} \cup {o}) = 2
  <2>1. Cardinality({k} \cup {o}) = IF o \in {k} THEN Cardinality({k}) ELSE Cardinality({k}) + 1
    BY <1>3, FS_AddElement, Zenon
  <2> QED
    BY <1>3, <2>1, SMTT(30)
<1>5. {k} \cup {o} \in SUBSET S
  BY <1>1, SMTT(30)
<1>6. Cardinality({k} \cup {o}) <= Cardinality(S)
  BY <1>2, <1>5, FS_Subset, SMTT(30)
<1>7. Cardinality(S) \in Nat
  BY <1>2, FS_CardinalityType, SMTT(30)
<1> QED
  BY <1>1, <1>4, <1>6, <1>7, SMTT(30)

\* The limiters change, and a call moves on, but the table is as it was.
LEMMA LimitersChange ==
    ASSUME UInv, NEW c \in Caller, NEW rec \in CallRecord,
           call' = [call EXCEPT ![c] = rec],
           call[c].pc \in Dated, rec.pc \in Dated,
           rec.key = call[c].key, rec.eps = call[c].eps, rec.count = call[c].count,
           rec.date = call[c].date, rec.raced = call[c].raced,
           limiters' \in [Endpoint -> Limiters],
           UNCHANGED <<notifierVars, endpoints, outdated, routes, apis, latencies,
                       pingVars, readers, peerVars, rateVars>>,
           OneLimiter /\ LimiterInv => LimiterInv'
    PROVE  UInv'
<1> USE DEF UInv
<1>0. UNCHANGED <<apis, readers, ppc, changeDate, peersCount>>
  BY ZenonT(40) DEF peerVars
<1>1. ServiceInv'
  <2>1. TableMatchesServices'
    BY Kept, SMTT(30) DEF ServiceInv
  <2> QED
    BY <2>1, ZenonT(40) DEF pingVars, ServiceInv, ServiceTypeOK, ReadyMeansHeard, Required
<1>2. NotifierTypeOK'
  BY SMTT(30) DEF notifierVars, NotifierTypeOK
<1>3. PeersInv'
  BY PeersKept, SMTT(30)
<1>4. call' \in [Caller -> CallRecord]
  BY SMTT(30)
<1>5. call'[c] = rec /\ \A o \in Caller \ {c} : call'[o] = call[o]
  BY SMTT(30)
<1>6. Dated \subseteq Counted /\ Dated \subseteq Locked
  BY SMTT(30) DEF Dated, Counted, Locked
<1>7. CallInv'
  BY <1>0, <1>5, <1>6, ZenonT(40) DEF CallInv
<1>8. CallsSeeTheTable'
  BY <1>0, <1>5, <1>6, ZenonT(40) DEF CallsSeeTheTable
<1> QED
  BY <1>0, <1>1, <1>2, <1>3, <1>4, <1>7, <1>8, ZenonT(40) DEF OneLimiter

\* Upstream sets limiters: to the share, or to one that it read in a race.
LEMMA AdjustKeepsUInv ==
    ASSUME UInv, NEW c \in Caller, AdjustLimiters(c)
    PROVE  UInv'
<1> DEFINE key == CHOOSE api \in call[c].key : TRUE
           stale == {e \in call[c].eps : Limits(e, key) /\ limiters[e].adjusted < call[c].date}
           rec == [call[c] EXCEPT !.pc = "mark", !.need = stale]
           Set(e) == [limiters[e] EXCEPT !.burst[key] = APILimiters[e[1]][key] \div call[c].count,
                                         !.raced = call[c].raced]
<1>a. /\ call[c] \in CallRecord /\ call[c].pc = "adjust"
      /\ limiters \in [Endpoint -> Limiters]
      /\ peersCount \in Nat /\ changeDate \in Nat
  BY ZenonT(40) DEF UInv, AdjustLimiters, ServiceInv, ServiceTypeOK, PeersInv, RatesTypeOK
<1>b. "adjust" \in Locked /\ "adjust" \in Counted /\ "adjust" \in Dated /\ "mark" \in Dated
      /\ Dated \subseteq Locked
  BY SMTT(30) DEF Locked, Counted, Dated
<1>c. key \in Api /\ call[c].key = {key}
  <2>1. PICK k \in Api : call[c].key = {k}
    BY <1>a, <1>b, ZenonT(40) DEF UInv, CallInv
  <2> QED
    BY <2>1, SMTT(30)
<1>d. /\ call[c].count > 0 /\ call[c].date <= changeDate
      /\ ~call[c].raced => ppc = "idle" /\ call[c].count = peersCount + 1
      /\ ~call[c].raced => call[c].date = changeDate
  BY <1>a, <1>b, ZenonT(40) DEF UInv, CallInv
<1>e. call[c].count \in Nat /\ call[c].date \in Nat /\ call[c].raced \in BOOLEAN
      /\ call[c].eps \in SUBSET Endpoint
  BY <1>a, SMTT(30) DEF CallRecord
<1>f. /\ limiters' = [e \in Endpoint |-> IF e \in stale THEN Set(e) ELSE limiters[e]]
      /\ call' = [call EXCEPT ![c].pc = "mark", ![c].need = stale]
      /\ UNCHANGED <<notifierVars, endpoints, outdated, routes, apis, latencies,
                     pingVars, readers, peerVars, rateVars>>
  BY ZenonT(40) DEF AdjustLimiters
<1>g. call' = [call EXCEPT ![c] = rec]
  BY <1>f, ZenonT(40) DEF UInv, CallRecord
<1>h. stale \in SUBSET Endpoint /\ stale \subseteq call[c].eps
  BY <1>e, ZenonT(40)
<1>i. \A e \in stale : Limits(e, key) /\ limiters[e].adjusted < call[c].date
  BY ZenonT(40)
<1>j. \A e \in call[c].eps : Limits(e, key) /\ e \notin stale => ~(limiters[e].adjusted < call[c].date)
  OBVIOUS
<1> HIDE DEF key, stale
<1>1. /\ rec \in CallRecord /\ rec.pc = "mark" /\ rec.key = call[c].key /\ rec.eps = call[c].eps
      /\ rec.count = call[c].count /\ rec.date = call[c].date /\ rec.raced = call[c].raced
      /\ rec.need = stale
  BY <1>a, <1>h, ZenonT(40) DEF CallRecord, Locked
<1> HIDE DEF rec
<1>2. ASSUME NEW e \in stale
      PROVE  /\ Set(e) \in Limiters /\ Set(e).adjusted = limiters[e].adjusted
             /\ Set(e).raced = call[c].raced
             /\ Set(e).burst[key] = APILimiters[e[1]][key] \div call[c].count
  <2>1. APILimiters[e[1]][key] \in Int
    <3>1. APILimiters[e[1]] \in [Api -> Nat \cup {NoLimiter}]
      BY <1>h, EndpointType, TableAssumption, SMTT(30)
    <3> QED
      BY <1>c, <3>1, SMTT(30) DEF NoLimiter
  <2>2. APILimiters[e[1]][key] \div call[c].count \in Int
    BY <1>d, <1>e, <2>1, SMTT(30)
  <2> DEFINE v == APILimiters[e[1]][key] \div call[c].count
  <2>3. limiters[e] \in Limiters /\ v \in Int
    BY <1>a, <1>h, <2>2, ZenonT(40)
  <2>4. Set(e) = WithBurst(limiters[e], key, v, call[c].raced)
    BY SMTT(30) DEF WithBurst
  <2> HIDE DEF v, Set
  <2>5. /\ Set(e) \in Limiters /\ Set(e).adjusted = limiters[e].adjusted
        /\ Set(e).raced = call[c].raced /\ Set(e).burst[key] = v
    <3> DEFINE l == limiters[e]
               b == call[c].raced
               w == WithBurst(l, key, v, b)
    <3>1. l \in Limiters /\ key \in Api /\ v \in Int /\ b \in BOOLEAN
      BY <1>c, <1>e, <2>3, SMTT(30)
    <3>2. w \in Limiters /\ w.adjusted = l.adjusted /\ w.raced = b /\ w.burst[key] = v
      <4> HIDE DEF l, b
      <4> QED
        BY <3>1, BurstSet, SMTT(30)
    <3>3. Set(e) = w
      BY <2>4, SMTT(30)
    <3> HIDE DEF w
    <3> QED
      BY <3>2, <3>3, SMTT(30)
  <2> QED
    BY <2>5, ZenonT(40) DEF v
<1> HIDE DEF Set
<1>3. limiters' \in [Endpoint -> Limiters]
  BY <1>a, <1>f, <1>h, <1>2, SMTT(30)
<1>4. ASSUME OneLimiter, LimiterInv
      PROVE  LimiterInv'
  <2>0. UNCHANGED <<ppc, changeDate, peersCount>>
    BY <1>f, SMTT(30) DEF peerVars
  <2>1. ASSUME NEW e \in stale
        PROVE  AtShare(e)'
    <3>1. limiters'[e] = Set(e)
      BY <1>f, <1>h, SMTT(30)
    <3>2. CASE call[c].raced
      BY <1>2, <3>1, <3>2, ZenonT(40) DEF AtShare
    <3>3. CASE ~call[c].raced
      <4>1. call[c].count = peersCount + 1
        BY <1>d, <3>3, ZenonT(40)
      <4>2. \A k \in Api : Limits(e, k) => k = key
        BY <1>c, <1>h, <1>i, <1>4, TheLimiter, ZenonT(40)
      <4> QED
        BY <1>2, <2>0, <3>1, <4>1, <4>2, ZenonT(40) DEF AtShare, Limits
    <3> QED
      BY <3>2, <3>3, SMTT(30)
  <2>2. ASSUME NEW e \in Endpoint, AtShare(e)
        PROVE  AtShare(e)'
    <3>1. CASE e \notin stale
      BY <1>f, <2>0, <2>2, <3>1, ShareKept, ZenonT(40)
    <3> QED
      BY <2>1, <3>1, ZenonT(40)
  <2>3. \A e \in Endpoint : limiters'[e].adjusted = limiters[e].adjusted
    BY <1>2, <1>f, <1>h, ZenonT(40)
  <2>4. \A e \in Endpoint : limiters'[e].adjusted <= changeDate'
    BY <1>4, <2>0, <2>3, ZenonT(40) DEF LimiterInv
  <2>5. ppc' # "date" => \A e \in Endpoint : limiters'[e].adjusted = changeDate' => AtShare(e)'
    BY <1>4, <2>0, <2>2, <2>3, ZenonT(40) DEF LimiterInv
  <2>6. call'[c] = rec /\ \A o \in Caller \ {c} : call'[o] = call[o]
    BY <1>g, SMTT(30) DEF UInv
  <2>7. \A o \in Caller : call[o].need \in SUBSET Endpoint /\ call[o].eps \in SUBSET Endpoint
    BY SMTT(30) DEF UInv, CallRecord
  <2>8. ASSUME ppc' # "date", NEW o \in Caller, call'[o].pc = "mark", call'[o].date = changeDate',
               NEW e \in call'[o].need
        PROVE  AtShare(e)'
    <3>1. CASE o = c
      BY <1>1, <2>1, <2>6, <2>8, <3>1, ZenonT(40)
    <3>2. CASE o # c
      BY <1>4, <2>0, <2>2, <2>6, <2>7, <2>8, <3>2, ZenonT(40) DEF LimiterInv
    <3> QED
      BY <3>1, <3>2, ZenonT(40)
  <2>9. ASSUME NEW o \in Caller, call'[o].pc \in {"mark", "choose"}, ~call'[o].raced,
               NEW e \in call'[o].eps, \A k \in call'[o].key : Limits(e, k)
        PROVE  AtShare(e)'
    <3>1. CASE o = c /\ e \in stale
      BY <2>1, <3>1, ZenonT(40)
    <3>2. CASE o = c /\ e \notin stale
      <4>1. ~call[c].raced /\ e \in call[c].eps /\ e \in Endpoint /\ Limits(e, key)
        BY <1>1, <1>c, <1>e, <2>6, <2>9, <3>2, ZenonT(40)
      <4>2. ppc = "idle" /\ call[c].date = changeDate /\ ~(limiters[e].adjusted < changeDate)
        BY <1>d, <1>j, <3>2, <4>1, ZenonT(40)
      <4>3. limiters[e].adjusted = changeDate
        <5>1. limiters[e].adjusted \in Nat
          BY <1>a, <4>1, ZenonT(40) DEF Limiters
        <5>2. limiters[e].adjusted <= changeDate
          BY <1>4, <4>1, ZenonT(40) DEF LimiterInv
        <5> QED
          BY <1>a, <4>2, <5>1, <5>2, SMTT(30)
      <4>4. AtShare(e)
        BY <1>4, <4>1, <4>2, <4>3, ZenonT(40) DEF LimiterInv
      <4> QED
        BY <2>2, <4>1, <4>4, SMTT(30)
    <3>3. CASE o # c
      BY <1>4, <2>2, <2>6, <2>7, <2>9, <3>3, ZenonT(40) DEF LimiterInv
    <3> QED
      BY <3>1, <3>2, <3>3, ZenonT(40)
  <2> QED
    BY <2>4, <2>5, <2>8, <2>9, ZenonT(40) DEF LimiterInv, Limits
<1> QED
  <2>1. call[c].pc \in Dated /\ rec.pc \in Dated
    BY <1>1, <1>a, <1>b, ZenonT(40)
  <2>2. OneLimiter /\ LimiterInv => LimiterInv'
    BY <1>4, SMTT(30)
  <2> QED
    BY <1>1, <1>3, <1>f, <1>g, <2>1, <2>2, LimitersChange, ZenonT(40)

\* Upstream marks the limiters it has set with the date it read before it set
\* them, which is not the last one if a change of peers came in between.
LEMMA MarkKeepsUInv ==
    ASSUME UInv, NEW c \in Caller, MarkAdjusted(c)
    PROVE  UInv'
<1> DEFINE rec == [call[c] EXCEPT !.pc = "choose"]
<1>a. /\ call[c] \in CallRecord /\ call[c].pc = "mark" /\ call[c].date \in Nat
      /\ limiters \in [Endpoint -> Limiters] /\ changeDate \in Nat
  BY DEF UInv, CallRecord, MarkAdjusted, ServiceInv, ServiceTypeOK, PeersInv, RatesTypeOK
<1>b. /\ limiters' = [e \in Endpoint |->
           IF e \in call[c].need THEN [limiters[e] EXCEPT !.adjusted = call[c].date]
                                 ELSE limiters[e]]
      /\ call' = [call EXCEPT ![c] = rec]
      /\ UNCHANGED <<notifierVars, endpoints, outdated, routes, apis, latencies,
                     pingVars, readers, peerVars, rateVars>>
  BY SMTT(30) DEF MarkAdjusted
<1>c. call[c].date <= changeDate
  BY <1>a, ZenonT(40) DEF UInv, CallInv, Dated
<1>1. /\ rec \in CallRecord /\ rec.pc = "choose" /\ rec.key = call[c].key /\ rec.eps = call[c].eps
      /\ rec.count = call[c].count /\ rec.date = call[c].date /\ rec.raced = call[c].raced
  BY <1>a DEF CallRecord, Locked
<1> HIDE DEF rec
<1>2. \A e \in Endpoint :
        /\ limiters'[e].raced = limiters[e].raced /\ limiters'[e].burst = limiters[e].burst
        /\ limiters'[e].adjusted = IF e \in call[c].need THEN call[c].date ELSE limiters[e].adjusted
  BY <1>a, <1>b, SMTT(30) DEF Limiters
<1>3. limiters' \in [Endpoint -> Limiters]
  BY <1>a, <1>b, SMTT(30) DEF Limiters
<1>4. ASSUME OneLimiter, LimiterInv
      PROVE  LimiterInv'
  <2>0. UNCHANGED <<ppc, changeDate, peersCount>>
    BY <1>b, SMTT(30) DEF peerVars
  <2>1. \A e \in Endpoint : AtShare(e) => AtShare(e)'
    BY <1>2, <2>0, ZenonT(40) DEF AtShare, Limits
  <2>2. \A e \in Endpoint : limiters'[e].adjusted <= changeDate'
    BY <1>2, <1>4, <1>c, <2>0, ZenonT(40) DEF LimiterInv
  <2>3. call'[c] = rec /\ \A o \in Caller \ {c} : call'[o] = call[o]
    BY <1>b, SMTT(30) DEF UInv
  <2>4. \A o \in Caller : call[o].need \in SUBSET Endpoint /\ call[o].eps \in SUBSET Endpoint
    BY DEF UInv, CallRecord
  <2>5. ASSUME ppc' # "date", NEW e \in Endpoint, limiters'[e].adjusted = changeDate'
        PROVE  AtShare(e)'
    <3>1. CASE e \in call[c].need
      <4>1. call[c].date = changeDate
        BY <1>2, <2>0, <2>5, <3>1, SMTT(30)
      <4>2. AtShare(e)
        BY <1>4, <1>a, <2>0, <2>5, <3>1, <4>1, ZenonT(40) DEF LimiterInv
      <4> QED
        BY <2>1, <4>2, SMTT(30)
    <3>2. CASE e \notin call[c].need
      BY <1>2, <1>4, <2>0, <2>1, <2>5, <3>2, ZenonT(40) DEF LimiterInv
    <3> QED
      BY <3>1, <3>2, SMTT(30)
  <2>6. ASSUME ppc' # "date", NEW o \in Caller, call'[o].pc = "mark", call'[o].date = changeDate',
               NEW e \in call'[o].need
        PROVE  AtShare(e)'
    <3>1. o # c
      BY <1>1, <2>3, <2>6, ZenonT(40)
    <3> QED
      BY <1>4, <2>0, <2>1, <2>3, <2>4, <2>6, <3>1, ZenonT(40) DEF LimiterInv
  <2>7. ASSUME NEW o \in Caller, call'[o].pc \in {"mark", "choose"}, ~call'[o].raced,
               NEW e \in call'[o].eps, \A k \in call'[o].key : Limits(e, k)
        PROVE  AtShare(e)'
    <3>1. CASE o = c
      <4>1. ~call[c].raced /\ e \in call[c].eps /\ \A k \in call[c].key : Limits(e, k)
        BY <1>1, <2>3, <2>7, <3>1, ZenonT(40)
      <4>2. AtShare(e)
        BY <1>4, <1>a, <4>1, ZenonT(40) DEF LimiterInv
      <4> QED
        BY <2>1, <2>4, <4>1, <4>2, ZenonT(40)
    <3>2. CASE o # c
      BY <1>4, <2>1, <2>3, <2>4, <2>7, <3>2, ZenonT(40) DEF LimiterInv
    <3> QED
      BY <3>1, <3>2, SMTT(30)
  <2> QED
    BY <2>2, <2>5, <2>6, <2>7, ZenonT(40) DEF LimiterInv, Limits
<1> QED
  <2>1. call[c].pc \in Dated /\ rec.pc \in Dated
    BY <1>1, <1>a, ZenonT(40) DEF Dated
  <2>2. OneLimiter /\ LimiterInv => LimiterInv'
    BY <1>4
  <2> QED
    BY <1>1, <1>3, <1>b, <2>1, <2>2, LimitersChange, ZenonT(40)

-----------------------------------------------------------------------------
(* The upstreamer. *)

\* It starts without services, peers and calls.
LEMMA UInvInit == UInit => UInv
<1> SUFFICES ASSUME UInit
             PROVE  UInv
  OBVIOUS
<1>1. NotifierTypeOK /\ ServiceInv /\ readers \in SUBSET Caller
  BY TableInvInit, TableInvParts, SMTT(30) DEF UInit
<1>2. CIdle \in CallRecord /\ CIdle.pc = "idle"
  BY ZenonT(40) DEF CIdle, CallRecord
<1>3. call \in [Caller -> CallRecord] /\ \A c \in Caller : call[c].pc = "idle"
  BY <1>2 DEF UInit
<1>4. PeersInv
  <2>1. peersCount = Cardinality(peers)
    BY FS_EmptySet, SMTT(30) DEF UInit, RatesInit
  <2>2. XIdle \in [pc : {"idle", "count", "store"}, count : Nat, raced : BOOLEAN]
        /\ emptyRateSet \in [peers : Nat, raced : BOOLEAN]
    BY DEF XIdle, emptyRateSet
  <2>3. RatesTypeOK
    BY <2>2, SMTT(30) DEF UInit, RatesInit, RatesTypeOK
  <2> QED
    BY <2>1, <2>3, SMTT(30) DEF UInit, RatesInit, PeersInv
<1>5. CallInv /\ CallsSeeTheTable
  BY <1>3, ZenonT(40) DEF CallInv, CallsSeeTheTable, Locked, Counted, Dated
<1>6. LimiterInv
  <2>1. changeDate = 0 /\ peersCount = 0
    BY DEF UInit, RatesInit
  <2>2. \A e \in Endpoint : limiters[e] = NewLimiters(e)
    <3>1. limiters = [e \in Endpoint |-> NewLimiters(e)]
      BY SMTT(30) DEF UInit, TableInit
    <3> QED
      BY <3>1, SMTT(30)
  <2>a. \A e : NewLimiters(e).adjusted = 0 /\ NewLimiters(e).burst = APILimiters[e[1]]
    BY SMTT(30) DEF NewLimiters
  <2>3. \A e \in Endpoint : limiters[e].adjusted = 0
    BY <2>2, <2>a, SMTT(30)
  <2>4. ASSUME NEW e \in Endpoint
        PROVE  AtShare(e)
    <3>1. APILimiters[e[1]] \in [Api -> Nat \cup {NoLimiter}]
      BY EndpointType, TableAssumption, SMTT(30)
    <3>2. \A k \in Api : Limits(e, k) => APILimiters[e[1]][k] = APILimiters[e[1]][k] \div (0 + 1)
      BY <3>1, SMTT(30) DEF Limits
    <3>3. limiters[e].burst = APILimiters[e[1]]
      BY <2>2, <2>a, SMTT(30)
    <3> QED
      BY <2>1, <3>2, <3>3, ZenonT(40) DEF AtShare
  <2> QED
    BY <1>3, <2>1, <2>3, <2>4, SMTT(30) DEF LimiterInv
<1> QED
  BY <1>1, <1>3, <1>4, <1>5, <1>6, ZenonT(40) DEF UInv

\* Every step of the instances, of the gateway's goroutines and of its requests
\* keeps the invariant.
LEMMA UInvNext == UInv /\ [UNext]_upstreamerVars => UInv'
<1> SUFFICES ASSUME UInv, [UNext]_upstreamerVars
             PROVE  UInv'
  OBVIOUS
<1>1. CASE NotifiersStep /\ UNCHANGED <<peerVars, rateVars, call>>
  <2>1. NotifierTypeOK'
    BY <1>1, NotifiersKeepType, SMTT(30) DEF UInv, NotifiersStep
  <2>2. PeersInv'
    BY <1>1, PeersKept, SMTT(30) DEF UInv
  <2> QED
    BY <1>1, <2>1, <2>2, OthersKeepUInv, SMTT(30) DEF NotifiersStep
<1>2. CASE listenServices /\ UNCHANGED <<peerVars, rateVars, call>>
  BY <1>2, ListenKeepsUInv
<1>3. CASE PeersStep
  BY <1>3, PeersStepKeepsUInv, SMTT(30)
<1>4. CASE (\E x \in Extractor : ExtractRates(x)) /\ UNCHANGED <<tableVars, call>>
  <2>1. PeersInv' /\ UNCHANGED peerVars
    BY <1>4, ExtractKeepsPeers, SMTT(30) DEF UInv
  <2>2. NotifierTypeOK'
    BY <1>4, SMTT(30) DEF UInv, tableVars, notifierVars, NotifierTypeOK
  <2> QED
    BY <1>4, <2>1, <2>2, OthersKeepUInv, SMTT(30) DEF tableVars
<1>5. ASSUME NEW c \in Caller, Upstream(c) \/ CollectLatency(c) \/ NoLatency(c)
      PROVE  UInv'
  BY <1>5, ReadsKeepUInv, AdjustKeepsUInv, MarkKeepsUInv, ZenonT(40) DEF Upstream, Proceed
<1>6. CASE UNCHANGED upstreamerVars
  <2>1. NotifierTypeOK'
    BY <1>6, ZenonT(40) DEF UInv, upstreamerVars, tableVars, notifierVars, NotifierTypeOK
  <2>2. PeersInv'
    BY <1>6, PeersKept DEF UInv, upstreamerVars
  <2> QED
    BY <1>6, <2>1, <2>2, OthersKeepUInv, ZenonT(40) DEF upstreamerVars, tableVars
<1> QED
  BY <1>1, <1>2, <1>3, <1>4, <1>5, <1>6, SMTT(30) DEF UNext, UpstreamerStep

\* In every state of the upstreamer the invariant holds.
THEOREM UInvariant == USpec => []UInv
BY UInvInit, UInvNext, PTL DEF USpec

\* The variables of the table, of the peers and of the calls keep their types.
THEOREM UTypeCorrect == USpec => []UTypeOK
<1>1. UInv => UTypeOK
  BY TableInvParts DEF UInv, UTypeOK, TableInv, PeersInv, CallRecord
<1> QED
  BY <1>1, UInvariant, PTL

\* The endpoints that Upstream weighs are in the table at every moment.
THEOREM CallsSee == USpec => []CallsSeeTheTable
<1>1. UInv => CallsSeeTheTable
  BY SMTT(30) DEF UInv
<1> QED
  BY <1>1, UInvariant, PTL

\* The table follows the services although callers hold its lock.
THEOREM UTableFollowsServices == USpec => []TableMatchesServices
<1>1. UInv => TableMatchesServices
  BY SMTT(30) DEF UInv, ServiceInv
<1> QED
  BY <1>1, UInvariant, PTL

\* Where endpoints announce one limiter each, it has this gateway's share of the
\* burst when Upstream asks it, for any number of callers and peers.
THEOREM OneLimiterFollows == USpec => []OneLimiterFollowsPeers
<1>1. UInv => OneLimiterFollowsPeers
  <2> SUFFICES ASSUME UInv, OneLimiter, NEW c \in Caller, call[c].pc = "choose", ~call[c].raced,
                      NEW e \in call[c].eps, NEW k \in call[c].key, Limits(e, k),
                      ~limiters[e].raced
               PROVE  limiters[e].burst[k] = APILimiters[e[1]][k] \div (Cardinality(peers) + 1)
    BY ZenonT(40) DEF OneLimiterFollowsPeers, LimitersFollowPeers, OneLimiter
  <2>1. k \in Api /\ call[c].key = {k}
    BY ZenonT(40) DEF UInv, CallInv, Locked
  <2>2. AtShare(e)
    BY <2>1, ZenonT(40) DEF UInv, LimiterInv
  <2> QED
    BY <2>1, <2>2, ZenonT(40) DEF UInv, PeersInv, AtShare
<1> QED
  BY <1>1, UInvariant, PTL
=============================================================================
