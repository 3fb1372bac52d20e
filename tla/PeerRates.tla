----------------------------- MODULE PeerRates ------------------------------
(***************************************************************************)
(* The gateways count each other (listenPeers of upstreamer.go), so that   *)
(* each allows its share of the rates: ExtractRates gives the share per    *)
(* source, which it keeps in lastRateSet until the number of peers         *)
(* changes.  The goroutine of listenPeers writes three atomics one after   *)
(* the other, and the callers of ExtractRates read and write two of them.  *)
(*                                                                         *)
(* A peer's pings arrive in any order and number: hellos, goodbyes, and    *)
(* timeouts when none arrived.  Its own ping, and the hello of a known     *)
(* peer, change nothing but a date.                                        *)
(***************************************************************************)
EXTENDS Naturals, FiniteSets

CONSTANTS
    Peer,           \* the other gateways
    Extractor,      \* the goroutines that call ExtractRates
    MaxDate         \* bound on the changes of peers

ASSUME RatesAssumption == IsFiniteSet(Peer) /\ MaxDate \in Nat

VARIABLES
    peers,          \* SUBSET Peer: private to the goroutine
    peersCount,     \* Nat
    changeDate,     \* Nat: lastPeerChangeDate
    rateSet,        \* [peers : Nat, raced : BOOLEAN]: lastRateSet, peers = 0 if empty
    ppc,            \* position of the goroutine
    xcall           \* [Extractor -> [pc, count, raced]]

peerVars == <<peers, peersCount, changeDate, ppc>>
rateVars == <<rateSet, xcall>>

\* raced is history: the number of peers has changed since the call read it.
XIdle == [pc |-> "idle", count |-> 0, raced |-> FALSE]
emptyRateSet == [peers |-> 0, raced |-> FALSE]

RatesTypeOK ==
    /\ peers \in SUBSET Peer
    /\ peersCount \in Nat
    /\ changeDate \in Nat
    /\ rateSet \in [peers : Nat, raced : BOOLEAN]
    /\ ppc \in {"idle", "date", "rates"}
    /\ xcall \in [Extractor -> [pc : {"idle", "count", "store"}, count : Nat, raced : BOOLEAN]]

RatesInit ==
    /\ peers = {}
    /\ peersCount = 0
    /\ changeDate = 0
    /\ rateSet = emptyRateSet
    /\ ppc = "idle"
    /\ xcall = [x \in Extractor |-> XIdle]

-----------------------------------------------------------------------------
\* The counter moves to the number of ps: the first of the three writes.
PeersBecome(ps) ==
    /\ ppc = "idle"
    /\ changeDate < MaxDate
    /\ peers' = ps
    /\ peersCount' = peersCount + Cardinality(ps) - Cardinality(peers)
    /\ ppc' = "date"
    /\ xcall' = [x \in Extractor |->
                   [xcall[x] EXCEPT !.raced = xcall[x].pc = "store"]]
    /\ UNCHANGED <<changeDate, rateSet>>

PeerHello(p) == p \notin peers /\ PeersBecome(peers \cup {p})

PeerGoodbye(p) == p \in peers /\ PeersBecome(peers \ {p})

\* The clean ticker deletes all the peers that have not pinged for peerTimeout.
CleanPeers(ps) == ps # {} /\ PeersBecome(peers \ ps)

StoreChangeDate ==
    /\ ppc = "date"
    /\ changeDate' = changeDate + 1
    /\ ppc' = "rates"
    /\ UNCHANGED <<peers, peersCount, rateVars>>

\* Mutant: the rates in use are kept.
KeepRates ==
    /\ ppc = "rates"
    /\ ppc' = "idle"
    /\ UNCHANGED <<peers, peersCount, changeDate, rateVars>>

ClearRates ==
    /\ ppc = "rates"
    /\ rateSet' = emptyRateSet
    /\ ppc' = "idle"
    /\ UNCHANGED <<peers, peersCount, changeDate, xcall>>

listenPeers ==
    \/ \E p \in Peer : PeerHello(p) \/ PeerGoodbye(p)
    \/ \E ps \in SUBSET peers : CleanPeers(ps)
    \/ StoreChangeDate
    \/ ClearRates

-----------------------------------------------------------------------------
\* ExtractRates: a set that is there is used as it is.
LoadRates(x) ==
    /\ xcall[x].pc = "idle"
    /\ rateSet.peers = 0
    /\ xcall' = [xcall EXCEPT ![x].pc = "count"]
    /\ UNCHANGED <<peerVars, rateSet>>

LoadCount(x) ==
    /\ xcall[x].pc = "count"
    /\ xcall' = [xcall EXCEPT ![x] =
                   [pc |-> "store", count |-> peersCount + 1, raced |-> FALSE]]
    /\ UNCHANGED <<peerVars, rateSet>>

StoreRates(x) ==
    /\ xcall[x].pc = "store"
    /\ rateSet' = [peers |-> xcall[x].count, raced |-> xcall[x].raced]
    /\ xcall' = [xcall EXCEPT ![x] = XIdle]
    /\ UNCHANGED peerVars

ExtractRates(x) == LoadRates(x) \/ LoadCount(x) \/ StoreRates(x)

-----------------------------------------------------------------------------
\* What a source is allowed is tokenLimitingBurst shared by the gateways that
\* listenPeers knows of.  The share in use can be another one for good, but only
\* when the peers changed between ExtractRates' read of their number and its
\* store: a set computed without such a race is never left behind by listenPeers.
SharesFollowPeers ==
    ppc = "idle" /\ rateSet.peers # 0 /\ ~rateSet.raced =>
      rateSet.peers = Cardinality(peers) + 1
=============================================================================
