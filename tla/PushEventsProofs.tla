-------------------------- MODULE PushEventsProofs --------------------------
(***************************************************************************)
(* The publishing side, for any number of pushers, batches and attempts:   *)
(* with it in front the push server does nothing it does not do alone, and *)
(* Publish accepts every event once, in the order of its pusher, and       *)
(* dispatchers start in the order it accepted their events.                *)
(***************************************************************************)
EXTENDS PushEvents, PushServerProofs, SequenceTheorems

\* Within a call, the pusher has an event of one of its batches in hand.
HoldsAnEvent ==
    \A p \in Pusher : /\ batch[p] # 0
                      /\ InCall(p) => /\ batch[p] \in 1..Len(Batches[p])
                                      /\ at[p] \in 1..Len(Batch(p))

\* The i-th batch of the pusher has a k-th event, and it lies behind.
Pushes(p, i, k) == i \in DOMAIN Batches[p] /\ k \in DOMAIN Batches[p][i]
Past(p, i, k) == i < batch[p] \/ (i = batch[p] /\ k < at[p])

\* Only events that lie behind their pusher were published.
PublishedIsPast ==
    \A n \in DOMAIN published :
      \E p \in Pusher, i, k \in Nat :
        Pushes(p, i, k) /\ published[n] = Batches[p][i][k] /\ Past(p, i, k)

\* The types of what is in front of the server.
PushTypeOK ==
    /\ batch \in [Pusher -> Nat]
    /\ at \in [Pusher -> Nat]
    /\ attempt \in [Pusher -> 0..(MaxAttempts - 1)]
    /\ topicQueue \in Seq(Event)
    /\ published \in Seq(Event)

PushInv ==
    /\ PushTypeOK
    /\ HoldsAnEvent
    /\ PublishedIsPast
    /\ PublishedOnceInOrder
-----------------------------------------------------------------------------
\* The batches are sequences of events, none of them empty.
LEMMA BatchTypes ==
    ASSUME NEW p \in Pusher
    PROVE  /\ Batches[p] \in Seq(Seq(Event) \ {<<>>})
           /\ Len(Batches[p]) \in Nat /\ DOMAIN Batches[p] = 1..Len(Batches[p])
           /\ \A i \in 1..Len(Batches[p]) :
                /\ Batches[p][i] \in Seq(Event)
                /\ Len(Batches[p][i]) \in Nat \ {0}
                /\ DOMAIN Batches[p][i] = 1..Len(Batches[p][i])
<1>1. Batches[p] \in Seq(Seq(Event) \ {<<>>})
  BY PushAssumption
<1>2. Len(Batches[p]) \in Nat /\ DOMAIN Batches[p] = 1..Len(Batches[p])
  BY <1>1, SMTT(30)
<1>3. ASSUME NEW i \in 1..Len(Batches[p])
      PROVE  /\ Batches[p][i] \in Seq(Event)
             /\ Len(Batches[p][i]) \in Nat \ {0}
             /\ DOMAIN Batches[p][i] = 1..Len(Batches[p][i])
  <2>1. Batches[p][i] \in Seq(Event) /\ Batches[p][i] # <<>>
    BY <1>1, <1>2, SMTT(30)
  <2> QED
    BY <2>1, EmptySeq, SMTT(30)
<1> QED
  BY <1>1, <1>2, <1>3, SMTT(30)

\* No event is pushed twice.
LEMMA PushedOnce ==
    ASSUME NEW p \in Pusher, NEW q \in Pusher, NEW i, NEW j, NEW k, NEW l,
           Pushes(p, i, k), Pushes(q, j, l), Batches[p][i][k] = Batches[q][j][l]
    PROVE  p = q /\ i = j /\ k = l
BY PushAssumption DEF Pushes

\* Nothing was pushed at the start.
LEMMA PushInvInit == PInit => PushInv
<1> SUFFICES ASSUME PInit
             PROVE  PushInv
  OBVIOUS
<1>1. PushTypeOK
  BY PushAssumption DEF PInit, PushTypeOK
<1>2. HoldsAnEvent
  BY DEF PInit, HoldsAnEvent, InCall
<1>3. DOMAIN published = {}
  BY DEF PInit
<1> QED
  BY <1>1, <1>2, <1>3, SMTT(30) DEF PushInv, PublishedIsPast, PublishedOnceInOrder

\* A pusher that goes on to its next event, or leaves the call, leaves the one
\* in hand behind and forgets none that was.
LEMMA PusherMovesOn ==
    ASSUME PushTypeOK, HoldsAnEvent, NEW p \in Pusher, InCall(p),
           \/ NextEvent(p)
           \/ Leave(p) /\ UNCHANGED attempt
    PROVE  /\ batch' \in [Pusher -> Nat] /\ at' \in [Pusher -> Nat]
           /\ attempt' \in [Pusher -> 0..(MaxAttempts - 1)]
           /\ HoldsAnEvent'
           /\ \A i, k \in Nat : i = batch[p] /\ k = at[p] => Past(p, i, k)'
           /\ \A q \in Pusher : \A i, k \in Nat : Past(q, i, k) => Past(q, i, k)'
<1>1. /\ batch \in [Pusher -> Nat] /\ at \in [Pusher -> Nat]
      /\ attempt \in [Pusher -> 0..(MaxAttempts - 1)] /\ MaxAttempts \in Nat \ {0}
  BY PushAssumption DEF PushTypeOK
<1>2. attempt' \in [Pusher -> 0..(MaxAttempts - 1)]
  BY <1>1, SMTT(30) DEF NextEvent
<1>3. batch[p] \in 1..Len(Batches[p]) /\ at[p] \in 1..Len(Batches[p][batch[p]])
  BY DEF HoldsAnEvent, Batch
<1>4. Len(Batches[p]) \in Nat /\ Len(Batches[p][batch[p]]) \in Nat
  BY <1>3, BatchTypes
<1>5. CASE Leave(p)
  <2>1. /\ at' = [at EXCEPT ![p] = 0] /\ batch' = [batch EXCEPT ![p] = batch[p] + 1]
        /\ at'[p] = 0 /\ batch'[p] = batch[p] + 1
        /\ \A q \in Pusher \ {p} : at'[q] = at[q] /\ batch'[q] = batch[q]
        /\ batch' \in [Pusher -> Nat] /\ at' \in [Pusher -> Nat]
    BY <1>1, <1>5, SMTT(30) DEF Leave
  <2>2. HoldsAnEvent'
    BY <2>1, SMTT(30) DEF HoldsAnEvent, InCall, Batch
  <2>3. \A i, k \in Nat : i = batch[p] /\ k = at[p] => Past(p, i, k)'
    BY <1>1, <2>1, SMTT(30) DEF Past
  <2>4. \A q \in Pusher : \A i, k \in Nat : Past(q, i, k) => Past(q, i, k)'
    BY <1>1, <2>1, SMTT(30) DEF Past
  <2> QED
    BY <1>2, <2>1, <2>2, <2>3, <2>4, SMTT(30)
<1>6. CASE NextEvent(p) /\ ~ Leave(p)
  <2>1. /\ at[p] < Len(Batches[p][batch[p]])
        /\ at' = [at EXCEPT ![p] = at[p] + 1] /\ batch' = batch
        /\ at'[p] = at[p] + 1
        /\ \A q \in Pusher \ {p} : at'[q] = at[q]
        /\ at' \in [Pusher -> Nat]
    BY <1>1, <1>6, SMTT(30) DEF NextEvent, Batch
  <2>2. HoldsAnEvent'
    BY <1>1, <1>3, <1>4, <2>1, SMTT(30) DEF HoldsAnEvent, InCall, Batch
  <2>3. \A i, k \in Nat : i = batch[p] /\ k = at[p] => Past(p, i, k)'
    BY <1>1, <2>1, SMTT(30) DEF Past
  <2>4. \A q \in Pusher : \A i, k \in Nat : Past(q, i, k) => Past(q, i, k)'
    BY <1>1, <2>1, SMTT(30) DEF Past
  <2> QED
    BY <1>1, <1>2, <2>1, <2>2, <2>3, <2>4, ZenonT(40)
<1> QED
  BY <1>5, <1>6, SMTT(30)

\* What was published stays behind its pusher, who does not go back.
LEMMA PastStays ==
    ASSUME PublishedIsPast, UNCHANGED published,
           \A q \in Pusher : \A i, k \in Nat : Past(q, i, k) => Past(q, i, k)'
    PROVE  PublishedIsPast'
<1> SUFFICES ASSUME NEW n \in DOMAIN published
             PROVE  \E p \in Pusher, i, k \in Nat :
                      Pushes(p, i, k) /\ published[n] = Batches[p][i][k] /\ Past(p, i, k)'
  BY DEF PublishedIsPast, Pushes
<1>1. PICK p \in Pusher, i \in Nat, k \in Nat :
        Pushes(p, i, k) /\ published[n] = Batches[p][i][k] /\ Past(p, i, k)
  BY DEF PublishedIsPast
<1>2. Past(p, i, k)'
  BY <1>1, SMTT(30)
<1> QED
  BY <1>1, <1>2, SMTT(30)

\* Steps of a pusher that publish nothing.
LEMMA UnpublishedKeeps ==
    ASSUME PushInv, NEW p \in Pusher,
           PushEvents(p) \/ NotPublished(p) \/ EncodeFails(p) \/ PublishFails(p)
    PROVE  PushInv'
<1>1. UNCHANGED <<topicQueue, published>>
  BY DEF PushEvents, NotPublished, EncodeFails, PublishFails
<1>2. PushTypeOK /\ HoldsAnEvent /\ PublishedIsPast /\ PublishedOnceInOrder
  BY SMTT(30) DEF PushInv
<1>3. PublishedOnceInOrder'
  BY <1>1, <1>2, SMTT(30) DEF PublishedOnceInOrder, Before
<1>4. CASE InCall(p) /\ (NextEvent(p) \/ (Leave(p) /\ UNCHANGED attempt))
  <2>1. /\ batch' \in [Pusher -> Nat] /\ at' \in [Pusher -> Nat]
        /\ attempt' \in [Pusher -> 0..(MaxAttempts - 1)]
        /\ HoldsAnEvent'
        /\ \A q \in Pusher : \A i, k \in Nat : Past(q, i, k) => Past(q, i, k)'
    BY <1>2, <1>4, PusherMovesOn, SMTT(30)
  <2>2. PublishedIsPast'
    BY <1>1, <1>2, <2>1, PastStays, SMTT(30)
  <2>3. PushTypeOK'
    BY <1>1, <1>2, <2>1, ZenonT(40) DEF PushTypeOK
  <2> QED
    BY <1>3, <2>1, <2>2, <2>3, SMTT(30) DEF PushInv
<1>5. CASE PushEvents(p)
  <2>1. /\ at' = [at EXCEPT ![p] = 1] /\ UNCHANGED <<batch, attempt>>
        /\ at[p] = 0 /\ batch[p] <= Len(Batches[p])
    BY <1>5, ZenonT(40) DEF PushEvents, InCall
  <2>2. batch \in [Pusher -> Nat] /\ at \in [Pusher -> Nat]
    BY <1>2, SMTT(30) DEF PushTypeOK
  <2>3. PushTypeOK'
    BY <1>1, <1>2, <2>1, <2>2, SMTT(30) DEF PushTypeOK
  <2>4. batch[p] \in 1..Len(Batches[p])
    BY <1>2, <2>1, <2>2, BatchTypes, SMTT(30) DEF HoldsAnEvent
  <2>5. HoldsAnEvent'
    BY <1>2, <2>1, <2>2, <2>4, BatchTypes, SMTT(30) DEF HoldsAnEvent, InCall, Batch
  <2>6. \A q \in Pusher : \A i, k \in Nat : Past(q, i, k) => Past(q, i, k)'
    BY <2>1, <2>2, SMTT(30) DEF Past
  <2>7. PublishedIsPast'
    BY <1>1, <1>2, <2>6, PastStays, SMTT(30)
  <2> QED
    BY <1>3, <2>3, <2>5, <2>7, SMTT(30) DEF PushInv
<1>6. CASE PublishFails(p) /\ attempt[p] + 1 < MaxAttempts
  <2>1. attempt' = [attempt EXCEPT ![p] = attempt[p] + 1] /\ UNCHANGED <<at, batch>>
    BY <1>6, SMTT(30) DEF PublishFails
  <2>2. PushTypeOK'
    BY <1>1, <1>2, <1>6, <2>1, PushAssumption, SMTT(30) DEF PushTypeOK
  <2>3. HoldsAnEvent' /\ PublishedIsPast'
    BY <1>1, <1>2, <2>1, SMTT(30) DEF HoldsAnEvent, InCall, Batch, PublishedIsPast, Past
  <2> QED
    BY <1>3, <2>2, <2>3, ZenonT(40) DEF PushInv
<1> QED
  BY <1>4, <1>5, <1>6, SMTT(30) DEF NotPublished, EncodeFails, PublishFails

\* Publish accepts the event in hand, which lies ahead of every one before.
LEMMA PublishKeeps ==
    ASSUME PushInv, NEW p \in Pusher, Publish(p)
    PROVE  PushInv'
<1> DEFINE e == InHand(p)
           b == batch[p]
           a == at[p]
           N == Len(published)
<1>1. PushTypeOK /\ HoldsAnEvent /\ PublishedIsPast /\ PublishedOnceInOrder /\ InCall(p)
  BY SMTT(30) DEF PushInv, Publish
<1>2. /\ b \in 1..Len(Batches[p]) /\ a \in 1..Len(Batches[p][b]) /\ e = Batches[p][b][a]
  BY <1>1, SMTT(30) DEF HoldsAnEvent, InHand, Batch
<1>3. Pushes(p, b, a) /\ e \in Event /\ b \in Nat /\ a \in Nat
  BY <1>2, BatchTypes, SMTT(30) DEF Pushes
<1>4. /\ published \in Seq(Event) /\ topicQueue \in Seq(Event) /\ N \in Nat
      /\ batch \in [Pusher -> Nat] /\ at \in [Pusher -> Nat]
  BY <1>1 DEF PushTypeOK
<1> HIDE DEF e
<1>5. published' = Append(published, e) /\ topicQueue' = Append(topicQueue, e) /\ NextEvent(p)
  BY DEF Publish, e
<1>6. /\ published' \in Seq(Event) /\ topicQueue' \in Seq(Event)
      /\ DOMAIN published = 1..N
      /\ DOMAIN published' = 1..(N + 1)
      /\ \A n \in 1..N : published'[n] = published[n]
      /\ published'[N + 1] = e
  BY <1>3, <1>4, <1>5, SMTT(30)
<1>7. /\ batch' \in [Pusher -> Nat] /\ at' \in [Pusher -> Nat]
      /\ attempt' \in [Pusher -> 0..(MaxAttempts - 1)]
      /\ HoldsAnEvent'
      /\ \A i, k \in Nat : i = b /\ k = a => Past(p, i, k)'
      /\ \A q \in Pusher : \A i, k \in Nat : Past(q, i, k) => Past(q, i, k)'
  BY <1>1, <1>5, PusherMovesOn, ZenonT(40)
<1>8. PushTypeOK'
  BY <1>6, <1>7, ZenonT(40) DEF PushTypeOK
<1>9. ~ Past(p, b, a)
  BY <1>3, SMTT(30) DEF Past
<1>10. PublishedIsPast'
  <2>1. ASSUME NEW n \in 1..(N + 1)
        PROVE  \E q \in Pusher, i, k \in Nat :
                 Pushes(q, i, k) /\ published'[n] = Batches[q][i][k] /\ Past(q, i, k)'
    <3>1. CASE n = N + 1
      <4>1. \A i, k \in Nat : i = b /\ k = a =>
              Pushes(p, i, k) /\ published'[n] = Batches[p][i][k] /\ Past(p, i, k)'
        BY <1>2, <1>3, <1>6, <1>7, <3>1, ZenonT(40)
      <4> HIDE DEF b, a
      <4> QED
        BY <1>3, <4>1, ZenonT(40)
    <3>2. CASE n \in 1..N
      <4>1. PICK q \in Pusher, i \in Nat, k \in Nat :
              Pushes(q, i, k) /\ published[n] = Batches[q][i][k] /\ Past(q, i, k)
        BY <1>1, <1>6, <3>2, ZenonT(40) DEF PublishedIsPast
      <4>2. Past(q, i, k)'
        BY <1>7, <4>1, ZenonT(40)
      <4> QED
        BY <1>6, <3>2, <4>1, <4>2, ZenonT(40)
    <3> QED
      BY <1>4, <3>1, <3>2
  <2> QED
    BY <1>6, <2>1, ZenonT(40) DEF PublishedIsPast
<1>11. ASSUME NEW n \in 1..N
       PROVE  published[n] # e /\ \A q \in Pusher : ~ Before(q, e, published[n])
  <2>1. PICK q \in Pusher, i \in Nat, k \in Nat :
          Pushes(q, i, k) /\ published[n] = Batches[q][i][k] /\ Past(q, i, k)
    BY <1>1, <1>6, ZenonT(40) DEF PublishedIsPast
  <2>2. published[n] # e
    BY <1>2, <1>3, <1>9, <2>1, PushedOnce, ZenonT(40)
  <2>3. ASSUME NEW r \in Pusher, Before(r, e, published[n])
        PROVE  FALSE
    <3>1. PICK x \in DOMAIN Batches[r], y \in DOMAIN Batches[r] :
            \E z \in DOMAIN Batches[r][x], l \in DOMAIN Batches[r][y] :
              /\ x < y \/ (x = y /\ z < l)
              /\ e = Batches[r][x][z] /\ published[n] = Batches[r][y][l]
      BY <2>3, ZenonT(40) DEF Before
    <3>2. PICK z \in DOMAIN Batches[r][x], l \in DOMAIN Batches[r][y] :
              /\ x < y \/ (x = y /\ z < l)
              /\ e = Batches[r][x][z] /\ published[n] = Batches[r][y][l]
      BY <3>1, ZenonT(40)
    <3>3. Pushes(r, x, z) /\ Pushes(r, y, l)
      BY SMTT(30) DEF Pushes
    <3>4. r = p /\ x = b /\ z = a
      <4>1. Batches[r][x][z] = Batches[p][b][a]
        BY <1>2, <3>2, ZenonT(40)
      <4>2. Pushes(p, b, a) /\ Pushes(r, x, z)
        BY <1>3, <3>3, ZenonT(40)
      <4> HIDE DEF b, a
      <4>3. \A i1, j1, k1, l1 : /\ Pushes(p, i1, k1) /\ Pushes(r, j1, l1)
                               /\ Batches[r][j1][l1] = Batches[p][i1][k1]
                               => r = p /\ j1 = i1 /\ l1 = k1
        BY PushedOnce, SMTT(30)
      <4> QED
        BY <4>1, <4>2, <4>3, SMTT(30)
    <3>5. q = r /\ i = y /\ k = l
      <4>1. Batches[q][i][k] = Batches[r][y][l] /\ Pushes(q, i, k)
        BY <2>1, <3>2, ZenonT(40)
      <4> QED
        BY <3>3, <4>1, PushedOnce, SMTT(30)
    <3>6. i < b \/ (i = b /\ k < a)
      BY <2>1, <3>4, <3>5, ZenonT(40) DEF Past
    <3> QED
      BY <1>3, <3>2, <3>4, <3>5, <3>6, SMTT(30)
  <2> QED
    BY <2>2, <2>3, SMTT(30)
<1>12. PublishedOnceInOrder'
  <2> SUFFICES ASSUME NEW i \in 1..(N + 1), NEW j \in 1..(N + 1), i < j
               PROVE  /\ published'[i] # published'[j]
                      /\ \A q \in Pusher : ~ Before(q, published'[j], published'[i])
    BY <1>6, SMTT(30) DEF PublishedOnceInOrder, Before
  <2>1. i \in 1..N /\ published'[i] = published[i]
    BY <1>4, <1>6
  <2>2. CASE j = N + 1
    BY <1>6, <1>11, <2>1, <2>2
  <2>3. CASE j \in 1..N
    BY <1>1, <1>6, <2>1, <2>3, ZenonT(40) DEF PublishedOnceInOrder
  <2>4. j = N + 1 \/ j \in 1..N
    <3>1. N \in Nat
      BY <1>4, ZenonT(40)
    <3> HIDE DEF N
    <3> QED
      BY <3>1
  <2> QED
    BY <2>2, <2>3, <2>4, ZenonT(40)
<1> QED
  BY <1>7, <1>8, <1>10, <1>12, ZenonT(40) DEF PushInv

\* Every step keeps what was published behind its pusher and in order.
LEMMA PushInvNext == PushInv /\ [PNext]_pvars => PushInv'
<1> SUFFICES ASSUME PushInv, [PNext]_pvars
             PROVE  PushInv'
  OBVIOUS
<1>1. CASE UNCHANGED pushVars
  <2>1. UNCHANGED <<batch, at, attempt, topicQueue, published>>
    BY <1>1 DEF pushVars
  <2>2. PushTypeOK' /\ HoldsAnEvent'
    BY <2>1, ZenonT(40) DEF PushInv, PushTypeOK, HoldsAnEvent, InCall, Batch
  <2>3. PublishedIsPast' /\ PublishedOnceInOrder'
    BY <2>1 DEF PushInv, PublishedIsPast, Past, Pushes, PublishedOnceInOrder, Before
  <2> QED
    BY <2>2, <2>3 DEF PushInv
<1>2. CASE \E p \in Pusher : Push(p)
  BY <1>2, UnpublishedKeeps, PublishKeeps, SMTT(30) DEF Push
<1>3. CASE Deliver
  <2>1. topicQueue \in Seq(Event) /\ topicQueue # <<>>
    BY <1>3, SMTT(30) DEF PushInv, PushTypeOK, Deliver
  <2>2. topicQueue' \in Seq(Event) /\ UNCHANGED <<batch, at, attempt, published>>
    BY <1>3, <2>1, HeadTailProperties, SMTT(30) DEF Deliver
  <2>3. PushTypeOK' /\ HoldsAnEvent'
    BY <2>2, SMTT(30) DEF PushInv, PushTypeOK, HoldsAnEvent, InCall, Batch
  <2>4. PublishedIsPast' /\ PublishedOnceInOrder'
    BY <2>2, SMTT(30) DEF PushInv, PublishedIsPast, Past, Pushes, PublishedOnceInOrder, Before
  <2> QED
    BY <2>3, <2>4 DEF PushInv
<1>4. CASE UNCHANGED pvars
  BY <1>1, <1>4, SMTT(30) DEF pvars
<1> QED
  BY <1>1, <1>2, <1>3, <1>4 DEF PNext

\* In every state what was published lies behind its pusher, in order.
THEOREM PushInvariant == PSpec => []PushInv
BY PushInvInit, PushInvNext, PTL DEF PSpec

\* pushEvents, with its retries and its breaks, beside any number of other
\* pushers: Publish accepts an event at most once, and in the order in which
\* its pusher pushes.
THEOREM PublishedInOrder == PSpec => []PublishedOnceInOrder
<1>1. PushInv => PublishedOnceInOrder
  BY DEF PushInv
<1> QED
  BY <1>1, PushInvariant, PTL

\* A step of a pusher leaves the server alone; a delivery is a reception.
LEMMA PNextIsNext == PushInv /\ [PNext]_pvars => [Next]_vars
<1> SUFFICES ASSUME PushInv, [PNext]_pvars
             PROVE  [Next]_vars
  BY ZenonT(40)
<1>1. CASE \E p \in Pusher : Push(p)
  BY <1>1 DEF Push, PushEvents, NotPublished, EncodeFails, PublishFails, Publish
<1>2. CASE Deliver
  <2>1. Head(topicQueue) \in Event
    BY <1>2 DEF PushInv, PushTypeOK, Deliver
  <2>2. Receive(Head(topicQueue)) \/ UNCHANGED vars
    BY <1>2 DEF Deliver
  <2> QED
    BY <2>1, <2>2, Zenon DEF Next, EventStep
<1>3. CASE \E s \in Session : PushedSessionStep(s)
  BY <1>3, Zenon DEF PushedSessionStep, Next, SessionStep
<1>4. CASE \E e \in Event : CreateEvent(e) \/ Spawn(e) \/ Dispatch(e)
  BY <1>4, Zenon DEF Next, EventStep
<1>5. CASE ServerStep
  BY <1>5, Zenon DEF Next
<1>6. CASE UNCHANGED pvars
  BY <1>6 DEF pvars
<1> QED
  BY <1>1, <1>2, <1>3, <1>4, <1>5, <1>6, ZenonT(40) DEF PNext

\* The push server behind pushers and a topic does only what PushServer lets
\* it do, so all that is proved of PushServer holds of it.
THEOREM PushersRefineServer == PSpec => Spec
<1>1. PInit => Init
  BY DEF PInit
<1>2. PushInv /\ [PNext]_pvars => [Next]_vars
  BY PNextIsNext
<1> QED
  BY <1>1, <1>2, PushInvariant, PTL DEF PSpec, Spec

\* Every variable, of the pushers, of the topic and of the server, keeps its
\* type; in particular no event is tried more than MaxAttempts times.
THEOREM PTypeCorrect == PSpec => []PTypeOK
<1>1. PushInv /\ TypeOK => PTypeOK
  BY DEF PushInv, PushTypeOK, PTypeOK
<1> QED
  BY <1>1, PushInvariant, PushersRefineServer, TypeCorrect, PTL

-----------------------------------------------------------------------------
(***************************************************************************)
(* From Publish to the dispatchers.  An event is in the topic, then in the *)
(* channel of publications, then it has a dispatcher; of two events in     *)
(* different places the one that is further was published earlier, and in  *)
(* one place they stand in the order of publication.                       *)
(***************************************************************************)
In(q) == {q[i] : i \in DOMAIN q}

Earlier(d, e) == \E k, l \in DOMAIN published : k < l /\ published[k] = d /\ published[l] = e

Ordered(q) == \A i, j \in DOMAIN q : i < j => Earlier(q[i], q[j])
Ahead(S, T) == \A d \in S, e \in T : Earlier(d, e)

Started == {e \in Event : dpc[e] \notin {"none", "created", "received"}}

PipelineInv ==
    /\ Started \cup In(publications) \cup In(topicQueue) \subseteq In(published)
    /\ Ordered(publications) /\ Ordered(topicQueue)
    /\ Ahead(Started, In(publications)) /\ Ahead(Started, In(topicQueue))
    /\ Ahead(In(publications), In(topicQueue))

\* pushEvents, the topic and start: only a published event gets a dispatcher,
\* and when it does no event that was published before it, by whichever pusher,
\* is left in the topic or in the channel.
StartsInOrder ==
    /\ Started \subseteq In(published)
    /\ \A i, j \in DOMAIN published :
         i < j /\ published[j] \in Started => published[i] \notin In(publications) \cup In(topicQueue)

\* The elements of a queue to which one is appended.
LEMMA AppendIn ==
    ASSUME NEW q \in Seq(Event), NEW e \in Event
    PROVE  In(Append(q, e)) = In(q) \cup {e}
<1>1. Len(q) \in Nat /\ DOMAIN q = 1..Len(q)
  BY LenProperties
<1>2. /\ DOMAIN Append(q, e) = 1..(Len(q) + 1)
      /\ \A i \in 1..Len(q) : Append(q, e)[i] = q[i]
      /\ Append(q, e)[Len(q) + 1] = e
  BY AppendProperties, LenProperties
<1> QED
  BY <1>1, <1>2 DEF In

\* They stand before it.
LastIs(q, r, e) ==
    \A i, j \in DOMAIN r : i < j =>
      /\ i \in DOMAIN q /\ r[i] = q[i] /\ q[i] \in In(q)
      /\ (j \in DOMAIN q /\ r[j] = q[j]) \/ r[j] = e

LEMMA AppendLast ==
    ASSUME NEW q \in Seq(Event), NEW e \in Event
    PROVE  LastIs(q, Append(q, e), e)
<1> DEFINE r == Append(q, e)
<1> SUFFICES ASSUME NEW i \in DOMAIN r, NEW j \in DOMAIN r, i < j
             PROVE  /\ i \in DOMAIN q /\ r[i] = q[i] /\ q[i] \in In(q)
                    /\ (j \in DOMAIN q /\ r[j] = q[j]) \/ r[j] = e
  BY DEF LastIs
<1>1. Len(q) \in Nat /\ DOMAIN q = 1..Len(q)
  BY LenProperties
<1>2. /\ DOMAIN r = 1..(Len(q) + 1)
      /\ \A k \in 1..Len(q) : r[k] = q[k]
      /\ r[Len(q) + 1] = e
  BY AppendProperties, LenProperties
<1> HIDE DEF r
<1>3. i \in 1..Len(q) /\ (j \in 1..Len(q) \/ j = Len(q) + 1)
  <2>1. Len(q) \in Nat /\ i \in 1..(Len(q) + 1) /\ j \in 1..(Len(q) + 1)
    BY <1>1, <1>2, ZenonT(40)
  <2> QED
    BY <2>1
<1> QED
  BY <1>1, <1>2, <1>3, ZenonT(40) DEF In

\* The elements of a queue whose head is taken.
LEMMA TailIn ==
    ASSUME NEW S, NEW q \in Seq(S), q # <<>>
    PROVE  /\ Head(q) \in In(q) \cap S
           /\ In(Tail(q)) \subseteq In(q)
           /\ \A i \in DOMAIN Tail(q) : i \in Nat /\ i + 1 \in DOMAIN q /\ Tail(q)[i] = q[i + 1]
           /\ 1 \in DOMAIN q /\ Head(q) = q[1]
<1>1. /\ Len(q) \in Nat \ {0} /\ DOMAIN q = 1..Len(q) /\ Head(q) = q[1] /\ Head(q) \in S
      /\ Tail(q) \in Seq(S) /\ Len(Tail(q)) = Len(q) - 1
      /\ \A i \in 1..Len(Tail(q)) : Tail(q)[i] = q[i + 1]
  BY HeadTailProperties, LenProperties, EmptySeq
<1>2. DOMAIN Tail(q) = 1..(Len(q) - 1)
  BY <1>1, LenProperties
<1>3. \A i \in DOMAIN Tail(q) : i \in Nat /\ i + 1 \in DOMAIN q /\ Tail(q)[i] = q[i + 1]
  BY <1>1, <1>2
<1>4. 1 \in DOMAIN q
  BY <1>1
<1> QED
  BY <1>1, <1>3, <1>4 DEF In

\* A queue whose head is taken stays in order, behind the head.
LEMMA TailOrdered ==
    ASSUME NEW S, NEW q \in Seq(S), q # <<>>, Ordered(q)
    PROVE  /\ Ordered(Tail(q))
           /\ Ahead({Head(q)}, In(Tail(q)))
<1>1. /\ 1 \in DOMAIN q /\ Head(q) = q[1]
      /\ \A i \in DOMAIN Tail(q) : i \in Nat /\ i + 1 \in DOMAIN q /\ Tail(q)[i] = q[i + 1]
  BY TailIn, ZenonT(40)
<1>2. \A i, j \in DOMAIN Tail(q) : i < j => Earlier(Tail(q)[i], Tail(q)[j])
  <2> SUFFICES ASSUME NEW i \in DOMAIN Tail(q), NEW j \in DOMAIN Tail(q), i < j
               PROVE  Earlier(Tail(q)[i], Tail(q)[j])
    OBVIOUS
  <2>1. i + 1 \in DOMAIN q /\ j + 1 \in DOMAIN q /\ i + 1 < j + 1
    BY <1>1
  <2>2. Tail(q)[i] = q[i + 1] /\ Tail(q)[j] = q[j + 1]
    BY <1>1, ZenonT(40)
  <2> QED
    BY <2>1, <2>2, ZenonT(40) DEF Ordered
<1>3. ASSUME NEW i \in DOMAIN Tail(q) PROVE Earlier(Head(q), Tail(q)[i])
  <2>1. i # 0
    BY HeadTailProperties, LenProperties
  <2>2. i + 1 \in DOMAIN q /\ 1 < i + 1
    BY <1>1, <2>1
  <2> QED
    BY <1>1, <2>2, ZenonT(40) DEF Ordered
<1> QED
  BY <1>2, <1>3, ZenonT(40) DEF Ordered, Ahead, In

\* What was published earlier stays so.
LEMMA EarlierStays ==
    ASSUME NEW e \in Event, published \in Seq(Event), published' = Append(published, e), NEW a, NEW b
    PROVE  /\ Earlier(a, b) => Earlier(a, b)'
           /\ a \in In(published) => Earlier(a, e)'
<1>1. /\ Len(published) \in Nat /\ DOMAIN published = 1..Len(published)
      /\ DOMAIN published' = 1..(Len(published) + 1)
      /\ \A i \in 1..Len(published) : published'[i] = published[i]
      /\ published'[Len(published) + 1] = e
  BY AppendProperties, LenProperties
<1> QED
  BY <1>1 DEF Earlier, In

\* Publish adds an event behind all the others.
LEMMA PublishKeepsPipeline ==
    ASSUME PushInv, PipelineInv, NEW p \in Pusher, Publish(p)
    PROVE  PipelineInv'
<1>1. InHand(p) \in Event
  <2>1. batch[p] \in 1..Len(Batches[p]) /\ at[p] \in 1..Len(Batches[p][batch[p]])
    BY DEF Publish, PushInv, HoldsAnEvent, Batch
  <2>2. Batches[p][batch[p]] \in Seq(Event)
    BY <2>1, BatchTypes, ZenonT(40)
  <2> QED
    BY <2>1, <2>2, ElementOfSeq, ZenonT(40) DEF InHand, Batch
<1>2. PICK e \in Event : published' = Append(published, e) /\ topicQueue' = Append(topicQueue, e)
  BY <1>1, ZenonT(40) DEF Publish
<1>types. /\ published \in Seq(Event) /\ topicQueue \in Seq(Event)
          /\ UNCHANGED <<dpc, publications>>
  BY DEF PushInv, PushTypeOK, Publish, vars, dispatchVars
<1>3. In(published') = In(published) \cup {e} /\ In(topicQueue') = In(topicQueue) \cup {e}
  <2>1. /\ In(Append(published, e)) = In(published) \cup {e}
        /\ In(Append(topicQueue, e)) = In(topicQueue) \cup {e}
    BY <1>types, AppendIn, ZenonT(40)
  <2> QED
    BY <1>2, <2>1, ZenonT(40)
<1>4. /\ \A a, b : Earlier(a, b) => Earlier(a, b)'
      /\ \A a \in In(published) : Earlier(a, e)'
  BY <1>2, <1>types, EarlierStays, ZenonT(40)
<1>5. /\ Started' = Started /\ In(publications') = In(publications)
      /\ DOMAIN publications' = DOMAIN publications
  BY <1>types DEF Started, In
<1>6. (Started \cup In(publications) \cup In(topicQueue) \subseteq In(published))'
  BY <1>3, <1>5 DEF PipelineInv
<1>7. Ordered(publications)'
  BY <1>4, <1>types, ZenonT(40) DEF PipelineInv, Ordered
<1>last. LastIs(topicQueue, topicQueue', e)
  BY <1>2, <1>types, AppendLast, ZenonT(40)
<1>8. Ordered(topicQueue)'
  <2> SUFFICES ASSUME NEW i \in DOMAIN topicQueue', NEW j \in DOMAIN topicQueue', i < j
               PROVE  Earlier(topicQueue[i], topicQueue[j])'
    BY DEF Ordered
  <2>1. /\ i \in DOMAIN topicQueue /\ topicQueue'[i] = topicQueue[i] /\ topicQueue[i] \in In(topicQueue)
        /\ \/ j \in DOMAIN topicQueue /\ topicQueue'[j] = topicQueue[j]
           \/ topicQueue'[j] = e
    BY <1>last, ZenonT(40) DEF LastIs
  <2>2. CASE j \in DOMAIN topicQueue /\ topicQueue'[j] = topicQueue[j]
    BY <1>4, <2>1, <2>2, ZenonT(40) DEF PipelineInv, Ordered
  <2>3. CASE topicQueue'[j] = e
    <3>1. topicQueue[i] \in In(published)
      BY <2>1 DEF PipelineInv
    <3> QED
      BY <1>4, <2>1, <2>3, <3>1, ZenonT(40)
  <2> QED
    BY <2>1, <2>2, <2>3, ZenonT(40)
<1>9. ASSUME NEW a, NEW b, a \in In(published), b = e \/ Earlier(a, b)
      PROVE  Earlier(a, b)'
  BY <1>4, <1>9, ZenonT(40)
<1>10. /\ Started \subseteq In(published) /\ In(publications) \subseteq In(published)
       /\ Ahead(Started, In(publications)) /\ Ahead(Started, In(topicQueue))
       /\ Ahead(In(publications), In(topicQueue))
  BY DEF PipelineInv
<1>11. Ahead(Started, In(publications))'
  BY <1>5, <1>9, <1>10, ZenonT(40) DEF Ahead
<1>12. Ahead(Started, In(topicQueue))' /\ Ahead(In(publications), In(topicQueue))'
  BY <1>3, <1>5, <1>9, <1>10, ZenonT(40) DEF Ahead
<1> QED
  BY <1>6, <1>7, <1>8, <1>11, <1>12, ZenonT(40) DEF PipelineInv

\* The pubsub service takes the head of the topic; a server that runs gets it at
\* the end of its channel.
LEMMA DeliverKeepsPipeline ==
    ASSUME CoreTypeOK, PushInv, PipelineInv, Deliver
    PROVE  PipelineInv'
<1> DEFINE h == Head(topicQueue)
<1>1. /\ topicQueue \in Seq(Event) /\ topicQueue # <<>>
      /\ topicQueue' = Tail(topicQueue) /\ published' = published
      /\ dpc \in [Event -> DispatchPc] /\ publications \in Seq(Event)
  BY DEF PushInv, PushTypeOK, Deliver, CoreTypeOK
<1>2. \A a, b : Earlier(a, b)' <=> Earlier(a, b)
  BY <1>1 DEF Earlier
<1>3. /\ h \in In(topicQueue) \cap Event
      /\ In(topicQueue') \subseteq In(topicQueue)
  BY <1>1, TailIn, ZenonT(40)
<1>4. Ordered(topicQueue') /\ Ahead({h}, In(topicQueue'))
  BY <1>1, TailOrdered, ZenonT(40) DEF PipelineInv
<1>5. Ordered(topicQueue)'
  BY <1>2, <1>4, ZenonT(40) DEF Ordered
<1> HIDE DEF h
<1>6. CASE UNCHANGED vars
  <2>1. Started' = Started /\ publications' = publications
    BY <1>6 DEF vars, dispatchVars, Started
  <2>2. Ordered(publications)'
    BY <1>2, <2>1, ZenonT(40) DEF PipelineInv, Ordered
  <2>3. /\ Ahead(Started, In(publications))' /\ Ahead(Started, In(topicQueue))'
        /\ Ahead(In(publications), In(topicQueue))'
    BY <1>2, <1>3, <2>1, ZenonT(40) DEF PipelineInv, Ahead
  <2>4. (Started \cup In(publications) \cup In(topicQueue) \subseteq In(published))'
    BY <1>1, <1>3, <2>1, ZenonT(40) DEF PipelineInv
  <2> QED
    BY <1>5, <2>2, <2>3, <2>4, ZenonT(40) DEF PipelineInv
<1>7. CASE Receive(h)
  <2>1. /\ publications' = Append(publications, h)
        /\ dpc' = [dpc EXCEPT ![h] = "received"] /\ dpc[h] = "created"
    BY <1>7, ZenonT(40) DEF Receive, EventGoto
  <2>2. Started' = Started
    BY <1>1, <1>3, <2>1, ZenonT(40) DEF Started
  <2>3. In(publications') = In(publications) \cup {h} /\ h \in Event
    <3>1. h \in Event
      BY <1>3, ZenonT(40)
    <3>2. In(Append(publications, h)) = In(publications) \cup {h}
      BY <1>1, <3>1, AppendIn, ZenonT(40)
    <3> QED
      BY <2>1, <3>1, <3>2, ZenonT(40)
  <2>4. /\ Ordered(publications) /\ Ahead(Started, In(publications)) /\ Ahead(Started, In(topicQueue))
        /\ Ahead(In(publications), In(topicQueue))
    BY ZenonT(40) DEF PipelineInv
  <2>last. LastIs(publications, publications', h)
    BY <1>1, <2>1, <2>3, AppendLast, ZenonT(40)
  <2>5. Ordered(publications)'
    <3> SUFFICES ASSUME NEW i \in DOMAIN publications', NEW j \in DOMAIN publications', i < j
                 PROVE  Earlier(publications'[i], publications'[j])
      BY <1>2, ZenonT(40) DEF Ordered
    <3>1. /\ i \in DOMAIN publications /\ publications'[i] = publications[i] /\ publications[i] \in In(publications)
          /\ \/ j \in DOMAIN publications /\ publications'[j] = publications[j]
             \/ publications'[j] = h
      BY <2>last, ZenonT(40) DEF LastIs
    <3>2. CASE j \in DOMAIN publications /\ publications'[j] = publications[j]
      BY <2>4, <3>1, <3>2, ZenonT(40) DEF Ordered
    <3>3. CASE publications'[j] = h
      BY <1>3, <2>4, <3>1, <3>3, ZenonT(40) DEF Ahead
    <3> QED
      BY <3>1, <3>2, <3>3, ZenonT(40)
  <2>6. ASSUME NEW a \in Started, NEW b \in In(publications') \cup In(topicQueue')
        PROVE  Earlier(a, b)
    <3>1. b \in In(publications) \cup In(topicQueue)
      BY <1>3, <2>3
    <3> QED
      BY <2>4, <3>1 DEF Ahead
  <2>7. ASSUME NEW a \in In(publications'), NEW b \in In(topicQueue')
        PROVE  Earlier(a, b)
    BY <1>3, <1>4, <2>3, <2>4, ZenonT(40) DEF Ahead
  <2>8. /\ Ahead(Started, In(publications))' /\ Ahead(Started, In(topicQueue))'
        /\ Ahead(In(publications), In(topicQueue))'
    BY <1>2, <2>2, <2>6, <2>7, ZenonT(40) DEF Ahead
  <2>9. (Started \cup In(publications) \cup In(topicQueue) \subseteq In(published))'
    BY <1>1, <1>3, <2>2, <2>3, ZenonT(40) DEF PipelineInv
  <2> QED
    BY <1>5, <2>5, <2>8, <2>9, ZenonT(40) DEF PipelineInv
<1> QED
  BY <1>6, <1>7 DEF Deliver, h

\* start takes the head of its channel.
LEMMA SpawnKeepsPipeline ==
    ASSUME CoreTypeOK, PipelineInv, NEW e \in Event, Spawn(e), UNCHANGED pushVars
    PROVE  PipelineInv'
<1>1. /\ publications \in Seq(Event) /\ publications # <<>> /\ e = Head(publications)
      /\ publications' = Tail(publications)
      /\ dpc \in [Event -> DispatchPc] /\ dpc' = [dpc EXCEPT ![e] = "spawned"]
  BY DEF Spawn, EventGoto, CoreTypeOK
<1>2. published' = published /\ topicQueue' = topicQueue
  BY ZenonT(40) DEF pushVars
<1>3. \A a, b : Earlier(a, b)' <=> Earlier(a, b)
  BY <1>2 DEF Earlier
<1>4. Started' = Started \cup {e}
  BY <1>1 DEF Started
<1>5. e \in In(publications) /\ In(publications') \subseteq In(publications)
  BY <1>1, TailIn, ZenonT(40)
<1>6. Ordered(publications') /\ Ahead({e}, In(publications'))
  BY <1>1, TailOrdered, ZenonT(40) DEF PipelineInv
<1>7. /\ Ahead(Started, In(publications)) /\ Ahead(Started, In(topicQueue))
      /\ Ahead(In(publications), In(topicQueue)) /\ Ordered(topicQueue)
  BY ZenonT(40) DEF PipelineInv
<1>8. Ordered(publications)' /\ Ordered(topicQueue)'
  BY <1>2, <1>3, <1>6, <1>7, ZenonT(40) DEF Ordered
<1>9. Ahead(Started, In(publications))'
  BY <1>3, <1>4, <1>5, <1>6, <1>7, ZenonT(40) DEF Ahead
<1>10. Ahead(Started, In(topicQueue))' /\ Ahead(In(publications), In(topicQueue))'
  BY <1>2, <1>3, <1>4, <1>5, <1>7, ZenonT(40) DEF Ahead
<1>11. (Started \cup In(publications) \cup In(topicQueue) \subseteq In(published))'
  BY <1>2, <1>4, <1>5 DEF PipelineInv
<1> QED
  BY <1>8, <1>9, <1>10, <1>11, ZenonT(40) DEF PipelineInv

\* All other steps leave the three places as they are.
LEMMA PipelineKept ==
    ASSUME PipelineInv, UNCHANGED <<published, topicQueue, publications>>, Started' = Started
    PROVE  PipelineInv'
<1>1. \A a, b : Earlier(a, b)' <=> Earlier(a, b)
  BY DEF Earlier
<1>2. In(published') = In(published) /\ In(topicQueue') = In(topicQueue) /\ In(publications') = In(publications)
  BY ZenonT(40)
<1>3. Ordered(publications)' /\ Ordered(topicQueue)'
  BY <1>1, ZenonT(40) DEF PipelineInv, Ordered
<1>4. /\ Ahead(Started, In(publications))' /\ Ahead(Started, In(topicQueue))'
      /\ Ahead(In(publications), In(topicQueue))'
  BY <1>1, <1>2, ZenonT(40) DEF PipelineInv, Ahead
<1>5. (Started \cup In(publications) \cup In(topicQueue) \subseteq In(published))'
  BY <1>2, ZenonT(40) DEF PipelineInv
<1> QED
  BY <1>3, <1>4, <1>5, ZenonT(40) DEF PipelineInv

\* A goroutine that moves without starting, or after it has started, leaves the
\* others where they are.
LEMMA StartedKept ==
    ASSUME NEW e \in Event, NEW pc, dpc \in [Event -> DispatchPc], dpc' = [dpc EXCEPT ![e] = pc],
           dpc[e] \in {"none", "created", "received"} <=> pc \in {"none", "created", "received"}
    PROVE  Started' = Started
BY DEF Started

\* Every step keeps the invariant.
LEMMA PipelineNext ==
    ASSUME CoreTypeOK, PushInv, PipelineInv, [PNext]_pvars
    PROVE  PipelineInv'
<1>1. ASSUME NEW p \in Pusher, Push(p)
      PROVE  PipelineInv'
  <2>1. CASE Publish(p)
    BY <2>1, PublishKeepsPipeline
  <2>2. CASE UNCHANGED <<vars, topicQueue, published>>
    <3>1. UNCHANGED <<published, topicQueue, publications>> /\ Started' = Started
      BY <2>2, ZenonT(40) DEF vars, dispatchVars, Started
    <3> QED
      BY <3>1, PipelineKept
  <2> QED
    BY <1>1, <2>1, <2>2, ZenonT(40) DEF Push, PushEvents, NotPublished, EncodeFails, PublishFails
<1>2. ASSUME NEW e \in Event, CreateEvent(e) \/ Dispatch(e), UNCHANGED pushVars
      PROVE  PipelineInv'
  <2>1. UNCHANGED publications
    BY <1>2, ZenonT(40) DEF CreateEvent, Dispatch, Prepare, CheckSession, SkipSession, PassFilters,
                            SendToSession, FinishDispatch
  <2>types. dpc \in [Event -> DispatchPc]
    BY ZenonT(40) DEF CoreTypeOK
  <2>2. CASE CreateEvent(e)
    <3>1. dpc[e] = "none" /\ dpc' = [dpc EXCEPT ![e] = "created"]
      BY <2>2, ZenonT(40) DEF CreateEvent, EventGoto
    <3>2. Started' = Started
      BY <2>types, <3>1, StartedKept, ZenonT(40)
    <3> QED
      BY <1>2, <2>1, <3>2, PipelineKept, ZenonT(40) DEF pushVars
  <2>3. CASE Dispatch(e)
    <3>1. /\ dpc[e] \notin {"none", "created", "received"}
          /\ UNCHANGED dpc \/ \E pc \in {"looping", "checked", "sending", "done"} : EventGoto(e, pc)
      BY <2>3 DEF Dispatch, Prepare, CheckSession, SkipSession, PassFilters, SendToSession, FinishDispatch
    <3>2. ASSUME UNCHANGED dpc PROVE Started' = Started
      BY <3>2, ZenonT(40) DEF Started
    <3>3. ASSUME \E pc \in {"looping", "checked", "sending", "done"} : EventGoto(e, pc)
          PROVE  Started' = Started
      BY <2>types, <3>1, <3>3, StartedKept, ZenonT(40) DEF EventGoto
    <3>4. Started' = Started
      BY <3>1, <3>2, <3>3, ZenonT(40)
    <3> QED
      BY <1>2, <2>1, <3>4, PipelineKept, ZenonT(40) DEF pushVars
  <2> QED
    BY <1>2, <2>2, <2>3
<1>3. CASE UNCHANGED <<dispatchVars, pushVars>>
  <2>1. Started' = Started
    BY <1>3, ZenonT(40) DEF dispatchVars, Started
  <2> QED
    BY <1>3, <2>1, PipelineKept, ZenonT(40) DEF dispatchVars, pushVars
<1>4. ASSUME NEW s \in Session, PushedSessionStep(s)
      PROVE  UNCHANGED dispatchVars
  BY <1>4, ZenonT(40) DEF PushedSessionStep, HandleRequest, Handler, Admit, RegisterMetric, RegisterInMap,
              OnPushSessionStart, OnPushSessionStop, UnregisterFromMap, UnregisterMetric
<1>5. ASSUME ServerStep
      PROVE  UNCHANGED dispatchVars
  BY <1>5, ZenonT(40) DEF ServerStep, Start, StartReturns, Cancel, StopBegins, StopReturns
<1>6. CASE UNCHANGED pvars
  BY <1>3, <1>6, ZenonT(40) DEF pvars, vars
<1> QED
  BY <1>1, <1>2, <1>3, <1>4, <1>5, <1>6, DeliverKeepsPipeline, SpawnKeepsPipeline, ZenonT(40) DEF PNext

\* pushEvents, the topic and start together, for any number of pushers: the
\* dispatchers are started in the order in which Publish accepted the events.
THEOREM StartedInOrder == PSpec => []StartsInOrder
<1>1. PInit => PipelineInv
  <2> SUFFICES ASSUME PInit PROVE PipelineInv
    OBVIOUS
  <2>1. Started = {} /\ publications = <<>> /\ topicQueue = <<>>
    BY DEF PInit, Init, Started
  <2>2. In(<<>>) = {} /\ Ordered(<<>>)
    BY DEF In, Ordered
  <2> QED
    BY <2>1, <2>2 DEF PipelineInv, Ahead
<1>2. CoreTypeOK /\ PushInv /\ PipelineInv /\ [PNext]_pvars => PipelineInv'
  BY PipelineNext
<1>3. ASSUME PushInv, PipelineInv
      PROVE  StartsInOrder
  <2>1. Started \subseteq In(published)
    BY <1>3 DEF PipelineInv
  <2>2. ASSUME NEW i \in DOMAIN published, NEW j \in DOMAIN published, i < j, published[j] \in Started,
               published[i] \in In(publications) \cup In(topicQueue)
        PROVE  FALSE
    <3>1. Earlier(published[j], published[i])
      BY <1>3, <2>2 DEF PipelineInv, Ahead
    <3>2. PICK k \in DOMAIN published, l \in DOMAIN published :
            k < l /\ published[k] = published[j] /\ published[l] = published[i]
      BY <3>1, ZenonT(40) DEF Earlier
    <3>3. /\ published \in Seq(Event)
          /\ \A m, n \in DOMAIN published : m < n => published[m] # published[n]
      BY <1>3 DEF PushInv, PushTypeOK, PublishedOnceInOrder
    <3>4. i \in Nat /\ j \in Nat /\ k \in Nat /\ l \in Nat
      BY <3>3, LenProperties
    <3>5. k = j /\ l = i
      BY <3>2, <3>3, <3>4
    <3>6. i < j /\ j < i
      BY <2>2, <3>2, <3>5, ZenonT(40)
    <3> QED
      BY <3>4, <3>6
  <2> QED
    BY <2>1, <2>2, ZenonT(40) DEF StartsInOrder
<1>4. PSpec => [](CoreTypeOK /\ PushInv)
  BY PushInvariant, PushersRefineServer, CoreTypeCorrect, PTL
<1> QED
  BY <1>1, <1>2, <1>3, <1>4, PTL DEF PSpec

\* What is proved of the push server holds of it behind the pushers: its map has
\* the entries of its connections, its gauge counts them, no session is queued an
\* event older than itself, and an event is sent to a session once at most.
THEOREM PushersKeepServer ==
    PSpec => /\ []MapEntriesAreOwned
             /\ []GaugeCountsConnections
             /\ []OnlyLaterEventsQueued
             /\ [][VisitsOnce]_vars
BY PushersRefineServer, MapEntriesOwned, GaugeCorrect, OnlyLaterQueued, DispatchedOnce, PTL
=============================================================================
