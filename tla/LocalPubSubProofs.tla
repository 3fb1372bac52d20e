-------------------------- MODULE LocalPubSubProofs --------------------------
(***************************************************************************)
(* The local pubsub client, for any number of subscriptions, publications  *)
(* and topics: no goroutine writes to a closed channel, and the client     *)
(* implements TopicBroadcast: subscribers get what is published once, and  *)
(* in the same order.                                                      *)
(***************************************************************************)
EXTENDS LocalPubSub, SequenceTheorems, TLAPS

\* What the table holds are subscriptions to that topic that listen has
\* registered and not unregistered, each once.
TableIsSound ==
    \A t \in Topic :
      /\ IsInjective(subscribers[t])
      /\ \A s \in Range(subscribers[t]) :
           TopicOf[s] = t /\ spc[s] \in {"subscribed", "unregistering"}

ClosedIsDone == \A s \in closed : spc[s] = "done"

\* The goroutines listen waits for are those of subscriptions in the table.
SendersAreActive ==
    /\ senders \subseteq Active
    /\ senders # {} => lpc = "delivering"
    /\ lpc = "delivering" => inHand \in Pub

LInv ==
    /\ LTypeOK
    /\ TableIsSound
    /\ ClosedIsDone
    /\ SendersAreActive

-----------------------------------------------------------------------------
(* Slices as sets: what append and the cut do to their elements. *)

\* The empty slice has no elements.
LEMMA EmptyEntries == Range(<<>>) = {} /\ IsInjective(<<>>)
BY DEF Range, IsInjective

\* The elements of a slice are of its type.
LEMMA RangeType ==
    ASSUME NEW S, NEW q \in Seq(S)
    PROVE  Range(q) \subseteq S
BY ElementOfSeq, LenProperties DEF Range

\* append adds one element, once if it was not there.
LEMMA AppendEntries ==
    ASSUME NEW S, NEW q \in Seq(S), NEW s \in S
    PROVE  /\ Append(q, s) \in Seq(S)
           /\ Range(Append(q, s)) = Range(q) \cup {s}
           /\ IsInjective(q) /\ s \notin Range(q) => IsInjective(Append(q, s))
<1>1. Len(q) \in Nat /\ DOMAIN q = 1..Len(q)
  BY LenProperties
<1>2. /\ Append(q, s) \in Seq(S)
      /\ DOMAIN Append(q, s) = 1..(Len(q) + 1)
      /\ \A i \in 1..Len(q) : Append(q, s)[i] = q[i]
      /\ Append(q, s)[Len(q) + 1] = s
  BY AppendProperties, LenProperties
<1> QED
  BY <1>1, <1>2 DEF Range, IsInjective

\* Cutting the i-th element out of a slice.
LEMMA CutProperties ==
    ASSUME NEW S, NEW q \in Seq(S), NEW i \in DOMAIN q
    PROVE  /\ Cut(q, i) \in Seq(S)
           /\ DOMAIN Cut(q, i) = 1..(Len(q) - 1)
           /\ \A j \in 1..(Len(q) - 1) : Cut(q, i)[j] = IF j < i THEN q[j] ELSE q[j + 1]
<1> DEFINE n == Len(q) - 1
<1>1. n \in Nat /\ i \in 1..Len(q) /\ Len(q) \in Nat
  BY LenProperties
<1>2. \A j \in 1..n : q[j] \in S /\ q[j + 1] \in S
  BY <1>1, ElementOfSeq
<1>3. Cut(q, i) \in [1..n -> S]
  BY <1>1, <1>2 DEF Cut
<1>4. Cut(q, i) \in Seq(S)
  BY <1>1, <1>3, SeqDef
<1> QED
  BY <1>1, <1>3, <1>4 DEF Cut

\* The cut takes exactly that element out of a slice without repetitions.
LEMMA CutEntries ==
    ASSUME NEW S, NEW q \in Seq(S), NEW i \in DOMAIN q, IsInjective(q)
    PROVE  /\ Cut(q, i) \in Seq(S)
           /\ Range(Cut(q, i)) = Range(q) \ {q[i]}
           /\ IsInjective(Cut(q, i))
<1> DEFINE n == Len(q) - 1
           c == Cut(q, i)
<1>1. Len(q) \in Nat /\ n \in Nat /\ DOMAIN q = 1..Len(q) /\ i \in 1..Len(q)
  BY LenProperties
<1>2. c \in Seq(S) /\ DOMAIN c = 1..n /\ \A j \in 1..n : c[j] = IF j < i THEN q[j] ELSE q[j + 1]
  BY CutProperties
<1>3. \A j \in 1..n : \E k \in 1..Len(q) : k # i /\ c[j] = q[k]
  <2> TAKE j \in 1..n
  <2>1. CASE j < i
    BY <1>1, <1>2, <2>1
  <2>2. CASE ~(j < i)
    <3>1. j + 1 \in 1..Len(q) /\ j + 1 # i /\ c[j] = q[j + 1]
      BY <1>1, <1>2, <2>2
    <3> QED
      BY <3>1
  <2> QED
    BY <2>1, <2>2
<1>4. \A k \in 1..Len(q) : k # i => \E j \in 1..n : c[j] = q[k]
  <2> SUFFICES ASSUME NEW k \in 1..Len(q), k # i PROVE \E j \in 1..n : c[j] = q[k]
    OBVIOUS
  <2>1. CASE k < i
    <3>1. k \in 1..n /\ c[k] = q[k]
      BY <1>1, <1>2, <2>1
    <3> QED
      BY <3>1
  <2>2. CASE k > i
    <3>1. k - 1 \in 1..n /\ ~(k - 1 < i) /\ (k - 1) + 1 = k
      BY <1>1, <2>2
    <3>2. c[k - 1] = q[k]
      BY <1>2, <3>1
    <3> QED
      BY <3>1, <3>2
  <2> QED
    BY <1>1, <2>1, <2>2
<1>5. Range(c) = Range(q) \ {q[i]}
  <2>1. Range(c) = {c[j] : j \in 1..n} /\ Range(q) = {q[k] : k \in 1..Len(q)}
    BY <1>1, <1>2 DEF Range
  <2>2. \A k \in 1..Len(q) : q[k] = q[i] => k = i
    BY <1>1 DEF IsInjective
  <2> HIDE DEF c, n
  <2>3. ASSUME NEW x \in Range(c) PROVE x \in Range(q) \ {q[i]}
    <3>1. PICK j \in 1..n : x = c[j]
      BY <2>1
    <3>2. PICK k \in 1..Len(q) : k # i /\ c[j] = q[k]
      BY <1>3
    <3> QED
      BY <2>1, <2>2, <3>1, <3>2
  <2>4. ASSUME NEW x \in Range(q), x # q[i] PROVE x \in Range(c)
    <3>1. PICK k \in 1..Len(q) : x = q[k]
      BY <2>1
    <3>2. PICK j \in 1..n : c[j] = q[k]
      BY <1>4, <2>4, <3>1
    <3> QED
      BY <2>1, <3>1, <3>2
  <2> QED
    BY <2>3, <2>4
<1>6. IsInjective(c)
  <2> SUFFICES ASSUME NEW a \in 1..n, NEW b \in 1..n, c[a] = c[b] PROVE a = b
    BY <1>2 DEF IsInjective
  <2>1. \A k, l \in 1..Len(q) : q[k] = q[l] => k = l
    BY <1>1, SMTT(30) DEF IsInjective
  <2> HIDE DEF c
  <2>2. CASE a < i /\ b < i
    BY <1>1, <1>2, <2>1, <2>2
  <2>3. CASE a < i /\ ~(b < i)
    BY <1>1, <1>2, <2>1, <2>3
  <2>4. CASE ~(a < i) /\ b < i
    BY <1>1, <1>2, <2>1, <2>4
  <2>5. CASE ~(a < i) /\ ~(b < i)
    BY <1>1, <1>2, <2>1, <2>5
  <2> QED
    BY <2>2, <2>3, <2>4, <2>5
<1> QED
  BY <1>2, <1>5, <1>6

-----------------------------------------------------------------------------
\* The invariant holds before Connect.
LEMMA LInvInit == LInit => LInv
BY LocalPubSubAssumption, EmptyEntries, SMTT(30)
   DEF LInit, LInv, LTypeOK, TableIsSound, ClosedIsDone, SendersAreActive, SubscriptionPc, PublishPc

\* Every step of the client keeps the types.
LEMMA LTypeNext == LInv /\ [LNext]_lvars => LTypeOK'
<1> SUFFICES ASSUME LInv, [LNext]_lvars PROVE LTypeOK'
  OBVIOUS
<1> USE LocalPubSubAssumption DEF LInv, LTypeOK, SubscriptionPc, PublishPc, lvars, listenVars
<1>1. CASE Connect \/ Disconnect
  BY <1>1 DEF Connect, Disconnect
<1>2. ASSUME NEW p \in Pub, CallPublish(p) \/ Publish(p) PROVE LTypeOK'
  <2>1. Append(publications, p) \in Seq(Pub)
    BY AppendProperties
  <2> QED
    BY <1>2, <2>1, ZenonT(40) DEF CallPublish, Publish
<1>3. ASSUME NEW s \in Subscription, Subscribe(s) \/ Unsubscribe(s) PROVE LTypeOK'
  BY <1>3, ZenonT(40) DEF Subscribe, Unsubscribe
<1>4. ASSUME NEW s \in Subscription, Read(s) PROVE LTypeOK'
  <2>1. Head(ch[s]) \in Pub /\ Tail(ch[s]) \in Seq(Pub)
    BY <1>4, HeadTailProperties DEF Read
  <2>2. Append(got[s], Head(ch[s])) \in Seq(Pub)
    BY <2>1, AppendProperties
  <2> QED
    BY <1>4, <2>1, <2>2, SMTT(30) DEF Read
<1>5. ASSUME NEW s \in Subscription, Send(s) PROVE LTypeOK'
  <2>1. inHand \in Pub
    BY <1>5 DEF Send, SendersAreActive
  <2>2. Append(ch[s], inHand) \in Seq(Pub)
    BY <2>1, AppendProperties
  <2> QED
    BY <1>5, <2>2 DEF Send
<1>6. ASSUME NEW s \in Subscription, ListenRegister(s) PROVE LTypeOK'
  <2>1. Append(subscribers[TopicOf[s]], s) \in Seq(Subscription)
    BY AppendEntries
  <2> QED
    BY <1>6, <2>1, SMTT(30) DEF ListenRegister
<1>7. ASSUME NEW s \in Subscription, ListenUnregister(s) PROVE LTypeOK'
  <2>1. \A i \in DOMAIN subscribers[TopicOf[s]] : Cut(subscribers[TopicOf[s]], i) \in Seq(Subscription)
    BY CutProperties
  <2>2. subscribers' \in [Topic -> Seq(Subscription)]
    BY <1>7, <2>1 DEF ListenUnregister
  <2> QED
    BY <1>7, <2>2, ZenonT(40) DEF ListenUnregister
<1>8. CASE ListenPublication
  <2>1. Head(publications) \in Pub /\ Tail(publications) \in Seq(Pub)
    BY <1>8, HeadTailProperties DEF ListenPublication
  <2>2. Range(subscribers[TopicOf[Head(publications)]]) \subseteq Subscription
    BY <2>1, RangeType
  <2> QED
    BY <1>8, <2>1, <2>2 DEF ListenPublication
<1>9. CASE ListenDelivered
  BY <1>9 DEF ListenDelivered
<1>10. CASE ListenStop
  BY <1>10 DEF ListenStop
<1>11. CASE UNCHANGED lvars
  BY <1>11
<1> QED
  BY <1>1, <1>2, <1>3, <1>4, <1>5, <1>6, <1>7, <1>8, <1>9, <1>10, <1>11, ZenonT(40) DEF LNext, Listen

\* What each step of listen does to the set of active subscriptions and to the
\* table; no other step changes either.
LEMMA RegisterEntries ==
    ASSUME LInv, NEW s \in Subscription, ListenRegister(s)
    PROVE  /\ s \notin Active /\ s \notin closed
           /\ Active' = Active \cup {s}
           /\ TableIsSound'
<1> DEFINE q == subscribers[TopicOf[s]]
<1>1. /\ TopicOf[s] \in Topic
      /\ q \in Seq(Subscription)
      /\ subscribers' = [subscribers EXCEPT ![TopicOf[s]] = Append(q, s)]
      /\ spc[s] = "registering"
      /\ spc' = [spc EXCEPT ![s] = "subscribed"]
  BY LocalPubSubAssumption, ZenonT(40) DEF ListenRegister, LInv, LTypeOK
<1>2. s \notin Range(q) /\ s \notin closed
  BY <1>1 DEF LInv, TableIsSound, ClosedIsDone
<1>3. Range(Append(q, s)) = Range(q) \cup {s} /\ IsInjective(Append(q, s))
  BY <1>1, <1>2, AppendEntries DEF LInv, TableIsSound
<1>4. \A t \in Topic : subscribers'[t] = IF t = TopicOf[s] THEN Append(q, s) ELSE subscribers[t]
  BY <1>1 DEF LInv, LTypeOK
<1>5. \A r \in Subscription : TopicOf[r] \in Topic
  BY LocalPubSubAssumption
<1>6. Active' = Active \cup {s}
  <2>1. ASSUME NEW r \in Subscription
        PROVE  r \in Range(subscribers'[TopicOf[r]]) <=> r \in Range(subscribers[TopicOf[r]]) \/ r = s
    <3>1. CASE TopicOf[r] = TopicOf[s]
      BY <1>3, <1>4, <1>5, <3>1
    <3>2. CASE TopicOf[r] # TopicOf[s]
      BY <1>4, <1>5, <3>2
    <3> QED
      BY <3>1, <3>2
  <2> QED
    BY <2>1 DEF Active
<1>7. TableIsSound'
  <2> SUFFICES ASSUME NEW t \in Topic
               PROVE  /\ IsInjective(subscribers'[t])
                      /\ \A r \in Range(subscribers'[t]) :
                           TopicOf[r] = t /\ spc'[r] \in {"subscribed", "unregistering"}
    BY DEF TableIsSound
  <2>1. Range(subscribers[t]) \subseteq Subscription /\ s \notin Range(subscribers[t])
    BY <1>1, RangeType, ZenonT(40) DEF LInv, LTypeOK, TableIsSound
  <2>2. \A r \in Range(subscribers[t]) : TopicOf[r] = t /\ spc'[r] \in {"subscribed", "unregistering"}
    BY <1>1, <2>1 DEF LInv, LTypeOK, TableIsSound
  <2>3. CASE t = TopicOf[s]
    <3>1. spc'[s] = "subscribed"
      BY <1>1 DEF LInv, LTypeOK
    <3> QED
      BY <1>3, <1>4, <2>2, <2>3, <3>1
  <2>4. CASE t # TopicOf[s]
    BY <1>4, <2>2, <2>4 DEF LInv, TableIsSound
  <2> QED
    BY <2>3, <2>4
<1> QED
  BY <1>2, <1>6, <1>7 DEF Active

\* Unregistering takes the subscription out of the table and of the active set.
LEMMA UnregisterEntries ==
    ASSUME LInv, NEW s \in Subscription, ListenUnregister(s)
    PROVE  /\ s \in Active
           /\ Active' = Active \ {s}
           /\ TableIsSound'
<1> DEFINE q == subscribers[TopicOf[s]]
<1>1. /\ TopicOf[s] \in Topic
      /\ q \in Seq(Subscription)
      /\ IsInjective(q)
      /\ spc' = [spc EXCEPT ![s] = "done"]
  BY LocalPubSubAssumption, ZenonT(40) DEF ListenUnregister, LInv, LTypeOK, TableIsSound
<1>2. PICK i \in DOMAIN q : q[i] = s /\ subscribers' = [subscribers EXCEPT ![TopicOf[s]] = Cut(q, i)]
  BY ZenonT(40) DEF ListenUnregister
<1>3. Range(Cut(q, i)) = Range(q) \ {s} /\ IsInjective(Cut(q, i))
  BY <1>1, <1>2, CutEntries
<1>4. \A t \in Topic : subscribers'[t] = IF t = TopicOf[s] THEN Cut(q, i) ELSE subscribers[t]
  BY <1>1, <1>2 DEF LInv, LTypeOK
<1>5. \A r \in Subscription : TopicOf[r] \in Topic
  BY LocalPubSubAssumption
<1>6. s \in Active
  BY <1>2 DEF Active, Range
<1>7. Active' = Active \ {s}
  <2>1. ASSUME NEW r \in Subscription
        PROVE  r \in Range(subscribers'[TopicOf[r]]) <=> r \in Range(subscribers[TopicOf[r]]) /\ r # s
    <3>1. CASE TopicOf[r] = TopicOf[s]
      BY <1>3, <1>4, <1>5, <3>1
    <3>2. CASE TopicOf[r] # TopicOf[s]
      BY <1>4, <1>5, <3>2
    <3> QED
      BY <3>1, <3>2
  <2> QED
    BY <2>1 DEF Active
<1>8. TableIsSound'
  <2> SUFFICES ASSUME NEW t \in Topic
               PROVE  /\ IsInjective(subscribers'[t])
                      /\ \A r \in Range(subscribers'[t]) :
                           TopicOf[r] = t /\ spc'[r] \in {"subscribed", "unregistering"}
    BY DEF TableIsSound
  <2>1. Range(subscribers[t]) \subseteq Subscription
    BY RangeType DEF LInv, LTypeOK
  <2>2. \A r \in Range(subscribers[t]) \ {s} :
          TopicOf[r] = t /\ spc'[r] \in {"subscribed", "unregistering"}
    BY <1>1, <2>1 DEF LInv, LTypeOK, TableIsSound
  <2>3. CASE t = TopicOf[s]
    BY <1>3, <1>4, <2>2, <2>3, SMTT(30)
  <2>4. CASE t # TopicOf[s]
    <3>1. s \notin Range(subscribers[t])
      BY <2>4 DEF LInv, TableIsSound
    <3> QED
      BY <1>4, <2>2, <2>4, <3>1 DEF LInv, TableIsSound
  <2> QED
    BY <2>3, <2>4
<1> QED
  BY <1>6, <1>7, <1>8

\* Every step of the client keeps the invariant.
LEMMA LInvNext == LInv /\ [LNext]_lvars => LInv'
<1> SUFFICES ASSUME LInv, [LNext]_lvars PROVE LInv'
  OBVIOUS
<1>type. LTypeOK'
  BY LTypeNext
<1> SUFFICES TableIsSound' /\ ClosedIsDone' /\ SendersAreActive'
  BY <1>type DEF LInv
<1>1. CASE UNCHANGED <<subscribers, spc, closed, senders, lpc, inHand>>
  <2>1. Active' = Active
    BY <1>1 DEF Active
  <2> QED
    BY <1>1, <2>1 DEF LInv, TableIsSound, ClosedIsDone, SendersAreActive
<1>2. CASE Connect
  <2>1. Active' = Active /\ senders = {}
    BY <1>2 DEF Active, Connect, LInv, SendersAreActive
  <2> QED
    BY <1>2, <2>1 DEF Connect, LInv, TableIsSound, ClosedIsDone, SendersAreActive
<1>3. ASSUME NEW s \in Subscription, Subscribe(s) \/ Unsubscribe(s)
      PROVE  TableIsSound' /\ ClosedIsDone' /\ SendersAreActive'
  <2>1. /\ UNCHANGED <<subscribers, closed, senders, lpc, inHand>>
        /\ spc \in [Subscription -> SubscriptionPc]
        /\ \/ spc[s] = "idle" /\ spc' = [spc EXCEPT ![s] = "registering"]
           \/ spc[s] = "subscribed" /\ spc' = [spc EXCEPT ![s] = "unregistering"]
    BY <1>3 DEF Subscribe, Unsubscribe, listenVars, LInv, LTypeOK
  <2>2. Active' = Active
    BY <2>1 DEF Active
  <2>3. \A t \in Topic : Range(subscribers[t]) \subseteq Subscription
    BY RangeType DEF LInv, LTypeOK
  <2>4. TableIsSound'
    BY <2>1, <2>3 DEF LInv, TableIsSound
  <2>5. ClosedIsDone'
    BY <2>1 DEF LInv, LTypeOK, ClosedIsDone
  <2> QED
    BY <2>1, <2>2, <2>4, <2>5 DEF LInv, SendersAreActive
<1>4. ASSUME NEW s \in Subscription, Send(s)
      PROVE  TableIsSound' /\ ClosedIsDone' /\ SendersAreActive'
  <2>1. Active' = Active
    BY <1>4 DEF Active, Send
  <2> QED
    BY <1>4, <2>1 DEF Send, LInv, TableIsSound, ClosedIsDone, SendersAreActive
<1>5. ASSUME NEW s \in Subscription, ListenRegister(s)
      PROVE  TableIsSound' /\ ClosedIsDone' /\ SendersAreActive'
  <2>1. TableIsSound' /\ Active' = Active \cup {s} /\ s \notin closed
    BY <1>5, RegisterEntries, SMTT(30)
  <2> QED
    BY <1>5, <2>1 DEF ListenRegister, LInv, LTypeOK, ClosedIsDone, SendersAreActive
<1>6. ASSUME NEW s \in Subscription, ListenUnregister(s)
      PROVE  TableIsSound' /\ ClosedIsDone' /\ SendersAreActive'
  <2>1. TableIsSound'
    BY <1>6, UnregisterEntries, SMTT(30)
  <2> QED
    BY <1>6, <2>1 DEF ListenUnregister, LInv, LTypeOK, ClosedIsDone, SendersAreActive
<1>7. CASE ListenPublication
  <2>1. Head(publications) \in Pub
    BY <1>7, HeadTailProperties DEF ListenPublication, LInv, LTypeOK
  <2>2. TopicOf[Head(publications)] \in Topic
    BY <2>1, LocalPubSubAssumption, SMTT(30)
  <2>3. Active' = Active
    BY <1>7 DEF ListenPublication, Active
  <2>4. Range(subscribers[TopicOf[Head(publications)]]) \subseteq Active
    <3>1. Range(subscribers[TopicOf[Head(publications)]]) \subseteq Subscription
      BY <2>2, RangeType DEF LInv, LTypeOK
    <3> QED
      BY <2>2, <3>1 DEF LInv, TableIsSound, Active
  <2> QED
    BY <1>7, <2>1, <2>3, <2>4
       DEF ListenPublication, LInv, TableIsSound, ClosedIsDone, SendersAreActive
<1>8. CASE ListenDelivered
  <2>1. Active' = Active
    BY <1>8 DEF ListenDelivered, Active
  <2> QED
    BY <1>8, <2>1 DEF ListenDelivered, LInv, TableIsSound, ClosedIsDone, SendersAreActive
<1>9. CASE ListenStop
  <2>1. TableIsSound'
    BY <1>9, EmptyEntries DEF ListenStop, TableIsSound
  <2> QED
    BY <1>9, <2>1 DEF ListenStop, LInv, ClosedIsDone, SendersAreActive
<1>10. ASSUME NEW p \in Pub, CallPublish(p) \/ Publish(p)
       PROVE  UNCHANGED <<subscribers, spc, closed, senders, lpc, inHand>>
  BY <1>10 DEF CallPublish, Publish, listenVars
<1>11. ASSUME NEW s \in Subscription, Read(s)
       PROVE  UNCHANGED <<subscribers, spc, closed, senders, lpc, inHand>>
  BY <1>11 DEF Read, listenVars
<1>12. CASE Disconnect \/ UNCHANGED lvars
  BY <1>1, <1>12 DEF Disconnect, lvars, listenVars
<1> QED
  BY <1>1, <1>2, <1>3, <1>4, <1>5, <1>6, <1>7, <1>8, <1>9, <1>10, <1>11, <1>12 DEF LNext, Listen

\* The inductive invariant of the local client: its table lists every channel
\* once, under its topic and only between registration and unregistration; a
\* closed channel is done with; the goroutines of a delivery have channels that
\* are in the table.
THEOREM LInvariant == LSpec => []LInv
BY LInvInit, LInvNext, PTL DEF LSpec

\* Every variable of the local client has its type.
THEOREM LTypeCorrect == LSpec => []LTypeOK
<1>1. LInv => LTypeOK
  BY DEF LInv
<1> QED
  BY <1>1, LInvariant, PTL

\* listen never delivers to a channel that it has closed.
THEOREM NoClosedSend == LSpec => []NoSendOnClosed
<1>1. LInv => NoSendOnClosed
  <2> SUFFICES ASSUME LInv, NEW s \in senders, s \in closed PROVE FALSE
    BY DEF NoSendOnClosed
  <2>1. s \in Subscription /\ s \in Range(subscribers[TopicOf[s]])
    BY DEF LInv, SendersAreActive, Active
  <2>2. spc[s] \in {"subscribed", "unregistering"}
    BY <2>1, LocalPubSubAssumption DEF LInv, TableIsSound
  <2> QED
    BY <2>2 DEF LInv, ClosedIsDone
<1> QED
  BY <1>1, LInvariant, PTL

-----------------------------------------------------------------------------
(* The refinement of TopicBroadcast. *)

\* Reading moves a publication along the feed.
LEMMA ReadKeepsFeed ==
    ASSUME NEW S, NEW g \in Seq(S), NEW c \in Seq(S), c # <<>>
    PROVE  Append(g, Head(c)) \o Tail(c) = g \o c
<1>1. Head(c) \in S /\ Tail(c) \in Seq(S)
  BY HeadTailProperties
<1>2. <<Head(c)>> \in Seq(S)
  BY <1>1
<1>3. Append(g, Head(c)) = g \o <<Head(c)>>
  BY <1>1, AppendIsConcat
<1>4. (g \o <<Head(c)>>) \o Tail(c) = g \o (<<Head(c)>> \o Tail(c))
  BY <1>1, <1>2, ConcatAssociative, SMTT(30)
<1>5. c = <<Head(c)>> \o Tail(c)
  <2>1. <<Head(c)>> \o Tail(c) \in Seq(S)
    BY <1>1, <1>2, ConcatProperties
  <2>2. Len(<<Head(c)>> \o Tail(c)) = Len(c)
    BY <1>1, <1>2, ConcatProperties, HeadTailProperties
  <2>3. \A i \in 1..Len(c) : (<<Head(c)>> \o Tail(c))[i] = c[i]
    BY <1>1, <1>2, ConcatProperties, HeadTailProperties
  <2> QED
    BY <2>1, <2>2, <2>3, SeqEqual
<1> QED
  BY <1>3, <1>4, <1>5

\* Sending moves it from the goroutine to the channel.
LEMMA SendKeepsFeed ==
    ASSUME NEW S, NEW g \in Seq(S), NEW c \in Seq(S), NEW x \in S
    PROVE  /\ (g \o Append(c, x)) \o <<>> = (g \o c) \o <<x>>
           /\ (g \o c) \o <<x>> = Append((g \o c) \o <<>>, x)
<1>1. g \o c \in Seq(S) /\ <<x>> \in Seq(S) /\ Append(c, x) \in Seq(S)
  BY ConcatProperties, AppendProperties
<1>2. g \o Append(c, x) \in Seq(S)
  BY <1>1, ConcatProperties
<1>3. (g \o Append(c, x)) \o <<>> = g \o Append(c, x) /\ (g \o c) \o <<>> = g \o c
  BY <1>1, <1>2, ConcatEmptySeq
<1>4. Append(c, x) = c \o <<x>> /\ Append(g \o c, x) = (g \o c) \o <<x>>
  BY <1>1, AppendIsConcat
<1>5. (g \o c) \o <<x>> = g \o (c \o <<x>>)
  BY <1>1, ConcatAssociative, SMTT(30)
<1> QED
  BY <1>3, <1>4, <1>5

\* listen at its select delivers nothing.
LEMMA SelectHasNoSenders == LInv /\ lpc = "select" => senders = {}
BY DEF LInv, SendersAreActive

\* A client that nobody has used is a broadcast that nobody has used.
LEMMA RefinesInit == LInit => Broadcast!BInit
<1> SUFFICES ASSUME LInit PROVE Broadcast!BInit
  OBVIOUS
<1>1. Active = {}
  BY LocalPubSubAssumption, EmptyEntries DEF LInit, Active
<1>2. \A s \in Subscription : Feed(s) = <<>>
  <2>1. <<>> \o <<>> = <<>>
    BY ConcatEmptySeq
  <2> QED
    BY <2>1 DEF LInit, Feed
<1> QED
  BY <1>1, <1>2 DEF LInit, Feeds, Broadcast!BInit

\* A subscriber that reads changes nothing of what it was handed.
LEMMA ReadRefines ==
    ASSUME LInv, NEW s \in Subscription, Read(s)
    PROVE  Feeds' = Feeds
<1> SUFFICES ASSUME NEW r \in Subscription PROVE Feed(r)' = Feed(r)
  BY DEF Feeds
<1>1. /\ got \in [Subscription -> Seq(Pub)] /\ ch \in [Subscription -> Seq(Pub)]
      /\ ch[s] # <<>>
      /\ got' = [got EXCEPT ![s] = Append(got[s], Head(ch[s]))]
      /\ ch' = [ch EXCEPT ![s] = Tail(ch[s])]
      /\ senders' = senders /\ inHand' = inHand
  BY SMTT(30) DEF Read, LInv, LTypeOK, listenVars
<1>2. got'[r] \o ch'[r] = got[r] \o ch[r]
  <2>1. CASE r = s
    <3>1. Append(got[s], Head(ch[s])) \o Tail(ch[s]) = got[s] \o ch[s]
      BY <1>1, ReadKeepsFeed, ZenonT(40)
    <3> QED
      BY <1>1, <2>1, <3>1, SMTT(30)
  <2>2. CASE r # s
    BY <1>1, <2>2
  <2> QED
    BY <2>1, <2>2, ZenonT(40)
<1> QED
  BY <1>1, <1>2, ZenonT(40) DEF Feed

\* Nor does the goroutine that writes to its channel.
LEMMA SendRefines ==
    ASSUME LInv, NEW s \in Subscription, Send(s)
    PROVE  Feeds' = Feeds
<1> SUFFICES ASSUME NEW r \in Subscription PROVE Feed(r)' = Feed(r)
  BY DEF Feeds
<1>1. /\ got \in [Subscription -> Seq(Pub)] /\ ch \in [Subscription -> Seq(Pub)]
      /\ s \in senders /\ senders' = senders \ {s}
      /\ inHand \in Pub /\ inHand' = inHand
      /\ got' = got
      /\ ch' = [ch EXCEPT ![s] = Append(ch[s], inHand)]
  BY DEF Send, LInv, LTypeOK, SendersAreActive
<1>2. CASE r = s
  <2>1. (got[s] \o Append(ch[s], inHand)) \o <<>> = (got[s] \o ch[s]) \o <<inHand>>
    BY <1>1, SendKeepsFeed, SMTT(30)
  <2>2. Feed(s)' = (got[s] \o Append(ch[s], inHand)) \o <<>>
    BY <1>1, ZenonT(40) DEF Feed
  <2>3. Feed(s) = (got[s] \o ch[s]) \o <<inHand>>
    BY <1>1 DEF Feed
  <2> QED
    BY <1>2, <2>1, <2>2, <2>3, ZenonT(40)
<1>3. CASE r # s
  BY <1>1, <1>3 DEF Feed
<1> QED
  BY <1>2, <1>3

\* Starting the goroutines of a publication is its broadcast.
LEMMA PublicationRefines ==
    ASSUME LInv, ListenPublication
    PROVE  Broadcast!Broadcast
<1> DEFINE p == Head(publications)
<1>1. /\ got \in [Subscription -> Seq(Pub)] /\ ch \in [Subscription -> Seq(Pub)]
      /\ publications \in Seq(Pub) /\ publications # <<>>
      /\ publications' = Tail(publications)
      /\ inHand' = p
      /\ senders = {} /\ senders' = Range(subscribers[TopicOf[p]])
      /\ UNCHANGED <<subscribers, closed, ch, got>>
  BY SelectHasNoSenders DEF ListenPublication, LInv, LTypeOK
<1>2. p \in Pub /\ TopicOf[p] \in Topic
  BY <1>1, HeadTailProperties, LocalPubSubAssumption, SMTT(30)
<1>3. \A s \in Subscription : s \in senders' <=> s \in Active /\ TopicOf[s] = TopicOf[p]
  BY <1>1, <1>2, SMTT(30) DEF LInv, TableIsSound, Active
<1>4. Active' = Active
  BY <1>1 DEF Active
<1>5. ASSUME NEW s \in Subscription
      PROVE  Feed(s)' = IF s \in Active /\ TopicOf[s] = TopicOf[p] THEN Append(Feed(s), p) ELSE Feed(s)
  <2>1. Feed(s) = (got[s] \o ch[s]) \o <<>>
    BY <1>1, SMTT(30) DEF Feed
  <2>2. (got[s] \o ch[s]) \o <<p>> = Append((got[s] \o ch[s]) \o <<>>, p)
    BY <1>1, <1>2, SendKeepsFeed
  <2>3. Feed(s)' = (got[s] \o ch[s]) \o IF s \in senders' THEN <<p>> ELSE <<>>
    BY <1>1 DEF Feed
  <2> HIDE DEF p
  <2> QED
    BY <1>3, <2>1, <2>2, <2>3, ZenonT(40)
<1>6. Feeds' = [s \in Subscription |->
                  IF s \in Active /\ TopicOf[s] = TopicOf[p] THEN Append(Feeds[s], p) ELSE Feeds[s]]
  <2> HIDE DEF p
  <2> QED
    BY <1>5 DEF Feeds
<1> QED
  BY <1>1, <1>4, <1>6 DEF Broadcast!Broadcast

\* Every step of the client is a step of the broadcast or changes nothing of it.
LEMMA RefinesNext == LInv /\ [LNext]_lvars => [Broadcast!BNext]_(Broadcast!bvars)
<1> SUFFICES ASSUME LInv, [LNext]_lvars PROVE Broadcast!BNext \/ UNCHANGED Broadcast!bvars
  OBVIOUS
<1>active. UNCHANGED subscribers => Active' = Active
  BY DEF Active
<1>feeds. UNCHANGED <<ch, got, senders>> /\ (senders = {} \/ UNCHANGED inHand) => Feeds' = Feeds
  <2> SUFFICES ASSUME UNCHANGED <<ch, got, senders>>, senders = {} \/ UNCHANGED inHand,
                      NEW s \in Subscription
               PROVE  Feed(s)' = Feed(s)
    BY DEF Feeds
  <2> QED
    BY ZenonT(40) DEF Feed
<1>1. CASE Connect \/ Disconnect \/ UNCHANGED lvars
  BY <1>1, <1>active, <1>feeds DEF Connect, Disconnect, lvars, listenVars, Broadcast!bvars
<1>2. ASSUME NEW p \in Pub, CallPublish(p) PROVE UNCHANGED Broadcast!bvars
  BY <1>2, <1>active, <1>feeds DEF CallPublish, listenVars, Broadcast!bvars
<1>3. ASSUME NEW p \in Pub, Publish(p) PROVE Broadcast!BNext
  <2>1. Broadcast!Accept(p)
    BY <1>3, <1>active, <1>feeds DEF Publish, listenVars, Broadcast!Accept
  <2> QED
    BY <2>1 DEF Broadcast!BNext
<1>4. ASSUME NEW s \in Subscription, Subscribe(s) \/ Unsubscribe(s) PROVE UNCHANGED Broadcast!bvars
  BY <1>4, <1>active, <1>feeds DEF Subscribe, Unsubscribe, listenVars, Broadcast!bvars
<1>5. ASSUME NEW s \in Subscription, Read(s) PROVE UNCHANGED Broadcast!bvars
  <2>1. Feeds' = Feeds
    BY <1>5, ReadRefines
  <2> QED
    BY <1>5, <1>active, <2>1 DEF Read, listenVars, Broadcast!bvars
<1>6. ASSUME NEW s \in Subscription, Send(s) PROVE UNCHANGED Broadcast!bvars
  <2>1. Feeds' = Feeds
    BY <1>6, SendRefines
  <2> QED
    BY <1>6, <1>active, <2>1 DEF Send, Broadcast!bvars
<1>7. ASSUME NEW s \in Subscription, ListenRegister(s) PROVE Broadcast!BNext
  <2>1. Feeds' = Feeds
    BY <1>7, <1>feeds DEF ListenRegister
  <2>2. Broadcast!Join(s)
    BY <1>7, <2>1, RegisterEntries, ZenonT(40) DEF ListenRegister, Broadcast!Join
  <2> QED
    BY <2>2 DEF Broadcast!BNext
<1>8. ASSUME NEW s \in Subscription, ListenUnregister(s) PROVE Broadcast!BNext
  <2>1. Feeds' = Feeds
    BY <1>8, <1>feeds DEF ListenUnregister
  <2>2. UNCHANGED publications /\ closed' = closed \cup {s}
    BY <1>8 DEF ListenUnregister
  <2>3. Broadcast!Leave(s)
    BY <1>8, <2>1, <2>2, UnregisterEntries DEF Broadcast!Leave
  <2> QED
    BY <2>3 DEF Broadcast!BNext
<1>9. CASE ListenPublication
  BY <1>9, PublicationRefines DEF Broadcast!BNext
<1>10. CASE ListenDelivered
  BY <1>10, <1>active, <1>feeds DEF ListenDelivered, Broadcast!bvars
<1>11. CASE ListenStop
  <2>1. Active' = {}
    BY <1>11, LocalPubSubAssumption, EmptyEntries DEF ListenStop, Active
  <2>2. Broadcast!Shutdown
    BY <1>11, <1>feeds, <2>1 DEF ListenStop, Broadcast!Shutdown
  <2> QED
    BY <2>2 DEF Broadcast!BNext
<1> QED
  BY <1>1, <1>2, <1>3, <1>4, <1>5, <1>6, <1>7, <1>8, <1>9, <1>10, <1>11 DEF LNext, Listen

\* The local client, with its registrations, its goroutine per subscriber and its
\* channels, implements the atomic broadcast to the subscribers of a topic.
THEOREM ImplementsBroadcast == LSpec => IsBroadcast
BY RefinesInit, RefinesNext, LInvariant, PTL DEF LSpec, IsBroadcast, Broadcast!BSpec

-----------------------------------------------------------------------------
(***************************************************************************)
(* What the broadcast means to the subscribers.  A publication is accepted *)
(* once, as its Publish is called once; it is in publications or handed    *)
(* out, never both, so that it is new to everybody when listen hands it    *)
(* out.                                                                    *)
(***************************************************************************)
AcceptedOnce ==
    /\ IsInjective(publications)
    /\ \A p \in Range(publications) :
         ppc[p] = "published" /\ \A s \in Subscription : p \notin Range(Feeds[s])
    /\ \A s \in Subscription : \A p \in Range(Feeds[s]) : ppc[p] = "published"

\* What two feeds share, they have in the same order.
SameOrder(f, h) ==
    \A i, j \in DOMAIN f, k, l \in DOMAIN h : f[i] = h[k] /\ f[j] = h[l] => (i < j <=> k < l)

\* listen and the goroutines it starts: a subscriber is handed publications of
\* its topic only, each once, and any two subscribers are handed those they
\* both get in the same order, whenever they came and however slowly they read.
DeliveredOnceInOrder ==
    \A s \in Subscription :
      /\ \A p \in Range(Feeds[s]) : TopicOf[p] = TopicOf[s]
      /\ IsInjective(Feeds[s])
      /\ \A r \in Subscription : SameOrder(Feeds[s], Feeds[r])

DeliveryInv ==
    /\ LInv
    /\ AcceptedOnce
    /\ DeliveredOnceInOrder

\* A feed is a sequence of publications.
LEMMA FeedType ==
    ASSUME LInv, NEW s \in Subscription
    PROVE  Feeds[s] \in Seq(Pub)
<1>1. got[s] \o ch[s] \in Seq(Pub)
  BY ConcatProperties DEF LInv, LTypeOK
<1>2. (IF s \in senders THEN <<inHand>> ELSE <<>>) \in Seq(Pub)
  BY DEF LInv, SendersAreActive
<1>3. Feed(s) \in Seq(Pub)
  BY <1>1, <1>2, ConcatProperties, ZenonT(40) DEF Feed
<1> QED
  BY <1>3 DEF Feeds

\* Nobody has called Publish at the start.
LEMMA DeliveryInit == LInit => DeliveryInv
<1> SUFFICES ASSUME LInit PROVE DeliveryInv
  OBVIOUS
<1>1. publications = <<>> /\ \A s \in Subscription : Feeds[s] = <<>>
  BY RefinesInit DEF Broadcast!BInit
<1>2. AcceptedOnce
  BY <1>1, EmptyEntries, ZenonT(40) DEF AcceptedOnce
<1>3. DeliveredOnceInOrder
  <2>1. SameOrder(<<>>, <<>>)
    BY DEF SameOrder
  <2> QED
    BY <1>1, <2>1, EmptyEntries, ZenonT(40) DEF DeliveredOnceInOrder
<1> QED
  BY <1>2, <1>3, LInvInit DEF DeliveryInv

\* Only listen, taking a publication, changes what anybody was handed.
LEMMA OnlyListenHandsOut ==
    ASSUME LInv, [LNext]_lvars, UNCHANGED publications
    PROVE  Feeds' = Feeds
<1>1. Broadcast!BNext \/ UNCHANGED Broadcast!bvars
  BY RefinesNext
<1>2. ~Broadcast!Broadcast
  <2> SUFFICES ASSUME publications # <<>>, publications = Tail(publications) PROVE FALSE
    BY DEF Broadcast!Broadcast
  <2>1. publications \in Seq(Pub)
    BY DEF LInv, LTypeOK
  <2> QED
    BY <2>1, HeadTailProperties, LenProperties
<1> QED
  BY <1>1, <1>2, ZenonT(40)
     DEF Broadcast!BNext, Broadcast!Accept, Broadcast!Join, Broadcast!Leave, Broadcast!Shutdown, Broadcast!bvars

\* A publication that was accepted stays so, and only Publish and listen
\* touch the publications that wait.
LEMMA PublicationSteps ==
    ASSUME LInv, [LNext]_lvars
    PROVE  \/ /\ UNCHANGED publications
              /\ \A p \in Pub : ppc[p] = "published" => ppc'[p] = "published"
           \/ \E p \in Pub : Publish(p)
           \/ ListenPublication
<1> DEFINE Stays == /\ UNCHANGED publications
                    /\ \A p \in Pub : ppc[p] = "published" => ppc'[p] = "published"
<1>1. ASSUME NEW p \in Pub, CallPublish(p) PROVE Stays
  BY <1>1 DEF CallPublish, LInv, LTypeOK
<1>2. CASE Connect \/ Disconnect \/ UNCHANGED lvars
  BY <1>2, ZenonT(40) DEF Connect, Disconnect, lvars
<1>3. ASSUME NEW s \in Subscription, Subscribe(s) \/ Unsubscribe(s) \/ Read(s) \/ Send(s) PROVE Stays
  BY <1>3, ZenonT(40) DEF Subscribe, Unsubscribe, Read, Send
<1>4. ASSUME NEW s \in Subscription, ListenRegister(s) \/ ListenUnregister(s) PROVE Stays
  BY <1>4, ZenonT(40) DEF ListenRegister, ListenUnregister
<1>5. CASE ListenDelivered \/ ListenStop
  BY <1>5, ZenonT(40) DEF ListenDelivered, ListenStop
<1> QED
  BY <1>1, <1>2, <1>3, <1>4, <1>5, ZenonT(40) DEF LNext, Listen

\* What was handed out is in order as long as nothing more is.
LEMMA SameFeedsSameOrder ==
    ASSUME DeliveredOnceInOrder, Feeds' = Feeds
    PROVE  DeliveredOnceInOrder'
BY ZenonT(40) DEF DeliveredOnceInOrder

\* Publish puts in the queue a publication that nobody has seen.
LEMMA PublishKeepsDelivery ==
    ASSUME DeliveryInv, NEW p \in Pub, Publish(p), LInv'
    PROVE  DeliveryInv'
<1>1. /\ ppc[p] = "publishing" /\ ppc' = [ppc EXCEPT ![p] = "published"]
      /\ publications' = Append(publications, p)
      /\ publications \in Seq(Pub) /\ ppc \in [Pub -> PublishPc]
      /\ UNCHANGED <<ch, got, senders, inHand>>
  BY SMTT(30) DEF Publish, listenVars, DeliveryInv, LInv, LTypeOK
<1>2. Feeds' = Feeds
  <2> SUFFICES ASSUME NEW s \in Subscription PROVE Feed(s)' = Feed(s)
    BY DEF Feeds
  <2> QED
    BY <1>1, ZenonT(40) DEF Feed
<1>3. \A q \in Pub : ppc[q] = "published" => ppc'[q] = "published"
  BY <1>1
<1>4. /\ p \notin Range(publications)
      /\ \A s \in Subscription : p \notin Range(Feeds[s])
  BY <1>1, SMTT(30) DEF DeliveryInv, AcceptedOnce
<1>5. Range(publications') = Range(publications) \cup {p} /\ IsInjective(publications')
  BY <1>1, <1>4, AppendEntries, ZenonT(40) DEF DeliveryInv, AcceptedOnce
<1>6. Range(publications) \subseteq Pub /\ \A s \in Subscription : Range(Feeds[s]) \subseteq Pub
  BY <1>1, RangeType, FeedType DEF DeliveryInv
<1>7. \A q \in Range(publications') :
        ppc'[q] = "published" /\ \A s \in Subscription : q \notin Range(Feeds[s])
  <2> TAKE q \in Range(publications')
  <2>1. CASE q = p
    BY <1>1, <1>4, <2>1
  <2>2. CASE q \in Range(publications)
    BY <1>3, <1>6, <2>2, ZenonT(40) DEF DeliveryInv, AcceptedOnce
  <2> QED
    BY <1>5, <2>1, <2>2, ZenonT(40)
<1>8. \A s \in Subscription : \A q \in Range(Feeds[s]) : ppc'[q] = "published"
  BY <1>3, <1>6, ZenonT(40) DEF DeliveryInv, AcceptedOnce
<1>9. AcceptedOnce'
  BY <1>2, <1>5, <1>7, <1>8, ZenonT(40) DEF AcceptedOnce
<1>10. DeliveredOnceInOrder'
  BY <1>2, SameFeedsSameOrder DEF DeliveryInv
<1> QED
  BY <1>9, <1>10 DEF DeliveryInv

\* The tail of a queue without repetitions has all of it but the head.
LEMMA TailEntries ==
    ASSUME NEW S, NEW q \in Seq(S), q # <<>>, IsInjective(q)
    PROVE  /\ IsInjective(Tail(q))
           /\ Head(q) \in Range(q) \cap S
           /\ Range(Tail(q)) \subseteq Range(q) \ {Head(q)}
<1>1. /\ Len(q) \in Nat \ {0} /\ DOMAIN q = 1..Len(q) /\ Head(q) = q[1]
      /\ Tail(q) \in Seq(S) /\ Len(Tail(q)) = Len(q) - 1
      /\ \A i \in 1..Len(Tail(q)) : Tail(q)[i] = q[i + 1]
      /\ Head(q) \in S
  BY HeadTailProperties, LenProperties, EmptySeq
<1>2. DOMAIN Tail(q) = 1..(Len(q) - 1)
  BY <1>1, LenProperties
<1> DEFINE t == Tail(q)
<1>3. \A i \in DOMAIN t : i + 1 \in DOMAIN q /\ i + 1 # 1 /\ t[i] = q[i + 1] /\ i \in Nat
  BY <1>1, <1>2
<1>4. 1 \in DOMAIN q
  BY <1>1
<1> HIDE DEF t
<1>5. IsInjective(t)
  BY <1>3 DEF IsInjective
<1>6. Head(q) \in Range(q)
  BY <1>1, <1>4 DEF Range
<1>7. Range(t) \subseteq Range(q) \ {Head(q)}
  BY <1>1, <1>3, <1>4 DEF Range, IsInjective
<1> QED
  BY <1>1, <1>5, <1>6, <1>7 DEF t

\* Handing out one new publication: a position of a feed is an old one with what
\* it held, or the last one with the new publication.
LEMMA GrownFeed ==
    ASSUME NEW S, NEW f \in Seq(S), NEW g, NEW p \in S, p \notin Range(f), g = f \/ g = Append(f, p),
           NEW i \in DOMAIN g
    PROVE  /\ i \in Nat /\ Len(f) \in Nat
           /\ \/ i \in DOMAIN f /\ i <= Len(f) /\ g[i] = f[i] /\ g[i] # p
              \/ i = Len(f) + 1 /\ g[i] = p
<1>1. Len(f) \in Nat /\ DOMAIN f = 1..Len(f)
  BY LenProperties
<1>2. \A k \in 1..Len(f) : f[k] # p
  BY <1>1 DEF Range
<1>3. CASE g = f
  BY <1>1, <1>2, <1>3
<1>4. CASE g = Append(f, p)
  <2>1. /\ DOMAIN g = 1..(Len(f) + 1)
        /\ \A k \in 1..Len(f) : g[k] = f[k]
        /\ g[Len(f) + 1] = p
    BY <1>4, AppendProperties, LenProperties
  <2> QED
    BY <1>1, <1>2, <2>1
<1> QED
  BY <1>3, <1>4

\* Two feeds that agree on the order of what they share still do when both, or
\* one of them, get something new at their end.
LEMMA OrderKept ==
    ASSUME NEW S, NEW f \in Seq(S), NEW h \in Seq(S), NEW g, NEW m, NEW p \in S,
           p \notin Range(f), p \notin Range(h),
           g = f \/ g = Append(f, p), m = h \/ m = Append(h, p),
           SameOrder(f, h)
    PROVE  SameOrder(g, m)
<1> SUFFICES ASSUME NEW i \in DOMAIN g, NEW j \in DOMAIN g, NEW k \in DOMAIN m, NEW l \in DOMAIN m,
                    g[i] = m[k], g[j] = m[l]
             PROVE  i < j <=> k < l
  BY DEF SameOrder
<1> DEFINE Grown(a, b, n) == /\ n \in Nat /\ Len(a) \in Nat
                             /\ \/ n \in DOMAIN a /\ n <= Len(a) /\ b[n] = a[n] /\ b[n] # p
                                \/ n = Len(a) + 1 /\ b[n] = p
<1>i. Grown(f, g, i)
  BY GrownFeed
<1>j. Grown(f, g, j)
  BY GrownFeed
<1>k. Grown(h, m, k)
  BY GrownFeed
<1>l. Grown(h, m, l)
  BY GrownFeed
<1>2. CASE g[i] = p
  BY <1>i, <1>j, <1>k, <1>l, <1>2
<1>3. CASE g[j] = p
  BY <1>i, <1>j, <1>k, <1>l, <1>3
<1>4. CASE g[i] # p /\ g[j] # p
  BY <1>i, <1>j, <1>k, <1>l, <1>4 DEF SameOrder
<1> QED
  BY <1>2, <1>3, <1>4

\* listen hands out a publication that is new to everybody.
LEMMA HandingKeepsDelivery ==
    ASSUME DeliveryInv, ListenPublication, LInv'
    PROVE  DeliveryInv'
<1> DEFINE p == Head(publications)
<1>1. /\ publications \in Seq(Pub) /\ publications # <<>> /\ publications' = Tail(publications)
      /\ ppc' = ppc
  BY DEF ListenPublication, DeliveryInv, LInv, LTypeOK
<1>2. /\ IsInjective(publications')
      /\ p \in Range(publications) \cap Pub
      /\ Range(publications') \subseteq Range(publications) \ {p}
  BY <1>1, TailEntries DEF DeliveryInv, AcceptedOnce
<1>3. \A s \in Subscription :
        Feeds'[s] = IF s \in Active /\ TopicOf[s] = TopicOf[p] THEN Append(Feeds[s], p) ELSE Feeds[s]
  BY PublicationRefines DEF DeliveryInv, Broadcast!Broadcast
<1>4. ppc[p] = "published" /\ \A s \in Subscription : p \notin Range(Feeds[s])
  BY <1>2, ZenonT(40) DEF DeliveryInv, AcceptedOnce
<1> HIDE DEF p
<1>5. \A s \in Subscription : Feeds[s] \in Seq(Pub)
  BY FeedType, ZenonT(40) DEF DeliveryInv
<1>6. ASSUME NEW s \in Subscription
      PROVE  /\ Range(Feeds'[s]) \subseteq Range(Feeds[s]) \cup {p}
             /\ p \in Range(Feeds'[s]) => TopicOf[s] = TopicOf[p]
             /\ IsInjective(Feeds'[s])
             /\ Feeds'[s] = Feeds[s] \/ Feeds'[s] = Append(Feeds[s], p)
  <2>1. IsInjective(Feeds[s])
    BY ZenonT(40) DEF DeliveryInv, DeliveredOnceInOrder
  <2>2. CASE s \in Active /\ TopicOf[s] = TopicOf[p]
    <3>1. Feeds'[s] = Append(Feeds[s], p)
      BY <1>3, <2>2, ZenonT(40)
    <3>2. p \in Pub
      BY <1>2
    <3>3. Range(Append(Feeds[s], p)) = Range(Feeds[s]) \cup {p} /\ IsInjective(Append(Feeds[s], p))
      BY <1>4, <1>5, <2>1, <3>2, AppendEntries
    <3> QED
      BY <2>2, <3>1, <3>3, ZenonT(40)
  <2>3. CASE ~(s \in Active /\ TopicOf[s] = TopicOf[p])
    <3>1. Feeds'[s] = Feeds[s]
      BY <1>3, <2>3, ZenonT(40)
    <3> QED
      BY <1>4, <2>1, <3>1
  <2> QED
    BY <2>2, <2>3, ZenonT(40)
<1>7. AcceptedOnce'
  <2>1. ASSUME NEW q \in Range(publications')
        PROVE  ppc'[q] = "published" /\ \A s \in Subscription : q \notin Range(Feeds'[s])
    <3>1. q \in Range(publications) /\ q # p
      BY <1>2, <2>1
    <3>2. ppc[q] = "published" /\ \A s \in Subscription : q \notin Range(Feeds[s])
      BY <3>1, ZenonT(40) DEF DeliveryInv, AcceptedOnce
    <3> QED
      BY <1>1, <1>6, <3>1, <3>2, ZenonT(40)
  <2>2. ASSUME NEW s \in Subscription, NEW q \in Range(Feeds'[s])
        PROVE  ppc'[q] = "published"
    <3>1. q = p \/ q \in Range(Feeds[s])
      BY <1>6, <2>2
    <3> QED
      BY <1>1, <1>4, <3>1, ZenonT(40) DEF DeliveryInv, AcceptedOnce
  <2> QED
    BY <1>2, <2>1, <2>2, ZenonT(40) DEF AcceptedOnce
<1>8. ASSUME NEW s \in Subscription, NEW q \in Range(Feeds'[s])
      PROVE  TopicOf[q] = TopicOf[s]
  <2>1. CASE q = p
    BY <1>6, <1>8, <2>1
  <2>2. CASE q \in Range(Feeds[s])
    BY <2>2, ZenonT(40) DEF DeliveryInv, DeliveredOnceInOrder
  <2> QED
    BY <1>6, <1>8, <2>1, <2>2
<1>9. ASSUME NEW s \in Subscription, NEW r \in Subscription
      PROVE  SameOrder(Feeds'[s], Feeds'[r])
  <2>1. SameOrder(Feeds[s], Feeds[r])
    BY ZenonT(40) DEF DeliveryInv, DeliveredOnceInOrder
  <2>2. p \in Pub
    BY <1>2
  <2>3. /\ Feeds'[s] = Feeds[s] \/ Feeds'[s] = Append(Feeds[s], p)
        /\ Feeds'[r] = Feeds[r] \/ Feeds'[r] = Append(Feeds[r], p)
    BY <1>6, ZenonT(40)
  <2>4. /\ Feeds[s] \in Seq(Pub) /\ p \notin Range(Feeds[s])
        /\ Feeds[r] \in Seq(Pub) /\ p \notin Range(Feeds[r])
    BY <1>4, <1>5, ZenonT(40)
  <2> QED
    BY <2>1, <2>2, <2>3, <2>4, OrderKept, ZenonT(40)
<1>10. DeliveredOnceInOrder'
  <2>1. \A s \in Subscription :
          /\ \A q \in Range(Feeds'[s]) : TopicOf[q] = TopicOf[s]
          /\ IsInjective(Feeds'[s])
          /\ \A r \in Subscription : SameOrder(Feeds'[s], Feeds'[r])
    BY <1>6, <1>8, <1>9, ZenonT(40)
  <2> QED
    BY <2>1 DEF DeliveredOnceInOrder
<1> QED
  BY <1>7, <1>10 DEF DeliveryInv

\* Every step keeps the invariant.
LEMMA DeliveryNext == DeliveryInv /\ [LNext]_lvars => DeliveryInv'
<1> SUFFICES ASSUME DeliveryInv, [LNext]_lvars
             PROVE  DeliveryInv'
  OBVIOUS
<1>1. LInv /\ LInv'
  BY LInvNext DEF DeliveryInv
<1>2. CASE /\ UNCHANGED publications
           /\ \A p \in Pub : ppc[p] = "published" => ppc'[p] = "published"
  <2>1. Feeds' = Feeds
    BY <1>1, <1>2, OnlyListenHandsOut
  <2>2. Range(publications) \subseteq Pub /\ \A s \in Subscription : Range(Feeds[s]) \subseteq Pub
    BY <1>1, RangeType, FeedType DEF LInv, LTypeOK
  <2>3. AcceptedOnce'
    BY <1>2, <2>1, <2>2, ZenonT(40) DEF DeliveryInv, AcceptedOnce
  <2>4. DeliveredOnceInOrder'
    BY <2>1, SameFeedsSameOrder DEF DeliveryInv
  <2> QED
    BY <1>1, <2>3, <2>4 DEF DeliveryInv
<1> QED
  BY <1>1, <1>2, PublicationSteps, PublishKeepsDelivery, HandingKeepsDelivery, ZenonT(40)

\* listen, for any number of topics, publishers and subscribers: what a
\* subscriber is handed are publications of its topic, each of them once, and
\* all subscribers are handed them in one order.
THEOREM DeliversInOrder == LSpec => []DeliveredOnceInOrder
<1>1. DeliveryInv => DeliveredOnceInOrder
  BY DEF DeliveryInv
<1> QED
  BY <1>1, DeliveryInit, DeliveryNext, PTL DEF LSpec

\* The same by steps: whoever is not in the table gets nothing, two subscribers
\* of a topic that are get a publication both or neither, and a channel that
\* was closed stays closed and out of the table.
HandsOutTogether ==
    /\ \A s \in Subscription \ Active : Feeds'[s] = Feeds[s]
    /\ \A s, r \in Active : TopicOf[s] = TopicOf[r] =>
         \/ Feeds'[s] = Feeds[s] /\ Feeds'[r] = Feeds[r]
         \/ \E p \in Pub : Feeds'[s] = Append(Feeds[s], p) /\ Feeds'[r] = Append(Feeds[r], p)
    /\ \A s \in closed : s \in closed' /\ s \notin Active'

\* A closed channel is in the table no more.
LEMMA ClosedIsOut == LInv => closed \cap Active = {}
<1> SUFFICES ASSUME LInv, NEW s \in closed, s \in Active PROVE FALSE
  OBVIOUS
<1>1. s \in Subscription /\ s \in Range(subscribers[TopicOf[s]])
  BY DEF Active
<1>2. spc[s] \in {"subscribed", "unregistering"}
  BY <1>1, LocalPubSubAssumption DEF LInv, TableIsSound
<1> QED
  BY <1>2 DEF LInv, ClosedIsDone

\* listen: at the moment it takes a publication it decides for all subscribers
\* of the topic at once, and nobody else is concerned.
THEOREM HandsOut == LSpec => [][HandsOutTogether]_lvars
<1>1. ASSUME LInv, (closed \cap Active = {})', [LNext]_lvars
      PROVE  HandsOutTogether
  <2>1. Broadcast!BNext \/ UNCHANGED Broadcast!bvars
    BY <1>1, RefinesNext
  <2>2. closed \subseteq closed'
    BY <2>1, ZenonT(40) DEF Broadcast!BNext, Broadcast!Accept, Broadcast!Join, Broadcast!Leave,
                            Broadcast!Broadcast, Broadcast!Shutdown, Broadcast!bvars
  <2>3. \A s \in closed : s \in closed' /\ s \notin Active'
    BY <1>1, <2>2
  <2>4. CASE Broadcast!Broadcast
    <3>1. publications \in Seq(Pub) /\ publications # <<>> /\ Active \subseteq Subscription
      BY <1>1, <2>4 DEF Broadcast!Broadcast, LInv, LTypeOK, Active
    <3>2. Head(publications) \in Pub
      BY <3>1, HeadTailProperties
    <3>3. \A s \in Subscription :
            Feeds'[s] = IF s \in Active /\ TopicOf[s] = TopicOf[Head(publications)]
                          THEN Append(Feeds[s], Head(publications)) ELSE Feeds[s]
      BY <2>4 DEF Broadcast!Broadcast
    <3> QED
      BY <2>3, <3>1, <3>2, <3>3, ZenonT(40) DEF HandsOutTogether
  <2>5. CASE Feeds' = Feeds
    BY <2>3, <2>5, ZenonT(40) DEF HandsOutTogether
  <2> QED
    BY <2>1, <2>4, <2>5, ZenonT(40) DEF Broadcast!BNext, Broadcast!Accept, Broadcast!Join, Broadcast!Leave,
                                        Broadcast!Shutdown, Broadcast!bvars
<1>2. LInv /\ (closed \cap Active = {})' /\ [LNext]_lvars => [HandsOutTogether]_lvars
  BY <1>1
<1> QED
  BY <1>2, ClosedIsOut, LInvariant, PTL DEF LSpec
=============================================================================
