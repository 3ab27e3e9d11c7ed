---------------------------- MODULE RelayHubProofs ----------------------------
(***************************************************************************)
(* Proofs about RelayHub, for any number of connections and identities,    *)
(* any length of the queues and any number of auth messages.               *)
(***************************************************************************)
EXTENDS RelayHub, FiniteSetTheorems, TLAPS

-----------------------------------------------------------------------------
\* What a step of the read pump, the write pump or the close of a connection is, by
\* the goroutine that makes it; the others are steps of the hub and of the server.
Serve(c) == Reply(c) \/ Store(c) \/ Signal(c) \/ \E b \in Conn : SignalTo(c, b)
Login(c) == Subscribe(c) \/ Announce(c) \/ \E i \in Identity : Auth(c, i)
Start(c) == Admit(c) \/ UpgradeFail(c) \/ Register(c)
Pump(c) == Write(c) \/ WriteFail(c) \/ WriterDone(c)
Finish(c) == ReadFail(c) \/ ReaderDone(c)
Stop == Shutdown \/ Drain

\* Every step of the relay is one of these.
LEMMA Steps ==
  ASSUME Next
  PROVE  \/ \E c \in Conn : Start(c) \/ Serve(c) \/ Login(c) \/ Pump(c) \/ Finish(c) \/ CloseStep(c)
         \/ \E i \in Identity : RestEvent(i)
         \/ Stop
  BY DEF Next, Start, Serve, Login, Pump, Finish, Stop

\* An offer fills queues up to their length.
LEMMA OfferType ==
  ASSUME NEW cs, queue \in [Conn -> 0..SendQueue]
  PROVE  Offer(cs) \in [Conn -> 0..SendQueue]
  BY HubAssumption DEF Offer

\* The types hold initially.
LEMMA InitType == Init => TypeOK
  BY HubAssumption DEF Init, TypeOK, Reader, Closer

\* What a step leaves alone keeps its type; the rest is typed action by action.
LEMMA StepType == TypeOK /\ [Next]_vars => TypeOK'
<1> SUFFICES ASSUME TypeOK, [Next]_vars PROVE TypeOK'
  OBVIOUS
<1> USE HubAssumption DEF TypeOK, Reader, Closer, pumps, closing, history
<1>1. CASE UNCHANGED vars
  BY <1>1 DEF vars
<1>2. ASSUME NEW c \in Conn, Start(c) PROVE TypeOK'
  <2>1. CASE Admit(c) BY <2>1 DEF Admit
  <2>2. CASE UpgradeFail(c) BY <2>2 DEF UpgradeFail
  <2>3. CASE Register(c) BY <2>3 DEF Register
  <2>4. QED BY <1>2, <2>1, <2>2, <2>3 DEF Start
<1>3. ASSUME NEW c \in Conn, Serve(c) PROVE TypeOK'
  <2>1. CASE Reply(c) BY <2>1, OfferType DEF Reply, Send, SendAnd
  <2>2. CASE Store(c) BY <2>2, OfferType DEF Store, SendAnd
  <2>3. CASE Signal(c) BY <2>3, OfferType DEF Signal
  <2>4. ASSUME NEW b \in Conn, SignalTo(c, b) PROVE TypeOK'
    BY <2>4, OfferType DEF SignalTo, Send, SendAnd
  <2>5. QED BY <1>3, <2>1, <2>2, <2>3, <2>4 DEF Serve
<1>4. ASSUME NEW c \in Conn, Login(c) PROVE TypeOK'
  <2>1. ASSUME NEW i \in Identity, Auth(c, i) PROVE TypeOK' BY <2>1 DEF Auth
  <2>2. CASE Subscribe(c) BY <2>2 DEF Subscribe
  <2>3. CASE Announce(c) BY <2>3, OfferType DEF Announce, SendAnd
  <2>4. QED BY <1>4, <2>1, <2>2, <2>3 DEF Login
<1>5. ASSUME NEW c \in Conn, Pump(c) PROVE TypeOK'
  <2>1. CASE Write(c) BY <2>1 DEF Write
  <2>2. CASE WriteFail(c) BY <2>2 DEF WriteFail
  <2>3. CASE WriterDone(c) BY <2>3 DEF WriterDone
  <2>4. QED BY <1>5, <2>1, <2>2, <2>3 DEF Pump
<1>6. ASSUME NEW c \in Conn, Finish(c) PROVE TypeOK'
  BY <1>6 DEF Finish, ReadFail, ReaderDone
<1>7. ASSUME NEW c \in Conn, CloseStep(c) PROVE TypeOK'
  <2>1. CASE CloseStart(c) BY <2>1 DEF CloseStart, Found
  <2>2. CASE CloseUnsubscribe(c) BY <2>2 DEF CloseUnsubscribe
  <2>3. CASE CloseTell(c) BY <2>3, OfferType DEF CloseTell
  <2>4. QED BY <1>7, <2>1, <2>2, <2>3 DEF CloseStep
<1>8. ASSUME NEW i \in Identity, RestEvent(i) PROVE TypeOK'
  BY <1>8, OfferType DEF RestEvent
<1>9. CASE Stop
  BY <1>9 DEF Stop, Shutdown, Drain
<1>10. QED
  BY <1>1, <1>2, <1>3, <1>4, <1>5, <1>6, <1>7, <1>8, <1>9, Steps

\* The relay's connections keep their types; no queue is ever longer than it may be.
THEOREM TypeCorrect == Spec => []TypeOK
  BY InitType, StepType, PTL DEF Spec

-----------------------------------------------------------------------------
\* Connections whose read pump holds a slot of the address.
Holding == {c \in Conn : reader[c] \notin {"none", "closing", "gone"}}

\* Connections are finitely many, so that those with a slot can be counted.
LEMMA FiniteHolding == IsFiniteSet(Holding) /\ Cardinality(Holding) \in Nat
<1>1. IsFiniteSet(Holding)
  BY HubAssumption, FS_Subset DEF Holding
<1>2. QED
  BY <1>1, FS_CardinalityType

\* A step that takes a slot is one of a read pump that did not hold one, a step that
\* gives one back is one of a read pump that did; no other changes either.
LEMMA StepSlots == TypeOK /\ SlotsMatch /\ [Next]_vars => SlotsMatch'
<1> SUFFICES ASSUME TypeOK, slots = Cardinality(Holding), [Next]_vars
             PROVE  slots' = Cardinality(Holding')
  BY DEF SlotsMatch, Holding
<1> USE DEF TypeOK, pumps, closing, history
<1>1. ASSUME slots' = slots, Holding' = Holding PROVE slots' = Cardinality(Holding')
  BY <1>1
<1>2. CASE UNCHANGED vars
  BY <1>1, <1>2 DEF vars, Holding
<1>3. ASSUME NEW c \in Conn, Start(c) PROVE slots' = Cardinality(Holding')
  <2>1. CASE Admit(c)
    <3>1. Holding' = Holding \cup {c} /\ c \notin Holding /\ slots' = slots + 1
      BY <2>1 DEF Admit, Holding
    <3>2. QED BY <3>1, FiniteHolding, FS_AddElement
  <2>2. CASE UpgradeFail(c)
    <3>1. Holding' = Holding \ {c} /\ c \in Holding /\ slots' = slots - 1
      BY <2>2 DEF UpgradeFail, Holding
    <3>2. QED BY <3>1, FiniteHolding, FS_RemoveElement
  <2>3. CASE Register(c)
    BY <1>1, <2>3 DEF Register, Holding
  <2>4. QED BY <1>3, <2>1, <2>2, <2>3 DEF Start
<1>4. ASSUME NEW c \in Conn, Serve(c) PROVE slots' = Cardinality(Holding')
  BY <1>1, <1>4 DEF Serve, Reply, Store, Signal, SignalTo, Holding
<1>5. ASSUME NEW c \in Conn, Login(c) PROVE slots' = Cardinality(Holding')
  <2>1. ASSUME NEW i \in Identity, Auth(c, i) PROVE slots' = Cardinality(Holding')
    BY <1>1, <2>1 DEF Auth, Holding
  <2>2. CASE Subscribe(c) BY <1>1, <2>2 DEF Subscribe, Holding
  <2>3. CASE Announce(c) BY <1>1, <2>3 DEF Announce, Holding
  <2>4. QED BY <1>5, <2>1, <2>2, <2>3 DEF Login
<1>6. ASSUME NEW c \in Conn, Pump(c) PROVE slots' = Cardinality(Holding')
  BY <1>1, <1>6 DEF Pump, Write, WriteFail, WriterDone, Holding
<1>7. ASSUME NEW c \in Conn, Finish(c) PROVE slots' = Cardinality(Holding')
  <2>1. CASE ReadFail(c)
    <3>1. Holding' = Holding \ {c} /\ c \in Holding /\ slots' = slots - 1
      BY <2>1 DEF ReadFail, Holding
    <3>2. QED BY <3>1, FiniteHolding, FS_RemoveElement
  <2>2. CASE ReaderDone(c) BY <1>1, <2>2 DEF ReaderDone, CanReturn, Holding
  <2>3. QED BY <1>7, <2>1, <2>2 DEF Finish
<1>8. ASSUME NEW c \in Conn, CloseStep(c) PROVE slots' = Cardinality(Holding')
  BY <1>1, <1>8 DEF CloseStep, CloseStart, CloseUnsubscribe, CloseTell, Holding
<1>9. ASSUME NEW i \in Identity, RestEvent(i) PROVE slots' = Cardinality(Holding')
  BY <1>1, <1>9 DEF RestEvent, Holding
<1>10. CASE Stop
  BY <1>1, <1>10 DEF Stop, Shutdown, Drain, Holding
<1>11. QED
  BY <1>2, <1>3, <1>4, <1>5, <1>6, <1>7, <1>8, <1>9, <1>10, Steps

\* The slots of an address that are taken are those of the connections whose read
\* pump has not returned, however they ended.
THEOREM SlotsExact == Spec => []SlotsMatch
<1>1. Init => SlotsMatch
  <2>1. Init => {c \in Conn : reader[c] \notin {"none", "closing", "gone"}} = {}
    BY DEF Init
  <2>2. QED BY <2>1, FS_EmptySet DEF Init, SlotsMatch
<1>2. QED
  BY <1>1, StepSlots, TypeCorrect, PTL DEF Spec

-----------------------------------------------------------------------------
\* The hub and the connections.  SubscribedOnce depends on what the close of a
\* connection finds: while an auth message is handled it may be the wrong identity, and
\* the connection counts as raced from then on; otherwise it is the identity under
\* which the connection is subscribed.
NotYetIn == \A i \in Identity : \A c \in subs[i] : reader[c] # "subscribing" /\ auths[c] > 0
FoundRight == \A c \in Conn : once[c] \in {"unregistering", "telling"} => seen[c] = ident[c] \/ c \in raced
LateRaced == \A c \in Conn : (reader[c] = "subscribing" /\ once[c] # "open") => c \in raced
Proven == \A c \in Conn :
            /\ reader[c] \in {"subscribing", "announcing"} => auths[c] > 0
            /\ auths[c] > 0 => ident[c] \in Identity
HubInv == NotYetIn /\ FoundRight /\ LateRaced /\ Proven /\ SubscribedOnce

\* A step that leaves all this alone.
LEMMA SameHub ==
  ASSUME HubInv, UNCHANGED <<subs, reader, auths, once, seen, ident, raced>>
  PROVE  HubInv'
  BY DEF HubInv, NotYetIn, FoundRight, LateRaced, Proven, SubscribedOnce

\* Nothing is subscribed at first.
LEMMA InitHub == Init => HubInv
  BY HubAssumption DEF Init, HubInv, NotYetIn, FoundRight, LateRaced, Proven, SubscribedOnce

\* Every step keeps the hub in step with the connections.
LEMMA StepHub == TypeOK /\ HubInv /\ [Next]_vars => HubInv'
<1> SUFFICES ASSUME TypeOK, HubInv, [Next]_vars PROVE HubInv'
  OBVIOUS
<1> USE HubAssumption DEF TypeOK, Reader, Closer, pumps, closing, history
<1>1. CASE UNCHANGED vars
  BY <1>1, SameHub DEF vars
<1>2. ASSUME NEW c \in Conn, Start(c) PROVE HubInv'
  BY <1>2 DEF Start, Admit, UpgradeFail, Register, HubInv, NotYetIn, FoundRight, LateRaced, Proven, SubscribedOnce
<1>3. ASSUME NEW c \in Conn, Serve(c) PROVE HubInv'
  BY <1>3, SameHub DEF Serve, Reply, Store, Signal, SignalTo
<1>4. ASSUME NEW c \in Conn, Login(c) PROVE HubInv'
  <2>1. ASSUME NEW i \in Identity, Auth(c, i) PROVE HubInv'
    <3> USE <2>1 DEF Auth
    <3>1. \A j \in Identity : c \notin subs'[j]
      BY DEF HubInv, SubscribedOnce
    <3>2. NotYetIn' /\ SubscribedOnce'
      BY <3>1 DEF HubInv, NotYetIn, SubscribedOnce
    <3>3. FoundRight' /\ LateRaced' /\ Proven'
      BY DEF HubInv, FoundRight, LateRaced, Proven
    <3>4. QED BY <3>2, <3>3 DEF HubInv
  <2>2. CASE Subscribe(c)
    BY <2>2 DEF Subscribe, HubInv, NotYetIn, FoundRight, LateRaced, Proven, SubscribedOnce
  <2>3. CASE Announce(c)
    BY <2>3 DEF Announce, HubInv, NotYetIn, FoundRight, LateRaced, Proven, SubscribedOnce
  <2>4. QED BY <1>4, <2>1, <2>2, <2>3 DEF Login
<1>5. ASSUME NEW c \in Conn, Pump(c) PROVE HubInv'
  BY <1>5, SameHub DEF Pump, Write, WriteFail, WriterDone
<1>6. ASSUME NEW c \in Conn, Finish(c) PROVE HubInv'
  BY <1>6 DEF Finish, ReadFail, ReaderDone, CanReturn, HubInv, NotYetIn, FoundRight, LateRaced, Proven, SubscribedOnce
<1>7. ASSUME NEW c \in Conn, CloseStep(c) PROVE HubInv'
  <2>1. CASE CloseStart(c)
    BY <2>1 DEF CloseStart, Found, HubInv, NotYetIn, FoundRight, LateRaced, Proven, SubscribedOnce
  <2>2. CASE CloseUnsubscribe(c)
    BY <2>2 DEF CloseUnsubscribe, HubInv, NotYetIn, FoundRight, LateRaced, Proven, SubscribedOnce
  <2>3. CASE CloseTell(c)
    BY <2>3 DEF CloseTell, HubInv, NotYetIn, FoundRight, LateRaced, Proven, SubscribedOnce
  <2>4. QED BY <1>7, <2>1, <2>2, <2>3 DEF CloseStep
<1>8. ASSUME NEW i \in Identity, RestEvent(i) PROVE HubInv'
  BY <1>8, SameHub DEF RestEvent
<1>9. CASE Stop
  BY <1>9, SameHub DEF Stop, Shutdown, Drain
<1>10. QED
  BY <1>1, <1>2, <1>3, <1>4, <1>5, <1>6, <1>7, <1>8, <1>9, Steps

\* The hub's registrations follow the connections.
LEMMA HubFollows == Spec => []HubInv
  BY InitHub, StepHub, TypeCorrect, PTL DEF Spec

\* A connection is in the hub under the one identity it proved last, and not once it
\* is closed, unless it was closed while an auth message was handled.
THEOREM OneSubscription == Spec => []SubscribedOnce
<1>1. HubInv => SubscribedOnce
  BY DEF HubInv
<1>2. QED
  BY <1>1, HubFollows, PTL

-----------------------------------------------------------------------------
\* What peers were told.  A connection that was offered the coming of a peer is
\* subscribed under the peer's identity as long as neither authenticates again and it
\* is not closed itself: the peer's close reaches it.
NobodyTold == \A b \in Conn : auths[b] = 0 => told[b] = {}
OnlyProven == \A a, b \in Conn : a \in told[b] => auths[a] > 0
WillHear ==
  \A a, b \in Conn :
    (a \in told[b] /\ a \notin raced /\ auths[a] = 1 /\ auths[b] = 1 /\ once[b] = "open")
      => b \in subs[ident[a]]
ToldInv == NobodyTold /\ OnlyProven /\ WillHear /\ NoGhostPeer

\* A step that leaves all this alone.
LEMMA SameTold ==
  ASSUME ToldInv, UNCHANGED <<told, auths, raced, once, subs, ident>>
  PROVE  ToldInv'
  BY DEF ToldInv, NobodyTold, OnlyProven, WillHear, NoGhostPeer

\* Every step keeps what peers were told in step with the hub.
LEMMA StepTold == TypeOK /\ HubInv /\ ToldInv /\ [Next]_vars => ToldInv'
<1> SUFFICES ASSUME TypeOK, HubInv, ToldInv, [Next]_vars PROVE ToldInv'
  OBVIOUS
<1> USE HubAssumption DEF TypeOK, Reader, Closer, pumps, closing, history
<1>1. CASE UNCHANGED vars
  BY <1>1, SameTold DEF vars
<1>2. ASSUME NEW c \in Conn, Start(c) PROVE ToldInv'
  BY <1>2, SameTold DEF Start, Admit, UpgradeFail, Register
<1>3. ASSUME NEW c \in Conn, Serve(c) PROVE ToldInv'
  BY <1>3, SameTold DEF Serve, Reply, Store, Signal, SignalTo
<1>4. ASSUME NEW c \in Conn, Login(c) PROVE ToldInv'
  <2>1. ASSUME NEW i \in Identity, Auth(c, i) PROVE ToldInv'
    <3> USE <2>1 DEF Auth
    <3>1. NobodyTold' /\ OnlyProven'
      BY DEF ToldInv, NobodyTold, OnlyProven
    <3>2. auths'[c] = 1 => told[c] = {} /\ \A b \in Conn : c \notin told[b]
      BY DEF ToldInv, NobodyTold, OnlyProven
    <3>3. WillHear'
      <4> SUFFICES ASSUME NEW a \in Conn, NEW b \in Conn, a \in told'[b], a \notin raced',
                          auths'[a] = 1, auths'[b] = 1, once'[b] = "open"
                   PROVE  b \in subs'[ident'[a]]
        BY DEF WillHear
      <4>1. a # c /\ b # c
        BY <3>2
      <4>2. b \in subs[ident[a]] /\ ident'[a] = ident[a] /\ ident[a] \in Identity
        BY <4>1 DEF ToldInv, WillHear, HubInv, Proven
      <4>3. QED BY <4>1, <4>2
    <3>4. NoGhostPeer'
      BY <3>2 DEF ToldInv, NoGhostPeer
    <3>5. QED BY <3>1, <3>3, <3>4 DEF ToldInv
  <2>2. CASE Subscribe(c)
    BY <2>2 DEF Subscribe, HubInv, Proven, ToldInv, NobodyTold, OnlyProven, WillHear, NoGhostPeer
  <2>3. CASE Announce(c)
    <3> USE <2>3 DEF Announce
    <3>1. auths[c] > 0 /\ ident[c] \in Identity
      BY DEF HubInv, Proven
    <3>2. Peers(ident[c], c) = subs[ident[c]] \ {c}
      BY <3>1 DEF Peers
    <3>3. NobodyTold' /\ OnlyProven'
      BY <3>1, <3>2 DEF ToldInv, NobodyTold, OnlyProven, HubInv, NotYetIn
    <3>4. WillHear'
      BY <3>1, <3>2 DEF ToldInv, WillHear
    <3>5. NoGhostPeer'
      BY <3>2 DEF ToldInv, NoGhostPeer
    <3>6. QED BY <3>3, <3>4, <3>5 DEF ToldInv
  <2>4. QED BY <1>4, <2>1, <2>2, <2>3 DEF Login
<1>5. ASSUME NEW c \in Conn, Pump(c) PROVE ToldInv'
  BY <1>5, SameTold DEF Pump, Write, WriteFail, WriterDone
<1>6. ASSUME NEW c \in Conn, Finish(c) PROVE ToldInv'
  BY <1>6, SameTold DEF Finish, ReadFail, ReaderDone
<1>7. ASSUME NEW c \in Conn, CloseStep(c) PROVE ToldInv'
  <2>1. CASE CloseStart(c)
    BY <2>1 DEF CloseStart, ToldInv, NobodyTold, OnlyProven, WillHear, NoGhostPeer
  <2>2. CASE CloseUnsubscribe(c)
    <3> USE <2>2 DEF CloseUnsubscribe
    <3>1. NobodyTold' /\ OnlyProven' /\ NoGhostPeer'
      BY DEF ToldInv, NobodyTold, OnlyProven, NoGhostPeer
    <3>2. WillHear'
      BY DEF ToldInv, WillHear, HubInv, Proven
    <3>3. QED BY <3>1, <3>2 DEF ToldInv
  <2>3. CASE CloseTell(c)
    <3> USE <2>3 DEF CloseTell
    <3>1. NobodyTold' /\ OnlyProven' /\ WillHear'
      BY DEF ToldInv, NobodyTold, OnlyProven, WillHear
    <3>2. NoGhostPeer'
      <4> SUFFICES ASSUME NEW a \in Conn, NEW b \in Conn, once'[a] = "over", a \in told'[b],
                          auths'[a] = 1, auths'[b] = 1, a \notin raced', once'[b] = "open"
                   PROVE  FALSE
        BY DEF NoGhostPeer
      <4>1. a \in told[b] /\ b # c
        OBVIOUS
      <4>2. CASE a # c
        BY <4>1, <4>2 DEF ToldInv, NoGhostPeer
      <4>3. CASE a = c
        <5>1. seen[c] = ident[c] /\ ident[c] \in Identity
          BY <4>3 DEF HubInv, FoundRight, Proven
        <5>2. b \in subs[ident[c]]
          BY <4>1, <4>3 DEF ToldInv, WillHear
        <5>3. b \in Peers(seen[c], c)
          BY <4>1, <5>1, <5>2 DEF Peers
        <5>4. QED BY <4>3, <5>3
      <4>4. QED BY <4>2, <4>3
    <3>3. QED BY <3>1, <3>2 DEF ToldInv
  <2>4. QED BY <1>7, <2>1, <2>2, <2>3 DEF CloseStep
<1>8. ASSUME NEW i \in Identity, RestEvent(i) PROVE ToldInv'
  BY <1>8, SameTold DEF RestEvent
<1>9. CASE Stop
  BY <1>9, SameTold DEF Stop, Shutdown, Drain
<1>10. QED
  BY <1>1, <1>2, <1>3, <1>4, <1>5, <1>6, <1>7, <1>8, <1>9, Steps

\* Nobody is left believing in a peer that is closed, unless close and announcement
\* raced or one of the two changed identity.
THEOREM NoGhosts == Spec => []NoGhostPeer
<1>1. Init => ToldInv
  BY DEF Init, ToldInv, NobodyTold, OnlyProven, WillHear, NoGhostPeer
<1>2. ToldInv => NoGhostPeer
  BY DEF ToldInv
<1>3. QED
  BY <1>1, <1>2, StepTold, HubFollows, TypeCorrect, PTL DEF Spec

-----------------------------------------------------------------------------
\* Shutdown.  A connection is listed in Server.wss from its registration to the start
\* of its close (Listed), so that it is either found by Server.Close or registered
\* after it began (Known); and a close that is over stays over (Waited).
Unborn == \A c \in Conn : reader[c] \in {"none", "upgrading"} =>
            once[c] = "open" /\ c \notin wss \cup slow \cup toClose
Listed == \A c \in Conn : /\ c \in wss => once[c] = "open"
                          /\ writer[c] # "none" /\ once[c] = "open" => c \in wss
Known == server # "running" => wss \subseteq toClose \cup late
Waited == server = "draining" => \A c \in toClose : once[c] = "over"
StopInv == Unborn /\ Listed /\ Known /\ Waited

\* A step that leaves all this alone.
LEMMA SameStop ==
  ASSUME StopInv, UNCHANGED <<reader, once, wss, slow, toClose, writer, server, late>>
  PROVE  StopInv'
  BY DEF StopInv, Unborn, Listed, Known, Waited

\* Every step keeps the list of connections complete, and closes closed.
LEMMA StepStop == TypeOK /\ StopInv /\ [Next]_vars => StopInv'
<1> SUFFICES ASSUME TypeOK, StopInv, [Next]_vars PROVE StopInv'
  OBVIOUS
<1> USE DEF TypeOK, Reader, Closer, pumps, closing, history
<1>1. CASE UNCHANGED vars
  BY <1>1, SameStop DEF vars
<1>2. ASSUME NEW c \in Conn, Start(c) PROVE StopInv'
  BY <1>2 DEF Start, Admit, UpgradeFail, Register, StopInv, Unborn, Listed, Known, Waited
<1>3. ASSUME NEW c \in Conn, Serve(c) PROVE StopInv'
  BY <1>3 DEF Serve, Reply, Store, Signal, SignalTo, Send, SendAnd, StopInv, Unborn, Listed, Known, Waited
<1>4. ASSUME NEW c \in Conn, Login(c) PROVE StopInv'
  BY <1>4 DEF Login, Auth, Subscribe, Announce, SendAnd, StopInv, Unborn, Listed, Known, Waited
<1>5. ASSUME NEW c \in Conn, Pump(c) PROVE StopInv'
  BY <1>5 DEF Pump, Write, WriteFail, WriterDone, StopInv, Unborn, Listed, Known, Waited
<1>6. ASSUME NEW c \in Conn, Finish(c) PROVE StopInv'
  BY <1>6 DEF Finish, ReadFail, ReaderDone, CanReturn, StopInv, Unborn, Listed, Known, Waited
<1>7. ASSUME NEW c \in Conn, CloseStep(c) PROVE StopInv'
  BY <1>7 DEF CloseStep, CloseStart, CloseDue, CloseUnsubscribe, CloseTell, StopInv, Unborn, Listed, Known, Waited
<1>8. ASSUME NEW i \in Identity, RestEvent(i) PROVE StopInv'
  BY <1>8, SameStop DEF RestEvent
<1>9. CASE Stop
  BY <1>9 DEF Stop, Shutdown, Drain, CanDrain, StopInv, Unborn, Listed, Known, Waited
<1>10. QED
  BY <1>1, <1>2, <1>3, <1>4, <1>5, <1>6, <1>7, <1>8, <1>9, Steps

\* The server's list follows the connections.
LEMMA StopFollows == Spec => []StopInv
<1>1. Init => StopInv
  BY DEF Init, StopInv, Unborn, Listed, Known, Waited
<1>2. QED
  BY <1>1, StepStop, TypeCorrect, PTL DEF Spec

\* When the HTTP server is shut down, the connections that Close found are closed to the
\* end, and no other is open or listed but the ones registered since.
THEOREM AllClosed == Spec => []ShutdownCloses
<1>1. StopInv => ShutdownCloses
  BY DEF StopInv, Listed, Known, Waited, ShutdownCloses
<1>2. QED
  BY <1>1, StopFollows, PTL

-----------------------------------------------------------------------------
\* Waiting.  A read pump that has returned has a close behind it that is over, or it
\* never had a connection (Returned); nobody is left to close what is closed (NoneLeft).
Returned == \A c \in Conn : reader[c] = "gone" => once[c] = "over" \/ (auths[c] = 0 /\ c \notin wss)
NoneLeft == \A c \in slow : once[c] = "open" /\ reader[c] # "gone"
Newborn == \A c \in Conn : reader[c] \in {"none", "upgrading"} => auths[c] = 0
WaitInv == Returned /\ NoneLeft /\ Newborn

\* A step that leaves all this alone.
LEMMA SameWait ==
  ASSUME WaitInv, UNCHANGED <<reader, once, auths, wss, slow>>
  PROVE  WaitInv'
  BY DEF WaitInv, Returned, NoneLeft, Newborn

\* Every step lets a read pump return only when nothing is left to close.
LEMMA StepWait == TypeOK /\ StopInv /\ WaitInv /\ [Next]_vars => WaitInv'
<1> SUFFICES ASSUME TypeOK, StopInv, WaitInv, [Next]_vars PROVE WaitInv'
  OBVIOUS
<1> USE DEF TypeOK, Reader, Closer, pumps, closing, history, WaitInv, Returned, NoneLeft, Newborn
<1>1. CASE UNCHANGED vars
  BY <1>1, SameWait DEF vars
<1>2. ASSUME NEW c \in Conn, Start(c) PROVE WaitInv'
  BY <1>2 DEF Start, Admit, UpgradeFail, Register, StopInv, Unborn
<1>3. ASSUME NEW c \in Conn, Serve(c) PROVE WaitInv'
  BY <1>3 DEF Serve, Reply, Store, Signal, SignalTo, Send, SendAnd
<1>4. ASSUME NEW c \in Conn, Login(c) PROVE WaitInv'
  BY <1>4 DEF Login, Auth, Subscribe, Announce, SendAnd
<1>5. ASSUME NEW c \in Conn, Pump(c) PROVE WaitInv'
  BY <1>5, SameWait DEF Pump, Write, WriteFail, WriterDone
<1>6. ASSUME NEW c \in Conn, Finish(c) PROVE WaitInv'
  BY <1>6 DEF Finish, ReadFail, ReaderDone, CanReturn
<1>7. ASSUME NEW c \in Conn, CloseStep(c) PROVE WaitInv'
  BY <1>7 DEF CloseStep, CloseStart, CloseUnsubscribe, CloseTell
<1>8. ASSUME NEW i \in Identity, RestEvent(i) PROVE WaitInv'
  BY <1>8, SameWait DEF RestEvent
<1>9. CASE Stop
  BY <1>9, SameWait DEF Stop, Shutdown, Drain
<1>10. QED
  BY <1>1, <1>2, <1>3, <1>4, <1>5, <1>6, <1>7, <1>8, <1>9, Steps

\* Nobody waits for ever, and nobody is waited for in vain.
THEOREM NobodyStuck == Spec => []NeverStuck
<1>1. Init => WaitInv
  BY DEF Init, WaitInv, Returned, NoneLeft, Newborn
<1>2. TypeOK /\ HubInv /\ StopInv /\ WaitInv => NeverStuck
  <2> SUFFICES ASSUME TypeOK, HubInv, StopInv, WaitInv PROVE NeverStuck
    OBVIOUS
  <2>1. ASSUME NEW c \in Conn, reader[c] \notin {"none", "gone"} PROVE CanRead(c) \/ CanClose(c)
    <3>1. reader[c] = "closing" => CanReturn(c) \/ CanClose(c)
      BY DEF TypeOK, Closer, CanReturn, CanClose, CloseDue
    <3>2. QED BY <2>1, <3>1 DEF TypeOK, Reader, CanRead
  <2>2. ASSUME server = "closing" PROVE CanDrain \/ \E c \in toClose : CanClose(c)
    BY <2>2 DEF TypeOK, Closer, CanDrain, CanClose, CloseDue
  <2>3. ASSUME NEW c \in Conn, reader[c] \in {"none", "gone"}
        PROVE  c \notin wss /\ c \notin slow
    BY <2>3 DEF StopInv, Unborn, Listed, WaitInv, Returned, NoneLeft
  <2>4. ASSUME NEW c \in Conn, reader[c] \in {"none", "gone"}, NEW i \in Identity, c \in subs[i]
        PROVE  c \in raced
    BY <2>4 DEF HubInv, NotYetIn, SubscribedOnce, WaitInv, Returned, Newborn, TypeOK
  <2>5. QED BY <2>1, <2>2, <2>3, <2>4 DEF NeverStuck
<1>3. QED
  BY <1>1, <1>2, StepWait, StopFollows, HubFollows, TypeCorrect, PTL DEF Spec
=============================================================================
