------------------------------ MODULE RelayHub ------------------------------
(***************************************************************************)
(* Live connections of the relay: admission, the read and write pump of a  *)
(* websocket, authentication, the hub that passes events and signals on    *)
(* between the connections of one identity, closing, and shutdown          *)
(* (relay/internal/server/ws.go and server.go, relay/internal/hub).        *)
(*                                                                         *)
(* Every connection has two goroutines, and up to three may close it: its  *)
(* read pump, the one that sendJSON starts when the queue is full, and     *)
(* the server's Close.  A message is a unit of a queue; which subscribers  *)
(* want events is any choice.  All connections come from one address.      *)
(***************************************************************************)
EXTENDS Integers, FiniteSets

CONSTANTS
  Conn,          \* connections
  Identity,
  None,          \* no identity
  SendQueue,     \* messages that fit into conn.send
  MaxConns,      \* connections admitted from the address
  MaxAuths       \* bound: successful auth messages of a connection

ASSUME HubAssumption ==
  /\ None \notin Identity /\ IsFiniteSet(Conn)
  /\ SendQueue \in Nat \ {0} /\ MaxConns \in Nat /\ MaxAuths \in Nat

VARIABLES
  slots,     \* Server.conns of the address
  wss,       \* Server.wss
  subs,      \* Hub.subs
  queue,     \* messages in conn.send
  reader,    \* where the read pump is
  writer,    \* the write pump: none, running or stopped
  ident,     \* conn.id, None while not conn.authed
  was,       \* what conn.id was before the auth message being handled
  slow,      \* connections that a goroutine of sendJSON is to close
  once,      \* how far conn.close has got
  seen,      \* the identity that conn.close found
  server,    \* running, closing, draining: Server.Close
  toClose,   \* connections that Server.Close found and closes
  \* History, which no action but the bound looks at:
  auths,     \* successful auth messages of a connection
  raced,     \* connections whose close and an auth message overlapped
  late,      \* connections registered since Server.Close began
  told       \* told[b]: the peers whose coming b was offered last, not their going

pumps == <<reader, writer, ident, was>>
closing == <<slow, once, seen, server, toClose>>
history == <<auths, raced, late, told>>
vars == <<slots, wss, subs, queue, pumps, closing, history>>

Reader == {"none", "upgrading", "reading", "subscribing", "announcing", "closing", "gone"}
Closer == {"open", "unregistering", "telling", "over"}

Init ==
  /\ slots = 0 /\ wss = {}
  /\ subs = [i \in Identity |-> {}]
  /\ queue = [c \in Conn |-> 0]
  /\ reader = [c \in Conn |-> "none"]
  /\ writer = [c \in Conn |-> "none"]
  /\ ident = [c \in Conn |-> None] /\ was = [c \in Conn |-> None]
  /\ slow = {}
  /\ once = [c \in Conn |-> "open"]
  /\ seen = [c \in Conn |-> None]
  /\ server = "running" /\ toClose = {}
  /\ auths = [c \in Conn |-> 0] /\ raced = {} /\ late = {}
  /\ told = [c \in Conn |-> {}]

-----------------------------------------------------------------------------
\* Mutation of Offer: whether there is room is not asked.
Offer_NoDefault(cs) == [b \in Conn |-> IF b \in cs THEN queue[b] + 1 ELSE queue[b]]

\* Hub.Broadcast, Publish and Route: whoever has no room is skipped.
Offer(cs) == [b \in Conn |-> IF b \in cs /\ queue[b] < SendQueue THEN queue[b] + 1 ELSE queue[b]]

\* The other connections of an identity.
Peers(i, c) == IF i = None THEN {} ELSE subs[i] \ {c}

\* sendJSON to c, and an offer to others: without room for it, a goroutine is to
\* close c, which changes nothing once that has begun.
SendAnd(c, others) ==
  /\ queue' = Offer(others \cup {c})
  /\ slow' = IF queue[c] = SendQueue /\ once[c] = "open" THEN slow \cup {c} ELSE slow

Send(c) == SendAnd(c, {})

-----------------------------------------------------------------------------
\* handleWS: the address is admitted, unless the server drains.
Admit(c) ==
  /\ reader[c] = "none" /\ server # "draining"
  /\ slots < MaxConns
  /\ slots' = slots + 1
  /\ reader' = [reader EXCEPT ![c] = "upgrading"]
  /\ UNCHANGED <<wss, subs, queue, writer, ident, was, closing, history>>

\* Mutation of UpgradeFail: the slot is not given back.
UpgradeFail_KeepsSlot(c) ==
  /\ reader[c] = "upgrading"
  /\ reader' = [reader EXCEPT ![c] = "gone"]
  /\ UNCHANGED <<slots, wss, subs, queue, writer, ident, was, closing, history>>

UpgradeFail(c) ==
  /\ reader[c] = "upgrading"
  /\ slots' = slots - 1
  /\ reader' = [reader EXCEPT ![c] = "gone"]
  /\ UNCHANGED <<wss, subs, queue, writer, ident, was, closing, history>>

\* The connection is registered and its pumps are started; the read pump's hello
\* finds the queue empty, as nobody else knows of it.
Register(c) ==
  /\ reader[c] = "upgrading"
  /\ wss' = wss \cup {c}
  /\ reader' = [reader EXCEPT ![c] = "reading"]
  /\ writer' = [writer EXCEPT ![c] = "running"]
  /\ queue' = [queue EXCEPT ![c] = 1]
  /\ late' = IF server = "running" THEN late ELSE late \cup {c}
  /\ UNCHANGED <<slots, subs, ident, was, closing, auths, raced, told>>

\* Every message that is answered and tells nobody else: errors, get, list, sub.
Reply(c) ==
  /\ reader[c] = "reading"
  /\ Send(c)
  /\ UNCHANGED <<slots, wss, subs, pumps, once, seen, server, toClose, history>>

\* put and del are answered, and published to the peers that want events.
Store(c) ==
  /\ reader[c] = "reading" /\ ident[c] # None
  /\ \E events \in SUBSET Peers(ident[c], c) : SendAnd(c, events)
  /\ UNCHANGED <<slots, wss, subs, pumps, once, seen, server, toClose, history>>

\* A signal to all peers is not answered ...
Signal(c) ==
  /\ reader[c] = "reading" /\ ident[c] # None
  /\ queue' = Offer(Peers(ident[c], c))
  /\ UNCHANGED <<slots, wss, subs, pumps, closing, history>>

\* ... nor is one to a connection of the identity that has room.
SignalTo(c, b) ==
  /\ reader[c] = "reading" /\ ident[c] # None
  /\ \/ /\ b \in subs[ident[c]] /\ queue[b] < SendQueue
        /\ queue' = Offer({b}) /\ UNCHANGED slow
     \/ /\ ~(b \in subs[ident[c]] /\ queue[b] < SendQueue)
        /\ Send(c)
  /\ UNCHANGED <<slots, wss, subs, pumps, once, seen, server, toClose, history>>

\* A blob put or deleted over HTTP.
RestEvent(i) ==
  /\ \E events \in SUBSET subs[i] : queue' = Offer(events)
  /\ UNCHANGED <<slots, wss, subs, pumps, closing, history>>

-----------------------------------------------------------------------------
\* Mutation of Auth: the old registration stays.
Auth_Keeps(c, i) ==
  /\ reader[c] = "reading" /\ auths[c] < MaxAuths
  /\ was' = [was EXCEPT ![c] = ident[c]]
  /\ ident' = [ident EXCEPT ![c] = i]
  /\ auths' = [auths EXCEPT ![c] = @ + 1]
  /\ raced' = IF once[c] # "open" THEN raced \cup {c} ELSE raced
  /\ reader' = [reader EXCEPT ![c] = "subscribing"]
  /\ UNCHANGED <<slots, wss, subs, queue, writer, closing, late, told>>

\* handleAuth: the signature is good.  A connection that was authenticated before
\* is taken out of the hub, and its identity is set ...
Auth(c, i) ==
  /\ reader[c] = "reading" /\ auths[c] < MaxAuths
  /\ subs' = [j \in Identity |-> IF j = ident[c] THEN subs[j] \ {c} ELSE subs[j]]
  /\ was' = [was EXCEPT ![c] = ident[c]]
  /\ ident' = [ident EXCEPT ![c] = i]
  /\ auths' = [auths EXCEPT ![c] = @ + 1]
  /\ raced' = IF once[c] # "open" THEN raced \cup {c} ELSE raced
  /\ reader' = [reader EXCEPT ![c] = "subscribing"]
  /\ UNCHANGED <<slots, wss, queue, writer, closing, late, told>>

\* ... it is subscribed under it ...
Subscribe(c) ==
  /\ reader[c] = "subscribing"
  /\ subs' = [subs EXCEPT ![ident[c]] = @ \cup {c}]
  /\ was' = [was EXCEPT ![c] = None]
  /\ reader' = [reader EXCEPT ![c] = "announcing"]
  /\ UNCHANGED <<slots, wss, queue, writer, ident, closing, history>>

\* ... which is then confirmed, and told to the others.
Announce(c) ==
  /\ reader[c] = "announcing"
  /\ SendAnd(c, Peers(ident[c], c))
  /\ told' = [b \in Conn |-> IF b \in Peers(ident[c], c) THEN told[b] \cup {c} ELSE told[b]]
  /\ raced' = IF once[c] # "open" THEN raced \cup {c} ELSE raced
  /\ reader' = [reader EXCEPT ![c] = "reading"]
  /\ UNCHANGED <<slots, wss, subs, writer, ident, was, once, seen, server, toClose, auths, late>>

-----------------------------------------------------------------------------
\* writePump sends, or fails to and returns without closing the connection, or
\* returns because the connection is closed.
Write(c) ==
  /\ writer[c] = "running" /\ queue[c] > 0
  /\ queue' = [queue EXCEPT ![c] = @ - 1]
  /\ UNCHANGED <<slots, wss, subs, pumps, closing, history>>

WriteFail(c) ==
  /\ writer[c] = "running"
  /\ queue' = [queue EXCEPT ![c] = IF @ > 0 THEN @ - 1 ELSE 0]
  /\ writer' = [writer EXCEPT ![c] = "stopped"]
  /\ UNCHANGED <<slots, wss, subs, reader, ident, was, closing, history>>

WriterDone(c) ==
  /\ writer[c] = "running" /\ once[c] = "over"
  /\ writer' = [writer EXCEPT ![c] = "stopped"]
  /\ UNCHANGED <<slots, wss, subs, queue, reader, ident, was, closing, history>>

\* Reading fails: the peer is gone, was silent for too long, or the connection is
\* closed.  The slot is given back, then the read pump closes the connection too.
ReadFail(c) ==
  /\ reader[c] = "reading"
  /\ slots' = slots - 1
  /\ reader' = [reader EXCEPT ![c] = "closing"]
  /\ UNCHANGED <<wss, subs, queue, writer, ident, was, closing, history>>

\* sync.Once: the read pump returns when the one close is over.
CanReturn(c) == reader[c] = "closing" /\ once[c] = "over"
ReaderDone(c) ==
  /\ CanReturn(c)
  /\ reader' = [reader EXCEPT ![c] = "gone"]
  /\ UNCHANGED <<slots, wss, subs, queue, writer, ident, was, closing, history>>

-----------------------------------------------------------------------------
\* unregister reads authed and id, which the read pump writes without a lock: until
\* Subscribe has synchronized them, it may find the old identity, the new one, or
\* one that is half of each and nobody's.
Found(c) == IF reader[c] = "subscribing" THEN {ident[c], was[c], None} ELSE {ident[c]}

\* Mutation of CloseDue: the read pump returns without closing.
CloseDue_NoDefer(c) == c \in slow \/ (server = "closing" /\ c \in toClose)

\* Who is to close c: the goroutine of sendJSON, the read pump when it returns, or
\* Server.Close.
CloseDue(c) == c \in slow \/ reader[c] = "closing" \/ (server = "closing" /\ c \in toClose)

\* conn.close, once, by whoever comes first.
CloseStart(c) ==
  /\ once[c] = "open" /\ CloseDue(c)
  /\ wss' = wss \ {c} /\ slow' = slow \ {c}
  /\ \E i \in Found(c) : seen' = [seen EXCEPT ![c] = i]
  /\ raced' = IF reader[c] = "subscribing" THEN raced \cup {c} ELSE raced
  /\ once' = [once EXCEPT ![c] = "unregistering"]
  /\ UNCHANGED <<slots, subs, queue, pumps, server, toClose, auths, late, told>>

\* Mutation of CloseUnsubscribe: the hub keeps the connection.
CloseUnsubscribe_Skip(c) ==
  /\ once[c] = "unregistering"
  /\ once' = [once EXCEPT ![c] = "telling"]
  /\ UNCHANGED <<slots, wss, subs, queue, pumps, slow, seen, server, toClose, history>>

CloseUnsubscribe(c) ==
  /\ once[c] = "unregistering"
  /\ subs' = [i \in Identity |-> IF i = seen[c] THEN subs[i] \ {c} ELSE subs[i]]
  /\ once' = [once EXCEPT ![c] = "telling"]
  /\ UNCHANGED <<slots, wss, queue, pumps, slow, seen, server, toClose, history>>

\* Mutation of CloseTell: the others are not told.
CloseTell_Silent(c) ==
  /\ once[c] = "telling"
  /\ seen' = [seen EXCEPT ![c] = None]
  /\ once' = [once EXCEPT ![c] = "over"]
  /\ UNCHANGED <<slots, wss, subs, queue, pumps, slow, server, toClose, history>>

\* The others are told; then done and the socket are closed.
CloseTell(c) ==
  /\ once[c] = "telling"
  /\ queue' = Offer(Peers(seen[c], c))
  /\ told' = [b \in Conn |-> IF b \in Peers(seen[c], c) THEN told[b] \ {c} ELSE told[b]]
  /\ seen' = [seen EXCEPT ![c] = None]
  /\ once' = [once EXCEPT ![c] = "over"]
  /\ UNCHANGED <<slots, wss, subs, pumps, slow, server, toClose, auths, raced, late>>

-----------------------------------------------------------------------------
\* Server.Close collects the connections ...
Shutdown ==
  /\ server = "running"
  /\ server' = "closing" /\ toClose' = wss
  /\ UNCHANGED <<slots, wss, subs, queue, pumps, slow, once, seen, history>>

\* Mutation of Drain: a close that has begun is not waited for.
Drain_NoWait ==
  /\ server = "closing" /\ \A c \in toClose : once[c] # "open"
  /\ server' = "draining"
  /\ UNCHANGED <<slots, wss, subs, queue, pumps, slow, once, seen, toClose, history>>

\* ... and closes them, also waiting for a close that has begun already, before the
\* HTTP server stops to accept.
CanDrain == server = "closing" /\ \A c \in toClose : once[c] = "over"
Drain ==
  /\ CanDrain
  /\ server' = "draining"
  /\ UNCHANGED <<slots, wss, subs, queue, pumps, slow, once, seen, toClose, history>>

CloseStep(c) == CloseStart(c) \/ CloseUnsubscribe(c) \/ CloseTell(c)

Next ==
  \/ \E c \in Conn :
       \/ Admit(c) \/ UpgradeFail(c) \/ Register(c)
       \/ Reply(c) \/ Store(c) \/ Signal(c)
       \/ Subscribe(c) \/ Announce(c)
       \/ Write(c) \/ WriteFail(c) \/ WriterDone(c)
       \/ ReadFail(c) \/ ReaderDone(c) \/ CloseStep(c)
       \/ \E b \in Conn : SignalTo(c, b)
       \/ \E i \in Identity : Auth(c, i)
  \/ \E i \in Identity : RestEvent(i)
  \/ Shutdown
  \/ Drain

Spec == Init /\ [][Next]_vars

-----------------------------------------------------------------------------
\* The relay's connections.
TypeOK ==
  /\ slots \in Int
  /\ wss \subseteq Conn
  /\ subs \in [Identity -> SUBSET Conn]
  /\ queue \in [Conn -> 0..SendQueue]
  /\ reader \in [Conn -> Reader]
  /\ writer \in [Conn -> {"none", "running", "stopped"}]
  /\ ident \in [Conn -> Identity \cup {None}] /\ was \in [Conn -> Identity \cup {None}]
  /\ slow \subseteq Conn
  /\ once \in [Conn -> Closer]
  /\ seen \in [Conn -> Identity \cup {None}]
  /\ server \in {"running", "closing", "draining"} /\ toClose \subseteq Conn
  /\ auths \in [Conn -> Nat] /\ raced \subseteq Conn /\ late \subseteq Conn
  /\ told \in [Conn -> SUBSET Conn]

\* "connection limit" (ws.go): the slots of an address that are taken are those of
\* the connections whose read pump has not returned, however they ended.
SlotsMatch ==
  slots = Cardinality({c \in Conn : reader[c] \notin {"none", "closing", "gone"}})

\* unregister (ws.go): a connection is in the hub under one identity, the one it
\* proved last, and not any more once it is closed - unless it was closed while an
\* auth message was handled, whose Subscribe came too late to be undone.
SubscribedOnce ==
  \A i \in Identity : \A c \in subs[i] :
    /\ ident[c] = i
    /\ once[c] \in {"telling", "over"} => c \in raced

\* "tells its identity's other devices it left" (ws.go): nobody is left believing in
\* a peer that is closed: whoever was offered its coming was offered its going as
\* well, unless the two were told by goroutines that raced, or one of the two
\* changed identity meanwhile.
NoGhostPeer ==
  \A a, b \in Conn :
    (once[a] = "over" /\ a \in told[b] /\ auths[a] = 1 /\ auths[b] = 1) =>
      a \in raced \/ once[b] # "open"

\* "close live WebSocket conns" (server.go): when the HTTP server is shut down, the
\* connections that Close found are closed to the end, and no other is open or
\* listed but the ones registered since.
ShutdownCloses ==
  server = "draining" =>
    /\ \A c \in toClose : once[c] = "over"
    /\ \A c \in Conn \ late : writer[c] # "none" => once[c] # "open" /\ c \notin wss

\* The guards of the steps that need nobody else: the close of c can go on, and the
\* read pump of c can (Register, Subscribe, Announce, ReadFail, ReaderDone).
CanClose(c) == (once[c] = "open" /\ CloseDue(c)) \/ once[c] \in {"unregistering", "telling"}
CanRead(c) == reader[c] \in {"upgrading", "subscribing", "announcing", "reading"} \/ CanReturn(c)

\* Nobody waits for ever: a connection, dead or alive, has a step of its own goroutines
\* or of its one close to take until its read pump has returned, and Server.Close,
\* which waits for closes that others began, can go on or somebody it waits for can.
\* Nobody is waited for in vain: what is listed, subscribed or to be closed has a read
\* pump that has not returned, but for a subscription that came too late (SubscribedOnce).
NeverStuck ==
  /\ \A c \in Conn : reader[c] \notin {"none", "gone"} => CanRead(c) \/ CanClose(c)
  /\ server = "closing" => CanDrain \/ \E c \in toClose : CanClose(c)
  /\ \A c \in Conn :
       c \in wss \/ c \in slow \/ (\E i \in Identity : c \in subs[i] \ raced) => reader[c] \notin {"none", "gone"}
=============================================================================
