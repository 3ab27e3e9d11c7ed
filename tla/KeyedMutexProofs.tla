-------------------------- MODULE KeyedMutexProofs --------------------------
(***************************************************************************)
(* Proofs about KeyedMutex, for every set of calls and every set of keys.  *)
(***************************************************************************)
EXTENDS KeyedMutex, TLAPS

\* Tickets number the calls: a call has one when it is made, no two share one.
Numbered ==
  /\ \A o \in Op : stage[o] = "unborn" => keys[o] = {} /\ ticket[o] = 0
  /\ \A o \in Op : stage[o] # "unborn" => keys[o] # {} /\ ticket[o] > 0
  /\ \A o \in Op : ticket[o] <= calls
  /\ \A o, p \in Op : ticket[o] = ticket[p] /\ ticket[o] > 0 => o = p

\* Under each key of a pending call a tail is registered, its own or a later one.
Registered ==
  \A o \in Op : Pending(o) =>
    \A k \in keys[o] : chains[k] # None /\ ticket[o] <= ticket[chains[k]]

\* A call p behind a pending call o of the key k waits, and among the tails it
\* waits for is one of k, pending, that is o itself or came after it.
Behind(o, p, k) ==
  \E q \in prior[p] : /\ k \in keys[q]
                      /\ Pending(q)
                      /\ ticket[o] <= ticket[q]
                      /\ ticket[q] < ticket[p]

Queued ==
  \A o, p \in Op : \A k \in Key :
    (Pending(o) /\ ticket[o] < ticket[p] /\ k \in keys[o] /\ k \in keys[p])
      => stage[p] = "waiting" /\ Behind(o, p, k)

IInv == TypeOK /\ Numbered /\ NoStaleTail /\ Registered /\ Queued

-----------------------------------------------------------------------------
\* No call has been made: the inductive invariant holds initially.
LEMMA InitIInv == Init => IInv
  BY NoneIsNoOp
  DEF Init, IInv, TypeOK, Stages, Numbered, NoStaleTail, Registered, Queued, Pending

\* A tail that follows a pending call in the map is itself pending.
LEMMA TailPending ==
  ASSUME IInv, NEW o \in Op, Pending(o), NEW k \in keys[o]
  PROVE  /\ chains[k] \in Op /\ k \in keys[chains[k]]
         /\ Pending(chains[k]) /\ ticket[o] <= ticket[chains[k]]
<1>1. k \in Key /\ chains[k] # None /\ ticket[o] <= ticket[chains[k]]
  BY DEF IInv, TypeOK, Registered
<1>2. chains[k] \in Op /\ k \in keys[chains[k]]
  BY <1>1 DEF IInv, TypeOK, NoStaleTail
<1>3. CASE chains[k] = o
  BY <1>1, <1>2, <1>3
<1>4. CASE chains[k] # o
  <2>1. ticket[o] < ticket[chains[k]]
    BY <1>1, <1>2, <1>4 DEF IInv, TypeOK, Numbered, Pending
  <2>2. stage[chains[k]] = "waiting"
    BY <1>1, <1>2, <2>1 DEF IInv, Queued
  <2>3. QED
    BY <1>1, <1>2, <2>2 DEF Pending
<1>5. QED
  BY <1>3, <1>4

\* A new call queues behind the tails it found, and numbers stay in order.
LEMMA CallIInv ==
  ASSUME IInv, NEW o \in Op, NEW ks \in SUBSET Key, Call(o, ks)
  PROVE  IInv'
<1> USE DEF Call, Register
<1>1. TypeOK'
  BY DEF IInv, TypeOK, Stages
<1>2. Numbered'
  BY DEF IInv, TypeOK, Numbered
<1>3. NoStaleTail'
  BY NoneIsNoOp DEF IInv, TypeOK, NoStaleTail, Numbered
<1>4. Registered'
  <2>1. SUFFICES ASSUME NEW p \in Op, Pending(p)', NEW k \in keys'[p]
                 PROVE  chains'[k] # None /\ ticket'[p] <= ticket'[chains'[k]]
    BY DEF Registered
  <2>2. k \in Key
    BY <2>1, <1>1 DEF TypeOK
  <2>3. CASE k \in ks
    <3>1. chains'[k] = o /\ ticket'[o] = calls + 1
      BY <2>2, <2>3 DEF IInv, TypeOK
    <3>2. ticket'[p] <= calls'
      BY <1>2 DEF Numbered
    <3>3. QED
      BY <3>1, <3>2, NoneIsNoOp
  <2>4. CASE k \notin ks
    <3>1. p # o
      BY <2>1, <2>4 DEF IInv, TypeOK
    <3>2. Pending(p) /\ k \in keys[p] /\ ticket'[p] = ticket[p]
      BY <2>1, <3>1 DEF IInv, TypeOK, Pending
    <3>3. chains'[k] = chains[k] /\ Pending(chains[k]) /\ ticket[p] <= ticket[chains[k]]
          /\ chains[k] \in Op
      BY <2>2, <2>4, <3>2, TailPending
    <3>4. chains[k] # o
      BY <3>3 DEF Pending
    <3>5. QED
      BY <3>2, <3>3, <3>4, NoneIsNoOp DEF IInv, TypeOK
  <2>5. QED
    BY <2>3, <2>4
<1>5. Queued'
  <2>1. SUFFICES ASSUME NEW x \in Op, NEW p \in Op, NEW k \in Key, Pending(x)',
                        ticket'[x] < ticket'[p], k \in keys'[x], k \in keys'[p]
                 PROVE  stage'[p] = "waiting" /\ Behind(x, p, k)'
    BY DEF Queued
  <2>2. x # o
    <3>1. ticket'[o] = calls' /\ ticket'[p] <= calls'
      BY <1>2 DEF IInv, TypeOK, Numbered
    <3>2. QED
      BY <3>1, <2>1, <1>1 DEF TypeOK
  <2>3. Pending(x) /\ k \in keys[x] /\ ticket'[x] = ticket[x]
    BY <2>1, <2>2 DEF IInv, TypeOK, Pending
  <2>4. CASE p = o
    <3>1. k \in ks /\ stage'[p] = "waiting" /\ ticket'[p] = calls + 1
      BY <2>1, <2>4 DEF IInv, TypeOK
    <3>2. PICK q \in Op : /\ q = chains[k] /\ k \in keys[q]
                          /\ Pending(q) /\ ticket[x] <= ticket[q]
      BY <2>3, TailPending
    <3>3. q # o /\ q \in prior'[o]
      BY <3>1, <3>2, NoneIsNoOp DEF Pending, IInv, TypeOK
    <3>4. k \in keys'[q] /\ Pending(q)' /\ ticket'[q] = ticket[q]
      BY <3>2, <3>3 DEF IInv, TypeOK, Pending
    <3>5. ticket'[q] < ticket'[p]
      BY <3>1, <3>2, <3>4 DEF IInv, TypeOK, Numbered
    <3>6. QED
      BY <2>3, <2>4, <3>1, <3>2, <3>3, <3>4, <3>5 DEF Behind
  <2>5. CASE p # o
    <3>1. ticket[x] < ticket[p] /\ k \in keys[p] /\ prior'[p] = prior[p]
          /\ stage'[p] = stage[p] /\ ticket'[p] = ticket[p]
      BY <2>1, <2>3, <2>5 DEF IInv, TypeOK
    <3>2. stage[p] = "waiting" /\ Behind(x, p, k)
      BY <2>3, <3>1 DEF IInv, Queued
    <3>3. PICK q \in prior[p] : k \in keys[q] /\ Pending(q)
                                /\ ticket[x] <= ticket[q] /\ ticket[q] < ticket[p]
      BY <3>2 DEF Behind
    <3>4. q \in Op /\ q # o
      BY <3>3 DEF Pending, IInv, TypeOK
    <3>5. k \in keys'[q] /\ Pending(q)' /\ ticket'[q] = ticket[q]
      BY <3>3, <3>4 DEF IInv, TypeOK, Pending
    <3>6. QED
      BY <2>3, <3>1, <3>2, <3>3, <3>5 DEF Behind
  <2>6. QED
    BY <2>4, <2>5
<1>6. QED
  BY <1>1, <1>2, <1>3, <1>4, <1>5 DEF IInv

\* Only a call that waits for no pending tail starts.
LEMMA StartIInv ==
  ASSUME IInv, NEW o \in Op, Start(o)
  PROVE  IInv'
<1> USE DEF Start
<1>1. TypeOK' /\ Numbered' /\ NoStaleTail' /\ Registered'
  BY DEF IInv, TypeOK, Stages, Numbered, NoStaleTail, Registered, Pending
<1>2. Queued'
  <2>1. SUFFICES ASSUME NEW x \in Op, NEW p \in Op, NEW k \in Key, Pending(x)',
                        ticket[x] < ticket[p], k \in keys[x], k \in keys[p]
                 PROVE  stage'[p] = "waiting" /\ Behind(x, p, k)'
    BY DEF Queued
  <2>2. Pending(x)
    BY <2>1 DEF IInv, TypeOK, Pending
  <2>3. stage[p] = "waiting" /\ Behind(x, p, k)
    BY <2>1, <2>2 DEF IInv, Queued
  <2>4. p # o
    BY <2>3 DEF Behind
  <2>5. \A q \in Op : Pending(q) => Pending(q)'
    BY DEF IInv, TypeOK, Pending
  <2>6. QED
    BY <2>3, <2>4, <2>5 DEF Behind, IInv, TypeOK
<1>3. QED
  BY <1>1, <1>2 DEF IInv

\* A running call is behind nobody: what precedes it on a key has settled.
LEMMA RunningFirst ==
  ASSUME IInv, NEW x \in Op, NEW q \in Op, NEW k \in Key,
         Pending(x), stage[q] \notin {"unborn", "waiting"},
         k \in keys[x], k \in keys[q], ticket[x] <= ticket[q]
  PROVE  x = q
<1>1. CASE ticket[x] < ticket[q]
  BY <1>1 DEF IInv, Queued
<1>2. CASE ticket[x] = ticket[q]
  BY <1>2 DEF IInv, Numbered, Pending
<1>3. QED
  BY <1>1, <1>2 DEF IInv, TypeOK

\* A call that settles was the first of the pending ones that share its keys.
LEMMA SettleIInv ==
  ASSUME IInv, NEW o \in Op, Settle(o)
  PROVE  IInv'
<1> USE DEF Settle
<1>1. TypeOK' /\ Numbered' /\ NoStaleTail' /\ Registered'
  BY DEF IInv, TypeOK, Stages, Numbered, NoStaleTail, Registered, Pending
<1>2. Queued'
  <2>1. SUFFICES ASSUME NEW x \in Op, NEW p \in Op, NEW k \in Key, Pending(x)',
                        ticket[x] < ticket[p], k \in keys[x], k \in keys[p]
                 PROVE  stage'[p] = "waiting" /\ Behind(x, p, k)'
    BY DEF Queued
  <2>2. Pending(x) /\ x # o
    BY <2>1 DEF IInv, TypeOK, Pending
  <2>3. stage[p] = "waiting" /\ Behind(x, p, k)
    BY <2>1, <2>2 DEF IInv, Queued
  <2>4. PICK q \in prior[p] : k \in keys[q] /\ Pending(q)
                              /\ ticket[x] <= ticket[q] /\ ticket[q] < ticket[p]
    BY <2>3 DEF Behind
  <2>5. q \in Op /\ q # o
    BY <2>1, <2>2, <2>4, RunningFirst DEF IInv, TypeOK
  <2>6. QED
    BY <2>3, <2>4, <2>5 DEF Behind, Pending, IInv, TypeOK
<1>3. QED
  BY <1>1, <1>2 DEF IInv

\* Clearing one's own tails does not unregister a pending call.
LEMMA ReleaseIInv ==
  ASSUME IInv, NEW o \in Op, Release(o)
  PROVE  IInv'
<1> USE DEF Release, Clear
<1>1. TypeOK' /\ Numbered' /\ NoStaleTail'
  BY DEF IInv, TypeOK, Stages, Numbered, NoStaleTail
<1>2. Registered'
  <2>1. SUFFICES ASSUME NEW x \in Op, Pending(x)', NEW k \in keys[x]
                 PROVE  chains'[k] # None /\ ticket[x] <= ticket[chains'[k]]
    BY DEF Registered
  <2>2. Pending(x) /\ k \in Key
    BY <2>1 DEF IInv, TypeOK, Pending
  <2>3. Pending(chains[k]) /\ chains[k] \in Op /\ ticket[x] <= ticket[chains[k]]
    BY <2>1, <2>2, TailPending
  <2>4. chains'[k] = chains[k]
    BY <2>2, <2>3 DEF Pending
  <2>5. QED
    BY <2>3, <2>4, NoneIsNoOp
<1>3. Queued'
  BY DEF IInv, TypeOK, Queued, Behind, Pending
<1>4. QED
  BY <1>1, <1>2, <1>3 DEF IInv

\* Every step preserves the inductive invariant.
LEMMA NextIInv == IInv /\ [Next]_vars => IInv'
<1>1. SUFFICES ASSUME IInv, [Next]_vars
               PROVE  IInv'
  OBVIOUS
<1>2. CASE \E o \in Op : \E ks \in SUBSET Key : Call(o, ks)
  BY <1>1, <1>2, CallIInv
<1>3. CASE \E o \in Op : Start(o)
  BY <1>1, <1>3, StartIInv
<1>4. CASE \E o \in Op : Settle(o)
  BY <1>1, <1>4, SettleIInv
<1>5. CASE \E o \in Op : Release(o)
  BY <1>1, <1>5, ReleaseIInv
<1>6. CASE UNCHANGED vars
  BY <1>1, <1>6
  DEF vars, IInv, TypeOK, Numbered, NoStaleTail, Registered, Queued, Behind, Pending
<1>7. QED
  BY <1>1, <1>2, <1>3, <1>4, <1>5, <1>6 DEF Next

\* The inductive invariant holds in every reachable state.
LEMMA Inductive == Spec => []IInv
  BY InitIInv, NextIInv, PTL DEF Spec

-----------------------------------------------------------------------------
\* The variables keep their types, whatever the calls and the keys.
THEOREM TypeCorrect == Spec => []TypeOK
<1>1. IInv => TypeOK
  BY DEF IInv
<1>2. QED
  BY <1>1, Inductive, PTL

\* Functions that share a path never run together (mutex.ts, runExclusive).
THEOREM Exclusive == Spec => []MutualExclusion
<1>1. IInv => MutualExclusion
  <2>1. SUFFICES ASSUME IInv, NEW o \in Op, NEW p \in Op, NEW k \in keys[o] \cap keys[p],
                        stage[o] = "running", stage[p] = "running"
                 PROVE  o = p
    BY DEF MutualExclusion
  <2>2. k \in Key /\ ticket[o] \in Nat /\ ticket[p] \in Nat
    BY <2>1 DEF IInv, TypeOK
  <2>3. CASE ticket[o] <= ticket[p]
    BY <2>1, <2>2, <2>3, RunningFirst DEF Pending
  <2>4. CASE ticket[p] <= ticket[o]
    BY <2>1, <2>2, <2>4, RunningFirst DEF Pending
  <2>5. QED
    BY <2>2, <2>3, <2>4
<1>2. QED
  BY <1>1, Inductive, PTL

\* Operations of one path run in the order of their calls.
THEOREM InOrder == Spec => []CallOrder
<1>1. IInv => CallOrder
  BY DEF IInv, TypeOK, Queued, CallOrder
<1>2. QED
  BY <1>1, Inductive, PTL

\* KeyedMutex serialises the operations on every path (mutex.ts, header comment).
THEOREM Serial == Spec => []Serialised
<1>1. MutualExclusion /\ CallOrder => Serialised
  BY DEF Serialised
<1>2. QED
  BY <1>1, Exclusive, InOrder, PTL

\* The map keeps no tail of a call that has been released.
THEOREM TailsReleased == Spec => []NoStaleTail
<1>1. IInv => NoStaleTail
  BY DEF IInv
<1>2. QED
  BY <1>1, Inductive, PTL

-----------------------------------------------------------------------------
\* Initially nobody is inside the abstract lock.
LEMMA InitLock == Init => Lock!Init
  BY DEF Init, Lock!Init

\* A call that starts enters the abstract lock while nobody holds one of its keys.
LEMMA StartEnters ==
  ASSUME IInv, NEW o \in Op, Start(o)
  PROVE  Lock!Enter(o)
<1>1. o \in Op /\ stage[o] = "waiting" /\ keys[o] # {}
  BY DEF Start, IInv, TypeOK, Numbered
<1>2. \A q \in Op : stage[q] = "running" => keys[q] \cap keys[o] = {}
  <2>1. SUFFICES ASSUME NEW q \in Op, stage[q] = "running", NEW k \in keys[q] \cap keys[o]
                 PROVE  FALSE
    OBVIOUS
  <2>2. k \in Key /\ ticket[q] \in Nat /\ ticket[o] \in Nat /\ Pending(q) /\ Pending(o)
    BY <2>1, <1>1 DEF IInv, TypeOK, Pending
  <2>3. CASE ticket[o] <= ticket[q]
    BY <1>1, <2>1, <2>2, <2>3, RunningFirst
  <2>4. CASE ticket[q] < ticket[o]
    <3>1. Behind(q, o, k)
      BY <2>1, <2>2, <2>4 DEF IInv, Queued
    <3>2. QED
      BY <3>1 DEF Behind, Start
  <2>5. QED
    BY <2>2, <2>3, <2>4
<1>3. {q \in Op : stage'[q] = "running"} = {q \in Op : stage[q] = "running"} \cup {o}
  BY <1>1 DEF Start, IInv, TypeOK
<1>4. {q \in Op : stage'[q] \in {"settled", "released"}}
        = {q \in Op : stage[q] \in {"settled", "released"}}
  BY <1>1 DEF Start, IInv, TypeOK
<1>5. QED
  BY <1>1, <1>2, <1>3, <1>4 DEF Lock!Enter, Start

\* Every step of the promise chains is a step of the abstract lock, or stutters.
LEMMA NextLock == IInv /\ [Next]_vars => [Lock!Next]_Lock!vars
<1>1. SUFFICES ASSUME IInv, [Next]_vars
               PROVE  [Lock!Next]_Lock!vars
  OBVIOUS
<1>2. ASSUME NEW o \in Op, NEW ks \in SUBSET Key, Call(o, ks)
      PROVE  Lock!Ask(o, ks)
  <2>1. {q \in Op : stage'[q] = "running"} = {q \in Op : stage[q] = "running"}
    BY <1>1, <1>2 DEF Call, Register, IInv, TypeOK
  <2>2. {q \in Op : stage'[q] \in {"settled", "released"}}
          = {q \in Op : stage[q] \in {"settled", "released"}}
    BY <1>1, <1>2 DEF Call, Register, IInv, TypeOK
  <2>3. keys[o] = {}
    BY <1>1, <1>2 DEF Call, Register, IInv, Numbered
  <2>4. QED
    BY <1>2, <2>1, <2>2, <2>3 DEF Call, Register, Lock!Ask
<1>3. ASSUME NEW o \in Op, Settle(o)
      PROVE  Lock!Leave(o)
  <2>1. {q \in Op : stage'[q] = "running"} = {q \in Op : stage[q] = "running"} \ {o}
    BY <1>1, <1>3 DEF Settle, IInv, TypeOK
  <2>2. {q \in Op : stage'[q] \in {"settled", "released"}}
          = {q \in Op : stage[q] \in {"settled", "released"}} \cup {o}
    BY <1>1, <1>3 DEF Settle, IInv, TypeOK
  <2>3. QED
    BY <1>3, <2>1, <2>2 DEF Settle, Lock!Leave
<1>4. ASSUME NEW o \in Op, Release(o)
      PROVE  UNCHANGED Lock!vars
  <2>1. {q \in Op : stage'[q] = "running"} = {q \in Op : stage[q] = "running"}
    BY <1>1, <1>4 DEF Release, Clear, IInv, TypeOK
  <2>2. {q \in Op : stage'[q] \in {"settled", "released"}}
          = {q \in Op : stage[q] \in {"settled", "released"}}
    BY <1>1, <1>4 DEF Release, Clear, IInv, TypeOK
  <2>3. QED
    BY <1>4, <2>1, <2>2 DEF Release, Clear, Lock!vars
<1>5. CASE UNCHANGED vars
  BY <1>5 DEF vars, Lock!vars
<1>6. CASE Next
  BY <1>1, <1>2, <1>3, <1>4, <1>6, StartEnters DEF Next, Lock!Next
<1>7. QED
  BY <1>1, <1>5, <1>6

\* The promise chains of mutex.ts implement the exclusive-access lock.
THEOREM Refines == Spec => ImplementsLock
<1>1. IInv /\ [Next]_vars => [Lock!Next]_Lock!vars
  BY NextLock
<1>2. QED
  BY <1>1, InitLock, Inductive, PTL DEF Spec, ImplementsLock, Lock!Spec
=============================================================================
