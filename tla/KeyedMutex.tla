----------------------------- MODULE KeyedMutex -----------------------------
(***************************************************************************)
(* KeyedMutex of packages/storage/src/mutex.ts: operations on storage      *)
(* paths are serialised per path by chaining promises.  A call registers   *)
(* its own tail promise under every key it names in the same synchronous   *)
(* step in which it collects the tails it has to wait for, runs its        *)
(* function when all of those have settled, and drops its tail from the    *)
(* map in a later microtask unless somebody has queued behind it.          *)
(*                                                                         *)
(* Promise callbacks are separate microtasks, so the step that settles a   *)
(* result, the step that clears the map and the step that starts the next  *)
(* operation interleave freely here.                                       *)
(***************************************************************************)
EXTENDS Naturals

CONSTANTS Op,     \* calls of runExclusive, each issued at most once
          Key,    \* paths
          None    \* "no tail registered"

ASSUME NoneIsNoOp == None \notin Op

VARIABLES
  chains,   \* chains[k]: the call whose tail is registered under k, or None
  stage,    \* where the promise of each call stands
  keys,     \* the keys each call named
  prior,    \* the calls whose tails a call found registered and waits for
  ticket,   \* history: position of the call in the order of the calls
  calls     \* history: calls made so far

vars == <<chains, stage, keys, prior, ticket, calls>>

Stages == {"unborn", "waiting", "running", "settled", "released"}

\* Calls whose result promise is still pending.
Pending(o) == stage[o] \in {"waiting", "running"}

Init ==
  /\ chains = [k \in Key |-> None]
  /\ stage = [o \in Op |-> "unborn"]
  /\ keys = [o \in Op |-> {}]
  /\ prior = [o \in Op |-> {}]
  /\ ticket = [o \in Op |-> 0]
  /\ calls = 0

\* A call that names the keys ks and will wait for the tails in `waits`.
Register(o, ks, waits) ==
  /\ stage[o] = "unborn"
  /\ ks # {}
  /\ prior' = [prior EXCEPT ![o] = waits]
  /\ chains' = [k \in Key |-> IF k \in ks THEN o ELSE chains[k]]
  /\ keys' = [keys EXCEPT ![o] = ks]
  /\ stage' = [stage EXCEPT ![o] = "waiting"]
  /\ calls' = calls + 1
  /\ ticket' = [ticket EXCEPT ![o] = calls + 1]

\* Mutations of Call: only one of the keys is looked up; a missing entry is not
\* filtered out; the own tail is registered before the tails are collected.
Call_OneKey(o, ks) == \E k \in ks : Register(o, ks, {chains[k]} \ {None})
Call_NoFilter(o, ks) == Register(o, ks, {chains[k] : k \in ks})
Call_RegisterFirst(o, ks) == Register(o, ks, {o})

\* runExclusive(keys, fn): everything up to the first await is one step.
Call(o, ks) == Register(o, ks, {chains[k] : k \in ks} \ {None})

\* Mutation of Start: Promise.race instead of Promise.allSettled.
Start_Race(o) ==
  /\ stage[o] = "waiting"
  /\ prior[o] # {} => \E p \in prior[o] : ~Pending(p)
  /\ stage' = [stage EXCEPT ![o] = "running"]
  /\ UNCHANGED <<chains, keys, prior, ticket, calls>>

\* Promise.allSettled(prior).then(() => fn()).
Start(o) ==
  /\ stage[o] = "waiting"
  /\ \A p \in prior[o] : ~Pending(p)
  /\ stage' = [stage EXCEPT ![o] = "running"]
  /\ UNCHANGED <<chains, keys, prior, ticket, calls>>

\* fn() resolves or rejects; the tail settles either way.
Settle(o) ==
  /\ stage[o] = "running"
  /\ stage' = [stage EXCEPT ![o] = "settled"]
  /\ UNCHANGED <<chains, keys, prior, ticket, calls>>

\* The callback of a settled tail clears the map entries in `mine`.
Clear(o, mine) ==
  /\ stage[o] = "settled"
  /\ stage' = [stage EXCEPT ![o] = "released"]
  /\ chains' = [k \in Key |-> IF k \in mine THEN None ELSE chains[k]]
  /\ UNCHANGED <<keys, prior, ticket, calls>>

\* Mutations of Release: the entry is cleared although somebody queued behind
\* it; the entry is never cleared.
Release_Always(o) == Clear(o, keys[o])
Release_Never(o) == Clear(o, {})

\* tail.then(...): drop the entries that are still this call's own tail.
Release(o) == Clear(o, {k \in keys[o] : chains[k] = o})

Next == \E o \in Op : \/ \E ks \in SUBSET Key : Call(o, ks)
                      \/ Start(o)
                      \/ Settle(o)
                      \/ Release(o)

Spec == Init /\ [][Next]_vars

\* The event loop runs every queued microtask, and the storage operations
\* the mutex guards end by themselves: they never call back into it.
Fairness == \A o \in Op : WF_vars(Start(o)) /\ WF_vars(Settle(o)) /\ WF_vars(Release(o))

FairSpec == Spec /\ Fairness

-----------------------------------------------------------------------------
\* The state of the mutex: every tail registered under a key belongs to a call
\* that named the key and that has not been released.
TypeOK ==
  /\ chains \in [Key -> Op \cup {None}]
  /\ stage \in [Op -> Stages]
  /\ keys \in [Op -> SUBSET Key]
  /\ prior \in [Op -> SUBSET Op]
  /\ ticket \in [Op -> Nat]
  /\ calls \in Nat

\* "two writes to the same file cannot interleave within a tab": functions
\* that share a key are never running together (mutex.ts, header comment).
MutualExclusion ==
  \A o, p \in Op : stage[o] = "running" /\ stage[p] = "running" /\ o # p
                     => keys[o] \cap keys[p] = {}

\* Operations on one path run in the order in which they were called, even when
\* they were called with several keys and the map entry was cleared in between:
\* whoever is waiting behind an earlier pending call of the same key stays so.
CallOrder ==
  \A o, p \in Op :
    (Pending(o) /\ ticket[o] < ticket[p] /\ keys[o] \cap keys[p] # {})
      => stage[p] = "waiting"

\* Both: KeyedMutex serialises the operations on a path, first come first served.
Serialised == MutualExclusion /\ CallOrder

\* An entry of the map is never one that belongs to a released call, so the map
\* does not keep tails of finished calls alive once their callback has run.
NoStaleTail == \A k \in Key : chains[k] # None =>
                  k \in keys[chains[k]] /\ stage[chains[k]] \in {"waiting", "running", "settled"}

\* Every call runs and settles: the sorted multi-key acquisition has no deadlock.
EveryCallSettles == \A o \in Op : stage[o] = "waiting" ~> stage[o] \in {"settled", "released"}

\* The mutex as an exclusive-access lock.
Lock == INSTANCE ExclusiveAccess WITH
          wants <- keys,
          inside <- {o \in Op : stage[o] = "running"},
          done <- {o \in Op : stage[o] \in {"settled", "released"}}

\* The promise chains implement the abstract lock.
ImplementsLock == Lock!Spec

=============================================================================
