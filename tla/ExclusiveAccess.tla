-------------------------- MODULE ExclusiveAccess --------------------------
(***************************************************************************)
(* What a keyed lock promises its callers: operations that name a common   *)
(* key never overlap.  An operation enters when no operation inside shares *)
(* a key with it and later leaves.  Nothing is said about how the callers  *)
(* wait; KeyedMutex implements this specification with promise chains.     *)
(***************************************************************************)
EXTENDS Naturals

CONSTANTS Op,   \* operations handed to the lock, each runs at most once
          Key   \* names that are locked (storage paths)

VARIABLES wants,    \* wants[o]: the keys operation o asked for
          inside,   \* operations whose critical section is running
          done      \* operations that left

vars == <<wants, inside, done>>

Init == /\ wants = [o \in Op |-> {}]
        /\ inside = {}
        /\ done = {}

Ask(o, ks) ==
  /\ wants[o] = {}
  /\ ks # {}
  /\ wants' = [wants EXCEPT ![o] = ks]
  /\ UNCHANGED <<inside, done>>

Enter(o) ==
  /\ wants[o] # {}
  /\ o \notin inside \cup done
  /\ \A p \in inside : wants[p] \cap wants[o] = {}
  /\ inside' = inside \cup {o}
  /\ UNCHANGED <<wants, done>>

Leave(o) ==
  /\ o \in inside
  /\ inside' = inside \ {o}
  /\ done' = done \cup {o}
  /\ UNCHANGED wants

Next == \E o \in Op : \/ \E ks \in SUBSET Key : Ask(o, ks)
                      \/ Enter(o)
                      \/ Leave(o)

Spec == Init /\ [][Next]_vars
=============================================================================
