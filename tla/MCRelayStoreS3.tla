--------------------------- MODULE MCRelayStoreS3 ---------------------------
(* RelayStoreS3 on small sets of model values. *)
EXTENDS RelayStoreS3, TLC

Symmetry == Permutations(Identity) \cup Permutations(Bid) \cup Permutations(Handler)

\* Runs with a fault make one put less.
Bounded == faults = 0 \/ puts < MaxPuts
=============================================================================
