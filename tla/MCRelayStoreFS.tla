--------------------------- MODULE MCRelayStoreFS ---------------------------
(* RelayStoreFS on small sets of model values. *)
EXTENDS RelayStoreFS, TLC

\* Owners, blob ids and handlers are interchangeable; the sweeper is not.
Symmetry == Permutations(Identity) \cup Permutations(Bid) \cup Permutations(Handler)
=============================================================================
