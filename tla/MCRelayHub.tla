----------------------------- MODULE MCRelayHub -----------------------------
(* RelayHub on small sets of model values. *)
EXTENDS RelayHub, TLC

Symmetry == Permutations(Conn) \cup Permutations(Identity)

\* One connection may authenticate again.
ReauthOne == Cardinality({c \in Conn : auths[c] > 1}) <= 1
=============================================================================
