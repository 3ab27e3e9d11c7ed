---------------------------- MODULE MCSyncEngine ----------------------------
(* Instances of SyncEngine for TLC: devices and contents are interchangeable. *)
EXTENDS SyncEngine, TLC

Symmetry == Permutations(Device) \cup Permutations(Content)
=============================================================================
