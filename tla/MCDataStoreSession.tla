-------------------------- MODULE MCDataStoreSession --------------------------
(* DataStoreSession on small instances. *)
EXTENDS DataStoreSession, TLC

SessionSymmetry == Permutations(Sessions) \cup Permutations(Slots)
=============================================================================
