------------------------ MODULE MCStorageRequestPool ------------------------
(* Small instances of StorageRequestPool.                                   *)
EXTENDS StorageRequestPool, TLC

Symmetry == Permutations(Clients) \cup Permutations(Services)
==============================================================================
