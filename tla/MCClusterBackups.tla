------------------------- MODULE MCClusterBackups -------------------------
(***************************************************************************)
(* One cluster with two backups, one of them there at first.               *)
(***************************************************************************)
EXTENDS ClusterBackups, TLC

Symmetry == Permutations(Requests)
===========================================================================
