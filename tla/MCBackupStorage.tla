-------------------------- MODULE MCBackupStorage --------------------------
(***************************************************************************)
(* Two storages over two buckets. The first key opens both of them, the    *)
(* second none.                                                            *)
(***************************************************************************)
EXTENDS BackupStorage, TLC

CONSTANTS b1, b2, u1, k1, k2

MCGranted == {g \in Complete : g.ak = k1 /\ g.sk = k1}

Edit(b, a, s) == [bucket |-> b, url |-> Keep, ak |-> a, sk |-> s]

\* Another bucket; one of the keys given anew; both keys.
MCEdits == {Edit(b2, Keep, Keep), Edit(Keep, k1, Keep), Edit(Keep, k2, k2)}

Symmetry == Permutations(Requests) \cup Permutations(Names)
===========================================================================
