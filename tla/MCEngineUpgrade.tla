-------------------------- MODULE MCEngineUpgrade --------------------------
(***************************************************************************)
(* Two engines that share an install plan; see MCEngineUpgrade.cfg and     *)
(* MCUpgradeConflict.cfg.                                                  *)
(***************************************************************************)
EXTENDS EngineUpgrade, TLC

CONSTANTS e1, e2, p1, p2, d1, d2

OnePlan == (e1 :> p1) @@ (e2 :> p1)
MCEngineOf == [d \in Dbs |-> IF d = d1 THEN e1 ELSE e2]
===========================================================================
