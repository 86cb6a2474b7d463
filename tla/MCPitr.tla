------------------------------- MODULE MCPitr -------------------------------
(***************************************************************************)
(* Upload intervals of one second, ten for MongoDB's two; see MCPitr*.cfg. *)
(***************************************************************************)
EXTENDS Pitr

MCDefault == [e \in EngineTypes |-> IF e = "psmdb" THEN 2 ELSE 1]
=============================================================================
