--------------------------- MODULE MCTokenStore ---------------------------
(***************************************************************************)
(* Two replicas whose clocks are one apart, three tokens (one without an   *)
(* identifier, one that expires after the end of time), two logouts.       *)
(***************************************************************************)
EXTENDS TokenStore, TLC

CONSTANTS s1, s2, ta, tb, tu

MCExp == (ta :> 2) @@ (tb :> 4) @@ (tu :> 2)
MCSkew == (s1 :> 0) @@ (s2 :> 1)
===========================================================================
