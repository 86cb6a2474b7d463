---------------------------- MODULE MCAccounts ----------------------------
(***************************************************************************)
(* The administrator and one more user, two passwords, two commands and a  *)
(* server that follows the Secret.                                         *)
(***************************************************************************)
EXTENDS Accounts
===========================================================================
