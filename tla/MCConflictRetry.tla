--------------------------- MODULE MCConflictRetry ---------------------------
(* A page and the writers elsewhere, on an object of two settings. *)
EXTENDS ConflictRetry, TLC

CONSTANTS e1, backups, exposure

MCEditors == {e1}
MCSettings == {backups, exposure}
MCValues == {"a", "b"}
=============================================================================
