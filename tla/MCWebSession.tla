---------------------------- MODULE MCWebSession ----------------------------
(***************************************************************************)
(* One tab with two requests at a time, three sign-ins and two events,     *)
(* or two tabs, two sign-ins and one event; two users who are allowed      *)
(* different things.                                                       *)
(***************************************************************************)
EXTENDS WebSession, TLC

CONSTANTS t1, t2, c1, c2, ua, ub, view, edit

MCSlots == (t1 :> {c1, c2}) @@ (t2 :> {c1})
MCPast == ({t1} :> [events |-> 1, logins |-> 0])
          @@ ({t1, t2} :> [events |-> 2, logins |-> 1])
MCFirstGrants == {(ua :> {view}) @@ (ub :> {edit})}
=============================================================================
