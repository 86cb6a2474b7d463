---------------------------- MODULE Revocation ----------------------------
(***************************************************************************)
(* What the Blocklist interface (pkg/session/blocklist.go) promises,       *)
(* without the Secret, the caches or the retries.  A revoked token stays   *)
(* stored until it expires; each replica enforces some of what has been    *)
(* stored, and never gives up an unexpired token it has once enforced.     *)
(***************************************************************************)
EXTENDS Integers

CONSTANTS Servers, Tokens, Exp, MaxSkew

VARIABLES
    ever,      \* tokens that have been revoked at some time
    stored,    \* tokens the register holds
    enforced,  \* enforced[s]: tokens that replica s refuses
    clock

vars == <<ever, stored, enforced, clock>>

Unexpired(set) == {t \in set : Exp[t] > clock + MaxSkew}

Init ==
    /\ ever = {}
    /\ stored = {}
    /\ enforced = [s \in Servers |-> {}]
    /\ clock = 0

\* Block: t is added, and expired tokens may be forgotten.
Revoke(t) ==
    /\ ever' = ever \cup {t}
    /\ \E kept \in SUBSET stored :
         /\ Unexpired(stored) \subseteq kept
         /\ stored' = kept \cup {t}
    /\ UNCHANGED <<enforced, clock>>

\* A replica learns of revocations, of all of them or of some.
Observe(s) ==
    /\ \E set \in SUBSET ever :
         /\ Unexpired(enforced[s]) \subseteq set
         /\ enforced' = [enforced EXCEPT ![s] = set]
    /\ UNCHANGED <<ever, stored, clock>>

Tick ==
    /\ clock' = clock + 1
    /\ UNCHANGED <<ever, stored, enforced>>

Next ==
    \/ \E t \in Tokens : Revoke(t)
    \/ \E s \in Servers : Observe(s)
    \/ Tick

Spec == Init /\ [][Next]_vars
===========================================================================
