---------------------------- MODULE TokenStore ----------------------------
(***************************************************************************)
(* The JWT blocklist of the Everest API server: pkg/session/token_store.go,*)
(* pkg/session/blocklist.go and the DELETE /session handler that drives    *)
(* it.  Several server replicas share one Kubernetes Secret.  Each replica *)
(* reads the Secret through its own controller-runtime cache and writes it *)
(* with an optimistic (resourceVersion) update that Block retries.         *)
(*                                                                         *)
(* A shortened token "<jti><exp>" is a member of Tokens with the expiry    *)
(* Exp[t]; the comma-separated list is a set of tokens (a token that a     *)
(* retried write appends twice is one element: Exists asks only whether    *)
(* the list contains it).                                                  *)
(***************************************************************************)
EXTENDS Integers, Sequences, FiniteSets

CONSTANTS
    Servers,     \* the replicas of the API server
    Tokens,      \* the JWT tokens clients hold
    Requests,    \* slots for concurrent DELETE /session requests
    Unnamed,     \* tokens without a jti/uti or exp claim: shortenToken fails
    Exp,         \* expiry of each token
    Skew,        \* how far a replica's clock runs ahead of the slowest one
    MaxSkew,     \* bound on Skew
    MaxRetries,  \* maxRetries of blocklist.go
    MaxTime,     \* bound on the clock
    MaxVersions  \* bound on the writes to the Secret

ASSUME TokenStoreAssumption ==
    /\ Unnamed \subseteq Tokens
    /\ MaxSkew \in Nat
    /\ MaxRetries \in Nat
    /\ MaxTime \in Nat
    /\ MaxVersions \in Nat
    /\ Exp \in [Tokens -> Nat]
    /\ Skew \in [Servers -> 0..MaxSkew]

VARIABLES
    versions,  \* every value the Secret has had; its index is the resourceVersion
    cached,    \* cached[s]: the resourceVersion in the cache of s, 0 when absent
    phase,     \* phase[s]: where s is in NewBlocklist
    req,       \* req[r]: the Block call of a request
    revoked,   \* revoked[s]: tokens whose logout s answered with 204
    clock      \* time of the slowest replica

vars == <<versions, cached, phase, req, revoked, clock>>

ServerPhase == {"down", "init", "create", "up"}

Idle == [step |-> "idle"]

Request == [step : {"get", "update"}, srv : Servers, tok : Tokens,
            tries : 0..MaxRetries, base : Nat, list : SUBSET Tokens]

TypeOK ==
    /\ versions \in Seq(SUBSET Tokens)
    /\ cached \in [Servers -> Nat]
    /\ phase \in [Servers -> ServerPhase]
    /\ req \in [Requests -> Request \cup {Idle}]
    /\ revoked \in [Servers -> SUBSET Tokens]
    /\ clock \in Nat

---------------------------------------------------------------------------

Now(s) == clock + Skew[s]

\* Not yet expired on the clock of any replica.
Live(t) == Exp[t] > clock + MaxSkew

\* The list in version i of the Secret; an absent Secret lists nothing.
ListAt(i) == IF i \in 1..Len(versions) THEN versions[i] ELSE {}

CurrentList == ListAt(Len(versions))

\* Exists: what the cached Secret of s lists.
CachedList(s) == ListAt(cached[s])

\* Mutant of CleanupOld: drops a token one unit before it expires.
CleanupEarly(list, now) == {t \in list : Exp[t] > now + 1}

\* cleanupOld: only the tokens whose natural expiration is not over are kept.
CleanupOld(list, now) == {t \in list : Exp[t] > now}

\* Mutant of AddDataToSecret: the list is replaced instead of extended.
ReplaceData(list, t, now) == {t}

\* addDataToSecret
AddDataToSecret(list, t, now) == CleanupOld(list, now) \cup {t}

\* The JWT middleware's exp check, then the blocklist middleware: an error of
\* shortenToken or of GetSecret is answered with 500, a listed token with 401.
Accepts(s, t) ==
    /\ phase[s] = "up"
    /\ Exp[t] > Now(s)
    /\ t \notin Unnamed
    /\ cached[s] > 0
    /\ t \notin CachedList(s)

Active(r) == req[r] # Idle

\* Room for one more version besides the one each active request may write.
Budget ==
    Len(versions) + Cardinality({r \in Requests : Active(r)}) < MaxVersions

---------------------------------------------------------------------------
\* Startup of a replica: NewBlocklist, newTokenStore and init.

\* The cache is created and lists the Secret.
StartCache(s) ==
    /\ phase[s] = "down"
    /\ phase' = [phase EXCEPT ![s] = "init"]
    /\ cached' = [cached EXCEPT ![s] = Len(versions)]
    /\ UNCHANGED <<versions, req, revoked, clock>>

\* init reads the Secret: found, not found, or any other error (the cache is
\* started in the background and may not be running yet), which ends startup.
InitStore(s) ==
    /\ phase[s] = "init"
    /\ \/ cached[s] > 0 /\ phase' = [phase EXCEPT ![s] = "up"]
       \/ cached[s] = 0 /\ phase' = [phase EXCEPT ![s] = "create"]
       \/ phase' = [phase EXCEPT ![s] = "down"]
    /\ UNCHANGED <<versions, cached, req, revoked, clock>>

\* Mutant of CreateSecret: create-or-replace, resetting an existing Secret.
CreateOrReset(s) ==
    /\ phase[s] = "create"
    /\ Len(versions) < MaxVersions
    /\ versions' = Append(versions, {})
    /\ phase' = [phase EXCEPT ![s] = "up"]
    /\ UNCHANGED <<cached, req, revoked, clock>>

CreateSecret(s) ==
    /\ phase[s] = "create"
    /\ versions = << >>
    /\ versions' = << {} >>
    /\ phase' = [phase EXCEPT ![s] = "up"]
    /\ UNCHANGED <<cached, req, revoked, clock>>

\* AlreadyExists (another replica created it) or any other API error.
CreateSecretFails(s) ==
    /\ phase[s] = "create"
    /\ phase' = [phase EXCEPT ![s] = "down"]
    /\ UNCHANGED <<versions, cached, req, revoked, clock>>

\* A process stops; its requests are dropped without an answer.
Crash(s) ==
    /\ phase[s] # "down"
    /\ phase' = [phase EXCEPT ![s] = "down"]
    /\ req' = [r \in Requests |->
                 IF Active(r) /\ req[r].srv = s THEN Idle ELSE req[r]]
    /\ UNCHANGED <<versions, cached, revoked, clock>>

\* Mutant of CacheSync: the cache is filled at startup and never refreshed.
SyncAtStartOnly(s) ==
    /\ phase[s] = "init"
    /\ \E i \in (cached[s] + 1)..Len(versions) :
         cached' = [cached EXCEPT ![s] = i]
    /\ UNCHANGED <<versions, phase, req, revoked, clock>>

\* The watch of the cache delivers one or more later versions.
CacheSync(s) ==
    /\ phase[s] # "down"
    /\ \E i \in (cached[s] + 1)..Len(versions) :
         cached' = [cached EXCEPT ![s] = i]
    /\ UNCHANGED <<versions, phase, req, revoked, clock>>

---------------------------------------------------------------------------
\* DELETE /session: DeleteSession calls Block, which calls Add until it
\* succeeds or the retries are used up.

\* The n-th call of Add for token t on replica s, before it reads the Secret.
Attempt(s, t, n) == [step |-> "get", srv |-> s, tok |-> t,
                     tries |-> n, base |-> 0, list |-> {}]

DeleteSession(r, s, t) ==
    /\ ~Active(r)
    /\ Budget
    /\ Accepts(s, t)
    /\ req' = [req EXCEPT ![r] = Attempt(s, t, 0)]
    /\ UNCHANGED <<versions, cached, phase, revoked, clock>>

\* Add reads the cached Secret and computes the new list.
AddGet(r) ==
    /\ Active(r) /\ req[r].step = "get"
    /\ cached[req[r].srv] > 0
    /\ LET q == req[r]
           new == AddDataToSecret(CachedList(q.srv), q.tok, Now(q.srv))
       IN  req' = [req EXCEPT ![r] =
                     [step |-> "update", srv |-> q.srv, tok |-> q.tok,
                      tries |-> q.tries, base |-> cached[q.srv], list |-> new]]
    /\ UNCHANGED <<versions, cached, phase, revoked, clock>>

\* Mutant of UpdateSecret: the last writer wins.
UpdateAnyVersion(r) ==
    /\ Active(r) /\ req[r].step = "update"
    /\ versions' = Append(versions, req[r].list)

\* UpdateSecret succeeds only on the resourceVersion it read.
UpdateSecret(r) ==
    /\ Active(r) /\ req[r].step = "update"
    /\ req[r].base = Len(versions)
    /\ versions' = Append(versions, req[r].list)

\* The update is acknowledged and the handler answers 204.
AddUpdate(r) ==
    /\ UpdateSecret(r)
    /\ req' = [req EXCEPT ![r] = Idle]
    /\ revoked' = [revoked EXCEPT ![req[r].srv] = @ \cup {req[r].tok}]
    /\ UNCHANGED <<cached, phase, clock>>

\* Mutant of RetryOrFail: the retries are not counted.
RetryForever(r) ==
    req' = [req EXCEPT ![r] = Attempt(req[r].srv, req[r].tok, 0)]

\* backoff.Retry after a failed attempt; the last one is answered with 500.
RetryOrFail(r) ==
    req' = [req EXCEPT ![r] =
              IF req[r].tries < MaxRetries
              THEN Attempt(req[r].srv, req[r].tok, req[r].tries + 1)
              ELSE Idle]

\* The update is applied but its answer is lost.
AddLost(r) ==
    /\ Budget
    /\ UpdateSecret(r)
    /\ RetryOrFail(r)
    /\ UNCHANGED <<cached, phase, revoked, clock>>

\* A conflict on the resourceVersion, or any other error without effect.
AddFails(r) ==
    /\ Active(r)
    /\ RetryOrFail(r)
    /\ UNCHANGED <<versions, cached, phase, revoked, clock>>

\* The client goes away: the request context ends the retries.
Cancel(r) ==
    /\ Active(r)
    /\ req' = [req EXCEPT ![r] = Idle]
    /\ UNCHANGED <<versions, cached, phase, revoked, clock>>

Tick ==
    /\ clock < MaxTime
    /\ clock' = clock + 1
    /\ UNCHANGED <<versions, cached, phase, req, revoked>>

---------------------------------------------------------------------------

Init ==
    /\ versions = << >>
    /\ cached = [s \in Servers |-> 0]
    /\ phase = [s \in Servers |-> "down"]
    /\ req = [r \in Requests |-> Idle]
    /\ revoked = [s \in Servers |-> {}]
    /\ clock = 0

Progress(r) == AddGet(r) \/ AddUpdate(r) \/ AddLost(r) \/ AddFails(r)

Next ==
    \/ \E s \in Servers :
         \/ StartCache(s) \/ InitStore(s) \/ CreateSecret(s)
         \/ CreateSecretFails(s) \/ Crash(s) \/ CacheSync(s)
    \/ \E r \in Requests :
         \/ \E s \in Servers, t \in Tokens : DeleteSession(r, s, t)
         \/ AddGet(r) \/ AddUpdate(r) \/ AddLost(r) \/ AddFails(r) \/ Cancel(r)
    \/ Tick

\* The watch of a running cache keeps delivering, and backoff.Retry keeps going.
Fairness ==
    /\ \A s \in Servers : WF_vars(CacheSync(s))
    /\ \A r \in Requests : WF_vars(Progress(r))

Spec == Init /\ [][Next]_vars /\ Fairness

---------------------------------------------------------------------------
\* Properties.

\* A token leaves the list only by expiring: no update, retry, lost answer,
\* stale cache or racing startup drops a token that some replica would still
\* take for unexpired (Add, cleanupOld, init).
EntriesOnlyExpire ==
    \A i, j \in 1..Len(versions) : \A t \in Tokens :
        i < j /\ t \in versions[i] /\ t \notin versions[j] => ~Live(t)

\* A logout answered with 204 is durable: until the token expires the Secret
\* lists it, whatever the other replicas write or restart (DeleteSession).
RevokedStaysListed ==
    \A s \in Servers : \A t \in revoked[s] : Live(t) => t \in CurrentList

\* Once a replica has enforced a logout it never accepts the token again,
\* not even after a crash and a restart (IsBlocked reading the cache).
BlockedStaysBlocked ==
    [][\A s \in Servers : \A t \in CachedList(s) :
          Live(t)' => ~Accepts(s, t)']_vars

\* A logout answered with 204 by one replica is finally, and from then on
\* always, enforced by every replica (HA mode of the cached client).
LogoutReachesEveryReplica ==
    \A s, u \in Servers : \A t \in Tokens :
        t \in revoked[s] ~> [](Accepts(u, t) => ~Live(t))

\* backoff.Retry ends: every logout request is answered or dropped.
LogoutEnds == \A r \in Requests : Active(r) ~> ~Active(r)

\* The abstract promise: see Revocation.
Abstract == INSTANCE Revocation WITH
    ever <- {t \in Tokens : \E i \in 1..Len(versions) : t \in versions[i]},
    stored <- CurrentList,
    enforced <- [s \in Servers |-> CachedList(s)]

\* The replicas, the caches and the retried updates implement the abstract
\* revocation register (Block and IsBlocked of the Blocklist interface).
ImplementsRevocation == Abstract!Spec
===========================================================================
