--------------------------- MODULE IdentityProofs ---------------------------
(***************************************************************************)
(* Who may use the server. First the blocklist of revoked tokens, for any  *)
(* number of replicas, tokens, concurrent logouts, retries, crashes and any*)
(* bounded clock skew; then the passwords of the built-in accounts, for any*)
(* number of users, passwords and everestctl commands at the same time.    *)
(***************************************************************************)
EXTENDS TokenStore, Accounts, TLAPS

---------------------------------------------------------------------------
(* The blocklist. *)

\* A cache never runs ahead of the Secret.
CacheBehind == \A s \in Servers : cached[s] <= Len(versions)

\* A prepared update holds its own token, every unexpired token of the
\* version it was computed from, and nothing else.
PendingKeeps ==
    \A r \in Requests :
        Active(r) /\ req[r].step = "update" =>
            /\ req[r].base \in 1..Len(versions)
            /\ req[r].tok \in req[r].list
            /\ req[r].list \subseteq versions[req[r].base] \cup {req[r].tok}
            /\ \A t \in Tokens :
                 t \in versions[req[r].base] /\ t \notin req[r].list => ~Live(t)

\* The inductive invariant.
IndInv ==
    /\ TypeOK
    /\ CacheBehind
    /\ PendingKeeps
    /\ EntriesOnlyExpire
    /\ RevokedStaysListed

---------------------------------------------------------------------------

USE TokenStoreAssumption

\* Expiry is permanent: no step turns an expired token back into a live one.
LEMMA ExpiryIsFinal ==
    ASSUME TypeOK, clock' \in Nat, clock' >= clock,
           NEW t \in Tokens, Live(t)'
    PROVE  Live(t)
BY DEF TypeOK, Live

(* Time does not run backwards.                                             *)
LEMMA ClockMonotone ==
    ASSUME TypeOK, [Next]_vars
    PROVE  clock' \in Nat /\ clock' >= clock
<1>1. CASE Tick
  BY <1>1 DEF TypeOK, Tick
<1>2. CASE clock' = clock
  BY <1>2 DEF TypeOK
<1> QED
  BY <1>1, <1>2, Zenon DEF Next, vars, StartCache, InitStore, CreateSecret,
     CreateSecretFails, Crash, CacheSync, DeleteSession, AddGet, AddUpdate,
     AddLost, AddFails, Cancel

\* What a failed attempt leaves of a request.
LEMMA RetryType ==
    ASSUME TypeOK, NEW r \in Requests, Active(r), RetryOrFail(r)
    PROVE  /\ req' \in [Requests -> Request \cup {Idle}]
           /\ \A q \in Requests : q # r => req'[q] = req[q]
           /\ req'[r] = Idle \/ req'[r].step = "get"
<1>1. req[r] \in Request
  BY DEF TypeOK, Active
<1>2. CASE req[r].tries < MaxRetries
  <2>1. Attempt(req[r].srv, req[r].tok, req[r].tries + 1) \in Request
    BY <1>1, <1>2 DEF Request, Attempt
  <2> QED
    BY <1>2, <2>1 DEF TypeOK, RetryOrFail, Attempt
<1>3. CASE ~(req[r].tries < MaxRetries)
  BY <1>1, <1>3 DEF TypeOK, RetryOrFail, Request
<1> QED
  BY <1>2, <1>3

(* Before the first replica starts there is no list to lose.                *)
LEMMA InitInv == Init => IndInv
BY DEF Init, IndInv, TypeOK, ServerPhase, CacheBehind, PendingKeeps, Active,
       EntriesOnlyExpire, RevokedStaysListed

\* A step that leaves the Secret alone.
LEMMA QuietStep ==
    ASSUME IndInv, TypeOK', CacheBehind', versions' = versions,
           clock' \in Nat, clock' >= clock,
           revoked' = revoked
    PROVE  EntriesOnlyExpire' /\ RevokedStaysListed'
<1> USE DEF IndInv
<1>1. EntriesOnlyExpire'
  BY ExpiryIsFinal DEF EntriesOnlyExpire
<1>2. RevokedStaysListed'
  BY ExpiryIsFinal DEF RevokedStaysListed, CurrentList, ListAt, TypeOK
<1> QED
  BY <1>1, <1>2

\* A step that writes the Secret through the prepared update of request r.
LEMMA WriteStep ==
    ASSUME IndInv, NEW r \in Requests, UpdateSecret(r), clock' = clock
    PROVE  /\ Len(versions') = Len(versions) + 1
           /\ versions' \in Seq(SUBSET Tokens)
           /\ \A i \in 1..Len(versions) : versions'[i] = versions[i]
           /\ versions'[Len(versions)+1] = req[r].list
           /\ req[r] \in Request
           /\ EntriesOnlyExpire'
           /\ \A t \in Tokens : t \in CurrentList /\ Live(t) => t \in CurrentList'
           /\ req[r].tok \in CurrentList'
<1> USE DEF IndInv
<1>1. req[r] \in Request /\ req[r].list \in SUBSET Tokens
  BY DEF TypeOK, UpdateSecret, Active, Request
<1>2. /\ versions \in Seq(SUBSET Tokens)
      /\ Len(versions) \in Nat
      /\ req[r].base = Len(versions)
      /\ versions' = Append(versions, req[r].list)
  BY DEF TypeOK, UpdateSecret
<1>3. /\ Len(versions') = Len(versions) + 1
      /\ versions' \in Seq(SUBSET Tokens)
      /\ \A i \in 1..Len(versions) : versions'[i] = versions[i]
      /\ versions'[Len(versions)+1] = req[r].list
  BY <1>1, <1>2
<1>4. /\ Len(versions) \in 1..Len(versions)
      /\ req[r].tok \in req[r].list
      /\ \A t \in Tokens : t \in versions[Len(versions)] /\ t \notin req[r].list => ~Live(t)
  BY <1>2 DEF PendingKeeps, UpdateSecret
<1>5. EntriesOnlyExpire'
  <2> SUFFICES ASSUME NEW i \in 1..(Len(versions)+1), NEW j \in 1..(Len(versions)+1),
                      NEW t \in Tokens, i < j, t \in versions'[i], t \notin versions'[j]
               PROVE  ~Live(t)'
    BY <1>3 DEF EntriesOnlyExpire
  <2>1. Live(t)' <=> Live(t)
    BY DEF Live
  <2>2. i \in 1..Len(versions) /\ t \in versions[i]
    BY <1>2, <1>3
  <2>3. CASE j \in 1..Len(versions)
    BY <1>3, <2>1, <2>2, <2>3 DEF EntriesOnlyExpire
  <2>4. CASE j = Len(versions) + 1
    BY <1>2, <1>3, <1>4, <2>1, <2>2, <2>4 DEF EntriesOnlyExpire
  <2> QED
    BY <1>2, <2>3, <2>4
<1>6. CurrentList = versions[Len(versions)] /\ CurrentList' = req[r].list
  BY <1>2, <1>3, <1>4 DEF CurrentList, ListAt
<1> QED
  BY <1>1, <1>3, <1>4, <1>5, <1>6

\* Prepared updates that a write leaves alone still keep their base version.
LEMMA PendingAfterWrite ==
    ASSUME IndInv, NEW r \in Requests, UpdateSecret(r), clock' = clock,
           \A q \in Requests : q # r => req'[q] = req[q],
           req'[r] = Idle \/ req'[r].step # "update"
    PROVE  PendingKeeps'
<1> USE DEF IndInv
<1> SUFFICES ASSUME NEW q \in Requests, Active(q)', req'[q].step = "update"
             PROVE  /\ req'[q].base \in 1..Len(versions')
                    /\ req'[q].tok \in req'[q].list
                    /\ req'[q].list \subseteq versions'[req'[q].base] \cup {req'[q].tok}
                    /\ \A t \in Tokens : t \in versions'[req'[q].base]
                                         /\ t \notin req'[q].list => ~Live(t)'
  BY DEF PendingKeeps
<1>1. q # r /\ req'[q] = req[q] /\ Active(q)
  BY DEF Active
<1>2. \A t : Live(t)' <=> Live(t)
  BY DEF Live
<1>3. Len(versions) \in Nat
  BY DEF TypeOK
<1> QED
  BY <1>1, <1>2, <1>3, WriteStep DEF PendingKeeps

\* Prepared updates survive any step that touches neither them nor the Secret.
LEMMA PendingAfterQuiet ==
    ASSUME IndInv, versions' = versions, clock' \in Nat, clock' >= clock,
           \A q \in Requests : \/ req'[q] = req[q]
                               \/ req'[q] = Idle
                               \/ req'[q].step # "update"
    PROVE  PendingKeeps'
<1> USE DEF IndInv
<1> SUFFICES ASSUME NEW q \in Requests, Active(q)', req'[q].step = "update"
             PROVE  /\ req'[q].base \in 1..Len(versions')
                    /\ req'[q].tok \in req'[q].list
                    /\ req'[q].list \subseteq versions'[req'[q].base] \cup {req'[q].tok}
                    /\ \A t \in Tokens : t \in versions'[req'[q].base]
                                         /\ t \notin req'[q].list => ~Live(t)'
  BY DEF PendingKeeps
<1>1. req'[q] = req[q] /\ Active(q)
  BY DEF Active
<1> QED
  BY <1>1, ExpiryIsFinal DEF PendingKeeps

---------------------------------------------------------------------------
\* One step of the proof per action.

(* Every step keeps the invariant.                                          *)
LEMMA StepInv ==
    ASSUME IndInv, [Next]_vars
    PROVE  IndInv'
<1> USE DEF IndInv
<1>t. clock' \in Nat /\ clock' >= clock
  BY ClockMonotone
<1>l. Len(versions) \in Nat
  BY DEF TypeOK
<1>1. ASSUME NEW s \in Servers, StartCache(s) PROVE IndInv'
  <2>1. TypeOK' /\ CacheBehind'
    BY <1>1, <1>l DEF StartCache, TypeOK, ServerPhase, CacheBehind
  <2>2. PendingKeeps'
    BY <1>1, <1>t, PendingAfterQuiet DEF StartCache
  <2> QED
    BY <1>1, <1>t, <2>1, <2>2, QuietStep DEF StartCache
<1>2. ASSUME NEW s \in Servers, InitStore(s) PROVE IndInv'
  <2>1. TypeOK' /\ CacheBehind'
    BY <1>2 DEF InitStore, TypeOK, ServerPhase, CacheBehind
  <2>2. PendingKeeps'
    BY <1>2, <1>t, PendingAfterQuiet DEF InitStore
  <2> QED
    BY <1>2, <1>t, <2>1, <2>2, QuietStep DEF InitStore
<1>3. ASSUME NEW s \in Servers, CreateSecret(s) PROVE IndInv'
  <2>1. Len(versions) = 0 /\ Len(versions') = 1 /\ versions' \in Seq(SUBSET Tokens)
    BY <1>3 DEF CreateSecret
  <2>2. TypeOK' /\ CacheBehind'
    BY <1>3, <2>1 DEF CreateSecret, TypeOK, ServerPhase, CacheBehind
  <2>3. PendingKeeps'
    BY <1>3, <2>1 DEF CreateSecret, PendingKeeps, Active
  <2>4. EntriesOnlyExpire'
    BY <2>1 DEF EntriesOnlyExpire
  <2>5. RevokedStaysListed'
    <3>1. \A t \in Tokens : Live(t)' <=> Live(t)
      BY <1>3 DEF CreateSecret, Live
    <3>2. CurrentList = {}
      BY <2>1 DEF CurrentList, ListAt
    <3> QED
      BY <1>3, <3>1, <3>2 DEF CreateSecret, RevokedStaysListed, TypeOK
  <2> QED
    BY <2>2, <2>3, <2>4, <2>5
<1>4. ASSUME NEW s \in Servers, CreateSecretFails(s) PROVE IndInv'
  <2>1. TypeOK' /\ CacheBehind'
    BY <1>4 DEF CreateSecretFails, TypeOK, ServerPhase, CacheBehind
  <2>2. PendingKeeps'
    BY <1>4, <1>t, PendingAfterQuiet DEF CreateSecretFails
  <2> QED
    BY <1>4, <1>t, <2>1, <2>2, QuietStep DEF CreateSecretFails
<1>5. ASSUME NEW s \in Servers, Crash(s) PROVE IndInv'
  <2>1. TypeOK' /\ CacheBehind'
    BY <1>5 DEF Crash, TypeOK, ServerPhase, CacheBehind
  <2>2. PendingKeeps'
    BY <1>5, <1>t, PendingAfterQuiet DEF Crash
  <2> QED
    BY <1>5, <1>t, <2>1, <2>2, QuietStep DEF Crash
<1>6. ASSUME NEW s \in Servers, CacheSync(s) PROVE IndInv'
  <2>1. TypeOK' /\ CacheBehind'
    BY <1>6, <1>l DEF CacheSync, TypeOK, CacheBehind
  <2>2. PendingKeeps'
    BY <1>6, <1>t, PendingAfterQuiet DEF CacheSync
  <2> QED
    BY <1>6, <1>t, <2>1, <2>2, QuietStep DEF CacheSync
<1>7. ASSUME NEW r \in Requests, NEW s \in Servers, NEW t \in Tokens,
             DeleteSession(r, s, t)
      PROVE IndInv'
  <2>0. Attempt(s, t, 0) \in Request
    BY DEF Attempt, Request
  <2>1. TypeOK' /\ CacheBehind'
    BY <1>7, <2>0 DEF DeleteSession, TypeOK, CacheBehind
  <2>2. \A q \in Requests : req'[q] = req[q] \/ req'[q].step # "update"
    BY <1>7 DEF DeleteSession, TypeOK, Attempt
  <2>3. PendingKeeps'
    BY <1>7, <1>t, <2>2, PendingAfterQuiet DEF DeleteSession
  <2> QED
    BY <1>7, <1>t, <2>1, <2>3, QuietStep DEF DeleteSession
<1>8. ASSUME NEW r \in Requests, AddGet(r) PROVE IndInv'
  <2> DEFINE q == req[r]
             new == AddDataToSecret(CachedList(q.srv), q.tok, Now(q.srv))
             upd == [step |-> "update", srv |-> q.srv, tok |-> q.tok,
                     tries |-> q.tries, base |-> cached[q.srv], list |-> new]
  <2>0. q \in Request /\ q.srv \in Servers /\ q.tok \in Tokens
    BY <1>8 DEF AddGet, TypeOK, Active, Request
  <2>1. cached[q.srv] \in 1..Len(versions)
    BY <1>8, <1>l, <2>0 DEF AddGet, CacheBehind, TypeOK
  <2>2. CachedList(q.srv) = versions[cached[q.srv]] /\ CachedList(q.srv) \subseteq Tokens
    BY <2>1 DEF CachedList, ListAt, TypeOK
  <2>3. /\ new \subseteq Tokens
        /\ q.tok \in new
        /\ new \subseteq versions[cached[q.srv]] \cup {q.tok}
        /\ \A t \in Tokens : t \in versions[cached[q.srv]] /\ t \notin new => ~Live(t)
    <3>1. ASSUME NEW t \in Tokens, t \in versions[cached[q.srv]], t \notin new
          PROVE ~Live(t)
      <4>1. ~(Exp[t] > Now(q.srv))
        BY <2>2, <3>1 DEF AddDataToSecret, CleanupOld
      <4> QED
        BY <2>0, <4>1 DEF Now, Live, TypeOK
    <3>2. /\ new \subseteq Tokens /\ q.tok \in new
          /\ new \subseteq versions[cached[q.srv]] \cup {q.tok}
      BY <2>0, <2>2 DEF AddDataToSecret, CleanupOld
    <3> QED
      BY <3>1, <3>2
  <2>4. upd \in Request
    BY <2>0, <2>1, <2>3 DEF Request, TypeOK
  <2>5. req' = [req EXCEPT ![r] = upd] /\ UNCHANGED <<versions, cached, phase, revoked, clock>>
    BY <1>8 DEF AddGet
  <2>6. TypeOK' /\ CacheBehind'
    BY <2>4, <2>5 DEF TypeOK, CacheBehind
  <2>7. PendingKeeps'
    <3> SUFFICES ASSUME NEW p \in Requests, Active(p)', req'[p].step = "update"
                 PROVE  /\ req'[p].base \in 1..Len(versions)
                        /\ req'[p].tok \in req'[p].list
                        /\ req'[p].list \subseteq versions[req'[p].base] \cup {req'[p].tok}
                        /\ \A t \in Tokens : t \in versions[req'[p].base]
                                             /\ t \notin req'[p].list => ~Live(t)
      BY <2>5 DEF PendingKeeps, Live
    <3>1. CASE p = r
      <4>1. req'[p] = upd
        BY <2>5, <3>1 DEF TypeOK
      <4> QED
        BY <2>1, <2>3, <4>1
    <3>2. CASE p # r
      BY <2>5, <3>2 DEF PendingKeeps, Active, TypeOK
    <3> QED
      BY <3>1, <3>2
  <2> QED
    BY <1>t, <2>5, <2>6, <2>7, QuietStep
<1>9. ASSUME NEW r \in Requests, AddUpdate(r) PROVE IndInv'
  <2>0. UpdateSecret(r) /\ clock' = clock
    BY <1>9 DEF AddUpdate
  <2>1. req[r].srv \in Servers /\ req[r].tok \in Tokens
    BY <2>0, WriteStep DEF Request
  <2>2. TypeOK' /\ CacheBehind'
    BY <1>9, <1>l, <2>0, <2>1, WriteStep DEF AddUpdate, TypeOK, CacheBehind
  <2>3. PendingKeeps'
    BY <1>9, <2>0, PendingAfterWrite DEF AddUpdate, TypeOK
  <2>4. RevokedStaysListed'
    <3>1. \A t \in Tokens : Live(t)' <=> Live(t)
      BY <2>0 DEF Live
    <3>2. ASSUME NEW s \in Servers, NEW t \in revoked'[s]
          PROVE t \in Tokens /\ (t \in revoked[s] \/ t = req[r].tok)
      BY <1>9, <2>1, <3>2 DEF AddUpdate, TypeOK
    <3> QED
      BY <2>0, <3>1, <3>2, WriteStep DEF RevokedStaysListed
  <2> QED
    BY <2>0, <2>2, <2>3, <2>4, WriteStep
<1>10. ASSUME NEW r \in Requests, AddLost(r) PROVE IndInv'
  <2>0. UpdateSecret(r) /\ clock' = clock /\ RetryOrFail(r) /\ Active(r)
    BY <1>10 DEF AddLost, UpdateSecret
  <2>2. TypeOK' /\ CacheBehind'
    BY <1>10, <1>l, <2>0, WriteStep, RetryType DEF AddLost, TypeOK, CacheBehind
  <2>3. PendingKeeps'
    BY <2>0, RetryType, PendingAfterWrite
  <2>4. RevokedStaysListed'
    <3>1. \A t \in Tokens : Live(t)' <=> Live(t)
      BY <2>0 DEF Live
    <3> QED
      BY <1>10, <2>0, <3>1, WriteStep DEF AddLost, RevokedStaysListed, TypeOK
  <2> QED
    BY <2>0, <2>2, <2>3, <2>4, WriteStep
<1>11. ASSUME NEW r \in Requests, AddFails(r) PROVE IndInv'
  <2>1. TypeOK' /\ CacheBehind'
    BY <1>11, RetryType DEF AddFails, TypeOK, CacheBehind
  <2>2. \A q \in Requests : \/ req'[q] = req[q]
                             \/ req'[q] = Idle
                             \/ req'[q].step # "update"
    BY <1>11, RetryType DEF AddFails
  <2>3. PendingKeeps'
    BY <1>11, <1>t, <2>2, PendingAfterQuiet DEF AddFails
  <2> QED
    BY <1>11, <1>t, <2>1, <2>3, QuietStep DEF AddFails
<1>12. ASSUME NEW r \in Requests, Cancel(r) PROVE IndInv'
  <2>1. TypeOK' /\ CacheBehind'
    BY <1>12 DEF Cancel, TypeOK, CacheBehind
  <2>2. \A q \in Requests : req'[q] = req[q] \/ req'[q] = Idle
    BY <1>12 DEF Cancel, TypeOK
  <2>3. PendingKeeps'
    BY <1>12, <1>t, <2>2, PendingAfterQuiet DEF Cancel
  <2> QED
    BY <1>12, <1>t, <2>1, <2>3, QuietStep DEF Cancel
<1>13. CASE Tick
  <2>1. TypeOK' /\ CacheBehind'
    BY <1>13, <1>t DEF Tick, TypeOK, CacheBehind
  <2>2. PendingKeeps'
    BY <1>13, <1>t, PendingAfterQuiet DEF Tick
  <2> QED
    BY <1>13, <1>t, <2>1, <2>2, QuietStep DEF Tick
<1>14. CASE UNCHANGED vars
  <2>1. TypeOK' /\ CacheBehind'
    BY <1>14 DEF vars, TypeOK, CacheBehind
  <2>2. PendingKeeps'
    BY <1>14, <1>t, PendingAfterQuiet DEF vars
  <2> QED
    BY <1>14, <1>t, <2>1, <2>2, QuietStep DEF vars
<1> QED
  BY <1>1, <1>2, <1>3, <1>4, <1>5, <1>6, <1>7, <1>8, <1>9, <1>10, <1>11,
     <1>12, <1>13, <1>14 DEF Next

\* The inductive invariant holds throughout.
THEOREM TokenStoreInvariant == Spec => []IndInv
<1>1. IndInv /\ [Next]_vars => IndInv'
  BY StepInv
<1> QED
  BY <1>1, InitInv, PTL DEF Spec

\* The state of the store, the caches and the requests is well formed.
THEOREM TokenStoreTypeCorrect == Spec => []TypeOK
BY TokenStoreInvariant, PTL DEF IndInv

\* No write of any replica drops an unexpired token from the list.
THEOREM EntriesOnlyExpireHolds == Spec => []EntriesOnlyExpire
BY TokenStoreInvariant, PTL DEF IndInv

\* A logout answered with 204 stays on record until the token expires.
THEOREM LogoutIsDurable == Spec => []RevokedStaysListed
BY TokenStoreInvariant, PTL DEF IndInv

---------------------------------------------------------------------------
\* No step moves a cache back, and the versions it holds never change.
LEMMA CacheMonotone ==
    ASSUME IndInv, IndInv', [Next]_vars
    PROVE  /\ \A s \in Servers : cached[s] <= cached'[s]
           /\ Len(versions) <= Len(versions')
           /\ \A i \in 1..Len(versions) : versions'[i] = versions[i]
<1>l. Len(versions) \in Nat /\ versions \in Seq(SUBSET Tokens) /\ cached \in [Servers -> Nat]
  BY DEF IndInv, TypeOK
<1>1. \A s \in Servers : cached[s] <= cached'[s]
  <2>1. ASSUME NEW s \in Servers, StartCache(s) PROVE \A u \in Servers : cached[u] <= cached'[u]
    BY <1>l, <2>1 DEF StartCache, IndInv, CacheBehind
  <2>2. ASSUME NEW s \in Servers, CacheSync(s) PROVE \A u \in Servers : cached[u] <= cached'[u]
    BY <1>l, <2>2 DEF CacheSync
  <2>3. CASE cached' = cached
    BY <1>l, <2>3
  <2> QED
    BY <2>1, <2>2, <2>3, Zenon DEF Next, vars, InitStore, CreateSecret,
       CreateSecretFails, Crash, DeleteSession, AddGet, AddUpdate, AddLost,
       AddFails, Cancel, Tick
<1>2. /\ Len(versions) <= Len(versions')
      /\ \A i \in 1..Len(versions) : versions'[i] = versions[i]
  <2>1. ASSUME NEW s \in Servers, CreateSecret(s)
        PROVE  /\ Len(versions) <= Len(versions')
               /\ \A i \in 1..Len(versions) : versions'[i] = versions[i]
    BY <2>1 DEF CreateSecret
  <2>2. ASSUME NEW r \in Requests, UpdateSecret(r), clock' = clock
        PROVE  /\ Len(versions) <= Len(versions')
               /\ \A i \in 1..Len(versions) : versions'[i] = versions[i]
    BY <1>l, <2>2, WriteStep
  <2>3. CASE versions' = versions
    BY <1>l, <2>3
  <2> QED
    BY <2>1, <2>2, <2>3, Zenon DEF Next, vars, StartCache, InitStore,
       CreateSecretFails, Crash, CacheSync, DeleteSession, AddGet, AddUpdate,
       AddLost, AddFails, Cancel, Tick
<1> QED
  BY <1>1, <1>2

\* What a replica's cache listed before a step it lists after it, unless the
\* token has expired.
LEMMA CachedListKeeps ==
    ASSUME IndInv, IndInv', [Next]_vars, NEW s \in Servers,
           NEW t \in CachedList(s), Live(t)'
    PROVE  t \in Tokens /\ t \in CachedList(s)'
<1>1. cached[s] \in 1..Len(versions) /\ t \in versions[cached[s]]
  BY DEF CachedList, ListAt
<1>2. /\ cached[s] \in Nat /\ cached'[s] \in Nat
      /\ cached[s] <= cached'[s] /\ cached'[s] <= Len(versions')
  BY CacheMonotone DEF IndInv, TypeOK, CacheBehind
<1>3. t \in Tokens
  BY DEF CachedList, ListAt, IndInv, TypeOK
<1>4. Len(versions') \in Nat /\ versions' \in Seq(SUBSET Tokens)
  BY DEF IndInv, TypeOK
<1>5. cached[s] \in 1..Len(versions') /\ t \in versions'[cached[s]]
  BY <1>1, <1>2, <1>4, CacheMonotone DEF IndInv, TypeOK
<1>6. cached'[s] \in 1..Len(versions') /\ t \in versions'[cached'[s]]
  <2>1. CASE cached[s] = cached'[s]
    BY <1>5, <2>1
  <2>2. CASE cached[s] < cached'[s]
    BY <1>2, <1>3, <1>4, <1>5, <2>2 DEF IndInv, EntriesOnlyExpire
  <2> QED
    BY <1>2, <2>1, <2>2
<1> QED
  BY <1>3, <1>6 DEF CachedList, ListAt

\* A replica that has refused a token as logged out never accepts it again,
\* across cache updates, crashes and restarts.
THEOREM NoResurrection == Spec => BlockedStaysBlocked
<1>1. ASSUME IndInv, IndInv', [Next]_vars
      PROVE  [\A s \in Servers : \A t \in CachedList(s) :
                 Live(t)' => ~Accepts(s, t)']_vars
  BY <1>1, CachedListKeeps DEF Accepts
<1> QED
  BY <1>1, TokenStoreInvariant, PTL DEF Spec, BlockedStaysBlocked

---------------------------------------------------------------------------
\* The refinement of Revocation.  Ever is its variable ever.

Ever == {t \in Tokens : \E i \in 1..Len(versions) : t \in versions[i]}

Enforced == [s \in Servers |-> CachedList(s)]

\* A step that leaves the Secret, the caches and the clock alone stutters.
LEMMA StutterStep ==
    ASSUME versions' = versions, cached' = cached, clock' = clock
    PROVE  UNCHANGED Abstract!vars
BY DEF Abstract!vars, CurrentList, CachedList, ListAt

\* A step in which the cache of s moves is an Observe.
LEMMA ObserveStep ==
    ASSUME IndInv, IndInv', [Next]_vars, NEW s \in Servers,
           versions' = versions, clock' = clock,
           \A u \in Servers : u # s => cached'[u] = cached[u]
    PROVE  Abstract!Observe(s)
<1>1. CachedList(s)' \in SUBSET Ever
  BY DEF CachedList, ListAt, Ever, IndInv, TypeOK
<1>2. {t \in Enforced[s] : Exp[t] > clock + MaxSkew} \subseteq CachedList(s)'
  <2> SUFFICES ASSUME NEW t \in CachedList(s), Exp[t] > clock + MaxSkew
               PROVE  t \in CachedList(s)'
    BY DEF Enforced
  <2>1. Live(t)'
    BY DEF Live
  <2> QED
    BY <2>1, CachedListKeeps
<1>3. Enforced' = [Enforced EXCEPT ![s] = CachedList(s)']
  BY DEF Enforced, CachedList, ListAt
<1>4. Ever' = Ever /\ CurrentList' = CurrentList
  BY DEF Ever, CurrentList, ListAt
<1> QED
  BY <1>1, <1>2, <1>3, <1>4 DEF Abstract!Observe, Abstract!Unexpired, Ever, Enforced

\* An applied update is a Revoke, whether or not its answer arrives.
LEMMA RevokeStep ==
    ASSUME IndInv, NEW r \in Requests, UpdateSecret(r), cached' = cached,
           clock' = clock, NEW tok \in Tokens, req[r].tok = tok
    PROVE  Abstract!Revoke(tok)
<1> DEFINE q == req[r]
           kept == {t \in CurrentList : t \in q.list}
<1>0. /\ q \in Request /\ q.tok \in Tokens /\ q.list \subseteq Tokens
      /\ Len(versions) \in Nat /\ versions \in Seq(SUBSET Tokens)
  BY WriteStep DEF Request, IndInv, TypeOK
<1>1. CurrentList' = q.list
  BY <1>0, WriteStep DEF CurrentList, ListAt
<1>2. Enforced' = Enforced
  <2>1. ASSUME NEW s \in Servers PROVE CachedList(s)' = CachedList(s)
    <3>1. cached[s] \in Nat /\ cached[s] <= Len(versions)
      BY DEF IndInv, TypeOK, CacheBehind
    <3> QED
      BY <1>0, <3>1, WriteStep DEF CachedList, ListAt
  <2> QED
    BY <2>1 DEF Enforced
<1>3. /\ Len(versions) \in 1..Len(versions) /\ CurrentList = versions[Len(versions)]
      /\ q.list \subseteq CurrentList \cup {q.tok} /\ q.tok \in q.list
      /\ \A t \in Tokens : t \in CurrentList /\ t \notin q.list => ~Live(t)
  BY <1>0 DEF UpdateSecret, IndInv, PendingKeeps, CurrentList, ListAt
<1>4. Ever' = Ever \cup {q.tok}
  <2>1. ASSUME NEW t \in Ever' PROVE t \in Ever \cup {q.tok}
    <3>1. PICK i \in 1..(Len(versions) + 1) : t \in versions'[i]
      BY <2>1, WriteStep DEF Ever
    <3>2. CASE i = Len(versions) + 1
      BY <1>0, <1>3, <2>1, <3>1, <3>2, WriteStep DEF Ever
    <3>3. CASE i \in 1..Len(versions)
      BY <1>0, <2>1, <3>1, <3>3, WriteStep DEF Ever
    <3> QED
      BY <1>0, <3>2, <3>3
  <2>2. ASSUME NEW t \in Ever PROVE t \in Ever'
    <3>1. PICK i \in 1..Len(versions) : t \in versions[i]
      BY <2>2 DEF Ever
    <3>2. i \in 1..Len(versions') /\ t \in versions'[i]
      BY <1>0, <3>1, WriteStep
    <3> QED
      BY <2>2, <3>2 DEF Ever
  <2>3. q.tok \in Ever'
    <3>1. Len(versions) + 1 \in 1..Len(versions') /\ q.tok \in versions'[Len(versions) + 1]
      BY <1>0, <1>3, WriteStep
    <3> QED
      BY <1>0, <3>1 DEF Ever
  <2> QED
    BY <2>1, <2>2, <2>3
<1>5. /\ kept \in SUBSET CurrentList
      /\ {t \in CurrentList : Exp[t] > clock + MaxSkew} \subseteq kept
      /\ CurrentList' = kept \cup {q.tok}
  <2>1. CurrentList \subseteq Tokens
    BY <1>0, <1>3
  <2> QED
    BY <1>1, <1>3, <2>1 DEF Live
<1> HIDE DEF kept
<1> QED
  BY <1>0, <1>2, <1>4, <1>5 DEF Abstract!Revoke, Abstract!Unexpired, Ever, Enforced

(* Every step of the store is one of the abstract blocklist, or a           *)
(* stutter.                                                                 *)
LEMMA RefinementStep ==
    ASSUME IndInv, IndInv', [Next]_vars
    PROVE  [Abstract!Next]_(Abstract!vars)
<1>1. ASSUME NEW s \in Servers, StartCache(s) \/ CacheSync(s)
      PROVE  Abstract!Next
  <2>1. \A u \in Servers : u # s => cached'[u] = cached[u]
    BY <1>1 DEF StartCache, CacheSync, IndInv, TypeOK
  <2>2. versions' = versions /\ clock' = clock
    BY <1>1 DEF StartCache, CacheSync
  <2> QED
    BY <2>1, <2>2, ObserveStep DEF Abstract!Next
<1>2. ASSUME NEW s \in Servers, CreateSecret(s)
      PROVE  UNCHANGED Abstract!vars
  <2>1. /\ Len(versions) = 0 /\ Len(versions') = 1 /\ versions'[1] = {}
        /\ cached' = cached /\ clock' = clock
    BY <1>2 DEF CreateSecret
  <2>2. Ever = {} /\ Ever' = {}
    BY <2>1 DEF Ever
  <2>3. CurrentList = {} /\ CurrentList' = {}
    BY <2>1 DEF CurrentList, ListAt
  <2>4. \A u \in Servers : CachedList(u) = {} /\ CachedList(u)' = {}
    BY <2>1 DEF CachedList, ListAt
  <2>5. Enforced' = Enforced
    BY <2>4 DEF Enforced
  <2> QED
    BY <2>1, <2>2, <2>3, <2>5 DEF Abstract!vars, Ever, Enforced
<1>3. ASSUME NEW r \in Requests, AddUpdate(r) \/ AddLost(r)
      PROVE  Abstract!Next
  <2>1. UpdateSecret(r) /\ cached' = cached /\ clock' = clock
    BY <1>3 DEF AddUpdate, AddLost
  <2>2. req[r].tok \in Tokens
    BY <2>1, WriteStep DEF Request
  <2>3. PICK tok \in Tokens : req[r].tok = tok
    BY <2>2
  <2>4. Abstract!Revoke(tok)
    BY <2>1, <2>3, RevokeStep
  <2> QED
    BY <2>4, Zenon DEF Abstract!Next
<1>4. CASE Tick
  <2>1. /\ clock' = clock + 1
        /\ Ever' = Ever /\ CurrentList' = CurrentList /\ Enforced' = Enforced
    BY <1>4 DEF Tick, Ever, Enforced, CurrentList, CachedList, ListAt
  <2>2. Abstract!Tick
    BY <2>1, Zenon DEF Abstract!Tick, Ever, Enforced
  <2> QED
    BY <2>2, Zenon DEF Abstract!Next
<1>5. CASE versions' = versions /\ cached' = cached /\ clock' = clock
  BY <1>5, StutterStep
<1> QED
  BY <1>1, <1>2, <1>3, <1>4, <1>5, Zenon DEF Next, vars, InitStore,
     CreateSecretFails, Crash, DeleteSession, AddGet, AddFails, Cancel

(* The first state of the store is one of the abstract blocklist.           *)
LEMMA RefinementInit == Init => Abstract!Init
BY DEF Init, Abstract!Init, CurrentList, CachedList, ListAt

\* The replicated, cached and retried store implements the abstract
\* revocation register.
THEOREM StoreImplementsRevocation == Spec => ImplementsRevocation
<1>1. IndInv /\ IndInv' /\ [Next]_vars => [Abstract!Next]_(Abstract!vars)
  BY RefinementStep
<1> QED
  BY <1>1, RefinementInit, TokenStoreInvariant, PTL
     DEF Spec, ImplementsRevocation, Abstract!Spec

---------------------------------------------------------------------------
(* The built-in accounts. *)

Deleting(c) == cmd[c].step \in {"dget", "dput"}

\* What a command found in its first read still holds.
FirstReadHolds(c) ==
    IF Deleting(c) THEN cmd[c].snap = [users EXCEPT ![cmd[c].user] = None]
                   ELSE Exists(cmd[c].user) <=> cmd[c].op = "set"

\* A command whose kind has not been noted is the only one that runs, and what
\* it found in its first read still holds.
CommandsAlone ==
    \A c \in Clients :
        cmd[c] # NoCommand /\ Kind(cmd[c]) \notin raced =>
            FirstReadHolds(c) /\ \A d \in Clients \ {c} : cmd[d] = NoCommand

\* The inductive invariant.
AccountsInv == AccountsTypeOK /\ CommandsAlone /\ PasswordWorksUnlessDeleteRaced

---------------------------------------------------------------------------

USE AccountsAssumption

Record == Insert \cup Remove \cup {NoCommand}

\* Run notes the kinds of all commands if several are running.
LEMMA RunNotes ==
    ASSUME AccountsTypeOK, NEW c \in Clients, NEW record \in Record, Run(c, record)
    PROVE  /\ cmd' = [cmd EXCEPT ![c] = record]
           /\ cmd' \in [Clients -> Record]
           /\ raced \subseteq raced' /\ raced' \subseteq AllOps
           /\ \A d, e \in Clients :
                d # e /\ cmd'[d] # NoCommand /\ cmd'[e] # NoCommand => Kind(cmd'[d]) \in raced'
<1> DEFINE new == [cmd EXCEPT ![c] = record]
           running == {d \in Clients : new[d] # NoCommand}
           beside == {d \in running : running # {d}}
<1>1. cmd' = new /\ raced' = raced \cup {Kind(new[d]) : d \in beside}
  BY Zenon DEF Run
<1>2. new \in [Clients -> Record]
  BY DEF AccountsTypeOK, Record
<1>3. \A d \in beside : Kind(new[d]) \in AllOps
  <2> SUFFICES ASSUME NEW d \in beside
               PROVE  Kind(new[d]) \in AllOps
    OBVIOUS
  <2>1. new[d] \in Insert \cup Remove
    BY <1>2 DEF Record
  <2> HIDE DEF new
  <2>2. CASE new[d] \in Insert
    BY <2>2 DEF Insert, Kind, AllOps
  <2>3. CASE new[d] \in Remove
    BY <2>3 DEF Remove, Kind, AllOps
  <2> QED
    BY <2>1, <2>2, <2>3
<1>4. ASSUME NEW d \in Clients, NEW e \in Clients, d # e, new[d] # NoCommand, new[e] # NoCommand
      PROVE  Kind(new[d]) \in raced'
  <2>1. d \in beside
    BY <1>4
  <2> QED
    BY <1>1, <2>1
<1> QED
  BY <1>1, <1>2, <1>3, <1>4 DEF AccountsTypeOK

\* The kind of a command follows from its record.
LEMMA Kinds ==
    ASSUME NEW record \in Insert \cup Remove
    PROVE  /\ record # NoCommand
           /\ record \in Insert =>
                record.step \notin {"dget", "dput"} /\ Kind(record) = record.op
           /\ record \in Remove =>
                record.step \in {"dget", "dput"} /\ Kind(record) = "delete"
<1>1. CASE record \in Insert
  BY <1>1 DEF Insert, Remove, NoCommand, Kind
<1>2. CASE record \in Remove
  BY <1>2 DEF Insert, Remove, NoCommand, Kind
<1> QED
  BY <1>1, <1>2

\* More passwords that a user may have do no harm.
LEMMA MorePasswords ==
    ASSUME NEW old, NEW new, new.users = old.users, new.insecure = old.insecure,
           \A u \in Users : old.last[u] \subseteq new.last[u],
           OnePasswordWorks(old)
    PROVE  OnePasswordWorks(new)
BY DEF OnePasswordWorks, Verify

\* A user that is given a password has this one, the others have what they had.
LEMMA PasswordGiven ==
    ASSUME NEW old \in Versions, NEW new \in Versions, NEW u \in Users,
           NEW pw \in Passwords \cup {NoPassword}, OnePasswordWorks(old),
           pw \in new.last[u], \A q \in Passwords : Verify(new, u, q) <=> q = pw,
           \A w \in Users \ {u} :
             /\ new.users[w] = old.users[w] /\ new.last[w] = old.last[w]
             /\ w \in new.insecure <=> w \in old.insecure
    PROVE  OnePasswordWorks(new)
<1> SUFFICES ASSUME NEW w \in Users
             PROVE  \E p \in new.last[w] : \A q \in Passwords : Verify(new, w, q) <=> q = p
  BY DEF OnePasswordWorks
<1>1. CASE w = u
  BY <1>1
<1>2. CASE w # u
  <2>1. PICK p \in old.last[w] : \A q \in Passwords : Verify(old, w, q) <=> q = p
    BY DEF OnePasswordWorks
  <2> QED
    BY <1>2, <2>1 DEF Verify
<1> QED
  BY <1>1, <1>2

\* The Secret is a version of itself.
LEMMA SecretVersion ==
    ASSUME AccountsTypeOK
    PROVE  /\ Secret \in Versions
           /\ Secret.users = users /\ Secret.insecure = insecure /\ Secret.last = last
BY DEF AccountsTypeOK, Secret, Versions

\* A step that starts, continues or ends a command without writing.  A lost
\* answer adds to the passwords that a user may have.
LEMMA UnwrittenStep ==
    ASSUME AccountsInv, NEW c \in Clients, NEW record \in Record, Run(c, record),
           UNCHANGED <<secretVars, copies>>, lost' \in Nat,
           last' \in [Users -> SUBSET (Passwords \cup {NoPassword})],
           \A u \in Users : last[u] \subseteq last'[u],
           record # NoCommand /\ Kind(record) \notin raced => FirstReadHolds(c)'
    PROVE  AccountsInv'
<1> USE DEF AccountsInv, secretVars
<1>1. /\ cmd' = [cmd EXCEPT ![c] = record]
      /\ cmd' \in [Clients -> Record]
      /\ raced \subseteq raced' /\ raced' \subseteq AllOps
  BY RunNotes
<1>2. AccountsTypeOK'
  BY <1>1 DEF AccountsTypeOK, Record
<1>3. PasswordWorksUnlessDeleteRaced'
  <2> SUFFICES ASSUME "delete" \notin raced'
               PROVE  OnePasswordWorks(Secret') /\ \A s \in Replicas : OnePasswordWorks(copies[s])
    BY DEF PasswordWorksUnlessDeleteRaced
  <2>1. OnePasswordWorks(Secret) /\ \A s \in Replicas : OnePasswordWorks(copies[s])
    BY <1>1 DEF PasswordWorksUnlessDeleteRaced
  <2>2. /\ Secret'.users = Secret.users /\ Secret'.insecure = Secret.insecure
        /\ \A u \in Users : Secret.last[u] \subseteq Secret'.last[u]
    BY DEF Secret
  <2> QED
    BY <2>1, <2>2, MorePasswords
<1>4. ASSUME NEW d \in Clients, cmd'[d] # NoCommand, Kind(cmd'[d]) \notin raced'
      PROVE  FirstReadHolds(d)' /\ \A e \in Clients \ {d} : cmd'[e] = NoCommand
  <2>1. \A e \in Clients \ {d} : cmd'[e] = NoCommand
    BY <1>4, RunNotes
  <2>2. CASE d = c
    BY <1>1, <1>4, <2>1, <2>2 DEF AccountsTypeOK
  <2>3. CASE d # c
    <3>1. cmd'[d] = cmd[d]
      BY <1>1, <2>3 DEF AccountsTypeOK
    <3>2. FirstReadHolds(d)
      BY <1>1, <1>4, <3>1 DEF CommandsAlone
    <3> QED
      BY <2>1, <3>1, <3>2 DEF FirstReadHolds, Deleting, Exists
  <2> QED
    BY <2>2, <2>3
<1> QED
  BY <1>2, <1>3, <1>4 DEF CommandsAlone

\* When a command that has written is done, the kinds of all others are noted.
LEMMA OthersNoted ==
    ASSUME AccountsInv, NEW c \in Clients, cmd[c] # NoCommand, Run(c, NoCommand)
    PROVE  CommandsAlone'
<1>1. NoCommand \in Record
  BY DEF Record
<1>2. cmd' = [cmd EXCEPT ![c] = NoCommand] /\ raced \subseteq raced'
  BY <1>1, RunNotes DEF AccountsInv
<1>3. ASSUME NEW d \in Clients, cmd'[d] # NoCommand
      PROVE  Kind(cmd'[d]) \in raced'
  <2>1. d # c /\ cmd'[d] = cmd[d]
    BY <1>2, <1>3 DEF AccountsInv, AccountsTypeOK
  <2> QED
    BY <1>2, <1>3, <2>1 DEF AccountsInv, CommandsAlone
<1> QED
  BY <1>3 DEF CommandsAlone

\* An insertion that writes, whether its answer arrives or not.
LEMMA InsertStep ==
    ASSUME AccountsInv, NEW c \in Clients, At(c, "put"), StoreInsert(c), Run(c, NoCommand),
           UNCHANGED copies, lost' \in Nat,
           NEW known \in SUBSET (Passwords \cup {NoPassword}), cmd[c].pw \in known,
           last' = [last EXCEPT ![cmd[c].user] = known]
    PROVE  AccountsInv'
<1> USE DEF AccountsInv
<1>1. cmd[c] \in Insert /\ cmd[c] # NoCommand
  BY DEF AccountsTypeOK, At, Remove
<1>2. NoCommand \in Record
  BY DEF Record
<1>3. /\ cmd' = [cmd EXCEPT ![c] = NoCommand]
      /\ cmd' \in [Clients -> Record]
      /\ raced \subseteq raced' /\ raced' \subseteq AllOps
  BY <1>2, RunNotes
<1> DEFINE u == cmd[c].user
           stored == [form |-> IF cmd[c].secure THEN "hash" ELSE "plain", pw |-> cmd[c].pw]
<1>4. /\ u \in Users /\ cmd[c].pw \in Passwords /\ cmd[c].secure \in BOOLEAN
      /\ stored \in Stored
  BY <1>1 DEF Insert, Stored
<1>5. /\ users' = [users EXCEPT ![u] = stored]
      /\ last' = [last EXCEPT ![u] = known]
      /\ insecure' = IF cmd[c].secure THEN insecure \ {u} ELSE insecure \cup {u}
      /\ rv' = rv + 1
  BY DEF StoreInsert, Annotate
<1>6. AccountsTypeOK'
  BY <1>3, <1>4, <1>5 DEF AccountsTypeOK, Record
<1>7. CommandsAlone'
  BY <1>1, <1>2, OthersNoted
<1>8. PasswordWorksUnlessDeleteRaced'
  <2> SUFFICES ASSUME "delete" \notin raced'
               PROVE  OnePasswordWorks(Secret') /\ \A s \in Replicas : OnePasswordWorks(copies[s])
    BY DEF PasswordWorksUnlessDeleteRaced
  <2>1. OnePasswordWorks(Secret) /\ \A s \in Replicas : OnePasswordWorks(copies[s])
    BY <1>3 DEF PasswordWorksUnlessDeleteRaced
  <2>2. Secret \in Versions /\ Secret' \in Versions
    BY <1>6, SecretVersion DEF AccountsTypeOK, Secret, Versions
  <2>3. /\ Secret'.users[u] = stored /\ cmd[c].pw \in Secret'.last[u]
        /\ u \in Secret'.insecure <=> ~cmd[c].secure
    BY <1>4, <1>5 DEF Secret, AccountsTypeOK
  <2>4. \A q \in Passwords : Verify(Secret', u, q) <=> q = cmd[c].pw
    BY <1>4, <2>3 DEF Verify
  <2>5. \A w \in Users \ {u} :
          /\ Secret'.users[w] = Secret.users[w] /\ Secret'.last[w] = Secret.last[w]
          /\ w \in Secret'.insecure <=> w \in Secret.insecure
    BY <1>4, <1>5 DEF Secret, AccountsTypeOK
  <2> HIDE DEF u, stored
  <2> QED
    BY <1>4, <2>1, <2>2, <2>3, <2>4, <2>5, PasswordGiven
<1> QED
  BY <1>6, <1>7, <1>8

\* A Delete that writes its list back, whether its answer arrives or not.
LEMMA RemoveStep ==
    ASSUME AccountsInv, NEW c \in Clients, At(c, "dput"), StoreRemove(c), Run(c, NoCommand),
           UNCHANGED copies, lost' \in Nat,
           NEW known \in SUBSET (Passwords \cup {NoPassword}), NoPassword \in known,
           last' = [last EXCEPT ![cmd[c].user] = known]
    PROVE  AccountsInv'
<1> USE DEF AccountsInv
<1>1. cmd[c] \in Remove /\ cmd[c] # NoCommand
  BY DEF AccountsTypeOK, At, Insert
<1>2. NoCommand \in Record
  BY DEF Record
<1>3. /\ cmd' = [cmd EXCEPT ![c] = NoCommand]
      /\ cmd' \in [Clients -> Record]
      /\ raced \subseteq raced' /\ raced' \subseteq AllOps
  BY <1>2, RunNotes
<1> DEFINE u == cmd[c].user
<1>4. u \in Users /\ cmd[c].snap \in [Users -> Stored \cup {None}]
  BY <1>1 DEF Remove
<1>5. /\ users' = cmd[c].snap /\ last' = [last EXCEPT ![u] = known]
      /\ rv' = rv + 1 /\ insecure' = insecure
  BY DEF StoreRemove
<1>6. AccountsTypeOK'
  BY <1>3, <1>4, <1>5 DEF AccountsTypeOK, Record
<1>7. ASSUME "delete" \notin raced'
      PROVE  users' = [users EXCEPT ![u] = None]
  <2>1. Kind(cmd[c]) \notin raced /\ Deleting(c)
    BY <1>1, <1>3, <1>7, Kinds DEF Deleting
  <2> QED
    BY <1>1, <1>5, <2>1 DEF CommandsAlone, FirstReadHolds
<1>8. CommandsAlone'
  BY <1>1, <1>2, OthersNoted
<1>9. PasswordWorksUnlessDeleteRaced'
  <2> SUFFICES ASSUME "delete" \notin raced'
               PROVE  OnePasswordWorks(Secret') /\ \A s \in Replicas : OnePasswordWorks(copies[s])
    BY DEF PasswordWorksUnlessDeleteRaced
  <2>1. OnePasswordWorks(Secret) /\ \A s \in Replicas : OnePasswordWorks(copies[s])
    BY <1>3 DEF PasswordWorksUnlessDeleteRaced
  <2>2. Secret \in Versions /\ Secret' \in Versions
    BY <1>6, SecretVersion DEF AccountsTypeOK, Secret, Versions
  <2>3. Secret'.users[u] = None /\ NoPassword \in Secret'.last[u]
    BY <1>4, <1>5, <1>7 DEF Secret, AccountsTypeOK
  <2>4. \A q \in Passwords : Verify(Secret', u, q) <=> q = NoPassword
    BY <2>3 DEF Verify, None
  <2>5. \A w \in Users \ {u} :
          /\ Secret'.users[w] = Secret.users[w] /\ Secret'.last[w] = Secret.last[w]
          /\ w \in Secret'.insecure <=> w \in Secret.insecure
    BY <1>4, <1>5, <1>7 DEF Secret, AccountsTypeOK
  <2> HIDE DEF u
  <2> QED
    BY <1>4, <2>1, <2>2, <2>3, <2>4, <2>5, PasswordGiven
<1> QED
  BY <1>6, <1>8, <1>9

\* A command that succeeds leaves its user one password, or none.
LEMMA PutSteps ==
    ASSUME AccountsInv, NEW c \in Clients, InsertPut(c) \/ DeletePut(c)
    PROVE  AccountsInv'
<1>1. lost' \in Nat
  BY DEF InsertPut, DeletePut, AccountsInv, AccountsTypeOK
<1>2. CASE InsertPut(c)
  <2> DEFINE known == {cmd[c].pw}
  <2>1. known \in SUBSET (Passwords \cup {NoPassword}) /\ cmd[c].pw \in known
    BY <1>2 DEF InsertPut, At, AccountsInv, AccountsTypeOK, Insert, Remove
  <2>2. /\ At(c, "put") /\ StoreInsert(c) /\ Run(c, NoCommand) /\ UNCHANGED copies
        /\ last' = [last EXCEPT ![cmd[c].user] = known]
    BY <1>2 DEF InsertPut
  <2> HIDE DEF known
  <2> QED
    BY <1>1, <2>1, <2>2, InsertStep
<1>3. CASE DeletePut(c)
  BY <1>1, <1>3, RemoveStep DEF DeletePut
<1> QED
  BY <1>2, <1>3

\* One whose answer is lost adds what it may have done.
LEMMA AnswerLostStep ==
    ASSUME AccountsInv, NEW c \in Clients, AnswerLost(c)
    PROVE  AccountsInv'
<1> DEFINE u == cmd[c].user
           new == IF At(c, "put") THEN cmd[c].pw ELSE NoPassword
           known == last[u] \cup {new}
<1>1. /\ At(c, "put") \/ At(c, "dput")
      /\ Run(c, NoCommand) /\ UNCHANGED copies /\ lost' \in Nat
      /\ NoCommand \in Record
  BY DEF AnswerLost, AccountsInv, AccountsTypeOK, Record
<1>2. u \in Users /\ new \in Passwords \cup {NoPassword}
      /\ last \in [Users -> SUBSET (Passwords \cup {NoPassword})]
  BY <1>1 DEF At, AccountsInv, AccountsTypeOK, Insert, Remove
<1>3. last' = [last EXCEPT ![u] = known]
  BY DEF AnswerLost, At
<1>4. /\ known \in SUBSET (Passwords \cup {NoPassword})
      /\ last' \in [Users -> SUBSET (Passwords \cup {NoPassword})]
      /\ \A w \in Users : last[w] \subseteq last'[w]
  BY <1>2, <1>3
<1>5. CASE UNCHANGED secretVars
  BY <1>1, <1>4, <1>5, UnwrittenStep
<1>6. CASE At(c, "put") /\ StoreInsert(c)
  <2>1. cmd[c].pw \in known
    BY <1>6
  <2>2. last' = [last EXCEPT ![cmd[c].user] = known]
    BY <1>3
  <2> HIDE DEF u, new, known
  <2> QED
    BY <1>1, <1>4, <1>6, <2>1, <2>2, InsertStep
<1>7. CASE At(c, "dput") /\ StoreRemove(c)
  <2>1. NoPassword \in known
    BY <1>7 DEF At
  <2>2. last' = [last EXCEPT ![cmd[c].user] = known]
    BY <1>3
  <2> HIDE DEF u, new, known
  <2> QED
    BY <1>1, <1>4, <1>7, <2>1, <2>2, RemoveStep
<1> QED
  BY <1>5, <1>6, <1>7 DEF AnswerLost

\* A cache that catches up has the Secret as it is.
LEMMA SyncCopyStep ==
    ASSUME AccountsInv, NEW s \in Replicas, SyncCopy(s)
    PROVE  AccountsInv'
<1> USE DEF AccountsInv
<1>1. /\ UNCHANGED <<users, insecure, rv, cmd, last, lost, raced>>
      /\ copies' = [copies EXCEPT ![s] = Secret]
      /\ Secret \in Versions /\ Secret' = Secret
  BY SecretVersion DEF SyncCopy, secretVars, Secret
<1>2. AccountsTypeOK'
  BY <1>1 DEF AccountsTypeOK
<1>3. CommandsAlone'
  BY <1>1 DEF CommandsAlone, FirstReadHolds, Deleting, Exists
<1>4. \A t \in Replicas : copies'[t] = copies[t] \/ copies'[t] = Secret
  BY <1>1 DEF AccountsTypeOK
<1>5. PasswordWorksUnlessDeleteRaced'
  BY <1>1, <1>4 DEF PasswordWorksUnlessDeleteRaced
<1> QED
  BY <1>2, <1>3, <1>5

---------------------------------------------------------------------------

(* The first Secret, with the administrator in it, satisfies the            *)
(* invariant.                                                               *)
LEMMA AccountsInitInv == AccountsInit => AccountsInv
<1> SUFFICES ASSUME AccountsInit
             PROVE  AccountsInv
  OBVIOUS
<1>1. AccountsTypeOK
  BY DEF AccountsInit, AccountsTypeOK, Stored, Versions, Secret
<1>2. CommandsAlone
  BY DEF AccountsInit, CommandsAlone
<1>3. OnePasswordWorks(Secret)
  <2> SUFFICES ASSUME NEW u \in Users
               PROVE  \E pw \in last[u] : \A q \in Passwords : Verify(Secret, u, q) <=> q = pw
    BY DEF OnePasswordWorks, Secret
  <2>1. CASE u = InitialAdmin
    BY <2>1 DEF AccountsInit, Verify, Secret
  <2>2. CASE u # InitialAdmin
    BY <2>2 DEF AccountsInit, Verify, Secret, None
  <2> QED
    BY <2>1, <2>2
<1>4. \A s \in Replicas : copies[s] = Secret
  BY DEF AccountsInit
<1> QED
  BY <1>1, <1>2, <1>3, <1>4 DEF AccountsInv, PasswordWorksUnlessDeleteRaced

\* What was known before is known as well when nothing is added.
LEMMA UnchangedKnown ==
    ASSUME AccountsInv, UNCHANGED <<secretVars, last, lost, copies>>
    PROVE  /\ UNCHANGED <<secretVars, copies>> /\ lost' \in Nat
           /\ last' \in [Users -> SUBSET (Passwords \cup {NoPassword})]
           /\ \A u \in Users : last[u] \subseteq last'[u]
BY DEF AccountsInv, AccountsTypeOK

(* Every step of every command keeps the invariant.                         *)
LEMMA AccountsNextInv == AccountsInv /\ [AccountsNext]_accountsVars => AccountsInv'
<1> SUFFICES ASSUME AccountsInv, [AccountsNext]_accountsVars
             PROVE  AccountsInv'
  OBVIOUS
<1>1. CASE UNCHANGED accountsVars
  <2>1. AccountsTypeOK'
    BY <1>1 DEF accountsVars, AccountsInv, AccountsTypeOK
  <2>2. CommandsAlone'
    BY <1>1 DEF accountsVars, AccountsInv, CommandsAlone, FirstReadHolds, Deleting, Exists
  <2>3. PasswordWorksUnlessDeleteRaced'
    BY <1>1 DEF accountsVars, AccountsInv, PasswordWorksUnlessDeleteRaced, Secret
  <2> QED
    BY <2>1, <2>2, <2>3 DEF AccountsInv
<1>2. ASSUME NEW c \in Clients, NEW u \in Users, NEW pw \in Passwords, Create(c, u, pw)
      PROVE  AccountsInv'
  <2> DEFINE record == [step |-> "get", op |-> "create", user |-> u, pw |-> pw,
                        secure |-> TRUE, rv |-> 0]
  <2>1. record \in Insert /\ record \in Record
    BY DEF Insert, Record
  <2>2. Run(c, record) /\ UNCHANGED <<secretVars, last, lost, copies>> /\ ~Exists(u)
    BY <1>2 DEF Create
  <2>3. cmd'[c] = record
    BY <2>1, <2>2, RunNotes DEF AccountsInv, AccountsTypeOK
  <2>4. FirstReadHolds(c)'
    BY <2>2, <2>3 DEF FirstReadHolds, Deleting, Exists, secretVars
  <2> QED
    BY <2>1, <2>2, <2>4, UnwrittenStep, UnchangedKnown
<1>3. ASSUME NEW c \in Clients, NEW u \in Users, NEW pw \in Passwords,
             NEW secure \in BOOLEAN, SetPassword(c, u, pw, secure)
      PROVE  AccountsInv'
  <2> DEFINE record == [step |-> "get", op |-> "set", user |-> u, pw |-> pw,
                        secure |-> secure, rv |-> 0]
  <2>1. record \in Insert /\ record \in Record
    BY DEF Insert, Record
  <2>2. Run(c, record) /\ UNCHANGED <<secretVars, last, lost, copies>> /\ Exists(u)
    BY <1>3 DEF SetPassword
  <2>3. cmd'[c] = record
    BY <2>1, <2>2, RunNotes DEF AccountsInv, AccountsTypeOK
  <2>4. FirstReadHolds(c)'
    BY <2>2, <2>3 DEF FirstReadHolds, Deleting, Exists, secretVars
  <2> QED
    BY <2>1, <2>2, <2>4, UnwrittenStep, UnchangedKnown
<1>4. ASSUME NEW c \in Clients, NEW u \in Users, DeleteList(c, u)
      PROVE  AccountsInv'
  <2> DEFINE record == [step |-> "dget", user |-> u,
                        snap |-> [users EXCEPT ![u] = None], rv |-> 0]
  <2>1. record \in Remove /\ record \in Record
    BY DEF Remove, Record, AccountsInv, AccountsTypeOK
  <2>2. Run(c, record) /\ UNCHANGED <<secretVars, last, lost, copies>>
    BY <1>4 DEF DeleteList
  <2>3. cmd'[c] = record
    BY <2>1, <2>2, RunNotes DEF AccountsInv, AccountsTypeOK
  <2>4. FirstReadHolds(c)'
    BY <2>2, <2>3 DEF FirstReadHolds, Deleting, secretVars
  <2> QED
    BY <2>1, <2>2, <2>4, UnwrittenStep, UnchangedKnown
<1>5. ASSUME NEW c \in Clients, InsertGet(c)
      PROVE  AccountsInv'
  <2> DEFINE record == [cmd[c] EXCEPT !.step = "put", !.rv = rv]
  <2>1. cmd[c] \in Insert /\ cmd[c] # NoCommand
    BY <1>5 DEF AccountsInv, AccountsTypeOK, InsertGet, At, Remove
  <2>2. /\ record \in Insert /\ record \in Record
        /\ record.op = cmd[c].op /\ record.user = cmd[c].user
    BY <2>1 DEF Insert, Record, AccountsInv, AccountsTypeOK
  <2>3. Run(c, record) /\ UNCHANGED <<secretVars, last, lost, copies>>
    BY <1>5 DEF InsertGet
  <2>4. cmd'[c] = record
    BY <2>2, <2>3, RunNotes DEF AccountsInv, AccountsTypeOK
  <2> HIDE DEF record
  <2>5. ASSUME Kind(record) \notin raced
        PROVE  FirstReadHolds(c)'
    <3>1. Kind(cmd[c]) \notin raced /\ ~Deleting(c) /\ ~Deleting(c)'
      BY <2>1, <2>2, <2>4, <2>5, Kinds DEF Deleting
    <3> QED
      BY <2>1, <2>2, <2>3, <2>4, <3>1 DEF AccountsInv, CommandsAlone, FirstReadHolds, Exists, secretVars
  <2> QED
    BY <2>2, <2>3, <2>5, UnwrittenStep, UnchangedKnown
<1>6. ASSUME NEW c \in Clients, DeleteGet(c)
      PROVE  AccountsInv'
  <2> DEFINE record == [cmd[c] EXCEPT !.step = "dput", !.rv = rv]
  <2>1. cmd[c] \in Remove /\ cmd[c] # NoCommand
    BY <1>6 DEF AccountsInv, AccountsTypeOK, DeleteGet, At, Insert
  <2>2. /\ record \in Remove /\ record \in Record
        /\ record.snap = cmd[c].snap /\ record.user = cmd[c].user
    BY <2>1 DEF Remove, Record, AccountsInv, AccountsTypeOK
  <2>3. Run(c, record) /\ UNCHANGED <<secretVars, last, lost, copies>>
    BY <1>6 DEF DeleteGet
  <2>4. cmd'[c] = record
    BY <2>2, <2>3, RunNotes DEF AccountsInv, AccountsTypeOK
  <2> HIDE DEF record
  <2>5. ASSUME Kind(record) \notin raced
        PROVE  FirstReadHolds(c)'
    <3>1. Kind(cmd[c]) \notin raced /\ Deleting(c) /\ Deleting(c)'
      BY <2>1, <2>2, <2>4, <2>5, Kinds DEF Deleting
    <3> QED
      BY <2>1, <2>2, <2>3, <2>4, <3>1 DEF AccountsInv, CommandsAlone, FirstReadHolds, secretVars
  <2> QED
    BY <2>2, <2>3, <2>5, UnwrittenStep, UnchangedKnown
<1>7. ASSUME NEW c \in Clients, CommandFails(c)
      PROVE  AccountsInv'
  <2>1. NoCommand \in Record
    BY DEF Record
  <2> QED
    BY <1>7, <2>1, UnwrittenStep, UnchangedKnown DEF CommandFails
<1> QED
  BY <1>1, <1>2, <1>3, <1>4, <1>5, <1>6, <1>7, PutSteps, AnswerLostStep,
     SyncCopyStep DEF AccountsNext

\* The inductive invariant holds in every reachable state.
THEOREM AccountsInvariant == AccountsSpec => []AccountsInv
<1> QED
  BY AccountsInitInv, AccountsNextInv, PTL DEF AccountsSpec

\* Every reachable state has the types of AccountsTypeOK.
THEOREM AccountsTypeCorrect == AccountsSpec => []AccountsTypeOK
<1>1. AccountsInv => AccountsTypeOK
  BY DEF AccountsInv
<1> QED
  BY <1>1, AccountsInvariant, PTL

\* Creates and SetPasswords never undo one another and a Delete that runs alone
\* takes away one account only: a user has one of the passwords that the answers
\* allow, and every server lets users in as one version of the Secret does.
THEOREM PasswordsWork == AccountsSpec => []PasswordWorksUnlessDeleteRaced
<1>1. AccountsInv => PasswordWorksUnlessDeleteRaced
  BY DEF AccountsInv
<1> QED
  BY <1>1, AccountsInvariant, PTL

\* A write of a command whose kind is not noted meets what its first read found.
LEMMA FirstReadStillHolds ==
    ASSUME AccountsInv, NEW c \in Clients, At(c, "put"), cmd[c].op \notin raced
    PROVE  Exists(cmd[c].user) <=> cmd[c].op = "set"
<1>1. cmd[c] \in Insert /\ cmd[c] # NoCommand
  BY DEF AccountsInv, AccountsTypeOK, At, Remove
<1>2. Kind(cmd[c]) \notin raced /\ ~Deleting(c)
  BY <1>1, Kinds DEF Deleting
<1> QED
  BY <1>1, <1>2 DEF AccountsInv, CommandsAlone, FirstReadHolds

\* A Create or SetPassword that no other command ran beside never replaces an
\* account and never revives one.
THEOREM InsertsKeepTheirCheck == AccountsSpec => InsertKeepsItsCheck
<1>1. AccountsInv /\ [AccountsNext]_accountsVars =>
        [\A c \in Clients :
           At(c, "put") /\ rv' # rv /\ cmd'[c] = NoCommand /\ cmd[c].op \notin raced
             => (Exists(cmd[c].user) <=> cmd[c].op = "set")]_accountsVars
  BY FirstReadStillHolds
<1> QED
  BY <1>1, AccountsInvariant, PTL DEF AccountsSpec, InsertKeepsItsCheck
=============================================================================
