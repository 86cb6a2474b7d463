--------------------------- MODULE WebSessionProofs ---------------------------
(***************************************************************************)
(* Proofs about WebSession, for any number of tabs, requests, users and    *)
(* policies. The inductive invariant says, for every tab, what its page    *)
(* and its requests know of the tokens that were issued and of what was    *)
(* ever allowed, and how the two fit together. Its parts are operators of  *)
(* a page, of the tab's requests and of the server's state, so that the    *)
(* lemmas speak of one tab at a time.                                      *)
(***************************************************************************)
EXTENDS WebSession, FiniteSetTheorems, TLAPS

\* The requests of tab t.
CallsOf(t) == [Slots[t] -> Calls \cup {NoCall}]

\* What policies allow has been allowed at some time.
Told(policies, ev) ==
    /\ \A u \in Users, a \in Actions : <<u, a>> \in policies.p => a \in ev[u]
    /\ ~policies.enabled => \A u \in Users, a \in Actions : a \in ev[u]

\* A sign-in that was granted, or one that is there from the page before, may
\* start a loop.
Starter(k) ==
    k.kind = "check" \/ (k.kind = "login" /\ k.answer = "ok")
    \/ (k.kind = "fetch" /\ k.first)

\* The slots with such a request.
Starters(cs) == {c \in DOMAIN cs : Starter(cs[c])}

\* A sign-in that has not been answered.
Unserved(k) == k.kind = "login" /\ k.answer = "none"

\* A request knows the user of its token; an answer is true of the server.
CallInv(k, own, dd, ev) ==
    /\ k.token \in 0 .. Len(own)
    /\ k.kind \in {"check", "login"} => k.user \in Users
    /\ k.kind = "check" \/ (k.kind = "login" /\ k.answer = "ok") =>
          k.token # 0 /\ own[k.token] = k.user
    /\ k.kind = "logout" /\ k.answer = "ok" => k.token \in dd
    /\ k.kind = "logout" /\ k.answer = "denied" => k.token = 0 \/ k.token \in dd
    /\ k.kind = "fetch" /\ k.answer = "ok" =>
          /\ k.token # 0
          /\ k.policies.p \subseteq {own[k.token]} \X Actions
          /\ Told(k.policies, ev)

\* A page knows the user of its token, runs the loop it knows of and no other
\* unless one came late, and offers what its user was once allowed.
PageInv(p, own, ev) ==
    /\ p.holds \in 0 .. Len(own)
    /\ p.holds # 0 => p.username \in Users /\ own[p.holds] = p.username
    /\ p.status = "loggedIn" \/ p.loops > 0 \/ p.own => p.holds # 0
    /\ p.known => p.loops > 0
    /\ ~p.late => /\ p.loops = (IF p.known THEN 1 ELSE 0)
                  /\ p.known => p.status = "loggedIn"
    /\ p.status = "unknown" => p.loops = 0
    /\ p.authorizer.p = p.policies.p
    /\ p.own => \A a \in Actions : Can(p, a) => a \in ev[p.username]

\* Nothing has happened on the page since it was loaded.
Fresh(p, cs) == p.status = "unknown" /\ \A c \in DOMAIN cs : cs[c] = NoCall

\* The page and its requests: a page that tries out the stored token has no
\* other request; no two requests start a loop for one token, nor one that is
\* known already; loops are started by sign-ins.
JointInv(p, cs, own) ==
    /\ \A c \in DOMAIN cs :
          /\ cs[c].kind = "fetch" => p.holds # 0
          /\ cs[c].kind = "check" =>
                p.status = "unknown" /\ \A d \in DOMAIN cs : d # c => cs[d] = NoCall
          /\ p.status = "unknown" => cs[c] = NoCall \/ cs[c].kind = "check"
          /\ p.known /\ ~p.late /\ cs[c].kind = "fetch" /\ cs[c].first =>
                cs[c].token # p.holds
          /\ \A d \in DOMAIN cs :
                c # d /\ Starter(cs[c]) /\ Starter(cs[d]) => cs[c].token # cs[d].token
    /\ p.loops + Cardinality(Starters(cs)) <=
          Len(own) + (IF Fresh(p, cs) THEN 0 ELSE 1)

\* What is known of one tab.
TabInv(p, cs, own, dd, ev) ==
    /\ PageInv(p, own, ev)
    /\ JointInv(p, cs, own)
    /\ \A c \in DOMAIN cs : cs[c] # NoCall => CallInv(cs[c], own, dd, ev)

\* What is allowed now has been allowed at some time.
EverHolds(en, gr, ev) ==
    /\ \A u \in Users : gr[u] \subseteq ev[u]
    /\ ~en => \A u \in Users, a \in Actions : a \in ev[u]

\* The inductive invariant.
IndInv ==
    /\ TypeOK
    /\ call = [t \in Tabs |-> call[t]]
    /\ Len(owner) + Cardinality(Pending) <= MaxTokens
    /\ EverHolds(enabled, granted, ever)
    /\ \A t \in Tabs : TabInv(tab[t], call[t], owner, dead, ever)

---------------------------------------------------------------------------

USE UsersAssumption, GrantsAssumption, SlotsAssumption, BoundsAssumption

\* A page just loaded is a page, and knows nothing.
LEMMA LoadedPage ==
    ASSUME NEW route \in {"app", "logout"}
    PROVE  LET q == Loaded(route) IN
             /\ q \in Pages /\ q.status = "unknown" /\ q.loops = 0 /\ ~q.known /\ ~q.own
             /\ ~q.late /\ q.holds = 0 /\ q.authorizer.p = q.policies.p
<1>1. NoPolicies \in Policies /\ NoPolicies.p = NoAuthorizer.p
  BY DEF NoPolicies, Policies, NoAuthorizer
<1>2. 0 \in 0 .. MaxTokens /\ 0 \in 0 .. MaxTokens + 1
  OBVIOUS
<1>3. Loaded(route) \in Pages
  BY <1>1, <1>2, Zenon DEF Loaded, Pages, NoToken
<1> QED
  BY <1>1, <1>3, Zenon DEF Loaded, NoToken

\* Two pages differ in what they show only.
Alike(p, q) ==
    /\ q.username = p.username /\ q.holds = p.holds /\ q.own = p.own /\ q.late = p.late
    /\ q.policies = p.policies /\ q.authorizer = p.authorizer

\* clearInterval ends the known loop, if there is one.
LEMMA Stopped ==
    ASSUME NEW p \in Pages, p.known => p.loops > 0
    PROVE  LET q == Stop(p) IN
             /\ q \in Pages /\ q.status = p.status /\ Alike(p, q) /\ ~q.known
             /\ q.loops = (IF p.known THEN p.loops - 1 ELSE p.loops)
<1> DEFINE n == IF p.known THEN p.loops - 1 ELSE p.loops
<1>1. n \in 0 .. MaxTokens + 1
  BY DEF Pages
<1> HIDE DEF n
<1> DEFINE q == [p EXCEPT !.loops = n, !.known = FALSE]
<1>2. q \in Pages
  BY <1>1, Zenon DEF Pages
<1>3. q.status = p.status /\ Alike(p, q) /\ ~q.known /\ q.loops = n
  BY Zenon DEF Pages, Alike
<1>4. Stop(p) = q
  BY DEF Stop, n
<1> HIDE DEF q
<1> QED
  BY <1>2, <1>3, <1>4 DEF n

\* What setLogoutStatus and the sign-out of the menu make of a page.
Out(p) == [Stop(p) EXCEPT !.status = "loggedOut", !.route = "app"]
Quit(p) == [Stop(p) EXCEPT !.status = "loggedOut", !.route = "app", !.guarded = FALSE]

\* Leaving a page: nobody is signed in, and the known loop has ended.
Left(p, q) ==
    /\ q \in Pages /\ q.status = "loggedOut" /\ Alike(p, q) /\ ~q.known
    /\ q.loops = (IF p.known THEN p.loops - 1 ELSE p.loops)

\* The pages while a sign-in, and the sign-out of /logout, are on their way.
SigningIn(p) == [p EXCEPT !.status = "loggingIn"]
Leaving(p) == [p EXCEPT !.route = "leaving"]

\* A page whose status, route and interceptors are changed is a page.
LEMMA Shown ==
    ASSUME NEW r \in Pages
    PROVE  /\ LET q == [r EXCEPT !.status = "loggedOut", !.route = "app"] IN
                /\ q \in Pages /\ q.status = "loggedOut" /\ Alike(r, q)
                /\ q.known = r.known /\ q.loops = r.loops
           /\ LET q == [r EXCEPT !.status = "loggedOut", !.route = "app",
                                 !.guarded = FALSE] IN
                /\ q \in Pages /\ q.status = "loggedOut" /\ Alike(r, q)
                /\ q.known = r.known /\ q.loops = r.loops
           /\ LET q == SigningIn(r) IN
                /\ q \in Pages /\ q.status = "loggingIn" /\ Alike(r, q)
                /\ q.known = r.known /\ q.loops = r.loops
           /\ LET q == Leaving(r) IN
                /\ q \in Pages /\ q.status = r.status /\ Alike(r, q)
                /\ q.known = r.known /\ q.loops = r.loops
BY Zenon DEF Pages, Alike, SigningIn, Leaving

\* The pages after setLogoutStatus and after the sign-out of the menu.
LEMMA LeftPage ==
    ASSUME NEW p \in Pages, p.known => p.loops > 0
    PROVE  Left(p, Out(p)) /\ Left(p, Quit(p))
<1> DEFINE r == Stop(p)
<1>1. r \in Pages /\ Alike(p, r) /\ ~r.known
      /\ r.loops = (IF p.known THEN p.loops - 1 ELSE p.loops)
  BY Stopped
<1> HIDE DEF r
<1> DEFINE q1 == [r EXCEPT !.status = "loggedOut", !.route = "app"]
           q2 == [r EXCEPT !.status = "loggedOut", !.route = "app", !.guarded = FALSE]
<1>2. /\ q1 \in Pages /\ q1.status = "loggedOut" /\ Alike(r, q1)
      /\ q1.known = r.known /\ q1.loops = r.loops
      /\ q2 \in Pages /\ q2.status = "loggedOut" /\ Alike(r, q2)
      /\ q2.known = r.known /\ q2.loops = r.loops
  BY <1>1, Shown
<1> HIDE DEF q1, q2
<1>3. Left(p, q1) /\ Left(p, q2)
  BY <1>1, <1>2 DEF Left, Alike
<1> QED
  BY <1>3, Zenon DEF r, q1, q2, Out, Quit

\* A page that is left tells no more than before.
LEMMA LeftInv ==
    ASSUME NEW p \in Pages, NEW q, NEW own, NEW ev, PageInv(p, own, ev), Left(p, q)
    PROVE  PageInv(q, own, ev)
<1>1. p.loops \in Nat /\ q.loops \in Nat /\ p.known \in BOOLEAN
  BY DEF Left, Pages
<1> QED
  BY <1>1 DEF PageInv, Left, Alike, Can

\* The page after setLoggedInStatus.
LEMMA SignedIn ==
    ASSUME NEW p \in Pages, p.known => p.loops > 0,
           NEW n \in 0 .. MaxTokens, NEW user \in Users
    PROVE  LET q == SignIn(p, n, user) IN
             /\ q \in Pages /\ q.status = "loggedIn" /\ q.username = user /\ q.holds = n
             /\ ~q.own /\ ~q.known /\ q.late = p.late
             /\ q.policies = p.policies /\ q.authorizer = p.authorizer
             /\ q.loops = (IF p.known THEN p.loops - 1 ELSE p.loops)
<1> DEFINE r == Stop(p)
<1>1. r \in Pages /\ Alike(p, r) /\ ~r.known
      /\ r.loops = (IF p.known THEN p.loops - 1 ELSE p.loops)
  BY Stopped
<1> HIDE DEF r
<1> DEFINE q == [r EXCEPT !.status = "loggedIn", !.username = user,
                          !.guarded = TRUE, !.holds = n, !.own = FALSE]
<1>2. q \in Pages
  BY <1>1, Zenon DEF Pages
<1>3. /\ q.status = "loggedIn" /\ q.username = user /\ q.holds = n
      /\ ~q.own /\ q.known = r.known /\ q.late = r.late /\ q.loops = r.loops
      /\ q.policies = r.policies /\ q.authorizer = r.authorizer
  BY <1>1, Zenon DEF Pages
<1>4. SignIn(p, n, user) = q
  BY DEF SignIn, r
<1> QED
  BY <1>1, <1>2, <1>3, <1>4 DEF Alike

\* assignPolicies changes the policies and the authorizer of a page together,
\* unless the policies are those the page has.
LEMMA Assigned ==
    ASSUME NEW p \in Pages, p.username \in Users, NEW new \in Policies,
           NEW q \in AssignPolicies(p, new)
    PROVE  /\ q \in Pages /\ q.status = p.status /\ q.username = p.username
           /\ q.holds = p.holds /\ q.own = p.own /\ q.late = p.late
           /\ q.loops = p.loops /\ q.known = p.known /\ q.mixed = p.mixed
           /\ \/ /\ q.policies = p.policies /\ q.authorizer = p.authorizer
                 /\ new.p = p.policies.p /\ new.enabled = p.policies.enabled
              \/ /\ q.policies = new /\ q.authorizer.user = p.username
                 /\ q.authorizer.p = new.p
<1> DEFINE auth == [user |-> p.username, p |-> new.p]
           r == [p EXCEPT !.policies = new, !.authorizer = auth]
<1>1. auth \in Authorizers /\ auth.user = p.username /\ auth.p = new.p
  BY DEF Policies, Authorizers
<1>2. \/ q = r
      \/ q = p /\ new.p = p.policies.p /\ new.enabled = p.policies.enabled
  BY DEF AssignPolicies, Differs
<1> HIDE DEF auth
<1>3. r \in Pages
  BY <1>1, Zenon DEF Pages
<1>4. /\ r.status = p.status /\ r.username = p.username /\ r.holds = p.holds
      /\ r.own = p.own /\ r.late = p.late /\ r.loops = p.loops /\ r.known = p.known
      /\ r.mixed = p.mixed /\ r.policies = new /\ r.authorizer = auth
  BY Zenon DEF Pages
<1> HIDE DEF r
<1> QED
  BY <1>1, <1>2, <1>3, <1>4

\* The page after the first fetch, and after any other one.
LEMMA Started ==
    ASSUME NEW p \in Pages, NEW k \in Calls, k.first => p.loops + 1 \in 0 .. MaxTokens + 1
    PROVE  LET q == StartLoop(p, k) IN
             /\ q \in Pages /\ q.status = p.status /\ q.username = p.username
             /\ q.holds = p.holds /\ q.own = p.own /\ q.mixed = p.mixed
             /\ q.policies = p.policies /\ q.authorizer = p.authorizer
             /\ IF k.first
                THEN /\ q.loops = p.loops + 1 /\ q.known
                     /\ q.late <=> \/ p.late \/ p.status # "loggedIn"
                                   \/ p.holds # k.token
                ELSE q.loops = p.loops /\ q.known = p.known /\ q.late = p.late
<1>1. CASE ~k.first
  BY <1>1 DEF StartLoop
<1>2. CASE k.first
  <2> DEFINE n == p.loops + 1
             late == p.late \/ p.status # "loggedIn" \/ p.holds # k.token
             q == [p EXCEPT !.loops = n, !.known = TRUE, !.late = late]
  <2>1. n \in 0 .. MaxTokens + 1 /\ late \in BOOLEAN
    BY <1>2 DEF Pages
  <2> HIDE DEF n, late
  <2>2. q \in Pages
    BY <2>1, Zenon DEF Pages
  <2>3. /\ q.status = p.status /\ q.username = p.username /\ q.holds = p.holds
        /\ q.own = p.own /\ q.mixed = p.mixed /\ q.policies = p.policies
        /\ q.authorizer = p.authorizer /\ q.loops = n /\ q.known /\ q.late = late
    BY Zenon DEF Pages
  <2>4. StartLoop(p, k) = q
    BY <1>2 DEF StartLoop, n, late
  <2> HIDE DEF q
  <2> QED
    BY <1>2, <2>2, <2>3, <2>4 DEF n, late
<1> QED
  BY <1>1, <1>2

\* What FetchDone makes of a page whose policies were assigned.
Taken(page, k, m) ==
    [StartLoop(page, k) EXCEPT !.own = @ \/ k.token = page.holds, !.mixed = @ \/ m]

\* The page after a fetch that was answered.
LEMMA Fetched ==
    ASSUME NEW p \in Pages, p.username \in Users, NEW k \in Calls,
           k.first => p.loops + 1 \in 0 .. MaxTokens + 1,
           NEW page \in AssignPolicies(p, k.policies), NEW m \in BOOLEAN
    PROVE  LET q == Taken(page, k, m) IN
             /\ q \in Pages /\ q.status = p.status /\ q.username = p.username
             /\ q.holds = p.holds /\ (q.own <=> p.own \/ k.token = p.holds)
             /\ \/ /\ q.policies = p.policies /\ q.authorizer = p.authorizer
                   /\ k.policies.p = p.policies.p
                   /\ k.policies.enabled = p.policies.enabled
                \/ /\ q.policies = k.policies /\ q.authorizer.user = p.username
                   /\ q.authorizer.p = k.policies.p
             /\ IF k.first
                THEN /\ q.loops = p.loops + 1 /\ q.known
                     /\ q.late <=> \/ p.late \/ p.status # "loggedIn"
                                   \/ p.holds # k.token
                ELSE q.loops = p.loops /\ q.known = p.known /\ q.late = p.late
<1>1. k.policies \in Policies
  BY DEF Calls
<1>2. /\ page \in Pages /\ page.status = p.status /\ page.username = p.username
      /\ page.holds = p.holds /\ page.own = p.own /\ page.late = p.late
      /\ page.loops = p.loops /\ page.known = p.known
      /\ \/ /\ page.policies = p.policies /\ page.authorizer = p.authorizer
            /\ k.policies.p = p.policies.p /\ k.policies.enabled = p.policies.enabled
         \/ /\ page.policies = k.policies /\ page.authorizer.user = p.username
            /\ page.authorizer.p = k.policies.p
  BY <1>1, Assigned
<1> DEFINE r == StartLoop(page, k)
<1>3. /\ r \in Pages /\ r.status = p.status /\ r.username = p.username
      /\ r.holds = p.holds /\ r.own = p.own
      /\ r.policies = page.policies /\ r.authorizer = page.authorizer
      /\ IF k.first
         THEN /\ r.loops = p.loops + 1 /\ r.known
              /\ r.late <=> \/ p.late \/ p.status # "loggedIn" \/ p.holds # k.token
         ELSE r.loops = p.loops /\ r.known = p.known /\ r.late = p.late
  BY <1>2, Started
<1> HIDE DEF r
<1> DEFINE own == r.own \/ k.token = page.holds
           mixed == r.mixed \/ m
           q == [r EXCEPT !.own = own, !.mixed = mixed]
<1>4. own \in BOOLEAN /\ mixed \in BOOLEAN
  BY <1>3 DEF Pages
<1> HIDE DEF own, mixed
<1>5. q \in Pages
  BY <1>3, <1>4, Zenon DEF Pages
<1>6. /\ q.status = r.status /\ q.username = r.username /\ q.holds = r.holds
      /\ q.own = own /\ q.policies = r.policies /\ q.authorizer = r.authorizer
      /\ q.loops = r.loops /\ q.known = r.known /\ q.late = r.late
  BY <1>3, Zenon DEF Pages
<1> HIDE DEF q
<1>7. /\ q \in Pages /\ q.status = p.status /\ q.username = p.username
      /\ q.holds = p.holds /\ (q.own <=> p.own \/ k.token = p.holds)
      /\ \/ /\ q.policies = p.policies /\ q.authorizer = p.authorizer
            /\ k.policies.p = p.policies.p
            /\ k.policies.enabled = p.policies.enabled
         \/ /\ q.policies = k.policies /\ q.authorizer.user = p.username
            /\ q.authorizer.p = k.policies.p
      /\ IF k.first
         THEN /\ q.loops = p.loops + 1 /\ q.known
              /\ q.late <=> \/ p.late \/ p.status # "loggedIn" \/ p.holds # k.token
         ELSE q.loops = p.loops /\ q.known = p.known /\ q.late = p.late
  BY <1>2, <1>3, <1>5, <1>6 DEF own
<1> QED
  BY <1>7, Zenon DEF q, r, own, mixed, Taken

\* The invariant of a page of another status that has the same loops.
LEMMA AlikeInv ==
    ASSUME NEW p \in Pages, NEW q \in Pages, NEW own, NEW ev, PageInv(p, own, ev),
           Alike(p, q), q.known = p.known, q.loops = p.loops,
           p.known /\ ~p.late => q.status = p.status, q.status # "unknown",
           q.status = "loggedIn" => p.status = "loggedIn"
    PROVE  PageInv(q, own, ev)
<1>1. p.loops \in Nat
  BY DEF Pages
<1> QED
  BY <1>1 DEF PageInv, Alike, Can

\* A page signs in with a token of its user.
LEMMA SignedInInv ==
    ASSUME NEW p \in Pages, NEW n \in 1 .. MaxTokens, NEW user \in Users,
           NEW own, NEW ev, PageInv(p, own, ev), Len(own) \in Nat,
           n <= Len(own), own[n] = user
    PROVE  PageInv(SignIn(p, n, user), own, ev)
<1> DEFINE q == SignIn(p, n, user)
<1>1. /\ q.status = "loggedIn" /\ q.username = user /\ q.holds = n
      /\ ~q.own /\ ~q.known /\ q.late = p.late
      /\ q.policies = p.policies /\ q.authorizer = p.authorizer
      /\ q.loops = (IF p.known THEN p.loops - 1 ELSE p.loops)
  <2>1. n \in 0 .. MaxTokens /\ (p.known => p.loops > 0)
    BY DEF PageInv
  <2> QED
    BY <2>1, SignedIn
<1>2. p.loops \in Nat
  BY DEF Pages
<1> HIDE DEF q
<1>3. PageInv(q, own, ev)
  BY <1>1, <1>2 DEF PageInv
<1> QED
  BY <1>3 DEF q

\* A page takes on what a fetch brought.
LEMMA FetchedInv ==
    ASSUME NEW p \in Pages, NEW k \in Calls, NEW own, NEW dd, NEW ev,
           PageInv(p, own, ev), CallInv(k, own, dd, ev),
           k.kind = "fetch", k.answer = "ok", p.holds # 0, p.status # "unknown",
           k.first => p.loops + 1 \in 0 .. MaxTokens + 1,
           k.first /\ p.known /\ ~p.late => k.token # p.holds,
           NEW page \in AssignPolicies(p, k.policies), NEW m \in BOOLEAN
    PROVE  PageInv(Taken(page, k, m), own, ev)
<1> DEFINE q == Taken(page, k, m)
<1>1. p.username \in Users /\ own[p.holds] = p.username
  BY DEF PageInv
<1>2. /\ q \in Pages /\ q.status = p.status /\ q.username = p.username
      /\ q.holds = p.holds /\ (q.own <=> p.own \/ k.token = p.holds)
      /\ \/ /\ q.policies = p.policies /\ q.authorizer = p.authorizer
            /\ k.policies.p = p.policies.p
            /\ k.policies.enabled = p.policies.enabled
         \/ /\ q.policies = k.policies /\ q.authorizer.user = p.username
            /\ q.authorizer.p = k.policies.p
      /\ IF k.first
         THEN /\ q.loops = p.loops + 1 /\ q.known
              /\ q.late <=> \/ p.late \/ p.status # "loggedIn" \/ p.holds # k.token
         ELSE q.loops = p.loops /\ q.known = p.known /\ q.late = p.late
  BY <1>1, Fetched
<1> HIDE DEF q
<1>3. p.loops \in Nat /\ p.late \in BOOLEAN /\ p.known \in BOOLEAN /\ k.first \in BOOLEAN
  BY DEF Pages, Calls
<1>4. /\ q.holds \in 0 .. Len(own)
      /\ q.holds # 0 => q.username \in Users /\ own[q.holds] = q.username
      /\ q.status = "loggedIn" \/ q.loops > 0 \/ q.own => q.holds # 0
      /\ q.known => q.loops > 0
      /\ q.status = "unknown" => q.loops = 0
  BY <1>2, <1>3 DEF PageInv
<1>5. ~q.late => /\ q.loops = (IF q.known THEN 1 ELSE 0)
                 /\ q.known => q.status = "loggedIn"
  BY <1>2, <1>3 DEF PageInv
<1>6. q.authorizer.p = q.policies.p
  BY <1>2 DEF PageInv
<1>7. k.policies.p \subseteq {own[k.token]} \X Actions /\ Told(k.policies, ev)
  BY DEF CallInv
<1>8. ASSUME q.own, NEW a \in Actions, Can(q, a)
      PROVE  a \in ev[q.username]
  <2>1. CASE ~k.policies.enabled
    BY <1>1, <1>2, <1>7, <2>1 DEF Told
  <2>2. CASE k.policies.enabled /\ q.policies = k.policies /\ q.authorizer.user = p.username
             /\ q.authorizer.p = k.policies.p
    BY <1>1, <1>2, <1>7, <1>8, <2>2 DEF Told, Can
  <2>3. CASE k.policies.enabled /\ q.policies = p.policies /\ q.authorizer = p.authorizer
             /\ k.policies.p = p.policies.p /\ k.policies.enabled = p.policies.enabled
    <3>1. CASE p.own
      BY <1>2, <1>8, <2>3, <3>1 DEF PageInv, Can
    <3>2. CASE k.token = p.holds
      <4>1. <<q.authorizer.user, a>> \in k.policies.p
        BY <1>6, <1>8, <2>3 DEF Can
      <4>2. q.authorizer.user = p.username
        BY <1>1, <1>7, <3>2, <4>1
      <4> QED
        BY <1>1, <1>2, <1>7, <4>1, <4>2 DEF Told
    <3> QED
      BY <1>2, <1>8, <3>1, <3>2
  <2> QED
    BY <1>2, <2>1, <2>2, <2>3
<1>9. PageInv(q, own, ev)
  BY <1>4, <1>5, <1>6, <1>8 DEF PageInv
<1> QED
  BY <1>9 DEF q

---------------------------------------------------------------------------
\* The requests of a tab.

\* An empty slot is no request of any kind.
LEMMA Kinds ==
    /\ NoCall.kind = "none" /\ ~Starter(NoCall) /\ ~Unserved(NoCall)
    /\ \A k \in Calls : /\ k # NoCall
                        /\ k.kind \in {"check", "login", "fetch", "logout"}
BY DEF NoCall, Starter, Unserved, Calls

\* The requests of a tab with k in slot c.
With(cs, c, k) == [cs EXCEPT ![c] = k]

\* One request of a tab is replaced by another, or ended.
LEMMA Put ==
    ASSUME NEW t \in Tabs, NEW cs \in CallsOf(t), NEW c \in Slots[t],
           NEW k \in Calls \cup {NoCall}
    PROVE  LET ds == With(cs, c, k) IN
             /\ ds \in CallsOf(t) /\ ds[c] = k /\ \A d \in Slots[t] \ {c} : ds[d] = cs[d]
             /\ DOMAIN cs = Slots[t] /\ DOMAIN ds = Slots[t]
BY Zenon DEF CallsOf, With

\* The number of requests that may start a loop.
LEMMA Counted ==
    ASSUME NEW t \in Tabs, NEW cs \in CallsOf(t), NEW c \in Slots[t],
           NEW k \in Calls \cup {NoCall}
    PROVE  LET m == Cardinality(Starters(cs))
               n == Cardinality(Starters(With(cs, c, k))) IN
             /\ m \in Nat /\ n \in Nat
             /\ Starter(k) /\ ~Starter(cs[c]) => n = m + 1
             /\ ~Starter(k) /\ Starter(cs[c]) => n = m - 1
             /\ (Starter(k) <=> Starter(cs[c])) => n = m
<1> DEFINE ds == With(cs, c, k)
<1>1. /\ ds[c] = k /\ \A d \in Slots[t] \ {c} : ds[d] = cs[d]
      /\ DOMAIN cs = Slots[t] /\ DOMAIN ds = Slots[t]
  BY Put
<1> HIDE DEF ds
<1>2. IsFiniteSet(Starters(cs)) /\ IsFiniteSet(Starters(ds))
  BY <1>1, FS_Subset DEF Starters
<1>3. Cardinality(Starters(cs)) \in Nat /\ Cardinality(Starters(ds)) \in Nat
  BY <1>2, FS_CardinalityType
<1>4. ASSUME Starter(k), ~Starter(cs[c])
      PROVE  Cardinality(Starters(ds)) = Cardinality(Starters(cs)) + 1
  <2>1. Starters(ds) = Starters(cs) \cup {c} /\ c \notin Starters(cs)
    BY <1>1, <1>4 DEF Starters
  <2> QED
    BY <1>2, <2>1, FS_AddElement
<1>5. ASSUME ~Starter(k), Starter(cs[c])
      PROVE  Cardinality(Starters(ds)) = Cardinality(Starters(cs)) - 1
  <2>1. Starters(ds) = Starters(cs) \ {c} /\ c \in Starters(cs)
    BY <1>1, <1>5 DEF Starters
  <2> QED
    BY <1>2, <2>1, FS_RemoveElement
<1>6. ASSUME Starter(k) <=> Starter(cs[c])
      PROVE  Starters(ds) = Starters(cs)
  BY <1>1, <1>6 DEF Starters
<1> QED
  BY <1>3, <1>4, <1>5, <1>6 DEF ds

\* An answer is handled, and the page has no check and no fewer sign-ins.
LEMMA EndedJoint ==
    ASSUME NEW t \in Tabs, NEW p \in Pages, NEW q \in Pages, NEW cs \in CallsOf(t),
           NEW c \in Slots[t], NEW own, Len(own) \in Nat, JointInv(p, cs, own),
           cs[c] # NoCall, q.status # "unknown", q.holds = p.holds,
           q.loops <= p.loops + (IF Starter(cs[c]) THEN 1 ELSE 0),
           q.known /\ ~q.late =>
               \/ p.known /\ ~p.late
               \/ cs[c].kind = "fetch" /\ cs[c].first /\ cs[c].token = q.holds
    PROVE  JointInv(q, With(cs, c, NoCall), own)
<1> DEFINE ds == With(cs, c, NoCall)
           m == Cardinality(Starters(cs))
           n == Cardinality(Starters(ds))
<1>1. /\ ds[c] = NoCall /\ \A d \in Slots[t] \ {c} : ds[d] = cs[d]
      /\ DOMAIN cs = Slots[t] /\ DOMAIN ds = Slots[t]
  BY Put
<1>2. /\ m \in Nat /\ n \in Nat
      /\ IF Starter(cs[c]) THEN n = m - 1 ELSE n = m
  BY Counted, Kinds
<1> HIDE DEF ds, m, n
<1>3. p.loops \in Nat /\ q.loops \in Nat
  BY DEF Pages
<1>4. p.loops + m <= Len(own) + 1
  BY <1>1, <1>2, <1>3 DEF JointInv, m
<1>5. q.loops + n <= Len(own) + (IF Fresh(q, ds) THEN 0 ELSE 1)
  BY <1>2, <1>3, <1>4 DEF Fresh
<1>6. ASSUME NEW d \in Slots[t]
      PROVE  /\ ds[d].kind = "fetch" => q.holds # 0
             /\ ds[d].kind # "check"
             /\ q.known /\ ~q.late /\ ds[d].kind = "fetch" /\ ds[d].first =>
                   ds[d].token # q.holds
             /\ \A e \in Slots[t] :
                   d # e /\ Starter(ds[d]) /\ Starter(ds[e]) => ds[d].token # ds[e].token
  <2>1. CASE d = c
    BY <1>1, <2>1, Kinds
  <2>2. CASE d # c
    <3>1. ds[d] = cs[d]
      BY <1>1, <2>2
    <3>2. ds[d].kind # "check"
      BY <1>1, <2>2, <3>1 DEF JointInv
    <3>3. ASSUME q.known, ~q.late, ds[d].kind = "fetch", ds[d].first
          PROVE  ds[d].token # q.holds
      <4>1. CASE p.known /\ ~p.late
        BY <1>1, <3>1, <3>3, <4>1 DEF JointInv
      <4>2. CASE cs[c].kind = "fetch" /\ cs[c].first /\ cs[c].token = q.holds
        BY <1>1, <2>2, <3>1, <3>3, <4>2 DEF JointInv, Starter
      <4> QED
        BY <3>3, <4>1, <4>2
    <3>4. ASSUME NEW e \in Slots[t], d # e, Starter(ds[d]), Starter(ds[e])
          PROVE  ds[d].token # ds[e].token
      <4>1. e # c
        BY <1>1, <3>4, Kinds
      <4> QED
        BY <1>1, <3>1, <3>4, <4>1 DEF JointInv
    <3>5. ds[d].kind = "fetch" => q.holds # 0
      BY <1>1, <3>1 DEF JointInv
    <3> QED
      BY <3>2, <3>3, <3>4, <3>5
  <2> QED
    BY <2>1, <2>2
<1>7. JointInv(q, ds, own)
  BY <1>1, <1>5, <1>6 DEF JointInv, n
<1> QED
  BY <1>7 DEF ds

\* A sign-in, or the check of the stored token, was good: the policies are
\* fetched for the first time with its token.
LEMMA EnteredJoint ==
    ASSUME NEW t \in Tabs, NEW p \in Pages, NEW q \in Pages, NEW cs \in CallsOf(t),
           NEW c \in Slots[t], NEW own, Len(own) \in Nat, JointInv(p, cs, own),
           q.status # "unknown", q.holds # 0, ~q.known, q.loops <= p.loops,
           NEW k \in Calls, k.kind = "fetch", k.first,
           \/ cs[c].kind = "check"
           \/ cs[c].kind = "login" /\ cs[c].answer = "ok" /\ cs[c].token = k.token
    PROVE  JointInv(q, With(cs, c, k), own)
<1> DEFINE ds == With(cs, c, k)
           m == Cardinality(Starters(cs))
           n == Cardinality(Starters(ds))
<1>1. /\ ds[c] = k /\ \A d \in Slots[t] \ {c} : ds[d] = cs[d]
      /\ DOMAIN cs = Slots[t] /\ DOMAIN ds = Slots[t]
  BY Put
<1>2. Starter(k) /\ Starter(cs[c])
  BY DEF Starter
<1>3. m \in Nat /\ n = m
  BY <1>2, Counted
<1> HIDE DEF ds, m, n
<1>4. p.loops \in Nat /\ q.loops \in Nat
  BY DEF Pages
<1>5. p.loops + m <= Len(own) + 1
  BY <1>1, <1>3, <1>4 DEF JointInv, m
<1>6. q.loops + n <= Len(own) + (IF Fresh(q, ds) THEN 0 ELSE 1)
  BY <1>3, <1>4, <1>5 DEF Fresh
<1>7. cs[c].kind = "check" => \A d \in Slots[t] : d # c => cs[d] = NoCall
  BY <1>1 DEF JointInv
<1>8. ASSUME NEW d \in Slots[t]
      PROVE  /\ ds[d].kind # "check"
             /\ \A e \in Slots[t] :
                   d # e /\ Starter(ds[d]) /\ Starter(ds[e]) => ds[d].token # ds[e].token
  <2>1. ds[d].kind # "check"
    <3>1. CASE d = c
      BY <1>1, <3>1
    <3>2. CASE d # c /\ cs[c].kind = "check"
      BY <1>1, <1>7, <3>2, Kinds
    <3>3. CASE d # c /\ cs[c].kind # "check"
      <4>1. cs[c] # NoCall
        BY <3>3, Kinds
      <4> QED
        BY <1>1, <3>3, <4>1 DEF JointInv
    <3> QED
      BY <3>1, <3>2, <3>3
  <2>2. ASSUME NEW e \in Slots[t], d # e, Starter(ds[d]), Starter(ds[e])
        PROVE  ds[d].token # ds[e].token
    <3>1. CASE cs[c].kind = "check"
      BY <1>1, <1>7, <2>2, <3>1, Kinds
    <3>2. CASE cs[c].kind = "login" /\ cs[c].token = k.token
      <4>1. \A f \in Slots[t] : Starter(ds[f]) => Starter(cs[f]) /\ ds[f].token = cs[f].token
        BY <1>1, <1>2, <3>2
      <4> QED
        BY <1>1, <2>2, <4>1 DEF JointInv
    <3> QED
      BY <3>1, <3>2
  <2> QED
    BY <2>1, <2>2
<1>9. JointInv(q, ds, own)
  BY <1>1, <1>6, <1>8 DEF JointInv, n
<1> QED
  BY <1>9 DEF ds

\* A request is sent that does not start a loop.
LEMMA SentJoint ==
    ASSUME NEW t \in Tabs, NEW p \in Pages, NEW q \in Pages, NEW cs \in CallsOf(t),
           NEW c \in Slots[t], NEW own, Len(own) \in Nat, JointInv(p, cs, own),
           cs[c] = NoCall, p.status # "unknown", q.status # "unknown",
           q.loops = p.loops, q.holds = p.holds, q.known = p.known, q.late = p.late,
           NEW k \in Calls, ~Starter(k), k.kind = "fetch" => p.holds # 0
    PROVE  JointInv(q, With(cs, c, k), own)
<1> DEFINE ds == With(cs, c, k)
           m == Cardinality(Starters(cs))
           n == Cardinality(Starters(ds))
<1>1. /\ ds[c] = k /\ \A d \in Slots[t] \ {c} : ds[d] = cs[d]
      /\ DOMAIN cs = Slots[t] /\ DOMAIN ds = Slots[t]
  BY Put
<1>2. m \in Nat /\ n = m
  BY Counted, Kinds
<1> HIDE DEF ds, m, n
<1>3. p.loops \in Nat
  BY DEF Pages
<1>4. q.loops + n <= Len(own) + (IF Fresh(q, ds) THEN 0 ELSE 1)
  BY <1>1, <1>2, <1>3 DEF JointInv, m, Fresh
<1>5. \A d \in Slots[t] : Starter(ds[d]) => Starter(cs[d]) /\ ds[d] = cs[d]
  BY <1>1
<1>6. \A d \in Slots[t] : ds[d].kind # "check"
  BY <1>1, Kinds DEF JointInv, Starter
<1>7. ASSUME NEW d \in Slots[t]
      PROVE  /\ ds[d].kind = "fetch" => q.holds # 0
             /\ q.known /\ ~q.late /\ ds[d].kind = "fetch" /\ ds[d].first =>
                   ds[d].token # q.holds
             /\ \A e \in Slots[t] :
                   d # e /\ Starter(ds[d]) /\ Starter(ds[e]) => ds[d].token # ds[e].token
  BY <1>1, <1>5 DEF JointInv, Starter
<1>8. JointInv(q, ds, own)
  BY <1>1, <1>4, <1>6, <1>7 DEF JointInv, n
<1> QED
  BY <1>8 DEF ds

\* A page just loaded tries out the stored token.
LEMMA TriedJoint ==
    ASSUME NEW t \in Tabs, NEW p \in Pages, NEW cs \in CallsOf(t),
           NEW c \in Slots[t], NEW own, Len(own) \in Nat,
           \A d \in Slots[t] : cs[d] = NoCall, p.status = "unknown", p.loops = 0,
           NEW k \in Calls, k.kind = "check"
    PROVE  JointInv(p, With(cs, c, k), own)
<1> DEFINE ds == With(cs, c, k)
           m == Cardinality(Starters(cs))
           n == Cardinality(Starters(ds))
<1>1. /\ ds[c] = k /\ \A d \in Slots[t] \ {c} : ds[d] = cs[d]
      /\ DOMAIN cs = Slots[t] /\ DOMAIN ds = Slots[t]
  BY Put
<1>2. m = 0
  <2>1. Starters(cs) = {}
    BY <1>1, Kinds DEF Starters
  <2> QED
    BY <2>1, FS_EmptySet
<1>3. n = 1
  BY <1>2, Counted, Kinds DEF Starter
<1> HIDE DEF ds, m, n
<1>4. p.loops + n <= Len(own) + (IF Fresh(p, ds) THEN 0 ELSE 1)
  BY <1>1, <1>3, Kinds DEF Fresh
<1>5. \A d \in Slots[t] : d # c => ds[d] = NoCall
  BY <1>1
<1>6. \A d \in Slots[t] : ds[d].kind # "fetch"
  BY <1>1, <1>5, Kinds
<1>7. \A d \in Slots[t] : ds[d].kind = "check" => d = c
  BY <1>5, Kinds
<1>8. \A d \in Slots[t] : Starter(ds[d]) => d = c
  BY <1>5, Kinds
<1>9. \A d \in Slots[t] : ds[d] = NoCall \/ ds[d].kind = "check"
  BY <1>1, <1>5
<1>10. JointInv(p, ds, own)
  BY <1>1, <1>4, <1>5, <1>6, <1>7, <1>8, <1>9 DEF JointInv, n
<1> QED
  BY <1>10 DEF ds

\* A request is answered, and no sign-in granted.
LEMMA AnsweredJoint ==
    ASSUME NEW t \in Tabs, NEW p \in Pages, NEW cs \in CallsOf(t),
           NEW c \in Slots[t], NEW own, Len(own) \in Nat, JointInv(p, cs, own),
           cs[c] # NoCall, NEW k \in Calls, Starter(k) <=> Starter(cs[c]),
           k.kind = cs[c].kind, k.first = cs[c].first, k.token = cs[c].token
    PROVE  JointInv(p, With(cs, c, k), own)
<1> DEFINE ds == With(cs, c, k)
           m == Cardinality(Starters(cs))
           n == Cardinality(Starters(ds))
<1>1. /\ ds[c] = k /\ \A d \in Slots[t] \ {c} : ds[d] = cs[d]
      /\ DOMAIN cs = Slots[t] /\ DOMAIN ds = Slots[t]
  BY Put
<1>2. m \in Nat /\ n = m
  BY Counted
<1> HIDE DEF ds, m, n
<1>3. p.loops \in Nat
  BY DEF Pages
<1>4. ~Fresh(p, cs) /\ ~Fresh(p, ds)
  BY <1>1, Kinds DEF Fresh
<1>5. p.loops + n <= Len(own) + (IF Fresh(p, ds) THEN 0 ELSE 1)
  BY <1>1, <1>2, <1>3, <1>4 DEF JointInv, m
<1>6. \A d \in Slots[t] :
        /\ ds[d] = NoCall <=> cs[d] = NoCall
        /\ ds[d] # NoCall => /\ ds[d].kind = cs[d].kind /\ ds[d].first = cs[d].first
                             /\ ds[d].token = cs[d].token
        /\ Starter(ds[d]) <=> Starter(cs[d])
  BY <1>1, Kinds
<1>7. \A d \in Slots[t] : ds[d].kind \in {"check", "fetch"} \/ Starter(ds[d]) => ds[d] # NoCall
  BY Kinds
<1>8. ASSUME NEW d \in Slots[t]
      PROVE  /\ ds[d].kind = "fetch" => p.holds # 0
             /\ ds[d].kind = "check" =>
                p.status = "unknown" /\ \A e \in Slots[t] : e # d => ds[e] = NoCall
             /\ p.status = "unknown" => ds[d] = NoCall \/ ds[d].kind = "check"
             /\ p.known /\ ~p.late /\ ds[d].kind = "fetch" /\ ds[d].first =>
                   ds[d].token # p.holds
  BY <1>1, <1>6, <1>7 DEF JointInv
<1>9. ASSUME NEW d \in Slots[t], NEW e \in Slots[t], d # e, Starter(ds[d]), Starter(ds[e])
      PROVE  ds[d].token # ds[e].token
  BY <1>1, <1>6, <1>7, <1>9 DEF JointInv
<1>10. JointInv(p, ds, own)
  BY <1>1, <1>5, <1>8, <1>9 DEF JointInv, n
<1> QED
  BY <1>10 DEF ds

\* A sign-in is granted, with a token that no request carries.
LEMMA GrantedJoint ==
    ASSUME NEW t \in Tabs, NEW p \in Pages, NEW cs \in CallsOf(t),
           NEW c \in Slots[t], NEW own, NEW new, Len(own) \in Nat, Len(new) = Len(own) + 1,
           JointInv(p, cs, own), Unserved(cs[c]),
           NEW k \in Calls, k.kind = "login", k.answer = "ok", k.token = Len(new),
           \A d \in Slots[t] : cs[d] # NoCall => cs[d].token \in 0 .. Len(own)
    PROVE  JointInv(p, With(cs, c, k), new)
<1> DEFINE ds == With(cs, c, k)
           m == Cardinality(Starters(cs))
           n == Cardinality(Starters(ds))
<1>1. /\ ds[c] = k /\ \A d \in Slots[t] \ {c} : ds[d] = cs[d]
      /\ DOMAIN cs = Slots[t] /\ DOMAIN ds = Slots[t]
  BY Put
<1>2. Starter(k) /\ ~Starter(cs[c]) /\ cs[c] # NoCall
  BY Kinds DEF Starter, Unserved
<1>3. m \in Nat /\ n = m + 1
  BY <1>2, Counted
<1> HIDE DEF ds, m, n
<1>4. p.loops \in Nat
  BY DEF Pages
<1>5. ~Fresh(p, cs) /\ ~Fresh(p, ds)
  BY <1>1, <1>2, Kinds DEF Fresh
<1>6. p.loops + n <= Len(new) + (IF Fresh(p, ds) THEN 0 ELSE 1)
  BY <1>1, <1>3, <1>4, <1>5 DEF JointInv, m
<1>7. ASSUME NEW d \in Slots[t]
      PROVE  /\ ds[d].kind = "fetch" => p.holds # 0
             /\ ds[d].kind = "check" =>
                p.status = "unknown" /\ \A e \in Slots[t] : e # d => ds[e] = NoCall
             /\ p.status = "unknown" => ds[d] = NoCall \/ ds[d].kind = "check"
             /\ p.known /\ ~p.late /\ ds[d].kind = "fetch" /\ ds[d].first =>
                   ds[d].token # p.holds
  BY <1>1, <1>2 DEF JointInv, Unserved
<1>8. ASSUME NEW d \in Slots[t], NEW e \in Slots[t], d # e, Starter(ds[d]), Starter(ds[e])
      PROVE  ds[d].token # ds[e].token
  <2>1. \A f \in Slots[t] : Starter(ds[f]) => IF f = c THEN ds[f].token = Len(own) + 1
                            ELSE ds[f] = cs[f] /\ ds[f].token \in 0 .. Len(own)
    BY <1>1, Kinds
  <2>2. CASE d = c \/ e = c
    BY <1>8, <2>1, <2>2
  <2>3. CASE d # c /\ e # c
    BY <1>1, <1>8, <2>1, <2>3 DEF JointInv
  <2> QED
    BY <2>2, <2>3
<1>9. JointInv(p, ds, new)
  BY <1>1, <1>6, <1>7, <1>8 DEF JointInv, n
<1> QED
  BY <1>9 DEF ds

\* A tab without requests, that has started no more loops than there are tokens.
LEMMA QuietJoint ==
    ASSUME NEW t \in Tabs, NEW p \in Pages, NEW cs \in CallsOf(t),
           NEW own, Len(own) \in Nat, \A d \in Slots[t] : cs[d] = NoCall, p.loops = 0
    PROVE  JointInv(p, cs, own)
<1>1. DOMAIN cs = Slots[t]
  BY DEF CallsOf
<1>2. Starters(cs) = {}
  BY <1>1, Kinds DEF Starters
<1>3. Cardinality(Starters(cs)) = 0
  BY <1>2, FS_EmptySet
<1> QED
  BY <1>1, <1>3, Kinds DEF JointInv, Fresh

\* More tokens, more dead ones and more permissions take nothing from a tab.
LEMMA Grown ==
    ASSUME NEW t \in Tabs, NEW p \in Pages, NEW cs \in CallsOf(t),
           NEW own, NEW dd, NEW ev, NEW own2, NEW dd2, NEW ev2,
           TabInv(p, cs, own, dd, ev),
           Len(own) \in Nat, Len(own2) \in Nat, Len(own) <= Len(own2),
           \A n \in 1 .. Len(own) : own2[n] = own[n],
           dd \subseteq dd2, \A u \in Users : ev[u] \subseteq ev2[u]
    PROVE  TabInv(p, cs, own2, dd2, ev2)
<1>1. PageInv(p, own2, ev2)
  <2>1. p.holds # 0 => own2[p.holds] = own[p.holds]
    BY DEF TabInv, PageInv
  <2>2. p.own => p.username \in Users
    BY DEF TabInv, PageInv
  <2> QED
    BY <2>1, <2>2 DEF TabInv, PageInv
<1>2. JointInv(p, cs, own2)
  <2>1. p.loops + Cardinality(Starters(cs)) <= Len(own2) + (IF Fresh(p, cs) THEN 0 ELSE 1)
    <3>1. Cardinality(Starters(cs)) \in Nat
      <4>1. DOMAIN cs = Slots[t]
        BY DEF CallsOf
      <4>2. IsFiniteSet(Starters(cs))
        BY <4>1, FS_Subset DEF Starters
      <4> QED
        BY <4>2, FS_CardinalityType
    <3>2. p.loops \in Nat
      BY DEF Pages
    <3> QED
      BY <3>1, <3>2 DEF TabInv, JointInv
  <2> QED
    BY <2>1 DEF TabInv, JointInv
<1>3. ASSUME NEW c \in DOMAIN cs, cs[c] # NoCall
      PROVE  CallInv(cs[c], own2, dd2, ev2)
  <2>1. CallInv(cs[c], own, dd, ev)
    BY <1>3 DEF TabInv
  <2>2. cs[c].token # 0 => own2[cs[c].token] = own[cs[c].token]
    BY <2>1 DEF CallInv
  <2>3. Told(cs[c].policies, ev) => Told(cs[c].policies, ev2)
    BY DEF Told
  <2> QED
    BY <2>1, <2>2, <2>3 DEF CallInv
<1> QED
  BY <1>1, <1>2, <1>3 DEF TabInv

---------------------------------------------------------------------------
\* How the steps change the state.

\* The sign-ins that have not been answered, among the requests cl.
PendingIn(cl) ==
    {tc \in Tabs \X UNION {Slots[t] : t \in Tabs} :
        tc[2] \in Slots[tc[1]] /\ Unserved(cl[tc[1]][tc[2]])}

\* Pending is finite, now and after any step.
LEMMA PendingCount ==
    ASSUME NEW cl
    PROVE  IsFiniteSet(PendingIn(cl)) /\ Cardinality(PendingIn(cl)) \in Nat
<1>1. IsFiniteSet({Slots[t] : t \in Tabs})
  <2> DEFINE f == [t \in Tabs |-> Slots[t]]
  <2>1. f \in Surjection(Tabs, {Slots[t] : t \in Tabs})
    BY DEF Surjection
  <2> HIDE DEF f
  <2> QED
    BY <2>1, FS_Surjection
<1>2. IsFiniteSet(UNION {Slots[t] : t \in Tabs})
  <2> DEFINE all == {Slots[t] : t \in Tabs}
  <2>1. \A slots \in all : IsFiniteSet(slots)
    OBVIOUS
  <2>2. IsFiniteSet(all)
    BY <1>1
  <2> HIDE DEF all
  <2>3. IsFiniteSet(UNION all)
    BY <2>1, <2>2, FS_UNION
  <2> QED
    BY <2>3 DEF all
<1>3. IsFiniteSet(Tabs \X UNION {Slots[t] : t \in Tabs})
  BY <1>2, FS_Product
<1>4. IsFiniteSet(PendingIn(cl))
  BY <1>3, FS_Subset DEF PendingIn
<1> QED
  BY <1>4, FS_CardinalityType

\* No sign-in is sent.
LEMMA PendingFewer ==
    ASSUME NEW cl, NEW cl2,
           \A t \in Tabs : \A c \in Slots[t] : Unserved(cl2[t][c]) => Unserved(cl[t][c])
    PROVE  Cardinality(PendingIn(cl2)) <= Cardinality(PendingIn(cl))
<1>1. PendingIn(cl2) \subseteq PendingIn(cl)
  BY DEF PendingIn
<1> QED
  BY <1>1, PendingCount, FS_Subset

\* One sign-in is sent.
LEMMA PendingMore ==
    ASSUME NEW cl, NEW cl2, NEW t \in Tabs, NEW c \in Slots[t],
           \A s \in Tabs : \A d \in Slots[s] :
              Unserved(cl2[s][d]) => Unserved(cl[s][d]) \/ (s = t /\ d = c)
    PROVE  Cardinality(PendingIn(cl2)) <= Cardinality(PendingIn(cl)) + 1
<1>1. PendingIn(cl2) \subseteq PendingIn(cl) \cup {<<t, c>>}
  BY DEF PendingIn
<1>2. /\ IsFiniteSet(PendingIn(cl) \cup {<<t, c>>})
      /\ Cardinality(PendingIn(cl) \cup {<<t, c>>}) <= Cardinality(PendingIn(cl)) + 1
  <2> DEFINE a == PendingIn(cl)
             x == <<t, c>>
  <2>1. IsFiniteSet(a) /\ Cardinality(a) \in Nat
    BY PendingCount
  <2> HIDE DEF a, x
  <2>2. /\ IsFiniteSet(a \cup {x})
        /\ Cardinality(a \cup {x}) = IF x \in a THEN Cardinality(a) ELSE Cardinality(a) + 1
    BY <2>1, FS_AddElement, Zenon
  <2>3. Cardinality(a \cup {x}) <= Cardinality(a) + 1
    BY <2>1, <2>2
  <2> QED
    BY <2>2, <2>3 DEF a, x
<1>3. /\ Cardinality(PendingIn(cl2)) \in Nat /\ Cardinality(PendingIn(cl)) \in Nat
      /\ Cardinality(PendingIn(cl) \cup {<<t, c>>}) \in Nat
  BY <1>2, PendingCount, FS_CardinalityType
<1> QED
  BY <1>1, <1>2, <1>3, FS_Subset

\* One sign-in is answered.
LEMMA PendingAnswered ==
    ASSUME NEW cl, NEW cl2, NEW t \in Tabs, NEW c \in Slots[t],
           Unserved(cl[t][c]), ~Unserved(cl2[t][c]),
           \A s \in Tabs : \A d \in Slots[s] : Unserved(cl2[s][d]) => Unserved(cl[s][d])
    PROVE  Cardinality(PendingIn(cl2)) + 1 <= Cardinality(PendingIn(cl))
<1>1. PendingIn(cl2) \subseteq PendingIn(cl) \ {<<t, c>>}
  <2>1. <<t, c>> \notin PendingIn(cl2)
    BY DEF PendingIn
  <2>2. PendingIn(cl2) \subseteq PendingIn(cl)
    BY DEF PendingIn
  <2> QED
    BY <2>1, <2>2
<1>2. <<t, c>> \in PendingIn(cl)
  BY DEF PendingIn
<1>3. /\ IsFiniteSet(PendingIn(cl) \ {<<t, c>>})
      /\ Cardinality(PendingIn(cl) \ {<<t, c>>}) = Cardinality(PendingIn(cl)) - 1
  BY <1>2, PendingCount, FS_RemoveElement
<1>4. Cardinality(PendingIn(cl2)) <= Cardinality(PendingIn(cl) \ {<<t, c>>})
  BY <1>1, <1>3, FS_Subset
<1> QED
  BY <1>3, <1>4, PendingCount

\* What the inductive invariant says of a tab.
LEMMA TabFacts ==
    ASSUME IndInv, NEW t \in Tabs
    PROVE  /\ tab[t] \in Pages /\ call[t] \in CallsOf(t) /\ DOMAIN call[t] = Slots[t]
           /\ PageInv(tab[t], owner, ever) /\ JointInv(tab[t], call[t], owner)
           /\ owner \in Seq(Users) /\ Len(owner) \in Nat /\ Len(owner) <= MaxTokens
           /\ token \in 0 .. Len(owner) /\ MaxTokens \in Nat
           /\ \A c \in Slots[t] :
                 /\ call[t][c] \in Calls \cup {NoCall}
                 /\ call[t][c] # NoCall =>
                       call[t][c] \in Calls /\ CallInv(call[t][c], owner, dead, ever)
<1>1. call[t] \in CallsOf(t) /\ tab[t] \in Pages /\ owner \in Seq(Users)
      /\ Len(owner) <= MaxTokens /\ token \in 0 .. Len(owner)
  BY DEF IndInv, TypeOK, CallsOf
<1>2. DOMAIN call[t] = Slots[t] /\ \A c \in Slots[t] : call[t][c] \in Calls \cup {NoCall}
  BY <1>1 DEF CallsOf
<1>3. TabInv(tab[t], call[t], owner, dead, ever)
  BY DEF IndInv
<1>4. Len(owner) \in Nat
  BY <1>1
<1> QED
  BY <1>1, <1>2, <1>3, <1>4 DEF TabInv

\* Pending is the set of the sign-ins that are not answered.
LEMMA PendingIs == Pending = PendingIn(call)
BY DEF Pending, PendingIn, Unserved

\* A step of one tab, which leaves the server alone.
LEMMA BrowserStep ==
    ASSUME IndInv, NEW t \in Tabs, NEW q \in Pages, NEW ds \in CallsOf(t),
           tab' = [tab EXCEPT ![t] = q], call' = [call EXCEPT ![t] = ds],
           UNCHANGED <<owner, dead, enabled, granted, ever>>,
           token' \in 0 .. Len(owner), events' \in 0 .. MaxEvents,
           TabInv(q, ds, owner, dead, ever),
           Len(owner) + Cardinality(PendingIn(call')) <= MaxTokens
    PROVE  IndInv'
<1>1. /\ tab' \in [Tabs -> Pages] /\ tab'[t] = q
      /\ \A s \in Tabs \ {t} : tab'[s] = tab[s]
  BY DEF IndInv, TypeOK
<1>2. /\ call' = [s \in Tabs |-> call'[s]] /\ call'[t] = ds
      /\ \A s \in Tabs \ {t} : call'[s] = call[s]
  BY DEF IndInv
<1>3. \A s \in Tabs : call'[s] \in [Slots[s] -> Calls \cup {NoCall}]
  BY <1>2 DEF IndInv, TypeOK, CallsOf
<1>4. TypeOK'
  BY <1>1, <1>3 DEF IndInv, TypeOK
<1>5. \A s \in Tabs : TabInv(tab'[s], call'[s], owner', dead', ever')
  BY <1>1, <1>2 DEF IndInv
<1>6. Pending' = PendingIn(call')
  BY DEF Pending, PendingIn, Unserved
<1> QED
  BY <1>2, <1>4, <1>5, <1>6 DEF IndInv

\* One request of a tab is sent, replaced or ended, and its page changed.
LEMMA BrowserPut ==
    ASSUME IndInv, NEW t \in Tabs, NEW c \in Slots[t], NEW q \in Pages,
           NEW k \in Calls \cup {NoCall},
           tab' = [tab EXCEPT ![t] = q],
           call' = [call EXCEPT ![t] = With(call[t], c, k)],
           UNCHANGED <<owner, dead, enabled, granted, ever>>,
           token' \in 0 .. Len(owner), events' \in 0 .. MaxEvents,
           PageInv(q, owner, ever), JointInv(q, With(call[t], c, k), owner),
           k # NoCall => CallInv(k, owner, dead, ever),
           Unserved(k) => Len(owner) + Cardinality(Pending) < MaxTokens
    PROVE  IndInv'
<1> DEFINE ds == With(call[t], c, k)
<1>1. /\ ds \in CallsOf(t) /\ ds[c] = k /\ DOMAIN ds = Slots[t]
      /\ \A d \in Slots[t] \ {c} : ds[d] = call[t][d]
  BY TabFacts, Put
<1> HIDE DEF ds
<1>2. call' = [call EXCEPT ![t] = ds]
  BY DEF ds
<1>3. TabInv(q, ds, owner, dead, ever)
  <2>1. \A d \in Slots[t] : ds[d] # NoCall => CallInv(ds[d], owner, dead, ever)
    BY <1>1, TabFacts
  <2> QED
    BY <1>1, <2>1 DEF TabInv, ds
<1>4. \A s \in Tabs : \A d \in Slots[s] :
         call'[s][d] = IF s = t /\ d = c THEN k ELSE call[s][d]
  BY <1>1, <1>2 DEF IndInv
<1>5. Len(owner) + Cardinality(PendingIn(call')) <= MaxTokens
  <2>1. /\ Len(owner) \in Nat /\ MaxTokens \in Nat /\ Cardinality(PendingIn(call)) \in Nat
        /\ Cardinality(PendingIn(call')) \in Nat
    BY TabFacts, PendingCount
  <2>2. CASE Unserved(k)
    <3>1. Cardinality(PendingIn(call')) <= Cardinality(PendingIn(call)) + 1
      <4>1. \A s \in Tabs : \A d \in Slots[s] :
              Unserved(call'[s][d]) => Unserved(call[s][d]) \/ (s = t /\ d = c)
        BY <1>4
      <4> QED
        BY <4>1, PendingMore
    <3> QED
      BY <2>1, <2>2, <3>1, PendingIs
  <2>3. CASE ~Unserved(k)
    <3>1. \A s \in Tabs : \A d \in Slots[s] : Unserved(call'[s][d]) => Unserved(call[s][d])
      BY <1>4, <2>3
    <3>2. Cardinality(PendingIn(call')) <= Cardinality(PendingIn(call))
      BY <3>1, PendingFewer
    <3>3. Len(owner) + Cardinality(PendingIn(call)) <= MaxTokens
      BY PendingIs DEF IndInv
    <3> QED
      BY <2>1, <3>2, <3>3
  <2> QED
    BY <2>2, <2>3
<1> QED
  BY <1>1, <1>2, <1>3, <1>5, BrowserStep

\* A tab without requests gets a page that runs no loop.
LEMMA BrowserQuiet ==
    ASSUME IndInv, NEW t \in Tabs, NEW q \in Pages, NEW ds \in CallsOf(t),
           tab' = [tab EXCEPT ![t] = q], call' = [call EXCEPT ![t] = ds],
           UNCHANGED <<owner, dead, enabled, granted, ever>>,
           token' \in 0 .. Len(owner), events' \in 0 .. MaxEvents,
           \A c \in Slots[t] : ds[c] = NoCall, q.loops = 0, PageInv(q, owner, ever)
    PROVE  IndInv'
<1>1. JointInv(q, ds, owner)
  BY TabFacts, QuietJoint
<1>2. DOMAIN ds = Slots[t]
  BY DEF CallsOf
<1>3. TabInv(q, ds, owner, dead, ever)
  BY <1>1, <1>2 DEF TabInv
<1>4. \A s \in Tabs : \A d \in Slots[s] :
         call'[s][d] = IF s = t THEN NoCall ELSE call[s][d]
  BY DEF IndInv
<1>5. \A s \in Tabs : \A d \in Slots[s] : Unserved(call'[s][d]) => Unserved(call[s][d])
  BY <1>4, Kinds
<1>6. Cardinality(PendingIn(call')) <= Cardinality(PendingIn(call))
  BY <1>5, PendingFewer
<1>7. Len(owner) + Cardinality(PendingIn(call)) <= MaxTokens
  BY PendingIs DEF IndInv
<1>8. /\ Len(owner) \in Nat /\ MaxTokens \in Nat /\ Cardinality(PendingIn(call)) \in Nat
      /\ Cardinality(PendingIn(call')) \in Nat
  BY TabFacts, PendingCount
<1>9. Len(owner) + Cardinality(PendingIn(call')) <= MaxTokens
  BY <1>6, <1>7, <1>8
<1> QED
  BY <1>3, <1>9, BrowserStep

---------------------------------------------------------------------------
\* Requests are sent.

\* A request that is not the first fetch.
Plain(kind, page, user) == Request(kind, page, user, FALSE)

\* A request carries the stored token, or none.
LEMMA Requested ==
    ASSUME IndInv, NEW t \in Tabs, NEW kind \in {"check", "login", "fetch", "logout"},
           NEW user \in Users \cup {NoUser}
    PROVE  LET k == Plain(kind, tab[t], user) IN
             /\ k \in Calls /\ k.kind = kind /\ k.user = user /\ ~k.first
             /\ k.answer = "none" /\ k.token \in 0 .. Len(owner)
             /\ kind = "check" => k.token = token
<1>1. /\ token \in 0 .. MaxTokens /\ 0 \in 0 .. MaxTokens
      /\ token \in 0 .. Len(owner) /\ 0 \in 0 .. Len(owner)
  BY TabFacts
<1>2. tab[t].guarded \in BOOLEAN
  BY TabFacts DEF Pages
<1>3. NoPolicies \in Policies
  BY DEF NoPolicies, Policies
<1> DEFINE n == IF tab[t].guarded \/ kind = "check" THEN token ELSE NoToken
<1>4. n \in 0 .. MaxTokens /\ n \in 0 .. Len(owner) /\ (kind = "check" => n = token)
  BY <1>1 DEF NoToken
<1> HIDE DEF n
<1> DEFINE k == [kind |-> kind, user |-> user, token |-> n, guarded |-> tab[t].guarded,
                 first |-> FALSE, answer |-> "none", policies |-> NoPolicies]
<1>5. k \in Calls
  BY <1>2, <1>3, <1>4 DEF Calls
<1>6. k.kind = kind /\ k.user = user /\ ~k.first /\ k.answer = "none" /\ k.token = n
  OBVIOUS
<1>7. Plain(kind, tab[t], user) = k
  BY DEF Plain, Request, n
<1> QED
  BY <1>4, <1>5, <1>6, <1>7

\* A request that starts no loop, from a page whose status or route may change.
LEMMA SendInv ==
    ASSUME IndInv, NEW t \in Tabs, NEW c \in Free(t), NEW q \in Pages, Alike(tab[t], q),
           q.known = tab[t].known, q.loops = tab[t].loops,
           tab[t].known /\ ~tab[t].late => q.status = tab[t].status,
           q.status = "loggedIn" => tab[t].status = "loggedIn",
           tab[t].status # "unknown", q.status # "unknown",
           NEW k \in Calls, k.kind \in {"login", "fetch", "logout"}, ~k.first,
           k.answer = "none", k.token \in 0 .. Len(owner),
           k.kind = "fetch" => tab[t].holds # 0,
           k.kind = "login" =>
              k.user \in Users /\ Len(owner) + Cardinality(Pending) < MaxTokens,
           tab' = [tab EXCEPT ![t] = q], call' = [call EXCEPT ![t][c] = k],
           events' \in 0 .. MaxEvents,
           UNCHANGED <<owner, dead, enabled, granted, token, ever>>
    PROVE  IndInv'
<1>1. c \in Slots[t] /\ call[t][c] = NoCall
  BY DEF Free
<1>3. call' = [call EXCEPT ![t] = With(call[t], c, k)]
  BY Zenon DEF With
<1>4. CallInv(k, owner, dead, ever)
  BY DEF CallInv
<1>5. ~Starter(k)
  BY DEF Starter
<1>6. PageInv(q, owner, ever)
  BY TabFacts, AlikeInv
<1>7. JointInv(q, With(call[t], c, k), owner)
  BY <1>1, <1>5, TabFacts, SentJoint DEF Alike
<1>8. Unserved(k) => Len(owner) + Cardinality(Pending) < MaxTokens
  BY DEF Unserved
<1> QED
  BY <1>1, <1>3, <1>4, <1>6, <1>7, <1>8, TabFacts, BrowserPut

\* A tab's status, when it has requests or loops.
LEMMA Unloaded ==
    ASSUME IndInv, NEW t \in Tabs
    PROVE  /\ tab[t].loops > 0 => tab[t].status # "unknown" /\ tab[t].holds # 0
           /\ \A c \in Slots[t] :
                 /\ call[t][c] # NoCall /\ call[t][c].kind # "check" =>
                       tab[t].status # "unknown"
                 /\ call[t][c].kind = "check" => tab[t].status = "unknown"
<1>1. tab[t].loops \in Nat
  BY TabFacts DEF Pages
<1> QED
  BY <1>1, TabFacts DEF PageInv, JointInv

\* The sign-in form.
LEMMA LoginInv ==
    ASSUME IndInv, NEW t \in Tabs, NEW u \in Users, Login(t, u)
    PROVE  IndInv'
<1>1. PICK c \in Free(t) :
         call' = [call EXCEPT ![t][c] = Request("login", tab[t], u, FALSE)]
  BY DEF Login
<1> DEFINE q == SigningIn(tab[t])
<1>2. /\ q \in Pages /\ q.status = "loggingIn" /\ Alike(tab[t], q)
      /\ q.known = tab[t].known /\ q.loops = tab[t].loops
  BY TabFacts, Shown
<1> HIDE DEF q
<1>3. tab' = [tab EXCEPT ![t] = q]
  BY Zenon DEF Login, q, SigningIn
<1>4. /\ tab[t].known /\ ~tab[t].late => q.status = tab[t].status
      /\ tab[t].status # "unknown" /\ tab' = [tab EXCEPT ![t] = q]
      /\ Len(owner) + Cardinality(Pending) < MaxTokens /\ events' \in 0 .. MaxEvents
      /\ UNCHANGED <<owner, dead, enabled, granted, token, ever>>
  BY <1>3, TabFacts DEF Login, PageInv, IndInv, TypeOK
<1> DEFINE k == Plain("login", tab[t], u)
<1>5. /\ k \in Calls /\ k.kind = "login" /\ k.user = u /\ ~k.first
      /\ k.answer = "none" /\ k.token \in 0 .. Len(owner)
  BY Requested
<1>6. call' = [call EXCEPT ![t][c] = k]
  BY <1>1, Zenon DEF Plain
<1> HIDE DEF k
<1> QED
  BY <1>2, <1>4, <1>5, <1>6, SendInv

\* A page shows what it showed, when a request is sent.
LEMMA SameAlike == \A p : Alike(p, p)
BY DEF Alike

\* "Log out" is chosen.
LEMMA LogOutInv ==
    ASSUME IndInv, NEW t \in Tabs, LogOut(t)
    PROVE  IndInv'
<1> DEFINE k == Plain("logout", tab[t], NoUser)
<1>1. PICK c \in Free(t) : call' = [call EXCEPT ![t][c] = k]
  BY Zenon DEF LogOut, Plain
<1>2. /\ k \in Calls /\ k.kind = "logout" /\ k.user = NoUser /\ ~k.first
      /\ k.answer = "none" /\ k.token \in 0 .. Len(owner)
  BY Requested
<1> HIDE DEF k
<1>3. /\ tab[t].status = "loggedIn" /\ tab' = [tab EXCEPT ![t] = tab[t]]
      /\ events' \in 0 .. MaxEvents
      /\ UNCHANGED <<owner, dead, enabled, granted, token, ever>>
  BY DEF LogOut, IndInv, TypeOK
<1> QED
  BY <1>1, <1>2, <1>3, TabFacts, SameAlike, SendInv

\* The page /logout signs out.
LEMMA AutoLogoutInv ==
    ASSUME IndInv, NEW t \in Tabs, AutoLogout(t)
    PROVE  IndInv'
<1> DEFINE k == Plain("logout", tab[t], NoUser)
           q == Leaving(tab[t])
<1>1. PICK c \in Free(t) : call' = [call EXCEPT ![t][c] = k]
  BY Zenon DEF AutoLogout, Plain
<1>2. /\ k \in Calls /\ k.kind = "logout" /\ k.user = NoUser /\ ~k.first
      /\ k.answer = "none" /\ k.token \in 0 .. Len(owner)
  BY Requested
<1>3. /\ q \in Pages /\ q.status = tab[t].status /\ Alike(tab[t], q)
      /\ q.known = tab[t].known /\ q.loops = tab[t].loops
  BY TabFacts, Shown
<1> HIDE DEF k
<1>4. tab' = [tab EXCEPT ![t] = q]
  BY Zenon DEF AutoLogout, Leaving
<1> HIDE DEF q
<1>5. /\ tab[t].status = "loggedIn" /\ events' \in 0 .. MaxEvents
      /\ UNCHANGED <<owner, dead, enabled, granted, token, ever>>
  BY DEF AutoLogout, IndInv, TypeOK
<1> QED
  BY <1>1, <1>2, <1>3, <1>4, <1>5, SendInv

\* A loop fetches the policies again.
LEMMA RefreshInv ==
    ASSUME IndInv, NEW t \in Tabs, Refresh(t)
    PROVE  IndInv'
<1> DEFINE k == Plain("fetch", tab[t], NoUser)
<1>1. PICK c \in Free(t) : call' = [call EXCEPT ![t][c] = k]
  BY Zenon DEF Refresh, Plain
<1>2. /\ k \in Calls /\ k.kind = "fetch" /\ k.user = NoUser /\ ~k.first
      /\ k.answer = "none" /\ k.token \in 0 .. Len(owner)
  BY Requested
<1> HIDE DEF k
<1>3. /\ tab[t].loops > 0 /\ tab' = [tab EXCEPT ![t] = tab[t]]
      /\ events' \in 0 .. MaxEvents
      /\ UNCHANGED <<owner, dead, enabled, granted, token, ever>>
  BY DEF Refresh, IndInv, TypeOK
<1>4. tab[t].status # "unknown" /\ tab[t].holds # 0
  BY <1>3, Unloaded
<1> QED
  BY <1>1, <1>2, <1>3, <1>4, TabFacts, SameAlike, SendInv

\* A page is loaded.
LEMMA VisitInv ==
    ASSUME IndInv, NEW t \in Tabs, NEW route \in {"app", "logout"}, Visit(t, route),
           UNCHANGED <<owner, dead, enabled, granted, ever>>,
           token' \in 0 .. Len(owner), events' \in 0 .. MaxEvents
    PROVE  IndInv'
<1> DEFINE q == Loaded(route)
           ds == [c \in Slots[t] |-> NoCall]
<1>1. /\ q \in Pages /\ q.status = "unknown" /\ q.loops = 0 /\ ~q.known /\ ~q.own
      /\ ~q.late /\ q.holds = 0 /\ q.authorizer.p = q.policies.p
  BY LoadedPage
<1> HIDE DEF q
<1>2. PageInv(q, owner, ever)
  BY <1>1, TabFacts DEF PageInv
<1>3. ds \in CallsOf(t) /\ \A c \in Slots[t] : ds[c] = NoCall
  BY DEF CallsOf
<1>4. tab' = [tab EXCEPT ![t] = q] /\ call' = [call EXCEPT ![t] = ds]
  BY DEF Visit, q
<1> HIDE DEF ds
<1> QED
  BY <1>1, <1>2, <1>3, <1>4, BrowserQuiet

\* The user loads the page again.
LEMMA ReloadInv ==
    ASSUME IndInv, NEW t \in Tabs, Reload(t)
    PROVE  IndInv'
<1>1. /\ Visit(t, "app") /\ UNCHANGED <<owner, dead, enabled, granted, ever>>
      /\ token' \in 0 .. Len(owner) /\ events' \in 0 .. MaxEvents
  BY DEF Reload, IndInv, TypeOK
<1> QED
  BY <1>1, VisitInv

\* A page just loaded tries out the stored token, or signs out without one.
LEMMA LoadInv ==
    ASSUME IndInv, NEW t \in Tabs, Load(t)
    PROVE  IndInv'
<1>1. /\ tab[t].status = "unknown" /\ \A c \in Slots[t] : call[t][c] = NoCall
      /\ tab[t].loops = 0 /\ ~tab[t].known /\ events' \in 0 .. MaxEvents
      /\ UNCHANGED <<owner, dead, enabled, granted, ever>>
  BY TabFacts DEF Load, PageInv, IndInv, TypeOK, Pages
<1>2. CASE token = NoToken
  <2> DEFINE q == Out(tab[t])
  <2>1. Left(tab[t], q)
    BY TabFacts, LeftPage DEF PageInv
  <2>2. token' = NoToken /\ tab' = [tab EXCEPT ![t] = q] /\ call' = call
    BY <1>2, Zenon DEF Load, SignOut, Out
  <2> HIDE DEF q
  <2>3. q \in Pages /\ q.loops = 0 /\ PageInv(q, owner, ever)
    <3>1. tab[t].loops = 0 /\ tab[t].known = FALSE
      BY <1>1, TabFacts DEF Pages
    <3>2. q.loops = 0
      BY <2>1, <3>1 DEF Left
    <3>3. q \in Pages
      BY <2>1 DEF Left
    <3> QED
      BY <2>1, <3>2, <3>3, TabFacts, LeftInv
  <2>4. call' = [call EXCEPT ![t] = call[t]] /\ token' \in 0 .. Len(owner)
    <3>1. call = [s \in Tabs |-> call[s]]
      BY DEF IndInv
    <3>2. call = [call EXCEPT ![t] = call[t]]
      BY <3>1
    <3> QED
      BY <2>2, <3>2, TabFacts DEF NoToken
  <2> QED
    BY <1>1, <2>2, <2>3, <2>4, TabFacts, BrowserQuiet
<1>3. CASE token # NoToken
  <2>1. owner[token] \in Users /\ token \in 1 .. Len(owner)
    BY <1>3, TabFacts DEF NoToken
  <2> DEFINE k == Plain("check", tab[t], owner[token])
  <2>2. PICK c \in Free(t) : call' = [call EXCEPT ![t][c] = k]
    <3>1. \E c \in Free(t) :
             call' = [call EXCEPT ![t][c] = Request("check", tab[t], owner[token], FALSE)]
      BY <1>3 DEF Load
    <3> QED
      BY <3>1, Zenon DEF Plain
  <2>3. /\ k \in Calls /\ k.kind = "check" /\ k.user = owner[token] /\ ~k.first
        /\ k.answer = "none" /\ k.token = token
    BY <2>1, Requested
  <2> HIDE DEF k
  <2>4. c \in Slots[t] /\ call' = [call EXCEPT ![t] = With(call[t], c, k)]
    BY <2>2, Zenon DEF With, Free
  <2>5. CallInv(k, owner, dead, ever)
    BY <2>1, <2>3, TabFacts DEF CallInv
  <2>6. JointInv(tab[t], With(call[t], c, k), owner)
    BY <1>1, <2>3, <2>4, TabFacts, TriedJoint
  <2>7. /\ tab' = [tab EXCEPT ![t] = tab[t]] /\ token' \in 0 .. Len(owner)
    BY <1>3, TabFacts DEF Load, IndInv, TypeOK
  <2>8. ~Unserved(k)
    BY <2>3 DEF Unserved
  <2> QED
    BY <1>1, <2>3, <2>4, <2>5, <2>6, <2>7, <2>8, TabFacts, BrowserPut
<1> QED
  BY <1>2, <1>3

---------------------------------------------------------------------------
\* Answers are handled.

\* An answer.
LEMMA AnswerFacts ==
    ASSUME IndInv, NEW t \in Tabs, NEW c \in Slots[t], NEW kind, Answered(t, c, kind)
    PROVE  /\ call[t][c] # NoCall /\ call[t][c] \in Calls /\ call[t][c].kind = kind
           /\ call[t][c].answer # "none" /\ CallInv(call[t][c], owner, dead, ever)
           /\ kind # "check" => tab[t].status # "unknown"
           /\ tab[t].known => tab[t].loops > 0
BY TabFacts, Unloaded DEF Answered, PageInv

\* The answer ends the request and the page is left.
LEMMA LeaveInv ==
    ASSUME IndInv, NEW t \in Tabs, NEW c \in Slots[t], call[t][c] # NoCall,
           NEW q, Left(tab[t], q), tab' = [tab EXCEPT ![t] = q], End(t, c),
           UNCHANGED <<owner, dead, enabled, granted, ever, events>>,
           token' \in 0 .. Len(owner)
    PROVE  IndInv'
<1>1. PageInv(q, owner, ever) /\ q \in Pages
  BY TabFacts, LeftInv DEF Left
<1>2. tab[t].loops \in Nat /\ (tab[t].known => tab[t].loops > 0)
  BY TabFacts DEF Pages, PageInv
<1>3. /\ q.loops <= tab[t].loops + (IF Starter(call[t][c]) THEN 1 ELSE 0)
      /\ q.status # "unknown" /\ q.holds = tab[t].holds /\ ~q.known
  BY <1>2 DEF Left, Alike
<1>4. JointInv(q, With(call[t], c, NoCall), owner)
  BY <1>1, <1>3, TabFacts, EndedJoint
<1>5. call' = [call EXCEPT ![t] = With(call[t], c, NoCall)]
  BY Zenon DEF End, With
<1>6. events' \in 0 .. MaxEvents
  BY DEF IndInv, TypeOK
<1> QED
  BY <1>1, <1>4, <1>5, <1>6, Kinds, BrowserPut

\* The answer changes nothing on the page.
LEMMA IgnoreInv ==
    ASSUME IndInv, NEW t \in Tabs, NEW c \in Slots[t], call[t][c] # NoCall,
           tab[t].status # "unknown", End(t, c),
           UNCHANGED <<owner, dead, enabled, granted, ever, events, token, tab>>
    PROVE  IndInv'
<1>1. tab[t].loops \in Nat
  BY TabFacts DEF Pages
<1>2. tab[t].loops <= tab[t].loops + (IF Starter(call[t][c]) THEN 1 ELSE 0)
  BY <1>1
<1>3. JointInv(tab[t], With(call[t], c, NoCall), owner)
  BY <1>2, TabFacts, EndedJoint
<1>4. call' = [call EXCEPT ![t] = With(call[t], c, NoCall)]
  BY Zenon DEF End, With
<1>5. /\ events' \in 0 .. MaxEvents /\ token' \in 0 .. Len(owner)
      /\ tab' = [tab EXCEPT ![t] = tab[t]]
  BY DEF IndInv, TypeOK
<1> QED
  BY <1>3, <1>4, <1>5, TabFacts, Kinds, BrowserPut

\* The first fetch, with the token stored.
First(page, stored) == [Request("fetch", page, NoUser, TRUE) EXCEPT !.token = stored]

\* It is a fetch that has not been answered.
LEMMA FirstRequest ==
    ASSUME NEW p \in Pages, NEW n \in 0 .. MaxTokens, token \in 0 .. MaxTokens
    PROVE  LET k == First(p, n) IN
             /\ k \in Calls /\ k.kind = "fetch" /\ k.first /\ k.token = n
             /\ k.answer = "none" /\ k.user = NoUser
<1>1. p.guarded \in BOOLEAN /\ NoPolicies \in Policies /\ TRUE \in BOOLEAN
  BY DEF Pages, NoPolicies, Policies
<1> DEFINE m == IF p.guarded \/ "fetch" = "check" THEN token ELSE NoToken
<1>2. m \in 0 .. MaxTokens
  BY DEF NoToken
<1> HIDE DEF m
<1> DEFINE r == [kind |-> "fetch", user |-> NoUser, token |-> m, guarded |-> p.guarded,
                 first |-> TRUE, answer |-> "none", policies |-> NoPolicies]
<1>3. r \in Calls
  BY <1>1, <1>2 DEF Calls
<1>4. /\ r.kind = "fetch" /\ r.first /\ r.answer = "none" /\ r.user = NoUser
      /\ Request("fetch", p, NoUser, TRUE) = r
  BY DEF Request, m
<1> HIDE DEF r
<1> DEFINE k == [r EXCEPT !.token = n]
<1>5. /\ k \in Calls /\ k.kind = r.kind /\ k.first = r.first /\ k.token = n
      /\ k.answer = r.answer /\ k.user = r.user
  BY <1>3, Zenon DEF Calls
<1>6. First(p, n) = k
  BY <1>4 DEF First
<1> HIDE DEF k
<1> QED
  BY <1>4, <1>5, <1>6

\* A tab is signed in and fetches the policies for the first time.
LEMMA EnterInv ==
    ASSUME IndInv, NEW t \in Tabs, NEW c \in Slots[t], call[t][c] # NoCall,
           NEW n \in 1 .. Len(owner), owner[n] \in Users,
           NEW stored \in 0 .. Len(owner), Enter(t, c, n, owner[n], stored),
           \/ call[t][c].kind = "check"
           \/ call[t][c].kind = "login" /\ call[t][c].answer = "ok"
              /\ call[t][c].token = stored,
           UNCHANGED <<owner, dead, enabled, granted, ever, events>>,
           token' \in 0 .. Len(owner)
    PROVE  IndInv'
<1> DEFINE q == SignIn(tab[t], n, owner[n])
           k == First(q, stored)
<1>1. /\ n \in 1 .. MaxTokens /\ n \in 0 .. MaxTokens /\ stored \in 0 .. MaxTokens
      /\ token \in 0 .. MaxTokens /\ n # 0
  BY TabFacts
<1>2. tab[t].known => tab[t].loops > 0
  BY TabFacts DEF PageInv
<1>3. /\ q \in Pages /\ q.status = "loggedIn" /\ q.holds = n /\ ~q.known
      /\ q.loops = (IF tab[t].known THEN tab[t].loops - 1 ELSE tab[t].loops)
  BY <1>1, <1>2, TabFacts, SignedIn
<1>4. PageInv(q, owner, ever)
  BY <1>1, TabFacts, SignedInInv
<1>5. /\ k \in Calls /\ k.kind = "fetch" /\ k.first /\ k.token = stored
      /\ k.answer = "none" /\ k.user = NoUser
  BY <1>1, <1>3, FirstRequest
<1>6. /\ tab' = [tab EXCEPT ![t] = q]
      /\ call' = [call EXCEPT ![t] = With(call[t], c, k)]
  BY Zenon DEF Enter, First, With
<1> HIDE DEF q, k
<1>7. tab[t].loops \in Nat /\ q.loops <= tab[t].loops
  <2>1. tab[t].loops \in Nat
    BY TabFacts DEF Pages
  <2> QED
    BY <1>3, <2>1
<1>8. JointInv(q, With(call[t], c, k), owner)
  BY <1>1, <1>3, <1>5, <1>7, TabFacts, EnteredJoint
<1>9. CallInv(k, owner, dead, ever) /\ ~Unserved(k)
  BY <1>5 DEF CallInv, Unserved
<1>10. events' \in 0 .. MaxEvents
  BY DEF IndInv, TypeOK
<1> QED
  BY <1>3, <1>4, <1>5, <1>6, <1>8, <1>9, <1>10, BrowserPut

\* The stored token was tried out.
LEMMA CheckDoneInv ==
    ASSUME IndInv, NEW t \in Tabs, NEW c \in Slots[t], CheckDone(t, c)
    PROVE  IndInv'
<1>1. /\ Answered(t, c, "check")
      /\ UNCHANGED <<owner, dead, enabled, granted, events, ever>>
  BY DEF CheckDone
<1>2. /\ call[t][c] # NoCall /\ call[t][c].kind = "check"
      /\ CallInv(call[t][c], owner, dead, ever) /\ (tab[t].known => tab[t].loops > 0)
  BY <1>1, AnswerFacts
<1> DEFINE n == call[t][c].token
<1>3. n \in 1 .. Len(owner) /\ owner[n] = call[t][c].user /\ owner[n] \in Users
  BY <1>2, TabFacts DEF CallInv
<1> HIDE DEF n
<1>4. CASE call[t][c].answer = "ok"
  <2>1. Enter(t, c, n, owner[n], token) /\ token' = token
    BY <1>3, <1>4, Zenon DEF CheckDone, n
  <2> QED
    BY <1>1, <1>2, <1>3, <2>1, TabFacts, EnterInv
<1>5. CASE call[t][c].answer # "ok"
  <2>1. SignOut(t) /\ End(t, c)
    BY <1>5, Zenon DEF CheckDone
  <2>2. tab' = [tab EXCEPT ![t] = Out(tab[t])] /\ token' = 0
    BY <2>1, Zenon DEF SignOut, Out, NoToken
  <2>3. Left(tab[t], Out(tab[t])) /\ token' \in 0 .. Len(owner)
    BY <1>2, <2>2, TabFacts, LeftPage
  <2> QED
    BY <1>1, <1>2, <2>1, <2>2, <2>3, LeaveInv
<1> QED
  BY <1>4, <1>5

\* The sign-in was answered.
LEMMA LoginDoneInv ==
    ASSUME IndInv, NEW t \in Tabs, NEW c \in Slots[t], LoginDone(t, c)
    PROVE  IndInv'
<1>1. /\ Answered(t, c, "login")
      /\ UNCHANGED <<owner, dead, enabled, granted, events, ever>>
  BY DEF LoginDone
<1>2. /\ call[t][c] # NoCall /\ call[t][c].kind = "login"
      /\ CallInv(call[t][c], owner, dead, ever) /\ (tab[t].known => tab[t].loops > 0)
  BY <1>1, AnswerFacts
<1> DEFINE n == call[t][c].token
<1>3. CASE call[t][c].answer = "ok"
  <2>1. n \in 1 .. Len(owner) /\ owner[n] = call[t][c].user /\ owner[n] \in Users
    BY <1>2, <1>3, TabFacts DEF CallInv
  <2> HIDE DEF n
  <2>2. Enter(t, c, n, owner[n], n) /\ token' = n
    BY <1>3, <2>1, Zenon DEF LoginDone, n
  <2>3. n \in 0 .. Len(owner) /\ call[t][c].token = n
    BY <2>1, TabFacts DEF n
  <2> QED
    BY <1>1, <1>2, <1>3, <2>1, <2>2, <2>3, TabFacts, EnterInv
<1>4. CASE call[t][c].answer # "ok"
  <2>1. SignOut(t) /\ End(t, c)
    BY <1>4, Zenon DEF LoginDone
  <2>2. tab' = [tab EXCEPT ![t] = Out(tab[t])] /\ token' = 0
    BY <2>1, Zenon DEF SignOut, Out, NoToken
  <2>3. Left(tab[t], Out(tab[t])) /\ token' \in 0 .. Len(owner)
    BY <1>2, <2>2, TabFacts, LeftPage
  <2> QED
    BY <1>1, <1>2, <2>1, <2>2, <2>3, LeaveInv
<1> QED
  BY <1>3, <1>4

\* The request to log out was answered.
LEMMA LogoutDoneInv ==
    ASSUME IndInv, NEW t \in Tabs, NEW c \in Slots[t], LogoutDone(t, c)
    PROVE  IndInv'
<1>1. /\ Answered(t, c, "logout")
      /\ UNCHANGED <<owner, dead, enabled, granted, events, ever>>
  BY DEF LogoutDone
<1>2. /\ call[t][c] # NoCall /\ call[t][c].kind = "logout"
      /\ tab[t].status # "unknown" /\ (tab[t].known => tab[t].loops > 0)
  BY <1>1, AnswerFacts
<1>3. CASE call[t][c].answer = "ok"
  <2>1. tab' = [tab EXCEPT ![t] = Quit(tab[t])] /\ token' = 0 /\ End(t, c)
    BY <1>3, Zenon DEF LogoutDone, Quit, NoToken
  <2>2. Left(tab[t], Quit(tab[t])) /\ token' \in 0 .. Len(owner)
    BY <1>2, <2>1, TabFacts, LeftPage
  <2> QED
    BY <1>1, <1>2, <2>1, <2>2, LeaveInv
<1>4. CASE call[t][c].answer = "denied" /\ call[t][c].guarded
  <2>1. Visit(t, "logout") /\ token' = 0
    BY <1>4 DEF LogoutDone, NoToken
  <2>2. token' \in 0 .. Len(owner) /\ events' \in 0 .. MaxEvents
    BY <1>1, <2>1, TabFacts DEF IndInv, TypeOK
  <2> QED
    BY <1>1, <2>1, <2>2, VisitInv
<1>5. CASE call[t][c].answer # "ok" /\ ~(call[t][c].answer = "denied" /\ call[t][c].guarded)
  <2>1. End(t, c) /\ UNCHANGED <<token, tab>>
    BY <1>5, Zenon DEF LogoutDone
  <2> QED
    BY <1>1, <1>2, <2>1, IgnoreInv
<1> QED
  BY <1>3, <1>4, <1>5

\* A loop that a first fetch starts is within the bound.
LEMMA Startable ==
    ASSUME IndInv, NEW t \in Tabs, NEW c \in Slots[t], Starter(call[t][c])
    PROVE  tab[t].loops + 1 \in 0 .. MaxTokens + 1
<1> DEFINE m == Cardinality(Starters(call[t]))
<1>1. m \in Nat /\ m - 1 \in Nat
  BY TabFacts, Kinds, Counted
<1>2. tab[t].loops \in Nat
  BY TabFacts DEF Pages
<1>3. tab[t].loops + m <= Len(owner) + 1
  BY <1>1, <1>2, TabFacts DEF JointInv
<1> HIDE DEF m
<1> QED
  BY <1>1, <1>2, <1>3, TabFacts

\* A fetch was answered.
LEMMA FetchDoneInv ==
    ASSUME IndInv, NEW t \in Tabs, NEW c \in Slots[t], FetchDone(t, c)
    PROVE  IndInv'
<1>1. /\ Answered(t, c, "fetch")
      /\ UNCHANGED <<owner, dead, enabled, granted, token, events, ever>>
  BY DEF FetchDone
<1> DEFINE k == call[t][c]
<1>2. /\ k # NoCall /\ k \in Calls /\ k.kind = "fetch"
      /\ CallInv(k, owner, dead, ever) /\ tab[t].status # "unknown"
  BY <1>1, AnswerFacts
<1>3. tab[t].holds # 0
  BY <1>2, TabFacts DEF JointInv
<1>4. CASE k.answer = "ok"
  <2>1. PICK page \in AssignPolicies(tab[t], k.policies) :
           tab' = [tab EXCEPT ![t] = Taken(page, k, owner[k.token] # page.username)]
    BY <1>4, Zenon DEF FetchDone, Taken
  <2>2. End(t, c)
    BY <1>4, Zenon DEF FetchDone
  <2> DEFINE m == owner[k.token] # page.username
             q == Taken(page, k, m)
  <2>3. Starter(k) <=> k.first
    BY <1>2 DEF Starter
  <2>4. k.first => tab[t].loops + 1 \in 0 .. MaxTokens + 1
    BY <2>3, Startable
  <2>5. k.first /\ tab[t].known /\ ~tab[t].late => k.token # tab[t].holds
    BY <1>2, TabFacts DEF JointInv
  <2>6. tab[t].username \in Users /\ m \in BOOLEAN
    BY <1>3, TabFacts DEF PageInv
  <2>7. tab' = [tab EXCEPT ![t] = q]
    BY <2>1
  <2>8. call' = [call EXCEPT ![t] = With(call[t], c, NoCall)]
    BY <2>2, Zenon DEF End, With
  <2> HIDE DEF m
  <2>9. PageInv(q, owner, ever)
    BY <1>2, <1>3, <1>4, <2>4, <2>5, <2>6, TabFacts, FetchedInv
  <2>10. /\ q \in Pages /\ q.status = tab[t].status /\ q.holds = tab[t].holds
         /\ IF k.first
            THEN /\ q.loops = tab[t].loops + 1 /\ q.known
                 /\ q.late <=> \/ tab[t].late \/ tab[t].status # "loggedIn"
                               \/ tab[t].holds # k.token
            ELSE /\ q.loops = tab[t].loops /\ q.known = tab[t].known
                 /\ q.late = tab[t].late
    BY <1>2, <2>4, <2>6, TabFacts, Fetched
  <2> HIDE DEF q
  <2>11. tab[t].loops \in Nat
    BY TabFacts DEF Pages
  <2>12. /\ q.loops <= tab[t].loops + (IF Starter(k) THEN 1 ELSE 0)
         /\ q.known /\ ~q.late =>
               \/ tab[t].known /\ ~tab[t].late
               \/ k.kind = "fetch" /\ k.first /\ k.token = q.holds
    BY <1>2, <2>3, <2>10, <2>11
  <2>13. JointInv(q, With(call[t], c, NoCall), owner)
    BY <1>2, <2>10, <2>12, TabFacts, EndedJoint
  <2>14. events' \in 0 .. MaxEvents /\ token' \in 0 .. Len(owner)
    BY <1>1, TabFacts DEF IndInv, TypeOK
  <2> QED
    BY <1>1, <2>7, <2>8, <2>9, <2>10, <2>13, <2>14, Kinds, BrowserPut
<1>5. CASE k.answer = "denied" /\ k.guarded
  <2>1. Visit(t, "logout")
    BY <1>5 DEF FetchDone
  <2>2. token' \in 0 .. Len(owner) /\ events' \in 0 .. MaxEvents
    BY <1>1, TabFacts DEF IndInv, TypeOK
  <2> QED
    BY <1>1, <2>1, <2>2, VisitInv
<1>6. CASE k.answer # "ok" /\ ~(k.answer = "denied" /\ k.guarded)
  <2>1. End(t, c) /\ UNCHANGED tab
    BY <1>6, Zenon DEF FetchDone
  <2> QED
    BY <1>1, <1>2, <2>1, IgnoreInv
<1> QED
  BY <1>4, <1>5, <1>6

---------------------------------------------------------------------------
\* The server.

\* A request with its answer, and with the token or the policies it brings.
Reply(k, a) == [k EXCEPT !.answer = a]
ReplyToken(k, a, n) == [k EXCEPT !.answer = a, !.token = n]
ReplyPolicies(k, a, x) == [k EXCEPT !.answer = a, !.policies = x]

\* What such a request is.
LEMMA Answers ==
    ASSUME NEW k \in Calls, NEW a \in {"ok", "denied", "failed"},
           NEW n \in 0 .. MaxTokens, NEW x \in Policies
    PROVE  /\ LET r == Reply(k, a) IN
                /\ r \in Calls /\ r.kind = k.kind /\ r.first = k.first /\ r.user = k.user
                /\ r.token = k.token /\ r.answer = a /\ r.policies = k.policies
           /\ LET r == ReplyToken(k, a, n) IN
                /\ r \in Calls /\ r.kind = k.kind /\ r.first = k.first /\ r.user = k.user
                /\ r.token = n /\ r.answer = a
           /\ LET r == ReplyPolicies(k, a, x) IN
                /\ r \in Calls /\ r.kind = k.kind /\ r.first = k.first /\ r.user = k.user
                /\ r.token = k.token /\ r.answer = a /\ r.policies = x
BY Zenon DEF Calls, Reply, ReplyToken, ReplyPolicies

\* A step of the server that answers a request.
LEMMA ServerStep ==
    ASSUME IndInv, NEW t \in Tabs, NEW c \in Slots[t], call[t][c] # NoCall,
           NEW k \in Calls, k.answer # "none",
           call' = [call EXCEPT ![t] = With(call[t], c, k)],
           UNCHANGED <<enabled, granted, token, tab, ever>>,
           owner' \in Seq(Users), Len(owner) <= Len(owner'),
           \A n \in 1 .. Len(owner) : owner'[n] = owner[n],
           dead \subseteq dead', dead' \subseteq 1 .. Len(owner'),
           events' \in 0 .. MaxEvents,
           \/ owner' = owner
           \/ Unserved(call[t][c]) /\ Len(owner') = Len(owner) + 1,
           JointInv(tab[t], With(call[t], c, k), owner'), CallInv(k, owner', dead', ever)
    PROVE  IndInv'
<1> DEFINE ds == With(call[t], c, k)
<1>1. /\ ds \in CallsOf(t) /\ ds[c] = k /\ DOMAIN ds = Slots[t]
      /\ \A d \in Slots[t] \ {c} : ds[d] = call[t][d]
  BY TabFacts, Put
<1> HIDE DEF ds
<1>2. Len(owner') \in Nat
  OBVIOUS
<1>3. \A s \in Tabs : TabInv(tab[s], call[s], owner', dead', ever)
  <2> SUFFICES ASSUME NEW s \in Tabs PROVE TabInv(tab[s], call[s], owner', dead', ever)
    OBVIOUS
  <2>1. TabInv(tab[s], call[s], owner, dead, ever)
    BY DEF IndInv
  <2> QED
    BY <1>2, <2>1, TabFacts, Grown
<1>4. TabInv(tab[t], ds, owner', dead', ever)
  <2>1. PageInv(tab[t], owner', ever) /\ JointInv(tab[t], ds, owner')
    BY <1>3 DEF TabInv, ds
  <2>2. \A d \in Slots[t] : ds[d] # NoCall => CallInv(ds[d], owner', dead', ever)
    BY <1>1, <1>3, TabFacts DEF TabInv
  <2> QED
    BY <1>1, <2>1, <2>2 DEF TabInv
<1>5. call' = [call EXCEPT ![t] = ds]
  BY DEF ds
<1>6. /\ call' = [s \in Tabs |-> call'[s]] /\ call'[t] = ds
      /\ \A s \in Tabs \ {t} : call'[s] = call[s]
  BY <1>5 DEF IndInv
<1>7. \A s \in Tabs : call'[s] \in [Slots[s] -> Calls \cup {NoCall}]
  BY <1>1, <1>6 DEF IndInv, TypeOK, CallsOf
<1>8. Len(owner') + Cardinality(PendingIn(call')) <= MaxTokens
  <2>1. /\ Len(owner) \in Nat /\ MaxTokens \in Nat /\ Cardinality(PendingIn(call)) \in Nat
        /\ Cardinality(PendingIn(call')) \in Nat
    BY TabFacts, PendingCount
  <2>2. Len(owner) + Cardinality(PendingIn(call)) <= MaxTokens
    BY PendingIs DEF IndInv
  <2>3. \A s \in Tabs : \A d \in Slots[s] :
           call'[s][d] = IF s = t /\ d = c THEN k ELSE call[s][d]
    BY <1>1, <1>6
  <2>4. ~Unserved(k)
    BY DEF Unserved
  <2>5. \A s \in Tabs : \A d \in Slots[s] : Unserved(call'[s][d]) => Unserved(call[s][d])
    BY <2>3, <2>4
  <2>6. CASE owner' = owner
    <3>1. Cardinality(PendingIn(call')) <= Cardinality(PendingIn(call))
      BY <2>5, PendingFewer
    <3> QED
      BY <2>1, <2>2, <2>6, <3>1
  <2>7. CASE Unserved(call[t][c]) /\ Len(owner') = Len(owner) + 1
    <3>1. ~Unserved(call'[t][c])
      BY <2>3, <2>4
    <3>2. Cardinality(PendingIn(call')) + 1 <= Cardinality(PendingIn(call))
      BY <2>5, <2>7, <3>1, PendingAnswered
    <3> QED
      BY <2>1, <2>2, <2>7, <3>2
  <2> QED
    BY <2>6, <2>7
<1>9. TypeOK'
  <2>1. Len(owner') <= MaxTokens
    BY <1>2, <1>8, PendingCount, TabFacts
  <2>2. token' \in 0 .. Len(owner')
    BY <1>2, TabFacts
  <2> QED
    BY <1>7, <2>1, <2>2 DEF IndInv, TypeOK
<1>10. \A s \in Tabs : TabInv(tab'[s], call'[s], owner', dead', ever')
  BY <1>3, <1>4, <1>6
<1>11. Pending' = PendingIn(call')
  BY DEF Pending, PendingIn, Unserved
<1> QED
  BY <1>6, <1>8, <1>9, <1>10, <1>11 DEF IndInv

\* An answer that gives out no token.
LEMMA ReplyInv ==
    ASSUME IndInv, NEW t \in Tabs, NEW c \in Slots[t], call[t][c] # NoCall,
           call[t][c].answer = "none", NEW k \in Calls,
           k.kind = call[t][c].kind, k.first = call[t][c].first,
           k.token = call[t][c].token, k.user = call[t][c].user, k.answer # "none",
           k.kind = "login" => k.answer # "ok",
           call' = [call EXCEPT ![t] = With(call[t], c, k)],
           UNCHANGED <<owner, enabled, granted, token, tab, ever>>,
           dead \subseteq dead', dead' \subseteq 1 .. Len(owner), events' \in 0 .. MaxEvents,
           CallInv(k, owner, dead', ever)
    PROVE  IndInv'
<1>1. Starter(k) <=> Starter(call[t][c])
  BY DEF Starter
<1>2. JointInv(tab[t], With(call[t], c, k), owner)
  BY <1>1, TabFacts, AnsweredJoint
<1>3. /\ owner' \in Seq(Users) /\ Len(owner) <= Len(owner') /\ owner' = owner
      /\ \A n \in 1 .. Len(owner) : owner'[n] = owner[n]
      /\ dead' \subseteq 1 .. Len(owner')
  BY TabFacts
<1>4. JointInv(tab[t], With(call[t], c, k), owner') /\ CallInv(k, owner', dead', ever)
  BY <1>2, <1>3
<1> QED
  BY <1>3, <1>4, ServerStep

\* A request is answered.
LEMMA ServeInv ==
    ASSUME IndInv, NEW t \in Tabs, NEW c \in Slots[t], Serve(t, c)
    PROVE  IndInv'
<1> DEFINE r == call[t][c]
<1>1. /\ r # NoCall /\ r.answer = "none"
      /\ UNCHANGED <<enabled, granted, token, tab, events, ever>>
  BY DEF Serve
<1>2. r \in Calls /\ CallInv(r, owner, dead, ever)
  BY <1>1, TabFacts
<1>3. DOMAIN call = Tabs /\ c \in DOMAIN call[t]
  BY TabFacts DEF IndInv
<1>4. /\ events' \in 0 .. MaxEvents /\ dead \subseteq 1 .. Len(owner)
      /\ owner \in Seq(Users) /\ granted \in [Users -> SUBSET Actions]
      /\ enabled \in BOOLEAN
  BY <1>1 DEF IndInv, TypeOK
<1>5. NoPolicies \in Policies /\ 0 \in 0 .. MaxTokens
  BY DEF NoPolicies, Policies
<1>6. CASE r.kind = "login"
  <2> DEFINE n == Len(owner')
             k == ReplyToken(r, "ok", n)
  <2>1. /\ owner' = Append(owner, r.user) /\ dead' = dead
        /\ call' = [call EXCEPT ![t][c].answer = "ok", ![t][c].token = n]
    BY <1>6, Zenon DEF Serve
  <2>2. r.user \in Users
    BY <1>2, <1>6 DEF CallInv
  <2>3. /\ owner' \in Seq(Users) /\ n = Len(owner) + 1 /\ owner'[n] = r.user
        /\ \A i \in 1 .. Len(owner) : owner'[i] = owner[i]
    BY <1>4, <2>1, <2>2
  <2>4. Unserved(r)
    BY <1>1, <1>6 DEF Unserved
  <2>5. n \in 0 .. MaxTokens
    <3>1. Cardinality(PendingIn(call)) \in Nat /\ IsFiniteSet(PendingIn(call))
      BY PendingCount
    <3>2. Cardinality(PendingIn(call)) # 0
      <4>1. <<t, c>> \in PendingIn(call)
        BY <2>4 DEF PendingIn
      <4> QED
        BY <3>1, <4>1, FS_EmptySet
    <3>3. Len(owner) + Cardinality(PendingIn(call)) <= MaxTokens
      BY PendingIs DEF IndInv
    <3> QED
      BY <2>3, <3>1, <3>2, <3>3, TabFacts
  <2> HIDE DEF n
  <2>6. call' = [call EXCEPT ![t] = With(call[t], c, k)]
    BY <1>3, <2>1, Zenon DEF With, ReplyToken
  <2>7. /\ k \in Calls /\ k.kind = "login" /\ k.user = r.user /\ k.token = n
        /\ k.answer = "ok"
    BY <1>2, <1>5, <1>6, <2>5, Answers
  <2> HIDE DEF k
  <2>8. CallInv(k, owner', dead', ever)
    BY <2>2, <2>3, <2>7, TabFacts DEF CallInv, n
  <2>9. \A d \in Slots[t] : call[t][d] # NoCall => call[t][d].token \in 0 .. Len(owner)
    BY TabFacts DEF CallInv
  <2>10. JointInv(tab[t], With(call[t], c, k), owner')
    <3>1. Len(owner') = Len(owner) + 1 /\ k.token = Len(owner')
      BY <2>3, <2>7 DEF n
    <3> QED
      BY <2>4, <2>7, <2>9, <3>1, TabFacts, GrantedJoint
  <2>11. Len(owner') = Len(owner) + 1 /\ Len(owner) <= Len(owner')
         /\ dead' \subseteq 1 .. Len(owner')
    BY <1>4, <2>1, <2>3, TabFacts DEF n
  <2> QED
    BY <1>1, <1>4, <2>1, <2>3, <2>4, <2>6, <2>7, <2>8, <2>10, <2>11, ServerStep
<1>7. CASE r.kind # "login" /\ ~Accepted(r.token)
  <2> DEFINE k == Reply(r, "denied")
  <2>1. /\ call' = [call EXCEPT ![t][c].answer = "denied"]
        /\ UNCHANGED <<owner, dead>>
    BY <1>7, Zenon DEF Serve
  <2>2. call' = [call EXCEPT ![t] = With(call[t], c, k)]
    BY <1>3, <2>1, Zenon DEF With, Reply
  <2>3. /\ k \in Calls /\ k.kind = r.kind /\ k.first = r.first /\ k.user = r.user
        /\ k.token = r.token /\ k.answer = "denied"
    BY <1>2, <1>5, Answers
  <2> HIDE DEF k
  <2>4. CallInv(k, owner, dead', ever)
    BY <1>2, <1>7, <2>1, <2>3 DEF CallInv, Accepted, NoToken
  <2> QED
    BY <1>1, <1>4, <2>1, <2>2, <2>3, <2>4, ReplyInv
<1>8. CASE r.kind = "check" /\ Accepted(r.token)
  <2> DEFINE k == Reply(r, "ok")
  <2>1. call' = [call EXCEPT ![t][c].answer = "ok"] /\ UNCHANGED <<owner, dead>>
    BY <1>8, Zenon DEF Serve
  <2>2. call' = [call EXCEPT ![t] = With(call[t], c, k)]
    BY <1>3, <2>1, Zenon DEF With, Reply
  <2>3. /\ k \in Calls /\ k.kind = r.kind /\ k.first = r.first /\ k.user = r.user
        /\ k.token = r.token /\ k.answer = "ok"
    BY <1>2, <1>5, Answers
  <2> HIDE DEF k
  <2>4. CallInv(k, owner, dead', ever)
    BY <1>2, <1>8, <2>1, <2>3 DEF CallInv
  <2> QED
    BY <1>1, <1>4, <1>8, <2>1, <2>2, <2>3, <2>4, ReplyInv
<1>9. CASE r.kind = "logout" /\ Accepted(r.token)
  <2> DEFINE k == Reply(r, "ok")
  <2>1. /\ call' = [call EXCEPT ![t][c].answer = "ok"]
        /\ dead' = dead \cup {r.token} /\ owner' = owner
    BY <1>9, Zenon DEF Serve
  <2>2. call' = [call EXCEPT ![t] = With(call[t], c, k)]
    BY <1>3, <2>1, Zenon DEF With, Reply
  <2>3. /\ k \in Calls /\ k.kind = r.kind /\ k.first = r.first /\ k.user = r.user
        /\ k.token = r.token /\ k.answer = "ok"
    BY <1>2, <1>5, Answers
  <2> HIDE DEF k
  <2>4. CallInv(k, owner, dead', ever)
    BY <1>2, <1>9, <2>1, <2>3 DEF CallInv
  <2>5. dead' \subseteq 1 .. Len(owner)
    BY <1>2, <1>4, <1>9, <2>1, TabFacts DEF CallInv, Accepted, NoToken
  <2> QED
    BY <1>1, <1>4, <1>9, <2>1, <2>2, <2>3, <2>4, <2>5, ReplyInv
<1>10. CASE r.kind = "fetch" /\ Accepted(r.token)
  <2> DEFINE u == owner[r.token]
             x == [enabled |-> enabled, p |-> IF enabled THEN {u} \X granted[u] ELSE {}]
             k == ReplyPolicies(r, "ok", x)
  <2>1. /\ call' = [call EXCEPT ![t][c].answer = "ok", ![t][c].policies = x]
        /\ UNCHANGED <<owner, dead>>
    BY <1>10, Zenon DEF Serve
  <2>2. call' = [call EXCEPT ![t] = With(call[t], c, k)]
    BY <1>3, <2>1, Zenon DEF With, ReplyPolicies
  <2>3. u \in Users /\ r.token # 0
    BY <1>2, <1>10, TabFacts DEF CallInv, Accepted, NoToken
  <2>4. /\ x \in Policies /\ x.enabled = enabled /\ x.p \subseteq {u} \X Actions
        /\ \A v \in Users, a \in Actions : <<v, a>> \in x.p => a \in granted[v]
    BY <1>4, <2>3 DEF Policies
  <2> HIDE DEF u, x
  <2>5. /\ k \in Calls /\ k.kind = r.kind /\ k.first = r.first /\ k.user = r.user
        /\ k.token = r.token /\ k.answer = "ok" /\ k.policies = x
    BY <1>2, <1>5, <2>4, Answers
  <2> HIDE DEF k
  <2>6. Told(x, ever)
    <3>1. EverHolds(enabled, granted, ever)
      BY DEF IndInv
    <3> QED
      BY <2>4, <3>1 DEF EverHolds, Told
  <2>7. CallInv(k, owner, dead', ever)
    BY <1>2, <1>10, <2>3, <2>4, <2>5, <2>6 DEF CallInv, u
  <2> QED
    BY <1>1, <1>4, <1>10, <2>1, <2>2, <2>5, <2>7, ReplyInv
<1>11. r.kind \in {"check", "login", "fetch", "logout"}
  BY <1>2, Kinds
<1> QED
  BY <1>6, <1>7, <1>8, <1>9, <1>10, <1>11

\* A request fails, after or before it was carried out.
LEMMA ServeFailsInv ==
    ASSUME IndInv, NEW t \in Tabs, NEW c \in Slots[t], ServeFails(t, c)
    PROVE  IndInv'
<1> DEFINE r == call[t][c]
           k == Reply(r, "failed")
<1>1. /\ r # NoCall /\ r.answer = "none"
      /\ call' = [call EXCEPT ![t][c].answer = "failed"]
      /\ dead' \in {dead} \cup (IF r.kind = "logout" /\ Accepted(r.token)
                                THEN {dead \cup {r.token}} ELSE {})
      /\ events < MaxEvents /\ events' = events + 1
      /\ UNCHANGED <<owner, enabled, granted, token, tab, ever>>
  BY DEF ServeFails
<1>2. r \in Calls /\ CallInv(r, owner, dead, ever)
  BY <1>1, TabFacts
<1>3. DOMAIN call = Tabs /\ c \in DOMAIN call[t]
  BY TabFacts DEF IndInv
<1>4. call' = [call EXCEPT ![t] = With(call[t], c, k)]
  BY <1>1, <1>3, Zenon DEF With, Reply
<1>5. NoPolicies \in Policies /\ 0 \in 0 .. MaxTokens
  BY DEF NoPolicies, Policies
<1>6. /\ k \in Calls /\ k.kind = r.kind /\ k.first = r.first /\ k.user = r.user
      /\ k.token = r.token /\ k.answer = "failed"
  BY <1>2, <1>5, Answers
<1> HIDE DEF k
<1>7. CallInv(k, owner, dead', ever)
  BY <1>2, <1>6 DEF CallInv
<1>8. dead \subseteq dead' /\ dead' \subseteq 1 .. Len(owner)
  <2>1. dead \subseteq 1 .. Len(owner)
    BY DEF IndInv, TypeOK
  <2>2. Accepted(r.token) => r.token \in 1 .. Len(owner)
    BY <1>2, TabFacts DEF CallInv, Accepted, NoToken
  <2>3. CASE dead' = dead
    BY <2>1, <2>3
  <2>4. CASE dead' = dead \cup {r.token} /\ Accepted(r.token)
    BY <2>1, <2>2, <2>4
  <2> QED
    BY <1>1, <2>3, <2>4
<1>9. events' \in 0 .. MaxEvents
  BY <1>1 DEF IndInv, TypeOK
<1> QED
  BY <1>1, <1>4, <1>6, <1>7, <1>8, <1>9, ReplyInv

\* What was allowed stays among what was ever allowed: a step that leaves the
\* tabs and their requests alone.
LEMMA WorldInv ==
    ASSUME IndInv, UNCHANGED <<owner, token, tab, call>>,
           dead \subseteq dead', dead' \subseteq 1 .. Len(owner), events' \in 0 .. MaxEvents,
           enabled' \in BOOLEAN, granted' \in [Users -> SUBSET Actions],
           ever' \in [Users -> SUBSET Actions], \A u \in Users : ever[u] \subseteq ever'[u],
           EverHolds(enabled', granted', ever')
    PROVE  IndInv'
<1>1. TypeOK'
  BY DEF IndInv, TypeOK
<1>2. /\ call' = [t \in Tabs |-> call'[t]] /\ Pending' = Pending
      /\ Len(owner') + Cardinality(Pending') <= MaxTokens
  <2>1. Pending' = Pending
    BY DEF Pending
  <2> QED
    BY <2>1 DEF IndInv
<1>3. \A t \in Tabs : TabInv(tab[t], call[t], owner, dead', ever')
  <2> SUFFICES ASSUME NEW t \in Tabs PROVE TabInv(tab[t], call[t], owner, dead', ever')
    OBVIOUS
  <2>1. TabInv(tab[t], call[t], owner, dead, ever)
    BY DEF IndInv
  <2>2. tab[t] \in Pages /\ call[t] \in CallsOf(t) /\ Len(owner) \in Nat
    BY TabFacts
  <2>3. Len(owner) <= Len(owner) /\ \A n \in 1 .. Len(owner) : owner[n] = owner[n]
    BY <2>2
  <2> QED
    BY <2>1, <2>2, <2>3, Grown
<1> QED
  BY <1>1, <1>2, <1>3 DEF IndInv

\* A token dies.
LEMMA ExpireInv ==
    ASSUME IndInv, NEW n \in Tokens, Expire(n)
    PROVE  IndInv'
<1>1. /\ dead \subseteq dead' /\ dead' \subseteq 1 .. Len(owner)
      /\ events' \in 0 .. MaxEvents
      /\ enabled' \in BOOLEAN /\ granted' \in [Users -> SUBSET Actions]
      /\ ever' \in [Users -> SUBSET Actions] /\ ever' = ever
      /\ UNCHANGED <<owner, token, tab, call>>
      /\ EverHolds(enabled', granted', ever')
  BY DEF Expire, IndInv, TypeOK
<1> QED
  BY <1>1, WorldInv

\* The policies change.
LEMMA ChangePoliciesInv ==
    ASSUME IndInv, ChangePolicies
    PROVE  IndInv'
<1>1. /\ enabled \in BOOLEAN /\ granted \in [Users -> SUBSET Actions]
      /\ ever \in [Users -> SUBSET Actions] /\ dead \subseteq 1 .. Len(owner)
      /\ events \in 0 .. MaxEvents
  BY DEF IndInv, TypeOK
<1>2. /\ events' \in 0 .. MaxEvents /\ UNCHANGED <<owner, dead, token, tab, call>>
  BY <1>1 DEF ChangePolicies
<1>3. enabled' \in BOOLEAN /\ granted' \in [Users -> SUBSET Actions]
  BY <1>1 DEF ChangePolicies
<1>4. ever' = [u \in Users |->
                 ever[u] \cup {a \in Actions : ~enabled' \/ a \in granted'[u]}]
  BY DEF ChangePolicies, Verdict
<1>5. /\ ever' \in [Users -> SUBSET Actions]
      /\ \A u \in Users : ever[u] \subseteq ever'[u]
      /\ EverHolds(enabled', granted', ever')
  BY <1>1, <1>3, <1>4 DEF EverHolds
<1> QED
  BY <1>1, <1>2, <1>3, <1>5, WorldInv

\* The first state.
LEMMA InitInv ==
    ASSUME Init
    PROVE  IndInv
<1>1. PICK open \in DOMAIN Past :
         /\ tab = [t \in Tabs |-> IF t \in open THEN Loaded("app")
                       ELSE [Loaded("app") EXCEPT !.status = "closed"]]
         /\ events = Past[open].events
         /\ owner = [n \in 1 .. Past[open].logins |-> CHOOSE u \in Users : TRUE]
         /\ dead = 1 .. Past[open].logins
  BY Zenon DEF Init
<1> DEFINE m == Past[open].logins
           q == Loaded("app")
           closed == [q EXCEPT !.status = "closed"]
<1>2. m \in 0 .. MaxTokens /\ Past[open].events \in 0 .. MaxEvents
  OBVIOUS
<1> HIDE DEF m
<1>3. (CHOOSE u \in Users : TRUE) \in Users
  OBVIOUS
<1>4. owner \in Seq(Users) /\ Len(owner) = m
  BY <1>1, <1>2, <1>3 DEF m
<1>5. /\ q \in Pages /\ q.status = "unknown" /\ q.loops = 0 /\ ~q.known /\ ~q.own
      /\ ~q.late /\ q.holds = 0 /\ q.authorizer.p = q.policies.p
  BY LoadedPage
<1> HIDE DEF q
<1>6. /\ closed \in Pages /\ closed.status = "closed" /\ closed.loops = q.loops
      /\ closed.known = q.known /\ closed.own = q.own /\ closed.late = q.late
      /\ closed.holds = q.holds /\ closed.authorizer = q.authorizer
      /\ closed.policies = q.policies
  BY <1>5, Zenon DEF Pages
<1> HIDE DEF closed
<1>7. \A t \in Tabs : tab[t] \in {q, closed}
  BY <1>1 DEF q, closed
<1>8. tab \in [Tabs -> Pages]
  <2>1. tab = [t \in Tabs |-> tab[t]]
    BY <1>1, Zenon
  <2> QED
    BY <1>5, <1>6, <1>7, <2>1
<1>9. \A t \in Tabs : call[t] = [c \in Slots[t] |-> NoCall]
  BY DEF Init
<1>10. ASSUME NEW t \in Tabs
       PROVE  DOMAIN call[t] = Slots[t] /\ \A c \in Slots[t] : call[t][c] = NoCall
  <2> DEFINE none == [c \in Slots[t] |-> NoCall]
  <2>1. DOMAIN none = Slots[t] /\ \A c \in Slots[t] : none[c] = NoCall
    OBVIOUS
  <2>2. call[t] = none
    BY <1>9
  <2> HIDE DEF none
  <2> QED
    BY <2>1, <2>2, Zenon
<1>11. call = [t \in Tabs |-> call[t]] /\ \A t \in Tabs : call[t] \in CallsOf(t)
  BY <1>9 DEF Init, CallsOf
<1>12. /\ token = 0 /\ enabled = TRUE /\ granted \in [Users -> SUBSET Actions]
       /\ ever = granted
  BY DEF Init, NoToken
<1>13. TypeOK
  <2>1. events \in 0 .. MaxEvents /\ dead \subseteq 1 .. Len(owner) /\ Len(owner) <= MaxTokens
    BY <1>1, <1>2, <1>4 DEF m
  <2>2. token \in 0 .. Len(owner)
    BY <1>2, <1>4, <1>12
  <2> QED
    BY <1>4, <1>8, <1>11, <1>12, <2>1, <2>2 DEF TypeOK, CallsOf
<1>14. EverHolds(enabled, granted, ever)
  BY <1>12 DEF EverHolds
<1>15. Len(owner) + Cardinality(Pending) <= MaxTokens
  <2>1. PendingIn(call) = {}
    <3> SUFFICES ASSUME NEW t \in Tabs, NEW c \in Slots[t], Unserved(call[t][c])
                 PROVE  FALSE
      BY DEF PendingIn
    <3>1. call[t][c] = NoCall
      BY <1>10
    <3> QED
      BY <3>1, Kinds, Zenon
  <2>2. Cardinality(Pending) = 0
    BY <2>1, PendingIs, FS_EmptySet
  <2> QED
    BY <1>2, <1>4, <2>2
<1>16. ASSUME NEW t \in Tabs
       PROVE  TabInv(tab[t], call[t], owner, dead, ever)
  <2>1. /\ tab[t] \in Pages /\ tab[t].loops = 0 /\ ~tab[t].known /\ ~tab[t].own
        /\ tab[t].status # "loggedIn" /\ tab[t].holds = 0
        /\ tab[t].authorizer.p = tab[t].policies.p
    BY <1>5, <1>6, <1>7
  <2>2. Len(owner) \in Nat
    BY <1>2, <1>4
  <2>3. PageInv(tab[t], owner, ever)
    BY <2>1, <2>2 DEF PageInv
  <2>4. JointInv(tab[t], call[t], owner)
    BY <1>9, <1>11, <2>1, <2>2, QuietJoint
  <2>5. \A c \in DOMAIN call[t] : call[t][c] = NoCall
    BY <1>10, Zenon
  <2> QED
    BY <2>3, <2>4, <2>5, Zenon DEF TabInv
<1> QED
  BY <1>11, <1>13, <1>14, <1>15, <1>16 DEF IndInv

\* Every step.
LEMMA NextInv ==
    ASSUME IndInv, [Next]_vars
    PROVE  IndInv'
<1>1. ASSUME NEW t \in Tabs,
             Load(t) \/ LogOut(t) \/ AutoLogout(t) \/ Refresh(t) \/ Reload(t)
      PROVE  IndInv'
  BY <1>1, LoadInv, LogOutInv, AutoLogoutInv, RefreshInv, ReloadInv
<1>2. ASSUME NEW t \in Tabs, NEW u \in Users, Login(t, u)
      PROVE  IndInv'
  BY <1>2, LoginInv
<1>3. ASSUME NEW t \in Tabs, NEW c \in Slots[t],
             CheckDone(t, c) \/ LoginDone(t, c) \/ LogoutDone(t, c) \/ FetchDone(t, c)
      PROVE  IndInv'
  BY <1>3, CheckDoneInv, LoginDoneInv, LogoutDoneInv, FetchDoneInv
<1>4. ASSUME NEW t \in Tabs, NEW c \in Slots[t], Serve(t, c) \/ ServeFails(t, c)
      PROVE  IndInv'
  BY <1>4, ServeInv, ServeFailsInv
<1>5. ASSUME NEW n \in Tokens, Expire(n)
      PROVE  IndInv'
  BY <1>5, ExpireInv
<1>6. CASE ChangePolicies
  BY <1>6, ChangePoliciesInv
<1>7. CASE UNCHANGED vars
  <2>1. /\ UNCHANGED <<owner, token, tab, call, dead, events, enabled, granted, ever>>
        /\ dead \subseteq 1 .. Len(owner) /\ events \in 0 .. MaxEvents /\ enabled \in BOOLEAN
        /\ granted \in [Users -> SUBSET Actions] /\ ever \in [Users -> SUBSET Actions]
        /\ EverHolds(enabled, granted, ever)
    BY <1>7 DEF vars, IndInv, TypeOK
  <2> QED
    BY <2>1, WorldInv
<1> QED
  BY <1>1, <1>2, <1>3, <1>4, <1>5, <1>6, <1>7 DEF Next

\* The inductive invariant holds of every state.
THEOREM Invariance == Spec => []IndInv
<1>1. Init => IndInv
  BY InitInv
<1>2. IndInv /\ [Next]_vars => IndInv'
  BY NextInv
<1> QED
  BY <1>1, <1>2, PTL DEF Spec

\* Tokens, pages and requests keep their types: no page runs more loops than
\* there were sign-ins, and one for the stored token.
THEOREM TypeCorrect == Spec => []TypeOK
<1>1. IndInv => TypeOK
  BY DEF IndInv
<1> QED
  BY <1>1, Invariance, PTL

\* A page that has fetched the policies of its user offers nothing that this
\* user was never allowed to do, whoever else was signed in before or is in
\* another tab.
THEOREM OnlyGrantedIsOffered == Spec => []OffersOnlyGranted
<1>1. IndInv => OffersOnlyGranted
  BY DEF IndInv, TabInv, PageInv, OffersOnlyGranted
<1> QED
  BY <1>1, Invariance, PTL

\* A tab that is signed in runs one loop at most, and one that is not runs none,
\* unless a first fetch outlived its sign-in.
THEOREM LoopsAreStopped == Spec => []LoopsEnd
<1>1. IndInv => LoopsEnd
  <2> SUFFICES ASSUME IndInv, NEW t \in Tabs, ~tab[t].late
               PROVE  tab[t].loops <= IF tab[t].status = "loggedIn" THEN 1 ELSE 0
    BY DEF LoopsEnd
  <2> QED
    BY TabFacts DEF PageInv
<1> QED
  BY <1>1, Invariance, PTL

\* A tab that is signed in has a token, and no request that tries one out.
LEMMA SignedInTab ==
    ASSUME IndInv, NEW t \in Tabs, tab[t].status = "loggedIn"
    PROVE  /\ tab[t].holds # 0
           /\ \A c \in Slots[t] : call[t][c].kind # "check"
<1>1. PageInv(tab[t], owner, ever) /\ JointInv(tab[t], call[t], owner)
      /\ DOMAIN call[t] = Slots[t]
  BY TabFacts
<1>2. tab[t].holds # 0
  BY <1>1 DEF PageInv
<1>3. \A c \in Slots[t] : call[t][c].kind # "check"
  BY <1>1 DEF JointInv
<1> QED
  BY <1>2, <1>3

\* A step that replaces the page of one tab leaves the pages of the others.
LEMMA OwnTab ==
    ASSUME IndInv, NEW t \in Tabs, NEW u \in Tabs, NEW q,
           tab' = [tab EXCEPT ![u] = q], tab'[t] # tab[t]
    PROVE  t = u
BY DEF IndInv, TypeOK

\* The stored token is dropped by a page that finds it refused, by one whose
\* sign-in fails, and by an answer to a request to log out.
LEMMA TokenDrops ==
    ASSUME IndInv, [Next]_vars, NEW t \in Tabs, tab[t].status = "loggedIn",
           tab'[t] # tab[t], token' = NoToken, token # NoToken
    PROVE  \E c \in Slots[t] : LoginDone(t, c) \/ LogoutDone(t, c)
<1>1. token' # token
  OBVIOUS
<1>2. ASSUME NEW u \in Tabs, Load(u)
      PROVE  FALSE
  <2>1. tab[u].status = "unknown" /\ SignOut(u)
    BY <1>1, <1>2 DEF Load
  <2>2. t = u
    BY <2>1, OwnTab DEF SignOut
  <2> QED
    BY <2>1, <2>2
<1>3. ASSUME NEW u \in Tabs, LogOut(u) \/ AutoLogout(u) \/ Refresh(u) \/ Reload(u)
      PROVE  FALSE
  BY <1>1, <1>3 DEF LogOut, AutoLogout, Refresh, Reload
<1>4. ASSUME NEW u \in Tabs, NEW w \in Users, Login(u, w)
      PROVE  FALSE
  BY <1>1, <1>4 DEF Login
<1>5. ASSUME NEW u \in Tabs, NEW c \in Slots[u], CheckDone(u, c)
      PROVE  FALSE
  <2>1. call[u][c].kind = "check" /\ SignOut(u)
    BY <1>1, <1>5 DEF CheckDone, Answered
  <2>2. t = u
    BY <2>1, OwnTab DEF SignOut
  <2> QED
    BY <2>1, <2>2, SignedInTab
<1>6. ASSUME NEW u \in Tabs, NEW c \in Slots[u], LoginDone(u, c)
      PROVE  u = t
  BY <1>6, OwnTab DEF LoginDone, SignOut, Enter
<1>7. ASSUME NEW u \in Tabs, NEW c \in Slots[u], LogoutDone(u, c)
      PROVE  u = t
  BY <1>1, <1>7, OwnTab DEF LogoutDone, Visit
<1>8. ASSUME NEW u \in Tabs, NEW c \in Slots[u],
             FetchDone(u, c) \/ Serve(u, c) \/ ServeFails(u, c)
      PROVE  FALSE
  BY <1>1, <1>8 DEF FetchDone, Serve, ServeFails
<1>9. ~ (\E n \in Tokens : Expire(n)) /\ ~ChangePolicies /\ ~UNCHANGED vars
  BY <1>1 DEF Expire, ChangePolicies, vars
<1> QED
  BY <1>2, <1>3, <1>4, <1>5, <1>6, <1>7, <1>8, <1>9 DEF Next

\* The token a tab is signed in with leaves the browser at the hands of this
\* tab only when the server refuses it, unless an answer belongs to an earlier
\* session: for any number of tabs, which all share the one stored token.
THEOREM TokensLeaveDead == Spec => TokenLeavesDead
<1> DEFINE A == \A t \in Tabs :
         /\ tab[t].status = "loggedIn" /\ tab'[t] # tab[t]
         /\ token = tab[t].holds /\ token' = NoToken
         /\ \A c \in Slots[t] : /\ call[t][c].kind # "login"
                                /\ call[t][c].kind = "logout" => call[t][c].token = token
         => token \in dead'
<1>1. IndInv /\ [Next]_vars => A
  <2> SUFFICES ASSUME IndInv, [Next]_vars, NEW t \in Tabs,
                      tab[t].status = "loggedIn", tab'[t] # tab[t],
                      token = tab[t].holds, token' = NoToken,
                      \A c \in Slots[t] :
                         /\ call[t][c].kind # "login"
                         /\ call[t][c].kind = "logout" => call[t][c].token = token
               PROVE  token \in dead'
    OBVIOUS
  <2>1. token # NoToken
    BY SignedInTab DEF NoToken
  <2>2. PICK c \in Slots[t] : LoginDone(t, c) \/ LogoutDone(t, c)
    BY <2>1, TokenDrops
  <2>3. LogoutDone(t, c)
    BY <2>2 DEF LoginDone, Answered
  <2>4. /\ call[t][c] # NoCall /\ call[t][c].kind = "logout" /\ call[t][c].token = token
        /\ call[t][c].answer \in {"ok", "denied"} /\ dead' = dead
    BY <2>1, <2>3 DEF LogoutDone, Answered
  <2>5. CallInv(call[t][c], owner, dead, ever)
    BY <2>4, TabFacts
  <2> QED
    BY <2>1, <2>4, <2>5 DEF CallInv, NoToken
<1>2. Spec => [][A]_vars
  BY <1>1, Invariance, PTL DEF Spec
<1> QED
  BY <1>2 DEF TokenLeavesDead


=============================================================================
