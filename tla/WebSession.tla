----------------------------- MODULE WebSession -----------------------------
(***************************************************************************)
(* Signing in and out in the browser with a built-in account, and the      *)
(* permissions that the pages show. All tabs share the token in the local  *)
(* storage; everything else belongs to one load of one tab: whether it is  *)
(* signed in (AuthProvider), the interceptors of its requests (api.ts),    *)
(* and the policies of its user with the authorizer that judges by them,   *)
(* fetched at sign-in and then every 5 s (utils/rbac.ts).                  *)
(*                                                                         *)
(* A request takes three steps: it is sent, the server answers, the answer *)
(* is handled; any of them may come late. Building an authorizer and       *)
(* asking it waits for no input, so nothing comes in between.              *)
(***************************************************************************)
EXTENDS Naturals, Sequences, FiniteSets

CONSTANTS
    Tabs,
    Slots,       \* Slots[t]: requests of the tab at one time
    Users,
    Actions,     \* what a policy can allow
    NoUser,      \* the empty user name
    FirstGrants, \* what the policies may allow at first
    MaxTokens,   \* bound on sign-ins
    MaxEvents,   \* bound on requests to log out, changes of the policies,
                 \* page loads, failures and tokens that expire, taken together
    Past         \* the sets of tabs that may be open, each with how many of
                 \* the events and of the sign-ins lie in the past

ASSUME UsersAssumption == Users # {} /\ NoUser \notin Users
ASSUME SlotsAssumption ==
    IsFiniteSet(Tabs) /\ \A t \in Tabs : IsFiniteSet(Slots[t])
ASSUME GrantsAssumption == FirstGrants \subseteq [Users -> SUBSET Actions]
ASSUME BoundsAssumption ==
    /\ MaxTokens \in Nat /\ MaxEvents \in Nat
    /\ DOMAIN Past \subseteq SUBSET Tabs
    /\ \A open \in DOMAIN Past :
          Past[open] \in [events : 0 .. MaxEvents, logins : 0 .. MaxTokens]

VARIABLES
    owner,    \* the users of the tokens issued; a token is an index of it
    dead,     \* the tokens that the server does not accept any more
    enabled,  \* whether RBAC is enabled
    granted,  \* granted[u]: what the policies allow
    token,    \* everestToken in the local storage, or NoToken
    tab,      \* tab[t]: the page loaded in the tab
    call,     \* call[t][c]: a request, or NoCall
    events,   \* how many of the bounded events there have been
    ever      \* history: ever[u]: what has been allowed at any time

vars == <<owner, dead, enabled, granted, token, tab, call, events, ever>>

NoToken == 0
Tokens == 1 .. MaxTokens

\* A permission is a user and an action: the server puts the user in place of
\* roles and groups.
Policies == [enabled : BOOLEAN, p : SUBSET (Users \X Actions)]
NoPolicies == [enabled |-> FALSE, p |-> {}]
Authorizers == [user : Users, p : SUBSET (Users \X Actions)]
NoAuthorizer == [user |-> NoUser, p |-> {}]

\* guarded: the interceptors are there. loops: intervals that are running;
\* known: timeoutId is one of them. The rest is history: the token the tab is
\* signed in with, whether policies were fetched with it, whether policies of
\* another user were taken on, and whether a first fetch outlived its sign-in.
Pages == [status : {"closed", "unknown", "loggingIn", "loggedIn", "loggedOut"},
          route : {"app", "logout", "leaving"}, username : Users \cup {NoUser},
          guarded : BOOLEAN, loops : 0 .. MaxTokens + 1, known : BOOLEAN,
          policies : Policies, authorizer : Authorizers \cup {NoAuthorizer},
          holds : 0 .. MaxTokens, own : BOOLEAN, mixed : BOOLEAN, late : BOOLEAN]

\* A page just loaded.
Loaded(route) ==
    [status |-> "unknown", route |-> route, username |-> NoUser,
     guarded |-> FALSE, loops |-> 0, known |-> FALSE, policies |-> NoPolicies,
     authorizer |-> NoAuthorizer, holds |-> NoToken, own |-> FALSE,
     mixed |-> FALSE, late |-> FALSE]

\* first marks the fetch at sign-in; answer and policies are filled in by the
\* server.
Calls == [kind : {"check", "login", "fetch", "logout"}, user : Users \cup {NoUser},
          token : 0 .. MaxTokens, guarded : BOOLEAN, first : BOOLEAN,
          answer : {"none", "ok", "denied", "failed"}, policies : Policies]
NoCall == [kind |-> "none"]

TypeOK ==
    /\ owner \in Seq(Users) /\ Len(owner) <= MaxTokens
    /\ dead \subseteq 1 .. Len(owner)
    /\ enabled \in BOOLEAN
    /\ granted \in [Users -> SUBSET Actions]
    /\ token \in 0 .. Len(owner)
    /\ tab \in [Tabs -> Pages]
    /\ \A t \in Tabs : call[t] \in [Slots[t] -> Calls \cup {NoCall}]
    /\ events \in 0 .. MaxEvents
    /\ ever \in [Users -> SUBSET Actions]

Init ==
    /\ token = NoToken
    /\ enabled = TRUE
    /\ granted \in FirstGrants
    /\ \E open \in DOMAIN Past :
          /\ tab = [t \in Tabs |-> IF t \in open THEN Loaded("app")
                       ELSE [Loaded("app") EXCEPT !.status = "closed"]]
          /\ events = Past[open].events
          /\ owner = [n \in 1 .. Past[open].logins |-> CHOOSE u \in Users : TRUE]
          /\ dead = 1 .. Past[open].logins
    /\ call = [t \in Tabs |-> [c \in Slots[t] |-> NoCall]]
    /\ ever = granted

-----------------------------------------------------------------------------
(* The browser. *)

Free(t) == {c \in Slots[t] : call[t][c] = NoCall}

\* The request interceptor puts the stored token on a request; without it a
\* request carries none.
Request(kind, page, user, first) ==
    [kind |-> kind, user |-> user,
     token |-> IF page.guarded \/ kind = "check" THEN token ELSE NoToken,
     guarded |-> page.guarded, first |-> first, answer |-> "none",
     policies |-> NoPolicies]

\* Mutant of Stop: an interval is taken for running after it was cleared.
StopAgain(page) ==
    [page EXCEPT !.loops = IF page.known THEN @ - 1 ELSE @]

\* Mutant of Stop: the interval is forgotten and goes on.
StopForgets(page) == [page EXCEPT !.known = FALSE]

\* clearInterval(timeoutId)
Stop(page) ==
    [page EXCEPT !.loops = IF page.known THEN @ - 1 ELSE @, !.known = FALSE]

\* setLogoutStatus: the token is dropped, whosever it is.
SignOut(t) ==
    /\ token' = NoToken
    /\ tab' = [tab EXCEPT ![t] = [Stop(@) EXCEPT !.status = "loggedOut",
                                                 !.route = "app"]]

\* setLoggedInStatus. The policies and the authorizer stay those of before.
SignIn(page, n, user) ==
    [Stop(page) EXCEPT !.status = "loggedIn", !.username = user,
                       !.guarded = TRUE, !.holds = n, !.own = FALSE]

\* The effect that runs when a page is loaded: the stored token is tried out.
Load(t) ==
    /\ tab[t].status = "unknown"
    /\ \A c \in Slots[t] : call[t][c] = NoCall
    /\ IF token = NoToken
       THEN /\ SignOut(t)
            /\ UNCHANGED call
       ELSE /\ \E c \in Free(t) :
                  call' = [call EXCEPT ![t][c] =
                             Request("check", tab[t], owner[token], FALSE)]
            /\ UNCHANGED <<token, tab>>
    /\ UNCHANGED <<owner, dead, enabled, granted, events, ever>>

\* The sign-ins that have not been answered yet.
Pending ==
    {tc \in Tabs \X UNION {Slots[t] : t \in Tabs} :
        /\ tc[2] \in Slots[tc[1]]
        /\ call[tc[1]][tc[2]].kind = "login"
        /\ call[tc[1]][tc[2]].answer = "none"}

\* The sign-in form, which is there while nobody is signed in.
Login(t, u) ==
    /\ tab[t].status = "loggedOut"
    /\ Len(owner) + Cardinality(Pending) < MaxTokens
    /\ \E c \in Free(t) :
          call' = [call EXCEPT ![t][c] = Request("login", tab[t], u, FALSE)]
    /\ tab' = [tab EXCEPT ![t].status = "loggingIn"]
    /\ UNCHANGED <<owner, dead, enabled, granted, token, events, ever>>

\* "Log out" in the menu, which may be chosen again before the answer is there.
LogOut(t) ==
    /\ tab[t].status = "loggedIn" /\ tab[t].route = "app"
    /\ events < MaxEvents
    /\ \E c \in Free(t) :
          call' = [call EXCEPT ![t][c] = Request("logout", tab[t], NoUser, FALSE)]
    /\ events' = events + 1
    /\ UNCHANGED <<owner, dead, enabled, granted, token, tab, ever>>

\* The page /logout signs out whoever is signed in.
AutoLogout(t) ==
    /\ tab[t].status = "loggedIn" /\ tab[t].route = "logout"
    /\ \E c \in Free(t) :
          call' = [call EXCEPT ![t][c] = Request("logout", tab[t], NoUser, FALSE)]
    /\ tab' = [tab EXCEPT ![t].route = "leaving"]
    /\ UNCHANGED <<owner, dead, enabled, granted, token, events, ever>>

\* The interval fires. It goes on when nobody is signed in any more, if it was
\* started too late to be stopped.
Refresh(t) ==
    /\ tab[t].loops > 0
    /\ \E c \in Free(t) :
          call' = [call EXCEPT ![t][c] = Request("fetch", tab[t], NoUser, FALSE)]
    /\ UNCHANGED <<owner, dead, enabled, granted, token, tab, events, ever>>

\* A page is loaded: what the one before was waiting for is lost.
Visit(t, route) ==
    /\ tab' = [tab EXCEPT ![t] = Loaded(route)]
    /\ call' = [call EXCEPT ![t] = [c \in Slots[t] |-> NoCall]]

\* The user loads the page again.
Reload(t) ==
    /\ tab[t].status \notin {"unknown", "closed"}
    /\ events < MaxEvents
    /\ Visit(t, "app")
    /\ events' = events + 1
    /\ UNCHANGED <<owner, dead, enabled, granted, token, ever>>

-----------------------------------------------------------------------------
(* The answers, as the page handles them. *)

Answered(t, c, kind) == call[t][c] # NoCall /\ call[t][c].kind = kind
                        /\ call[t][c].answer # "none"

End(t, c) == call' = [call EXCEPT ![t][c] = NoCall]

\* A tab is signed in with token n and fetches the policies with the stored one.
Enter(t, c, n, user, stored) ==
    LET page == SignIn(tab[t], n, user) IN
      /\ tab' = [tab EXCEPT ![t] = page]
      /\ call' = [call EXCEPT ![t][c] =
                    [Request("fetch", page, NoUser, TRUE) EXCEPT !.token = stored]]

\* GET /version with the stored token; any failure counts as an invalid token.
CheckDone(t, c) ==
    /\ Answered(t, c, "check")
    /\ IF call[t][c].answer = "ok"
       THEN Enter(t, c, call[t][c].token, call[t][c].user, token) /\ UNCHANGED token
       ELSE SignOut(t) /\ End(t, c)
    /\ UNCHANGED <<owner, dead, enabled, granted, events, ever>>

\* POST /session
LoginDone(t, c) ==
    /\ Answered(t, c, "login")
    /\ IF call[t][c].answer = "ok"
       THEN /\ token' = call[t][c].token
            /\ Enter(t, c, call[t][c].token, call[t][c].user, call[t][c].token)
       ELSE SignOut(t) /\ End(t, c)
    /\ UNCHANGED <<owner, dead, enabled, granted, events, ever>>

\* Mutant of LogoutDone: the page does not wait for the answer to be good.
LogoutAnyway(t, c) ==
    /\ Answered(t, c, "logout")
    /\ token' = NoToken
    /\ IF call[t][c].answer = "denied" /\ call[t][c].guarded
       THEN Visit(t, "logout")
       ELSE /\ tab' = [tab EXCEPT ![t] = [Stop(@) EXCEPT
                         !.status = "loggedOut", !.route = "app", !.guarded = FALSE]]
            /\ End(t, c)
    /\ UNCHANGED <<owner, dead, enabled, granted, events, ever>>

\* DELETE /session. When it fails the user stays signed in. The interceptor
\* makes a success of a refusal, and takes the tab to /logout.
LogoutDone(t, c) ==
    /\ Answered(t, c, "logout")
    /\ CASE call[t][c].answer = "ok" ->
              /\ token' = NoToken
              /\ tab' = [tab EXCEPT ![t] = [Stop(@) EXCEPT
                           !.status = "loggedOut", !.route = "app", !.guarded = FALSE]]
              /\ End(t, c)
         [] call[t][c].answer = "denied" /\ call[t][c].guarded ->
              token' = NoToken /\ Visit(t, "logout")
         [] OTHER -> End(t, c) /\ UNCHANGED <<token, tab>>
    /\ UNCHANGED <<owner, dead, enabled, granted, events, ever>>

\* Mutant of Differs: only the number of permissions is compared.
LengthDiffers(policies, new) ==
    new.enabled # policies.enabled \/ Cardinality(new.p) # Cardinality(policies.p)

\* Whether the policies have changed.
Differs(policies, new) == new.enabled # policies.enabled \/ new.p # policies.p

\* Mutant of AssignPolicies: the authorizer is built once.
AssignOnce(page, new) ==
    {[page EXCEPT !.policies = new,
                  !.authorizer = IF @ = NoAuthorizer
                                 THEN [user |-> page.username, p |-> new.p] ELSE @]}

\* assignPolicies: policies that have changed, or come in another order, are
\* taken on and an authorizer is built for the present user.
AssignPolicies(page, new) ==
    IF \/ Differs(page.policies, new)
       \/ Cardinality(new.p) > 1
    THEN {[page EXCEPT !.policies = new,
                       !.authorizer = [user |-> page.username, p |-> new.p]]}
         \cup (IF Differs(page.policies, new) THEN {} ELSE {page})
    ELSE {page}

\* setInterval after the first fetch, whatever has happened since.
StartLoop(page, request) ==
    IF ~request.first THEN page
    ELSE [page EXCEPT !.loops = @ + 1, !.known = TRUE,
            !.late = @ \/ page.status # "loggedIn" \/ page.holds # request.token]

\* GET /permissions. A refusal takes the tab to /logout if the interceptor was
\* there when it was sent. After a first fetch that fails no loop is started.
FetchDone(t, c) ==
    /\ Answered(t, c, "fetch")
    /\ LET request == call[t][c] IN
         CASE request.answer = "ok" ->
                /\ \E page \in AssignPolicies(tab[t], request.policies) :
                      tab' = [tab EXCEPT ![t] =
                        [StartLoop(page, request) EXCEPT
                           !.own = @ \/ request.token = page.holds,
                           !.mixed = @ \/ owner[request.token] # page.username]]
                /\ End(t, c)
           [] request.answer = "denied" /\ request.guarded -> Visit(t, "logout")
           [] OTHER -> End(t, c) /\ UNCHANGED tab
    /\ UNCHANGED <<owner, dead, enabled, granted, token, events, ever>>

-----------------------------------------------------------------------------
(* The server. *)

Accepted(n) == n # NoToken /\ n \notin dead

\* The request is answered; sign-in gives out a new token, DELETE /session
\* blocks the one it carries.
Serve(t, c) ==
    /\ call[t][c] # NoCall /\ call[t][c].answer = "none"
    /\ LET request == call[t][c]
           Reply(answer) == call' = [call EXCEPT ![t][c].answer = answer] IN
         CASE request.kind = "login" ->
                /\ owner' = Append(owner, request.user)
                /\ call' = [call EXCEPT ![t][c].answer = "ok",
                                        ![t][c].token = Len(owner')]
                /\ UNCHANGED dead
           [] request.kind # "login" /\ ~Accepted(request.token) ->
                Reply("denied") /\ UNCHANGED <<owner, dead>>
           [] request.kind = "check" /\ Accepted(request.token) ->
                Reply("ok") /\ UNCHANGED <<owner, dead>>
           [] request.kind = "logout" /\ Accepted(request.token) ->
                /\ dead' = dead \cup {request.token}
                /\ Reply("ok")
                /\ UNCHANGED owner
           [] request.kind = "fetch" /\ Accepted(request.token) ->
                /\ call' = [call EXCEPT ![t][c].answer = "ok",
                      ![t][c].policies = [enabled |-> enabled,
                         p |-> IF enabled
                               THEN {owner[request.token]} \X granted[owner[request.token]]
                               ELSE {}]]
                /\ UNCHANGED <<owner, dead>>
    /\ UNCHANGED <<enabled, granted, token, tab, events, ever>>

\* The request fails; what it did may have been done.
ServeFails(t, c) ==
    /\ call[t][c] # NoCall /\ call[t][c].answer = "none"
    /\ events < MaxEvents
    /\ dead' \in {dead} \cup (IF call[t][c].kind = "logout" /\ Accepted(call[t][c].token)
                              THEN {dead \cup {call[t][c].token}} ELSE {})
    /\ call' = [call EXCEPT ![t][c].answer = "failed"]
    /\ events' = events + 1
    /\ UNCHANGED <<owner, enabled, granted, token, tab, ever>>

\* A token expires, or a new password ends it.
Expire(n) ==
    /\ n \in 1 .. Len(owner) /\ n \notin dead
    /\ events < MaxEvents
    /\ dead' = dead \cup {n}
    /\ events' = events + 1
    /\ UNCHANGED <<owner, enabled, granted, token, tab, call, ever>>

Verdict(u, a) == ~enabled \/ a \in granted[u]

\* An administrator changes the policies, or turns RBAC on or off.
ChangePolicies ==
    /\ events < MaxEvents
    /\ \/ /\ \E u \in Users : \E allowed \in SUBSET Actions :
                granted' = [granted EXCEPT ![u] = allowed]
          /\ UNCHANGED enabled
       \/ enabled' = ~enabled /\ UNCHANGED granted
    /\ ever' = [u \in Users |-> ever[u] \cup {a \in Actions : Verdict(u, a)'}]
    /\ events' = events + 1
    /\ UNCHANGED <<owner, dead, token, tab, call>>

-----------------------------------------------------------------------------
Handle(t, c) == CheckDone(t, c) \/ LoginDone(t, c) \/ LogoutDone(t, c) \/ FetchDone(t, c)

Next ==
    \/ \E t \in Tabs :
          \/ Load(t) \/ LogOut(t) \/ AutoLogout(t) \/ Refresh(t) \/ Reload(t)
          \/ \E u \in Users : Login(t, u)
          \/ \E c \in Slots[t] : \/ CheckDone(t, c) \/ LoginDone(t, c)
                              \/ LogoutDone(t, c) \/ FetchDone(t, c)
                              \/ Serve(t, c) \/ ServeFails(t, c)
    \/ \E n \in Tokens : Expire(n)
    \/ ChangePolicies

\* Pages run their effects and timers, requests are answered, and the answers
\* handled.
Fairness ==
    \A t \in Tabs :
       /\ WF_vars(Load(t)) /\ WF_vars(AutoLogout(t)) /\ WF_vars(Refresh(t))
       /\ \A c \in Slots[t] : WF_vars(Serve(t, c)) /\ WF_vars(Handle(t, c))

Spec == Init /\ [][Next]_vars /\ Fairness

-----------------------------------------------------------------------------
(* Properties. *)

\* can: what the page lets the user do.
Can(page, a) == \/ ~page.policies.enabled
                \/ <<page.authorizer.user, a>> \in page.authorizer.p

\* Once the policies of the user who is signed in have been fetched, the page
\* offers nothing that this user was never allowed to do: in particular
\* nothing that the user before was.
OffersOnlyGranted ==
    \A t \in Tabs : tab[t].status = "loggedIn" /\ tab[t].own =>
        \A a \in Actions : Can(tab[t], a) => a \in ever[tab[t].username]

\* The token that a tab is signed in with leaves the browser at the hands of
\* this tab only when the server does not accept it any more, unless the user
\* had asked to log out of an earlier session, or to sign in before, and the
\* answer comes only now.
TokenLeavesDead ==
    [][\A t \in Tabs :
         /\ tab[t].status = "loggedIn" /\ tab'[t] # tab[t]
         /\ token = tab[t].holds /\ token' = NoToken
         /\ \A c \in Slots[t] : /\ call[t][c].kind # "login"
                                /\ call[t][c].kind = "logout" => call[t][c].token = token
         => token \in dead']_vars

\* A tab runs one loop while it is signed in and none after, unless a first
\* fetch was answered after its sign-in had ended.
LoopsEnd ==
    \A t \in Tabs :
        \/ tab[t].loops <= IF tab[t].status = "loggedIn" THEN 1 ELSE 0
        \/ tab[t].late

\* A tab that stays signed in comes to offer what the server allows, if its
\* loop was started, the token is still its own user's, and it has not taken on
\* policies of another user.
PermissionsCatchUp ==
    \A t \in Tabs :
        <>[](/\ tab[t].status = "loggedIn" /\ tab[t].loops > 0 /\ ~tab[t].mixed
             /\ token # NoToken /\ token = tab[t].holds)
        => <>[](tab[t].status = "loggedIn" =>
                  \A a \in Actions : Can(tab[t], a) <=> Verdict(tab[t].username, a))

=============================================================================
