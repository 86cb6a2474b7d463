----------------------------- MODULE Accounts -----------------------------
(***************************************************************************)
(* The built-in user accounts (pkg/kubernetes/accounts.go), kept in one    *)
(* Secret: a YAML map of users in its data, and one annotation per user    *)
(* whose password is stored in plain text.  everestctl commands of several *)
(* administrators run at the same time; each reads the Secret one or more  *)
(* times and then updates it on the resourceVersion of its last read.  The *)
(* API servers verify passwords against the copies that their session      *)
(* managers' clients keep (everest.go, session/manager.go).                *)
(*                                                                         *)
(* A stored password is a record: the password and the form it is kept in. *)
(* Hashing never maps two passwords, or a password and a hash, together.   *)
(***************************************************************************)
EXTENDS Naturals

CONSTANTS
    Users,
    Passwords,
    InitialAdmin,     \* the user the Helm chart creates, with a plain password
    InitialPassword,
    Clients,          \* everestctl commands that run at the same time
    Replicas,         \* replicas of the API server
    Ops,              \* the commands in use
    MaxWrites,        \* bound on the writes to the Secret
    MaxLost           \* bound on the answers that are lost

\* No password: the account does not exist.
NoPassword == "no password"

AllOps == {"create", "set", "delete"}

ASSUME AccountsAssumption ==
    /\ InitialAdmin \in Users
    /\ InitialPassword \in Passwords /\ NoPassword \notin Passwords
    /\ Ops \subseteq AllOps
    /\ MaxWrites \in Nat /\ MaxLost \in Nat

VARIABLES
    users,     \* the map in the Secret's data; the value None: no such user
    insecure,  \* users with the insecure-password annotation
    rv,        \* resourceVersion of the Secret
    cmd,       \* cmd[c]: the command client c runs
    last,      \* last[u]: the passwords u may have, as the answers to commands say
    lost,      \* number of answers that were lost
    raced,     \* kinds of command that have run at the same time as another one
    copies     \* copies[s]: the Secret as the cache of server s has it

accountsVars == <<users, insecure, rv, cmd, last, lost, raced, copies>>

secretVars == <<users, insecure, rv>>

None == [form |-> "none"]
Stored == [form : {"hash", "plain"}, pw : Passwords]
NoCommand == [step |-> "idle"]

Insert == [step : {"get", "put"}, op : {"create", "set"}, user : Users,
           pw : Passwords, secure : BOOLEAN, rv : Nat]
Remove == [step : {"dget", "dput"}, user : Users,
           snap : [Users -> Stored \cup {None}], rv : Nat]

\* The Secret at one of its versions, with the passwords known of by then.
Versions == [users : [Users -> Stored \cup {None}], insecure : SUBSET Users,
             last : [Users -> SUBSET (Passwords \cup {NoPassword})]]
Secret == [users |-> users, insecure |-> insecure, last |-> last]

AccountsTypeOK ==
    /\ users \in [Users -> Stored \cup {None}]
    /\ insecure \subseteq Users
    /\ rv \in Nat
    /\ cmd \in [Clients -> Insert \cup Remove \cup {NoCommand}]
    /\ last \in [Users -> SUBSET (Passwords \cup {NoPassword})]
    /\ lost \in Nat
    /\ raced \subseteq AllOps
    /\ copies \in [Replicas -> Versions]

AccountsInit ==
    /\ users = [u \in Users |->
                  IF u = InitialAdmin THEN [form |-> "plain", pw |-> InitialPassword]
                                      ELSE None]
    /\ insecure = {InitialAdmin}
    /\ rv = 0
    /\ cmd = [c \in Clients |-> NoCommand]
    /\ last = [u \in Users |-> {IF u = InitialAdmin THEN InitialPassword
                                                    ELSE NoPassword}]
    /\ lost = 0
    /\ raced = {}
    /\ copies = [s \in Replicas |-> Secret]

---------------------------------------------------------------------------

Exists(u) == users[u] # None

\* Verify, on a version of the Secret: the annotation says in which form the
\* password is compared.
Verify(secret, u, pw) ==
    secret.users[u] = [form |-> IF u \in secret.insecure THEN "plain" ELSE "hash",
                       pw |-> pw]

\* Authenticate: server s asks its cache.
Login(s, u, pw) == Verify(copies[s], u, pw)

\* An update of the Secret succeeds on the resourceVersion it was read with.
CanUpdate(c) == cmd[c].rv = rv /\ rv < MaxWrites

Kind(record) == IF record.step \in {"dget", "dput"} THEN "delete" ELSE record.op

\* Client c is now at record; commands that run at the same time are noted.
Run(c, record) ==
    LET new == [cmd EXCEPT ![c] = record]
        running == {d \in Clients : new[d] # NoCommand}
    IN  /\ cmd' = new
        /\ raced' = raced \cup {Kind(new[d]) : d \in {d \in running : running # {d}}}

\* Client c runs nothing.  No command starts when the bound on writes is reached.
CanStart(c) == cmd[c] = NoCommand /\ rv < MaxWrites

At(c, step) == cmd[c] # NoCommand /\ cmd[c].step = step

---------------------------------------------------------------------------

\* Mutant of Create: no check that the user is new.
CreateAnyway(c, u, pw) ==
    /\ "create" \in Ops
    /\ CanStart(c)
    /\ Run(c, [step |-> "get", op |-> "create", user |-> u, pw |-> pw,
               secure |-> TRUE, rv |-> 0])
    /\ UNCHANGED <<secretVars, last, lost, copies>>

\* Create: "Ensure that the user does not already exist", refuse an empty
\* password (none of Passwords is empty), then hash.
Create(c, u, pw) ==
    /\ "create" \in Ops
    /\ CanStart(c)
    /\ ~Exists(u)
    /\ Run(c, [step |-> "get", op |-> "create", user |-> u, pw |-> pw,
               secure |-> TRUE, rv |-> 0])
    /\ UNCHANGED <<secretVars, last, lost, copies>>

\* SetPassword: hashed for everestctl, in plain text for the initial password
\* of the administrator.
SetPassword(c, u, pw, secure) ==
    /\ "set" \in Ops
    /\ CanStart(c)
    /\ Exists(u)
    /\ Run(c, [step |-> "get", op |-> "set", user |-> u, pw |-> pw,
               secure |-> secure, rv |-> 0])
    /\ UNCHANGED <<secretVars, last, lost, copies>>

\* insertOrUpdateAccount reads the Secret again ...
InsertGet(c) ==
    /\ At(c, "get")
    /\ Run(c, [cmd[c] EXCEPT !.step = "put", !.rv = rv])
    /\ UNCHANGED <<secretVars, last, lost, copies>>

\* Mutant of Annotate: the annotation of an earlier plain password stays.
KeepAnnotation(u, secure) ==
    insecure' = IF secure THEN insecure ELSE insecure \cup {u}

\* The annotation of the user is deleted and set again if it is needed.
Annotate(u, secure) ==
    insecure' = IF secure THEN insecure \ {u} ELSE insecure \cup {u}

\* ... puts the account into the map, sets the annotation and updates it.
StoreInsert(c) ==
    /\ CanUpdate(c)
    /\ users' = [users EXCEPT ![cmd[c].user] =
                   [form |-> IF cmd[c].secure THEN "hash" ELSE "plain",
                    pw |-> cmd[c].pw]]
    /\ Annotate(cmd[c].user, cmd[c].secure)
    /\ rv' = rv + 1

InsertPut(c) ==
    /\ At(c, "put")
    /\ StoreInsert(c)
    /\ last' = [last EXCEPT ![cmd[c].user] = {cmd[c].pw}]
    /\ Run(c, NoCommand)
    /\ UNCHANGED <<lost, copies>>

\* Delete lists the accounts, takes the user out of that list ...
DeleteList(c, u) ==
    /\ "delete" \in Ops
    /\ CanStart(c)
    /\ Exists(u)
    /\ Run(c, [step |-> "dget", user |-> u,
               snap |-> [users EXCEPT ![u] = None], rv |-> 0])
    /\ UNCHANGED <<secretVars, last, lost, copies>>

\* ... reads the Secret a second time ...
DeleteGet(c) ==
    /\ At(c, "dget")
    /\ Run(c, [cmd[c] EXCEPT !.step = "dput", !.rv = rv])
    /\ UNCHANGED <<secretVars, last, lost, copies>>

\* ... and writes the list of the first read on the version of the second.
\* The annotation of the deleted user stays.
StoreRemove(c) ==
    /\ CanUpdate(c)
    /\ users' = cmd[c].snap
    /\ rv' = rv + 1
    /\ UNCHANGED insecure

DeletePut(c) ==
    /\ At(c, "dput")
    /\ StoreRemove(c)
    /\ last' = [last EXCEPT ![cmd[c].user] = {NoPassword}]
    /\ Run(c, NoCommand)
    /\ UNCHANGED <<lost, copies>>

\* A conflict, a refusal or a failed read: the command ends with the error and
\* has changed nothing.
CommandFails(c) ==
    /\ cmd[c] # NoCommand
    /\ Run(c, NoCommand)
    /\ UNCHANGED <<secretVars, last, lost, copies>>

\* The command ends with an error that does not say whether the update was
\* carried out: the user may have either password from now on.
AnswerLost(c) ==
    /\ lost < MaxLost /\ lost' = lost + 1
    /\ \/ /\ At(c, "put")
          /\ StoreInsert(c) \/ UNCHANGED secretVars
          /\ last' = [last EXCEPT ![cmd[c].user] = @ \cup {cmd[c].pw}]
       \/ /\ At(c, "dput")
          /\ StoreRemove(c) \/ UNCHANGED secretVars
          /\ last' = [last EXCEPT ![cmd[c].user] = @ \cup {NoPassword}]
    /\ Run(c, NoCommand)
    /\ UNCHANGED copies


\* The watch of server s brings its cache up to the newest version.
SyncCopy(s) ==
    /\ copies' = [copies EXCEPT ![s] = Secret]
    /\ UNCHANGED <<secretVars, cmd, last, lost, raced>>

AccountsNext ==
    \/ \E c \in Clients :
        \/ \E u \in Users, pw \in Passwords :
             \/ Create(c, u, pw)
             \/ SetPassword(c, u, pw, TRUE)
             \/ u = InitialAdmin /\ SetPassword(c, u, pw, FALSE)
        \/ \E u \in Users : DeleteList(c, u)
        \/ InsertGet(c) \/ InsertPut(c)
        \/ DeleteGet(c) \/ DeletePut(c)
        \/ CommandFails(c) \/ AnswerLost(c)
    \/ \E s \in Replicas : SyncCopy(s)

\* The watch of every server goes on; commands may stop at any step.
AccountsFairness == \A s \in Replicas : WF_accountsVars(SyncCopy(s))

AccountsSpec == AccountsInit /\ [][AccountsNext]_accountsVars /\ AccountsFairness

---------------------------------------------------------------------------
\* Properties.

\* Of the passwords that a user may have at some version of the Secret, as far
\* as commands were answered, one works and no other password does; the user
\* may be gone as well, and then none works (Verify).
OnePasswordWorks(secret) ==
    \A u \in Users : \E pw \in secret.last[u] :
        \A q \in Passwords : Verify(secret, u, q) <=> q = pw

\* As long as no Delete has run at the same time as another command, a user
\* has the password of the last command that succeeded, or of one whose answer
\* was lost since: Creates and SetPasswords never undo one another and the
\* stored form always agrees with the annotation (insertOrUpdateAccount).  A
\* server lets users in as one earlier version of the Secret does, never as a
\* mixture.
PasswordWorksUnlessDeleteRaced ==
    "delete" \notin raced =>
        /\ OnePasswordWorks(Secret)
        /\ \A s \in Replicas : OnePasswordWorks(copies[s])

\* "Ensure that the user does not already exist" (Create), "for an existing
\* user account" (SetPassword): a Create or SetPassword that no other command
\* of its kind or of another ran beside never replaces an account, and never
\* brings a deleted one back.
InsertKeepsItsCheck ==
    [][\A c \in Clients :
          At(c, "put") /\ rv' # rv /\ cmd'[c] = NoCommand /\ cmd[c].op \notin raced
              => (Exists(cmd[c].user) <=> cmd[c].op = "set")]_accountsVars

===========================================================================
