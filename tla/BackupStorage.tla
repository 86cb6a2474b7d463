--------------------------- MODULE BackupStorage ---------------------------
(***************************************************************************)
(* Backup storages of one namespace: a BackupStorage object and a Secret   *)
(* of the same name that holds its credentials.  The validation handler    *)
(* (internal/server/handlers/validation/backup_storage.go) decides, then   *)
(* the Kubernetes handler (internal/server/handlers/k8s/backup_storage.go) *)
(* makes its calls one by one; requests run at the same time, and          *)
(* everest-operator marks a storage as used by a cluster with a finalizer. *)
(*                                                                         *)
(* A request to S3 or Azure is abstracted to the set Granted.  What a      *)
(* request may refuse on its form alone (names, URLs) changes no state.    *)
(***************************************************************************)
EXTENDS Naturals, FiniteSets

CONSTANTS
    Names,
    Buckets,    \* pairs of a region and a bucket
    Urls,
    Keys,       \* access keys and secret keys
    Granted,    \* the combinations that pass the access check
    Edits,      \* the parameters of update requests
    Requests,   \* slots for concurrent requests
    MaxWrites,  \* bound on the versions of an object
    MaxFaults   \* bound on calls that fail or whose answer is lost

Keep == "keep"     \* a parameter that the request leaves out
Empty == "empty"   \* the empty string

Location == [bucket : Buckets, url : Urls]
Params == [bucket : Buckets \cup {Keep}, url : Urls \cup {Keep},
           ak : Keys \cup {Keep}, sk : Keys \cup {Keep}]
Complete == [bucket : Buckets, url : Urls, ak : Keys, sk : Keys]
Credentials == [ak : Keys \cup {Empty}, sk : Keys \cup {Empty}]

ASSUME BackupStorageAssumption ==
    /\ Granted \subseteq Complete
    /\ Edits \subseteq Params
    /\ MaxWrites \in Nat /\ MaxFaults \in Nat

VARIABLES
    storage,  \* storage[n]: the BackupStorage object, or None
    secret,   \* secret[n]: the Secret, or None
    req,      \* req[r]: the request in slot r
    created,  \* storages whose creation has been answered with success
    raced,    \* the storages of two requests that have run at the same time
    writes,   \* number of writes of BackupStorage objects
    faults

vars == <<storage, secret, req, created, raced, writes, faults>>

None == [kind |-> "none"]
Idle == [step |-> "idle"]

Object == [kind : {"storage"}, at : Location, used : BOOLEAN,
           deleting : BOOLEAN, rv : Nat]
SecretObject == [kind : {"secret"}, keys : Credentials]
Steps == {"get", "secret", "replace", "create", "cleanup",
          "usecret", "uget", "uput", "delete", "dsecret"}
Request == [step : Steps, name : Names, params : Params, rv : Nat]

TypeOK ==
    /\ storage \in [Names -> Object \cup {None}]
    /\ secret \in [Names -> SecretObject \cup {None}]
    /\ req \in [Requests -> Request \cup {Idle}]
    /\ created \subseteq Names
    /\ raced \subseteq SUBSET Names
    /\ writes \in 0..MaxWrites
    /\ faults \in 0..MaxFaults

Init ==
    /\ storage = [n \in Names |-> None]
    /\ secret = [n \in Names |-> None]
    /\ req = [r \in Requests |-> Idle]
    /\ created = {} /\ raced = {}
    /\ writes = 0 /\ faults = 0

---------------------------------------------------------------------------

Exists(n) == storage[n] # None

At(r, step) == req[r] # Idle /\ req[r].step = step

\* Request r is now at record; requests that run at the same time are noted.
Set(r, record) ==
    /\ req' = [req EXCEPT ![r] = record]
    /\ raced' = IF record = Idle THEN raced
                ELSE raced \cup {{record.name, req[q].name} :
                                  q \in {q \in Requests \ {r} : req[q] # Idle}}

Go(r, step) == Set(r, [req[r] EXCEPT !.step = step])

Start(r, step, n, p) ==
    /\ req[r] = Idle
    /\ Set(r, [step |-> step, name |-> n, params |-> p, rv |-> 0])

\* The value of a parameter that may have been left out.
Or(param, default) == IF param = Keep THEN default ELSE param

\* Mutant of BackupSecretData: a key that was left out is written as it is.
RawSecretData(p) == [kind |-> "secret", keys |-> [ak |-> p.ak, sk |-> p.sk]]

\* backupSecretData: both keys are always written.
BackupSecretData(p) ==
    [kind |-> "secret",
     keys |-> [ak |-> Or(p.ak, Empty), sk |-> Or(p.sk, Empty)]]

\* bucketNameOrDefault, regionOrDefault, urlOrDefault
Moved(at, p) == [bucket |-> Or(p.bucket, at.bucket), url |-> Or(p.url, at.url)]

\* s3Access, azureAccess
Accessible(at, keys) ==
    [bucket |-> at.bucket, url |-> at.url, ak |-> keys.ak, sk |-> keys.sk] \in Granted

\* A storage other than those of except that has the same location.
Duplicated(at, except) ==
    \E m \in Names \ except : Exists(m) /\ storage[m].at = at

\* basicStorageParamsAreChanged
BasicStorageParamsAreChanged(n, p) ==
    Or(p.bucket, storage[n].at.bucket) # storage[n].at.bucket

---------------------------------------------------------------------------
\* CreateBackupStorage

\* validateCreateBackupStorageRequest on the list of storages.  All parameters
\* are required.
ValidateCreate(r, n, p) ==
    /\ LET at == [bucket |-> p.bucket, url |-> p.url]
       IN  ~Duplicated(at, {}) /\ Accessible(at, [ak |-> p.ak, sk |-> p.sk])
    /\ Start(r, "get", n, p)
    /\ UNCHANGED <<storage, secret, created, writes, faults>>

\* A storage that is there already ends the request.
CreateGet(r) ==
    /\ At(r, "get")
    /\ IF Exists(req[r].name) THEN Set(r, Idle) ELSE Go(r, "secret")
    /\ UNCHANGED <<storage, secret, created, writes, faults>>

CreateSecret(r) ==
    /\ At(r, "secret")
    /\ IF secret[req[r].name] = None
       THEN /\ secret' = [secret EXCEPT ![req[r].name] = BackupSecretData(req[r].params)]
            /\ Go(r, "create")
       ELSE /\ Go(r, "replace")
            /\ UNCHANGED secret
    /\ UNCHANGED <<storage, created, writes, faults>>

\* The Secret exists already: it is updated, if it is still there.
ReplaceSecret(r) ==
    /\ At(r, "replace")
    /\ IF secret[req[r].name] = None
       THEN Set(r, Idle) /\ UNCHANGED secret
       ELSE /\ secret' = [secret EXCEPT ![req[r].name] = BackupSecretData(req[r].params)]
            /\ Go(r, "create")
    /\ UNCHANGED <<storage, created, writes, faults>>

\* backupStorageFromParams
NewObject(p) ==
    [kind |-> "storage", at |-> [bucket |-> p.bucket, url |-> p.url],
     used |-> FALSE, deleting |-> FALSE, rv |-> writes + 1]

CreateObject(r) ==
    /\ At(r, "create")
    /\ LET n == req[r].name
       IN  IF Exists(n)
           THEN /\ Go(r, "cleanup")
                /\ UNCHANGED <<storage, created, writes>>
           ELSE /\ writes < MaxWrites
                /\ writes' = writes + 1
                /\ storage' = [storage EXCEPT ![n] = NewObject(req[r].params)]
                /\ created' = created \cup {n}
                /\ Set(r, Idle)
    /\ UNCHANGED <<secret, faults>>

\* The object could not be created: the Secret is deleted.
Cleanup(r) ==
    /\ At(r, "cleanup")
    /\ secret' = [secret EXCEPT ![req[r].name] = None]
    /\ Set(r, Idle)
    /\ UNCHANGED <<storage, created, writes, faults>>

---------------------------------------------------------------------------
\* UpdateBackupStorage

\* Mutant of ValidateUpdate: the storage is compared with itself only.
ValidateMoved(r, n, p) ==
    /\ Exists(n) /\ secret[n] # None
    /\ ~(storage[n].used /\ BasicStorageParamsAreChanged(n, p))
    /\ LET at == Moved(storage[n].at, p)
       IN  Accessible(at, [ak |-> Or(p.ak, secret[n].keys.ak),
                           sk |-> Or(p.sk, secret[n].keys.sk)])
    /\ Start(r, IF p.ak = Keep /\ p.sk = Keep THEN "uget" ELSE "usecret", n, p)
    /\ UNCHANGED <<storage, secret, created, writes, faults>>

\* Mutant of ValidateUpdate: the access check is made with the keys stored.
ValidateStoredKeys(r, n, p) ==
    /\ Exists(n) /\ secret[n] # None
    /\ ~(storage[n].used /\ BasicStorageParamsAreChanged(n, p))
    /\ LET at == Moved(storage[n].at, p)
       IN  ~Duplicated(at, {n}) /\ Accessible(at, secret[n].keys)
    /\ Start(r, IF p.ak = Keep /\ p.sk = Keep THEN "uget" ELSE "usecret", n, p)
    /\ UNCHANGED <<storage, secret, created, writes, faults>>

\* validateUpdateBackupStorageRequest on the storage and its Secret: a used
\* storage keeps its bucket, no other storage has the new location, and the
\* keys, those left out taken from the Secret, give access to it.
ValidateUpdate(r, n, p) ==
    /\ Exists(n) /\ secret[n] # None
    /\ ~(storage[n].used /\ BasicStorageParamsAreChanged(n, p))
    /\ LET at == Moved(storage[n].at, p)
       IN  /\ ~Duplicated(at, {n})
           /\ Accessible(at, [ak |-> Or(p.ak, secret[n].keys.ak),
                              sk |-> Or(p.sk, secret[n].keys.sk)])
    /\ Start(r, IF p.ak = Keep /\ p.sk = Keep THEN "uget" ELSE "usecret", n, p)
    /\ UNCHANGED <<storage, secret, created, writes, faults>>

UpdateSecret(r) ==
    /\ At(r, "usecret")
    /\ IF secret[req[r].name] = None
       THEN Set(r, Idle) /\ UNCHANGED secret
       ELSE /\ secret' = [secret EXCEPT ![req[r].name] = BackupSecretData(req[r].params)]
            /\ Go(r, "uget")
    /\ UNCHANGED <<storage, created, writes, faults>>

UpdateGet(r) ==
    /\ At(r, "uget")
    /\ IF Exists(req[r].name)
       THEN Set(r, [req[r] EXCEPT !.step = "uput", !.rv = storage[req[r].name].rv])
       ELSE Set(r, Idle)
    /\ UNCHANGED <<storage, secret, created, writes, faults>>

\* A conflict ends the request.
UpdateObject(r) ==
    /\ At(r, "uput")
    /\ LET n == req[r].name
       IN  IF Exists(n) /\ storage[n].rv = req[r].rv
           THEN /\ writes < MaxWrites
                /\ writes' = writes + 1
                /\ storage' = [storage EXCEPT
                     ![n].at = Moved(storage[n].at, req[r].params),
                     ![n].rv = writes + 1]
           ELSE UNCHANGED <<storage, writes>>
    /\ Set(r, Idle)
    /\ UNCHANGED <<secret, created, faults>>

---------------------------------------------------------------------------
\* DeleteBackupStorage

\* The storage must exist and not be in use.
ValidateDelete(r, n) ==
    /\ Exists(n) /\ ~storage[n].used
    /\ Start(r, "delete", n, [bucket |-> Keep, url |-> Keep, ak |-> Keep, sk |-> Keep])
    /\ created' = created \ {n}
    /\ UNCHANGED <<storage, secret, writes, faults>>

\* An object with a finalizer is only marked.
DeleteObject(r) ==
    /\ At(r, "delete")
    /\ LET n == req[r].name
       IN  storage' = IF ~Exists(n) THEN storage
                      ELSE IF storage[n].used
                           THEN [storage EXCEPT ![n].deleting = TRUE]
                           ELSE [storage EXCEPT ![n] = None]
    /\ Go(r, "dsecret")
    /\ UNCHANGED <<secret, created, writes, faults>>

\* Mutant of DeleteSecret: the Secret is left behind.
ForgetSecret(r) ==
    /\ At(r, "dsecret")
    /\ Set(r, Idle)
    /\ UNCHANGED <<storage, secret, created, writes, faults>>

DeleteSecret(r) ==
    /\ At(r, "dsecret")
    /\ secret' = [secret EXCEPT ![req[r].name] = None]
    /\ Set(r, Idle)
    /\ UNCHANGED <<storage, created, writes, faults>>

---------------------------------------------------------------------------
\* Failures, and everest-operator.

\* Mutant of CallFails: a failed creation is reported as a success.
FailsSilently(r) ==
    /\ req[r] # Idle
    /\ faults < MaxFaults /\ faults' = faults + 1
    /\ created' = IF At(r, "create") THEN created \cup {req[r].name} ELSE created
    /\ Set(r, Idle)
    /\ UNCHANGED <<storage, secret, writes>>

\* A call fails, or the server stops: the request ends there, except that a
\* failed creation is followed by the clean-up of its Secret.
CallFails(r) ==
    /\ req[r] # Idle
    /\ faults < MaxFaults /\ faults' = faults + 1
    /\ \/ At(r, "create") /\ Go(r, "cleanup")
       \/ Set(r, Idle)
    /\ UNCHANGED <<storage, secret, created, writes>>

\* The object is created but the answer is lost, which looks like a failure.
CreateAnswerLost(r) ==
    /\ At(r, "create") /\ ~Exists(req[r].name)
    /\ faults < MaxFaults /\ faults' = faults + 1
    /\ writes < MaxWrites /\ writes' = writes + 1
    /\ storage' = [storage EXCEPT ![req[r].name] = NewObject(req[r].params)]
    /\ Go(r, "cleanup")
    /\ UNCHANGED <<secret, created>>

\* A cluster starts to use a storage ...
Use(n) ==
    /\ Exists(n) /\ ~storage[n].used /\ ~storage[n].deleting
    /\ writes < MaxWrites /\ writes' = writes + 1
    /\ storage' = [storage EXCEPT ![n].used = TRUE, ![n].rv = writes + 1]
    /\ UNCHANGED <<secret, req, created, raced, faults>>

\* ... and stops; an object that is marked as deleted goes away.
Release(n) ==
    /\ Exists(n) /\ storage[n].used
    /\ writes < MaxWrites /\ writes' = writes + 1
    /\ storage' = [storage EXCEPT ![n] =
                     IF storage[n].deleting THEN None
                     ELSE [storage[n] EXCEPT !.used = FALSE, !.rv = writes + 1]]
    /\ UNCHANGED <<secret, req, created, raced, faults>>

Next ==
    \/ \E r \in Requests :
         \/ \E n \in Names :
              \/ \E p \in Complete : ValidateCreate(r, n, p)
              \/ \E p \in Edits : ValidateUpdate(r, n, p)
              \/ ValidateDelete(r, n)
         \/ CreateGet(r) \/ CreateSecret(r) \/ ReplaceSecret(r)
         \/ CreateObject(r) \/ Cleanup(r)
         \/ UpdateSecret(r) \/ UpdateGet(r) \/ UpdateObject(r)
         \/ DeleteObject(r) \/ DeleteSecret(r)
         \/ CallFails(r) \/ CreateAnswerLost(r)
    \/ \E n \in Names : Use(n) \/ Release(n)

Spec == Init /\ [][Next]_vars

---------------------------------------------------------------------------
\* Properties.

InFlight(n) == \E r \in Requests : req[r] # Idle /\ req[r].name = n

\* A storage whose creation was answered with success has its object and its
\* Secret until somebody deletes it, whatever requests about other storages,
\* failures and lost answers there are (CreateBackupStorage,
\* DeleteBackupStorage); requests about the same storage must not overlap.
CreatedStaysUsable ==
    \A n \in created : {n} \notin raced => Exists(n) /\ secret[n] # None

\* "backup storage with the same url, bucket and region already exists": two
\* storages of a namespace have the same location only if requests about them
\* have run at the same time, about both or two about one of them (two updates
\* of a storage, one of the bucket and one of the URL, are each checked against
\* a location the storage does not end up at).
UniqueLocation ==
    \A m, n \in Names :
        Exists(m) /\ Exists(n) /\ storage[m].at = storage[n].at
            => m = n \/ {{m, n}, {m}, {n}} \cap raced # {}

\* Between requests a Secret belongs to a storage, and a storage that is not
\* about to go away has one: DeleteBackupStorage and a CreateBackupStorage
\* that is refused leave nothing behind, as long as no call has failed.
SecretPaired ==
    \A n \in Names :
        ~InFlight(n) /\ {n} \notin raced /\ faults = 0
            => /\ secret[n] # None => Exists(n)
               /\ Exists(n) /\ ~storage[n].deleting => secret[n] # None

\* "check data access" (validateCreateBackupStorageRequest and its update
\* counterpart): when a creation or an update has succeeded, the keys in the
\* Secret give access to the location of the storage, whatever failed before
\* it. An update with one of the two keys empties the other one, and requests
\* about the same storage must not overlap.
CredentialsGiveAccess ==
    [][\A r \in Requests : req[r] # Idle =>
         LET n == req[r].name
             keys == IF secret'[n] = None THEN [ak |-> Empty, sk |-> Empty]
                     ELSE secret'[n].keys
         IN  /\ {n} \notin raced
             /\ CreateObject(r) \/ UpdateObject(r)
             /\ storage'[n] # storage[n]
             => Accessible(storage'[n].at, keys) \/ Empty \in {keys.ak, keys.sk}]_vars
===========================================================================
