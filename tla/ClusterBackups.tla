-------------------------- MODULE ClusterBackups --------------------------
(***************************************************************************)
(* The backups and restores of one database cluster, and the deletion of   *)
(* both (internal/server/handlers/k8s/database_cluster.go,                 *)
(* database_cluster_backup.go and database_cluster_restore.go).            *)
(*                                                                         *)
(* A request lists or reads, and then puts finalizers on backups one by    *)
(* one before it deletes; everest-operator and Kubernetes change the same  *)
(* objects meanwhile.  The data of a backup is removed with its object     *)
(* unless the storage-protection finalizer is there.                       *)
(***************************************************************************)
EXTENDS Naturals

CONSTANTS
    Backups,
    Restores,
    Requests,         \* slots for concurrent requests
    Ops,              \* the kinds of request in use
    Existing,         \* backups that are there, and done, at first
    LabelAtCreation,  \* whether a new backup has the clusterName label at once
    MaxRequests,      \* bound on the requests altogether
    MaxGiveUps,       \* bound on calls whose retries are used up
    MaxWrites         \* bound on the resourceVersions of a backup

AllOps == {"create", "deleteCluster", "deleteBackup", "restore"}

ASSUME ClusterBackupsAssumption ==
    /\ Ops \subseteq AllOps
    /\ Existing \subseteq Backups
    /\ LabelAtCreation \in BOOLEAN
    /\ MaxRequests \in Nat /\ MaxGiveUps \in Nat /\ MaxWrites \in Nat

VARIABLES
    db,        \* the database cluster
    bk,        \* bk[b]: the DatabaseClusterBackup object, or None
    rs,        \* rs[x]: a DatabaseClusterRestore
    req,       \* req[r]: the request in slot r
    removed,   \* backups that went away with their data
    tried,     \* backups some deletion was to keep the data of
    kept,      \* ... and was answered with success
    requests, giveUps

ghosts == <<tried, kept>>
vars == <<db, bk, rs, req, removed, ghosts, requests, giveUps>>

None == [state |-> "none"]
Absent == [state |-> "absent"]   \* a backup that has not been created yet
Idle == [step |-> "idle"]

Finalizers == {"protect", "foreground"}
Backup == [state : {"running", "done"}, fins : SUBSET Finalizers,
           deleting : BOOLEAN, labelled : BOOLEAN, rv : 0..MaxWrites]
Creation == [step : {"put"}, backup : Backups]
Deletion == [step : {"ensure", "update", "delete"}, cluster : BOOLEAN,
             keep : BOOLEAN, listed : SUBSET Backups,
             todo : SUBSET (Backups \X Finalizers), cur : SUBSET (Backups \X Finalizers),
             rv : Nat]
Restoration == [step : {"restore"}, restore : Restores]

TypeOK ==
    /\ db \in {"ready", "restoring", "deleting", "gone"}
    /\ bk \in [Backups -> Backup \cup {None, Absent}]
    /\ rs \in [Restores -> {"none", "new", "running", "done"}]
    /\ req \in [Requests -> Creation \cup Deletion \cup Restoration \cup {Idle}]
    /\ removed \subseteq Backups
    /\ tried \subseteq Backups /\ kept \subseteq Backups
    /\ requests \in 0..MaxRequests /\ giveUps \in 0..MaxGiveUps

NewBackup(labelled) ==
    [state |-> "running", fins |-> {}, deleting |-> FALSE, labelled |-> labelled, rv |-> 0]

Init ==
    /\ db = "ready"
    /\ bk = [b \in Backups |->
               IF b \in Existing THEN [NewBackup(TRUE) EXCEPT !.state = "done"] ELSE Absent]
    /\ rs = [x \in Restores |-> "none"]
    /\ req = [r \in Requests |-> Idle]
    /\ removed = {} /\ tried = {} /\ kept = {}
    /\ requests = 0 /\ giveUps = 0

---------------------------------------------------------------------------

Exists(b) == bk[b] \notin {None, Absent}

Unfinished(b) == Exists(b) /\ bk[b].state = "running" /\ ~bk[b].deleting

At(r, step) == req[r] # Idle /\ req[r].step = step

Set(r, record) == req' = [req EXCEPT ![r] = record]

\* A new request in slot r.
Start(r, record) ==
    /\ req[r] = Idle
    /\ requests < MaxRequests /\ requests' = requests + 1
    /\ Set(r, record)

\* A write of backup b gives it the next resourceVersion.
Write(b, record) ==
    /\ record.rv < MaxWrites
    /\ bk' = [bk EXCEPT ![b] = [record EXCEPT !.rv = @ + 1]]

---------------------------------------------------------------------------
\* CreateDatabaseClusterBackup

\* ensureNoBackupsRunningForCluster, on the backups with the cluster's label
NoBackupsRunning == \A b \in Backups : ~(Unfinished(b) /\ bk[b].labelled)

CreateCheck(r, b) ==
    /\ "create" \in Ops
    /\ bk[b] = Absent
    /\ NoBackupsRunning
    /\ Start(r, [step |-> "put", backup |-> b])
    /\ UNCHANGED <<db, bk, rs, removed, ghosts, giveUps>>

\* A name that is taken is refused.
CreateBackup(r) ==
    /\ At(r, "put")
    /\ IF bk[req[r].backup] = Absent
       THEN Write(req[r].backup, NewBackup(LabelAtCreation))
       ELSE UNCHANGED bk
    /\ Set(r, Idle)
    /\ UNCHANGED <<db, rs, removed, ghosts, requests, giveUps>>

---------------------------------------------------------------------------
\* DeleteDatabaseCluster and DeleteDatabaseClusterBackup

\* The finalizers to put on the backups of set before anything is deleted.
Ensure(set, keep) ==
    (set \X {"foreground"}) \cup (IF keep THEN set \X {"protect"} ELSE {})

\* What the request asks for.
Asked(keep, set) == tried' = IF keep THEN tried \cup set ELSE tried

\* Mutant of StartDeletion: a request to remove the data is taken as a request
\* to keep it.
StartKeeping(r, cluster, keep, set) ==
    /\ Start(r, [step |-> "ensure", cluster |-> cluster, keep |-> keep, listed |-> set,
                 todo |-> Ensure(set, TRUE), cur |-> {}, rv |-> 0])
    /\ Asked(keep, set)
    /\ UNCHANGED <<db, bk, rs, removed, kept, giveUps>>

StartDeletion(r, cluster, keep, set) ==
    /\ Start(r, [step |-> "ensure", cluster |-> cluster, keep |-> keep, listed |-> set,
                 todo |-> Ensure(set, keep), cur |-> {}, rv |-> 0])
    /\ Asked(keep, set)
    /\ UNCHANGED <<db, bk, rs, removed, kept, giveUps>>

\* The backups of the cluster that are not being deleted already.
DeleteCluster(r, keep) ==
    /\ "deleteCluster" \in Ops
    /\ db # "gone"
    /\ StartDeletion(r, TRUE, keep, {b \in Backups : Exists(b) /\ ~bk[b].deleting})

DeleteBackup(r, b, keep) ==
    /\ "deleteBackup" \in Ops
    /\ Exists(b)
    /\ StartDeletion(r, FALSE, keep, {b})

\* ensureBackupStorageProtection sets both finalizers, and comes first.
Due(todo) ==
    {t \in todo : t[2] = "protect" \/ \A u \in todo : u[2] = "foreground"}

\* Get the backup again ...
EnsureGet(r) ==
    /\ At(r, "ensure")
    /\ \E t \in Due(req[r].todo) :
         /\ Exists(t[1])
         /\ Set(r, [req[r] EXCEPT !.step = "update", !.cur = {t}, !.rv = bk[t[1]].rv])
    /\ UNCHANGED <<db, bk, rs, removed, ghosts, requests, giveUps>>

\* Mutant of Wanted: a finalizer that Kubernetes does not know.
WantedUnknown(t) ==
    IF t[2] = "protect" THEN {"protect", "fg"} ELSE {"fg"}

Wanted(t) == IF t[2] = "protect" THEN Finalizers ELSE {"foreground"}

\* An object that is being deleted takes no new finalizers.
Accepts(r, t) ==
    /\ Exists(t[1])
    /\ bk[t[1]].rv = req[r].rv
    /\ bk[t[1]].deleting => Wanted(t) \subseteq bk[t[1]].fins

\* ... and update it with the finalizers added.  Nothing is written if they
\* are all there.
EnsureUpdate(r) ==
    /\ At(r, "update")
    /\ \E t \in req[r].cur :
         /\ Accepts(r, t)
         /\ IF Wanted(t) \subseteq bk[t[1]].fins
            THEN UNCHANGED bk
            ELSE Write(t[1], [bk[t[1]] EXCEPT !.fins = @ \cup Wanted(t)])
    /\ Set(r, [req[r] EXCEPT !.step = "ensure", !.todo = @ \ req[r].cur, !.cur = {},
                             !.rv = 0])
    /\ UNCHANGED <<db, rs, removed, ghosts, requests, giveUps>>

\* Mutant of EnsureConflict: a conflict is taken as success.
EnsureShrug(r) ==
    /\ At(r, "update")
    /\ \E t \in req[r].cur : ~Accepts(r, t)
    /\ Set(r, [req[r] EXCEPT !.step = "ensure", !.todo = @ \ req[r].cur, !.cur = {},
                             !.rv = 0])
    /\ UNCHANGED <<db, bk, rs, removed, ghosts, requests, giveUps>>

\* A refused update is tried again from the read.
EnsureConflict(r) ==
    /\ At(r, "update")
    /\ \E t \in req[r].cur : ~Accepts(r, t)
    /\ Set(r, [req[r] EXCEPT !.step = "ensure", !.cur = {}, !.rv = 0])
    /\ UNCHANGED <<db, bk, rs, removed, ghosts, requests, giveUps>>

\* The retries are used up, the context has ended or the server stops: the
\* request ends with the finalizers it has set so far.
GiveUp(r) ==
    /\ req[r] # Idle
    /\ giveUps < MaxGiveUps /\ giveUps' = giveUps + 1
    /\ Set(r, Idle)
    /\ UNCHANGED <<db, bk, rs, removed, ghosts, requests>>

\* A backup of the list is gone for good: the retries end without success.
BackupGone(r) ==
    /\ At(r, "ensure")
    /\ \E t \in Due(req[r].todo) : ~Exists(t[1])
    /\ Set(r, Idle)
    /\ UNCHANGED <<db, bk, rs, removed, ghosts, requests, giveUps>>

EnsureDone(r) ==
    /\ At(r, "ensure") /\ req[r].todo = {}
    /\ Set(r, [req[r] EXCEPT !.step = "delete"])
    /\ UNCHANGED <<db, bk, rs, removed, ghosts, requests, giveUps>>

\* The request is answered with success.
Answer(r) ==
    /\ kept' = IF req[r].keep THEN kept \cup req[r].listed ELSE kept
    /\ Set(r, Idle)
    /\ UNCHANGED tried

DeleteObject(r) ==
    /\ At(r, "delete")
    /\ IF req[r].cluster
       THEN /\ db # "gone"
            /\ db' = "deleting"
            /\ UNCHANGED bk
       ELSE /\ \A b \in req[r].listed : Exists(b)
            /\ bk' = [b \in Backups |-> IF b \in req[r].listed
                                        THEN [bk[b] EXCEPT !.deleting = TRUE] ELSE bk[b]]
            /\ UNCHANGED db
    /\ Answer(r)
    /\ UNCHANGED <<rs, removed, requests, giveUps>>

\* The object is gone: NotFound is passed on.
DeleteNotFound(r) ==
    /\ At(r, "delete")
    /\ IF req[r].cluster THEN db = "gone" ELSE \E b \in req[r].listed : ~Exists(b)
    /\ Set(r, Idle)
    /\ UNCHANGED <<db, bk, rs, removed, ghosts, requests, giveUps>>

---------------------------------------------------------------------------
\* CreateDatabaseClusterRestore

RestoreCheck(r, x) ==
    /\ "restore" \in Ops
    /\ rs[x] = "none"
    /\ db \in {"ready", "deleting"}
    /\ Start(r, [step |-> "restore", restore |-> x])
    /\ UNCHANGED <<db, bk, rs, removed, ghosts, giveUps>>

CreateRestore(r) ==
    /\ At(r, "restore")
    /\ rs' = [rs EXCEPT ![req[r].restore] = IF @ = "none" THEN "new" ELSE @]
    /\ Set(r, Idle)
    /\ UNCHANGED <<db, bk, removed, ghosts, requests, giveUps>>

---------------------------------------------------------------------------
\* everest-operator and Kubernetes

Schedule(b) ==
    /\ bk[b] = Absent
    /\ db = "ready"
    /\ Write(b, NewBackup(TRUE))
    /\ UNCHANGED <<db, rs, req, removed, ghosts, requests, giveUps>>

Label(b) ==
    /\ Exists(b) /\ ~bk[b].labelled
    /\ Write(b, [bk[b] EXCEPT !.labelled = TRUE])
    /\ UNCHANGED <<db, rs, req, removed, ghosts, requests, giveUps>>

BackupEnds(b) ==
    /\ Unfinished(b) /\ db = "ready"
    /\ Write(b, [bk[b] EXCEPT !.state = "done"])
    /\ UNCHANGED <<db, rs, req, removed, ghosts, requests, giveUps>>

\* A deleted object goes away, with its data unless that is protected.
BackupRemoved(b) ==
    /\ Exists(b) /\ bk[b].deleting
    /\ bk' = [bk EXCEPT ![b] = None]
    /\ removed' = IF "protect" \in bk[b].fins THEN removed ELSE removed \cup {b}
    /\ UNCHANGED <<db, rs, req, ghosts, requests, giveUps>>

\* A deleted cluster takes its backups with it.
ClusterRemoved ==
    /\ db = "deleting"
    /\ db' = "gone"
    /\ bk' = [b \in Backups |-> IF Exists(b) THEN [bk[b] EXCEPT !.deleting = TRUE] ELSE bk[b]]
    /\ UNCHANGED <<rs, req, removed, ghosts, requests, giveUps>>

RestoreStarts(x) ==
    /\ rs[x] = "new" /\ db \in {"ready", "restoring"}
    /\ rs' = [rs EXCEPT ![x] = "running"]
    /\ db' = "restoring"
    /\ UNCHANGED <<bk, req, removed, ghosts, requests, giveUps>>

RestoreEnds(x) ==
    /\ rs[x] = "running"
    /\ rs' = [rs EXCEPT ![x] = "done"]
    /\ db' = IF db = "restoring" /\ \A y \in Restores \ {x} : rs[y] # "running"
             THEN "ready" ELSE db
    /\ UNCHANGED <<bk, req, removed, ghosts, requests, giveUps>>

Next ==
    \/ \E r \in Requests :
         \/ \E b \in Backups :
              CreateCheck(r, b) \/ \E keep \in BOOLEAN : DeleteBackup(r, b, keep)
         \/ \E keep \in BOOLEAN : DeleteCluster(r, keep)
         \/ \E x \in Restores : RestoreCheck(r, x)
         \/ CreateBackup(r) \/ CreateRestore(r)
         \/ EnsureGet(r) \/ EnsureUpdate(r) \/ EnsureConflict(r) \/ BackupGone(r)
         \/ EnsureDone(r) \/ DeleteObject(r) \/ DeleteNotFound(r) \/ GiveUp(r)
    \/ \E b \in Backups :
         Schedule(b) \/ Label(b) \/ BackupEnds(b) \/ BackupRemoved(b)
    \/ \E x \in Restores : RestoreStarts(x) \/ RestoreEnds(x)
    \/ ClusterRemoved

Spec == Init /\ [][Next]_vars

---------------------------------------------------------------------------
\* Properties.

\* cleanupBackupStorage: "If set, remove the backed up data from storage".
\* The data of a backup that a deletion without it listed and was answered
\* with success stays for good, whoever else asks for its removal, before or
\* after (DeleteDatabaseCluster, DeleteDatabaseClusterBackup).
ListedDataStays == kept \cap removed = {}

\* With it the data of a backup that no request was ever to keep is removed
\* with the backup, whether a request or the deletion of the cluster removes it
\* (ensureBackupStorageProtection is only called to keep the data).
UntriedCleanupRemovesData ==
    \A b \in Backups \ tried : bk[b] = None => b \in removed
===========================================================================
