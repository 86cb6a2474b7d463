------------------------ MODULE ClusterBackupsProofs ------------------------
(***************************************************************************)
(* The data of the backups of a cluster, for any number of backups,        *)
(* restores and requests at the same time, and any bounds.                 *)
(***************************************************************************)
EXTENDS ClusterBackups, TLAPS

\* The data of b is safe for good: its object has the storage protection, or
\* has gone away with it.
Safe(b) ==
    /\ bk[b] # Absent
    /\ Exists(b) => "protect" \in bk[b].fins
    /\ b \notin removed

\* The deletion of a cluster or of a backup is under way.
IsDeletion(r) == req[r] # Idle /\ req[r].step \in {"ensure", "update", "delete"}

\* What a deletion knows: whether it has noted that it is to keep the data, and
\* that what it has ticked off its list is done.
Ticked(r) ==
    /\ req[r].todo \subseteq Ensure(req[r].listed, req[r].keep)
    /\ req[r].keep =>
         /\ req[r].listed \subseteq tried
         /\ \A b \in req[r].listed : <<b, "protect">> \notin req[r].todo => Safe(b)
    /\ req[r].step = "update" => \E t \in req[r].todo : req[r].cur = {t}
    /\ req[r].step = "delete" => req[r].todo = {}

\* Data is removed with the object of its backup only.
RemovedGone == \A b \in removed : bk[b] = None

\* Protection is only put on a backup some request was to keep the data of.
ProtectionTried ==
    \A b \in Backups : Exists(b) /\ "protect" \in bk[b].fins => b \in tried

\* The inductive invariant.
IndInv ==
    /\ TypeOK
    /\ RemovedGone
    /\ ProtectionTried
    /\ UntriedCleanupRemovesData
    /\ \A b \in kept : Safe(b)
    /\ \A r \in Requests : IsDeletion(r) => Ticked(r)

---------------------------------------------------------------------------

USE ClusterBackupsAssumption

\* What a request can be.
Record == Creation \cup Deletion \cup Restoration \cup {Idle}

\* The kind of a request follows from the step it is at.
LEMMA Kinds ==
    ASSUME TypeOK, NEW r \in Requests
    PROVE  /\ At(r, "put") => req[r] \in Creation
           /\ At(r, "restore") => req[r] \in Restoration
           /\ IsDeletion(r) <=> req[r] \in Deletion
           /\ req[r] \in Deletion => req[r] # Idle
<1>1. req[r] \in Creation \cup Deletion \cup Restoration \cup {Idle}
  BY DEF TypeOK
<1> QED
  BY <1>1 DEF Creation, Deletion, Restoration, Idle, At, IsDeletion

\* A step of one request leaves what the other ones know true, as long as
\* safe data stays safe.
LEMMA OthersTicked ==
    ASSUME IndInv, NEW r \in Requests, NEW record \in Record, Set(r, record),
           tried \subseteq tried',
           \A b \in Backups : Safe(b) => Safe(b)',
           (IsDeletion(r) => Ticked(r))'
    PROVE  /\ req' \in [Requests -> Record]
           /\ \A q \in Requests : (IsDeletion(q) => Ticked(q))'
<1>1. req \in [Requests -> Record]
  BY DEF IndInv, TypeOK, Record
<1>2. req' = [req EXCEPT ![r] = record]
  BY DEF Set
<1>3. ASSUME NEW q \in Requests, q # r, IsDeletion(q)' PROVE Ticked(q)'
  <2>1. req'[q] = req[q]
    BY <1>1, <1>2, <1>3
  <2>2. IsDeletion(q) /\ Ticked(q)
    BY <1>3, <2>1 DEF IsDeletion, IndInv
  <2>3. req[q].listed \subseteq Backups
    BY <2>2, Kinds DEF IndInv, Deletion
  <2> QED
    BY <2>1, <2>2, <2>3 DEF Ticked
<1> QED
  BY <1>1, <1>2, <1>3

\* A step without a request leaves what all of them know true, as long as
\* safe data stays safe.
LEMMA AllTicked ==
    ASSUME IndInv, UNCHANGED <<req, tried>>,
           \A b \in Backups : Safe(b) => Safe(b)'
    PROVE  \A q \in Requests : (IsDeletion(q) => Ticked(q))'
<1> SUFFICES ASSUME NEW q \in Requests, IsDeletion(q)' PROVE Ticked(q)'
  OBVIOUS
<1>1. IsDeletion(q) /\ Ticked(q)
  BY DEF IsDeletion, IndInv
<1>2. req[q].listed \subseteq Backups
  BY <1>1, Kinds DEF IndInv, Deletion
<1> QED
  BY <1>1, <1>2 DEF Ticked

\* What a step does to the objects: none comes back, and finalizers are only
\* added, protection to a backup that has been noted as tried. The data of one
\* that goes away without protection is removed.
Onward ==
    /\ \A b \in Backups :
         /\ bk[b] = None => bk'[b] = None
         /\ bk'[b] = Absent => bk[b] = Absent
         /\ Exists(b) => \/ Exists(b)' /\ bk[b].fins \subseteq bk'[b].fins
                         \/ bk'[b] = None
         /\ Exists(b)' /\ "protect" \in bk'[b].fins
              => b \in tried \/ (Exists(b) /\ "protect" \in bk[b].fins)
         /\ bk'[b] = None /\ bk[b] # None /\ b \notin tried => b \in removed'
         /\ b \in removed' /\ b \notin removed
              => Exists(b) /\ "protect" \notin bk[b].fins /\ bk'[b] = None
    /\ removed \subseteq removed' /\ removed' \subseteq Backups
    /\ tried \subseteq tried'

\* Such a step keeps the invariants on the data.
LEMMA OnwardKeeps ==
    ASSUME IndInv, Onward
    PROVE  /\ \A b \in Backups : Safe(b) => Safe(b)'
           /\ RemovedGone' /\ ProtectionTried' /\ UntriedCleanupRemovesData'
<1>1. ASSUME NEW b \in Backups, Safe(b) PROVE Safe(b)'
  BY <1>1 DEF Onward, Safe, Exists
<1>2. RemovedGone'
  BY DEF Onward, IndInv, RemovedGone
<1>3. ProtectionTried'
  BY DEF Onward, IndInv, ProtectionTried, Exists
<1>4. UntriedCleanupRemovesData'
  BY DEF Onward, IndInv, UntriedCleanupRemovesData
<1> QED
  BY <1>1, <1>2, <1>3, <1>4

\* A step that leaves the objects alone.
LEMMA StillOnward ==
    ASSUME TypeOK, UNCHANGED <<bk, removed>>, tried \subseteq tried'
    PROVE  Onward
BY DEF Onward, Exists, TypeOK

---------------------------------------------------------------------------
\* Three kinds of step.

\* An object is a backup, or there is none.
LEMMA Objects ==
    ASSUME TypeOK, NEW b \in Backups
    PROVE  Exists(b) <=> bk[b] \in Backup
<1>1. bk[b] \in Backup \cup {None, Absent}
  BY DEF TypeOK
<1> QED
  BY <1>1 DEF Exists, Backup, None, Absent

\* A step of a request that leaves the objects alone and is no success.
LEMMA RequestStep ==
    ASSUME IndInv, NEW r \in Requests, NEW record \in Record, Set(r, record),
           UNCHANGED <<db, bk, rs, removed, kept>>,
           tried \subseteq tried', tried' \subseteq Backups,
           requests' \in 0..MaxRequests, giveUps' \in 0..MaxGiveUps,
           (IsDeletion(r) => Ticked(r))'
    PROVE  IndInv'
<1>1. Onward
  BY StillOnward DEF IndInv
<1>2. /\ \A b \in Backups : Safe(b) => Safe(b)'
      /\ RemovedGone' /\ ProtectionTried' /\ UntriedCleanupRemovesData'
  BY <1>1, OnwardKeeps
<1>3. /\ req' \in [Requests -> Record]
      /\ \A q \in Requests : (IsDeletion(q) => Ticked(q))'
  BY <1>2, OthersTicked
<1>4. TypeOK'
  BY <1>3 DEF IndInv, TypeOK, Record
<1>5. \A b \in kept' : Safe(b)'
  BY <1>2 DEF IndInv, TypeOK
<1> QED
  BY <1>2, <1>3, <1>4, <1>5 DEF IndInv

\* A step of everest-operator or Kubernetes.
LEMMA OperatorStep ==
    ASSUME IndInv, UNCHANGED <<req, ghosts, requests, giveUps>>,
           db' \in {"ready", "restoring", "deleting", "gone"},
           rs' \in [Restores -> {"none", "new", "running", "done"}],
           bk' \in [Backups -> Backup \cup {None, Absent}],
           Onward
    PROVE  IndInv'
<1>1. /\ \A b \in Backups : Safe(b) => Safe(b)'
      /\ RemovedGone' /\ ProtectionTried' /\ UntriedCleanupRemovesData'
  BY OnwardKeeps
<1>2. \A q \in Requests : (IsDeletion(q) => Ticked(q))'
  BY <1>1, AllTicked DEF ghosts
<1>3. TypeOK'
  BY DEF IndInv, TypeOK, Onward, ghosts
<1>4. \A b \in kept' : Safe(b)'
  BY <1>1 DEF IndInv, TypeOK, ghosts
<1> QED
  BY <1>1, <1>2, <1>3, <1>4 DEF IndInv

\* The last step of a request, after which its slot is free.
LEMMA LastStep ==
    ASSUME IndInv, NEW r \in Requests, Set(r, Idle),
           UNCHANGED <<removed, tried, requests, giveUps>>,
           db' \in {"ready", "restoring", "deleting", "gone"},
           rs' \in [Restores -> {"none", "new", "running", "done"}],
           bk' \in [Backups -> Backup \cup {None, Absent}],
           Onward,
           kept' \subseteq Backups,
           \A b \in kept' : Safe(b)
    PROVE  IndInv'
<1>1. /\ \A b \in Backups : Safe(b) => Safe(b)'
      /\ RemovedGone' /\ ProtectionTried' /\ UntriedCleanupRemovesData'
  BY OnwardKeeps
<1>2. Idle \in Record /\ (IsDeletion(r) => Ticked(r))'
  BY DEF Record, IsDeletion, Set, IndInv, TypeOK
<1>3. /\ req' \in [Requests -> Record]
      /\ \A q \in Requests : (IsDeletion(q) => Ticked(q))'
  BY <1>1, <1>2, OthersTicked
<1>4. TypeOK'
  BY <1>3 DEF IndInv, TypeOK, Record
<1>5. \A b \in kept' : Safe(b)'
  BY <1>1
<1> QED
  BY <1>1, <1>3, <1>4, <1>5 DEF IndInv

---------------------------------------------------------------------------
\* Creating backups and restores.

\* One lemma for each action: it keeps the inductive invariant.
LEMMA CreateCheckInv ==
    ASSUME IndInv, NEW r \in Requests, NEW b \in Backups, CreateCheck(r, b)
    PROVE  IndInv'
<1> DEFINE record == [step |-> "put", backup |-> b]
<1>1. record \in Record
  BY DEF Record, Creation
<1>2. Set(r, record) /\ requests' \in 0..MaxRequests
  BY DEF CreateCheck, Start, IndInv, TypeOK
<1>3. req'[r] = record
  BY <1>2 DEF Set, IndInv, TypeOK
<1>4. (IsDeletion(r) => Ticked(r))'
  BY <1>3 DEF IsDeletion
<1> QED
  BY <1>1, <1>2, <1>4, RequestStep DEF CreateCheck, ghosts, IndInv, TypeOK

\* What a write leaves of the objects.
LEMMA WriteTyped ==
    ASSUME TypeOK, NEW b \in Backups, NEW record \in Backup, Write(b, record)
    PROVE  /\ bk' \in [Backups -> Backup \cup {None, Absent}]
           /\ bk'[b] \in Backup /\ bk'[b].fins = record.fins
           /\ \A c \in Backups \ {b} : bk'[c] = bk[c]
<1>1. [record EXCEPT !.rv = @ + 1] \in Backup
  BY DEF Write, Backup
<1> DEFINE new == [record EXCEPT !.rv = @ + 1]
<1>2. new.fins = record.fins
  BY DEF Backup
<1>3. bk' = [bk EXCEPT ![b] = new]
  BY DEF Write
<1> HIDE DEF new
<1> QED
  BY <1>1, <1>2, <1>3 DEF TypeOK, new

\* A write that adds no protection to an object that is there, or creates one.
LEMMA WriteOnward ==
    ASSUME TypeOK, NEW b \in Backups, NEW record \in Backup, Write(b, record),
           UNCHANGED <<removed, tried>>, bk[b] # None,
           Exists(b) => bk[b].fins \subseteq record.fins,
           "protect" \in record.fins => b \in tried \/ (Exists(b) /\ "protect" \in bk[b].fins)
    PROVE  Onward
<1>1. /\ bk'[b] \in Backup /\ bk'[b].fins = record.fins
      /\ \A c \in Backups \ {b} : bk'[c] = bk[c]
  BY WriteTyped
<1>2. bk'[b] \notin {None, Absent}
  BY <1>1 DEF Backup, None, Absent
<1> QED
  BY <1>1, <1>2 DEF Onward, Exists, TypeOK

\* A new backup has no finalizers.
LEMMA NewBackupTyped ==
    ASSUME NEW labelled \in BOOLEAN
    PROVE  NewBackup(labelled) \in Backup /\ NewBackup(labelled).fins = {}
BY DEF NewBackup, Backup, Finalizers

\* A backup is created, without finalizers, where there has been none.
LEMMA CreateBackupInv ==
    ASSUME IndInv, NEW r \in Requests, CreateBackup(r)
    PROVE  IndInv'
<1> DEFINE b == req[r].backup
<1>1. b \in Backups
  BY Kinds DEF CreateBackup, IndInv, Creation
<1>2. bk' \in [Backups -> Backup \cup {None, Absent}] /\ Onward
  <2>1. CASE bk[b] = Absent
    <3>1. Write(b, NewBackup(LabelAtCreation))
      BY <2>1 DEF CreateBackup
    <3>2. bk[b] # None /\ ~Exists(b)
      BY <2>1 DEF None, Absent, Exists
    <3> QED
      BY <1>1, <3>1, <3>2, WriteTyped, WriteOnward, NewBackupTyped
        DEF IndInv, CreateBackup, ghosts
  <2>2. CASE bk[b] # Absent
    BY <2>2, StillOnward DEF CreateBackup, IndInv, TypeOK, ghosts
  <2> QED
    BY <2>1, <2>2
<1> QED
  BY <1>2, LastStep DEF CreateBackup, IndInv, TypeOK, ghosts

\* A restore is checked, which writes nothing.
LEMMA RestoreCheckInv ==
    ASSUME IndInv, NEW r \in Requests, NEW x \in Restores, RestoreCheck(r, x)
    PROVE  IndInv'
<1> DEFINE record == [step |-> "restore", restore |-> x]
<1>1. record \in Record
  BY DEF Record, Restoration
<1>2. Set(r, record) /\ requests' \in 0..MaxRequests
  BY DEF RestoreCheck, Start, IndInv, TypeOK
<1>3. req'[r] = record
  BY <1>2 DEF Set, IndInv, TypeOK
<1>4. (IsDeletion(r) => Ticked(r))'
  BY <1>3 DEF IsDeletion
<1> QED
  BY <1>1, <1>2, <1>4, RequestStep DEF RestoreCheck, ghosts, IndInv, TypeOK

\* A restore is created, which leaves the backups alone.
LEMMA CreateRestoreInv ==
    ASSUME IndInv, NEW r \in Requests, CreateRestore(r)
    PROVE  IndInv'
<1>1. req[r].restore \in Restores
  BY Kinds DEF CreateRestore, IndInv, Restoration
<1>2. rs' \in [Restores -> {"none", "new", "running", "done"}]
  BY <1>1 DEF CreateRestore, IndInv, TypeOK
<1> QED
  BY <1>2, LastStep, StillOnward DEF CreateRestore, IndInv, TypeOK, ghosts

---------------------------------------------------------------------------
\* Deletions.

\* A deletion lists the backups, and notes those whose data it is to keep.
LEMMA StartDeletionInv ==
    ASSUME IndInv, NEW r \in Requests, NEW cluster \in BOOLEAN, NEW keep \in BOOLEAN,
           NEW set \in SUBSET Backups, StartDeletion(r, cluster, keep, set)
    PROVE  IndInv'
<1> DEFINE record == [step |-> "ensure", cluster |-> cluster, keep |-> keep,
                      listed |-> set, todo |-> Ensure(set, keep), cur |-> {}, rv |-> 0]
<1>1. Ensure(set, keep) \subseteq Backups \X Finalizers
  BY DEF Ensure, Finalizers
<1>2. record \in Record
  BY <1>1 DEF Record, Deletion
<1>3. Set(r, record) /\ requests' \in 0..MaxRequests
  BY DEF StartDeletion, Start, IndInv, TypeOK
<1>4. req'[r] = record
  BY <1>3 DEF Set, IndInv, TypeOK
<1>5. /\ tried \subseteq tried' /\ tried' \subseteq Backups
      /\ keep => set \subseteq tried'
  BY DEF StartDeletion, Asked, IndInv, TypeOK
<1>6. Ticked(r)'
  <2>1. keep => \A b \in set : <<b, "protect">> \in Ensure(set, keep)
    BY DEF Ensure
  <2> QED
    BY <1>4, <1>5, <2>1 DEF Ticked
<1> QED
  BY <1>2, <1>3, <1>5, <1>6, RequestStep DEF StartDeletion, IndInv, TypeOK

\* A step of a deletion between its start and its end that leaves the objects
\* alone.
LEMMA DeletionStep ==
    ASSUME IndInv, NEW r \in Requests, NEW record \in Deletion, Set(r, record),
           UNCHANGED <<db, bk, rs, removed, ghosts, requests, giveUps>>,
           req[r] \in Deletion,
           record.keep = req[r].keep, record.listed = req[r].listed,
           record.todo = req[r].todo,
           record.step = "update" => \E t \in record.todo : record.cur = {t},
           record.step = "delete" => record.todo = {}
    PROVE  IndInv'
<1>1. Ticked(r)
  BY Kinds DEF IndInv
<1>2. req'[r] = record
  BY DEF Set, IndInv, TypeOK
<1>3. Ticked(r)'
  BY <1>1, <1>2 DEF Ticked, Safe, Exists, ghosts, Deletion
<1> QED
  BY <1>3, RequestStep DEF Record, ghosts, IndInv, TypeOK

\* A backup of the list is read before it is updated.
LEMMA EnsureGetInv ==
    ASSUME IndInv, NEW r \in Requests, EnsureGet(r)
    PROVE  IndInv'
<1>1. req[r] \in Deletion
  BY Kinds DEF EnsureGet, At, IsDeletion, IndInv
<1>2. PICK t \in Due(req[r].todo) :
        /\ Exists(t[1])
        /\ Set(r, [req[r] EXCEPT !.step = "update", !.cur = {t}, !.rv = bk[t[1]].rv])
  BY DEF EnsureGet
<1>3. t \in req[r].todo /\ t \in Backups \X Finalizers
  BY <1>1, <1>2 DEF Due, Deletion
<1>4. bk[t[1]].rv \in Nat
  <2>1. t[1] \in Backups
    BY <1>3
  <2>2. bk[t[1]] \in Backup
    BY <1>2, <2>1, Objects DEF IndInv
  <2> QED
    BY <2>2 DEF Backup
<1> DEFINE record == [req[r] EXCEPT !.step = "update", !.cur = {t}, !.rv = bk[t[1]].rv]
<1>5. /\ record \in Deletion
      /\ record.keep = req[r].keep /\ record.listed = req[r].listed
      /\ record.todo = req[r].todo /\ record.cur = {t} /\ record.step = "update"
  BY <1>1, <1>3, <1>4 DEF Deletion
<1>6. Set(r, record)
  BY <1>2
<1> HIDE DEF record
<1> QED
  BY <1>1, <1>3, <1>5, <1>6, DeletionStep DEF EnsureGet

\* A conflict makes the request read the backup again: nothing is ticked off.
LEMMA EnsureConflictInv ==
    ASSUME IndInv, NEW r \in Requests, EnsureConflict(r)
    PROVE  IndInv'
<1>1. req[r] \in Deletion
  BY Kinds DEF EnsureConflict, At, IsDeletion, IndInv
<1> DEFINE record == [req[r] EXCEPT !.step = "ensure", !.cur = {}, !.rv = 0]
<1>2. /\ record \in Deletion
      /\ record.keep = req[r].keep /\ record.listed = req[r].listed
      /\ record.todo = req[r].todo /\ record.step = "ensure"
  BY <1>1 DEF Deletion
<1>3. Set(r, record)
  BY DEF EnsureConflict
<1> HIDE DEF record
<1> QED
  BY <1>1, <1>2, <1>3, DeletionStep DEF EnsureConflict

\* The list is done: the deletion itself is next.
LEMMA EnsureDoneInv ==
    ASSUME IndInv, NEW r \in Requests, EnsureDone(r)
    PROVE  IndInv'
<1>1. req[r] \in Deletion
  BY Kinds DEF EnsureDone, At, IsDeletion, IndInv
<1> DEFINE record == [req[r] EXCEPT !.step = "delete"]
<1>2. /\ record \in Deletion
      /\ record.keep = req[r].keep /\ record.listed = req[r].listed
      /\ record.todo = req[r].todo /\ record.step = "delete"
  BY <1>1 DEF Deletion
<1>3. Set(r, record) /\ req[r].todo = {}
  BY DEF EnsureDone
<1> HIDE DEF record
<1> QED
  BY <1>1, <1>2, <1>3, DeletionStep DEF EnsureDone

\* The update that sets a finalizer: the one step that makes data safe.
LEMMA EnsureUpdateInv ==
    ASSUME IndInv, NEW r \in Requests, EnsureUpdate(r)
    PROVE  IndInv'
<1>1. req[r] \in Deletion /\ Ticked(r) /\ req[r].step = "update"
  BY Kinds DEF EnsureUpdate, At, IsDeletion, IndInv
<1>2. PICK t \in req[r].todo : req[r].cur = {t}
  BY <1>1 DEF Ticked
<1> DEFINE b == t[1]
           record == [req[r] EXCEPT !.step = "ensure", !.todo = @ \ req[r].cur,
                                    !.cur = {}, !.rv = 0]
<1>3. b \in req[r].listed /\ b \in Backups /\ t[2] \in Finalizers /\ t = <<b, t[2]>>
  BY <1>1, <1>2 DEF Ticked, Ensure, Deletion, Finalizers
<1>4. /\ Accepts(r, t)
      /\ IF Wanted(t) \subseteq bk[b].fins
         THEN UNCHANGED bk
         ELSE Write(b, [bk[b] EXCEPT !.fins = @ \cup Wanted(t)])
  BY <1>2 DEF EnsureUpdate
<1>5. Exists(b) /\ bk[b] \in Backup
  BY <1>3, <1>4, Objects DEF Accepts, IndInv
<1>6. t[2] = "protect" => b \in tried
  BY <1>1, <1>2, <1>3 DEF Ticked, Ensure
<1>7. /\ bk' \in [Backups -> Backup \cup {None, Absent}]
      /\ Onward
      /\ Exists(b)' /\ Wanted(t) \subseteq bk'[b].fins
  <2>1. CASE Wanted(t) \subseteq bk[b].fins
    BY <1>4, <1>5, <2>1, StillOnward DEF EnsureUpdate, ghosts, IndInv, TypeOK, Exists
  <2>2. CASE ~(Wanted(t) \subseteq bk[b].fins)
    <3> DEFINE new == [bk[b] EXCEPT !.fins = @ \cup Wanted(t)]
    <3>1. new \in Backup /\ new.fins = bk[b].fins \cup Wanted(t)
      BY <1>5 DEF Backup, Wanted, Finalizers
    <3>2. Write(b, new)
      BY <1>4, <2>2
    <3>3. "protect" \in new.fins => b \in tried \/ "protect" \in bk[b].fins
      BY <1>6, <3>1 DEF Wanted
    <3> HIDE DEF new
    <3>4. bk' \in [Backups -> Backup \cup {None, Absent}] /\ bk'[b] \in Backup
          /\ bk'[b].fins = new.fins
      BY <1>3, <3>1, <3>2, WriteTyped DEF IndInv
    <3>5. Onward
      BY <1>3, <1>5, <3>1, <3>2, <3>3, WriteOnward DEF IndInv, EnsureUpdate, ghosts, Exists
    <3>6. Exists(b)'
      BY <3>4 DEF Exists, Backup, None, Absent
    <3> QED
      BY <3>1, <3>4, <3>5, <3>6
  <2> QED
    BY <2>1, <2>2
<1>8. /\ \A c \in Backups : Safe(c) => Safe(c)'
      /\ RemovedGone' /\ ProtectionTried' /\ UntriedCleanupRemovesData'
  BY <1>7, OnwardKeeps
<1>9. /\ record \in Deletion /\ record.step = "ensure"
      /\ record.keep = req[r].keep /\ record.listed = req[r].listed
      /\ record.todo = req[r].todo \ {t}
  BY <1>1, <1>2 DEF Deletion
<1>10. Set(r, record) /\ req'[r] = record
  BY DEF EnsureUpdate, Set, IndInv, TypeOK
<1> HIDE DEF record
<1>11. t[2] = "protect" => Safe(b)'
  <2>1. b \notin removed'
    BY <1>5 DEF EnsureUpdate, IndInv, RemovedGone, Exists
  <2> QED
    BY <1>7, <2>1 DEF Safe, Wanted, Finalizers, Exists
<1>12. Ticked(r)'
  <2>1. req'[r].todo \subseteq Ensure(req'[r].listed, req'[r].keep)
    BY <1>1, <1>9, <1>10 DEF Ticked
  <2>2. ASSUME req'[r].keep
        PROVE  /\ req'[r].listed \subseteq tried'
               /\ \A c \in req'[r].listed : <<c, "protect">> \notin req'[r].todo => Safe(c)'
    <3>1. req'[r].listed \subseteq tried'
      BY <1>1, <1>9, <1>10, <2>2 DEF Ticked, EnsureUpdate, ghosts
    <3>2. ASSUME NEW c \in req'[r].listed, <<c, "protect">> \notin req'[r].todo
          PROVE  Safe(c)'
      <4>1. CASE <<c, "protect">> \in req[r].todo
        BY <1>3, <1>9, <1>10, <1>11, <3>2, <4>1
      <4>2. CASE <<c, "protect">> \notin req[r].todo
        BY <1>1, <1>8, <1>9, <1>10, <2>2, <3>2, <4>2 DEF Ticked, Deletion
      <4> QED
        BY <4>1, <4>2
    <3> QED
      BY <3>1, <3>2
  <2> QED
    BY <1>9, <1>10, <2>1, <2>2 DEF Ticked
<1>13. /\ req' \in [Requests -> Record]
       /\ \A q \in Requests : (IsDeletion(q) => Ticked(q))'
  BY <1>8, <1>9, <1>10, <1>12, OthersTicked DEF Record, EnsureUpdate, ghosts
<1>14. TypeOK'
  BY <1>7, <1>13 DEF EnsureUpdate, ghosts, IndInv, TypeOK, Record
<1>15. \A c \in kept' : Safe(c)'
  BY <1>8 DEF EnsureUpdate, ghosts, IndInv, TypeOK
<1> QED
  BY <1>8, <1>13, <1>14, <1>15 DEF IndInv

\* A deletion that fails leaves the finalizers it has set.
LEMMA FailureInv ==
    ASSUME IndInv, NEW r \in Requests, GiveUp(r) \/ BackupGone(r) \/ DeleteNotFound(r)
    PROVE  IndInv'
<1>1. /\ Set(r, Idle) /\ giveUps' \in 0..MaxGiveUps
      /\ UNCHANGED <<db, bk, rs, removed, ghosts, requests>>
  BY DEF GiveUp, BackupGone, DeleteNotFound, IndInv, TypeOK
<1>2. Idle \in Record /\ (IsDeletion(r) => Ticked(r))'
  BY <1>1 DEF Record, IsDeletion, Set, IndInv, TypeOK
<1> QED
  BY <1>1, <1>2, RequestStep DEF ghosts, IndInv, TypeOK

\* Marking objects as being deleted.
LEMMA MarkOnward ==
    ASSUME TypeOK, NEW set \in SUBSET Backups, \A b \in set : Exists(b),
           bk' = [b \in Backups |-> IF b \in set THEN [bk[b] EXCEPT !.deleting = TRUE]
                                                 ELSE bk[b]],
           UNCHANGED <<removed, tried>>
    PROVE  bk' \in [Backups -> Backup \cup {None, Absent}] /\ Onward
<1>1. ASSUME NEW b \in set
      PROVE  bk'[b] \in Backup /\ bk'[b].fins = bk[b].fins
  BY Objects DEF Backup
<1>2. \A b \in Backups \ set : bk'[b] = bk[b]
  OBVIOUS
<1>3. \A b \in set : bk'[b] \notin {None, Absent}
  BY <1>1 DEF Backup, None, Absent
<1>4. bk' \in [Backups -> Backup \cup {None, Absent}]
  BY <1>1, <1>2 DEF TypeOK
<1> QED
  BY <1>1, <1>2, <1>3, <1>4 DEF Onward, Exists, TypeOK

\* The deletion is answered with success only with its whole list ticked off.
LEMMA DeleteObjectInv ==
    ASSUME IndInv, NEW r \in Requests, DeleteObject(r)
    PROVE  IndInv'
<1>1. req[r] \in Deletion /\ Ticked(r) /\ req[r].todo = {}
  BY Kinds DEF DeleteObject, At, IsDeletion, IndInv, Ticked
<1>2. /\ bk' \in [Backups -> Backup \cup {None, Absent}] /\ Onward
      /\ db' \in {"ready", "restoring", "deleting", "gone"}
  <2>1. CASE req[r].cluster
    BY <2>1, StillOnward DEF DeleteObject, Answer, IndInv, TypeOK
  <2>2. CASE ~req[r].cluster
    <3>1. req[r].listed \in SUBSET Backups
      BY <1>1 DEF Deletion
    <3> QED
      BY <2>2, <3>1, MarkOnward DEF DeleteObject, Answer, IndInv, TypeOK
  <2> QED
    BY <2>1, <2>2
<1>3. kept' \subseteq Backups /\ \A b \in kept' : Safe(b)
  BY <1>1 DEF DeleteObject, Answer, Ticked, Deletion, IndInv, TypeOK
<1> QED
  BY <1>2, <1>3, LastStep DEF DeleteObject, Answer, IndInv, TypeOK

---------------------------------------------------------------------------
\* everest-operator and Kubernetes.

\* The operator creates a backup on a schedule, without finalizers.
LEMMA ScheduleInv ==
    ASSUME IndInv, NEW b \in Backups, Schedule(b)
    PROVE  IndInv'
<1>1. Write(b, NewBackup(TRUE)) /\ bk[b] = Absent
  BY DEF Schedule
<1>2. bk[b] # None /\ ~Exists(b)
  BY <1>1 DEF None, Absent, Exists
<1> QED
  BY <1>1, <1>2, NewBackupTyped, WriteTyped, WriteOnward, OperatorStep
    DEF Schedule, ghosts, IndInv, TypeOK

\* The operator labels a backup, and leaves its finalizers.
LEMMA LabelInv ==
    ASSUME IndInv, NEW b \in Backups, Label(b)
    PROVE  IndInv'
<1> DEFINE new == [bk[b] EXCEPT !.labelled = TRUE]
<1>1. new \in Backup /\ new.fins = bk[b].fins /\ Write(b, new) /\ Exists(b)
  BY Objects DEF Label, Backup, IndInv
<1> HIDE DEF new
<1> QED
  BY <1>1, WriteTyped, WriteOnward, OperatorStep DEF Label, ghosts, IndInv, TypeOK, Exists

\* A backup ends, and keeps its finalizers.
LEMMA BackupEndsInv ==
    ASSUME IndInv, NEW b \in Backups, BackupEnds(b)
    PROVE  IndInv'
<1> DEFINE new == [bk[b] EXCEPT !.state = "done"]
<1>1. new \in Backup /\ new.fins = bk[b].fins /\ Write(b, new) /\ Exists(b)
  BY Objects DEF BackupEnds, Unfinished, Backup, IndInv
<1> HIDE DEF new
<1> QED
  BY <1>1, WriteTyped, WriteOnward, OperatorStep
    DEF BackupEnds, ghosts, IndInv, TypeOK, Exists

\* A backup without protection goes with its data; one with it leaves the data.
LEMMA BackupRemovedInv ==
    ASSUME IndInv, NEW b \in Backups, BackupRemoved(b)
    PROVE  IndInv'
<1>1. bk' \in [Backups -> Backup \cup {None, Absent}]
  BY DEF BackupRemoved, IndInv, TypeOK
<1>2. /\ bk'[b] = None /\ Exists(b)
      /\ \A c \in Backups \ {b} : bk'[c] = bk[c]
  BY DEF BackupRemoved, IndInv, TypeOK
<1>3. None # Absent
  BY DEF None, Absent
<1>4. "protect" \in bk[b].fins => b \in tried
  BY <1>2 DEF IndInv, ProtectionTried
<1>5. Onward
  BY <1>2, <1>3, <1>4 DEF Onward, BackupRemoved, ghosts, Exists, IndInv, TypeOK
<1> QED
  BY <1>1, <1>5, OperatorStep DEF BackupRemoved, ghosts, IndInv, TypeOK

\* The cluster goes; the finalizers of its backups stay.
LEMMA ClusterRemovedInv ==
    ASSUME IndInv, ClusterRemoved
    PROVE  IndInv'
<1> DEFINE set == {b \in Backups : Exists(b)}
<1>1. bk' = [b \in Backups |-> IF b \in set THEN [bk[b] EXCEPT !.deleting = TRUE] ELSE bk[b]]
  BY DEF ClusterRemoved
<1>2. set \in SUBSET Backups /\ \A b \in set : Exists(b)
  OBVIOUS
<1> HIDE DEF set
<1>3. bk' \in [Backups -> Backup \cup {None, Absent}] /\ Onward
  BY <1>1, <1>2, MarkOnward DEF ClusterRemoved, ghosts, IndInv
<1> QED
  BY <1>3, OperatorStep DEF ClusterRemoved, ghosts, IndInv, TypeOK

\* A restore runs, which leaves the backups alone.
LEMMA RestoresInv ==
    ASSUME IndInv, NEW x \in Restores, RestoreStarts(x) \/ RestoreEnds(x)
    PROVE  IndInv'
<1>1. UNCHANGED <<bk, req, removed, ghosts, requests, giveUps>>
  BY DEF RestoreStarts, RestoreEnds
<1>2. rs' \in [Restores -> {"none", "new", "running", "done"}]
  BY DEF RestoreStarts, RestoreEnds, IndInv, TypeOK
<1>3. db' \in {"ready", "restoring", "deleting", "gone"}
  BY DEF RestoreStarts, RestoreEnds, IndInv, TypeOK
<1> QED
  BY <1>1, <1>2, <1>3, StillOnward, OperatorStep DEF ghosts, IndInv, TypeOK

---------------------------------------------------------------------------
\* The theorems.

\* There is no request at first; nothing has been removed, and nothing protected.
LEMMA InitInv ==
    ASSUME Init
    PROVE  IndInv
<1> DEFINE done == [NewBackup(TRUE) EXCEPT !.state = "done"]
<1>1. done \in Backup /\ done.fins = {} /\ done # None
  <2>1. NewBackup(TRUE) \in Backup /\ NewBackup(TRUE).fins = {}
    BY NewBackupTyped
  <2>2. ASSUME NEW x \in Backup, x.fins = {}
        PROVE  LET y == [x EXCEPT !.state = "done"]
               IN y \in Backup /\ y.fins = {} /\ y # None
    BY <2>2 DEF Backup, None
  <2> HIDE DEF Backup, NewBackup
  <2> QED
    BY <2>1, <2>2
<1>2. \A b \in Backups : bk[b] \in {done, Absent}
  BY DEF Init
<1>3. Absent # None
  BY DEF Absent, None
<1> HIDE DEF done
<1>4. bk \in [Backups -> Backup \cup {None, Absent}]
  BY <1>1, <1>2 DEF Init
<1>5. TypeOK
  <2>1. req \in [Requests -> Creation \cup Deletion \cup Restoration \cup {Idle}]
    BY DEF Init
  <2>2. 0 \in 0..MaxRequests /\ 0 \in 0..MaxGiveUps
    OBVIOUS
  <2> QED
    BY <1>4, <2>1, <2>2 DEF Init, TypeOK
<1>6. ProtectionTried
  BY <1>1, <1>2 DEF ProtectionTried, Exists
<1>7. UntriedCleanupRemovesData
  BY <1>1, <1>2, <1>3 DEF UntriedCleanupRemovesData
<1> QED
  BY <1>5, <1>6, <1>7 DEF Init, IndInv, RemovedGone, IsDeletion

\* Every step keeps the invariant.
LEMMA NextInv ==
    ASSUME IndInv, [Next]_vars
    PROVE  IndInv'
<1>1. ASSUME NEW r \in Requests, NEW b \in Backups, CreateCheck(r, b) PROVE IndInv'
  BY <1>1, CreateCheckInv
<1>2. ASSUME NEW r \in Requests, NEW b \in Backups, NEW keep \in BOOLEAN,
             DeleteBackup(r, b, keep)
      PROVE  IndInv'
  <2>1. StartDeletion(r, FALSE, keep, {b}) /\ {b} \in SUBSET Backups
    BY <1>2 DEF DeleteBackup
  <2>2. FALSE \in BOOLEAN
    OBVIOUS
  <2> QED
    BY <2>1, <2>2, StartDeletionInv
<1>3. ASSUME NEW r \in Requests, NEW keep \in BOOLEAN, DeleteCluster(r, keep) PROVE IndInv'
  <2> DEFINE set == {b \in Backups : Exists(b) /\ ~bk[b].deleting}
  <2>1. StartDeletion(r, TRUE, keep, set) /\ set \in SUBSET Backups
    BY <1>3 DEF DeleteCluster
  <2> HIDE DEF set
  <2> QED
    BY <2>1, StartDeletionInv
<1>4. ASSUME NEW r \in Requests, NEW x \in Restores, RestoreCheck(r, x) PROVE IndInv'
  BY <1>4, RestoreCheckInv
<1>5. ASSUME NEW r \in Requests,
             \/ CreateBackup(r) \/ CreateRestore(r)
             \/ EnsureGet(r) \/ EnsureUpdate(r) \/ EnsureConflict(r) \/ BackupGone(r)
             \/ EnsureDone(r) \/ DeleteObject(r) \/ DeleteNotFound(r) \/ GiveUp(r)
      PROVE  IndInv'
  BY <1>5, CreateBackupInv, CreateRestoreInv, EnsureGetInv, EnsureUpdateInv,
     EnsureConflictInv, EnsureDoneInv, DeleteObjectInv, FailureInv
<1>6. ASSUME NEW b \in Backups, Schedule(b) \/ Label(b) \/ BackupEnds(b) \/ BackupRemoved(b)
      PROVE  IndInv'
  BY <1>6, ScheduleInv, LabelInv, BackupEndsInv, BackupRemovedInv
<1>7. ASSUME NEW x \in Restores, RestoreStarts(x) \/ RestoreEnds(x) PROVE IndInv'
  BY <1>7, RestoresInv
<1>8. CASE ClusterRemoved
  BY <1>8, ClusterRemovedInv
<1>9. CASE UNCHANGED vars
  <2>1. /\ UNCHANGED <<req, ghosts, requests, giveUps>>
        /\ UNCHANGED <<db, bk, rs, removed>>
    BY <1>9 DEF vars
  <2> QED
    BY <2>1, StillOnward, OperatorStep DEF ghosts, IndInv, TypeOK
<1> QED
  BY <1>1, <1>2, <1>3, <1>4, <1>5, <1>6, <1>7, <1>8, <1>9 DEF Next

\* The inductive invariant holds of every state.
THEOREM Invariance == Spec => []IndInv
<1>1. Init => IndInv
  BY InitInv
<1>2. IndInv /\ [Next]_vars => IndInv'
  BY NextInv
<1> QED
  BY <1>1, <1>2, PTL DEF Spec

\* The cluster, its backups and restores, and the requests on them keep their
\* types.
THEOREM TypeCorrect == Spec => []TypeOK
<1>1. IndInv => TypeOK
  BY DEF IndInv
<1> QED
  BY <1>1, Invariance, PTL

\* The data of a backup that some deletion was to keep, and was answered with
\* success, is never removed, however many requests ask for its removal.
THEOREM ListedDataIsSafe == Spec => []ListedDataStays
<1>1. IndInv => ListedDataStays
  BY DEF IndInv, ListedDataStays, Safe
<1> QED
  BY <1>1, Invariance, PTL

\* The data of a backup that no request was ever to keep goes away with its
\* object.
THEOREM UntriedDataGoes == Spec => []UntriedCleanupRemovesData
<1>1. IndInv => UntriedCleanupRemovesData
  BY DEF IndInv
<1> QED
  BY <1>1, Invariance, PTL
============================================================================
