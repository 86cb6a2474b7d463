-------------------------------- MODULE Pitr --------------------------------
(***************************************************************************)
(* Point-in-time recovery: the window of dates that GetDatabaseClusterPitr *)
(* (internal/server/handlers/k8s/database_cluster.go) offers for a restore *)
(* while backups are made and logs are uploaded.                           *)
(*                                                                         *)
(* Time is counted in ticks, Second ticks to a second: the times in the    *)
(* backup objects are whole seconds, the server's clock is not.            *)
(***************************************************************************)
EXTENDS Integers

CONSTANTS
    Second,         \* ticks in a second
    Backups,
    Engine,         \* the engine type of the cluster
    Enabled,        \* spec.backup.pitr.enabled
    Reliable,       \* a PXC that reports the latest restorable time (1.14.0)
    UploadInterval, \* spec.backup.pitr.uploadIntervalSec; Unset is 0, which
                    \* the validation handler accepts from no one
    Default,        \* Default[e]: the upload interval of engine e, in seconds
    MaxTime         \* bound on the clock

EngineTypes == {"pxc", "psmdb", "postgresql"}
Unset == 0
Nil == -1        \* an absent time

ASSUME PitrAssumption ==
    /\ Second \in Nat \ {0}
    /\ Engine \in EngineTypes
    /\ Reliable \in BOOLEAN /\ Enabled \in BOOLEAN
    /\ UploadInterval \in Nat
    /\ Default \in [EngineTypes -> Nat \ {0}]
    /\ MaxTime \in Nat

VARIABLES
    now,       \* the clock
    uploaded,  \* the logs up to this time are in the backup storage
    bk,        \* bk[b]: the status of a DatabaseClusterBackup
    read,      \* the latest successful backup a request in progress has found
    answer     \* the answer to the last request

pitrVars == <<now, uploaded, bk, read, answer>>

Time == Nat \cup {Nil}

Status == [state : {"none", "running", "succeeded", "failed"},
           created : Time, completed : Time, restorable : Time]
Found == {st \in Status : st.state = "succeeded" /\ st.completed # Nil}
NoBackup == [state |-> "none", created |-> Nil, completed |-> Nil, restorable |-> Nil]
NoWindow == [earliest |-> Nil, latest |-> Nil]

\* A time of an answer lies between the start of the world and now.
Answered == [earliest : 0..now \cup {Nil}, latest : 0..now \cup {Nil}]

PitrTypeOK ==
    /\ now \in Nat /\ uploaded \in 0..now
    /\ bk \in [Backups -> Status]
    /\ read \in Found \cup {NoBackup}
    /\ answer \in Answered

PitrInit ==
    /\ now = 0 /\ uploaded = 0
    /\ bk = [b \in Backups |-> NoBackup]
    /\ read = NoBackup
    /\ answer = NoWindow

---------------------------------------------------------------------------
\* The helpers of GetDatabaseClusterPitr.

ValueOrDefault(value, default) == IF value = Unset THEN default ELSE value

\* getDefaultUploadInterval: 0 where no heuristic is used
GetDefaultUploadInterval ==
    IF Engine = "pxc" /\ Reliable THEN 0
    ELSE ValueOrDefault(UploadInterval, Default[Engine])

\* time.Time.Truncate: down to a multiple of d, unchanged if d is 0
Truncate(t, d) == IF d = 0 THEN t ELSE t - (t % d)

\* "delete nanoseconds": Truncate is given the nanoseconds of the time itself.
DeleteNanoseconds(t) == Truncate(t, t % Second)

\* Mutant of LatestRestorableDate: the upload interval is not subtracted.
DateNotUploaded(t, backupTime, interval) ==
    LET date == DeleteNanoseconds(t)
    IN  IF interval = 0 \/ backupTime > date THEN Nil ELSE date

\* The latest restorable date is now minus the upload interval, unless the
\* backup is younger than that.
LatestRestorableDate(t, backupTime, interval) ==
    LET date == DeleteNanoseconds(t) - interval * Second
    IN  IF interval = 0 \/ backupTime > date THEN Nil ELSE date

\* latestSuccessfulBackup: the first successful one of the backups sorted by
\* creation, latest first; backups of one second come in any order.
LatestSuccessful ==
    {b \in Backups :
        /\ bk[b].state = "succeeded"
        /\ \A c \in Backups : bk[c].state = "succeeded" => bk[c].created <= bk[b].created}

\* What is answered for a backup: an interval of dates, or nothing.
Response(backup) ==
    LET latest ==
            IF backup.restorable # Nil /\ Engine # "psmdb"
            THEN IF backup.restorable > backup.completed THEN backup.restorable ELSE Nil
            ELSE LatestRestorableDate(now, backup.completed, GetDefaultUploadInterval)
    IN  [earliest |-> IF latest = Nil THEN Nil ELSE backup.completed, latest |-> latest]

---------------------------------------------------------------------------
\* A request: it lists the backups, and asks for the time later.

ListBackups ==
    /\ read = NoBackup
    /\ IF LatestSuccessful = {} \/ (~Enabled /\ Engine # "postgresql")
       THEN answer' = NoWindow /\ UNCHANGED read
       ELSE (\E b \in LatestSuccessful : read' = bk[b]) /\ UNCHANGED answer
    /\ UNCHANGED <<now, uploaded, bk>>

Answer ==
    /\ read # NoBackup
    /\ answer' = Response(read)
    /\ read' = NoBackup
    /\ UNCHANGED <<now, uploaded, bk>>

---------------------------------------------------------------------------
\* The database operators.

WholeSeconds(t) == t - (t % Second)

StartBackup(b) ==
    /\ bk[b].state = "none"
    /\ bk' = [bk EXCEPT ![b].state = "running", ![b].created = WholeSeconds(now)]
    /\ UNCHANGED <<now, uploaded, read, answer>>

FinishBackup(b) ==
    /\ bk[b].state = "running"
    /\ \E s \in {"succeeded", "failed"} :
         bk' = [bk EXCEPT ![b].state = s, ![b].completed = WholeSeconds(now)]
    /\ UNCHANGED <<now, uploaded, read, answer>>

\* Operators that know it report up to when the logs are there.
ReportRestorable(b) ==
    /\ bk[b].state = "succeeded"
    /\ Engine # "pxc" \/ Reliable
    /\ bk' = [bk EXCEPT ![b].restorable = WholeSeconds(uploaded)]
    /\ UNCHANGED <<now, uploaded, read, answer>>

Upload ==
    /\ uploaded # now
    /\ uploaded' = now
    /\ UNCHANGED <<now, bk, read, answer>>

\* Logs are uploaded at least once in every interval.
Tick ==
    /\ now < MaxTime
    /\ now' = now + 1
    /\ now + 1 <= uploaded + ValueOrDefault(UploadInterval, Default[Engine]) * Second
    /\ UNCHANGED <<uploaded, bk, read, answer>>

PitrNext ==
    \/ ListBackups \/ Answer
    \/ \E b \in Backups : StartBackup(b) \/ FinishBackup(b) \/ ReportRestorable(b)
    \/ Upload \/ Tick

PitrSpec == PitrInit /\ [][PitrNext]_pitrVars

---------------------------------------------------------------------------
\* Properties.

\* Every date of whole seconds in a window that is offered can be restored:
\* the window starts at a backup that succeeded, it does not end before it
\* starts ("not able to restore if after the latest backup passed less than
\* uploadInterval time", latestRestorableDate), and the logs up to each such
\* date have been uploaded, at the time of the answer and later.  Dates with a
\* fraction of a second "are not accepted by restoration" and left out: the
\* end of a window may be one of them (DeleteNanoseconds).
WindowRestorable ==
    answer # NoWindow =>
        /\ \E b \in Backups : bk[b].state = "succeeded" /\ bk[b].completed = answer.earliest
        /\ answer.earliest <= answer.latest
        /\ \A date \in answer.earliest..answer.latest :
              date = WholeSeconds(date) => date <= uploaded
=============================================================================
