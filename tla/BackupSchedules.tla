--------------------------- MODULE BackupSchedules ---------------------------
(***************************************************************************)
(* The backup schedules of a database. They are stored in UTC; each page   *)
(* shows and edits them in the time zone of its browser, and every update  *)
(* of the database, whatever it is about, sends all of them back, converted*)
(* again. The conversion works on the fields of the cron expression.       *)
(*                                                                         *)
(* A schedule is its time: storage and retention are left out, and months  *)
(* are always "*". Of the dialogs there is only what they send, for an open*)
(* one follows the database as it is read. An update that is refused since *)
(* the database has been changed is sent again by the hook until it lands  *)
(* (see ConflictRetry).                                                    *)
(***************************************************************************)
EXTENDS Integers, FiniteSets, Functions

CONSTANTS
    Users,       \* pages in which the database is open
    Offsets,     \* Offsets[u]: the offsets from UTC that u's zone has, minutes
    Engines,     \* database engines
    Names,       \* names of schedules
    Forms,       \* times that are entered
    FirstTimes,  \* the schedules stored at first: sets of Names to UTC times
    MaxSaves,    \* bound on updates
    MaxChanges   \* bound on changes of an offset

\* Zones are twelve hours behind UTC to fourteen ahead, and none is ahead by
\* less than an hour.
ASSUME OffsetsAssumption ==
    \A u \in Users : Offsets[u] # {} /\ Offsets[u] \subseteq -720 .. 840 \ 1 .. 59

VARIABLES
    engine,   \* the engine of the database
    stored,   \* its schedules: name |-> time in UTC
    pitr,     \* whether point-in-time recovery is enabled
    offset,   \* offset[u]: what u's zone is ahead of UTC now, minutes
    view,     \* view[u]: the database as u's page holds it
    sent,     \* sent[u]: u's update under way
    saves,    \* updates so far
    changes   \* changes of an offset so far

vars == <<engine, stored, pitr, offset, view, sent, saves, changes>>

-----------------------------------------------------------------------------
(* Cron expressions. *)

Every == -1      \* the field is "*"
LastDay == 0   \* day of the month "L"

Times == [minute : 0 .. 59, hour : {Every} \cup 0 .. 23,
          day : {Every, LastDay} \cup 1 .. 31, weekday : {Every} \cup 0 .. 6]

\* The schedules of a database: hourly, daily, weekly, on a day of every month
\* or on the last one.
IsSchedules(list) ==
    /\ DOMAIN list \subseteq Names /\ IsFiniteSet(DOMAIN list)
    /\ list \in [DOMAIN list -> Times]
    /\ \A n \in DOMAIN list :
          /\ list[n].hour = Every => list[n].day = Every /\ list[n].weekday = Every
          /\ list[n].day = Every \/ list[n].weekday = Every

\* What is stored at first was made by a dialog, or is for the last day.
ASSUME SchedulesAssumption ==
    /\ \A list \in FirstTimes : IsSchedules(list)
    /\ MaxSaves \in Nat /\ MaxChanges \in Nat

\* Mutant of AddDayOfMonth: the day before the first is the first.
AddDayOfMonthClamped(day, days) ==
    IF day = Every THEN Every
    ELSE IF day = LastDay \/ day + days > 31 \/ day + days < 1 THEN 1
    ELSE day + days

\* addDayOfMonth: "L" becomes 1 whatever the number of days.
AddDayOfMonth(day, days) ==
    IF day = Every THEN Every
    ELSE IF day = LastDay \/ day + days > 31 THEN 1
    ELSE IF day + days < 1 THEN LastDay
    ELSE day + days

\* addDayOfWeek.
AddDayOfWeek(weekday, days) ==
    IF weekday = Every THEN Every ELSE (weekday + days) % 7

\* The days by which the time moves (getDaysHoursMinutes).
FirstMinute(t) == (IF t.hour = Every THEN 0 ELSE t.hour) * 60 + t.minute
DaysMoved(t, minutes) == (FirstMinute(t) + minutes) \div 1440

\* cronConverter, for zones that are that many minutes apart. An hourly
\* schedule keeps its list of all hours.
Shift(t, minutes) ==
    LET m == FirstMinute(t) + minutes IN
      [minute |-> m % 60,
       hour |-> IF t.hour = Every THEN Every ELSE (m \div 60) % 24,
       day |-> AddDayOfMonth(t.day, DaysMoved(t, minutes)),
       weekday |-> AddDayOfWeek(t.weekday, DaysMoved(t, minutes))]

\* The schedules of an update or of an answer, all converted.
ShiftAll(list, minutes) == [n \in DOMAIN list |-> Shift(list[n], minutes)]

-----------------------------------------------------------------------------
(* The form: hourly, daily, weekly or monthly, on a clock of twelve hours. *)

IsForm(f) ==
    /\ f.every \in {"hour", "day", "week", "month"}
    /\ f.minute \in 0 .. 59 /\ f.hour \in 1 .. 12 /\ f.pm \in BOOLEAN
    /\ f.weekday \in 0 .. 6 /\ f.day \in 1 .. 31

\* Mutant of CronOf: twelve is not treated apart.
CronOfLateNoon(f) ==
    [minute |-> f.minute,
     hour |-> IF f.every = "hour" THEN Every ELSE (f.hour + (IF f.pm THEN 12 ELSE 0)) % 24,
     day |-> IF f.every = "month" THEN f.day ELSE Every,
     weekday |-> IF f.every = "week" THEN f.weekday ELSE Every]

\* getCronExpressionFromFormValues.
CronOf(f) ==
    LET hour24 == (f.hour % 12) + (IF f.pm THEN 12 ELSE 0) IN
      [minute |-> f.minute,
       hour |-> IF f.every = "hour" THEN Every ELSE hour24,
       day |-> IF f.every = "month" THEN f.day ELSE Every,
       weekday |-> IF f.every = "week" THEN f.weekday ELSE Every]

\* What recurs: the first field that is a number.
Cycle(t) ==
    IF t.day \notin {Every, LastDay} THEN "month"
    ELSE IF t.weekday # Every THEN "week"
    ELSE IF t.hour # Every THEN "day" ELSE "hour"

\* Mutant of FormOf: midnight and noon are hour 0.
FormOfNoon0(t) ==
    [every |-> Cycle(t),
     minute |-> t.minute,
     hour |-> IF t.hour = Every THEN 12 ELSE t.hour % 12,
     pm |-> t.hour >= 12,
     weekday |-> IF t.weekday = Every THEN 1 ELSE t.weekday,
     day |-> IF t.day \in {Every, LastDay} THEN 1 ELSE t.day]

\* getFormValuesFromCronExpression: "L" is not a number, so that a schedule of
\* the last day of the month is shown as a daily one.
FormOf(t) ==
    [every |-> Cycle(t),
     minute |-> t.minute,
     hour |-> IF t.hour \in {Every, 0, 12} THEN 12 ELSE t.hour % 12,
     pm |-> t.hour >= 12,
     weekday |-> IF t.weekday = Every THEN 1 ELSE t.weekday,
     day |-> IF t.day \in {Every, LastDay} THEN 1 ELSE t.day]

\* Mutant of Selectable: every time can be chosen.
SelectableAlways(f, off) == IsForm(f)

\* What TimeSelection lets the user choose. For MongoDB, the first day of the
\* month must be the first day in UTC as well.
Selectable(f, off) ==
    LET hours == off \div 60
        first == IF hours <= 12 THEN hours ELSE hours - 12
        restricted == engine = "psmdb" /\ f.every = "month" /\ f.day = 1 /\ hours > 0
        halfDay == IF f.pm THEN hours > 12 ELSE hours <= 12
    IN  /\ IsForm(f)
        /\ restricted /\ hours > 12 => f.pm
        /\ restricted /\ halfDay =>
             /\ f.hour \in IF hours = 12 /\ ~f.pm THEN {12} ELSE first .. 11
             /\ off % 60 > 0 /\ f.hour = first => f.minute \in (off % 60) .. (off % 60) + 29

-----------------------------------------------------------------------------
Nothing == [what |-> "nothing"]

TypeOK ==
    /\ engine \in Engines
    /\ DOMAIN stored \subseteq Names /\ Range(stored) \subseteq Times
    /\ pitr \in BOOLEAN
    /\ \A u \in Users :
          /\ offset[u] \in Offsets[u] /\ view[u].offset \in Offsets[u]
          /\ DOMAIN view[u].list \subseteq Names /\ Range(view[u].list) \subseteq Times
          /\ \A t \in Range(view[u].list) : IsForm(FormOf(t))
    /\ saves \in 0 .. MaxSaves /\ changes \in 0 .. MaxChanges

\* useDbCluster: what u's page makes of what the server answers. mine is
\* history: the names whose entry was changed in place since, by the user or
\* because the form could not show it.
ViewOf(list, p, off) ==
    [list |-> ShiftAll(list, off), stored |-> list, offset |-> off, pitr |-> p, mine |-> {}]

Init ==
    /\ engine \in Engines
    /\ stored \in FirstTimes /\ pitr = (engine = "postgresql" /\ DOMAIN stored # {})
    /\ offset \in {f \in [Users -> UNION Range(Offsets)] : \A u \in Users : f[u] \in Offsets[u]}
    /\ view = [u \in Users |-> ViewOf(stored, pitr, offset[u])]
    /\ sent = [u \in Users |-> Nothing]
    /\ saves = 0 /\ changes = 0

-----------------------------------------------------------------------------
(* The page. *)

\* updateDbCluster: the whole database, its schedules converted. From base on
\* it is history: the schedules that had been read, those whose entry has been
\* changed since, the name and form that were entered now, and whether the
\* offset has changed since the reading.
Send(u, list, p, changed, entered) ==
    /\ sent[u] = Nothing /\ saves < MaxSaves
    /\ sent' = [sent EXCEPT ![u] =
          [what |-> "update", list |-> ShiftAll(list, -offset[u]), pitr |-> p,
           base |-> view[u].stored, changed |-> changed, entered |-> entered,
           offset |-> offset[u], moved |-> offset[u] # view[u].offset]]
    /\ saves' = saves + 1
    /\ UNCHANGED <<engine, stored, pitr, offset, changes>>

\* sameScheduleFunc: no other schedule has this time.
Free(list, n, t) == \A m \in DOMAIN list : list[m] = t => m = n

\* "Create" in the dialog; for PostgreSQL, schedules turn PITR on.
Create(u, n, f) ==
    /\ Selectable(f, offset[u])
    /\ n \notin DOMAIN view[u].list /\ Free(view[u].list, n, CronOf(f))
    /\ Send(u, [m \in DOMAIN view[u].list \cup {n} |-> IF m = n THEN CronOf(f) ELSE view[u].list[m]],
            view[u].pitr \/ engine = "postgresql", view[u].mine,
            <<n, f>>)
    /\ UNCHANGED view

\* "Save" in the dialog: the entry is replaced in the page's own object. The
\* form is left as the schedule is shown, or is filled in anew.
Edit(u, n, f) ==
    /\ n \in DOMAIN view[u].list
    /\ LET shown == FormOf(view[u].list[n]) IN
         /\ Selectable(f, offset[u])
         /\ Free(view[u].list, n, CronOf(f))
         /\ LET list == [view[u].list EXCEPT ![n] = CronOf(f)]
                kept == f = shown /\ view[u].list[n].day # LastDay
                changed == view[u].mine \cup (IF kept THEN {} ELSE {n})
            IN  /\ Send(u, list, view[u].pitr \/ engine = "postgresql", changed,
                        <<n, f>>)
                /\ view' = [view EXCEPT ![u] = [@ EXCEPT !.list = list, !.mine = changed]]

\* Mutant of PitrAfterDelete: the other schedules are not looked at.
PitrGone(v, empty) == v.pitr /\ ~empty

\* willDisablePITR: the last schedule goes, and there are no backups.
PitrAfterDelete(v, empty) == v.pitr /\ ~(empty /\ Cardinality(DOMAIN v.list) = 1)

\* "Delete" in the list of schedules; empty: the page knows of no backup.
Delete(u, n, empty) ==
    /\ n \in DOMAIN view[u].list
    /\ Send(u, [m \in DOMAIN view[u].list \ {n} |-> view[u].list[m]],
            PitrAfterDelete(view[u], empty), view[u].mine, <<>>)
    /\ UNCHANGED view

\* Any other update of the database: suspend, resume, resources, monitoring...
\* So does a schedule dialog whose schedule is gone: nothing of it is saved.
UpdateOther(u) ==
    /\ Send(u, view[u].list, view[u].pitr, view[u].mine, <<>>)
    /\ UNCHANGED view

\* The point-in-time recovery card.
SwitchPitr(u) ==
    /\ engine # "postgresql" /\ DOMAIN view[u].list # {}
    /\ Send(u, view[u].list, ~view[u].pitr, view[u].mine, <<>>)
    /\ UNCHANGED view

\* The database is read again, every five seconds.
Refresh(u) ==
    /\ view' = [view EXCEPT ![u] = ViewOf(stored, pitr, offset[u])]
    /\ view' # view
    /\ UNCHANGED <<engine, stored, pitr, offset, sent, saves, changes>>

\* Daylight saving time begins or ends, or the user travels.
ChangeOffset(u) ==
    /\ changes < MaxChanges
    /\ offset' \in {[offset EXCEPT ![u] = o] : o \in Offsets[u] \ {offset[u]}}
    /\ changes' = changes + 1
    /\ UNCHANGED <<engine, stored, pitr, view, sent, saves>>

-----------------------------------------------------------------------------
(* The server. *)

\* checkDuplicateSchedules.
NoDuplicates(list) == IsInjective(list)

\* The update is stored, and its answer is the page's view.
Land(u) ==
    /\ sent[u] # Nothing /\ NoDuplicates(sent[u].list)
    /\ stored' = sent[u].list /\ pitr' = sent[u].pitr
    /\ view' = [view EXCEPT ![u] = ViewOf(stored', pitr', offset[u])]
    /\ sent' = [sent EXCEPT ![u] = Nothing]
    /\ UNCHANGED <<engine, offset, saves, changes>>

\* It is refused, or fails, or its answer is lost: the page stays as it is.
Fail(u) ==
    /\ sent[u] # Nothing
    /\ \/ UNCHANGED <<stored, pitr>>
       \/ NoDuplicates(sent[u].list) /\ stored' = sent[u].list /\ pitr' = sent[u].pitr
    /\ sent' = [sent EXCEPT ![u] = Nothing]
    /\ UNCHANGED <<engine, offset, view, saves, changes>>

Next ==
    \E u \in Users :
        \/ UpdateOther(u) \/ SwitchPitr(u)
        \/ \E n \in Names, f \in Forms : Create(u, n, f)
        \/ \E n \in Names, f \in Forms \cup {FormOf(t) : t \in Range(view[u].list)} : Edit(u, n, f)
        \/ \E n \in Names, empty \in BOOLEAN : Delete(u, n, empty)
        \/ Refresh(u) \/ ChangeOffset(u)
        \/ Land(u) \/ Fail(u)

Spec == Init /\ [][Next]_vars

-----------------------------------------------------------------------------
(* What a schedule means. *)

\* From the 26th of January to the 4th of March, the first being a Sunday.
Dates ==
    {[number |-> k, last |-> k \in {6, 34},
      day |-> IF k <= 6 THEN k + 25 ELSE IF k <= 34 THEN k - 6 ELSE k - 34] : k \in 1 .. 38}

\* The minutes at which a schedule runs, apart from the first and last days.
Runs(t) ==
    LET On(date) == /\ t.day \in {Every, IF date.last THEN LastDay ELSE date.day, date.day}
                    /\ t.weekday \in {Every, (date.number - 1) % 7}
        hours == IF t.hour = Every THEN 0 .. 23 ELSE {t.hour}
    IN  {date.number * 1440 + h * 60 + t.minute : date \in {d \in Dates : On(d)}, h \in hours}

Inner(minutes) == {x \in minutes : x >= 2 * 1440 /\ x < 38 * 1440}

\* The time that a form means: the hours of half a day are 12, 1, ..., 11.
Meant(f) ==
    LET half == CHOOSE k \in 0 .. 11 : f.hour = IF k = 0 THEN 12 ELSE k IN
      [minute |-> f.minute,
       hour |-> IF f.every = "hour" THEN Every ELSE IF f.pm THEN 12 + half ELSE half,
       day |-> IF f.every = "month" THEN f.day ELSE Every,
       weekday |-> IF f.every = "week" THEN f.weekday ELSE Every]

-----------------------------------------------------------------------------
(* Properties. *)

\* Moved to UTC, the day of the month stays one that every month has, or is the
\* last one of the month before. A time entered for the 28th or later that
\* moves is not converted exactly.
MovesExactly(t, days) ==
    \/ t.day = Every \/ days = 0
    \/ days = 1 /\ t.day \in 1 .. 27
    \/ days = -1 /\ t.day \in 1 .. 28

\* A schedule that is created or edited runs at the instants that the user has
\* chosen in the user's own zone.
RunsAsEntered ==
    [][\A u \in Users : sent[u] # Nothing /\ Land(u) /\ sent[u].entered # <<>> =>
         LET n == sent[u].entered[1]  t == Meant(sent[u].entered[2])  off == sent[u].offset IN
           \/ ~MovesExactly(t, DaysMoved(t, -off))
           \/ Inner(Runs(stored'[n])) = Inner({x - off : x \in Runs(t)})]_vars

\* A time in UTC that a page with that offset can show and send back: not the
\* 31st that becomes the 1st, nor a last day that does not become the 1st.
Lasting(t, off) ==
    LET days == DaysMoved(t, off) IN
      ~(t.day = 31 /\ days = 1) /\ ~(t.day = LastDay /\ days <= 0)

\* Whatever an update is about, and whatever was saved in vain before, the
\* schedules whose time the user has not changed keep it through both
\* conversions and, when one is opened and saved, through the form, which
\* cannot show a last day. The offset is that of the reading.
UntouchedStay ==
    [][\A u \in Users : sent[u] # Nothing /\ Land(u) /\ ~sent[u].moved =>
         \A n \in (DOMAIN sent[u].base \cap DOMAIN stored') \ sent[u].changed :
           Lasting(sent[u].base[n], sent[u].offset) => stored'[n] = sent[u].base[n]]_vars

\* The time that a MongoDB schedule is given is never the last day of the month
\* in UTC, which its operator cannot do. Twelve hours ahead of UTC, and up to
\* thirteen, the dialog offers just the wrong hours.
NoLastDayForMongo ==
    [][\A u \in Users : sent[u] # Nothing /\ Land(u) /\ sent[u].entered # <<>> =>
         \/ engine # "psmdb" \/ sent[u].offset \div 60 = 12
         \/ stored'[sent[u].entered[1]].day # LastDay]_vars

\* A PostgreSQL database that has schedules has point-in-time recovery, which
\* its users cannot switch by hand.
SchedulesBringPitr ==
    engine = "postgresql" /\ DOMAIN stored # {} => pitr

\* "Everest will create a backup of your database every month, on day...": a
\* schedule that the user leaves alone goes on at its time.
SchedulesStay ==
    [][\A u \in Users : sent[u] # Nothing /\ Land(u) /\ ~sent[u].moved =>
         \A n \in (DOMAIN sent[u].base \cap DOMAIN stored') \ sent[u].changed :
           stored'[n] = sent[u].base[n]]_vars

=============================================================================
