------------------------- MODULE BackupTimesProofs --------------------------
(***************************************************************************)
(* When backups are made, and to what times a database can be restored.    *)
(* First the schedules in the web UI, for any number of pages, names, forms*)
(* and offsets: a time keeps its kind when it is converted, one that lasts *)
(* comes back, and one that the form shows is made of it again. IndInv is  *)
(* what every page and every update under way owe to what was read and     *)
(* entered; each property follows from it and from a fact about the        *)
(* conversions. Then what the window of point-in-time recovery promises,   *)
(* for any number of backups, any engine, any upload interval and any      *)
(* resolution of the clock.                                                *)
(***************************************************************************)
EXTENDS Pitr, BackupSchedules, FiniteSetTheorems, TLAPS

---------------------------------------------------------------------------
(* Backup schedules. *)

\* An update as it was sent: PostgreSQL schedules have point-in-time recovery;
\* unless the offset has changed since the reading, the entries that were not
\* changed are those that were read, converted twice; and the entry of a dialog
\* is what was entered there, converted once, and not on the last day for
\* MongoDB.
Update(e, u, m) ==
    /\ IsSchedules(m.list) /\ IsSchedules(m.base)
    /\ m.pitr \in BOOLEAN /\ m.offset \in Offsets[u]
    /\ e = "postgresql" /\ DOMAIN m.list # {} => m.pitr
    /\ ~m.moved => \A n \in (DOMAIN m.list \cap DOMAIN m.base) \ m.changed :
                      m.list[n] = Shift(Shift(m.base[n], m.offset), -m.offset)
    /\ m.entered # <<>> =>
          /\ m.entered[1] \in DOMAIN m.list /\ IsForm(m.entered[2])
          /\ m.list[m.entered[1]] = Shift(CronOf(m.entered[2]), -m.offset)
          /\ \/ e # "psmdb" \/ m.offset \div 60 = 12
             \/ m.list[m.entered[1]].day # LastDay

\* A page: its schedules are those that were read, converted once, but for the
\* ones that were changed in place.
View(e, u, v) ==
    /\ v = [list |-> v.list, stored |-> v.stored, offset |-> v.offset, pitr |-> v.pitr,
            mine |-> v.mine]
    /\ IsSchedules(v.list) /\ IsSchedules(v.stored) /\ DOMAIN v.list = DOMAIN v.stored
    /\ v.pitr \in BOOLEAN /\ v.offset \in Offsets[u]
    /\ e = "postgresql" /\ DOMAIN v.list # {} => v.pitr
    /\ \A n \in DOMAIN v.list \ v.mine : v.list[n] = Shift(v.stored[n], v.offset)

StoredInv ==
    /\ engine \in Engines /\ IsSchedules(stored) /\ pitr \in BOOLEAN
    /\ SchedulesBringPitr

OffsetInv ==
    /\ offset = [u \in Users |-> offset[u]]
    /\ \A u \in Users : offset[u] \in Offsets[u]

ViewInv == view = [u \in Users |-> view[u]] /\ \A u \in Users : View(engine, u, view[u])

SentInv ==
    /\ sent = [u \in Users |-> sent[u]]
    /\ \A u \in Users : sent[u] = Nothing \/ Update(engine, u, sent[u])

CountInv == saves \in 0 .. MaxSaves /\ changes \in 0 .. MaxChanges

\* The inductive invariant.
IndInv == StoredInv /\ OffsetInv /\ ViewInv /\ SentInv /\ CountInv

-----------------------------------------------------------------------------
(* Times and their conversion. *)

\* A time that a schedule can have.
IsTime(t) ==
    /\ t \in Times
    /\ t.hour = Every => t.day = Every /\ t.weekday = Every
    /\ t.day = Every \/ t.weekday = Every

(* How far zones are from UTC.                                                *)
LEMMA OffsetRange ==
    ASSUME NEW u \in Users, NEW off \in Offsets[u]
    PROVE  off \in Int /\ -off \in Int /\ off >= -720 /\ off <= 840 /\ ~(off >= 1 /\ off <= 59)
<1>1. off \in (-720 .. 840) \ (1 .. 59)
  BY OffsetsAssumption
<1> QED
  BY <1>1

(* Minutes of the day that are moved: which minute of the hour and which hour *)
(* it is then, and by how many days.                                          *)
LEMMA Clock ==
    ASSUME NEW m \in Int, m >= -840, m < 1440 + 840
    PROVE  /\ m % 60 \in 0 .. 59 /\ (m \div 60) % 24 \in 0 .. 23
           /\ ((m \div 60) % 24) * 60 + (m % 60) = m - 1440 * (m \div 1440)
           /\ m \div 1440 \in {-1, 0, 1}
           /\ m - 1440 * (m \div 1440) \in 0 .. 1439
<1>1. m \div 60 \in Int /\ 60 * (m \div 60) + (m % 60) = m /\ m % 60 \in 0 .. 59
  OBVIOUS
<1>2. m \div 1440 \in {-1, 0, 1} /\ m - 1440 * (m \div 1440) \in 0 .. 1439
  OBVIOUS
<1>3. (m \div 60) % 24 = (m \div 60) - 24 * (m \div 1440)
  OBVIOUS
<1>4. (m \div 60) % 24 \in 0 .. 23
  BY <1>1
<1> QED
  BY <1>1, <1>2, <1>3, <1>4

(* A minute of the day that is moved by whole days.                           *)
LEMMA ClockBack ==
    ASSUME NEW h \in 0 .. 23, NEW n \in 0 .. 59, NEW d \in {-1, 0, 1}
    PROVE  /\ (h * 60 + n - 1440 * d) % 60 = n
           /\ ((h * 60 + n - 1440 * d) \div 60) % 24 = h
           /\ (h * 60 + n - 1440 * d) \div 1440 = -d
<1> DEFINE m == h * 60 + n - 1440 * d
<1>1. m \in Int /\ m \div 60 = h - 24 * d /\ m % 60 = n
  OBVIOUS
<1>2. (h - 24 * d) % 24 = h
  OBVIOUS
<1>3. m \div 1440 = -d
  OBVIOUS
<1> QED
  BY <1>1, <1>2, <1>3

(* The fields of a time, and its minute of the day.                           *)
LEMMA Fields ==
    ASSUME NEW t, IsTime(t)
    PROVE  /\ t = [minute |-> t.minute, hour |-> t.hour, day |-> t.day, weekday |-> t.weekday]
           /\ t.minute \in Int /\ 0 <= t.minute /\ t.minute <= 59
           /\ t.hour = -1 \/ (t.hour \in Int /\ 0 <= t.hour /\ t.hour <= 23)
           /\ t.day \in Int /\ -1 <= t.day /\ t.day <= 31
           /\ t.weekday = -1 \/ (t.weekday \in Int /\ 0 <= t.weekday /\ t.weekday <= 6)
           /\ FirstMinute(t) \in Int /\ 0 <= FirstMinute(t) /\ FirstMinute(t) <= 1439
<1>1. /\ t = [minute |-> t.minute, hour |-> t.hour, day |-> t.day, weekday |-> t.weekday]
      /\ t.minute \in 0 .. 59 /\ t.hour \in {-1} \cup 0 .. 23
      /\ t.day \in {-1, 0} \cup 1 .. 31 /\ t.weekday \in {-1} \cup 0 .. 6
  BY DEF IsTime, Times, Every, LastDay
<1>2. FirstMinute(t) = (IF t.hour = -1 THEN 0 ELSE t.hour) * 60 + t.minute
  BY DEF FirstMinute, Every
<1> QED
  BY <1>1, <1>2

(* A minute of the day that is moved.                                         *)
LEMMA Moved ==
    ASSUME NEW x \in Int, 0 <= x, x <= 1439, NEW off \in Int, off >= -840, off <= 840
    PROVE  x + off \in Int /\ x + off >= -840 /\ x + off < 1440 + 840
OBVIOUS

\* What a time becomes, field by field.
ShiftDay(day, d) == IF day = -1 THEN -1
                    ELSE IF day = 0 \/ day + d > 31 THEN 1
                    ELSE IF day + d < 1 THEN 0 ELSE day + d
ShiftWeekday(weekday, d) == IF weekday = -1 THEN -1 ELSE (weekday + d) % 7

(* The conversion of a time.                                                  *)
LEMMA ShiftFields ==
    ASSUME NEW t, IsTime(t), NEW off \in Int, off >= -840, off <= 840,
           NEW m, m = FirstMinute(t) + off, NEW d, d = m \div 1440
    PROVE  /\ m \in Int /\ m >= -840 /\ m < 1440 + 840 /\ d \in {-1, 0, 1}
           /\ DaysMoved(t, off) = d
           /\ Shift(t, off) = [minute |-> m % 60,
                               hour |-> IF t.hour = -1 THEN -1 ELSE (m \div 60) % 24,
                               day |-> ShiftDay(t.day, d),
                               weekday |-> ShiftWeekday(t.weekday, d)]
<1>1. m \in Int /\ m >= -840 /\ m < 1440 + 840
  BY Fields, Moved
<1>2. d \in {-1, 0, 1}
  BY <1>1, Clock
<1>3. DaysMoved(t, off) = d
  BY DEF DaysMoved
<1>4. AddDayOfMonth(t.day, d) = ShiftDay(t.day, d)
  <2>1. t.day \in Int
    BY Fields
  <2> QED
    BY <1>2, <2>1 DEF AddDayOfMonth, ShiftDay, Every, LastDay
<1>5. AddDayOfWeek(t.weekday, d) = ShiftWeekday(t.weekday, d)
  BY DEF AddDayOfWeek, ShiftWeekday, Every
<1> QED
  BY <1>1, <1>2, <1>3, <1>4, <1>5 DEF Shift, Every

(* The same, in terms of the time alone.                                      *)
LEMMA ShiftRecord ==
    ASSUME NEW t, IsTime(t), NEW off \in Int, off >= -840, off <= 840
    PROVE  Shift(t, off) =
             [minute |-> (FirstMinute(t) + off) % 60,
              hour |-> IF t.hour = -1 THEN -1 ELSE ((FirstMinute(t) + off) \div 60) % 24,
              day |-> ShiftDay(t.day, (FirstMinute(t) + off) \div 1440),
              weekday |-> ShiftWeekday(t.weekday, (FirstMinute(t) + off) \div 1440)]
<1> DEFINE m == FirstMinute(t) + off
           d == m \div 1440
<1>1. Shift(t, off) = [minute |-> m % 60,
                       hour |-> IF t.hour = -1 THEN -1 ELSE (m \div 60) % 24,
                       day |-> ShiftDay(t.day, d),
                       weekday |-> ShiftWeekday(t.weekday, d)]
  BY ShiftFields
<1> QED
  BY <1>1

(* A time that is converted is a time of the same kind.                       *)
LEMMA ShiftTime ==
    ASSUME NEW t, IsTime(t), NEW off \in Int, off >= -840, off <= 840
    PROVE  IsTime(Shift(t, off))
<1> DEFINE m == FirstMinute(t) + off
           d == m \div 1440
           t2 == Shift(t, off)
<1>1. /\ t.day \in Int /\ -1 <= t.day /\ t.day <= 31
      /\ t.weekday = -1 \/ (t.weekday \in Int /\ 0 <= t.weekday /\ t.weekday <= 6)
  BY Fields
<1>2. /\ m \in Int /\ m >= -840 /\ m < 1440 + 840 /\ d \in {-1, 0, 1}
      /\ t2 = [minute |-> m % 60, hour |-> IF t.hour = -1 THEN -1 ELSE (m \div 60) % 24,
               day |-> ShiftDay(t.day, d), weekday |-> ShiftWeekday(t.weekday, d)]
  BY ShiftFields
<1> HIDE DEF m, d, t2
<1>3. m % 60 \in 0 .. 59 /\ (m \div 60) % 24 \in 0 .. 23
  BY <1>2, Clock
<1>4. ShiftDay(t.day, d) \in {-1, 0} \cup 1 .. 31
  BY <1>1, <1>2 DEF ShiftDay
<1>5. ShiftWeekday(t.weekday, d) \in {-1} \cup 0 .. 6
  BY <1>1, <1>2 DEF ShiftWeekday
<1>6. t2 \in Times
  BY <1>2, <1>3, <1>4, <1>5 DEF Times, Every, LastDay
<1>7. /\ t2.hour = -1 => t.hour = -1
      /\ t.day = -1 => t2.day = -1
      /\ t.weekday = -1 => t2.weekday = -1
  BY <1>2, <1>3 DEF ShiftDay, ShiftWeekday
<1> QED
  BY <1>6, <1>7 DEF IsTime, Every, t2

(* A time that lasts comes back when it is converted back.                    *)
LEMMA ShiftBack ==
    ASSUME NEW t, IsTime(t), NEW off \in Int, NEW back \in Int, back = -off,
           off >= -840, off <= 840, Lasting(t, off)
    PROVE  Shift(Shift(t, off), back) = t
<1> DEFINE m == FirstMinute(t) + off
           d == m \div 1440
           t2 == Shift(t, off)
           m2 == FirstMinute(t2) + back
           d2 == m2 \div 1440
<1>1. /\ t = [minute |-> t.minute, hour |-> t.hour, day |-> t.day, weekday |-> t.weekday]
      /\ t.minute \in Int /\ 0 <= t.minute /\ t.minute <= 59
      /\ t.hour = -1 \/ (t.hour \in Int /\ 0 <= t.hour /\ t.hour <= 23)
      /\ t.day \in Int /\ -1 <= t.day /\ t.day <= 31
      /\ t.weekday = -1 \/ (t.weekday \in Int /\ 0 <= t.weekday /\ t.weekday <= 6)
  BY Fields
<1>2. /\ m \in Int /\ m >= -840 /\ m < 1440 + 840 /\ d \in {-1, 0, 1}
      /\ DaysMoved(t, off) = d
      /\ t2 = [minute |-> m % 60, hour |-> IF t.hour = -1 THEN -1 ELSE (m \div 60) % 24,
               day |-> ShiftDay(t.day, d), weekday |-> ShiftWeekday(t.weekday, d)]
  BY ShiftFields
<1>3. IsTime(t2) /\ back >= -840 /\ back <= 840
  BY ShiftTime
<1>4. Shift(t2, back) =
        [minute |-> m2 % 60, hour |-> IF t2.hour = -1 THEN -1 ELSE (m2 \div 60) % 24,
         day |-> ShiftDay(t2.day, d2), weekday |-> ShiftWeekday(t2.weekday, d2)]
  <2> HIDE DEF t2
  <2> QED
    BY <1>3, ShiftRecord
<1>5. ~(t.day = 31 /\ d = 1) /\ ~(t.day = 0 /\ d <= 0)
  BY <1>2 DEF Lasting, LastDay
<1>6. /\ m = (IF t.hour = -1 THEN 0 ELSE t.hour) * 60 + t.minute + off
      /\ m2 = (IF t2.hour = -1 THEN 0 ELSE t2.hour) * 60 + t2.minute + back
  BY DEF FirstMinute, Every
<1>7. (t.hour = -1 => t.day = -1 /\ t.weekday = -1)
  BY DEF IsTime, Every
<1>8. /\ t2.minute = m % 60 /\ t2.hour = (IF t.hour = -1 THEN -1 ELSE (m \div 60) % 24)
      /\ t2.day = ShiftDay(t.day, d) /\ t2.weekday = ShiftWeekday(t.weekday, d)
  BY <1>2
<1>d. d = m \div 1440 /\ d2 = m2 \div 1440
  OBVIOUS
<1> HIDE DEF m, d, t2, m2, d2
<1>9. CASE t.hour = -1
  <2>1. t2.hour = -1 /\ t2.day = -1 /\ t2.weekday = -1 /\ t.day = -1 /\ t.weekday = -1
    BY <1>7, <1>8, <1>9 DEF ShiftDay, ShiftWeekday
  <2>2. m = t.minute + off /\ m2 = (m % 60) - off
    BY <1>1, <1>2, <1>6, <1>8, <1>9, <2>1
  <2>3. m2 % 60 = t.minute
    BY <1>1, <2>2
  <2>4. ShiftDay(t2.day, d2) = -1 /\ ShiftWeekday(t2.weekday, d2) = -1
    BY <2>1 DEF ShiftDay, ShiftWeekday
  <2> QED
    BY <1>1, <1>4, <1>9, <2>1, <2>3, <2>4 DEF t2
<1>10. CASE t.hour # -1
  <2>1. t.hour \in Int /\ 0 <= t.hour /\ t.hour <= 23 /\ m = t.hour * 60 + t.minute + off
    BY <1>1, <1>6, <1>10
  <2>2. /\ t2.hour = (m \div 60) % 24 /\ t2.hour # -1
        /\ t2.hour * 60 + t2.minute = m - 1440 * d
    <3>1. t2.hour = (m \div 60) % 24 /\ t2.minute = m % 60
      BY <1>8, <1>10
    <3>2. t2.hour \in 0 .. 23 /\ t2.hour * 60 + t2.minute = m - 1440 * d
      BY <1>2, <1>d, <3>1, Clock
    <3> QED
      BY <3>1, <3>2
  <2>3. m2 = t.hour * 60 + t.minute - 1440 * d
    <3>1. m2 = m - 1440 * d + back
      BY <1>6, <2>2
    <3>2. t.hour * 60 \in Int /\ t.minute \in Int /\ d \in Int
      BY <1>1, <1>2, <2>1
    <3> QED
      BY <2>1, <3>1, <3>2
  <2>4. m2 % 60 = t.minute /\ (m2 \div 60) % 24 = t.hour /\ m2 \div 1440 = -d
    <3>1. t.hour \in 0 .. 23 /\ t.minute \in 0 .. 59
      BY <1>1, <2>1
    <3>2. d \in {-1, 0, 1}
      BY <1>2
    <3>3. /\ (t.hour * 60 + t.minute - 1440 * d) % 60 = t.minute
          /\ ((t.hour * 60 + t.minute - 1440 * d) \div 60) % 24 = t.hour
          /\ (t.hour * 60 + t.minute - 1440 * d) \div 1440 = -d
      BY <3>1, <3>2, ClockBack
    <3> QED
      BY <2>3, <3>3
  <2>5. ShiftDay(t2.day, d2) = t.day
    BY <1>1, <1>2, <1>5, <1>8, <1>d, <2>4 DEF ShiftDay
  <2>6. ShiftWeekday(t2.weekday, d2) = t.weekday
    <3>1. CASE t.weekday = -1
      BY <1>8, <3>1 DEF ShiftWeekday
    <3>2. CASE t.weekday # -1
      <4>1. t.weekday \in 0 .. 6 /\ t2.weekday = (t.weekday + d) % 7
        BY <1>1, <1>8, <3>2 DEF ShiftWeekday
      <4>2. d2 = -d /\ (((t.weekday + d) % 7) - d) % 7 = t.weekday /\ (t.weekday + d) % 7 # -1
        BY <1>2, <1>d, <2>4, <4>1
      <4> QED
        BY <1>2, <4>1, <4>2 DEF ShiftWeekday
    <3> QED
      BY <3>1, <3>2
  <2> QED
    BY <1>1, <1>4, <1>10, <2>2, <2>4, <2>5, <2>6 DEF t2
<1> QED
  BY <1>9, <1>10 DEF t2

-----------------------------------------------------------------------------
(* The form. *)

(* A time is shown in the form as one that it lets enter, and a time that is  *)
(* not on a last day is made of it again.                                     *)
LEMMA FormBack ==
    ASSUME NEW t, IsTime(t)
    PROVE  /\ IsForm(FormOf(t))
           /\ t.day # LastDay => CronOf(FormOf(t)) = t
<1>1. /\ t = [minute |-> t.minute, hour |-> t.hour, day |-> t.day, weekday |-> t.weekday]
      /\ t.minute \in Int /\ 0 <= t.minute /\ t.minute <= 59
      /\ t.hour = -1 \/ (t.hour \in Int /\ 0 <= t.hour /\ t.hour <= 23)
      /\ t.day \in Int /\ -1 <= t.day /\ t.day <= 31
      /\ t.weekday = -1 \/ (t.weekday \in Int /\ 0 <= t.weekday /\ t.weekday <= 6)
  BY Fields
<1>2. (t.hour = -1 => t.day = -1 /\ t.weekday = -1) /\ (t.day = -1 \/ t.weekday = -1)
  BY DEF IsTime, Every
<1> DEFINE f == FormOf(t)
           hour12 == IF t.hour \in {-1, 0, 12} THEN 12 ELSE t.hour % 12
<1>3. /\ f.every = Cycle(t) /\ f.minute = t.minute /\ f.hour = hour12
      /\ f.pm = (t.hour >= 12)
      /\ f.weekday = (IF t.weekday = -1 THEN 1 ELSE t.weekday)
      /\ f.day = (IF t.day \in {-1, 0} THEN 1 ELSE t.day)
  BY DEF FormOf, Every, LastDay
<1>4. Cycle(t) = IF t.day \notin {-1, 0} THEN "month"
                 ELSE IF t.weekday # -1 THEN "week"
                 ELSE IF t.hour # -1 THEN "day" ELSE "hour"
  BY DEF Cycle, Every, LastDay
<1>5. hour12 \in 1 .. 12 /\ (t.hour # -1 => t.hour = (hour12 % 12) + (IF t.hour >= 12 THEN 12 ELSE 0))
  <2>1. CASE t.hour = -1
    BY <2>1
  <2>2. CASE t.hour # -1
    BY <1>1, <2>2
  <2> QED
    BY <2>1, <2>2
<1> HIDE DEF f, hour12
<1>6. f.pm \in BOOLEAN /\ (f.pm <=> t.hour >= 12)
  <2>1. (t.hour >= 12) \in BOOLEAN
    OBVIOUS
  <2> QED
    BY Zenon, <1>3, <2>1
<1>7. IsForm(f)
  BY <1>1, <1>3, <1>4, <1>5, <1>6 DEF IsForm
<1>8. ASSUME t.day # 0 PROVE CronOf(f) = t
  <2>1. CronOf(f).hour = t.hour
    BY <1>1, <1>2, <1>3, <1>4, <1>5, <1>6, <1>8 DEF CronOf, Every
  <2>2. CronOf(f).day = t.day /\ CronOf(f).weekday = t.weekday /\ CronOf(f).minute = t.minute
    BY <1>1, <1>2, <1>3, <1>4, <1>8 DEF CronOf, Every
  <2>3. CronOf(f) = [minute |-> CronOf(f).minute, hour |-> CronOf(f).hour,
                     day |-> CronOf(f).day, weekday |-> CronOf(f).weekday]
    BY DEF CronOf
  <2> QED
    BY <1>1, <2>1, <2>2, <2>3
<1> QED
  BY <1>7, <1>8 DEF f, LastDay

(* What is entered is a time, and not on a last day.                          *)
LEMMA FormTime ==
    ASSUME NEW f, IsForm(f)
    PROVE  /\ IsTime(CronOf(f)) /\ CronOf(f).day # LastDay
           /\ CronOf(f).day = IF f.every = "month" THEN f.day ELSE -1
           /\ f.every # "hour" => FirstMinute(CronOf(f)) =
                ((f.hour % 12) + (IF f.pm THEN 12 ELSE 0)) * 60 + f.minute
<1>1. /\ f.every \in {"hour", "day", "week", "month"}
      /\ f.minute \in 0 .. 59 /\ f.hour \in 1 .. 12 /\ f.pm \in BOOLEAN
      /\ f.weekday \in 0 .. 6 /\ f.day \in 1 .. 31
  BY DEF IsForm
<1> DEFINE hour24 == (f.hour % 12) + (IF f.pm THEN 12 ELSE 0)
           t == CronOf(f)
<1>2. hour24 \in 0 .. 23
  BY <1>1
<1> HIDE DEF hour24
<1>3. t = [minute |-> f.minute, hour |-> IF f.every = "hour" THEN -1 ELSE hour24,
           day |-> IF f.every = "month" THEN f.day ELSE -1,
           weekday |-> IF f.every = "week" THEN f.weekday ELSE -1]
  BY DEF CronOf, Every, hour24
<1> HIDE DEF t
<1>4. t \in Times
  BY <1>1, <1>2, <1>3 DEF Times, Every, LastDay
<1>5. IsTime(t) /\ t.day # LastDay
  BY <1>1, <1>2, <1>3, <1>4 DEF IsTime, Every, LastDay
<1>6. f.every # "hour" => FirstMinute(t) = hour24 * 60 + f.minute
  BY <1>2, <1>3 DEF FirstMinute, Every
<1> QED
  BY <1>3, <1>5, <1>6 DEF t, hour24

-----------------------------------------------------------------------------
(* The schedules of a database. *)

(* They are times.                                                            *)
LEMMA ScheduleTimes ==
    ASSUME NEW list
    PROVE  IsSchedules(list) <=>
             /\ DOMAIN list \subseteq Names /\ IsFiniteSet(DOMAIN list)
             /\ list = [n \in DOMAIN list |-> list[n]]
             /\ \A n \in DOMAIN list : IsTime(list[n])
BY DEF IsSchedules, IsTime

(* Converted, they are schedules of the same names.                           *)
LEMMA ShiftSchedules ==
    ASSUME NEW list, IsSchedules(list), NEW off \in Int, off >= -840, off <= 840
    PROVE  /\ IsSchedules(ShiftAll(list, off)) /\ DOMAIN ShiftAll(list, off) = DOMAIN list
           /\ \A n \in DOMAIN list : ShiftAll(list, off)[n] = Shift(list[n], off)
<1> DEFINE new == ShiftAll(list, off)
<1>1. new = [n \in DOMAIN list |-> Shift(list[n], off)]
  BY DEF ShiftAll
<1>2. \A n \in DOMAIN list : IsTime(Shift(list[n], off))
  BY ScheduleTimes, ShiftTime
<1>3. DOMAIN list \subseteq Names /\ IsFiniteSet(DOMAIN list)
  BY DEF IsSchedules
<1> HIDE DEF new
<1>4. DOMAIN new = DOMAIN list /\ new = [n \in DOMAIN new |-> new[n]]
  BY <1>1
<1>5. \A n \in DOMAIN list : new[n] = Shift(list[n], off)
  BY <1>1
<1>6. IsSchedules(new)
  <2>1. \A n \in DOMAIN new : IsTime(new[n])
    BY <1>2, <1>4, <1>5
  <2>2. DOMAIN new \subseteq Names /\ IsFiniteSet(DOMAIN new)
    BY <1>3, <1>4
  <2> QED
    BY <1>4, <2>1, <2>2, ScheduleTimes
<1> QED
  BY <1>4, <1>5, <1>6 DEF new

(* With one schedule more.                                                    *)
LEMMA ListMore ==
    ASSUME NEW list, IsSchedules(list), NEW n \in Names, NEW t, IsTime(t), NEW more,
           more = [k \in DOMAIN list \cup {n} |-> IF k = n THEN t ELSE list[k]]
    PROVE  /\ IsSchedules(more) /\ DOMAIN more = DOMAIN list \cup {n} /\ more[n] = t
           /\ \A k \in DOMAIN list \ {n} : more[k] = list[k]
<1>1. /\ DOMAIN list \subseteq Names /\ IsFiniteSet(DOMAIN list)
      /\ \A k \in DOMAIN list : IsTime(list[k])
  BY ScheduleTimes
<1>2. /\ DOMAIN more = DOMAIN list \cup {n} /\ more = [k \in DOMAIN more |-> more[k]]
      /\ more[n] = t /\ \A k \in DOMAIN list \ {n} : more[k] = list[k]
  OBVIOUS
<1>3. IsFiniteSet(DOMAIN more)
  BY <1>1, <1>2, FS_AddElement
<1>4. \A k \in DOMAIN more : IsTime(more[k])
  BY <1>1, <1>2
<1>5. DOMAIN more \subseteq Names
  BY <1>1, <1>2
<1> QED
  BY <1>2, <1>3, <1>4, <1>5, ScheduleTimes

(* With another time for one.                                                 *)
LEMMA ListChanged ==
    ASSUME NEW list, IsSchedules(list), NEW n \in DOMAIN list, NEW t, IsTime(t), NEW other,
           other = [list EXCEPT ![n] = t]
    PROVE  /\ IsSchedules(other) /\ DOMAIN other = DOMAIN list /\ other[n] = t
           /\ \A k \in DOMAIN list \ {n} : other[k] = list[k]
<1>1. /\ DOMAIN list \subseteq Names /\ IsFiniteSet(DOMAIN list)
      /\ list = [k \in DOMAIN list |-> list[k]] /\ \A k \in DOMAIN list : IsTime(list[k])
  BY ScheduleTimes
<1>2. /\ DOMAIN other = DOMAIN list /\ other = [k \in DOMAIN other |-> other[k]]
      /\ other[n] = t /\ \A k \in DOMAIN list \ {n} : other[k] = list[k]
  BY <1>1
<1>3. \A k \in DOMAIN other : IsTime(other[k])
  BY <1>1, <1>2
<1>4. DOMAIN other \subseteq Names /\ IsFiniteSet(DOMAIN other)
  BY <1>1, <1>2
<1> QED
  BY <1>2, <1>3, <1>4, ScheduleTimes

(* With one schedule less.                                                    *)
LEMMA ListLess ==
    ASSUME NEW list, IsSchedules(list), NEW n, NEW less,
           less = [k \in DOMAIN list \ {n} |-> list[k]]
    PROVE  /\ IsSchedules(less) /\ DOMAIN less = DOMAIN list \ {n}
           /\ \A k \in DOMAIN less : less[k] = list[k]
<1>1. /\ DOMAIN list \subseteq Names /\ IsFiniteSet(DOMAIN list)
      /\ \A k \in DOMAIN list : IsTime(list[k])
  BY ScheduleTimes
<1>2. /\ DOMAIN less = DOMAIN list \ {n} /\ less = [k \in DOMAIN less |-> less[k]]
      /\ \A k \in DOMAIN less : less[k] = list[k]
  OBVIOUS
<1>3. IsFiniteSet(DOMAIN less)
  BY <1>1, <1>2, FS_RemoveElement
<1>4. \A k \in DOMAIN less : IsTime(less[k])
  BY <1>1, <1>2
<1>5. DOMAIN less \subseteq Names
  BY <1>1, <1>2
<1> QED
  BY <1>2, <1>3, <1>4, <1>5, ScheduleTimes

-----------------------------------------------------------------------------
(* The inductive invariant. *)

\* The entries of a list that is sent which were not changed are those that
\* were read.
Kept(u, list, changed) ==
    \A n \in (DOMAIN list \cap DOMAIN view[u].stored) \ changed :
        list[n] = Shift(view[u].stored[n], view[u].offset)

\* The entry of a dialog is in the list.
Chosen(u, list, entered) ==
    entered # <<>> =>
        /\ entered[1] \in DOMAIN list /\ Selectable(entered[2], offset[u])
        /\ list[entered[1]] = CronOf(entered[2])

(* For MongoDB, what the dialog lets choose is not on a last day in UTC, unless *)
(* the zone is twelve hours ahead.                                            *)
LEMMA MongoDay ==
    ASSUME NEW u \in Users, NEW off \in Offsets[u], NEW f, Selectable(f, off),
           engine = "psmdb", off \div 60 # 12
    PROVE  Shift(CronOf(f), -off).day # LastDay
<1> DEFINE t == CronOf(f)
           m == FirstMinute(t) + -off
           d == m \div 1440
           hours == off \div 60
<1>1. /\ off \in Int /\ -off \in Int /\ off >= -720 /\ off <= 840 /\ ~(off >= 1 /\ off <= 59)
      /\ -off >= -840 /\ -off <= 840
  BY OffsetRange
<1>2. IsForm(f) /\ IsTime(t)
  BY FormTime DEF Selectable
<1>3. Shift(t, -off).day = ShiftDay(t.day, d)
  BY <1>1, <1>2, ShiftFields
<1>4. t.day = (IF f.every = "month" THEN f.day ELSE -1) /\ f.day >= 1 /\ f.day <= 31 /\ f.day \in Int
  BY <1>2, FormTime DEF IsForm
<1>5. d \in {-1, 0, 1} /\ m \in Int /\ m - 1440 * d >= 0
  BY <1>1, <1>2, ShiftFields, Clock
<1>6. ASSUME f.every = "month", f.day = 1, m < 0
      PROVE  FALSE
  <2> DEFINE half == f.hour % 12
             hour == half + (IF f.pm THEN 12 ELSE 0)
  <2>1. f.hour \in Int /\ 1 <= f.hour /\ f.hour <= 12 /\ f.pm \in BOOLEAN
        /\ f.minute \in Int /\ 0 <= f.minute /\ f.minute <= 59
    BY <1>2 DEF IsForm
  <2>2. half \in Int /\ half >= 0 /\ half <= 11 /\ (f.hour <= 11 => half = f.hour)
    BY <2>1
  <2>3. hour \in Int /\ hour >= 0 /\ (f.pm => hour = half + 12) /\ (~f.pm => hour = half)
    BY <2>2
  <2>4. m = hour * 60 + f.minute + -off
    BY <1>2, <1>6, FormTime
  <2>5. /\ hours \in Int /\ hours <= 14 /\ off = 60 * hours + (off % 60)
        /\ off % 60 \in Int /\ 0 <= off % 60 /\ off % 60 <= 59
    BY <1>1
  <2> HIDE DEF half, hour, m, hours
  <2>6. hour * 60 + f.minute < off
    BY <1>1, <1>6, <2>1, <2>3, <2>4
  <2>7. hours > 0 /\ hours # 12
    BY <1>1, <2>1, <2>3, <2>5, <2>6 DEF hours
  <2>8. /\ hours > 12 => f.pm
        /\ (IF f.pm THEN hours > 12 ELSE hours <= 12) =>
             /\ f.hour \in (IF hours <= 12 THEN hours ELSE hours - 12) .. 11
             /\ off % 60 > 0 /\ f.hour = (IF hours <= 12 THEN hours ELSE hours - 12) =>
                  f.minute \in (off % 60) .. (off % 60) + 29
    BY <1>6, <2>7 DEF Selectable, hours
  <2>9. CASE hours > 12
    <3>1. f.pm /\ f.hour >= hours - 12 /\ f.hour <= 11
          /\ (off % 60 > 0 /\ f.hour = hours - 12 => f.minute >= off % 60)
      BY <2>1, <2>5, <2>8, <2>9
    <3> QED
      BY <2>1, <2>2, <2>3, <2>5, <2>6, <3>1
  <2>10. CASE hours < 12 /\ ~f.pm
    <3>1. f.hour >= hours /\ f.hour <= 11
          /\ (off % 60 > 0 /\ f.hour = hours => f.minute >= off % 60)
      BY <2>1, <2>5, <2>8, <2>10
    <3> QED
      BY <2>1, <2>2, <2>3, <2>5, <2>6, <2>10, <3>1
  <2>11. CASE hours < 12 /\ f.pm
    BY <2>1, <2>2, <2>3, <2>5, <2>6, <2>11
  <2> QED
    BY <2>5, <2>7, <2>9, <2>10, <2>11
<1>7. ShiftDay(t.day, d) = 0 => f.every = "month" /\ f.day = 1 /\ d = -1
  BY <1>4, <1>5 DEF ShiftDay
<1>8. d = -1 => m < 0
  BY <1>5
<1> QED
  BY <1>3, <1>6, <1>7, <1>8 DEF LastDay

(* An update that is sent.                                                    *)
LEMMA SendStep ==
    ASSUME IndInv, NEW u \in Users, NEW list, NEW p, NEW changed, NEW entered,
           p \in BOOLEAN, IsSchedules(list), engine = "postgresql" /\ DOMAIN list # {} => p,
           Kept(u, list, changed), Chosen(u, list, entered),
           Send(u, list, p, changed, entered)
    PROVE  /\ StoredInv' /\ OffsetInv' /\ SentInv' /\ CountInv'
           /\ engine' = engine /\ offset' = offset
<1> DEFINE m == [what |-> "update", list |-> ShiftAll(list, -offset[u]), pitr |-> p,
                 base |-> view[u].stored, changed |-> changed, entered |-> entered,
                 offset |-> offset[u], moved |-> offset[u] # view[u].offset]
<1>1. /\ sent' = [sent EXCEPT ![u] = m] /\ saves < MaxSaves /\ saves' = saves + 1
      /\ UNCHANGED <<engine, stored, pitr, offset, changes>>
  BY DEF Send
<1>2. StoredInv' /\ OffsetInv' /\ CountInv'
  BY <1>1, SchedulesAssumption
     DEF IndInv, StoredInv, OffsetInv, CountInv, SchedulesBringPitr
<1>3. /\ offset[u] \in Offsets[u] /\ View(engine, u, view[u])
      /\ offset[u] \in Int /\ -offset[u] \in Int /\ -offset[u] >= -840 /\ -offset[u] <= 840
  <2>1. offset[u] \in Offsets[u] /\ View(engine, u, view[u])
    BY DEF IndInv, OffsetInv, ViewInv
  <2>2. offset[u] \in Int /\ -offset[u] \in Int /\ offset[u] >= -720 /\ offset[u] <= 840
    BY <2>1, OffsetRange
  <2> QED
    BY <2>1, <2>2
<1>4. /\ IsSchedules(ShiftAll(list, -offset[u])) /\ DOMAIN ShiftAll(list, -offset[u]) = DOMAIN list
      /\ \A n \in DOMAIN list : ShiftAll(list, -offset[u])[n] = Shift(list[n], -offset[u])
  BY <1>3, ShiftSchedules
<1>5. Update(engine, u, m)
  <2>1. IsSchedules(m.list) /\ IsSchedules(m.base) /\ m.offset \in Offsets[u]
    BY <1>3, <1>4 DEF View
  <2>2. m.pitr \in BOOLEAN /\ (engine = "postgresql" /\ DOMAIN m.list # {} => m.pitr)
    BY <1>4, Zenon
  <2>3. ~m.moved => \A n \in (DOMAIN m.list \cap DOMAIN m.base) \ m.changed :
                      m.list[n] = Shift(Shift(m.base[n], m.offset), -m.offset)
    <3>1. m.moved = (offset[u] # view[u].offset) /\ m.list = ShiftAll(list, -offset[u])
          /\ m.base = view[u].stored /\ m.changed = changed /\ m.offset = offset[u]
      OBVIOUS
    <3> HIDE DEF m
    <3> QED
      BY <1>4, <3>1 DEF Kept
  <2>4. m.entered # <<>> =>
          /\ m.entered[1] \in DOMAIN m.list /\ IsForm(m.entered[2])
          /\ m.list[m.entered[1]] = Shift(CronOf(m.entered[2]), -m.offset)
          /\ \/ engine # "psmdb" \/ m.offset \div 60 = 12
             \/ m.list[m.entered[1]].day # LastDay
    <3>1. m.entered = entered /\ m.list = ShiftAll(list, -offset[u]) /\ m.offset = offset[u]
      OBVIOUS
    <3> HIDE DEF m
    <3>2. SUFFICES ASSUME entered # <<>>
          PROVE  /\ entered[1] \in DOMAIN m.list /\ IsForm(entered[2])
                 /\ m.list[entered[1]] = Shift(CronOf(entered[2]), -offset[u])
                 /\ \/ engine # "psmdb" \/ offset[u] \div 60 = 12
                    \/ m.list[entered[1]].day # LastDay
      BY <3>1
    <3>3. entered[1] \in DOMAIN list /\ Selectable(entered[2], offset[u])
          /\ list[entered[1]] = CronOf(entered[2])
      BY <3>2 DEF Chosen
    <3>4. m.list[entered[1]] = Shift(CronOf(entered[2]), -offset[u])
      BY <1>4, <3>1, <3>3
    <3>5. IsForm(entered[2])
      BY <3>3 DEF Selectable
    <3>6. \/ engine # "psmdb" \/ offset[u] \div 60 = 12
          \/ Shift(CronOf(entered[2]), -offset[u]).day # LastDay
      BY <1>3, <3>3, MongoDay
    <3> QED
      BY <1>4, <3>1, <3>3, <3>4, <3>5, <3>6
  <2> HIDE DEF m
  <2> QED
    BY <2>1, <2>2, <2>3, <2>4 DEF Update
<1>6. SentInv'
  <2>1. \A w \in Users : sent[w] = Nothing \/ Update(engine, w, sent[w])
    BY DEF IndInv, SentInv
  <2> HIDE DEF m
  <2>2. sent' = [w \in Users |-> sent'[w]] /\ sent'[u] = m
        /\ \A w \in Users \ {u} : sent'[w] = sent[w]
    BY <1>1 DEF IndInv, SentInv
  <2>3. ASSUME NEW w \in Users
        PROVE  sent'[w] = Nothing \/ Update(engine', w, sent'[w])
    BY <1>1, <1>5, <2>1, <2>2
  <2> QED
    BY <2>2, <2>3 DEF SentInv, Nothing
<1> QED
  BY <1>1, <1>2, <1>6

(* What a page makes of what it reads.                                        *)
LEMMA ViewRead ==
    ASSUME NEW e, NEW u \in Users, NEW list, IsSchedules(list), NEW p, p \in BOOLEAN,
           e = "postgresql" /\ DOMAIN list # {} => p, NEW off \in Offsets[u]
    PROVE  View(e, u, ViewOf(list, p, off))
<1> DEFINE v == ViewOf(list, p, off)
<1>1. v = [list |-> ShiftAll(list, off), stored |-> list, offset |-> off, pitr |-> p, mine |-> {}]
  BY DEF ViewOf
<1>2. off \in Int /\ off >= -840 /\ off <= 840
  BY OffsetRange
<1>3. /\ IsSchedules(ShiftAll(list, off)) /\ DOMAIN ShiftAll(list, off) = DOMAIN list
      /\ \A n \in DOMAIN list : ShiftAll(list, off)[n] = Shift(list[n], off)
  BY <1>2, ShiftSchedules
<1>4. v.pitr \in BOOLEAN /\ (e = "postgresql" /\ DOMAIN v.list # {} => v.pitr)
  <2>1. v.pitr = p /\ DOMAIN v.list = DOMAIN list
    BY <1>1, <1>3
  <2> QED
    BY <2>1, Zenon
<1>5. /\ v = [list |-> v.list, stored |-> v.stored, offset |-> v.offset, pitr |-> v.pitr,
              mine |-> v.mine]
      /\ IsSchedules(v.list) /\ IsSchedules(v.stored) /\ DOMAIN v.list = DOMAIN v.stored
      /\ v.offset \in Offsets[u]
      /\ \A n \in DOMAIN v.list \ v.mine : v.list[n] = Shift(v.stored[n], v.offset)
  BY <1>1, <1>3
<1> HIDE DEF v
<1> QED
  BY <1>4, <1>5 DEF View, v

(* A page that changes.                                                       *)
LEMMA ViewStep ==
    ASSUME ViewInv, NEW u \in Users, NEW v, View(engine, u, v),
           view' = [view EXCEPT ![u] = v], engine' = engine
    PROVE  ViewInv'
<1>1. /\ view' = [w \in Users |-> view'[w]] /\ view'[u] = v
      /\ \A w \in Users \ {u} : view'[w] = view[w]
  BY DEF ViewInv
<1>2. \A w \in Users : View(engine, w, view'[w])
  BY <1>1 DEF ViewInv
<1> QED
  BY <1>1, <1>2 DEF ViewInv

(* An update that ends.                                                       *)
LEMMA SentStep ==
    ASSUME SentInv, NEW u \in Users, sent' = [sent EXCEPT ![u] = Nothing], engine' = engine
    PROVE  SentInv'
<1>1. /\ sent' = [w \in Users |-> sent'[w]] /\ sent'[u] = Nothing
      /\ \A w \in Users \ {u} : sent'[w] = sent[w]
  BY DEF SentInv, Nothing
<1> QED
  BY <1>1 DEF SentInv, Nothing

(* The first states.                                                          *)
LEMMA InitInv == Init => IndInv
<1> SUFFICES ASSUME Init PROVE IndInv
  OBVIOUS
<1>1. engine \in Engines /\ IsSchedules(stored)
  BY SchedulesAssumption DEF Init
<1>2. pitr \in BOOLEAN /\ (engine = "postgresql" /\ DOMAIN stored # {} => pitr)
  <2>1. pitr = (engine = "postgresql" /\ DOMAIN stored # {})
    BY DEF Init
  <2> QED
    BY <2>1, Zenon
<1>3. OffsetInv
  BY DEF Init, OffsetInv
<1>4. ViewInv
  <2>1. view = [u \in Users |-> ViewOf(stored, pitr, offset[u])]
    BY DEF Init
  <2>2. \A u \in Users : View(engine, u, ViewOf(stored, pitr, offset[u]))
    BY <1>1, <1>2, <1>3, ViewRead DEF OffsetInv
  <2> QED
    BY <2>1, <2>2 DEF ViewInv
<1>5. SentInv
  BY DEF Init, SentInv, Nothing
<1>6. CountInv
  BY SchedulesAssumption DEF Init, CountInv
<1> QED
  BY <1>1, <1>2, <1>3, <1>4, <1>5, <1>6 DEF IndInv, StoredInv, SchedulesBringPitr

(* What a page sends when nothing of its list is changed.                     *)
LEMMA SendsView ==
    ASSUME IndInv, NEW u \in Users
    PROVE  /\ View(engine, u, view[u])
           /\ IsSchedules(view[u].list) /\ view[u].pitr \in BOOLEAN
           /\ engine = "postgresql" /\ DOMAIN view[u].list # {} => view[u].pitr
           /\ Kept(u, view[u].list, view[u].mine)
           /\ \A list : Chosen(u, list, <<>>)
<1>1. View(engine, u, view[u])
  BY DEF IndInv, ViewInv
<1>2. /\ IsSchedules(view[u].list) /\ DOMAIN view[u].list = DOMAIN view[u].stored
      /\ \A n \in DOMAIN view[u].list \ view[u].mine :
            view[u].list[n] = Shift(view[u].stored[n], view[u].offset)
  BY <1>1 DEF View
<1>3. view[u].pitr \in BOOLEAN
      /\ (engine = "postgresql" /\ DOMAIN view[u].list # {} => view[u].pitr)
  BY <1>1, Zenon DEF View
<1>4. Kept(u, view[u].list, view[u].mine)
  BY <1>2 DEF Kept
<1>5. \A list : Chosen(u, list, <<>>)
  BY DEF Chosen
<1> QED
  BY <1>1, <1>2, <1>3, <1>4, <1>5

(* Updates that leave the schedules alone.                                    *)
LEMMA PlainSteps ==
    ASSUME IndInv, NEW u \in Users, UpdateOther(u) \/ SwitchPitr(u)
    PROVE  IndInv'
<1>1. PICK p : /\ Send(u, view[u].list, p, view[u].mine, <<>>) /\ UNCHANGED view
               /\ p \in BOOLEAN
               /\ engine = "postgresql" /\ DOMAIN view[u].list # {} => p
  <2>1. CASE UpdateOther(u)
    <3>1. Send(u, view[u].list, view[u].pitr, view[u].mine, <<>>) /\ UNCHANGED view
      BY <2>1 DEF UpdateOther
    <3> QED
      BY <3>1, SendsView
  <2>2. CASE SwitchPitr(u)
    <3>1. Send(u, view[u].list, ~view[u].pitr, view[u].mine, <<>>) /\ UNCHANGED view
          /\ engine # "postgresql"
      BY <2>2 DEF SwitchPitr
    <3>2. (~view[u].pitr) \in BOOLEAN
      OBVIOUS
    <3> QED
      BY <3>1, <3>2
  <2> QED
    BY <2>1, <2>2
<1>2. /\ StoredInv' /\ OffsetInv' /\ SentInv' /\ CountInv' /\ engine' = engine
  BY <1>1, SendsView, SendStep
<1>3. ViewInv'
  BY <1>1, <1>2 DEF IndInv, ViewInv
<1> QED
  BY <1>2, <1>3 DEF IndInv

(* A schedule that is created.                                                *)
LEMMA CreateStep ==
    ASSUME IndInv, NEW u \in Users, NEW n \in Names, NEW f, Create(u, n, f)
    PROVE  IndInv'
<1> DEFINE list == [m \in DOMAIN view[u].list \cup {n} |-> IF m = n THEN CronOf(f) ELSE view[u].list[m]]
           p == view[u].pitr \/ engine = "postgresql"
<1>1. /\ Send(u, list, p, view[u].mine, <<n, f>>) /\ UNCHANGED view
      /\ Selectable(f, offset[u]) /\ n \notin DOMAIN view[u].list
  BY DEF Create
<1>2. p \in BOOLEAN /\ (engine = "postgresql" /\ DOMAIN list # {} => p)
  OBVIOUS
<1>3. IsTime(CronOf(f))
  BY <1>1, FormTime DEF Selectable
<1>4. /\ IsSchedules(list) /\ DOMAIN list = DOMAIN view[u].list \cup {n} /\ list[n] = CronOf(f)
      /\ \A k \in DOMAIN view[u].list \ {n} : list[k] = view[u].list[k]
  BY <1>3, SendsView, ListMore
<1> HIDE DEF list, p
<1>5. Kept(u, list, view[u].mine)
  <2>1. DOMAIN view[u].list = DOMAIN view[u].stored
    BY SendsView DEF View
  <2> QED
    BY <1>1, <1>4, <2>1, SendsView DEF Kept
<1>6. Chosen(u, list, <<n, f>>)
  BY <1>1, <1>4 DEF Chosen
<1>7. /\ StoredInv' /\ OffsetInv' /\ SentInv' /\ CountInv' /\ engine' = engine
  BY <1>1, <1>2, <1>4, <1>5, <1>6, SendStep
<1>8. ViewInv'
  BY <1>1, <1>7 DEF IndInv, ViewInv
<1> QED
  BY <1>7, <1>8 DEF IndInv

(* A page whose list and history are other ones.                              *)
LEMMA ViewChange ==
    ASSUME NEW v, v = [list |-> v.list, stored |-> v.stored, offset |-> v.offset, pitr |-> v.pitr,
                       mine |-> v.mine],
           NEW list, NEW changed
    PROVE  [v EXCEPT !.list = list, !.mine = changed] =
               [list |-> list, stored |-> v.stored, offset |-> v.offset, pitr |-> v.pitr,
                mine |-> changed]
<1> DEFINE w == [v EXCEPT !.list = list]
<1>1. [v EXCEPT !.list = list, !.mine = changed] = [w EXCEPT !.mine = changed]
  OBVIOUS
<1>2. w = [list |-> list, stored |-> v.stored, offset |-> v.offset, pitr |-> v.pitr,
           mine |-> v.mine]
  OBVIOUS
<1> HIDE DEF w
<1>3. [w EXCEPT !.mine = changed] =
          [list |-> list, stored |-> v.stored, offset |-> v.offset, pitr |-> v.pitr,
           mine |-> changed]
  BY <1>2
<1> QED
  BY <1>1, <1>3

(* A schedule that is edited: opened and saved as it is shown, it is what it  *)
(* was, unless it is for a last day.                                          *)
LEMMA EditStep ==
    ASSUME IndInv, NEW u \in Users, NEW n, NEW f, Edit(u, n, f)
    PROVE  IndInv'
<1> DEFINE list == [view[u].list EXCEPT ![n] = CronOf(f)]
           p == view[u].pitr \/ engine = "postgresql"
           kept == f = FormOf(view[u].list[n]) /\ view[u].list[n].day # LastDay
           changed == view[u].mine \cup (IF kept THEN {} ELSE {n})
           v == [view[u] EXCEPT !.list = list, !.mine = changed]
<1>1. /\ Send(u, list, p, changed, <<n, f>>) /\ view' = [view EXCEPT ![u] = v]
      /\ Selectable(f, offset[u]) /\ n \in DOMAIN view[u].list
  BY DEF Edit
<1>2. p \in BOOLEAN /\ (engine = "postgresql" /\ DOMAIN list # {} => p)
  OBVIOUS
<1>3. IsTime(CronOf(f))
  BY <1>1, FormTime DEF Selectable
<1>4. /\ IsSchedules(list) /\ DOMAIN list = DOMAIN view[u].list /\ list[n] = CronOf(f)
      /\ \A k \in DOMAIN view[u].list \ {n} : list[k] = view[u].list[k]
  BY <1>1, <1>3, SendsView, ListChanged
<1>5. kept => CronOf(f) = view[u].list[n]
  <2>1. IsTime(view[u].list[n])
    BY <1>1, SendsView, ScheduleTimes
  <2> QED
    BY <2>1, FormBack
<1>6. /\ view[u].mine \subseteq changed
      /\ n \notin changed => CronOf(f) = view[u].list[n]
  BY <1>5
<1> HIDE DEF list, p, kept, changed
<1>7. \A k \in DOMAIN list \ changed : list[k] = Shift(view[u].stored[k], view[u].offset)
  <2>1. \A k \in DOMAIN list \ changed : list[k] = view[u].list[k]
    BY <1>4, <1>6
  <2>2. \A k \in DOMAIN view[u].list \ view[u].mine :
            view[u].list[k] = Shift(view[u].stored[k], view[u].offset)
    BY SendsView DEF View
  <2> QED
    BY <1>4, <1>6, <2>1, <2>2
<1>8. Kept(u, list, changed)
  BY <1>7 DEF Kept
<1>9. Chosen(u, list, <<n, f>>)
  BY <1>1, <1>4 DEF Chosen
<1>10. /\ StoredInv' /\ OffsetInv' /\ SentInv' /\ CountInv' /\ engine' = engine
  BY <1>1, <1>2, <1>4, <1>8, <1>9, SendStep
<1>11. View(engine, u, v)
  <2>1. view[u] = [list |-> view[u].list, stored |-> view[u].stored, offset |-> view[u].offset,
                   pitr |-> view[u].pitr, mine |-> view[u].mine]
    BY SendsView DEF View
  <2>2. v = [list |-> list, stored |-> view[u].stored, offset |-> view[u].offset,
             pitr |-> view[u].pitr, mine |-> changed]
    BY <2>1, ViewChange
  <2> HIDE DEF v
  <2>3. /\ v = [list |-> v.list, stored |-> v.stored, offset |-> v.offset, pitr |-> v.pitr,
                mine |-> v.mine]
        /\ v.list = list /\ v.mine = changed /\ v.stored = view[u].stored
        /\ v.offset = view[u].offset /\ v.pitr = view[u].pitr
    BY <2>2
  <2>4. /\ IsSchedules(v.stored) /\ DOMAIN v.list = DOMAIN v.stored /\ v.offset \in Offsets[u]
    BY <1>4, <2>3, SendsView DEF View
  <2>5. v.pitr \in BOOLEAN /\ (engine = "postgresql" /\ DOMAIN v.list # {} => v.pitr)
    <3>1. DOMAIN v.list = DOMAIN view[u].list
      BY <1>4, <2>3
    <3> QED
      BY <2>3, <3>1, SendsView, Zenon
  <2> QED
    BY <1>4, <1>7, <2>3, <2>4, <2>5 DEF View
<1> HIDE DEF v
<1>12. ViewInv'
  BY <1>1, <1>10, <1>11, ViewStep DEF IndInv
<1> QED
  BY <1>10, <1>12 DEF IndInv

(* A schedule that is deleted: point-in-time recovery goes with the last one. *)
LEMMA DeleteStep ==
    ASSUME IndInv, NEW u \in Users, NEW n, NEW empty \in BOOLEAN, Delete(u, n, empty)
    PROVE  IndInv'
<1> DEFINE list == [m \in DOMAIN view[u].list \ {n} |-> view[u].list[m]]
           p == PitrAfterDelete(view[u], empty)
<1>1. /\ Send(u, list, p, view[u].mine, <<>>) /\ UNCHANGED view /\ n \in DOMAIN view[u].list
  BY DEF Delete
<1>2. /\ IsSchedules(list) /\ DOMAIN list = DOMAIN view[u].list \ {n}
      /\ \A k \in DOMAIN list : list[k] = view[u].list[k]
  BY SendsView, ListLess
<1> HIDE DEF list
<1>3. p \in BOOLEAN /\ (engine = "postgresql" /\ DOMAIN list # {} => p)
  <2>1. p = (view[u].pitr /\ ~(empty /\ Cardinality(DOMAIN view[u].list) = 1))
    BY DEF PitrAfterDelete
  <2>2. Cardinality(DOMAIN view[u].list) = 1 => DOMAIN list = {}
    <3>1. HAVE Cardinality(DOMAIN view[u].list) = 1
    <3>2. IsFiniteSet(DOMAIN view[u].list)
      BY SendsView DEF IsSchedules
    <3>3. \E x : DOMAIN view[u].list = {x}
      BY <3>1, <3>2, FS_Singleton
    <3> QED
      BY <1>1, <1>2, <3>3
  <2>3. engine = "postgresql" /\ DOMAIN view[u].list # {} => view[u].pitr
    BY SendsView
  <2> HIDE DEF p
  <2>4. p \in BOOLEAN
    BY <2>1
  <2>5. ASSUME engine = "postgresql", DOMAIN list # {} PROVE p
    <3>1. view[u].pitr /\ Cardinality(DOMAIN view[u].list) # 1
      BY <1>1, <2>2, <2>3, <2>5
    <3> QED
      BY <2>1, <3>1
  <2> QED
    BY <2>4, <2>5
<1> HIDE DEF p
<1>4. Kept(u, list, view[u].mine)
  BY <1>2, SendsView DEF Kept
<1>5. Chosen(u, list, <<>>)
  BY SendsView
<1>6. /\ StoredInv' /\ OffsetInv' /\ SentInv' /\ CountInv' /\ engine' = engine
  BY <1>1, <1>2, <1>3, <1>4, <1>5, SendStep
<1>7. ViewInv'
  BY <1>1, <1>6 DEF IndInv, ViewInv
<1> QED
  BY <1>6, <1>7 DEF IndInv

(* A page that reads the database again.                                      *)
LEMMA RefreshStep ==
    ASSUME IndInv, NEW u \in Users, Refresh(u)
    PROVE  IndInv'
<1>1. /\ view' = [view EXCEPT ![u] = ViewOf(stored, pitr, offset[u])]
      /\ UNCHANGED <<engine, stored, pitr, offset, sent, saves, changes>>
  BY DEF Refresh
<1>2. View(engine, u, ViewOf(stored, pitr, offset[u]))
  BY ViewRead DEF IndInv, StoredInv, OffsetInv, SchedulesBringPitr
<1>3. ViewInv'
  BY <1>1, <1>2, ViewStep DEF IndInv
<1> QED
  BY <1>1, <1>3 DEF IndInv, StoredInv, OffsetInv, SentInv, CountInv, SchedulesBringPitr

(* Another offset.                                                            *)
LEMMA ChangeOffsetStep ==
    ASSUME IndInv, NEW u \in Users, ChangeOffset(u)
    PROVE  IndInv'
<1>1. PICK o \in Offsets[u] : offset' = [offset EXCEPT ![u] = o]
  BY DEF ChangeOffset
<1>2. /\ changes < MaxChanges /\ changes' = changes + 1
      /\ UNCHANGED <<engine, stored, pitr, view, sent, saves>>
  BY DEF ChangeOffset
<1>3. OffsetInv'
  BY <1>1 DEF IndInv, OffsetInv
<1>4. CountInv'
  BY <1>2, SchedulesAssumption DEF IndInv, CountInv
<1> QED
  BY <1>2, <1>3, <1>4 DEF IndInv, StoredInv, ViewInv, SentInv, SchedulesBringPitr

(* What an update brings when it is stored.                                   *)
LEMMA StoresUpdate ==
    ASSUME IndInv, NEW u \in Users, sent[u] # Nothing,
           stored' = sent[u].list, pitr' = sent[u].pitr, engine' = engine
    PROVE  /\ StoredInv' /\ Update(engine, u, sent[u])
<1>1. Update(engine, u, sent[u])
  BY DEF IndInv, SentInv
<1>2. pitr' \in BOOLEAN /\ (engine = "postgresql" /\ DOMAIN stored' # {} => pitr')
  BY <1>1, Zenon DEF Update
<1> QED
  BY <1>1, <1>2 DEF IndInv, StoredInv, SchedulesBringPitr, Update

(* An update that is stored and answered.                                     *)
LEMMA LandStep ==
    ASSUME IndInv, NEW u \in Users, Land(u)
    PROVE  IndInv'
<1>1. /\ sent[u] # Nothing /\ stored' = sent[u].list /\ pitr' = sent[u].pitr
      /\ view' = [view EXCEPT ![u] = ViewOf(stored', pitr', offset[u])]
      /\ sent' = [sent EXCEPT ![u] = Nothing]
      /\ UNCHANGED <<engine, offset, saves, changes>>
  BY DEF Land
<1>2. StoredInv'
  BY <1>1, StoresUpdate
<1>3. View(engine, u, ViewOf(stored', pitr', offset[u]))
  BY <1>1, <1>2, ViewRead DEF IndInv, StoredInv, OffsetInv, SchedulesBringPitr
<1>4. ViewInv' /\ SentInv'
  BY <1>1, <1>3, ViewStep, SentStep DEF IndInv
<1> QED
  BY <1>1, <1>2, <1>4 DEF IndInv, OffsetInv, CountInv

(* An update that is not answered, whether it was stored or not.              *)
LEMMA FailStep ==
    ASSUME IndInv, NEW u \in Users, Fail(u)
    PROVE  IndInv'
<1>1. /\ sent[u] # Nothing /\ sent' = [sent EXCEPT ![u] = Nothing]
      /\ UNCHANGED <<engine, offset, view, saves, changes>>
      /\ \/ UNCHANGED <<stored, pitr>>
         \/ stored' = sent[u].list /\ pitr' = sent[u].pitr
  BY DEF Fail
<1>2. StoredInv'
  <2>1. CASE UNCHANGED <<stored, pitr>>
    BY <1>1, <2>1 DEF IndInv, StoredInv, SchedulesBringPitr
  <2>2. CASE stored' = sent[u].list /\ pitr' = sent[u].pitr
    BY <1>1, <2>2, StoresUpdate
  <2> QED
    BY <1>1, <2>1, <2>2
<1>3. SentInv'
  BY <1>1, SentStep DEF IndInv
<1> QED
  BY <1>1, <1>2, <1>3 DEF IndInv, OffsetInv, ViewInv, CountInv

(* It is inductive.                                                           *)
LEMMA NextInv == IndInv /\ [Next]_vars => IndInv'
<1> SUFFICES ASSUME IndInv, [Next]_vars PROVE IndInv'
  OBVIOUS
<1>1. CASE UNCHANGED vars
  BY <1>1 DEF vars, IndInv, StoredInv, OffsetInv, ViewInv, SentInv, CountInv, SchedulesBringPitr
<1>2. ASSUME NEW u \in Users, UpdateOther(u) \/ SwitchPitr(u)
      PROVE  IndInv'
  BY <1>2, PlainSteps
<1>3. ASSUME NEW u \in Users, NEW n \in Names, NEW f, Create(u, n, f) \/ Edit(u, n, f)
      PROVE  IndInv'
  BY <1>3, CreateStep, EditStep
<1>4. ASSUME NEW u \in Users, NEW n \in Names, NEW empty \in BOOLEAN, Delete(u, n, empty)
      PROVE  IndInv'
  BY <1>4, DeleteStep
<1>5. ASSUME NEW u \in Users, Refresh(u) \/ ChangeOffset(u) \/ Land(u) \/ Fail(u)
      PROVE  IndInv'
  BY <1>5, RefreshStep, ChangeOffsetStep, LandStep, FailStep
<1> QED
  BY <1>1, <1>2, <1>3, <1>4, <1>5 DEF Next

(* The invariant holds throughout.                                            *)
THEOREM Invariant == Spec => []IndInv
BY InitInv, NextInv, PTL DEF Spec

-----------------------------------------------------------------------------
(* What follows. *)

(* Schedules, offsets and pages are what they should be, and every schedule   *)
(* that a page holds can be shown in the dialog.                              *)
THEOREM SchedulesAreShown == Spec => []TypeOK
<1>1. IndInv => TypeOK
  <2> SUFFICES ASSUME IndInv PROVE TypeOK
    OBVIOUS
  <2>1. /\ engine \in Engines /\ pitr \in BOOLEAN
        /\ saves \in 0 .. MaxSaves /\ changes \in 0 .. MaxChanges
    BY DEF IndInv, StoredInv, CountInv
  <2>2. ASSUME NEW list, IsSchedules(list)
        PROVE  /\ DOMAIN list \subseteq Names /\ Range(list) \subseteq Times
               /\ \A t \in Range(list) : IsForm(FormOf(t))
    <3>1. DOMAIN list \subseteq Names /\ \A n \in DOMAIN list : IsTime(list[n])
      BY <2>2, ScheduleTimes
    <3>2. \A t \in Range(list) : IsTime(t)
      BY <3>1 DEF Range
    <3> QED
      BY <3>1, <3>2, FormBack DEF IsTime
  <2>3. DOMAIN stored \subseteq Names /\ Range(stored) \subseteq Times
    BY <2>2 DEF IndInv, StoredInv
  <2>4. ASSUME NEW u \in Users
        PROVE  /\ offset[u] \in Offsets[u] /\ view[u].offset \in Offsets[u]
               /\ DOMAIN view[u].list \subseteq Names /\ Range(view[u].list) \subseteq Times
               /\ \A t \in Range(view[u].list) : IsForm(FormOf(t))
    <3>1. offset[u] \in Offsets[u] /\ View(engine, u, view[u])
      BY DEF IndInv, OffsetInv, ViewInv
    <3> QED
      BY <2>2, <3>1 DEF View
  <2> QED
    BY <2>1, <2>3, <2>4 DEF TypeOK
<1> QED
  BY <1>1, Invariant, PTL

(* A PostgreSQL database that has schedules has point-in-time recovery.       *)
THEOREM PitrWithSchedules == Spec => []SchedulesBringPitr
<1>1. IndInv => SchedulesBringPitr
  BY DEF IndInv, StoredInv
<1> QED
  BY <1>1, Invariant, PTL

(* An update that is stored is one that was sent.                             *)
LEMMA LandStores ==
    ASSUME IndInv, NEW u \in Users, Land(u)
    PROVE  stored' = sent[u].list /\ Update(engine, u, sent[u])
BY StoresUpdate DEF Land

(* Whatever an update is about, schedules whose time the user has not changed *)
(* keep it, if it lasts through the conversions.                              *)
THEOREM UntouchedSchedules == Spec => UntouchedStay
<1>1. ASSUME IndInv, NEW u \in Users, Land(u), ~sent[u].moved,
             NEW n \in (DOMAIN sent[u].base \cap DOMAIN stored') \ sent[u].changed,
             Lasting(sent[u].base[n], sent[u].offset)
      PROVE  stored'[n] = sent[u].base[n]
  <2> DEFINE t == sent[u].base[n]
             off == sent[u].offset
  <2>1. stored' = sent[u].list /\ Update(engine, u, sent[u])
    BY <1>1, LandStores
  <2>2. stored'[n] = Shift(Shift(t, off), -off)
    BY <1>1, <2>1 DEF Update
  <2>3. IsTime(t)
    BY <1>1, <2>1, ScheduleTimes DEF Update
  <2>4. off \in Int /\ -off \in Int /\ off >= -840 /\ off <= 840
    BY <2>1, OffsetRange DEF Update
  <2>5. Lasting(t, off)
    BY <1>1
  <2> HIDE DEF t, off
  <2>6. Shift(Shift(t, off), -off) = t
    BY <2>3, <2>4, <2>5, ShiftBack
  <2> QED
    BY <2>2, <2>6 DEF t, off
<1>2. IndInv => [\A u \in Users : sent[u] # Nothing /\ Land(u) /\ ~sent[u].moved =>
         \A n \in (DOMAIN sent[u].base \cap DOMAIN stored') \ sent[u].changed :
           Lasting(sent[u].base[n], sent[u].offset) => stored'[n] = sent[u].base[n]]_vars
  BY <1>1
<1> QED
  BY <1>2, Invariant, PTL DEF UntouchedStay

(* The time that a MongoDB schedule is given in a dialog is never the last    *)
(* day of the month in UTC, unless the zone is twelve hours ahead.            *)
THEOREM MongoSchedules == Spec => NoLastDayForMongo
<1>1. ASSUME IndInv, NEW u \in Users, Land(u), sent[u].entered # <<>>
      PROVE  \/ engine # "psmdb" \/ sent[u].offset \div 60 = 12
             \/ stored'[sent[u].entered[1]].day # LastDay
  BY <1>1, LandStores DEF Update
<1>2. IndInv => [\A u \in Users : sent[u] # Nothing /\ Land(u) /\ sent[u].entered # <<>> =>
         \/ engine # "psmdb" \/ sent[u].offset \div 60 = 12
         \/ stored'[sent[u].entered[1]].day # LastDay]_vars
  BY <1>1
<1> QED
  BY <1>2, Invariant, PTL DEF NoLastDayForMongo

-----------------------------------------------------------------------------
(* When schedules run. *)

(* The hours of half a day are 12, 1, ..., 11.                                *)
LEMMA HalfDay ==
    ASSUME NEW f, IsForm(f)
    PROVE  CronOf(f) = Meant(f)
<1> DEFINE half == CHOOSE k \in 0 .. 11 : f.hour = IF k = 0 THEN 12 ELSE k
<1>1. f.hour \in 1 .. 12 /\ f.pm \in BOOLEAN
  BY DEF IsForm
<1>2. \E k \in 0 .. 11 : f.hour = IF k = 0 THEN 12 ELSE k
  <2>1. CASE f.hour = 12
    <3>1. 0 \in 0 .. 11 /\ f.hour = IF 0 = 0 THEN 12 ELSE 0
      BY <2>1
    <3> QED
      BY <3>1
  <2>2. CASE f.hour # 12
    <3>1. f.hour \in 0 .. 11 /\ f.hour = IF f.hour = 0 THEN 12 ELSE f.hour
      BY <1>1, <2>2
    <3> QED
      BY <3>1
  <2> QED
    BY <2>1, <2>2
<1>3. half \in 0 .. 11 /\ f.hour = IF half = 0 THEN 12 ELSE half
  BY <1>2
<1> HIDE DEF half
<1>4. half = f.hour % 12
  BY <1>3
<1>5. (f.hour % 12) + (IF f.pm THEN 12 ELSE 0) = IF f.pm THEN 12 + half ELSE half
  BY <1>3, <1>4
<1> QED
  BY <1>5 DEF CronOf, Meant, half

\* The day of the month of a day, and whether a schedule runs on that day.
DayNumber(k) == IF k <= 6 THEN k + 25 ELSE IF k <= 34 THEN k - 6 ELSE k - 34
RunsOn(t, k) ==
    /\ t.day = -1 \/ t.day = DayNumber(k) \/ (k \in {6, 34} /\ t.day = 0)
    /\ t.weekday = -1 \/ t.weekday = (k - 1) % 7

(* The minutes at which a schedule runs.                                      *)
LEMMA RunsMinutes ==
    ASSUME NEW t, IsTime(t), NEW x
    PROVE  /\ t.hour # Every =>
                (x \in Runs(t) <=> \E k \in 1 .. 38 : RunsOn(t, k) /\ x = k * 1440 + FirstMinute(t))
           /\ t.hour = Every =>
                (x \in Runs(t) <=> \E k \in 1 .. 38, h \in 0 .. 23 : x = k * 1440 + h * 60 + t.minute)
<1> DEFINE hours == IF t.hour = Every THEN 0 .. 23 ELSE {t.hour}
           date(k) == [number |-> k, last |-> k \in {6, 34}, day |-> DayNumber(k)]
           On(d) == /\ t.day \in {Every, IF d.last THEN LastDay ELSE d.day, d.day}
                    /\ t.weekday \in {Every, (d.number - 1) % 7}
           Days == {e \in Dates : On(e)}
<1>1. Dates = {date(k) : k \in 1 .. 38}
  BY DEF Dates, DayNumber
<1>2. Runs(t) = {d.number * 1440 + h * 60 + t.minute : d \in Days, h \in hours}
  BY DEF Runs
<1>3. ASSUME NEW k \in 1 .. 38
      PROVE  date(k).number = k /\ (On(date(k)) <=> RunsOn(t, k))
  BY DEF RunsOn, Every, LastDay
<1>4. /\ \A k \in 1 .. 38 : RunsOn(t, k) => date(k) \in Days
      /\ \A e \in Days : \E k \in 1 .. 38 : RunsOn(t, k) /\ e = date(k)
  <2> HIDE DEF date, On
  <2> QED
    BY <1>1, <1>3
<1> HIDE DEF date, On, Days, hours
<1>5. x \in Runs(t) <=> \E d \in Days, h \in hours : x = d.number * 1440 + h * 60 + t.minute
  BY <1>2
<1>6. x \in Runs(t) <=> \E k \in 1 .. 38, h \in hours : RunsOn(t, k) /\ x = k * 1440 + h * 60 + t.minute
  <2>1. ASSUME NEW d \in Days, NEW h \in hours, x = d.number * 1440 + h * 60 + t.minute
        PROVE  \E k \in 1 .. 38, g \in hours : RunsOn(t, k) /\ x = k * 1440 + g * 60 + t.minute
    <3>1. PICK k \in 1 .. 38 : RunsOn(t, k) /\ d = date(k)
      BY <1>4
    <3> QED
      BY <1>3, <2>1, <3>1
  <2>2. ASSUME NEW k \in 1 .. 38, NEW h \in hours, RunsOn(t, k), x = k * 1440 + h * 60 + t.minute
        PROVE  \E d \in Days, g \in hours : x = d.number * 1440 + g * 60 + t.minute
    <3>1. date(k) \in Days /\ date(k).number = k
      BY <1>3, <1>4, <2>2
    <3> QED
      BY <2>2, <3>1
  <2> QED
    BY <1>5, <2>1, <2>2
<1>7. CASE t.hour # Every
  <2>1. hours = {t.hour}
    BY <1>7 DEF hours
  <2>2. \A k \in 1 .. 38 : k * 1440 + t.hour * 60 + t.minute = k * 1440 + FirstMinute(t)
    BY <1>7, Fields DEF FirstMinute, Every
  <2>3. x \in Runs(t) <=> \E k \in 1 .. 38 : RunsOn(t, k) /\ x = k * 1440 + t.hour * 60 + t.minute
    BY <1>6, <2>1
  <2>4. x \in Runs(t) <=> \E k \in 1 .. 38 : RunsOn(t, k) /\ x = k * 1440 + FirstMinute(t)
    BY <2>2, <2>3
  <2> QED
    BY <1>7, <2>4
<1>8. CASE t.hour = Every
  <2>1. hours = 0 .. 23 /\ t.day = -1 /\ t.weekday = -1
    BY <1>8 DEF IsTime, Every, hours
  <2>2. \A k : RunsOn(t, k)
    BY <2>1 DEF RunsOn
  <2> QED
    BY <1>6, <1>8, <2>1, <2>2
<1> QED
  BY <1>7, <1>8

(* They are numbers.                                                          *)
LEMMA RunsAreMinutes ==
    ASSUME NEW t, IsTime(t), NEW x \in Runs(t)
    PROVE  x \in Int
<1>1. t.minute \in Int /\ FirstMinute(t) \in Int
  BY Fields
<1>2. CASE t.hour # Every
  <2>1. PICK k \in 1 .. 38 : x = k * 1440 + FirstMinute(t)
    BY <1>2, RunsMinutes
  <2> QED
    BY <1>1, <2>1
<1>3. CASE t.hour = Every
  <2>1. PICK k \in 1 .. 38, h \in 0 .. 23 : x = k * 1440 + h * 60 + t.minute
    BY <1>3, RunsMinutes
  <2> QED
    BY <1>1, <2>1
<1> QED
  BY <1>2, <1>3

(* Minutes that are moved alike.                                              *)
LEMMA SameMinute ==
    ASSUME NEW y \in Int, NEW off \in Int, NEW n \in Int, 0 <= n, n <= 59
    PROVE  y % 60 = (n - off) % 60 <=> (y + off) % 60 = n
<1> DEFINE r == y % 60  q == y \div 60  r2 == (n - off) % 60  q2 == (n - off) \div 60
           r3 == (y + off) % 60  q3 == (y + off) \div 60
<1>1. /\ r \in Int /\ q \in Int /\ y = 60 * q + r /\ 0 <= r /\ r <= 59
      /\ r2 \in Int /\ q2 \in Int /\ n - off = 60 * q2 + r2 /\ 0 <= r2 /\ r2 <= 59
      /\ r3 \in Int /\ q3 \in Int /\ y + off = 60 * q3 + r3 /\ 0 <= r3 /\ r3 <= 59
  OBVIOUS
<1> HIDE DEF r, q, r2, q2, r3, q3
<1>2. r = r2 <=> r3 = n
  BY <1>1
<1> QED
  BY <1>2 DEF r, r2, r3

(* Days of the week that are moved alike.                                     *)
LEMMA SameWeekday ==
    ASSUME NEW w \in Int, 0 <= w, w <= 6, NEW d \in Int, NEW k \in Int
    PROVE  (w + d) % 7 = (k - 1) % 7 <=> w = (k - d - 1) % 7
<1> DEFINE r == (w + d) % 7  q == (w + d) \div 7  r2 == (k - 1) % 7  q2 == (k - 1) \div 7
           r3 == (k - d - 1) % 7  q3 == (k - d - 1) \div 7
<1>1. /\ r \in Int /\ q \in Int /\ w + d = 7 * q + r /\ 0 <= r /\ r <= 6
      /\ r2 \in Int /\ q2 \in Int /\ k - 1 = 7 * q2 + r2 /\ 0 <= r2 /\ r2 <= 6
      /\ r3 \in Int /\ q3 \in Int /\ k - d - 1 = 7 * q3 + r3 /\ 0 <= r3 /\ r3 <= 6
  OBVIOUS
<1> HIDE DEF r, q, r2, q2, r3, q3
<1>2. r = r2 <=> w = r3
  BY <1>1
<1> QED
  BY <1>2 DEF r, r2, r3

(* A schedule that is moved by a day runs on the days that are moved by it.   *)
LEMMA RunsOnMoved ==
    ASSUME NEW t, IsTime(t), NEW d \in {-1, 0, 1}, NEW s, IsTime(s),
           s.day = ShiftDay(t.day, d), s.weekday = ShiftWeekday(t.weekday, d), MovesExactly(t, d), t.day # 0,
           NEW k \in Int, 2 <= k, k <= 37
    PROVE  k - d \in 1 .. 38 /\ (RunsOn(s, k) <=> RunsOn(t, k - d))
<1>1. k - d \in 1 .. 38 /\ k - d \in Int /\ 1 <= k - d /\ k - d <= 38
  OBVIOUS
<1>2. /\ t.day \in Int /\ -1 <= t.day /\ t.day <= 31
      /\ t.weekday \in Int /\ -1 <= t.weekday /\ t.weekday <= 6
  BY Fields
<1>3. s.weekday = -1 \/ s.weekday = (k - 1) % 7 <=> t.weekday = -1 \/ t.weekday = (k - d - 1) % 7
  <2>1. CASE t.weekday = -1
    BY <2>1 DEF ShiftWeekday
  <2>2. CASE t.weekday # -1
    <3>1. s.weekday = (t.weekday + d) % 7 /\ s.weekday # -1
      BY <1>2, <2>2 DEF ShiftWeekday
    <3>2. (t.weekday + d) % 7 = (k - 1) % 7 <=> t.weekday = (k - d - 1) % 7
      <4>1. t.weekday \in Int /\ 0 <= t.weekday /\ t.weekday <= 6 /\ d \in Int
        BY <1>2, <2>2
      <4> QED
        BY <4>1, SameWeekday
    <3> QED
      BY <2>2, <3>1, <3>2
  <2> QED
    BY <2>1, <2>2
<1>4. s.day = -1 \/ s.day = DayNumber(k) \/ (k \in {6, 34} /\ s.day = 0) <=>
      t.day = -1 \/ t.day = DayNumber(k - d) \/ (k - d \in {6, 34} /\ t.day = 0)
  <2>1. CASE t.day = -1
    BY <2>1 DEF ShiftDay
  <2>2. CASE t.day # -1 /\ d = 0
    <3>1. s.day = t.day
      BY <1>2, <2>2 DEF ShiftDay
    <3> QED
      BY <2>2, <3>1
  <2>3. CASE d = 1 /\ t.day >= 1 /\ t.day <= 27
    <3>1. s.day = t.day + 1
      BY <1>2, <2>3 DEF ShiftDay
    <3> QED
      BY <1>1, <1>2, <2>3, <3>1 DEF DayNumber
  <2>4. CASE d = -1 /\ t.day >= 1 /\ t.day <= 28
    <3>1. s.day = t.day - 1
      BY <1>2, <2>4 DEF ShiftDay
    <3> QED
      BY <1>1, <1>2, <2>4, <3>1 DEF DayNumber
  <2> QED
    BY <1>2, <2>1, <2>2, <2>3, <2>4 DEF MovesExactly, Every
<1> QED
  BY <1>1, <1>3, <1>4 DEF RunsOn

(* What is entered runs at the instants that are meant.                       *)
LEMMA SameInstants ==
    ASSUME NEW t, IsTime(t), t.day # 0, NEW off \in Int, off >= -840, off <= 840,
           MovesExactly(t, DaysMoved(t, -off))
    PROVE  Inner(Runs(Shift(t, -off))) = Inner({x - off : x \in Runs(t)})
<1> DEFINE back == -off
           m == FirstMinute(t) + back
           d == m \div 1440
           s == Shift(t, back)
<1>1. back \in Int /\ back >= -840 /\ back <= 840
  OBVIOUS
<1>2. /\ m \in Int /\ m >= -840 /\ m < 1440 + 840 /\ d \in {-1, 0, 1} /\ DaysMoved(t, back) = d
      /\ s = [minute |-> m % 60, hour |-> IF t.hour = -1 THEN -1 ELSE (m \div 60) % 24,
              day |-> ShiftDay(t.day, d), weekday |-> ShiftWeekday(t.weekday, d)]
  BY <1>1, ShiftFields
<1>3. IsTime(s)
  BY <1>1, ShiftTime
<1>4. MovesExactly(t, d)
  BY <1>2
<1>5. /\ s.minute = m % 60 /\ s.hour = (IF t.hour = -1 THEN -1 ELSE (m \div 60) % 24)
      /\ s.day = ShiftDay(t.day, d) /\ s.weekday = ShiftWeekday(t.weekday, d)
  BY <1>2
<1>6. m = FirstMinute(t) - off /\ FirstMinute(t) \in Int
  BY Fields
<1> HIDE DEF m, d, s, back
<1>7. ASSUME NEW y \in Int, 2 * 1440 <= y, y < 38 * 1440
      PROVE  y \in Runs(s) <=> y + off \in Runs(t)
  <2>1. CASE t.hour # Every
    <3>1. s.hour # Every /\ FirstMinute(s) = m - 1440 * d /\ FirstMinute(s) \in Int
          /\ 0 <= FirstMinute(s) /\ FirstMinute(s) <= 1439
      <4>1. s.hour = (m \div 60) % 24 /\ s.hour \in 0 .. 23 /\ s.minute = m % 60
        BY <1>2, <1>5, <2>1, Clock DEF Every
      <4>2. FirstMinute(s) = ((m \div 60) % 24) * 60 + (m % 60)
        BY <4>1 DEF FirstMinute, Every
      <4>3. FirstMinute(s) = m - 1440 * d
        BY <1>2, <4>2, Clock DEF d
      <4> QED
        BY <1>3, <4>1, <4>3, Fields DEF Every
    <3>2. /\ y \in Runs(s) <=> \E k \in 1 .. 38 : RunsOn(s, k) /\ y = k * 1440 + FirstMinute(s)
          /\ y + off \in Runs(t) <=> \E k \in 1 .. 38 : RunsOn(t, k) /\ y + off = k * 1440 + FirstMinute(t)
      BY <1>3, <2>1, <3>1, RunsMinutes
    <3>3. ASSUME NEW k \in 1 .. 38, RunsOn(s, k), y = k * 1440 + FirstMinute(s)
          PROVE  \E j \in 1 .. 38 : RunsOn(t, j) /\ y + off = j * 1440 + FirstMinute(t)
      <4>1. k \in Int /\ 2 <= k /\ k <= 37
        BY <1>7, <3>1, <3>3
      <4>2. k - d \in 1 .. 38 /\ RunsOn(t, k - d)
        BY <1>2, <1>3, <1>4, <1>5, <3>3, <4>1, RunsOnMoved
      <4>3. y + off = (k - d) * 1440 + FirstMinute(t)
        BY <1>2, <1>6, <3>1, <3>3, <4>1
      <4> QED
        BY <4>2, <4>3
    <3>4. ASSUME NEW j \in 1 .. 38, RunsOn(t, j), y + off = j * 1440 + FirstMinute(t)
          PROVE  \E k \in 1 .. 38 : RunsOn(s, k) /\ y = k * 1440 + FirstMinute(s)
      <4> DEFINE k == j + d
      <4>1. k \in Int /\ k - d = j /\ y = k * 1440 + FirstMinute(s)
        BY <1>2, <1>6, <3>1, <3>4
      <4> HIDE DEF k
      <4>2. 2 <= k /\ k <= 37
        BY <1>7, <3>1, <4>1
      <4>3. RunsOn(s, k)
        BY <1>2, <1>3, <1>4, <1>5, <3>4, <4>1, <4>2, RunsOnMoved
      <4>4. k \in 1 .. 38
        BY <4>1, <4>2
      <4> QED
        BY <4>1, <4>3, <4>4
    <3> QED
      BY <3>2, <3>3, <3>4
  <2>2. CASE t.hour = Every
    <3>1. s.hour = Every /\ FirstMinute(t) = t.minute /\ s.minute = m % 60
          /\ t.minute \in Int /\ 0 <= t.minute /\ t.minute <= 59
      BY <1>5, <2>2, Fields DEF Every, FirstMinute
    <3>2. ASSUME NEW r, IsTime(r), r.hour = Every, NEW z \in Int, 1440 <= z, z < 39 * 1440
          PROVE  z \in Runs(r) <=> z % 60 = r.minute
      <4>1. z \in Runs(r) <=> \E k \in 1 .. 38, h \in 0 .. 23 : z = k * 1440 + h * 60 + r.minute
        BY <3>2, RunsMinutes
      <4>2. r.minute \in Int /\ 0 <= r.minute /\ r.minute <= 59
        BY <3>2, Fields
      <4>3. ASSUME NEW k \in 1 .. 38, NEW h \in 0 .. 23, z = k * 1440 + h * 60 + r.minute
            PROVE  z % 60 = r.minute
        BY <4>2, <4>3
      <4>4. ASSUME z % 60 = r.minute
            PROVE  \E k \in 1 .. 38, h \in 0 .. 23 : z = k * 1440 + h * 60 + r.minute
        <5> DEFINE k == z \div 1440
                   h == (z \div 60) - 24 * (z \div 1440)
        <5>1. k \in 1 .. 38 /\ h \in 0 .. 23
          BY <3>2
        <5>2. z = k * 1440 + h * 60 + r.minute
          BY <3>2, <4>2, <4>4
        <5> QED
          BY <5>1, <5>2
      <4> QED
        BY <4>1, <4>3, <4>4
    <3>3. y \in Runs(s) <=> y % 60 = s.minute
      BY <1>3, <1>7, <3>1, <3>2
    <3>4. y + off \in Runs(t) <=> (y + off) % 60 = t.minute
      <4>1. y + off \in Int /\ 1440 <= y + off /\ y + off < 39 * 1440
        BY <1>7
      <4> QED
        BY <2>2, <3>2, <4>1
    <3>5. y % 60 = (t.minute - off) % 60 <=> (y + off) % 60 = t.minute
      BY <3>1, SameMinute
    <3> QED
      BY <1>6, <3>1, <3>3, <3>4, <3>5
  <2> QED
    BY <2>1, <2>2
<1>8. Runs(s) \subseteq Int /\ Runs(t) \subseteq Int
  BY <1>3, RunsAreMinutes
<1>9. ASSUME NEW y \in Inner(Runs(s))
      PROVE  y \in Inner({x - off : x \in Runs(t)})
  <2>1. y \in Int /\ 2 * 1440 <= y /\ y < 38 * 1440 /\ y \in Runs(s)
    BY <1>8 DEF Inner
  <2>2. y + off \in Runs(t) /\ y = (y + off) - off
    BY <1>7, <2>1
  <2> QED
    BY <2>1, <2>2 DEF Inner
<1>10. ASSUME NEW y \in Inner({x - off : x \in Runs(t)})
       PROVE  y \in Inner(Runs(s))
  <2>1. PICK x \in Runs(t) : y = x - off
    BY DEF Inner
  <2>2. y \in Int /\ 2 * 1440 <= y /\ y < 38 * 1440 /\ y + off = x
    BY <1>8, <2>1 DEF Inner
  <2>3. y \in Runs(s)
    BY <1>7, <2>1, <2>2
  <2> QED
    BY <2>2, <2>3 DEF Inner
<1> QED
  BY <1>9, <1>10 DEF s, back

(* A schedule that is created or edited runs at the instants that the user    *)
(* has chosen in the user's own zone.                                         *)
THEOREM EnteredSchedules == Spec => RunsAsEntered
<1>1. ASSUME IndInv, NEW u \in Users, Land(u), sent[u].entered # <<>>,
             NEW n, n = sent[u].entered[1], NEW t, t = Meant(sent[u].entered[2]),
             NEW off, off = sent[u].offset
      PROVE  \/ ~MovesExactly(t, DaysMoved(t, -off))
             \/ Inner(Runs(stored'[n])) = Inner({x - off : x \in Runs(t)})
  <2>1. stored' = sent[u].list /\ Update(engine, u, sent[u])
    BY <1>1, LandStores
  <2>2. /\ IsForm(sent[u].entered[2]) /\ off \in Offsets[u]
        /\ stored'[n] = Shift(CronOf(sent[u].entered[2]), -off)
    BY <1>1, <2>1 DEF Update
  <2>3. IsTime(t) /\ t.day # 0 /\ t = CronOf(sent[u].entered[2])
    BY <1>1, <2>2, FormTime, HalfDay DEF LastDay
  <2>4. off \in Int /\ off >= -840 /\ off <= 840
    BY <2>2, OffsetRange
  <2> QED
    BY <2>2, <2>3, <2>4, SameInstants
<1>2. IndInv => [\A u \in Users : sent[u] # Nothing /\ Land(u) /\ sent[u].entered # <<>> =>
         LET n == sent[u].entered[1]  t == Meant(sent[u].entered[2])  off == sent[u].offset IN
           \/ ~MovesExactly(t, DaysMoved(t, -off))
           \/ Inner(Runs(stored'[n])) = Inner({x - off : x \in Runs(t)})]_vars
  BY <1>1
<1> QED
  BY <1>2, Invariant, PTL DEF RunsAsEntered

---------------------------------------------------------------------------
(* Point-in-time recovery. *)

USE PitrAssumption

\* The interval within which the operators upload the logs, in ticks.
Interval == ValueOrDefault(UploadInterval, Default[Engine]) * Second

\* Logs are never older than the interval.
UploadsInTime == now <= uploaded + Interval

\* What is known of a status that a request may answer from: it is that of a
\* backup that has succeeded, and it reports uploaded logs only.
Grounded(st) ==
    /\ st \in Found
    /\ \E b \in Backups : bk[b].state = "succeeded" /\ bk[b].completed = st.completed
    /\ st.restorable <= uploaded

StatusGrounded ==
    \A b \in Backups :
        /\ bk[b].restorable <= uploaded
        /\ bk[b].state = "succeeded" => Grounded(bk[b])

ReadGrounded == read # NoBackup => Grounded(read)

\* The window of an answer starts at a backup, and the logs up to its end are
\* there, be this end a whole second or not.
WindowUploaded ==
    answer # NoWindow =>
        /\ \E b \in Backups : bk[b].state = "succeeded" /\ bk[b].completed = answer.earliest
        /\ answer.earliest <= answer.latest /\ answer.latest <= uploaded

\* The inductive invariant.
PitrInv ==
    /\ PitrTypeOK
    /\ UploadsInTime
    /\ StatusGrounded
    /\ ReadGrounded
    /\ WindowUploaded

---------------------------------------------------------------------------
\* Rounding.

(* A remainder is less than the divisor and not more than the number.       *)
LEMMA ModBound ==
    ASSUME NEW t \in Nat, NEW k \in Nat \ {0}
    PROVE  t % k \in 0..t /\ t % k < k
BY SMT

(* Truncating to whole seconds does not go forward.                         *)
LEMMA WholeSecondsBound ==
    ASSUME NEW t \in Nat
    PROVE  WholeSeconds(t) \in 0..t
BY ModBound DEF WholeSeconds

\* Truncating by the nanoseconds never goes forward.
LEMMA DeleteNanosecondsBound ==
    ASSUME NEW t \in Nat
    PROVE  DeleteNanoseconds(t) \in 0..t
<1>1. t % Second \in Nat
  BY ModBound
<1>2. CASE t % Second = 0
  BY <1>2 DEF DeleteNanoseconds, Truncate
<1>3. CASE t % Second # 0
  <2> DEFINE k == t % Second
  <2>1. k \in Nat \ {0}
    BY <1>1, <1>3
  <2>2. t % k \in 0..t
    BY <2>1, ModBound
  <2>3. DeleteNanoseconds(t) = t - (t % k)
    BY <1>3 DEF DeleteNanoseconds, Truncate
  <2> QED
    BY <2>2, <2>3
<1> QED
  BY <1>2, <1>3

(* The upload interval is a length of time.                                 *)
LEMMA IntervalType == Interval \in Nat /\ GetDefaultUploadInterval \in Nat
BY DEF Interval, GetDefaultUploadInterval, ValueOrDefault

\* The heuristic offers no date that is later than the upload interval allows.
LEMMA RestorableDateBound ==
    ASSUME NEW t \in Nat, NEW backupTime \in Nat
    PROVE  LET date == LatestRestorableDate(t, backupTime, GetDefaultUploadInterval)
           IN  date = Nil \/ (date \in Nat /\ backupTime <= date /\ date <= t - Interval)
<1> DEFINE interval == GetDefaultUploadInterval
           date == LatestRestorableDate(t, backupTime, interval)
<1>1. CASE interval = 0
  BY <1>1 DEF LatestRestorableDate
<1>2. CASE interval # 0
  <2>1. interval * Second = Interval
    BY <1>2 DEF GetDefaultUploadInterval, Interval
  <2>2. date = IF backupTime > DeleteNanoseconds(t) - Interval THEN Nil
               ELSE DeleteNanoseconds(t) - Interval
    BY <1>2, <2>1 DEF LatestRestorableDate
  <2> HIDE DEF date, interval
  <2> QED
    BY <2>2, DeleteNanosecondsBound, IntervalType DEF date, interval
<1> QED
  BY <1>1, <1>2

---------------------------------------------------------------------------

(* Without a backup there is nothing to ground.                             *)
LEMMA PitrInitInv == PitrInit => PitrInv
<1> SUFFICES ASSUME PitrInit PROVE PitrInv
  OBVIOUS
<1>1. PitrTypeOK
  BY DEF PitrInit, PitrTypeOK, Status, Time, NoBackup, NoWindow, Answered, Nil
<1>2. UploadsInTime
  BY IntervalType DEF PitrInit, UploadsInTime
<1> QED
  BY <1>1, <1>2 DEF PitrInit, PitrInv, StatusGrounded, ReadGrounded, WindowUploaded, NoBackup, Nil

\* A step that leaves the backups that have succeeded as they were, and the
\* logs in the storage.
LEMMA GroundedStays ==
    ASSUME PitrInv, uploaded' \in Int, uploaded <= uploaded',
           \A b \in Backups : bk[b].state = "succeeded" =>
               bk'[b].state = "succeeded" /\ bk'[b].completed = bk[b].completed,
           NEW st, Grounded(st)
    PROVE  Grounded(st)'
<1>1. st \in Found /\ st.restorable \in Int /\ uploaded \in Int
  BY DEF PitrInv, PitrTypeOK, Grounded, Found, Status, Time, Nil
<1> QED
  BY <1>1 DEF Grounded

(* A window that can be restored stays so while logs are added.             *)
LEMMA WindowStays ==
    ASSUME PitrInv, uploaded' \in Int, uploaded <= uploaded',
           \A b \in Backups : bk[b].state = "succeeded" =>
               bk'[b].state = "succeeded" /\ bk'[b].completed = bk[b].completed,
           answer' = answer
    PROVE  WindowUploaded'
<1>1. answer.latest \in Int /\ uploaded \in Int
  BY DEF PitrInv, PitrTypeOK, Answered, Nil
<1> QED
  BY <1>1 DEF PitrInv, WindowUploaded

(* Every step keeps the invariant.                                          *)
LEMMA PitrNextInv == PitrInv /\ [PitrNext]_pitrVars => PitrInv'
<1> SUFFICES ASSUME PitrInv, [PitrNext]_pitrVars PROVE PitrInv'
  OBVIOUS
<1>t. /\ PitrTypeOK /\ now \in Nat /\ uploaded \in 0..now /\ bk \in [Backups -> Status]
      /\ read \in Found \cup {NoBackup} /\ answer \in Answered
  BY DEF PitrInv, PitrTypeOK
<1>1. CASE ListBackups
  <2>1. read' = read \/ \E b \in Backups : bk[b].state = "succeeded" /\ read' = bk[b]
    BY <1>1 DEF ListBackups, LatestSuccessful
  <2>2. \A st : Grounded(st)' <=> Grounded(st)
    BY <1>1 DEF ListBackups, Grounded
  <2>3. read' # NoBackup => Grounded(read')
    BY <2>1 DEF PitrInv, StatusGrounded, ReadGrounded
  <2>4. answer' = answer \/ answer' = NoWindow
    BY <1>1 DEF ListBackups
  <2>5. PitrTypeOK'
    BY <1>1, <1>t, <2>1, <2>3, <2>4
       DEF ListBackups, PitrTypeOK, Grounded, Answered, NoWindow
  <2>6. WindowUploaded'
    BY <1>1, <2>4 DEF ListBackups, PitrInv, WindowUploaded
  <2> QED
    BY <1>1, <2>2, <2>3, <2>5, <2>6
       DEF ListBackups, PitrInv, UploadsInTime, StatusGrounded, ReadGrounded, Interval
<1>2. CASE Answer
  <2> DEFINE w == Response(read)
  <2>1. /\ Grounded(read) /\ read.completed \in Nat /\ read.restorable \in Time
        /\ answer' = w /\ read' = NoBackup
        /\ UNCHANGED <<now, uploaded, bk>>
    BY <1>2 DEF Answer, PitrInv, ReadGrounded, Grounded, Found, Status, Time
  <2>2. w = NoWindow
        \/ /\ w.earliest = read.completed /\ w.latest \in Nat
           /\ read.completed <= w.latest /\ w.latest <= uploaded
    <3>1. CASE read.restorable # Nil /\ Engine # "psmdb"
      <4>1. read.restorable \in Nat /\ read.restorable <= uploaded
        BY <3>1, <2>1 DEF Time, Grounded
      <4>2. CASE read.restorable > read.completed
        BY <3>1, <4>1, <4>2, <2>1 DEF Response, Nil
      <4>3. CASE ~(read.restorable > read.completed)
        BY <3>1, <4>3 DEF Response, NoWindow
      <4> QED
        BY <4>2, <4>3
    <3>2. CASE ~(read.restorable # Nil /\ Engine # "psmdb")
      <4> DEFINE date == LatestRestorableDate(now, read.completed, GetDefaultUploadInterval)
      <4>1. w = [earliest |-> IF date = Nil THEN Nil ELSE read.completed, latest |-> date]
        BY <3>2 DEF Response
      <4>2. date = Nil \/ (date \in Nat /\ read.completed <= date /\ date <= now - Interval)
        BY <1>t, <2>1, RestorableDateBound
      <4> HIDE DEF date, w
      <4>3. date # Nil => date <= uploaded
        BY <1>t, <4>2, IntervalType DEF PitrInv, UploadsInTime
      <4> QED
        BY <4>1, <4>2, <4>3 DEF NoWindow, Nil
    <3> QED
      BY <3>1, <3>2
  <2> HIDE DEF w
  <2>w. w \in [earliest : 0..now \cup {Nil}, latest : 0..now \cup {Nil}]
    <3>1. w = [earliest |-> w.earliest, latest |-> w.latest]
      BY DEF w, Response
    <3> QED
      BY <1>t, <2>1, <2>2, <3>1 DEF NoWindow
  <2>3. PitrTypeOK'
    BY <1>t, <2>1, <2>w DEF PitrTypeOK, Answered
  <2>4. WindowUploaded'
    BY <2>1, <2>2 DEF WindowUploaded, Grounded
  <2> QED
    BY <2>1, <2>3, <2>4
       DEF PitrInv, UploadsInTime, StatusGrounded, ReadGrounded, Grounded, Interval
<1>3. ASSUME NEW b \in Backups, StartBackup(b) \/ FinishBackup(b) \/ ReportRestorable(b)
      PROVE  PitrInv'
  <2>1. /\ UNCHANGED <<now, uploaded, read, answer>>
        /\ bk' \in [Backups -> Status]
        /\ \A c \in Backups : c # b => bk'[c] = bk[c]
        /\ bk[b].state = "succeeded" => bk'[b].state = "succeeded"
        /\ bk[b].state = "succeeded" => bk'[b].completed = bk[b].completed
        /\ bk'[b].restorable <= uploaded
        /\ bk'[b].state = "succeeded" => bk'[b].completed \in Nat
    <3>0. bk[b] \in Status /\ bk[b].restorable <= uploaded
          /\ (bk[b].state = "succeeded" => Grounded(bk[b]))
      BY <1>t DEF PitrInv, StatusGrounded
    <3>s. WholeSeconds(now) \in Nat /\ WholeSeconds(uploaded) \in Nat
          /\ WholeSeconds(uploaded) <= uploaded
      BY <1>t, WholeSecondsBound
    <3>1. CASE StartBackup(b)
      BY <1>t, <3>0, <3>s, <3>1 DEF StartBackup, Status, Time
    <3>2. CASE FinishBackup(b)
      <4>1. PICK s \in {"succeeded", "failed"} :
              bk' = [bk EXCEPT ![b] = [bk[b] EXCEPT !.state = s, !.completed = WholeSeconds(now)]]
        BY <1>t, <3>2 DEF FinishBackup
      <4>2. bk[b].state = "running" /\ UNCHANGED <<now, uploaded, read, answer>>
        BY <3>2 DEF FinishBackup
      <4> DEFINE st == [bk[b] EXCEPT !.state = s, !.completed = WholeSeconds(now)]
      <4>3. st \in Status /\ st.completed = WholeSeconds(now) /\ st.restorable = bk[b].restorable
        BY <3>0, <3>s DEF Status, Time
      <4> HIDE DEF st
      <4>4. bk' = [bk EXCEPT ![b] = st]
        BY <4>1 DEF st
      <4> QED
        BY <1>t, <3>0, <3>s, <4>2, <4>3, <4>4
    <3>3. CASE ReportRestorable(b)
      BY <1>t, <3>0, <3>s, <3>3 DEF ReportRestorable, Status, Time, Grounded, Found
    <3> QED
      BY <1>3, <3>1, <3>2, <3>3
  <2>2. \A c \in Backups : bk[c].state = "succeeded" =>
            bk'[c].state = "succeeded" /\ bk'[c].completed = bk[c].completed
    BY <2>1
  <2>3. StatusGrounded'
    <3> SUFFICES ASSUME NEW c \in Backups
                 PROVE  /\ bk'[c].restorable <= uploaded'
                        /\ bk'[c].state = "succeeded" => Grounded(bk[c])'
      BY DEF StatusGrounded
    <3>1. bk'[c].restorable <= uploaded'
      BY <2>1 DEF PitrInv, StatusGrounded
    <3>2. bk'[c].state = "succeeded" => bk'[c] \in Found
      BY <2>1, <1>t DEF Found, Nil, PitrInv, StatusGrounded, Grounded
    <3> QED
      BY <3>1, <3>2 DEF Grounded
  <2>4. ReadGrounded'
    BY <2>1, <2>2, <1>t, GroundedStays DEF PitrInv, ReadGrounded
  <2>5. WindowUploaded'
    BY <2>1, <2>2, <1>t, WindowStays
  <2>6. PitrTypeOK'
    BY <2>1, <1>t DEF PitrTypeOK, Answered
  <2> QED
    BY <2>1, <2>3, <2>4, <2>5, <2>6 DEF PitrInv, UploadsInTime, Interval
<1>4. CASE Upload \/ Tick \/ UNCHANGED pitrVars
  <2>1. /\ UNCHANGED <<bk, read, answer>>
        /\ now' \in Nat /\ now <= now'
        /\ uploaded' \in 0..now' /\ uploaded <= uploaded'
        /\ now' <= uploaded' + Interval
    <3>1. CASE Upload
      BY <3>1, <1>t, IntervalType DEF Upload
    <3>2. CASE Tick
      BY <3>2, <1>t, IntervalType DEF Tick, Interval
    <3>3. CASE UNCHANGED pitrVars
      BY <3>3, <1>t, IntervalType DEF pitrVars, PitrInv, UploadsInTime
    <3> QED
      BY <1>4, <3>1, <3>2, <3>3
  <2>2. \A st : Grounded(st) => Grounded(st)'
    BY <2>1, <1>t, GroundedStays
  <2>3. StatusGrounded' /\ ReadGrounded'
    <3>1. \A b \in Backups : bk'[b].restorable <= uploaded'
      <4>1. \A b \in Backups : bk[b].restorable \in Int /\ bk[b].restorable <= uploaded
        BY <1>t DEF PitrInv, StatusGrounded, Status, Time, Nil
      <4> QED
        BY <4>1, <2>1, <1>t
    <3> QED
      BY <3>1, <2>1, <2>2 DEF PitrInv, StatusGrounded, ReadGrounded
  <2>4. WindowUploaded'
    BY <2>1, <1>t, WindowStays
  <2>5. PitrTypeOK'
    BY <2>1, <1>t DEF PitrTypeOK, Answered
  <2> QED
    BY <2>1, <2>3, <2>4, <2>5 DEF PitrInv, UploadsInTime, Interval
<1> QED
  BY <1>1, <1>2, <1>3, <1>4 DEF PitrNext

---------------------------------------------------------------------------

\* The inductive invariant holds throughout.
THEOREM PitrInvariant == PitrSpec => []PitrInv
BY PitrInitInv, PitrNextInv, PTL DEF PitrSpec

\* The times of the backups and of the answers are well formed, and no answer
\* lies in the future.
THEOREM PitrTypeCorrect == PitrSpec => []PitrTypeOK
BY PitrInvariant, PTL DEF PitrInv

\* Every date of whole seconds in a window that GetDatabaseClusterPitr offers
\* can be restored, whatever the engine, the upload interval, the time between
\* the list and the answer, and the rounding of the window's end.
THEOREM WindowRestorableHolds == PitrSpec => []WindowRestorable
<1>1. PitrInv => WindowRestorable
  <2> SUFFICES ASSUME PitrInv, answer # NoWindow,
                      NEW date \in answer.earliest..answer.latest
               PROVE  date <= uploaded
    BY DEF PitrInv, WindowUploaded, WindowRestorable
  <2>1. answer.latest \in Int /\ uploaded \in Int /\ answer.latest <= uploaded
    BY DEF PitrInv, PitrTypeOK, Answered, Nil, WindowUploaded
  <2> QED
    BY <2>1
<1> QED
  BY <1>1, PitrInvariant, PTL
=============================================================================
