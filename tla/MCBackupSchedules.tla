-------------------------- MODULE MCBackupSchedules --------------------------
(* A page in London and one in Newfoundland. Forms:                           *)
(* monthly early on the 1st and late on the 27th, weekly late on Saturday,    *)
(* hourly. Of what is stored at first, one runs on the last day of the month. *)
EXTENDS BackupSchedules

Form(every, minute, hour, pm, weekday, day) ==
    [every |-> every, minute |-> minute, hour |-> hour, pm |-> pm,
     weekday |-> weekday, day |-> day]

MCForms ==
    {Form("month", 30, 12, FALSE, 1, 1), Form("month", 0, 11, TRUE, 1, 27),
     Form("week", 0, 11, TRUE, 6, 1),
     Form("hour", 5, 1, FALSE, 1, 1)}

MCOffsets == [u \in Users |-> IF u = "london" THEN {0, 60} ELSE {-210}]
MCFirstTimes ==
    {[n \in {"a"} |-> [minute |-> 30, hour |-> 0, day |-> 1, weekday |-> Every]],
     [n \in {"a"} |-> [minute |-> 30, hour |-> 23, day |-> LastDay, weekday |-> Every]],
     [n \in {"a"} |-> [minute |-> 0, hour |-> 23, day |-> Every, weekday |-> 6]]}
=============================================================================
