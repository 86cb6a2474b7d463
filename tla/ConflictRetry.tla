---------------------------- MODULE ConflictRetry ----------------------------
(***************************************************************************)
(* Editing one object from several browsers. Every page that changes a     *)
(* database cluster, a pod scheduling policy or a load balancer            *)
(* configuration sends the WHOLE object it holds, with the resource        *)
(* version it last saw. The server refuses a version that is not current   *)
(* (409); the page then waits 200 ms, reads the object again and sends its *)
(* own contents once more under the new version, for at most 5 s.          *)
(* useUpdateDbClusterWithConflictRetry does so whatever has changed;       *)
(* useUpdateEntityWithConflictRetry, for the two other kinds, only while   *)
(* the generation is the one the page was rendered with.                   *)
(*                                                                         *)
(* The contents are a function from settings to values. Time is counted in *)
(* ticks since the first refusal; 200 ms are less than a tick.             *)
(***************************************************************************)
EXTENDS Naturals, FiniteSets

CONSTANTS
    Kinds,         \* the kinds of objects that are edited
    Editors,       \* pages, each in a browser of its own with one update hook
    Settings,      \* parts of the contents that a page can change
    Values,        \* what a setting can be
    RetryTimeout,  \* UPDATE_RETRY_TIMEOUT_MS in ticks
    MaxVersion     \* bound: no new update or status change from this version on

ASSUME KindsAssumption == Kinds \subseteq {"cluster", "policy", "config"}
ASSUME ValuesAssumption == Values # {}
ASSUME RetryTimeoutAssumption == RetryTimeout \in Nat
ASSUME MaxVersionAssumption == MaxVersion \in Nat

VARIABLES
    kind,     \* the kind of object that is edited
    object,   \* the object the server stores
    copy,     \* copy[e]: the object as the page shows it (the query cache)
    op,       \* op[e]: the update of the page
    watch,    \* watch[e]: ticks since watchStartTime, or Unset (null)
    unsaved,  \* history: settings of the copy that were edited in place
    leftover  \* history: watchStartTime is the one of an update that failed

vars == <<kind, object, copy, op, watch, unsaved, leftover>>

Object == [spec : [Settings -> Values], restart : BOOLEAN, rv : Nat, gen : Nat]
NoAnswer == [none |-> TRUE]
Steps == {"sent", "accepted", "refused", "failed", "wait", "fresh"}
Unset == RetryTimeout + 2

\* spec, restart and rv are what is sent; orig is originalGeneration; answer
\* is the last object the server sent. The rest is history: the settings the
\* user changed, whether the update was sent before, whether the page was
\* rendered with another object since, and the ticks since its first refusal.
Update == [step : Steps, spec : [Settings -> Values], restart : BOOLEAN,
           rv : Nat, orig : Nat, answer : Object \cup {NoAnswer},
           edits : SUBSET Settings, retried : BOOLEAN, reread : BOOLEAN,
           spent : 0 .. Unset]

\* No update is under way.
NoUpdate == [step |-> "idle"]

TypeOK ==
    /\ kind \in Kinds
    /\ object \in Object
    /\ copy \in [Editors -> Object]
    /\ op \in [Editors -> Update \cup {NoUpdate}]
    /\ watch \in [Editors -> 0 .. Unset]
    /\ unsaved \in [Editors -> SUBSET Settings]
    /\ leftover \in [Editors -> BOOLEAN]

Init ==
    /\ kind \in Kinds
    /\ object = [spec |-> [s \in Settings |-> CHOOSE v \in Values : TRUE],
                 restart |-> FALSE, rv |-> 1, gen |-> 1]
    /\ copy = [e \in Editors |-> object]
    /\ op = [e \in Editors |-> NoUpdate]
    /\ watch = [e \in Editors |-> Unset]
    /\ unsaved = [e \in Editors |-> {}]
    /\ leftover = [e \in Editors |-> FALSE]

\* useUpdateEntityWithConflictRetry compares the generations, the hook of the
\* database clusters does not.
ChecksGeneration == kind # "cluster"

\* The pages of a pod scheduling policy change the cached policy itself.
EditsInPlace == kind = "policy"

-----------------------------------------------------------------------------
(* The page. *)

\* The mutation is started with these contents.
Mutate(e, spec, restart, edits) ==
    op' = [op EXCEPT ![e] =
             [step |-> "sent", spec |-> spec, restart |-> restart,
              rv |-> copy[e].rv, orig |-> 0, answer |-> NoAnswer,
              edits |-> edits, retried |-> FALSE,
              reread |-> FALSE, spent |-> Unset]]

\* A setting is changed and the form submitted. The new contents are what the
\* page shows with this one setting replaced.
Edit(e, s, v) ==
    /\ op[e].step = "idle" /\ object.rv < MaxVersion
    /\ v # copy[e].spec[s]
    /\ LET spec == [copy[e].spec EXCEPT ![s] = v] IN
         /\ Mutate(e, spec, copy[e].restart, unsaved[e] \cup {s})
         /\ IF EditsInPlace
            THEN /\ copy' = [copy EXCEPT ![e].spec = spec]
                 /\ unsaved' = [unsaved EXCEPT ![e] = @ \cup {s}]
            ELSE UNCHANGED <<copy, unsaved>>
    /\ UNCHANGED <<kind, object, watch, leftover>>

\* "Restart": the cluster is sent back with the restart annotation.
Restart(e) ==
    /\ kind = "cluster" /\ op[e].step = "idle" /\ object.rv < MaxVersion
    /\ Mutate(e, copy[e].spec, TRUE, {})
    /\ UNCHANGED <<kind, object, copy, watch, unsaved, leftover>>

\* A count that starts now unless it has started before.
FromNow(t) == IF t = Unset THEN 0 ELSE t

\* Mutant of OnConflict: the page never gives up.
RetryForEver(e) ==
    /\ op[e].step = "refused"
    /\ op' = [op EXCEPT ![e].step = "wait", ![e].orig = copy[e].gen]
    /\ UNCHANGED <<kind, object, copy, watch, unsaved, leftover>>

\* A refusal with 409. The waiting time is counted from the first one, unless
\* a start time is still set. After RetryTimeout the page gives up.
OnConflict(e) ==
    /\ op[e].step = "refused"
    /\ IF watch[e] # Unset /\ watch[e] > RetryTimeout
       THEN /\ op' = [op EXCEPT ![e] = NoUpdate]
            /\ watch' = [watch EXCEPT ![e] = Unset]
            /\ leftover' = [leftover EXCEPT ![e] = FALSE]
       ELSE /\ op' = [op EXCEPT ![e].step = "wait", ![e].orig = copy[e].gen,
                                ![e].spent = FromNow(@)]
            /\ watch' = [watch EXCEPT ![e] = FromNow(@)]
            /\ UNCHANGED leftover
    /\ UNCHANGED <<kind, object, copy, unsaved>>

\* The page shows what the server has sent.
Show(e, o) ==
    /\ copy' = [copy EXCEPT ![e] = o]
    /\ unsaved' = [unsaved EXCEPT ![e] = {}]

\* 200 ms later the object is read again. A read that fails hands over the
\* copy the page already had.
Refetch(e) ==
    /\ op[e].step = "wait"
    /\ \/ /\ op' = [op EXCEPT ![e].step = "fresh", ![e].answer = object]
          /\ Show(e, object)
       \/ /\ op' = [op EXCEPT ![e].step = "fresh", ![e].answer = copy[e]]
          /\ UNCHANGED <<copy, unsaved>>
    /\ UNCHANGED <<kind, object, watch, leftover>>

\* Mutant of Resend: the generations are not compared.
ResendAnyway(e) ==
    /\ op[e].step = "fresh"
    /\ op' = [op EXCEPT ![e].step = "sent", ![e].rv = op[e].answer.rv,
                        ![e].answer = NoAnswer, ![e].retried = TRUE]
    /\ UNCHANGED <<kind, object, copy, watch, unsaved, leftover>>

\* The same contents are sent under the version just read; the metadata, with
\* the annotations in it, are the ones just read.
Resend(e) ==
    /\ op[e].step = "fresh"
    /\ ChecksGeneration => op[e].answer.gen = op[e].orig
    /\ op' = [op EXCEPT ![e].step = "sent", ![e].rv = op[e].answer.rv,
                        ![e].restart = op[e].answer.restart,
                        ![e].answer = NoAnswer, ![e].retried = TRUE]
    /\ UNCHANGED <<kind, object, copy, watch, unsaved, leftover>>

\* Mutant of ChangedElsewhere: the start time is not reset.
ChangedKeepsWatch(e) ==
    /\ op[e].step = "fresh"
    /\ ChecksGeneration /\ op[e].answer.gen # op[e].orig
    /\ op' = [op EXCEPT ![e] = NoUpdate]
    /\ UNCHANGED <<kind, object, copy, watch, unsaved, leftover>>

\* "The object definition has been changed somewhere else."
ChangedElsewhere(e) ==
    /\ op[e].step = "fresh"
    /\ ChecksGeneration /\ op[e].answer.gen # op[e].orig
    /\ op' = [op EXCEPT ![e] = NoUpdate]
    /\ watch' = [watch EXCEPT ![e] = Unset]
    /\ leftover' = [leftover EXCEPT ![e] = FALSE]
    /\ UNCHANGED <<kind, object, copy, unsaved>>

\* Any other error is handed to the page; the start time stays as it is.
OnError(e) ==
    /\ op[e].step = "failed"
    /\ op' = [op EXCEPT ![e] = NoUpdate]
    /\ leftover' = [leftover EXCEPT ![e] = watch[e] # Unset]
    /\ UNCHANGED <<kind, object, copy, watch, unsaved>>

\* The answer replaces the copy and success is reported.
OnSuccess(e) ==
    /\ op[e].step = "accepted"
    /\ op' = [op EXCEPT ![e] = NoUpdate]
    /\ watch' = [watch EXCEPT ![e] = Unset]
    /\ leftover' = [leftover EXCEPT ![e] = FALSE]
    /\ Show(e, op[e].answer)
    /\ UNCHANGED <<kind, object>>

\* The object is read again beside the update: a database cluster is polled
\* every 5 s, the other kinds are read when the network comes back.
Poll(e) ==
    /\ copy[e] # object
    /\ Show(e, object)
    /\ op' = IF op[e].step = "idle" THEN op ELSE [op EXCEPT ![e].reread = TRUE]
    /\ UNCHANGED <<kind, object, watch, leftover>>

\* The page is opened anew, with a hook of its own.
Open(e) ==
    /\ op[e].step = "idle"
    /\ Show(e, object)
    /\ watch' = [watch EXCEPT ![e] = Unset]
    /\ leftover' = [leftover EXCEPT ![e] = FALSE]
    /\ UNCHANGED <<kind, object, op>>

-----------------------------------------------------------------------------
(* The server, the operator and the clock. *)

\* The object with the contents of an update; the generation counts changes of
\* the contents, and an update without a change leaves the version alone.
Written(u) ==
    [spec |-> u.spec, restart |-> u.restart,
     rv |-> IF u.spec = object.spec /\ u.restart = object.restart
            THEN object.rv ELSE object.rv + 1,
     gen |-> IF u.spec = object.spec THEN object.gen ELSE object.gen + 1]

\* A PUT: refused when the version is not current, else written. Its answer
\* may be lost, and it may fail for any other reason.
Put(e) ==
    /\ op[e].step = "sent"
    /\ \/ /\ op[e].rv # object.rv
          /\ op' = [op EXCEPT ![e].step = "refused"]
          /\ UNCHANGED object
       \/ /\ op[e].rv = object.rv
          /\ object' = Written(op[e])
          /\ op' = [op EXCEPT ![e].step = "accepted", ![e].answer = Written(op[e])]
       \/ /\ op[e].rv = object.rv
          /\ object' = Written(op[e])
          /\ op' = [op EXCEPT ![e].step = "failed"]
       \/ /\ op' = [op EXCEPT ![e].step = "failed"]
          /\ UNCHANGED object
    /\ UNCHANGED <<kind, copy, watch, unsaved, leftover>>

\* The operator writes the status of the object, or takes the restart
\* annotation away: a new version, the generation stays.
Operator ==
    /\ object.rv < MaxVersion
    /\ \E r \in {object.restart, FALSE} :
          object' = [object EXCEPT !.rv = @ + 1, !.restart = r]
    /\ UNCHANGED <<kind, copy, op, watch, unsaved, leftover>>

\* Another client of the API or of Kubernetes changes a setting.
Elsewhere ==
    /\ object.rv < MaxVersion
    /\ \E s \in Settings : \E v \in Values \ {object.spec[s]} :
          object' = [object EXCEPT !.spec[s] = v, !.rv = @ + 1, !.gen = @ + 1]
    /\ UNCHANGED <<kind, copy, op, watch, unsaved, leftover>>

\* A tick later; one tick more than RetryTimeout is as much as matters.
Later(t) == IF t > RetryTimeout THEN t ELSE t + 1

\* Time passes for every page that is counting.
Tick ==
    /\ \E e \in Editors : watch[e] # Later(watch[e])
    /\ watch' = [e \in Editors |-> Later(watch[e])]
    /\ op' = [e \in Editors |->
                IF op[e].step = "idle" THEN NoUpdate
                ELSE [op[e] EXCEPT !.spent = Later(@)]]
    /\ UNCHANGED <<kind, object, copy, unsaved, leftover>>

-----------------------------------------------------------------------------
Respond(e) == OnConflict(e) \/ Refetch(e) \/ Resend(e) \/ ChangedElsewhere(e)
              \/ OnError(e) \/ OnSuccess(e)

Next ==
    \/ \E e \in Editors :
          \/ \E s \in Settings, v \in Values : Edit(e, s, v)
          \/ Restart(e) \/ OnConflict(e) \/ Refetch(e) \/ Resend(e)
          \/ ChangedElsewhere(e) \/ OnError(e) \/ OnSuccess(e) \/ Poll(e)
          \/ Open(e) \/ Put(e)
    \/ Operator
    \/ Elsewhere
    \/ Tick

\* Timers and answers come in the end, the server answers, time passes.
Fairness ==
    /\ \A e \in Editors : WF_vars(Respond(e)) /\ WF_vars(Put(e))
    /\ WF_vars(Tick)

Spec == Init /\ [][Next]_vars
FairSpec == Spec /\ Fairness

-----------------------------------------------------------------------------
(* Properties. *)

\* A write that is accepted changes nothing but what its user changed on this
\* page: the settings another page has written in the meantime survive it. An
\* update that is sent again after a conflict is excepted when its hook compares
\* no generations, or compares with one rendered after the update was started:
\* then all that was once read is written back.
NoSilentOverwrite ==
    [][\A e \in Editors :
         /\ op[e].step = "sent" /\ op'[e].step = "accepted"
         /\ ~op[e].retried \/ (ChecksGeneration /\ ~op[e].reread)
         => \A s \in Settings \ op[e].edits : object'.spec[s] = object.spec[s]]_vars

\* A page gives up on a conflict only after it has tried for RetryTimeout,
\* unless the start time of an update that ended with another error was still
\* set.
GivesUpInTime ==
    [][\A e \in Editors :
         op[e].step = "refused" /\ op'[e].step = "idle"
         => op[e].spent = RetryTimeout + 1 \/ leftover[e]]_vars

\* Every update ends: the retries cannot go on for ever.
EveryUpdateEnds == \A e \in Editors : op[e].step # "idle" ~> op[e].step = "idle"

=============================================================================
