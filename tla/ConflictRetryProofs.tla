------------------------- MODULE ConflictRetryProofs -------------------------
(***************************************************************************)
(* Type correctness, NoSilentOverwrite and GivesUpInTime of ConflictRetry  *)
(* for every set of pages, settings and values and every timeout.          *)
(***************************************************************************)
EXTENDS ConflictRetry, TLAPS

(* An answer that is waited for has come in. *)
Answered == \A e \in Editors :
    op[e].step \in {"fresh", "accepted"} => op[e].answer \in Object

(* The state is well typed after every step: the pages only send contents   *)
(* and versions they were given.                                            *)
LEMMA TypeInit == Init => TypeOK /\ Answered
<1> SUFFICES ASSUME Init PROVE TypeOK /\ Answered
  OBVIOUS
<1>1. (CHOOSE v \in Values : TRUE) \in Values
  BY ValuesAssumption
<1>2. object \in Object
  BY <1>1 DEF Init, Object
<1>3. copy \in [Editors -> Object] /\ op \in [Editors -> Update \cup {NoUpdate}]
  BY <1>2 DEF Init
<1>4. watch \in [Editors -> 0 .. Unset]
  BY RetryTimeoutAssumption DEF Init, Unset
<1>5. unsaved \in [Editors -> SUBSET Settings] /\ leftover \in [Editors -> BOOLEAN]
  BY DEF Init
<1>6. Answered
  BY DEF Init, Answered, NoUpdate
<1> QED
  BY <1>2, <1>3, <1>4, <1>5, <1>6 DEF Init, TypeOK

(* An update under way is a record with all its fields.                     *)
LEMMA UpdateStep ==
  ASSUME TypeOK, NEW e \in Editors, op[e].step # "idle"
  PROVE  op[e] \in Update
BY DEF TypeOK, NoUpdate

(* What the server stores of an update is an object.                        *)
LEMMA WrittenType ==
  ASSUME TypeOK, NEW e \in Editors, op[e].step # "idle"
  PROVE  Written(op[e]) \in Object
<1>1. op[e] \in Update
  BY UpdateStep
<1> QED
  BY <1>1 DEF TypeOK, Update, Object, Written

(* A new update is well typed when what it sends is.                        *)
LEMMA MutateType ==
  ASSUME TypeOK, NEW e \in Editors, NEW spec \in [Settings -> Values],
         NEW restart \in BOOLEAN, NEW edits \in SUBSET Settings,
         Mutate(e, spec, restart, edits)
  PROVE  op' \in [Editors -> Update \cup {NoUpdate}]
<1>1. copy[e].rv \in Nat /\ Unset \in 0 .. Unset
  BY RetryTimeoutAssumption DEF TypeOK, Object, Unset
<1> QED
  BY <1>1 DEF TypeOK, Mutate, Update, Steps

(* Every step keeps the types: one step of the proof for each action.       *)
LEMMA TypeStep == TypeOK /\ Answered /\ [Next]_vars => TypeOK' /\ Answered'
<1> SUFFICES ASSUME TypeOK, Answered, [Next]_vars PROVE TypeOK' /\ Answered'
  OBVIOUS
<1> USE RetryTimeoutAssumption
<1>1. ASSUME NEW e \in Editors, NEW s \in Settings, NEW v \in Values, Edit(e, s, v)
      PROVE  TypeOK' /\ Answered'
  <2> DEFINE spec == [copy[e].spec EXCEPT ![s] = v]
  <2>1. spec \in [Settings -> Values] /\ copy[e].restart \in BOOLEAN
    BY DEF TypeOK, Object
  <2>2. unsaved[e] \cup {s} \in SUBSET Settings
    BY DEF TypeOK
  <2>3. Mutate(e, spec, copy[e].restart, unsaved[e] \cup {s})
    BY <1>1 DEF Edit
  <2> HIDE DEF spec
  <2>4. op' \in [Editors -> Update \cup {NoUpdate}]
    BY <2>1, <2>2, <2>3, MutateType
  <2>5. copy' \in [Editors -> Object]
    <3>1. CASE EditsInPlace
      <4>1. copy' = [copy EXCEPT ![e].spec = spec]
        BY <1>1, <3>1 DEF Edit, spec
      <4>2. [copy[e] EXCEPT !.spec = spec] \in Object
        BY <2>1 DEF TypeOK, Object
      <4> QED
        BY <4>1, <4>2 DEF TypeOK
    <3>2. CASE ~EditsInPlace
      BY <1>1, <3>2 DEF Edit, TypeOK
    <3> QED
      BY <3>1, <3>2
  <2>6. unsaved' \in [Editors -> SUBSET Settings]
    BY <1>1, <2>2 DEF Edit, TypeOK
  <2>7. Answered'
    BY <2>3 DEF Mutate, Answered, TypeOK
  <2> QED
    BY <1>1, <2>4, <2>5, <2>6, <2>7 DEF Edit, TypeOK
<1>2. ASSUME NEW e \in Editors, Restart(e) PROVE TypeOK' /\ Answered'
  <2>1. copy[e].spec \in [Settings -> Values] /\ {} \in SUBSET Settings
    BY DEF TypeOK, Object
  <2>2. op' \in [Editors -> Update \cup {NoUpdate}]
    BY <1>2, <2>1, MutateType DEF Restart
  <2>3. Answered'
    BY <1>2 DEF Restart, Mutate, Answered, TypeOK
  <2> QED
    BY <1>2, <2>2, <2>3 DEF Restart, TypeOK
<1>3. ASSUME NEW e \in Editors, OnConflict(e) PROVE TypeOK' /\ Answered'
  <2>1. op[e] \in Update /\ copy[e].gen \in Nat
    BY <1>3, UpdateStep DEF OnConflict, TypeOK, Object
  <2>2. FromNow(watch[e]) \in 0 .. Unset /\ FromNow(op[e].spent) \in 0 .. Unset
    BY <2>1 DEF FromNow, TypeOK, Update, Unset
  <2>3. op' \in [Editors -> Update \cup {NoUpdate}]
    BY <1>3, <2>1, <2>2 DEF OnConflict, TypeOK, Update, Steps
  <2>4. watch' \in [Editors -> 0 .. Unset] /\ leftover' \in [Editors -> BOOLEAN]
    <3>1. CASE watch[e] # Unset /\ watch[e] > RetryTimeout
      <4>1. Unset \in 0 .. Unset
        BY DEF Unset
      <4>2. /\ watch' = [watch EXCEPT ![e] = Unset]
            /\ leftover' = [leftover EXCEPT ![e] = FALSE]
        BY <1>3, <3>1 DEF OnConflict
      <4> QED
        BY <4>1, <4>2 DEF TypeOK
    <3>2. CASE ~(watch[e] # Unset /\ watch[e] > RetryTimeout)
      <4>1. /\ watch' = [watch EXCEPT ![e] = FromNow(watch[e])]
            /\ leftover' = leftover
        BY <1>3, <3>2 DEF OnConflict, TypeOK
      <4> QED
        BY <2>2, <4>1 DEF TypeOK
    <3> QED
      BY <3>1, <3>2
  <2>5. Answered'
    <3>1. op'[e].step \notin {"fresh", "accepted"}
      BY <1>3, <2>1 DEF OnConflict, TypeOK, NoUpdate, Update
    <3>2. \A f \in Editors \ {e} : op'[f] = op[f]
      BY <1>3 DEF OnConflict, TypeOK
    <3> QED
      BY <3>1, <3>2 DEF Answered
  <2> QED
    BY <1>3, <2>3, <2>4, <2>5 DEF OnConflict, TypeOK
<1>4. ASSUME NEW e \in Editors, Refetch(e) PROVE TypeOK' /\ Answered'
  <2>1. op[e] \in Update /\ copy[e] \in Object /\ object \in Object
    BY <1>4, UpdateStep DEF Refetch, TypeOK
  <2>2. op' \in [Editors -> Update \cup {NoUpdate}]
    BY <1>4, <2>1 DEF Refetch, TypeOK, Update, Steps
  <2>3. Answered'
    <3>1. op'[e].answer \in Object
      BY <1>4, <2>1 DEF Refetch, TypeOK, Update
    <3>2. \A f \in Editors \ {e} : op'[f] = op[f]
      BY <1>4 DEF Refetch, TypeOK
    <3> QED
      BY <3>1, <3>2 DEF Answered
  <2>4. copy' \in [Editors -> Object] /\ unsaved' \in [Editors -> SUBSET Settings]
    BY <1>4, <2>1 DEF Refetch, Show, TypeOK
  <2> QED
    BY <1>4, <2>2, <2>3, <2>4 DEF Refetch, TypeOK
<1>5. ASSUME NEW e \in Editors, Resend(e) PROVE TypeOK' /\ Answered'
  <2>1. op[e] \in Update /\ op[e].answer \in Object
    BY <1>5, UpdateStep DEF Resend, Answered
  <2>2. op[e].answer.rv \in Nat /\ op[e].answer.restart \in BOOLEAN
    BY <2>1 DEF Object
  <2>3. op' \in [Editors -> Update \cup {NoUpdate}]
    BY <1>5, <2>1, <2>2 DEF Resend, TypeOK, Update, Steps
  <2>4. Answered'
    BY <1>5 DEF Resend, Answered, TypeOK
  <2> QED
    BY <1>5, <2>3, <2>4 DEF Resend, TypeOK
<1>6. ASSUME NEW e \in Editors, ChangedElsewhere(e) \/ OnError(e)
      PROVE  TypeOK' /\ Answered'
  <2>1. op' \in [Editors -> Update \cup {NoUpdate}] /\ Answered'
    BY <1>6 DEF ChangedElsewhere, OnError, TypeOK, Answered, NoUpdate
  <2>2. watch' \in [Editors -> 0 .. Unset] /\ leftover' \in [Editors -> BOOLEAN]
    <3>1. Unset \in 0 .. Unset
      BY DEF Unset
    <3>2. CASE ChangedElsewhere(e)
      BY <3>1, <3>2 DEF ChangedElsewhere, TypeOK
    <3>3. CASE OnError(e)
      <4>1. (watch[e] # Unset) \in BOOLEAN
        OBVIOUS
      <4> HIDE DEF Unset
      <4> QED
        BY <3>3, <4>1 DEF OnError, TypeOK
    <3> QED
      BY <1>6, <3>2, <3>3
  <2> QED
    BY <1>6, <2>1, <2>2 DEF ChangedElsewhere, OnError, TypeOK
<1>7. ASSUME NEW e \in Editors, OnSuccess(e) PROVE TypeOK' /\ Answered'
  <2>1. op[e].answer \in Object
    BY <1>7 DEF OnSuccess, Answered
  <2>2. op' \in [Editors -> Update \cup {NoUpdate}] /\ Answered'
    BY <1>7 DEF OnSuccess, TypeOK, Answered, NoUpdate
  <2>3. watch' \in [Editors -> 0 .. Unset] /\ leftover' \in [Editors -> BOOLEAN]
    BY <1>7 DEF OnSuccess, TypeOK, Unset
  <2>4. copy' \in [Editors -> Object] /\ unsaved' \in [Editors -> SUBSET Settings]
    BY <1>7, <2>1 DEF OnSuccess, Show, TypeOK
  <2> QED
    BY <1>7, <2>2, <2>3, <2>4 DEF OnSuccess, TypeOK
<1>8. ASSUME NEW e \in Editors, Poll(e) PROVE TypeOK' /\ Answered'
  <2>1. op' \in [Editors -> Update \cup {NoUpdate}] /\ Answered'
    <3>1. CASE op[e].step = "idle"
      BY <1>8, <3>1 DEF Poll, TypeOK, Answered
    <3>2. CASE op[e].step # "idle"
      <4>1. op[e] \in Update
        BY <3>2, UpdateStep
      <4> QED
        BY <1>8, <3>2, <4>1 DEF Poll, TypeOK, Answered, Update
    <3> QED
      BY <3>1, <3>2
  <2>2. copy' \in [Editors -> Object] /\ unsaved' \in [Editors -> SUBSET Settings]
    BY <1>8 DEF Poll, Show, TypeOK
  <2> QED
    BY <1>8, <2>1, <2>2 DEF Poll, TypeOK
<1>9. ASSUME NEW e \in Editors, Open(e) PROVE TypeOK' /\ Answered'
  <2>1. copy' \in [Editors -> Object] /\ unsaved' \in [Editors -> SUBSET Settings]
    BY <1>9 DEF Open, Show, TypeOK
  <2>2. watch' \in [Editors -> 0 .. Unset] /\ leftover' \in [Editors -> BOOLEAN]
    BY <1>9 DEF Open, TypeOK, Unset
  <2> QED
    BY <1>9, <2>1, <2>2 DEF Open, TypeOK, Answered
<1>10. ASSUME NEW e \in Editors, Put(e) PROVE TypeOK' /\ Answered'
  <2>1. op[e] \in Update /\ Written(op[e]) \in Object
    BY <1>10, UpdateStep, WrittenType DEF Put
  <2>2. op' \in [Editors -> Update \cup {NoUpdate}]
    BY <1>10, <2>1 DEF Put, TypeOK, Update, Steps
  <2>3. Answered'
    BY <1>10, <2>1 DEF Put, Answered, TypeOK, Update
  <2>4. object' \in Object
    BY <1>10, <2>1 DEF Put, TypeOK
  <2> QED
    BY <1>10, <2>2, <2>3, <2>4 DEF Put, TypeOK
<1>11. CASE Operator
  <2>1. object' \in Object
    <3>1. PICK b \in {object.restart, FALSE} :
             object' = [object EXCEPT !.rv = @ + 1, !.restart = b]
      BY <1>11 DEF Operator
    <3>2. object \in Object /\ b \in BOOLEAN
      BY DEF TypeOK, Object
    <3>3. object.rv + 1 \in Nat
      BY <3>2 DEF Object
    <3> QED
      BY <3>1, <3>2, <3>3 DEF Object
  <2> QED
    BY <1>11, <2>1 DEF Operator, TypeOK, Answered
<1>12. CASE Elsewhere
  <2>1. object' \in Object
    <3>1. PICK s \in Settings, v \in Values :
             object' = [object EXCEPT !.spec[s] = v, !.rv = @ + 1, !.gen = @ + 1]
      BY <1>12 DEF Elsewhere
    <3>2. object \in Object
      BY DEF TypeOK
    <3>3. object.rv + 1 \in Nat /\ object.gen + 1 \in Nat
      BY <3>2 DEF Object
    <3>4. [object.spec EXCEPT ![s] = v] \in [Settings -> Values]
      BY <3>2 DEF Object
    <3> QED
      BY <3>1, <3>2, <3>3, <3>4 DEF Object
  <2> QED
    BY <1>12, <2>1 DEF Elsewhere, TypeOK, Answered
<1>13. CASE Tick
  <2>1. \A t \in 0 .. Unset : Later(t) \in 0 .. Unset
    BY DEF Later, Unset
  <2>2. \A e \in Editors : op[e].step # "idle" =>
           [op[e] EXCEPT !.spent = Later(@)] \in Update
    BY <2>1, UpdateStep DEF Update
  <2>3. op' \in [Editors -> Update \cup {NoUpdate}]
    BY <1>13, <2>2 DEF Tick
  <2>4. Answered'
    <3> SUFFICES ASSUME NEW e \in Editors, op'[e].step \in {"fresh", "accepted"}
                 PROVE  op'[e].answer \in Object
      BY DEF Answered
    <3>1. op[e].step # "idle"
      BY <1>13 DEF Tick, NoUpdate
    <3>2. op'[e].step = op[e].step /\ op'[e].answer = op[e].answer
      BY <1>13, <3>1, UpdateStep DEF Tick, Update
    <3> QED
      BY <3>2 DEF Answered
  <2>5. watch' \in [Editors -> 0 .. Unset]
    BY <1>13, <2>1 DEF Tick, TypeOK
  <2> QED
    BY <1>13, <2>3, <2>4, <2>5 DEF Tick, TypeOK
<1>14. CASE UNCHANGED vars
  BY <1>14 DEF vars, TypeOK, Answered
<1> QED
  BY <1>1, <1>2, <1>3, <1>4, <1>5, <1>6, <1>7, <1>8, <1>9, <1>10, <1>11,
     <1>12, <1>13, <1>14 DEF Next

(* The object, the copies of the pages and their updates keep their         *)
(* types, and counted time is bounded, for any number of pages, settings    *)
(* and values and any timeout.                                              *)
THEOREM TypeCorrect == Spec => []TypeOK
<1>1. TypeOK /\ Answered /\ [Next]_vars => TypeOK' /\ Answered'
  BY TypeStep
<1>2. Init => TypeOK /\ Answered
  BY TypeInit
<1> QED
  BY <1>1, <1>2, PTL DEF Spec

-----------------------------------------------------------------------------
(* The contents agree with those of the object outside these settings. *)
Agrees(spec, except) == \A s \in Settings \ except : spec[s] = object.spec[s]

(* It is not newer than the object, and of its version only if it is of its *)
(* generation.                                                              *)
Behind(o) ==
    /\ o.rv <= object.rv /\ o.gen <= object.gen
    /\ o.rv = object.rv => o.gen = object.gen

(* What a page was told of the object is what the object was.               *)
Knows(e) ==
    /\ Behind(copy[e])
    /\ copy[e].gen = object.gen => Agrees(copy[e].spec, unsaved[e])
    /\ ~EditsInPlace => unsaved[e] = {}
    /\ op[e].step \in {"fresh", "accepted"} => Behind(op[e].answer)
    /\ op[e].step = "accepted" /\ op[e].answer.gen = object.gen
         => Agrees(op[e].answer.spec, {})

(* The generations that are compared are those of what the user has edited. *)
Compares(e) == ChecksGeneration /\ ~op[e].reread

(* An update that can still be accepted differs from the object that it     *)
(* would replace in what its user has edited only.                          *)
Based(e) ==
    /\ op[e].step = "sent" /\ (~op[e].retried \/ Compares(e))
         => /\ op[e].rv <= object.rv
            /\ op[e].rv = object.rv => Agrees(op[e].spec, op[e].edits)
    /\ op[e].step \in {"sent", "refused", "wait"} /\ Compares(e)
         => (copy[e].gen = object.gen => Agrees(op[e].spec, op[e].edits))
    /\ op[e].step = "wait" /\ Compares(e) => op[e].orig = copy[e].gen
    /\ op[e].step = "fresh" /\ Compares(e)
         => /\ op[e].answer.gen = copy[e].gen
            /\ op[e].orig <= object.gen
            /\ op[e].orig = object.gen => Agrees(op[e].spec, op[e].edits)

(* A page counts the time for which its update has been refused.            *)
CountsOwn(e) ==
    leftover[e] \/ watch[e] = IF op[e].step = "idle" THEN Unset ELSE op[e].spent

(* New contents come with a new generation, and both with a new version.    *)
Advances ==
    /\ object'.rv >= object.rv /\ object'.gen >= object.gen
    /\ object'.rv = object.rv => object'.gen = object.gen
    /\ object'.gen = object.gen => object'.spec = object.spec

(* What others do to the object does not disturb a page that does nothing.  *)
LEMMA Frame ==
  ASSUME TypeOK, Answered, TypeOK', Advances, NEW f \in Editors, Knows(f), Based(f),
         copy'[f] = copy[f], unsaved'[f] = unsaved[f], op'[f] = op[f], kind' = kind
  PROVE  Knows(f)' /\ Based(f)'
<1>1. object \in Object /\ object' \in Object /\ copy[f] \in Object
  BY DEF TypeOK
<1>2. /\ object.rv \in Nat /\ object.gen \in Nat /\ object'.rv \in Nat
      /\ object'.gen \in Nat /\ copy[f].rv \in Nat /\ copy[f].gen \in Nat
  BY <1>1 DEF Object
<1>3. CASE op[f].step = "idle"
  BY <1>2, <1>3 DEF Knows, Based, Behind, Agrees, Advances, EditsInPlace, Compares
<1>4. CASE op[f].step # "idle"
  <2>1. op[f] \in Update
    BY <1>4, UpdateStep
  <2>2. op[f].rv \in Nat /\ op[f].orig \in Nat
    BY <2>1 DEF Update
  <2>3. op[f].step \in {"fresh", "accepted"} =>
          op[f].answer.rv \in Nat /\ op[f].answer.gen \in Nat
    BY DEF Answered, Object
  <2>4. Knows(f)'
    BY <1>2, <2>3 DEF Knows, Behind, Agrees, Advances, EditsInPlace
  <2>5. Based(f)'
    BY <1>2, <2>2, <2>3 DEF Based, Knows, Behind, Agrees, Advances, Compares,
                            ChecksGeneration
  <2> QED
    BY <2>4, <2>5
<1> QED
  BY <1>3, <1>4

Sound == \A e \in Editors : Knows(e) /\ Based(e)

(* Versions and generations are natural numbers, contents functions from    *)
(* settings to values.                                                      *)
LEMMA Numbers ==
  ASSUME TypeOK, NEW e \in Editors
  PROVE  /\ object.rv \in Nat /\ object.gen \in Nat
         /\ copy[e].rv \in Nat /\ copy[e].gen \in Nat
         /\ object.spec \in [Settings -> Values] /\ copy[e].spec \in [Settings -> Values]
<1>1. object \in Object /\ copy[e] \in Object
  BY DEF TypeOK
<1> QED
  BY <1>1 DEF Object

(* A step that leaves the object alone does not turn its versions back.     *)
LEMMA Stays == ASSUME TypeOK, object' = object PROVE Advances
<1>1. object \in Object
  BY DEF TypeOK
<1>2. object.rv \in Nat /\ object.gen \in Nat
  BY <1>1 DEF Object
<1> QED
  BY <1>2 DEF Advances

(* The steps of page e leave the other pages alone. *)
LEMMA Others ==
  ASSUME TypeOK, Answered, TypeOK', Sound, Advances, kind' = kind,
         NEW e \in Editors,
         \A f \in Editors \ {e} :
            copy'[f] = copy[f] /\ unsaved'[f] = unsaved[f] /\ op'[f] = op[f],
         Knows(e)' /\ Based(e)'
  PROVE  Sound'
<1> SUFFICES ASSUME NEW f \in Editors PROVE Knows(f)' /\ Based(f)'
  BY DEF Sound
<1>1. CASE f = e
  BY <1>1
<1>2. CASE f # e
  BY <1>2, Frame DEF Sound
<1> QED
  BY <1>1, <1>2

(* A form is submitted: the new update differs from the copy in the         *)
(* edited setting.                                                          *)
LEMMA EditSound ==
  ASSUME TypeOK, Answered, TypeOK', Sound, NEW e \in Editors,
         NEW s \in Settings, NEW v \in Values, Edit(e, s, v)
  PROVE  Sound'
<1> DEFINE spec == [copy[e].spec EXCEPT ![s] = v]
<1>1. Mutate(e, spec, copy[e].restart, unsaved[e] \cup {s})
  BY DEF Edit
<1>2. /\ op'[e].step = "sent" /\ op'[e].spec = spec /\ op'[e].rv = copy[e].rv
      /\ op'[e].edits = unsaved[e] \cup {s}
  BY <1>1 DEF Mutate, TypeOK
<1>3. \A x \in Settings \ {s} : spec[x] = copy[e].spec[x]
  BY Numbers
<1>4. object' = object /\ kind' = kind
  BY DEF Edit
<1>5. /\ copy'[e].rv = copy[e].rv /\ copy'[e].gen = copy[e].gen
      /\ EditsInPlace => copy'[e].spec = spec /\ unsaved'[e] = unsaved[e] \cup {s}
      /\ ~EditsInPlace => copy'[e].spec = copy[e].spec /\ unsaved'[e] = unsaved[e]
  <2>1. copy[e] \in Object
    BY DEF TypeOK
  <2>2. CASE EditsInPlace
    <3>1. /\ copy' = [copy EXCEPT ![e].spec = spec]
          /\ unsaved' = [unsaved EXCEPT ![e] = @ \cup {s}]
      BY <2>2 DEF Edit
    <3> HIDE DEF spec
    <3> QED
      BY <2>1, <2>2, <3>1 DEF TypeOK, Object
  <2>3. CASE ~EditsInPlace
    BY <2>3 DEF Edit
  <2> QED
    BY <2>2, <2>3
<1> HIDE DEF spec
<1>6. Knows(e) /\ Based(e)
  BY DEF Sound
<1>7. copy[e].gen = object.gen => Agrees(spec, unsaved[e] \cup {s})
  BY <1>3, <1>6 DEF Knows, Agrees
<1>8. Knows(e)'
  BY <1>2, <1>4, <1>5, <1>6, <1>7, Numbers DEF Knows, Behind, Agrees, EditsInPlace
<1>9. Based(e)'
  BY <1>2, <1>4, <1>5, <1>6, <1>7 DEF Based, Knows, Behind, Agrees, Compares
<1>10. \A f \in Editors \ {e} :
          copy'[f] = copy[f] /\ unsaved'[f] = unsaved[f] /\ op'[f] = op[f]
  BY <1>1 DEF Edit, Mutate, TypeOK
<1> QED
  BY <1>4, <1>8, <1>9, <1>10, Stays, Others

(* A restart: the update has the contents of the copy.                      *)
LEMMA RestartSound ==
  ASSUME TypeOK, Answered, TypeOK', Sound, NEW e \in Editors, Restart(e)
  PROVE  Sound'
<1>1. /\ op'[e].step = "sent" /\ op'[e].spec = copy[e].spec
      /\ op'[e].rv = copy[e].rv /\ op'[e].edits = {}
  BY DEF Restart, Mutate, TypeOK
<1>2. /\ object' = object /\ copy' = copy /\ unsaved' = unsaved /\ kind' = kind
      /\ ~EditsInPlace
  BY DEF Restart, EditsInPlace
<1>3. Knows(e)
  BY DEF Sound
<1>4. Knows(e)'
  BY <1>1, <1>2, <1>3 DEF Knows, Behind, Agrees, EditsInPlace
<1>5. Based(e)'
  BY <1>1, <1>2, <1>3 DEF Based, Knows, Behind, Agrees, Compares
<1>6. \A f \in Editors \ {e} : op'[f] = op[f]
  BY DEF Restart, Mutate, TypeOK
<1> QED
  BY <1>2, <1>4, <1>5, <1>6, Stays, Others

(* A refusal: the generation that is kept is the one of the copy.           *)
LEMMA ConflictSound ==
  ASSUME TypeOK, Answered, TypeOK', Sound, NEW e \in Editors, OnConflict(e)
  PROVE  Sound'
<1>1. op[e].step = "refused" /\ op[e] \in Update
  BY UpdateStep DEF OnConflict
<1>2. \/ op'[e] = NoUpdate
      \/ /\ op'[e].step = "wait" /\ op'[e].orig = copy[e].gen
         /\ op'[e].spec = op[e].spec /\ op'[e].edits = op[e].edits
         /\ op'[e].reread = op[e].reread
  BY <1>1 DEF OnConflict, TypeOK, Update
<1>3. object' = object /\ copy' = copy /\ unsaved' = unsaved /\ kind' = kind
  BY DEF OnConflict
<1>4. Knows(e) /\ Based(e)
  BY DEF Sound
<1>5. Knows(e)'
  BY <1>2, <1>3, <1>4 DEF Knows, Behind, Agrees, EditsInPlace, NoUpdate
<1>6. Based(e)'
  BY <1>1, <1>2, <1>3, <1>4 DEF Based, Agrees, Compares, ChecksGeneration, NoUpdate
<1>7. \A f \in Editors \ {e} : op'[f] = op[f]
  BY DEF OnConflict, TypeOK
<1> QED
  BY <1>3, <1>5, <1>6, <1>7, Stays, Others

(* The object is read again: the answer is the object, or the copy as it    *)
(* was.                                                                     *)
LEMMA RefetchSound ==
  ASSUME TypeOK, Answered, TypeOK', Sound, NEW e \in Editors, Refetch(e)
  PROVE  Sound'
<1>1. op[e].step = "wait" /\ op[e] \in Update
  BY UpdateStep DEF Refetch
<1>2. PICK o \in {object, copy[e]} : op' = [op EXCEPT ![e].step = "fresh", ![e].answer = o]
  BY DEF Refetch
<1>3. /\ op'[e].step = "fresh" /\ op'[e].answer = o /\ op'[e].orig = op[e].orig
      /\ op'[e].spec = op[e].spec /\ op'[e].edits = op[e].edits
      /\ op'[e].reread = op[e].reread
  BY <1>1, <1>2 DEF TypeOK, Update
<1>4. object' = object /\ kind' = kind
  BY DEF Refetch
<1>5. \/ o = object /\ copy'[e] = object /\ unsaved'[e] = {}
      \/ o = copy[e] /\ copy' = copy /\ unsaved' = unsaved
  <2>1. CASE copy' = [copy EXCEPT ![e] = object] /\ unsaved' = [unsaved EXCEPT ![e] = {}]
             /\ op' = [op EXCEPT ![e].step = "fresh", ![e].answer = object]
    <3>1. op'[e].answer = object
      BY <1>1, <2>1 DEF TypeOK, Update
    <3> QED
      BY <1>3, <2>1, <3>1 DEF TypeOK
  <2>2. CASE UNCHANGED <<copy, unsaved>>
             /\ op' = [op EXCEPT ![e].step = "fresh", ![e].answer = copy[e]]
    <3>1. op'[e].answer = copy[e]
      BY <1>1, <2>2 DEF TypeOK, Update
    <3> QED
      BY <1>3, <2>2, <3>1
  <2> QED
    BY <2>1, <2>2 DEF Refetch, Show
<1>6. Knows(e) /\ Based(e)
  BY DEF Sound
<1>7. Knows(e)'
  BY <1>3, <1>4, <1>5, <1>6, Numbers DEF Knows, Behind, Agrees, EditsInPlace
<1>8. Based(e)'
  BY <1>1, <1>3, <1>4, <1>5, <1>6, Numbers
     DEF Based, Knows, Behind, Agrees, Compares, ChecksGeneration
<1>9. \A f \in Editors \ {e} :
         copy'[f] = copy[f] /\ unsaved'[f] = unsaved[f] /\ op'[f] = op[f]
  BY DEF Refetch, Show, TypeOK
<1> QED
  BY <1>4, <1>7, <1>8, <1>9, Stays, Others

(* The update is sent again: with an equal generation the contents under    *)
(* the new version are those that it was based on.                          *)
LEMMA ResendSound ==
  ASSUME TypeOK, Answered, TypeOK', Sound, NEW e \in Editors, Resend(e)
  PROVE  Sound'
<1>1. op[e].step = "fresh" /\ op[e] \in Update
  BY UpdateStep DEF Resend
<1>2. /\ op'[e].step = "sent" /\ op'[e].rv = op[e].answer.rv /\ op'[e].retried
      /\ op'[e].spec = op[e].spec /\ op'[e].edits = op[e].edits
      /\ op'[e].reread = op[e].reread
  BY <1>1 DEF Resend, TypeOK, Update
<1>3. /\ object' = object /\ copy' = copy /\ unsaved' = unsaved /\ kind' = kind
      /\ ChecksGeneration => op[e].answer.gen = op[e].orig
  BY DEF Resend
<1>4. Knows(e) /\ Based(e)
  BY DEF Sound
<1>5. Knows(e)'
  BY <1>2, <1>3, <1>4 DEF Knows, Behind, Agrees, EditsInPlace
<1>6. Based(e)'
  BY <1>1, <1>2, <1>3, <1>4
     DEF Based, Knows, Behind, Agrees, Compares, ChecksGeneration
<1>7. \A f \in Editors \ {e} : op'[f] = op[f]
  BY DEF Resend, TypeOK
<1> QED
  BY <1>3, <1>5, <1>6, <1>7, Stays, Others

(* The steps that end an update and leave the copy alone. *)
LEMMA EndSound ==
  ASSUME TypeOK, Answered, TypeOK', Sound, NEW e \in Editors,
         ChangedElsewhere(e) \/ OnError(e)
  PROVE  Sound'
<1>1. /\ op' = [op EXCEPT ![e] = NoUpdate]
      /\ object' = object /\ copy' = copy /\ unsaved' = unsaved /\ kind' = kind
  BY DEF ChangedElsewhere, OnError
<1>2. op'[e] = NoUpdate /\ Knows(e)
  BY <1>1 DEF TypeOK, Sound
<1>3. Knows(e)' /\ Based(e)'
  BY <1>1, <1>2 DEF Knows, Based, Behind, Agrees, EditsInPlace, NoUpdate
<1>4. \A f \in Editors \ {e} : op'[f] = op[f]
  BY <1>1 DEF TypeOK
<1> QED
  BY <1>1, <1>3, <1>4, Stays, Others

(* The answer to an update that was accepted becomes the copy.              *)
LEMMA SuccessSound ==
  ASSUME TypeOK, Answered, TypeOK', Sound, NEW e \in Editors, OnSuccess(e)
  PROVE  Sound'
<1>1. /\ op' = [op EXCEPT ![e] = NoUpdate] /\ op[e].step = "accepted"
      /\ copy' = [copy EXCEPT ![e] = op[e].answer]
      /\ unsaved' = [unsaved EXCEPT ![e] = {}]
      /\ object' = object /\ kind' = kind
  BY DEF OnSuccess, Show
<1>2. /\ op'[e] = NoUpdate /\ copy'[e] = op[e].answer /\ unsaved'[e] = {}
      /\ Knows(e)
  BY <1>1 DEF TypeOK, Sound
<1>3. Knows(e)' /\ Based(e)'
  BY <1>1, <1>2 DEF Knows, Based, Behind, Agrees, NoUpdate
<1>4. \A f \in Editors \ {e} :
         copy'[f] = copy[f] /\ unsaved'[f] = unsaved[f] /\ op'[f] = op[f]
  BY <1>1 DEF TypeOK
<1> QED
  BY <1>1, <1>3, <1>4, Stays, Others

(* The copy is read again beside an update, which notes it (reread).        *)
LEMMA PollSound ==
  ASSUME TypeOK, Answered, TypeOK', Sound, NEW e \in Editors, Poll(e) \/ Open(e)
  PROVE  Sound'
<1>1. /\ copy' = [copy EXCEPT ![e] = object] /\ unsaved' = [unsaved EXCEPT ![e] = {}]
      /\ object' = object /\ kind' = kind
      /\ \/ op[e].step = "idle" /\ op' = op
         \/ op[e].step # "idle" /\ op' = [op EXCEPT ![e].reread = TRUE]
  BY DEF Poll, Open, Show
<1>2. copy'[e] = object /\ unsaved'[e] = {} /\ Knows(e) /\ Based(e)
  BY <1>1 DEF TypeOK, Sound
<1>3. Knows(e)' /\ Based(e)'
  <2>1. CASE op[e].step = "idle" /\ op' = op
    BY <1>1, <1>2, <2>1, Numbers DEF Knows, Based, Behind, Agrees, Compares
  <2>2. CASE op[e].step # "idle" /\ op' = [op EXCEPT ![e].reread = TRUE]
    <3>1. op[e] \in Update
      BY <2>2, UpdateStep
    <3>2. /\ op'[e].reread /\ op'[e].step = op[e].step /\ op'[e].rv = op[e].rv
          /\ op'[e].answer = op[e].answer /\ op'[e].spec = op[e].spec
          /\ op'[e].edits = op[e].edits /\ op'[e].retried = op[e].retried
      BY <2>2, <3>1 DEF TypeOK, Update
    <3>3. Knows(e)'
      BY <1>1, <1>2, <3>2, Numbers DEF Knows, Behind, Agrees
    <3> QED
      BY <1>1, <1>2, <3>2, <3>3 DEF Based, Behind, Agrees, Compares
  <2> QED
    BY <1>1, <2>1, <2>2
<1>4. \A f \in Editors \ {e} :
         copy'[f] = copy[f] /\ unsaved'[f] = unsaved[f] /\ op'[f] = op[f]
  BY <1>1 DEF TypeOK
<1> QED
  BY <1>1, <1>3, <1>4, Stays, Others

(* An update is accepted by the server only.                                *)
LEMMA OnlyPutAccepts ==
  ASSUME TypeOK, Next, NEW e \in Editors, op[e].step = "sent", op'[e].step = "accepted"
  PROVE  Put(e)
<1>1. op[e] \in Update /\ op' # op
  BY UpdateStep
<1>2. ASSUME NEW f \in Editors, NEW s \in Settings, NEW v \in Values, Edit(f, s, v)
      PROVE  FALSE
  BY <1>2 DEF Edit, Mutate, TypeOK
<1>3. ASSUME NEW f \in Editors, Restart(f) PROVE FALSE
  BY <1>3 DEF Restart, Mutate, TypeOK
<1>4. ASSUME NEW f \in Editors, OnConflict(f) PROVE FALSE
  BY <1>4 DEF OnConflict, TypeOK
<1>5. ASSUME NEW f \in Editors, Refetch(f) PROVE FALSE
  BY <1>5 DEF Refetch, TypeOK
<1>6. ASSUME NEW f \in Editors, Resend(f) PROVE FALSE
  BY <1>6 DEF Resend, TypeOK
<1>7. ASSUME NEW f \in Editors, ChangedElsewhere(f) \/ OnError(f) \/ OnSuccess(f)
      PROVE  FALSE
  BY <1>7 DEF ChangedElsewhere, OnError, OnSuccess, TypeOK
<1>8. ASSUME NEW f \in Editors, Poll(f) PROVE FALSE
  BY <1>1, <1>8 DEF Poll, TypeOK, Update
<1>9. ASSUME NEW f \in Editors, Open(f) PROVE FALSE
  BY <1>9 DEF Open
<1>10. ASSUME NEW f \in Editors, Put(f), f # e PROVE FALSE
  BY <1>10 DEF Put, TypeOK
<1>11. ~(Operator \/ Elsewhere)
  BY DEF Operator, Elsewhere
<1>12. ~Tick
  BY <1>1 DEF Tick, Update
<1> QED
  BY <1>2, <1>3, <1>4, <1>5, <1>6, <1>7, <1>8, <1>9, <1>10, <1>11, <1>12 DEF Next

(* The object after an update is a next one. *)
LEMMA WrittenAdvances ==
  ASSUME TypeOK, NEW e \in Editors, op[e].step # "idle", object' = Written(op[e])
  PROVE  Advances
<1>1. op[e] \in Update
  BY UpdateStep
<1>2. /\ object'.spec = op[e].spec
      /\ object'.gen = IF op[e].spec = object.spec THEN object.gen ELSE object.gen + 1
      /\ object'.rv = IF op[e].spec = object.spec /\ op[e].restart = object.restart
                      THEN object.rv ELSE object.rv + 1
  BY DEF Written
<1> QED
  BY <1>2, Numbers DEF Advances

(* The server writes an update: what the others know gets older, not        *)
(* wrong.                                                                   *)
LEMMA PutSound ==
  ASSUME TypeOK, Answered, TypeOK', Sound, NEW e \in Editors, Put(e)
  PROVE  Sound'
<1>1. op[e].step = "sent" /\ op[e] \in Update
  BY UpdateStep DEF Put
<1>2. /\ copy' = copy /\ unsaved' = unsaved /\ kind' = kind
      /\ \A f \in Editors \ {e} : op'[f] = op[f]
      /\ object' = object \/ object' = Written(op[e])
  BY DEF Put, TypeOK
<1>3. Advances
  BY <1>1, <1>2, Stays, WrittenAdvances
<1>4. \/ op'[e].step \in {"refused", "failed"}
         /\ (op'[e].step = "refused" => object' = object)
         /\ op'[e].spec = op[e].spec /\ op'[e].edits = op[e].edits
         /\ op'[e].reread = op[e].reread
      \/ op'[e].step = "accepted" /\ op'[e].answer = object'
  BY <1>1 DEF Put, TypeOK, Update
<1>5. Knows(e) /\ Based(e) /\ object' \in Object
  BY DEF Sound, TypeOK
<1>6. object'.rv \in Nat /\ object'.gen \in Nat
  BY <1>5 DEF Object
<1>7. Knows(e)'
  <2>1. Behind(copy[e])' /\ (copy[e].gen = object.gen => Agrees(copy[e].spec, unsaved[e]))'
    BY <1>2, <1>3, <1>5, <1>6, Numbers DEF Knows, Behind, Agrees, Advances
  <2>2. (~EditsInPlace => unsaved[e] = {})'
    BY <1>2, <1>5 DEF Knows, EditsInPlace
  <2> QED
    BY <1>4, <1>6, <2>1, <2>2 DEF Knows, Behind, Agrees
<1>8. Based(e)'
  BY <1>1, <1>2, <1>4, <1>5 DEF Based, Agrees, Compares, ChecksGeneration
<1> QED
  BY <1>2, <1>3, <1>7, <1>8, Others

(* Another client or the operator writes the object.                        *)
LEMMA ElsewhereSound ==
  ASSUME TypeOK, Answered, TypeOK', Sound, Operator \/ Elsewhere
  PROVE  Sound'
<1>1. copy' = copy /\ unsaved' = unsaved /\ op' = op /\ kind' = kind
  BY DEF Operator, Elsewhere
<1>2. object \in Object
  BY DEF TypeOK
<1>3. /\ object'.rv = object.rv + 1
      /\ \/ object'.gen = object.gen /\ object'.spec = object.spec
         \/ object'.gen = object.gen + 1
  BY <1>2 DEF Operator, Elsewhere, Object
<1>4. object.rv \in Nat /\ object.gen \in Nat
  BY <1>2 DEF Object
<1>5. Advances
  BY <1>3, <1>4 DEF Advances
<1> SUFFICES ASSUME NEW f \in Editors PROVE Knows(f)' /\ Based(f)'
  BY DEF Sound
<1> QED
  BY <1>1, <1>5, Frame DEF Sound

(* Time passes: no page learns anything.                                    *)
LEMMA TickSound ==
  ASSUME TypeOK, Answered, TypeOK', Sound, Tick
  PROVE  Sound'
<1> SUFFICES ASSUME NEW f \in Editors PROVE Knows(f)' /\ Based(f)'
  BY DEF Sound
<1>1. object' = object /\ copy' = copy /\ unsaved' = unsaved /\ kind' = kind
  BY DEF Tick
<1>2. Knows(f) /\ Based(f)
  BY DEF Sound
<1>3. CASE op[f].step = "idle"
  <2>1. op'[f].step = "idle"
    BY <1>3 DEF Tick, NoUpdate
  <2> QED
    BY <1>1, <1>2, <2>1 DEF Knows, Based, Behind, Agrees, EditsInPlace
<1>4. CASE op[f].step # "idle"
  <2>1. op[f] \in Update
    BY <1>4, UpdateStep
  <2>2. op'[f] = [op[f] EXCEPT !.spent = Later(@)]
    BY <1>4 DEF Tick
  <2>3. /\ op'[f].step = op[f].step /\ op'[f].rv = op[f].rv
        /\ op'[f].orig = op[f].orig /\ op'[f].answer = op[f].answer
        /\ op'[f].spec = op[f].spec /\ op'[f].edits = op[f].edits
        /\ op'[f].retried = op[f].retried /\ op'[f].reread = op[f].reread
    BY <2>1, <2>2 DEF Update
  <2> QED
    BY <1>1, <1>2, <2>3 DEF Knows, Based, Behind, Agrees, Compares, EditsInPlace,
                            ChecksGeneration
<1> QED
  BY <1>3, <1>4

(* Every step keeps what the pages know and what their updates are based    *)
(* on.                                                                      *)
LEMMA SoundStep == TypeOK /\ Answered /\ Sound /\ [Next]_vars => Sound'
<1> SUFFICES ASSUME TypeOK, Answered, Sound, [Next]_vars PROVE Sound'
  OBVIOUS
<1>1. TypeOK'
  BY TypeStep
<1>2. CASE UNCHANGED vars
  BY <1>2 DEF vars, Sound, Knows, Based, Behind, Agrees, Compares, EditsInPlace,
              ChecksGeneration
<1>3. CASE Next
  BY <1>1, <1>3, EditSound, RestartSound, ConflictSound, RefetchSound, ResendSound,
     EndSound, SuccessSound, PollSound, PutSound, ElsewhereSound, TickSound DEF Next
<1> QED
  BY <1>2, <1>3

(* At first every page shows the object, and no update is under way.        *)
LEMMA SoundInit == Init => Sound
<1> SUFFICES ASSUME Init, NEW e \in Editors PROVE Knows(e) /\ Based(e)
  BY DEF Sound
<1>1. /\ copy[e] = object /\ op[e].step = "idle" /\ unsaved[e] = {}
      /\ object.rv = 1 /\ object.gen = 1
  BY DEF Init, NoUpdate
<1> QED
  BY <1>1 DEF Knows, Based, Behind, Agrees

(* A write that is accepted changes nothing but what its user changed, for  *)
(* any number of pages, settings and values: the property of that name.     *)
THEOREM NoSilentOverwriteHolds == Spec => NoSilentOverwrite
<1>1. Init => TypeOK /\ Answered /\ Sound
  BY TypeInit, SoundInit
<1>2. TypeOK /\ Answered /\ Sound /\ [Next]_vars => TypeOK' /\ Answered' /\ Sound'
  BY TypeStep, SoundStep
<1>3. TypeOK /\ Answered /\ Sound /\ [Next]_vars =>
        [\A e \in Editors :
           /\ op[e].step = "sent" /\ op'[e].step = "accepted"
           /\ ~op[e].retried \/ (ChecksGeneration /\ ~op[e].reread)
           => \A s \in Settings \ op[e].edits : object'.spec[s] = object.spec[s]]_vars
  <2> SUFFICES ASSUME TypeOK, Sound, Next, NEW e \in Editors,
                      op[e].step = "sent", op'[e].step = "accepted",
                      ~op[e].retried \/ (ChecksGeneration /\ ~op[e].reread),
                      NEW s \in Settings \ op[e].edits
               PROVE  object'.spec[s] = object.spec[s]
    OBVIOUS
  <2>1. Put(e)
    BY OnlyPutAccepts
  <2>2. op[e].rv = object.rv /\ object' = Written(op[e])
    BY <2>1, UpdateStep DEF Put, TypeOK, Update
  <2> QED
    BY <2>2 DEF Sound, Based, Compares, Agrees, Written
<1> QED
  BY <1>1, <1>2, <1>3, PTL DEF Spec, NoSilentOverwrite

-----------------------------------------------------------------------------
(* So does every page: the strengthening for GivesUpInTime.                 *)
CountsOwns == \A e \in Editors : CountsOwn(e)

(* A page that does nothing at this step counts on as before.               *)
LEMMA OthersCount ==
  ASSUME CountsOwns, NEW e \in Editors,
         \A f \in Editors \ {e} :
            op'[f] = op[f] /\ watch'[f] = watch[f] /\ leftover'[f] = leftover[f],
         CountsOwn(e)'
  PROVE  CountsOwns'
BY DEF CountsOwns, CountsOwn

(* Every step keeps the count of each page in agreement with its update.    *)
LEMMA CountStep == TypeOK /\ TypeOK' /\ CountsOwns /\ [Next]_vars => CountsOwns'
<1> SUFFICES ASSUME TypeOK, TypeOK', CountsOwns, [Next]_vars PROVE CountsOwns'
  OBVIOUS
<1>1. ASSUME NEW e \in Editors,
             \/ \E s \in Settings, v \in Values : Edit(e, s, v)
             \/ Restart(e)
      PROVE  CountsOwns'
  <2>1. /\ op'[e].spent = Unset /\ op[e].step = "idle"
        /\ watch' = watch /\ leftover' = leftover
        /\ \A f \in Editors \ {e} : op'[f] = op[f]
    BY <1>1 DEF Edit, Restart, Mutate, TypeOK
  <2> QED
    BY <2>1, OthersCount DEF CountsOwns, CountsOwn
<1>2. ASSUME NEW e \in Editors, OnConflict(e) PROVE CountsOwns'
  <2>1. op[e] \in Update /\ op[e].step = "refused"
    BY <1>2, UpdateStep DEF OnConflict
  <2>2. \/ /\ op'[e] = NoUpdate /\ watch'[e] = Unset
        \/ /\ op'[e].step = "wait" /\ op'[e].spent = FromNow(op[e].spent)
           /\ watch'[e] = FromNow(watch[e]) /\ leftover'[e] = leftover[e]
    BY <1>2, <2>1 DEF OnConflict, TypeOK, Update
  <2>3. CountsOwn(e)'
    BY <2>1, <2>2 DEF CountsOwns, CountsOwn, NoUpdate
  <2>4. \A f \in Editors \ {e} :
           op'[f] = op[f] /\ watch'[f] = watch[f] /\ leftover'[f] = leftover[f]
    BY <1>2 DEF OnConflict, TypeOK
  <2> QED
    BY <2>3, <2>4, OthersCount
<1>3. ASSUME NEW e \in Editors, Refetch(e) \/ Resend(e) \/ Put(e) \/ Poll(e)
      PROVE  CountsOwns'
  <2>1. /\ watch' = watch /\ leftover' = leftover
        /\ \A f \in Editors \ {e} : op'[f] = op[f]
    BY <1>3 DEF Refetch, Show, Resend, Put, Poll, TypeOK
  <2>2. CASE op[e].step = "idle"
    <3>1. op' = op
      BY <1>3, <2>2 DEF Refetch, Resend, Put, Poll
    <3> QED
      BY <2>1, <3>1 DEF CountsOwns, CountsOwn
  <2>3. CASE op[e].step # "idle"
    <3>1. op[e] \in Update
      BY <2>3, UpdateStep
    <3>2. op'[e].spent = op[e].spent /\ op'[e].step # "idle"
      <4>1. CASE Refetch(e)
        BY <3>1, <4>1 DEF Refetch, TypeOK, Update
      <4>2. CASE Resend(e)
        BY <3>1, <4>2 DEF Resend, TypeOK, Update
      <4>3. CASE Put(e)
        BY <3>1, <4>3 DEF Put, TypeOK, Update
      <4>4. CASE Poll(e)
        BY <2>3, <3>1, <4>4 DEF Poll, TypeOK, Update
      <4> QED
        BY <1>3, <4>1, <4>2, <4>3, <4>4
    <3>3. CountsOwn(e)'
      BY <2>1, <2>3, <3>2 DEF CountsOwns, CountsOwn
    <3> QED
      BY <2>1, <3>3, OthersCount
  <2> QED
    BY <2>2, <2>3
<1>4. ASSUME NEW e \in Editors, ChangedElsewhere(e) \/ OnSuccess(e) \/ Open(e)
      PROVE  CountsOwns'
  <2>1. /\ op'[e].step = "idle" /\ watch'[e] = Unset
        /\ \A f \in Editors \ {e} :
              op'[f] = op[f] /\ watch'[f] = watch[f] /\ leftover'[f] = leftover[f]
    BY <1>4 DEF ChangedElsewhere, OnSuccess, Open, TypeOK, NoUpdate
  <2> QED
    BY <2>1, OthersCount DEF CountsOwn
<1>5. ASSUME NEW e \in Editors, OnError(e) PROVE CountsOwns'
  <2>1. /\ op'[e].step = "idle" /\ leftover'[e] = (watch[e] # Unset) /\ watch' = watch
        /\ \A f \in Editors \ {e} : op'[f] = op[f] /\ leftover'[f] = leftover[f]
    BY <1>5 DEF OnError, TypeOK, NoUpdate
  <2>2. CountsOwn(e)'
    BY <2>1 DEF CountsOwn
  <2> QED
    BY <2>1, <2>2, OthersCount
<1>6. CASE Operator \/ Elsewhere
  BY <1>6 DEF Operator, Elsewhere, CountsOwns, CountsOwn
<1>7. CASE Tick
  <2> SUFFICES ASSUME NEW e \in Editors PROVE CountsOwn(e)'
    BY DEF CountsOwns
  <2>1. leftover' = leftover /\ watch'[e] = Later(watch[e])
    BY <1>7 DEF Tick
  <2>2. CASE op[e].step = "idle"
    <3>1. op'[e].step = "idle"
      BY <1>7, <2>2 DEF Tick, NoUpdate
    <3>2. Later(Unset) = Unset
      BY RetryTimeoutAssumption DEF Later, Unset
    <3> QED
      BY <2>1, <2>2, <3>1, <3>2 DEF CountsOwns, CountsOwn
  <2>3. CASE op[e].step # "idle"
    <3>1. op[e] \in Update /\ op'[e] = [op[e] EXCEPT !.spent = Later(@)]
      BY <1>7, <2>3, UpdateStep DEF Tick
    <3>2. op'[e].step = op[e].step /\ op'[e].spent = Later(op[e].spent)
      BY <3>1 DEF Update
    <3> QED
      BY <2>1, <2>3, <3>2 DEF CountsOwns, CountsOwn
  <2> QED
    BY <2>2, <2>3
<1>8. CASE UNCHANGED vars
  BY <1>8 DEF vars, CountsOwns, CountsOwn
<1> QED
  BY <1>1, <1>2, <1>3, <1>4, <1>5, <1>6, <1>7, <1>8 DEF Next

(* An update that was refused ends in OnConflict only, once its time is     *)
(* over.                                                                    *)
LEMMA OnlyConflictGivesUp ==
  ASSUME TypeOK, Next, NEW e \in Editors, op[e].step = "refused", op'[e].step = "idle"
  PROVE  OnConflict(e)
<1>1. op[e] \in Update /\ op' # op
  BY UpdateStep
<1>2. ASSUME NEW f \in Editors, NEW s \in Settings, NEW v \in Values, Edit(f, s, v)
      PROVE  FALSE
  BY <1>2 DEF Edit, Mutate, TypeOK
<1>3. ASSUME NEW f \in Editors, Restart(f) PROVE FALSE
  BY <1>3 DEF Restart, Mutate, TypeOK
<1>4. ASSUME NEW f \in Editors, OnConflict(f), f # e PROVE FALSE
  BY <1>4 DEF OnConflict, TypeOK
<1>5. ASSUME NEW f \in Editors, Refetch(f) PROVE FALSE
  BY <1>5 DEF Refetch, TypeOK
<1>6. ASSUME NEW f \in Editors, Resend(f) PROVE FALSE
  BY <1>6 DEF Resend, TypeOK
<1>7. ASSUME NEW f \in Editors, ChangedElsewhere(f) \/ OnError(f) \/ OnSuccess(f)
      PROVE  FALSE
  BY <1>7 DEF ChangedElsewhere, OnError, OnSuccess, TypeOK
<1>8. ASSUME NEW f \in Editors, Poll(f) PROVE FALSE
  BY <1>1, <1>8 DEF Poll, TypeOK, Update
<1>9. ASSUME NEW f \in Editors, Open(f) PROVE FALSE
  BY <1>9 DEF Open
<1>10. ASSUME NEW f \in Editors, Put(f) PROVE FALSE
  BY <1>1, <1>10 DEF Put, TypeOK, Update
<1>11. ~(Operator \/ Elsewhere)
  BY DEF Operator, Elsewhere
<1>12. ~Tick
  BY <1>1 DEF Tick, Update
<1> QED
  BY <1>2, <1>3, <1>4, <1>5, <1>6, <1>7, <1>8, <1>9, <1>10, <1>11, <1>12 DEF Next

(* A page gives up only after the time it was given, for every timeout and  *)
(* any number of pages: the property of that name.                          *)
THEOREM GivesUpInTimeHolds == Spec => GivesUpInTime
<1>1. Init => TypeOK /\ Answered /\ CountsOwns
  BY TypeInit DEF Init, CountsOwns, CountsOwn, NoUpdate
<1>2. TypeOK /\ Answered /\ CountsOwns /\ [Next]_vars
        => TypeOK' /\ Answered' /\ CountsOwns'
  BY TypeStep, CountStep
<1>3. TypeOK /\ Answered /\ CountsOwns /\ [Next]_vars =>
        [\A e \in Editors :
           op[e].step = "refused" /\ op'[e].step = "idle"
           => op[e].spent = RetryTimeout + 1 \/ leftover[e]]_vars
  <2> SUFFICES ASSUME TypeOK, CountsOwns, Next, NEW e \in Editors,
                      op[e].step = "refused", op'[e].step = "idle", ~leftover[e]
               PROVE  op[e].spent = RetryTimeout + 1
    OBVIOUS
  <2>1. OnConflict(e)
    BY OnlyConflictGivesUp
  <2>2. op[e] \in Update
    BY UpdateStep
  <2>3. watch[e] # Unset /\ watch[e] > RetryTimeout
    BY <2>1, <2>2 DEF OnConflict, TypeOK, Update
  <2>4. watch[e] = RetryTimeout + 1
    BY <2>3, RetryTimeoutAssumption DEF TypeOK, Unset
  <2> QED
    BY <2>4 DEF CountsOwns, CountsOwn
<1> QED
  BY <1>1, <1>2, <1>3, PTL DEF Spec, GivesUpInTime

=============================================================================
