------------------------ MODULE EngineUpgradeProofs ------------------------
(***************************************************************************)
(* Operator upgrades, for any engines, install plans, clusters, requests   *)
(* at the same time and bounds.                                            *)
(***************************************************************************)
EXTENDS EngineUpgrade, TLAPS

\* The engines that wait for an upgrade they were planned for.
Waiting == pending \ Late

\* Nothing that waits has been approved, but by an approval that gave up.
NoneApproved == \A e \in Waiting : PlanOf[e] \notin approved \ abandoned

\* Approvals that run at the same time have been noted.
RacesNoted ==
    ~raced => \A a, b \in Approvers : ~At(a, "idle") /\ ~At(b, "idle") => a = b

\* What an approval that runs alone knows of the locks and the plans.
Held(a) ==
    LET q == appr[a]
    IN  /\ q.step = "plan" => locked = {}
        /\ q.step = "lock" =>
             /\ locked \cup q.engines \subseteq q.plan
             /\ Waiting \subseteq q.plan /\ Waiting \ q.engines \subseteq locked
        /\ q.step \in {"start", "approve", "put"} =>
             Waiting \subseteq locked /\ locked \subseteq q.plan
        /\ q.step = "unlock" => locked \subseteq q.engines /\ q.engines \subseteq q.plan
        /\ q.step \in {"plan", "lock", "unlock"} => NoneApproved

\* What every approval knows of the plans it has gathered: those it has gone
\* past are approved, and one it finds changed has been approved by another.
Gathered(a) ==
    LET q == appr[a]
    IN  /\ q.step \in {"approve", "put"} =>
             /\ q.plans \subseteq {PlanOf[e] : e \in Engines}
             /\ touches = 0 => q.targets \ q.plans \subseteq approved
        /\ q.step = "put" =>
             \E p \in q.plans :
                /\ q.cur = {p}
                /\ touches = 0 /\ rv[p] # q.rv => p \in approved
        /\ touches = 0 /\ q.step = "idle" /\ q.outcome = "ok" => q.targets \subseteq approved

\* The inductive invariant.
IndInv ==
    /\ TypeOK
    /\ RacesNoted
    /\ UpgradeUnderLock
    /\ \A a \in Approvers : (~raced /\ ~At(a, "idle") => Held(a)) /\ Gathered(a)

---------------------------------------------------------------------------

USE EngineUpgradeAssumption

\* The request in a slot, and a slot that has been answered.
LEMMA Slots ==
    ASSUME TypeOK, NEW a \in Approvers
    PROVE  appr[a] \in Approval
BY DEF TypeOK

\* An approval that was answered is at rest.
LEMMA AnsweredTyped ==
    ASSUME NEW outcome \in Outcome, NEW targets \in SUBSET Plans
    PROVE  LET q == Answered(outcome, targets)
           IN  /\ q \in Approval /\ q.step = "idle"
               /\ q.outcome = outcome /\ q.targets = targets
BY DEF Answered, Approval, Step

\* Races stay noted; a request that makes a step and has not raced is alone.
LEMMA SetNotes ==
    ASSUME TypeOK, RacesNoted, NEW a \in Approvers, NEW new \in Approval, Set(a, new),
           ~At(a, "idle") \/ new.step # "idle"
    PROVE  /\ appr' \in [Approvers -> Approval] /\ appr'[a] = new
           /\ \A b \in Approvers \ {a} : appr'[b] = appr[b]
           /\ raced' \in BOOLEAN
           /\ ~raced' => ~raced /\ \A b \in Approvers \ {a} : At(b, "idle")
           /\ RacesNoted'
<1>1. /\ appr' \in [Approvers -> Approval] /\ appr'[a] = new
      /\ \A b \in Approvers \ {a} : appr'[b] = appr[b]
  BY DEF Set, TypeOK
<1>2. raced' \in BOOLEAN
  BY DEF Set
<1>3. ASSUME ~raced' PROVE ~raced /\ \A b \in Approvers \ {a} : At(b, "idle")
  <2>1. /\ ~raced
        /\ new.step = "idle" \/ \A b \in Approvers \ {a} : At(b, "idle")
    BY <1>3 DEF Set
  <2>2. CASE new.step = "idle"
    BY <2>1, <2>2 DEF RacesNoted
  <2> QED
    BY <2>1, <2>2
<1>4. RacesNoted'
  BY <1>1, <1>3 DEF RacesNoted, At
<1> QED
  BY <1>1, <1>2, <1>3, <1>4

\* What another request knows of its plans stays true.
LEMMA OtherGathered ==
    ASSUME TypeOK, NEW b \in Approvers, Gathered(b), appr'[b] = appr[b],
           approved \subseteq approved', touches' = touches,
           \A p \in Plans : rv'[p] # rv[p] => p \in approved'
    PROVE  Gathered(b)'
<1>1. appr[b].plans \subseteq Plans
  BY Slots DEF Approval
<1>2. ASSUME appr[b].step = "put"
      PROVE  \E p \in appr[b].plans :
                /\ appr[b].cur = {p}
                /\ touches = 0 /\ rv'[p] # appr[b].rv => p \in approved'
  <2>1. PICK p \in appr[b].plans :
          /\ appr[b].cur = {p}
          /\ touches = 0 /\ rv[p] # appr[b].rv => p \in approved
    BY <1>2 DEF Gathered
  <2> QED
    BY <1>1, <2>1
<1> QED
  BY <1>2 DEF Gathered

\* A step of an approval keeps the invariant if it does so for this approval.
LEMMA ApprovalStep ==
    ASSUME IndInv, NEW a \in Approvers, NEW new \in Approval, Set(a, new),
           ~At(a, "idle") \/ new.step # "idle",
           UNCHANGED <<pending, upgraded, ready, write, touches, crashes>>,
           locked' \subseteq Engines,
           approved \subseteq approved', approved' \subseteq Plans, abandoned' \subseteq Plans,
           rv' \in [Plans -> Nat], \A p \in Plans : rv'[p] # rv[p] => p \in approved',
           faults' \in Nat, faults' + touches + crashes \in 0..MaxTroubles,
           ~raced /\ new.step # "idle" => Held(a)',
           Gathered(a)',
           ~raced => \A e \in Waiting : PlanOf[e] \in approved' \ abandoned' => e \in locked'
    PROVE  IndInv'
<1>1. /\ appr' \in [Approvers -> Approval] /\ appr'[a] = new
      /\ \A b \in Approvers \ {a} : appr'[b] = appr[b]
      /\ raced' \in BOOLEAN
      /\ ~raced' => ~raced /\ \A b \in Approvers \ {a} : At(b, "idle")
      /\ RacesNoted'
  BY SetNotes DEF IndInv
<1>2. TypeOK'
  BY <1>1 DEF IndInv, TypeOK
<1>3. UpgradeUnderLock'
  BY <1>1 DEF UpgradeUnderLock, Waiting
<1>4. ASSUME NEW b \in Approvers
      PROVE  (~raced /\ ~At(b, "idle") => Held(b))' /\ Gathered(b)'
  <2>1. CASE b = a
    BY <1>1, <2>1 DEF At
  <2>2. CASE b # a
    BY <1>1, <2>2, OtherGathered DEF At, IndInv
  <2> QED
    BY <2>1, <2>2
<1> QED
  BY <1>1, <1>2, <1>3, <1>4 DEF IndInv

\* One that leaves the locks and the plans alone.
LEMMA StillStep ==
    ASSUME IndInv, NEW a \in Approvers, NEW new \in Approval, Set(a, new),
           ~At(a, "idle") \/ new.step # "idle",
           UNCHANGED <<cluster, locked, write, touches, crashes>>,
           faults' = faults \/ Fault,
           ~raced /\ new.step # "idle" => Held(a)',
           Gathered(a)'
    PROVE  IndInv'
<1>1. faults' \in Nat /\ faults' + touches + crashes \in 0..MaxTroubles
  BY DEF Fault, Troubles, IndInv, TypeOK
<1>2. UNCHANGED <<pending, upgraded, locked, approved, abandoned, rv, ready>>
  BY DEF cluster, installPlans
<1>3. ~raced => \A e \in Waiting : PlanOf[e] \in approved' \ abandoned' => e \in locked'
  BY <1>2 DEF IndInv, UpgradeUnderLock, Waiting
<1>4. locked' \subseteq Engines /\ approved' \subseteq Plans /\ abandoned' \subseteq Plans
      /\ rv' \in [Plans -> Nat]
  BY <1>2 DEF IndInv, TypeOK
<1> QED
  BY <1>1, <1>2, <1>3, <1>4, ApprovalStep

\* A request that is answered without success has nothing left to know.
LEMMA AnsweredStep ==
    ASSUME IndInv, NEW a \in Approvers, NEW outcome \in Outcome \ {"ok"},
           Set(a, Answered(outcome, {})), ~At(a, "idle"),
           UNCHANGED <<cluster, locked, write, touches, crashes>>,
           faults' = faults \/ Fault
    PROVE  IndInv'
<1> DEFINE new == Answered(outcome, {})
<1>1. /\ new \in Approval /\ new.step = "idle"
      /\ new.outcome = outcome
  BY AnsweredTyped
<1> HIDE DEF new
<1>2. appr'[a] = new
  BY <1>1, SetNotes DEF IndInv, new
<1>3. Gathered(a)'
  BY <1>1, <1>2 DEF Gathered
<1> QED
  BY <1>1, <1>3, StillStep DEF new

---------------------------------------------------------------------------
\* One lemma for each action of an approval: it keeps the inductive invariant.

\* Nothing is locked when a request is admitted: no engine that waits has its
\* plan approved.
LEMMA AdmitInv ==
    ASSUME IndInv, NEW a \in Approvers, Admit(a)
    PROVE  IndInv'
<1> DEFINE new == [Answered("none", {}) EXCEPT !.step = "plan"]
<1>1. new \in Approval /\ new.step = "plan"
  <2>1. Answered("none", {}) \in Approval
    BY AnsweredTyped DEF Outcome
  <2>2. ASSUME NEW x \in Approval
        PROVE  [x EXCEPT !.step = "plan"] \in Approval
               /\ [x EXCEPT !.step = "plan"].step = "plan"
    BY DEF Approval, Step
  <2> HIDE DEF Answered, Approval
  <2> QED
    BY <2>1, <2>2
<1>2. Set(a, new) /\ locked = {} /\ UNCHANGED <<cluster, locked, write, budgets>>
  BY DEF Admit, AllowRequest
<1> HIDE DEF new
<1>3. appr'[a] = new
  BY <1>1, <1>2, SetNotes DEF IndInv
<1>4. ~raced => NoneApproved
  BY <1>2 DEF IndInv, UpgradeUnderLock, NoneApproved, Waiting
<1>5. ~raced => Held(a)'
  BY <1>1, <1>2, <1>3, <1>4 DEF Held, NoneApproved, Waiting, cluster, installPlans, budgets
<1>6. Gathered(a)'
  BY <1>1, <1>3 DEF Gathered
<1> QED
  BY <1>1, <1>2, <1>5, <1>6, StillStep DEF budgets

\* The plan holds all pending engines: all that wait will be locked.
LEMMA GetUpgradePlanInv ==
    ASSUME IndInv, NEW a \in Approvers, GetUpgradePlan(a)
    PROVE  IndInv'
<1> DEFINE allReady == \A d \in Dbs : EngineOf[d] \in pending => d \in ready
           new == [appr[a] EXCEPT !.step = "lock", !.plan = pending, !.engines = pending,
                                  !.allReady = allReady]
<1>1. allReady \in BOOLEAN /\ pending \subseteq Engines
  BY DEF IndInv, TypeOK
<1>2. Set(a, new) /\ At(a, "plan") /\ UNCHANGED <<cluster, locked, write, budgets>>
  BY DEF GetUpgradePlan
<1> HIDE DEF allReady
<1>3. /\ new \in Approval /\ new.step = "lock"
      /\ new.plan = pending /\ new.engines = pending
  BY <1>1, Slots DEF IndInv, Approval, Step
<1> HIDE DEF new
<1>4. appr'[a] = new
  BY <1>2, <1>3, SetNotes DEF IndInv, At
<1>5. ~raced => Held(a)
  BY <1>2 DEF IndInv, At
<1>6. ~raced => Held(a)'
  BY <1>2, <1>3, <1>4, <1>5
    DEF Held, At, NoneApproved, Waiting, cluster, installPlans, budgets
<1>7. Gathered(a)'
  BY <1>3, <1>4 DEF Gathered
<1> QED
  BY <1>2, <1>3, <1>6, <1>7, StillStep DEF budgets, At

\* No plan is read, and no lock was taken.
LEMMA GetUpgradePlanFailsInv ==
    ASSUME IndInv, NEW a \in Approvers, GetUpgradePlanFails(a)
    PROVE  IndInv'
BY AnsweredStep DEF GetUpgradePlanFails, At, Outcome

\* A lock taken or given back.
LEMMA LockStep ==
    ASSUME IndInv, NEW a \in Approvers, NEW e \in appr[a].engines,
           \/ At(a, "lock") /\ locked' = locked \cup {e}
           \/ At(a, "unlock") /\ locked' = locked \ {e},
           Set(a, [appr[a] EXCEPT !.engines = @ \ {e}]),
           UNCHANGED <<cluster, write, budgets>>
    PROVE  IndInv'
<1> DEFINE new == [appr[a] EXCEPT !.engines = @ \ {e}]
<1>1. /\ new \in Approval /\ new.step = appr[a].step /\ new.plan = appr[a].plan
      /\ new.engines = appr[a].engines \ {e} /\ e \in Engines
  BY Slots DEF IndInv, Approval
<1>2. Set(a, new) /\ (new.step = "lock" \/ new.step = "unlock")
  BY <1>1 DEF At
<1> HIDE DEF new
<1>3. appr'[a] = new
  BY <1>1, <1>2, SetNotes DEF IndInv, At
<1>4. ~raced => Held(a)
  BY <1>1, <1>2 DEF IndInv, At
<1>5. ~raced => Held(a)'
  BY <1>1, <1>2, <1>3, <1>4
    DEF Held, At, NoneApproved, Waiting, cluster, installPlans, budgets
<1>6. Gathered(a)'
  BY <1>2, <1>3 DEF Gathered
<1>7. ~raced => NoneApproved
  BY <1>1, <1>2, <1>4 DEF Held
<1>8. ~raced => \A f \in Waiting : PlanOf[f] \in approved' \ abandoned' => f \in locked'
  BY <1>7 DEF NoneApproved, cluster, installPlans
<1>9. locked' \subseteq Engines /\ approved' \subseteq Plans /\ abandoned' \subseteq Plans
      /\ rv' \in [Plans -> Nat]
  BY <1>1 DEF cluster, installPlans, IndInv, TypeOK
<1>10. faults' \in Nat /\ faults' + touches + crashes \in 0..MaxTroubles
  BY DEF budgets, IndInv, TypeOK
<1>11. ~At(a, "idle")
  BY <1>1, <1>2 DEF At
<1> QED
  BY <1>1, <1>2, <1>5, <1>6, <1>8, <1>9, <1>10, <1>11, ApprovalStep
    DEF cluster, installPlans, budgets

\* Locking the next engine of the plan, or unlocking it.
LEMMA LockEngineInv ==
    ASSUME IndInv, NEW a \in Approvers, LockEngine(a) \/ UnlockEngine(a)
    PROVE  IndInv'
BY LockStep DEF LockEngine, UnlockEngine

\* The whole list again, or the request has failed.
LEMMA LockEngineFailsInv ==
    ASSUME IndInv, NEW a \in Approvers, LockEngineFails(a) \/ UnlockEngineFails(a)
    PROVE  IndInv'
<1> DEFINE new == [appr[a] EXCEPT !.engines = appr[a].plan]
<1>1. /\ Set(a, new) \/ Set(a, Answered("error", {}))
      /\ At(a, "lock") \/ At(a, "unlock")
      /\ ~At(a, "idle")
      /\ UNCHANGED <<cluster, locked, write, touches, crashes>>
      /\ Fault
  BY DEF LockEngineFails, UnlockEngineFails, At
<1>2. CASE Set(a, Answered("error", {}))
  BY <1>1, <1>2, AnsweredStep DEF Outcome
<1>3. CASE Set(a, new)
  <2>1. /\ new \in Approval /\ new.step = appr[a].step /\ new.plan = appr[a].plan
        /\ new.engines = appr[a].plan /\ appr[a].engines \subseteq Engines
    BY Slots DEF IndInv, Approval
  <2> HIDE DEF new
  <2>2. appr'[a] = new
    BY <1>1, <1>3, <2>1, SetNotes DEF IndInv
  <2>3. ~raced => Held(a)
    BY <1>1 DEF IndInv
  <2>5. ~raced => Held(a)'
    BY <1>1, <2>1, <2>2, <2>3
      DEF Held, At, NoneApproved, Waiting, cluster, installPlans
  <2>6. Gathered(a)'
    BY <1>1, <2>1, <2>2 DEF Gathered, At
  <2> QED
    BY <1>1, <1>3, <2>1, <2>5, <2>6, StillStep
<1> QED
  BY <1>1, <1>2, <1>3

\* All engines are locked: the approval starts, or is refused when one is not
\* ready.
LEMMA DecideInv ==
    ASSUME IndInv, NEW a \in Approvers, Decide(a)
    PROVE  IndInv'
<1> DEFINE ok == [appr[a] EXCEPT !.step = "start"]
           refused == [appr[a] EXCEPT !.step = "unlock", !.engines = appr[a].plan,
                                      !.outcome = "refused"]
<1>1. /\ At(a, "lock") /\ appr[a].engines = {}
      /\ UNCHANGED <<cluster, locked, write, budgets>>
      /\ Set(a, ok) \/ Set(a, refused)
  BY DEF Decide
<1>2. /\ ok \in Approval /\ ok.step = "start" /\ ok.plan = appr[a].plan
      /\ refused \in Approval /\ refused.step = "unlock" /\ refused.plan = appr[a].plan
      /\ refused.engines = appr[a].plan
  BY Slots DEF IndInv, Approval, Step, Outcome
<1>3. ~raced => Held(a)
  BY <1>1 DEF IndInv, At
<1> HIDE DEF ok, refused
<1>4. PICK new \in {ok, refused} : Set(a, new)
  BY <1>1
<1>5. appr'[a] = new
  BY <1>1, <1>2, <1>4, SetNotes DEF IndInv, At
<1>6. ~raced => Held(a)'
  BY <1>1, <1>2, <1>3, <1>4, <1>5
    DEF Held, At, NoneApproved, Waiting, cluster, installPlans, budgets
<1>7. Gathered(a)'
  BY <1>2, <1>4, <1>5 DEF Gathered
<1> QED
  BY <1>1, <1>2, <1>4, <1>6, <1>7, StillStep DEF budgets, At

\* A refused approval has given back its locks.
LEMMA UnlockDoneInv ==
    ASSUME IndInv, NEW a \in Approvers, UnlockDone(a)
    PROVE  IndInv'
<1> DEFINE new == Answered(appr[a].outcome, {})
<1>1. new \in Approval /\ new.step = "idle" /\ new.targets = {}
  <2>1. appr[a].outcome \in Outcome
    BY Slots DEF IndInv, Approval
  <2> QED
    BY <2>1, AnsweredTyped
<1>2. Set(a, new) /\ At(a, "unlock") /\ UNCHANGED <<cluster, locked, write, budgets>>
  BY DEF UnlockDone
<1> HIDE DEF new
<1>3. appr'[a] = new
  BY <1>1, <1>2, SetNotes DEF IndInv, At
<1>4. Gathered(a)'
  BY <1>1, <1>3 DEF Gathered
<1> QED
  BY <1>1, <1>2, <1>4, StillStep DEF budgets, At

\* The install plans of the pending engines are gathered for approval.
LEMMA GatherInstallPlansInv ==
    ASSUME IndInv, NEW a \in Approvers, GatherInstallPlans(a)
    PROVE  IndInv'
<1> DEFINE found == {PlanOf[e] : e \in pending}
           new == [appr[a] EXCEPT !.step = "approve", !.plans = found, !.targets = found]
<1>1. /\ found \subseteq Plans
      /\ found \subseteq {PlanOf[e] : e \in Engines}
  BY DEF IndInv, TypeOK
<1>2. Set(a, new) /\ At(a, "start") /\ UNCHANGED <<cluster, locked, write, budgets>>
  BY DEF GatherInstallPlans
<1> HIDE DEF found
<1>3. /\ new \in Approval /\ new.step = "approve" /\ new.plan = appr[a].plan
      /\ new.plans = found /\ new.targets = found
  BY <1>1, Slots DEF IndInv, Approval, Step
<1> HIDE DEF new
<1>4. appr'[a] = new
  BY <1>2, <1>3, SetNotes DEF IndInv, At
<1>5. ~raced => Held(a)
  BY <1>2 DEF IndInv, At
<1>6. ~raced => Held(a)'
  BY <1>2, <1>3, <1>4, <1>5
    DEF Held, At, NoneApproved, Waiting, cluster, installPlans, budgets
<1>7. Gathered(a)'
  BY <1>1, <1>3, <1>4 DEF Gathered
<1> QED
  BY <1>2, <1>3, <1>6, <1>7, StillStep DEF budgets, At

\* The next install plan is read, with its version.
LEMMA GetInstallPlanInv ==
    ASSUME IndInv, NEW a \in Approvers, GetInstallPlan(a)
    PROVE  IndInv'
<1>1. PICK p \in appr[a].plans :
        Set(a, [appr[a] EXCEPT !.step = "put", !.cur = {p}, !.rv = rv[p]])
  BY DEF GetInstallPlan
<1> DEFINE new == [appr[a] EXCEPT !.step = "put", !.cur = {p}, !.rv = rv[p]]
<1>2. At(a, "approve") /\ UNCHANGED <<cluster, locked, write, budgets>> /\ Set(a, new)
  BY <1>1 DEF GetInstallPlan
<1>3. p \in Plans /\ rv[p] \in Nat
  BY Slots DEF IndInv, TypeOK, Approval
<1>4. /\ new \in Approval /\ new.step = "put" /\ new.plan = appr[a].plan
      /\ new.plans = appr[a].plans /\ new.targets = appr[a].targets
      /\ new.cur = {p} /\ new.rv = rv[p]
  BY <1>3, Slots DEF IndInv, Approval, Step
<1> HIDE DEF new
<1>5. appr'[a] = new
  BY <1>2, <1>4, SetNotes DEF IndInv, At
<1>6. ~raced => Held(a)
  BY <1>2 DEF IndInv, At
<1>7. ~raced => Held(a)'
  BY <1>1, <1>2, <1>4, <1>5, <1>6
    DEF Held, At, NoneApproved, Waiting, cluster, installPlans, budgets
<1>8. Gathered(a)'
  BY <1>1, <1>2, <1>4, <1>5 DEF Gathered, IndInv, At, cluster, installPlans, budgets
<1> QED
  BY <1>2, <1>4, <1>7, <1>8, StillStep DEF budgets, At

\* After an install plan, approved or not.
LEMMA NextPlanTyped ==
    ASSUME IndInv, NEW a \in Approvers, At(a, "put"), Set(a, NextInstallPlan(a))
    PROVE  /\ NextInstallPlan(a) \in Approval
           /\ appr'[a] = NextInstallPlan(a)
           /\ appr'[a].step = "approve" /\ appr'[a].plan = appr[a].plan
           /\ appr'[a].plans = appr[a].plans \ appr[a].cur
           /\ appr'[a].targets = appr[a].targets
<1>1. /\ NextInstallPlan(a) \in Approval
      /\ NextInstallPlan(a).step = "approve" /\ NextInstallPlan(a).plan = appr[a].plan
      /\ NextInstallPlan(a).plans = appr[a].plans \ appr[a].cur
      /\ NextInstallPlan(a).targets = appr[a].targets
  BY Slots DEF IndInv, NextInstallPlan, Approval, Step
<1>2. appr'[a] = NextInstallPlan(a)
  BY <1>1, SetNotes DEF IndInv, At
<1> QED
  BY <1>1, <1>2

\* The API server stores an install plan as approved, and the handler goes on:
\* it holds the locks of every engine that waits, or it has given up.
LEMMA StoreStep ==
    ASSUME IndInv, NEW a \in Approvers, NEW p \in Plans, NEW new \in Approval, Set(a, new),
           At(a, "put"), StoreApproved(p),
           UNCHANGED <<pending, upgraded, locked, ready, write, touches, crashes>>,
           faults' = faults \/ Fault,
           abandoned' \subseteq Plans,
           ~raced /\ new.step # "idle" => Held(a)',
           Gathered(a)'
    PROVE  IndInv'
<1>1. /\ approved' \subseteq Plans /\ rv' \in [Plans -> Nat]
      /\ approved \subseteq approved'
      /\ \A o \in Plans : rv'[o] # rv[o] => o \in approved'
  BY DEF StoreApproved, IndInv, TypeOK
<1>2. ~raced => \A e \in Waiting : PlanOf[e] \in approved' \ abandoned' => e \in locked'
  BY DEF IndInv, Held, At
<1>3. /\ faults' \in Nat /\ faults' + touches + crashes \in 0..MaxTroubles
      /\ locked' \subseteq Engines
  BY DEF Fault, Troubles, IndInv, TypeOK
<1> QED
  BY <1>1, <1>2, <1>3, ApprovalStep DEF At

\* The one step that approves: every engine that waits for it is locked.
LEMMA UpdateInstallPlanInv ==
    ASSUME IndInv, NEW a \in Approvers, UpdateInstallPlan(a)
    PROVE  IndInv'
<1> DEFINE new == NextInstallPlan(a)
<1>1. /\ At(a, "put") /\ Set(a, new)
      /\ UNCHANGED <<pending, upgraded, locked, ready, write, budgets>>
  BY DEF UpdateInstallPlan
<1>2. PICK p \in appr[a].plans :
        /\ appr[a].cur = {p}
        /\ touches = 0 /\ rv[p] # appr[a].rv => p \in approved
  BY <1>1 DEF IndInv, Gathered, At
<1>3. StoreApproved(p) /\ abandoned' = abandoned \ {p}
  BY <1>2 DEF UpdateInstallPlan
<1>4. p \in Plans /\ abandoned' \subseteq Plans
  BY <1>3, Slots DEF IndInv, TypeOK, Approval
<1>5. /\ new \in Approval /\ appr'[a] = new
      /\ new.step = "approve" /\ new.plan = appr[a].plan
      /\ new.plans = appr[a].plans \ {p} /\ new.targets = appr[a].targets
  BY <1>1, <1>2, NextPlanTyped
<1> HIDE DEF new
<1>6. ~raced => Held(a)
  BY <1>1 DEF IndInv, At
<1>7. ~raced => Held(a)'
  BY <1>1, <1>5, <1>6 DEF Held, At, Waiting
<1>8. Gathered(a)'
  BY <1>1, <1>2, <1>3, <1>5 DEF StoreApproved, Gathered, IndInv, At, budgets
<1> QED
  BY <1>1, <1>3, <1>4, <1>5, <1>7, <1>8, StoreStep DEF budgets

\* An install plan that has changed was approved by another request, or touched.
LEMMA InstallPlanConflictInv ==
    ASSUME IndInv, NEW a \in Approvers, InstallPlanConflict(a)
    PROVE  IndInv'
<1> DEFINE new == NextInstallPlan(a)
<1>1. /\ At(a, "put") /\ Set(a, new)
      /\ UNCHANGED <<cluster, locked, write, budgets>>
  BY DEF InstallPlanConflict
<1>2. PICK p \in appr[a].plans :
        /\ appr[a].cur = {p}
        /\ touches = 0 /\ rv[p] # appr[a].rv => p \in approved
  BY <1>1 DEF IndInv, Gathered, At
<1>3. rv[p] # appr[a].rv
  BY <1>2 DEF InstallPlanConflict
<1>4. /\ new \in Approval /\ appr'[a] = new
      /\ new.step = "approve" /\ new.plan = appr[a].plan
      /\ new.plans = appr[a].plans \ {p} /\ new.targets = appr[a].targets
  BY <1>1, <1>2, NextPlanTyped
<1> HIDE DEF new
<1>5. ~raced => Held(a)
  BY <1>1 DEF IndInv, At
<1>6. ~raced => Held(a)'
  BY <1>1, <1>4, <1>5 DEF Held, At, Waiting, cluster, budgets
<1>7. Gathered(a)'
  BY <1>1, <1>2, <1>3, <1>4 DEF Gathered, IndInv, At, cluster, installPlans, budgets
<1> QED
  BY <1>1, <1>4, <1>6, <1>7, StillStep DEF budgets, At

\* The plan or all of them again, or the locks are released: what is approved
\* by then, whether the handler knows or not, counts as abandoned.
LEMMA ApproveFailsInv ==
    ASSUME IndInv, NEW a \in Approvers, ApproveFails(a)
    PROVE  IndInv'
<1> DEFINE plan == [appr[a] EXCEPT !.step = "approve", !.cur = {}, !.rv = 0]
           all == [appr[a] EXCEPT !.step = "start", !.cur = {}, !.rv = 0]
           unlock == [appr[a] EXCEPT !.step = "unlock", !.engines = appr[a].plan,
                                     !.plans = {}, !.cur = {}, !.rv = 0,
                                     !.outcome = "error"]
           lost == \E p \in appr[a].cur : rv[p] = appr[a].rv /\ StoreApproved(p)
<1>1. /\ At(a, "start") \/ At(a, "put") \/ (At(a, "approve") /\ appr[a].plans # {})
      /\ UNCHANGED <<pending, upgraded, ready, locked, write, touches, crashes>>
      /\ Fault
      /\ UNCHANGED <<approved, rv>> \/ (At(a, "put") /\ lost)
      /\ \/ At(a, "put") /\ Set(a, plan) /\ UNCHANGED abandoned
         \/ Set(a, all) /\ UNCHANGED abandoned
         \/ Set(a, unlock) /\ abandoned' = abandoned \cup approved'
  BY DEF ApproveFails
<1>2. /\ plan \in Approval /\ plan.step = "approve" /\ plan.plan = appr[a].plan
      /\ plan.plans = appr[a].plans /\ plan.targets = appr[a].targets
      /\ all \in Approval /\ all.step = "start" /\ all.plan = appr[a].plan
      /\ unlock \in Approval /\ unlock.step = "unlock" /\ unlock.plan = appr[a].plan
      /\ unlock.engines = appr[a].plan
  BY Slots DEF IndInv, Approval, Step, Outcome
<1>3. ~At(a, "idle") /\ (~raced => Held(a)) /\ Gathered(a)
  BY <1>1 DEF IndInv, At
<1> HIDE DEF plan, all, unlock, lost
<1>4. PICK new \in {plan, all, unlock} :
        /\ Set(a, new)
        /\ new = plan => At(a, "put")
        /\ new \in {plan, all} => UNCHANGED abandoned
        /\ new = unlock => abandoned' = abandoned \cup approved'
  <2>1. plan # all /\ plan # unlock /\ all # unlock
    BY <1>2
  <2> QED
    BY <1>1, <2>1
<1>5. appr'[a] = new
  BY <1>2, <1>3, <1>4, SetNotes DEF IndInv
<1>6. /\ approved \subseteq approved' /\ approved' \subseteq Plans
      /\ rv' \in [Plans -> Nat]
      /\ At(a, "put") \/ UNCHANGED <<approved, rv>>
  <2>1. CASE UNCHANGED <<approved, rv>>
    BY <2>1 DEF IndInv, TypeOK
  <2>2. CASE At(a, "put") /\ lost
    <3>1. appr[a].cur \subseteq Plans
      BY Slots DEF IndInv, Approval
    <3> QED
      BY <2>2, <3>1 DEF lost, StoreApproved, IndInv, TypeOK
  <2> QED
    BY <1>1, <2>1, <2>2
<1>7. abandoned' \subseteq Plans
  BY <1>4, <1>6 DEF IndInv, TypeOK
<1>8. new = unlock => NoneApproved'
  BY <1>4 DEF NoneApproved
<1>9. ~raced => Held(a)'
  BY <1>1, <1>2, <1>3, <1>4, <1>5, <1>8 DEF Held, At, Waiting
<1>10. Gathered(a)'
  BY <1>1, <1>2, <1>3, <1>4, <1>5, <1>6 DEF Gathered, At
<1>11. CASE UNCHANGED <<approved, rv>>
  <2>1. ~raced => \A e \in Waiting : PlanOf[e] \in approved' \ abandoned' => e \in locked'
    BY <1>1, <1>4, <1>11 DEF IndInv, UpgradeUnderLock, Waiting
  <2>2. /\ faults' \in Nat /\ faults' + touches + crashes \in 0..MaxTroubles
        /\ locked' \subseteq Engines
    BY <1>1 DEF Fault, Troubles, IndInv, TypeOK
  <2> QED
    BY <1>1, <1>2, <1>3, <1>4, <1>6, <1>7, <1>9, <1>10, <1>11, <2>1, <2>2, ApprovalStep
<1>12. CASE At(a, "put") /\ lost
  <2>1. PICK p \in Plans : StoreApproved(p)
    BY <1>12, Slots DEF lost, IndInv, Approval
  <2> QED
    BY <1>1, <1>2, <1>4, <1>7, <1>9, <1>10, <1>12, <2>1, StoreStep
<1> QED
  BY <1>1, <1>11, <1>12

\* No install plan is left: all that were gathered are approved.
LEMMA ApproveDoneInv ==
    ASSUME IndInv, NEW a \in Approvers, ApproveDone(a)
    PROVE  IndInv'
<1> DEFINE new == Answered("ok", appr[a].targets)
<1>1. new \in Approval /\ new.step = "idle" /\ new.targets = appr[a].targets
  <2>1. appr[a].targets \in SUBSET Plans /\ "ok" \in Outcome
    BY Slots DEF IndInv, Approval, Outcome
  <2> QED
    BY <2>1, AnsweredTyped
<1>2. /\ Set(a, new) /\ At(a, "approve") /\ appr[a].plans = {}
      /\ UNCHANGED <<cluster, locked, write, budgets>>
  BY DEF ApproveDone
<1> HIDE DEF new
<1>3. appr'[a] = new
  BY <1>1, <1>2, SetNotes DEF IndInv, At
<1>4. Gathered(a)'
  BY <1>1, <1>2, <1>3 DEF Gathered, IndInv, At, cluster, installPlans, budgets
<1> QED
  BY <1>1, <1>2, <1>4, StillStep DEF budgets, At

---------------------------------------------------------------------------
\* Writes to clusters, OLM, everest-operator and crashes.

\* A step of the world takes locks away only with the engines that wait.
LEMMA WorldStep ==
    ASSUME IndInv, UNCHANGED <<appr, raced, approved, abandoned>>, TypeOK',
           touches' = 0 => touches = 0 /\ rv' = rv,
           locked' \subseteq locked, Waiting' \subseteq Waiting,
           \A e \in Waiting' : e \in locked => e \in locked'
    PROVE  IndInv'
<1>1. RacesNoted'
  BY DEF IndInv, RacesNoted, At
<1>2. UpgradeUnderLock'
  BY DEF IndInv, UpgradeUnderLock, Waiting
<1>3. NoneApproved => NoneApproved'
  BY DEF NoneApproved
<1>4. ASSUME NEW a \in Approvers
      PROVE  (~raced /\ ~At(a, "idle") => Held(a))' /\ Gathered(a)'
  <2>1. Held(a) => Held(a)'
    BY <1>1, <1>3 DEF Held
  <2>2. Gathered(a)'
    BY <1>4 DEF IndInv, Gathered
  <2> QED
    BY <2>1, <2>2 DEF IndInv, At
<1> QED
  BY <1>1, <1>2, <1>4 DEF IndInv

\* A write to a cluster is admitted or applied, which takes no lock.
LEMMA WritesInv ==
    ASSUME IndInv, NEW w \in Writers, WriteAdmit(w) \/ WriteApply(w)
    PROVE  IndInv'
<1>1. UNCHANGED <<pending, upgraded, locked, approved, abandoned, rv, appr, raced, budgets>>
  BY DEF WriteAdmit, WriteApply, cluster, installPlans
<1>2. ready' \subseteq Dbs /\ write' \in [Writers -> {"idle", "admitted"}]
  BY DEF WriteAdmit, WriteApply, cluster, IndInv, TypeOK
<1>3. TypeOK'
  BY <1>1, <1>2 DEF IndInv, TypeOK, budgets
<1> QED
  BY <1>1, <1>3, WorldStep DEF budgets, Waiting

\* Clusters become ready, and the approvals know nothing of it.
LEMMA DbSettlesInv ==
    ASSUME IndInv, DbSettles
    PROVE  IndInv'
<1>1. TypeOK'
  BY DEF DbSettles, IndInv, TypeOK, budgets, installPlans
<1> QED
  BY <1>1, WorldStep DEF DbSettles, budgets, installPlans, Waiting

\* An upgrade that appears late is none that the locks are for.
LEMMA UpgradeAppearsInv ==
    ASSUME IndInv, UpgradeAppears
    PROVE  IndInv'
<1>1. TypeOK' /\ Waiting' \subseteq Waiting
  BY DEF UpgradeAppears, IndInv, TypeOK, budgets, installPlans, Waiting
<1> QED
  BY <1>1, WorldStep DEF UpgradeAppears, budgets, installPlans

\* Another client changes an install plan, which is counted.
LEMMA TouchInstallPlanInv ==
    ASSUME IndInv, TouchInstallPlan
    PROVE  IndInv'
<1>1. rv' \in [Plans -> Nat]
  BY DEF TouchInstallPlan, IndInv, TypeOK
<1>2. touches' \in Nat /\ touches' # 0 /\ faults + touches' + crashes \in 0..MaxTroubles
  BY DEF TouchInstallPlan, Troubles, IndInv, TypeOK
<1>3. TypeOK'
  BY <1>1, <1>2 DEF TouchInstallPlan, IndInv, TypeOK
<1> QED
  BY <1>2, <1>3, WorldStep DEF TouchInstallPlan, Waiting

\* An approved operator is upgraded and does not wait any more.
LEMMA OperatorUpgradesInv ==
    ASSUME IndInv, NEW e \in Engines, OperatorUpgrades(e)
    PROVE  IndInv'
<1>1. TypeOK'
  BY DEF OperatorUpgrades, IndInv, TypeOK, budgets, installPlans
<1>2. locked' \subseteq locked /\ Waiting' \subseteq Waiting
      /\ \A f \in Waiting' : f \in locked => f \in locked'
  BY DEF OperatorUpgrades, Waiting
<1> QED
  BY <1>1, <1>2, WorldStep DEF OperatorUpgrades, budgets, installPlans

\* The server stops: an approval is cut off, and its locks stay.
LEMMA CrashInv ==
    ASSUME IndInv, Crash
    PROVE  IndInv'
<1> DEFINE none == Answered("none", {})
<1>1. none \in Approval /\ none.step = "idle" /\ none.outcome = "none"
  BY AnsweredTyped DEF Outcome
<1>2. \A a \in Approvers : appr'[a] = IF At(a, "idle") THEN appr[a] ELSE none
  BY DEF Crash
<1>3. appr' = [a \in Approvers |-> appr'[a]]
  BY DEF Crash
<1> HIDE DEF none
<1>4. appr' \in [Approvers -> Approval]
  BY <1>1, <1>2, <1>3 DEF IndInv, TypeOK
<1>5. UNCHANGED <<cluster, locked, raced, faults, touches>>
  BY DEF Crash
<1>6. crashes' \in Nat /\ faults + touches + crashes' \in 0..MaxTroubles
  BY DEF Crash, Troubles, IndInv, TypeOK
<1>7. write' \in [Writers -> {"idle", "admitted"}]
  BY DEF Crash
<1>8. TypeOK'
  BY <1>4, <1>5, <1>6, <1>7 DEF cluster, installPlans, IndInv, TypeOK
<1>9. ASSUME NEW a \in Approvers PROVE At(a, "idle")' /\ Gathered(a)'
  BY <1>1, <1>2, <1>5 DEF At, Gathered, IndInv, cluster, installPlans
<1>10. RacesNoted' /\ UpgradeUnderLock'
  BY <1>5, <1>9 DEF RacesNoted, UpgradeUnderLock, cluster, installPlans, IndInv
<1> QED
  BY <1>8, <1>9, <1>10 DEF IndInv

---------------------------------------------------------------------------
\* The theorems.

\* No approval runs at first.
LEMMA InitInv ==
    ASSUME Init
    PROVE  IndInv
<1>1. Answered("none", {}) \in Approval /\ Answered("none", {}).step = "idle"
      /\ Answered("none", {}).outcome = "none"
  BY AnsweredTyped DEF Outcome
<1>2. appr \in [Approvers -> Approval]
      /\ \A a \in Approvers : appr[a].step = "idle" /\ appr[a].outcome = "none"
  BY <1>1 DEF Init
<1>3. faults + touches + crashes \in 0..MaxTroubles
      /\ faults \in Nat /\ touches \in Nat /\ crashes \in Nat
  BY DEF Init
<1>4. /\ rv \in [Plans -> Nat]
      /\ write \in [Writers -> {"idle", "admitted"}]
      /\ pending \subseteq Engines /\ upgraded \subseteq Engines /\ locked \subseteq Engines
      /\ approved \subseteq Plans /\ abandoned \subseteq Plans /\ ready \subseteq Dbs /\ raced \in BOOLEAN
  BY DEF Init
<1>5. TypeOK
  BY <1>2, <1>3, <1>4 DEF TypeOK
<1> QED
  BY <1>2, <1>5 DEF Init, IndInv, RacesNoted, UpgradeUnderLock, Gathered, At

\* Every step keeps the invariant.
LEMMA NextInv ==
    ASSUME IndInv, [Next]_vars
    PROVE  IndInv'
<1>1. ASSUME NEW a \in Approvers, Approve(a) PROVE IndInv'
  BY <1>1, AdmitInv, GetUpgradePlanInv, GetUpgradePlanFailsInv, LockEngineInv,
     LockEngineFailsInv, DecideInv, UnlockDoneInv, GatherInstallPlansInv,
     GetInstallPlanInv, UpdateInstallPlanInv, InstallPlanConflictInv, ApproveFailsInv,
     ApproveDoneInv DEF Approve
<1>2. ASSUME NEW w \in Writers, WriteAdmit(w) \/ WriteApply(w) PROVE IndInv'
  BY <1>2, WritesInv
<1>3. ASSUME NEW e \in Engines, OperatorUpgrades(e) PROVE IndInv'
  BY <1>3, OperatorUpgradesInv
<1>4. CASE DbSettles \/ UpgradeAppears \/ TouchInstallPlan \/ Crash
  BY <1>4, DbSettlesInv, UpgradeAppearsInv, TouchInstallPlanInv, CrashInv
<1>5. CASE UNCHANGED vars
  <2>1. TypeOK'
    BY <1>5 DEF vars, IndInv, TypeOK
  <2> QED
    BY <1>5, <2>1, WorldStep DEF vars, Waiting
<1> QED
  BY <1>1, <1>2, <1>3, <1>4, <1>5 DEF Next

\* The inductive invariant holds of every state.
THEOREM Invariance == Spec => []IndInv
<1>1. Init => IndInv
  BY InitInv
<1>2. IndInv /\ [Next]_vars => IndInv'
  BY NextInv
<1> QED
  BY <1>1, <1>2, PTL DEF Spec

\* Engines, plans and requests keep their types.
THEOREM TypeCorrect == Spec => []TypeOK
<1>1. IndInv => TypeOK
  BY DEF IndInv
<1> QED
  BY <1>1, Invariance, PTL

\* An engine whose plan is approved is locked until its operator has been
\* replaced, unless approvals overlapped or the one that approved gave up:
\* whatever plans OLM makes, and whichever calls fail or lose their answers.
THEOREM UpgradesAreLocked == Spec => []UpgradeUnderLock
<1>1. IndInv => UpgradeUnderLock
  BY DEF IndInv
<1> QED
  BY <1>1, Invariance, PTL

\* As long as OLM leaves the plans alone, a successful answer means that every
\* plan the request found is approved, whatever other requests do.
THEOREM SuccessIsApproval == Spec => []SuccessMeansApproved
<1>1. IndInv => SuccessMeansApproved
  BY DEF IndInv, SuccessMeansApproved, Gathered, At
<1> QED
  BY <1>1, Invariance, PTL

\* Of the steps that end a request only the last one of releasing the locks
\* can answer that the upgrade is refused.
LEMMA RefusedByUnlock ==
    ASSUME TypeOK, NEW a \in Approvers, Approve(a), ~At(a, "idle"),
           appr'[a] = Answered("refused", {})
    PROVE  UnlockDone(a)
<1>1. appr[a] \in Approval
  BY Slots
<1>2. appr'[a].step = "idle" /\ appr'[a].outcome = "refused"
  BY DEF Answered
<1>3. \A new : Set(a, new) => appr'[a] = new
  BY DEF Set, TypeOK
<1>4. ~Set(a, Answered("error", {})) /\ ~Set(a, Answered("ok", appr[a].targets))
  BY <1>2, <1>3 DEF Answered
<1>5. ~Admit(a)
  BY DEF Admit
<1>6. ~GetUpgradePlan(a)
  BY <1>1, <1>2, <1>3 DEF GetUpgradePlan, Approval
<1>7. ~GetUpgradePlanFails(a) /\ ~ApproveDone(a)
  BY <1>4 DEF GetUpgradePlanFails, ApproveDone
<1>8. ~LockEngine(a) /\ ~UnlockEngine(a)
  BY <1>1, <1>2, <1>3 DEF LockEngine, UnlockEngine, Approval, At
<1>9. ~LockEngineFails(a) /\ ~UnlockEngineFails(a)
  BY <1>1, <1>2, <1>3, <1>4 DEF LockEngineFails, UnlockEngineFails, Approval, At
<1>10. ~Decide(a)
  BY <1>1, <1>2, <1>3 DEF Decide, Approval
<1>11. ~GatherInstallPlans(a) /\ ~GetInstallPlan(a)
  BY <1>1, <1>2, <1>3 DEF GatherInstallPlans, GetInstallPlan, Approval
<1>12. ~UpdateInstallPlan(a) /\ ~InstallPlanConflict(a)
  BY <1>1, <1>2, <1>3 DEF UpdateInstallPlan, InstallPlanConflict, NextInstallPlan, Approval
<1>13. ~ApproveFails(a)
  BY <1>1, <1>2, <1>3 DEF ApproveFails, Approval
<1> QED
  BY <1>5, <1>6, <1>7, <1>8, <1>9, <1>10, <1>11, <1>12, <1>13 DEF Approve

\* A refused upgrade leaves no engine locked, unless approvals have overlapped.
THEOREM RefusalsUnlock == Spec => RefusalUnlocks
<1> DEFINE Unlocks(a) ==
      ~At(a, "idle") /\ appr'[a] = Answered("refused", {}) /\ ~raced => locked' = {}
<1>1. ASSUME IndInv, [Next]_vars, NEW a \in Approvers PROVE Unlocks(a)
  <2> SUFFICES ASSUME ~At(a, "idle"), appr'[a] = Answered("refused", {}), ~raced
               PROVE  locked' = {}
    OBVIOUS
  <2>1. TypeOK /\ Held(a)
    BY <1>1 DEF IndInv
  <2>2. appr'[a] # appr[a]
    BY DEF Answered, At
  <2>3. CASE Approve(a)
    <3>1. UnlockDone(a)
      BY <2>1, <2>3, RefusedByUnlock
    <3> QED
      BY <2>1, <3>1 DEF UnlockDone, Held, At
  <2>4. ASSUME NEW b \in Approvers, Approve(b), b # a PROVE FALSE
    <3>1. \A new : Set(b, new) => appr'[a] = appr[a]
      BY <2>1, <2>4 DEF Set, TypeOK
    <3>2. ASSUME \A new : ~Set(b, new) PROVE FALSE
      BY <2>4, <3>2 DEF Approve, Admit, GetUpgradePlan, GetUpgradePlanFails, LockEngine,
           LockEngineFails, Decide, UnlockEngine, UnlockEngineFails, UnlockDone,
           GatherInstallPlans, GetInstallPlan, UpdateInstallPlan, InstallPlanConflict,
           ApproveFails, ApproveDone
    <3> QED
      BY <2>2, <3>1, <3>2
  <2>5. CASE \E b \in Approvers : Approve(b)
    BY <2>3, <2>4, <2>5
  <2>6. CASE UNCHANGED appr
    BY <2>2, <2>6
  <2>7. CASE Crash
    <3>1. appr'[a] = Answered("none", {})
      BY <2>7 DEF Crash
    <3> QED
      BY <3>1 DEF Answered
  <2> QED
    BY <1>1, <2>5, <2>6, <2>7 DEF Next, WriteAdmit, WriteApply, DbSettles, UpgradeAppears,
                                  TouchInstallPlan, OperatorUpgrades, vars
<1>2. IndInv /\ [Next]_vars => \A a \in Approvers : Unlocks(a)
  BY <1>1
<1> QED
  BY <1>2, Invariance, PTL DEF RefusalUnlocks, Spec
============================================================================
