--------------------------- MODULE EngineUpgrade ---------------------------
(***************************************************************************)
(* Operator upgrades in one namespace: ApproveUpgradePlan and its helpers  *)
(* (internal/server/handlers/k8s/database_engine.go), the engine lock      *)
(* (pkg/kubernetes/database_engine.go), the approval of OLM install plans  *)
(* (pkg/kubernetes/olm_install_plan.go) and the middleware that refuses    *)
(* writes while an engine is locked (internal/server/middlewares.go).      *)
(*                                                                         *)
(* OLM and everest-operator are external: they replace operators once      *)
(* their install plan is approved and then take the lock away.             *)
(***************************************************************************)
EXTENDS Naturals, FiniteSets

CONSTANTS
    Engines,     \* database engines of the namespace
    Plans,       \* OLM install plans
    PlanOf,      \* PlanOf[e]: the install plan of the next version of e
    Late,        \* engines whose new version shows up only later
    Dbs,         \* database clusters
    EngineOf,    \* EngineOf[d]: the engine of cluster d
    Approvers,   \* slots for concurrent approval requests
    Writers,     \* slots for concurrent writes to database clusters
    MaxTroubles  \* bound on faults, touches and crashes

ASSUME EngineUpgradeAssumption ==
    /\ PlanOf \in [Engines -> Plans]
    /\ Late \subseteq Engines
    /\ EngineOf \in [Dbs -> Engines]
    /\ MaxTroubles \in Nat

VARIABLES
    pending,   \* engines with a next version (GetNextUpgradeVersion)
    upgraded,  \* engines whose operator has been replaced
    locked,    \* engines with the upgrade-lock annotation
    approved,  \* install plans with spec.approved
    abandoned, \* install plans approved before an approval that gave up
    rv,        \* rv[p]: resourceVersion of install plan p
    ready,     \* clusters whose preflight task is Ready
    appr,      \* appr[a]: an ApproveUpgradePlan request
    raced,     \* whether two approvals have run at the same time
    write,     \* write[w]: where a write request is
    faults,    \* calls whose retries were used up
    touches,   \* updates OLM made to install plans
    crashes    \* crashes of the API server

vars == <<pending, upgraded, locked, approved, abandoned, rv, ready, appr, raced,
          write, faults, touches, crashes>>

installPlans == <<approved, abandoned, rv>>
cluster == <<pending, upgraded, installPlans, ready>>
budgets == <<faults, touches, crashes>>

Step == {"idle", "plan", "lock", "unlock", "start", "approve", "put"}
Outcome == {"none", "ok", "refused", "error"}

Approval == [step : Step, plan : SUBSET Engines, allReady : BOOLEAN,
             engines : SUBSET Engines, plans : SUBSET Plans,
             targets : SUBSET Plans, cur : SUBSET Plans, rv : Nat,
             outcome : Outcome]

\* A request slot that holds nothing but the answer to its last request.
Answered(outcome, targets) ==
    [step |-> "idle", plan |-> {}, allReady |-> FALSE, engines |-> {},
     plans |-> {}, targets |-> targets, cur |-> {}, rv |-> 0,
     outcome |-> outcome]

TypeOK ==
    /\ pending \subseteq Engines /\ upgraded \subseteq Engines
    /\ locked \subseteq Engines
    /\ approved \subseteq Plans /\ abandoned \subseteq Plans
    /\ rv \in [Plans -> Nat]
    /\ ready \subseteq Dbs
    /\ appr \in [Approvers -> Approval]
    /\ raced \in BOOLEAN
    /\ write \in [Writers -> {"idle", "admitted"}]
    /\ faults \in Nat /\ touches \in Nat /\ crashes \in Nat
    /\ faults + touches + crashes \in 0..MaxTroubles

Init ==
    /\ pending = Engines \ Late
    /\ upgraded = {}
    /\ locked = {}
    /\ approved = {}
    /\ abandoned = {}
    /\ rv = [p \in Plans |-> 0]
    /\ ready = Dbs
    /\ appr = [a \in Approvers |-> Answered("none", {})]
    /\ raced = FALSE
    /\ write = [w \in Writers |-> "idle"]
    /\ faults = 0 /\ touches = 0 /\ crashes = 0

---------------------------------------------------------------------------

\* shouldAllowRequestDuringEngineUpgrade for a write to a target resource.
\* The approval path contains "database-engines", so it is checked too.
AllowRequest == locked = {}

At(a, step) == appr[a].step = step

\* Request a is now at record; approvals that run at the same time are noted.
Set(a, record) ==
    /\ appr' = [appr EXCEPT ![a] = record]
    /\ raced' = (raced \/ (record.step # "idle"
                            /\ \E b \in Approvers \ {a} : ~At(b, "idle")))

Troubles == faults + touches + crashes

\* A call of a request gives up: its retries are used up, its context has
\* ended, or the API server refuses it.
Fault == Troubles < MaxTroubles /\ faults' = faults + 1

---------------------------------------------------------------------------
\* ApproveUpgradePlan

Admit(a) ==
    /\ At(a, "idle")
    /\ AllowRequest
    /\ Set(a, [Answered("none", {}) EXCEPT !.step = "plan"])
    /\ UNCHANGED <<cluster, locked, write, budgets>>

\* Mutant of GetUpgradePlan: the upgrade starts before the engines are locked.
StartUnlocked(a) ==
    /\ At(a, "plan")
    /\ Set(a, [appr[a] EXCEPT !.step = "start", !.plan = pending,
                              !.allReady = TRUE])
    /\ UNCHANGED <<cluster, locked, write, budgets>>

\* getUpgradePlan: the engines with a next version and whether every cluster
\* of theirs passes the preflight checks.
GetUpgradePlan(a) ==
    /\ At(a, "plan")
    /\ Set(a, [appr[a] EXCEPT
                 !.step = "lock", !.plan = pending, !.engines = pending,
                 !.allReady = \A d \in Dbs : EngineOf[d] \in pending => d \in ready])
    /\ UNCHANGED <<cluster, locked, write, budgets>>

GetUpgradePlanFails(a) ==
    /\ At(a, "plan")
    /\ Fault
    /\ Set(a, Answered("error", {}))
    /\ UNCHANGED <<cluster, locked, write, touches, crashes>>

\* setLockDBEnginesForUpgrade(true), one engine at a time.
LockEngine(a) ==
    /\ At(a, "lock")
    /\ \E e \in appr[a].engines :
         /\ locked' = locked \cup {e}
         /\ Set(a, [appr[a] EXCEPT !.engines = @ \ {e}])
    /\ UNCHANGED <<cluster, write, budgets>>

\* The whole list is tried again, or the handler gives up: then it returns
\* the error and leaves the locks it has taken.
LockEngineFails(a) ==
    /\ At(a, "lock") /\ appr[a].engines # {}
    /\ Fault
    /\ \/ Set(a, [appr[a] EXCEPT !.engines = appr[a].plan])
       \/ Set(a, Answered("error", {}))
    /\ UNCHANGED <<cluster, locked, write, touches, crashes>>

\* Mutant of Decide: a refusal returns without releasing the locks.
RefuseLocked(a) ==
    /\ At(a, "lock") /\ appr[a].engines = {}
    /\ Set(a, IF appr[a].allReady
              THEN [appr[a] EXCEPT !.step = "start"]
              ELSE Answered("refused", {}))
    /\ UNCHANGED <<cluster, locked, write, budgets>>

\* Are we ready to upgrade?  The answer is the one of getUpgradePlan.
Decide(a) ==
    /\ At(a, "lock") /\ appr[a].engines = {}
    /\ Set(a, IF appr[a].allReady
              THEN [appr[a] EXCEPT !.step = "start"]
              ELSE [appr[a] EXCEPT !.step = "unlock", !.engines = appr[a].plan,
                                   !.outcome = "refused"])
    /\ UNCHANGED <<cluster, locked, write, budgets>>

\* Mutant of UnlockEngine: the annotation is refreshed but never deleted.
UnlockKeepsAnnotation(a) ==
    /\ At(a, "unlock")
    /\ \E e \in appr[a].engines :
         /\ locked' = locked \cup {e}
         /\ Set(a, [appr[a] EXCEPT !.engines = @ \ {e}])
    /\ UNCHANGED <<cluster, write, budgets>>

\* setLockDBEnginesForUpgrade(false)
UnlockEngine(a) ==
    /\ At(a, "unlock")
    /\ \E e \in appr[a].engines :
         /\ locked' = locked \ {e}
         /\ Set(a, [appr[a] EXCEPT !.engines = @ \ {e}])
    /\ UNCHANGED <<cluster, write, budgets>>

UnlockEngineFails(a) ==
    /\ At(a, "unlock") /\ appr[a].engines # {}
    /\ Fault
    /\ \/ Set(a, [appr[a] EXCEPT !.engines = appr[a].plan])
       \/ Set(a, Answered("error", {}))
    /\ UNCHANGED <<cluster, locked, write, touches, crashes>>

UnlockDone(a) ==
    /\ At(a, "unlock") /\ appr[a].engines = {}
    /\ Set(a, Answered(appr[a].outcome, {}))
    /\ UNCHANGED <<cluster, locked, write, budgets>>

\* Mutant of GatherInstallPlans: engine names in place of install plan names.
GatherEngineNames(a) ==
    /\ At(a, "start")
    /\ Set(a, [appr[a] EXCEPT !.step = "approve", !.plans = pending])
    /\ UNCHANGED <<cluster, locked, write, budgets>>

\* startOperatorUpgrade lists the engines again and gathers their plans.
GatherInstallPlans(a) ==
    /\ At(a, "start")
    /\ LET found == {PlanOf[e] : e \in pending}
       IN  Set(a, [appr[a] EXCEPT !.step = "approve", !.plans = found,
                                  !.targets = found])
    /\ UNCHANGED <<cluster, locked, write, budgets>>

\* ApproveInstallPlan reads the plan ...
GetInstallPlan(a) ==
    /\ At(a, "approve")
    /\ \E p \in appr[a].plans :
         Set(a, [appr[a] EXCEPT !.step = "put", !.cur = {p}, !.rv = rv[p]])
    /\ UNCHANGED <<cluster, locked, write, budgets>>

NextInstallPlan(a) ==
    [appr[a] EXCEPT !.step = "approve", !.plans = @ \ appr[a].cur, !.cur = {},
                    !.rv = 0]

\* Mutant of UpdateInstallPlan: the plan is written back without the flag.
UpdateUnapproved(a) ==
    /\ At(a, "put")
    /\ \E p \in appr[a].cur :
         rv[p] = appr[a].rv
    /\ Set(a, NextInstallPlan(a))
    /\ UNCHANGED <<pending, upgraded, locked, installPlans, ready, write, budgets>>

\* The API server stores install plan p as approved.  Writing what is already
\* there leaves the resourceVersion alone.
StoreApproved(p) ==
    /\ approved' = approved \cup {p}
    /\ rv' = IF p \in approved THEN rv ELSE [rv EXCEPT ![p] = @ + 1]

\* ... and writes it back approved.
UpdateInstallPlan(a) ==
    /\ At(a, "put")
    /\ \E p \in appr[a].cur :
         /\ rv[p] = appr[a].rv
         /\ StoreApproved(p)
         /\ abandoned' = abandoned \ {p}
    /\ Set(a, NextInstallPlan(a))
    /\ UNCHANGED <<pending, upgraded, locked, ready, write, budgets>>

\* On a conflict ApproveInstallPlan returns (false, nil): the caller drops the
\* flag and goes on with the next plan.
InstallPlanConflict(a) ==
    /\ At(a, "put")
    /\ \E p \in appr[a].cur : rv[p] # appr[a].rv
    /\ Set(a, NextInstallPlan(a))
    /\ UNCHANGED <<cluster, locked, write, budgets>>

\* Another error.  It may be the answer to an update that the API server has
\* carried out: the plan is approved then and the handler does not know.  The
\* plan, or all of startOperatorUpgrade, is tried again, or the upgrade has
\* failed and the locks are released, whatever has been approved by then.
ApproveFails(a) ==
    /\ \/ At(a, "start") \/ At(a, "put")
       \/ At(a, "approve") /\ appr[a].plans # {}
    /\ Fault
    /\ \/ UNCHANGED <<approved, rv>>
       \/ /\ At(a, "put")
          /\ \E p \in appr[a].cur : rv[p] = appr[a].rv /\ StoreApproved(p)
    /\ \/ /\ At(a, "put")
          /\ Set(a, [appr[a] EXCEPT !.step = "approve", !.cur = {}, !.rv = 0])
          /\ UNCHANGED abandoned
       \/ /\ Set(a, [appr[a] EXCEPT !.step = "start", !.cur = {}, !.rv = 0])
          /\ UNCHANGED abandoned
       \/ /\ Set(a, [appr[a] EXCEPT !.step = "unlock", !.engines = appr[a].plan,
                                    !.plans = {}, !.cur = {}, !.rv = 0,
                                    !.outcome = "error"])
          /\ abandoned' = abandoned \cup approved'
    /\ UNCHANGED <<pending, upgraded, ready, locked, write, touches, crashes>>

ApproveDone(a) ==
    /\ At(a, "approve") /\ appr[a].plans = {}
    /\ Set(a, Answered("ok", appr[a].targets))
    /\ UNCHANGED <<cluster, locked, write, budgets>>

---------------------------------------------------------------------------
\* Writes to database clusters, and the world around the API server.

\* checkOperatorUpgradeState lets the request pass ...
WriteAdmit(w) ==
    /\ write[w] = "idle"
    /\ AllowRequest
    /\ write' = [write EXCEPT ![w] = "admitted"]
    /\ UNCHANGED <<cluster, locked, appr, raced, budgets>>

\* ... and its handler changes a cluster, which is then not ready for a while.
WriteApply(w) ==
    /\ write[w] = "admitted"
    /\ \E d \in Dbs : ready' = ready \ {d}
    /\ write' = [write EXCEPT ![w] = "idle"]
    /\ UNCHANGED <<pending, upgraded, locked, installPlans, appr, raced, budgets>>

DbSettles ==
    /\ \E d \in Dbs \ ready : ready' = ready \cup {d}
    /\ UNCHANGED <<pending, upgraded, locked, installPlans, appr, raced, write, budgets>>

\* A new version of an engine is published.
UpgradeAppears ==
    /\ \E e \in Late \ (pending \cup upgraded) : pending' = pending \cup {e}
    /\ UNCHANGED <<upgraded, locked, installPlans, ready, appr, raced, write, budgets>>

\* OLM writes to an install plan.
TouchInstallPlan ==
    /\ Troubles < MaxTroubles
    /\ touches' = touches + 1
    /\ \E p \in Plans : rv' = [rv EXCEPT ![p] = @ + 1]
    /\ UNCHANGED <<pending, upgraded, locked, approved, abandoned, ready, appr, raced,
                   write, faults, crashes>>

\* "The lock is automatically set to false once everest-operator completes
\* its upgrade."
OperatorUpgrades(e) ==
    /\ e \in pending /\ PlanOf[e] \in approved
    /\ pending' = pending \ {e}
    /\ upgraded' = upgraded \cup {e}
    /\ locked' = locked \ {e}
    /\ UNCHANGED <<installPlans, ready, appr, raced, write, budgets>>

\* The API server stops: every request in flight is lost.
Crash ==
    /\ Troubles < MaxTroubles
    /\ crashes' = crashes + 1
    /\ appr' = [a \in Approvers |-> IF At(a, "idle") THEN appr[a]
                                    ELSE Answered("none", {})]
    /\ write' = [w \in Writers |-> "idle"]
    /\ UNCHANGED <<cluster, locked, raced, faults, touches>>

---------------------------------------------------------------------------

Approve(a) ==
    \/ Admit(a) \/ GetUpgradePlan(a) \/ GetUpgradePlanFails(a)
    \/ LockEngine(a) \/ LockEngineFails(a) \/ Decide(a)
    \/ UnlockEngine(a) \/ UnlockEngineFails(a) \/ UnlockDone(a)
    \/ GatherInstallPlans(a) \/ GetInstallPlan(a) \/ UpdateInstallPlan(a)
    \/ InstallPlanConflict(a) \/ ApproveFails(a) \/ ApproveDone(a)

Next ==
    \/ \E a \in Approvers : Approve(a)
    \/ \E w \in Writers : WriteAdmit(w) \/ WriteApply(w)
    \/ \E e \in Engines : OperatorUpgrades(e)
    \/ DbSettles \/ UpgradeAppears \/ TouchInstallPlan \/ Crash

\* A request that has been admitted runs to its end, and an approved operator
\* is finally replaced.
Fairness ==
    /\ \A a \in Approvers : WF_vars(appr[a].step # "idle" /\ Approve(a))
    /\ \A e \in Engines : WF_vars(OperatorUpgrades(e))

Spec == Init /\ [][Next]_vars /\ Fairness

---------------------------------------------------------------------------
\* Properties.

\* From the approval of its install plan until its operator has been
\* replaced an engine is locked ("lock all engines that will be upgraded",
\* ApproveUpgradePlan): database writes are refused the whole time.  Three
\* cases are left out: engines whose new version shows up during the request,
\* approvals that overlap, and plans that were approved, knowingly or not,
\* when an approval gave up and released its locks ("Upgrade has failed, so we
\* release the lock"), until an approval confirms them again.
UpgradeUnderLock ==
    \A e \in pending \ Late :
        PlanOf[e] \in approved \ abandoned /\ ~raced => e \in locked

\* A plan refused because a cluster is not ready leaves no engine locked
\* ("Not ready for upgrade, release the lock", ApproveUpgradePlan).
RefusalUnlocks ==
    [][\A a \in Approvers :
          ~At(a, "idle") /\ appr'[a] = Answered("refused", {}) /\ ~raced
              => locked' = {}]_vars

\* An approval that succeeded has approved every install plan it found, as
\* long as OLM leaves the plans alone (startOperatorUpgrade,
\* ApproveInstallPlan): approvals never undo or skip one another's.
SuccessMeansApproved ==
    touches = 0 =>
        \A a \in Approvers :
            At(a, "idle") /\ appr[a].outcome = "ok" => appr[a].targets \subseteq approved

\* The same, whatever OLM does ("We retry to get an updated install plan").
SuccessAlwaysMeansApproved ==
    \A a \in Approvers :
        At(a, "idle") /\ appr[a].outcome = "ok" => appr[a].targets \subseteq approved

\* Nothing has gone wrong so far.
Undisturbed == Troubles = 0 /\ ~raced

\* Writes come back: unless something goes wrong no engine stays locked for
\* ever, whether its upgrade is refused or carried out
\* (setLockDBEnginesForUpgrade).
LockReleased ==
    \A e \in Engines \ Late :
        (e \in locked /\ Undisturbed) ~> ~(e \in locked /\ Undisturbed)
===========================================================================
