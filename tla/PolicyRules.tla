----------------------------- MODULE PolicyRules -----------------------------
(***************************************************************************)
(* The rules of a pod scheduling policy. The stored policy nests them:     *)
(* component, type of affinity, priority, then a list of terms; whatever   *)
(* becomes empty is left out. The page shows a flat table of rules, and    *)
(* adds, edits and deletes one at a time. It changes the cached policy in  *)
(* place and sends all of it; the cache keeps the change when that fails.  *)
(* After a refusal the hook sends the same contents again, if the policy   *)
(* has the generation the page was rendered with (see ConflictRetry, which *)
(* has the time limit).                                                    *)
(*                                                                         *)
(* The order of the table is left out: the rules are a bag.                *)
(***************************************************************************)
EXTENDS Naturals, Bags, SequencesExt

CONSTANTS
    FormInputs,   \* what is entered in the rule dialog
    FirstConfig,  \* the rules stored at first
    Foreign,      \* rules that other clients add
    MaxRules,     \* bound on the rules in a policy
    MaxVersion,   \* bound on stored versions
    MaxSaves      \* bound on the saves of the user

Components == {"engine", "proxy", "configServer"}
AffinityTypes == {"podAntiAffinity", "podAffinity", "nodeAffinity"}
Priorities == {"preferred", "required"}
Operators == {"In", "NotIn", "Exists", "DoesNotExist"}

VARIABLES
    server,    \* the stored policy
    cache,     \* the policy in the query cache, which the page shows
    toSend,    \* dataToBeSent.current: the update started last
    dialog,    \* the dialog that is open
    selected,  \* selectedRule.current
    sent,      \* the updates under way, in the order they were started in
    saves,     \* how many times the user has saved
    dirty,     \* history: the cache was changed in place since it was read
    asked      \* history: the rules that the user has replaced or deleted since then

vars == <<server, cache, toSend, dialog, selected, sent, saves, dirty, asked>>

-----------------------------------------------------------------------------
(* Rules and terms. *)

NoRule == [component |-> "none"]

RequiresValues(op) == op \in {"In", "NotIn"}

\* affinityFormSchema: what the dialog lets through. An input may still hold
\* what was entered in fields that are no longer shown.
ValidRule(r) ==
    /\ r.priority = "preferred" => r.weight \in 1 .. 100
    /\ r.type = "nodeAffinity" => r.key # "" /\ r.op # ""
    /\ r.type # "nodeAffinity" => r.topology # "" /\ (r.key # "" => r.op # "")
    /\ r.key # "" /\ RequiresValues(r.op) => r.values # ""

\* Mutant of ToTerm: the fields that are not shown are stored too.
ToTermRaw(r) == [weight |-> r.weight, topology |-> r.topology, key |-> r.key,
                 op |-> r.op, values |-> r.values]

\* affinityRulesToDbPayload: the term that stands for a rule. A field that is
\* left out is 0 or empty.
ToTerm(r) ==
    LET selects == r.type = "nodeAffinity" \/ r.key # "" IN
      [weight   |-> IF r.priority = "required" THEN 0 ELSE r.weight,
       topology |-> IF r.type = "nodeAffinity" THEN "" ELSE r.topology,
       key      |-> r.key,
       op       |-> IF selects THEN r.op ELSE "",
       values   |-> IF selects /\ RequiresValues(r.op) THEN r.values ELSE ""]

\* The rule that a term is shown as.
ShownRule(c, t, p, term) ==
    [component |-> c, type |-> t, priority |-> p, weight |-> term.weight,
     topology |-> term.topology, key |-> term.key, op |-> term.op,
     values |-> term.values]

\* The rule that a form input should become.
RuleOf(r) == ShownRule(r.component, r.type, r.priority, ToTerm(r))

\* A level of the policy: f[k], or nothing.
At(f, k) == IF k \in DOMAIN f THEN f[k] ELSE <<>>

\* f with the value v at k; a level that would be empty is deleted.
Put(f, k, v) == [x \in DOMAIN f \cup {k} |-> IF x = k THEN v ELSE f[x]]
Trim(f, k, v) == IF v = <<>> THEN [x \in DOMAIN f \ {k} |-> f[x]] ELSE Put(f, k, v)

Terms(config, c, t, p) == At(At(At(config, c), t), p)

\* dbPayloadToAffinityRules, as a bag.
Rules(config) ==
    LET places == UNION {{<<c, t, p>>} \X (1 .. Len(Terms(config, c, t, p))) :
                        c \in Components, t \in AffinityTypes, p \in Priorities}
        Shown(q) == ShownRule(q[1][1], q[1][2], q[1][3],
                              Terms(config, q[1][1], q[1][2], q[1][3])[q[2]])
    IN  [r \in {Shown(q) : q \in places} |-> Cardinality({q \in places : Shown(q) = r})]

\* Mutant of InsertRule: the list of terms is replaced.
InsertOver(config, r) ==
    LET c == r.component  t == r.type  p == r.priority IN
      Put(config, c, Put(At(config, c), t, Put(At(At(config, c), t), p, <<ToTerm(r)>>)))

\* insertAffinityRuleToExistingPolicy: the levels that are missing are made.
InsertRule(config, r) ==
    LET c == r.component  t == r.type  p == r.priority IN
      Put(config, c, Put(At(config, c), t, Put(At(At(config, c), t), p,
            Append(Terms(config, c, t, p), ToTerm(r)))))

\* The insertion ends with a TypeError: nodeAffinity is there without the list
\* of required terms, and is not given one.
InsertThrows(config, r) ==
    /\ r.type = "nodeAffinity" /\ r.priority = "required"
    /\ At(At(config, r.component), r.type) # <<>>
    /\ Terms(config, r.component, r.type, "required") = <<>>

\* Mutant of RemoveRule: levels that have become empty stay.
RemoveUntidy(config, r) ==
    LET c == r.component  t == r.type  p == r.priority IN
      IF Terms(config, c, t, p) = <<>> THEN config
      ELSE [config EXCEPT ![c][t][p] =
              RemoveFirstMatch(@, LAMBDA term : ShownRule(c, t, p, term) = r)]

\* removeRuleInExistingPolicy: the first term that is shown as this rule goes,
\* and each level that becomes empty with it.
RemoveRule(config, r) ==
    LET c == r.component  t == r.type  p == r.priority
        list == RemoveFirstMatch(Terms(config, c, t, p),
                                 LAMBDA term : ShownRule(c, t, p, term) = r)
    IN  Trim(config, c, Trim(At(config, c), t, Trim(At(At(config, c), t), p, list)))

-----------------------------------------------------------------------------
\* A rule as Kubernetes takes it: a weight for a preference only, a topology
\* key for pods only, values for the operators that compare with values.
IsRule(r) ==
    /\ r.component \in Components /\ r.type \in AffinityTypes /\ r.priority \in Priorities
    /\ r.weight \in IF r.priority = "preferred" THEN 1 .. 100 ELSE {0}
    /\ (r.topology = "") <=> (r.type = "nodeAffinity")
    /\ r.op \in IF r.key = "" THEN {""} ELSE Operators
    /\ (r.values = "") <=> ~RequiresValues(r.op)

\* No list is empty, and no level.
Tidy(config) ==
    \A c \in DOMAIN config :
        /\ config[c] # <<>>
        /\ \A t \in DOMAIN config[c] :
              /\ config[c][t] # <<>>
              /\ \A p \in DOMAIN config[c][t] : config[c][t][p] # <<>>

\* The lists hold terms that stand for rules.
HoldsRules(config) ==
    \A c \in Components, t \in AffinityTypes, p \in Priorities :
        LET list == Terms(config, c, t, p) IN
          /\ list \in Seq(Range(list))
          /\ \A term \in Range(list) : IsRule(ShownRule(c, t, p, term))

\* The dialog lets choose, other clients add what the form would let through,
\* and what is stored at first is in order.
ASSUME PolicyAssumption ==
    /\ \A r \in FormInputs \cup Foreign :
          /\ r.component \in Components /\ r.type \in AffinityTypes
          /\ r.priority \in Priorities /\ r.op \in {""} \cup Operators
    /\ \A r \in Foreign : ValidRule(r)
    /\ Tidy(FirstConfig) /\ HoldsRules(FirstConfig)
    /\ MaxVersion \in Nat \ {0} /\ MaxSaves \in Nat

\* An update: what is sent, under which version; originalGeneration, 0 as long
\* as it follows the page; whether the hook waits after a refusal; whether it is
\* the newest one. The rest is history: nothing had been changed in the cache
\* before it, what it takes out and puts in, the rules replaced or deleted since
\* the policy was read, and whether another generation was shown since.
NewUpdate(config, gone, new) ==
    [config |-> config, version |-> cache.version, orig |-> 0, waits |-> FALSE,
     newest |-> TRUE, clean |-> ~dirty, gone |-> gone, new |-> new,
     asked |-> asked \cup BagToSet(gone), reread |-> FALSE]

\* Nothing is under way; what was sent before is not looked at again.
NoUpdate ==
    [config |-> FirstConfig, version |-> 0, orig |-> 0, waits |-> FALSE,
     newest |-> FALSE, clean |-> FALSE, gone |-> EmptyBag, new |-> EmptyBag,
     asked |-> {}, reread |-> TRUE]

TypeOK ==
    /\ \A p \in {server, cache} :
          /\ p.version \in 1 .. MaxVersion /\ p.gen \in 1 .. p.version
          /\ \A r \in BagToSet(Rules(p.config)) : IsRule(r)
    /\ dialog \in {"closed", "add", "edit", "delete"}
    /\ selected = NoRule \/ IsRule(selected)
    /\ Len(sent) <= 2
    /\ saves \in 0 .. MaxSaves
    /\ dirty \in BOOLEAN
    /\ \A r \in asked : IsRule(r)

Init ==
    /\ server = [config |-> FirstConfig, version |-> 1, gen |-> 1]
    /\ cache = server /\ toSend = NoUpdate
    /\ dialog = "closed" /\ selected = NoRule
    /\ sent = <<>> /\ saves = 0
    /\ dirty = FALSE /\ asked = {}

-----------------------------------------------------------------------------
(* The page. *)

OpenAdd ==
    /\ dialog = "closed"
    /\ dialog' = "add" /\ selected' = NoRule
    /\ UNCHANGED <<server, cache, toSend, sent, saves, dirty, asked>>

\* "Edit" or "Delete" in the row of a rule.
OpenRule(kind, r) ==
    /\ dialog = "closed" /\ kind \in {"edit", "delete"}
    /\ r \in BagToSet(Rules(cache.config))
    /\ dialog' = kind /\ selected' = r
    /\ UNCHANGED <<server, cache, toSend, sent, saves, dirty, asked>>

\* "Cancel"; an update under way goes on. The ref keeps its rule, which is not
\* looked at before the next dialog sets it.
Close ==
    /\ dialog # "closed"
    /\ dialog' = "closed" /\ selected' = NoRule
    /\ UNCHANGED <<server, cache, toSend, sent, saves, dirty, asked>>

\* The generation that the page shows is the one to compare with.
Rendered(u) == IF u.orig = 0 THEN [u EXCEPT !.orig = cache.gen] ELSE u

\* The page follows the newest update only: updates that were started before
\* keep the hook of their last rendering.
Before(updates) ==
    [i \in DOMAIN updates |-> [Rendered(updates[i]) EXCEPT !.newest = FALSE]]

\* updatingPolicy
Updating == \E i \in DOMAIN sent : sent[i].newest

\* The bounds within which the user saves.
MaySave == Len(sent) < 2 /\ saves < MaxSaves /\ server.version < MaxVersion

\* The policy is sent as it is in the cache now.
Send(config, gone, new) ==
    /\ toSend' = NewUpdate(config, gone, new)
    /\ sent' = Append(Before(sent), toSend')
    /\ cache' = [cache EXCEPT !.config = config]
    /\ dirty' = TRUE /\ asked' = asked \cup BagToSet(gone)
    /\ saves' = saves + 1
    /\ UNCHANGED <<server, dialog, selected>>

Without(config) == IF selected = NoRule THEN config ELSE RemoveRule(config, selected)

\* handleFormSubmit: the old rule is taken out and the new one put in. When
\* this throws, nothing is sent, but the old rule is out of the cache. The
\* button is disabled while the newest update is under way.
Submit(r) ==
    LET picked == IF selected = NoRule THEN {} ELSE {selected} IN
    /\ dialog \in {"add", "edit"} /\ ~Updating
    /\ ValidRule(r)
    /\ MaySave
    /\ LET base == Without(cache.config) IN
         /\ BagCardinality(Rules(base)) < MaxRules
         /\ \/ /\ InsertThrows(base, r)
               /\ cache' = [cache EXCEPT !.config = base]
               /\ dirty' = (dirty \/ base # cache.config)
               /\ asked' = asked \cup picked
               /\ UNCHANGED <<server, toSend, dialog, selected, sent, saves>>
            \/ /\ ~InsertThrows(base, r)
               /\ Send(InsertRule(base, r), SetToBag(picked), SetToBag({RuleOf(r)}))

\* handleConfirmDelete; its button can be pressed again.
ConfirmDelete ==
    /\ dialog = "delete" /\ MaySave
    /\ Send(RemoveRule(cache.config, selected), SetToBag({selected}), EmptyBag)

\* An update ends.
End(i) == sent' = RemoveAt(sent, i)

\* The page shows this policy.
Show(policy) ==
    /\ cache' = policy /\ dirty' = FALSE /\ asked' = {}
    /\ toSend' = IF sent' = <<>> THEN NoUpdate
                 ELSE [toSend EXCEPT !.reread = @ \/ policy.gen # cache.gen]

\* The page goes on showing what it has.
KeepShown ==
    /\ toSend' = IF sent' = <<>> THEN NoUpdate ELSE toSend
    /\ UNCHANGED <<cache, dirty, asked>>

\* The policy is read again, beside the updates.
Fetch ==
    /\ cache # server \/ dirty
    /\ UNCHANGED <<server, dialog, selected, sent, saves>>
    /\ Show(server)

-----------------------------------------------------------------------------
(* The server, and the hook (useUpdateEntityWithConflictRetry). *)

\* The generation counts changes of the contents.
Newer(config) ==
    LET step == IF config = server.config THEN 0 ELSE 1 IN
      [config |-> config, version |-> server.version + step, gen |-> server.gen + step]

\* An update is written: its version is the current one. The answer becomes the
\* cached policy, and the dialogs close.
Accept(i) ==
    /\ ~sent[i].waits /\ sent[i].version = server.version
    /\ server.version < MaxVersion
    /\ server' = Newer(sent[i].config)
    /\ End(i) /\ Show(server')
    /\ dialog' = "closed" /\ selected' = NoRule
    /\ UNCHANGED saves

\* It is refused: the policy has a new version. The hook waits, or gives up.
Refuse(i) ==
    /\ ~sent[i].waits /\ sent[i].version # server.version
    /\ \/ sent' = [sent EXCEPT ![i] = [Rendered(@) EXCEPT !.waits = TRUE]]
       \/ End(i)
    /\ KeepShown
    /\ UNCHANGED <<server, dialog, selected, saves>>

\* Mutant of ToResend: the generations are not compared.
ResendAnyway(u, fresh) == TRUE

ToResend(u, fresh) == fresh.gen = u.orig

\* The policy is read again; a read that fails hands over the cached one. What
\* was started last is sent under its version, unless the contents have been
\* changed somewhere else: then the dialog stays, with a message.
ReadAgain(i) ==
    /\ sent[i].waits
    /\ \E fresh \in {server, cache} :
          /\ IF ToResend(sent[i], fresh)
             THEN sent' = Append(Before(RemoveAt(sent, i)),
                                 [toSend EXCEPT !.version = fresh.version])
             ELSE End(i)
          /\ \/ fresh = server /\ Show(fresh)
             \/ fresh = cache /\ KeepShown
    /\ UNCHANGED <<server, dialog, selected, saves>>

\* It fails, written or not: the cache and the dialog stay as they are.
Fail(i) ==
    /\ ~sent[i].waits
    /\ \/ server' = server
       \/ /\ sent[i].version = server.version /\ server.version < MaxVersion
          /\ server' = Newer(sent[i].config)
    /\ End(i) /\ KeepShown
    /\ UNCHANGED <<dialog, selected, saves>>

\* Another client adds a rule.
Elsewhere(r) ==
    /\ server.version < MaxVersion
    /\ BagCardinality(Rules(server.config)) < MaxRules
    /\ server' = Newer(InsertRule(server.config, r))
    /\ UNCHANGED <<cache, toSend, dialog, selected, sent, saves, dirty, asked>>

\* The operator puts the "in use" finalizer on or takes it off.
Operator ==
    /\ server.version < MaxVersion
    /\ server' = [server EXCEPT !.version = @ + 1]
    /\ UNCHANGED <<cache, toSend, dialog, selected, sent, saves, dirty, asked>>

Next ==
    \/ OpenAdd \/ Close \/ ConfirmDelete \/ Fetch \/ Operator
    \/ \E i \in DOMAIN sent : Accept(i) \/ Refuse(i) \/ ReadAgain(i) \/ Fail(i)
    \/ \E kind \in {"edit", "delete"}, r \in BagToSet(Rules(cache.config)) : OpenRule(kind, r)
    \/ \E r \in FormInputs : Submit(r)
    \/ \E r \in Foreign : Elsewhere(r)

Spec == Init /\ [][Next]_vars

-----------------------------------------------------------------------------
(* Properties. *)

\* What is stored has no empty list and no empty level, which Kubernetes would
\* refuse or take for "no node at all".
WellFormed == Tidy(server.config)

\* A save that succeeds changes the rules by what the dialog said, as the
\* dialog showed it: the picked rule goes and the entered one comes; also when
\* it was refused and sent again. Two kinds are excepted: the cache held the
\* remains of an update that failed, or another generation was shown between
\* the press and the sending again, to which the hook compares then.
SaveIsExact ==
    [][\A i \in DOMAIN sent :
         Accept(i) /\ sent[i].clean /\ ~sent[i].reread =>
           Rules(server'.config) =
             (Rules(server.config) (-) sent[i].gone) (+) sent[i].new]_vars

\* How often a rule is in the table.
Copies(r, config) == IF BagIn(r, Rules(config)) THEN Rules(config)[r] ELSE 0

\* No save, not even one after a failure or one that was sent again, takes away
\* a rule that the user has not edited or deleted since the policy was read. A
\* save is excepted that was sent again after another generation was shown
\* meanwhile: it writes all it held.
OthersSurvive ==
    [][\A i \in DOMAIN sent : Accept(i) /\ ~sent[i].reread =>
         \A r \in BagToSet(Rules(server.config)) \ sent[i].asked :
            Copies(r, server.config) <= Copies(r, server'.config)]_vars

=============================================================================
