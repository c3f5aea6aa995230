------------------------------ MODULE TaskPlan ------------------------------
(***************************************************************************)
(* The durable task plan of one session: the `plan` and `todo` tools that  *)
(* the model writes it with (tools.py) and the recovery policy that moves  *)
(* it after a failure (recovery.py, MobileAgentRuntime._recover).          *)
(*                                                                         *)
(* A step keeps its position, because the policy takes the FIRST eligible  *)
(* step.  A retry timestamp is abstracted to what the code tests: absent   *)
(* or already due ("none"), still in the future ("future"), or not a       *)
(* timestamp ("invalid").  Parents, descriptions and evidence of steps are *)
(* left out.                                                               *)
(***************************************************************************)
EXTENDS Integers, Sequences

CONSTANTS
    Ids,          \* identifiers a plan step may carry
    Budgets,      \* retry budgets the model may write (NoBudget for none)
    SetAttempts,  \* failure counts a whole-plan write may carry
    SetStatuses,  \* statuses a whole-plan write may carry
    SetRetries,   \* retry timestamps a whole-plan write may carry
    MaxSteps,     \* bound: steps of one plan
    MaxAttempts   \* bound: failures counted on one step

NoBudget == -1

\* "cancelled" stands for every status string that no code path tests.
Status     == {"pending", "in_progress", "completed", "blocked", "cancelled"}
TodoStatus == {"pending", "in_progress", "completed", "cancelled"}
Retry      == {"none", "future", "invalid"}

ASSUME BudgetsAssumption  == Budgets \subseteq Nat \cup {NoBudget}
ASSUME AttemptsAssumption == SetAttempts \subseteq Nat
ASSUME StatusesAssumption == SetStatuses \subseteq Status
ASSUME RetriesAssumption  == SetRetries \subseteq Retry
ASSUME BoundsAssumption   == MaxSteps \in Nat /\ MaxAttempts \in Nat

Step == [id : Ids, status : Status, deps : SUBSET Ids, attempts : Nat,
         budget : Nat \cup {NoBudget}, retry : Retry]

VARIABLES
    plan,      \* state.plan
    reopened   \* history: ids the model wrote since they last failed
vars == <<plan, reopened>>

IdsOf(p)       == {p[i].id : i \in DOMAIN p}
Active(p)      == {i \in DOMAIN p : p[i].status = "in_progress"}
CompletedOf(p) == {p[i].id : i \in {j \in DOMAIN p : p[j].status = "completed"}}
Exhausted(s)   == s.budget # NoBudget /\ s.attempts >= s.budget
First(S)       == CHOOSE i \in S : \A j \in S : i <= j
-----------------------------------------------------------------------------
(* What the model may write.                                               *)

\* Every non-empty group of steps has one that depends on none of the group.
Acyclic(p) ==
    \A S \in (SUBSET (DOMAIN p)) \ {{}} :
        \E i \in S : \A j \in S : p[j].id \notin p[i].deps

Valid(p) ==
    /\ \A i, j \in DOMAIN p : p[i].id = p[j].id => i = j
    /\ \A i, j \in Active(p) : i = j
    /\ \A i \in DOMAIN p : p[i].deps \subseteq IdsOf(p) \ {p[i].id}
    /\ Acyclic(p)

\* Steps as `plan(action="set")` builds them, and as `todo` builds them.
PlanSteps == [id : Ids, status : SetStatuses, deps : SUBSET Ids,
              attempts : SetAttempts, budget : Budgets, retry : SetRetries]
TodoStep(i, s) == [id |-> i, status |-> s, deps |-> {}, attempts |-> 0,
                   budget |-> NoBudget, retry |-> "none"]
TodoSteps == {TodoStep(i, s) : i \in Ids, s \in TodoStatus}

\* The lists over S that validation lets through.
Accepted(S) == {p \in UNION {[1 .. n -> S] : n \in 0 .. MaxSteps} : Valid(p)}
PlanLists   == Accepted(PlanSteps)
TodoLists   == Accepted(TodoSteps)

Replace(p)  == plan' = p /\ reopened' = IdsOf(p)
PlanSet     == \E p \in PlanLists : Replace(p)
TodoReplace == \E p \in TodoLists : Replace(p)

\* A merge rewrites the status of the steps it names and appends at most one
\* unknown item; dependencies, attempts, budget and retry time stay.
Merged(upd, fresh) ==
    [i \in DOMAIN plan |->
        IF plan[i].id \in DOMAIN upd
        THEN [plan[i] EXCEPT !.status = upd[plan[i].id]]
        ELSE plan[i]] \o fresh

TodoMerge ==
    \E D \in SUBSET IdsOf(plan) : \E upd \in [D -> TodoStatus] :
    \E fresh \in {<<>>} \cup {<<s>> : s \in TodoSteps} :
        LET p == Merged(upd, fresh)
        IN  /\ Len(p) <= MaxSteps
            /\ Valid(p)
            /\ plan' = p
            /\ reopened' = reopened \cup D \cup IdsOf(fresh)

\* `plan(action="update")`: activation is gated, every other status is taken.
\* An update of an id that no step carries raises before it changes anything.
\* Mutant: the other in_progress steps are not looked at.
MayActivateSecond(i) == plan[i].deps \subseteq CompletedOf(plan) /\ plan[i].retry = "none"

MayActivate(i) ==
    /\ plan[i].deps \subseteq CompletedOf(plan)
    /\ \A j \in Active(plan) : j = i
    /\ plan[i].retry = "none"

PlanUpdate(i, requested) ==
    /\ requested = "in_progress" => MayActivate(i)
    /\ \E b \in Budgets \cup {plan[i].budget} :
          plan' = [plan EXCEPT ![i].status = requested, ![i].budget = b]
    /\ reopened' = reopened \cup {plan[i].id}
-----------------------------------------------------------------------------
(* Recovery after a failed call, a failed verification or a stale screen.  *)

Labels == {"approval_required", "stale_or_ambiguous_ui", "transient",
           "verification_gap", "tool_or_strategy_failure"}
RetryAllowed(label) == label # "approval_required"

\* Mutant: prerequisites are not looked at.
EligibleTooEarly(p) == {i \in DOMAIN p : p[i].status = "pending" /\ p[i].retry = "none"}

Eligible(p) == {i \in DOMAIN p :
                  /\ p[i].status = "pending"
                  /\ p[i].deps \subseteq CompletedOf(p)
                  /\ p[i].retry = "none"}

\* Mutants: the budget is spent one failure late; a status no reader knows.
FailedOnceMore(s, label) ==
    [s EXCEPT !.attempts = @ + 1,
              !.retry  = IF label = "transient" THEN "future" ELSE @,
              !.status = IF s.budget # NoBudget /\ s.attempts + 1 > s.budget
                         THEN "blocked" ELSE "pending"]
FailedUnknown(s, label) == [s EXCEPT !.attempts = @ + 1, !.status = label]

\* The in_progress step after one more failure.
Failed(s, label) ==
    LET n == [s EXCEPT !.attempts = @ + 1,
                       !.retry = IF label = "transient" THEN "future" ELSE @]
    IN  [n EXCEPT !.status = IF Exhausted(n) THEN "blocked" ELSE "pending"]

\* The step that failed: the first one in progress, if there is one.
Failing(p) == IF Active(p) = {} THEN {} ELSE {First(Active(p))}

Recover(label) ==
    LET demoted  == [i \in DOMAIN plan |->
                        IF i \in Failing(plan) THEN Failed(plan[i], label)
                                               ELSE plan[i]]
        chosen   == IF RetryAllowed(label) /\ Eligible(plan) # {}
                    THEN {First(Eligible(plan))} ELSE {}
    IN  /\ \A i \in Failing(plan) : plan[i].attempts < MaxAttempts
        /\ plan' = [i \in DOMAIN plan |->
                       IF i \in chosen
                       THEN [demoted[i] EXCEPT !.status = "in_progress"]
                       ELSE demoted[i]]
        /\ reopened' = reopened \ {plan[i].id : i \in Failing(plan)}

\* The clock passes a retry timestamp.
RetryDue(i) ==
    /\ plan[i].retry = "future"
    /\ plan' = [plan EXCEPT ![i].retry = "none"]
    /\ UNCHANGED reopened
-----------------------------------------------------------------------------
Init == plan = <<>> /\ reopened = {}

Next == \/ PlanSet
        \/ TodoReplace
        \/ TodoMerge
        \/ \E i \in DOMAIN plan, s \in Status : PlanUpdate(i, s)
        \/ \E label \in Labels : Recover(label)
        \/ \E i \in DOMAIN plan : RetryDue(i)

Spec == Init /\ [][Next]_vars
-----------------------------------------------------------------------------
\* The type of the plan and of the history variable.
TypeOK == plan \in Seq(Step) /\ reopened \in SUBSET Ids

\* A stored plan has at most one in_progress step, unique ids and an acyclic
\* dependency graph over its own steps, whichever of the two tools or the
\* recovery policy wrote it last (the README's "one active step"; the
\* validation of tools.py, which `update` and `_recover` do not repeat).
PlanWellFormed == Valid(plan)

\* A step that used up its retry budget is scheduled again only if the model
\* wrote that step after its last failure: recovery alone never spends more
\* than the budget, however failures, merges and updates interleave.
BudgetRespected ==
    \A i \in DOMAIN plan :
        Exhausted(plan[i]) /\ plan[i].status \in {"pending", "in_progress"}
            => plan[i].id \in reopened

\* Whatever recovery leaves in progress it chose afresh: never the step that
\* just failed, never after an approval problem, never with an incomplete
\* prerequisite or before its retry time (comment at recovery.py:33).
RecoverySafe ==
    [][\A label \in Labels : Recover(label) =>
         \A i \in Active(plan') :
            /\ RetryAllowed(label)
            /\ plan[i].status = "pending"
            /\ plan'[i].deps \subseteq CompletedOf(plan')
            /\ plan'[i].retry = "none"]_vars
=============================================================================
