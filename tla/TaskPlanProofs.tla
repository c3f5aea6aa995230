--------------------------- MODULE TaskPlanProofs ---------------------------
(* The invariants of TaskPlan hold for every set of ids, budgets, statuses *)
(* and every bound, not only for the instance TLC checks.                  *)
EXTENDS TaskPlan, SequenceTheorems, WellFoundedInduction,
        TLAPS

\* A function from an initial segment of the naturals is a sequence.
LEMMA SegmentIsSeq ==
    ASSUME NEW S, NEW n \in Nat, NEW p \in [1 .. n -> S]
    PROVE  p \in Seq(S) /\ Len(p) = n /\ DOMAIN p = 1 .. n
BY SeqDef

\* What the two list writes accept is a sequence of steps and is well formed.
LEMMA AcceptedLists ==
    ASSUME NEW p \in PlanLists \cup TodoLists
    PROVE  p \in Seq(Step) /\ Valid(p)
<1>1. PlanSteps \subseteq Step
  BY AttemptsAssumption, BudgetsAssumption, StatusesAssumption, RetriesAssumption
     DEF PlanSteps, Step
<1>2. TodoSteps \subseteq Step
  BY DEF TodoSteps, TodoStep, TodoStatus, Step, Status, Retry, NoBudget
<1>3. PICK S \in {PlanSteps, TodoSteps} : p \in Accepted(S)
  BY DEF PlanLists, TodoLists
<1>4. PICK n \in 0 .. MaxSteps : p \in [1 .. n -> S]
  BY <1>3 DEF Accepted
<1>5. n \in Nat /\ p \in [1 .. n -> Step]
  BY <1>1, <1>2, <1>4, BoundsAssumption
<1> QED
  BY <1>3, <1>5, SegmentIsSeq DEF Accepted

\* The types of the pieces that the actions combine.
LEMMA StepTypes ==
    ASSUME TypeOK
    PROVE  /\ Len(plan) \in Nat
           /\ DOMAIN plan = 1 .. Len(plan)
           /\ plan \in [1 .. Len(plan) -> Step]
           /\ \A i \in DOMAIN plan : plan[i] \in Step
           /\ IdsOf(plan) \subseteq Ids
<1>1. plan \in Seq(Step)
  BY DEF TypeOK
<1>2. /\ Len(plan) \in Nat
      /\ DOMAIN plan = 1 .. Len(plan)
      /\ plan \in [1 .. Len(plan) -> Step]
  BY <1>1, LenProperties
<1>3. \A i \in DOMAIN plan : plan[i] \in Step /\ plan[i].id \in Ids
  BY <1>2 DEF Step
<1> QED
  BY <1>2, <1>3 DEF IdsOf

\* A rewrite that keeps ids and dependencies, and leaves at most one step in
\* progress, keeps a plan well formed.
LEMMA SameShape ==
    ASSUME NEW p, NEW q, Valid(p), DOMAIN q = DOMAIN p,
           \A i \in DOMAIN p : q[i].id = p[i].id /\ q[i].deps = p[i].deps,
           \A i, j \in Active(q) : i = j
    PROVE  Valid(q)
<1>1. IdsOf(q) = IdsOf(p)
  BY DEF IdsOf
<1>2. \A i, j \in DOMAIN q : q[i].id = q[j].id => i = j
  BY DEF Valid
<1>3. \A i \in DOMAIN q : q[i].deps \subseteq IdsOf(q) \ {q[i].id}
  BY <1>1 DEF Valid
<1>4. Acyclic(q)
  BY DEF Valid, Acyclic
<1> QED
  BY <1>2, <1>3, <1>4 DEF Valid

\* The first of a non-empty set of positions is one of them.
LEMMA FirstInSet ==
    ASSUME NEW n \in Nat, NEW S \in SUBSET (1 .. n), S # {}
    PROVE  First(S) \in S
<1> DEFINE R == OpToRel(<, Nat)
<1>1. IsWellFoundedOn(R, Nat)
  BY NatLessThanWellFounded
<1>2. \A i, j \in Nat : <<j, i>> \in R <=> j < i
  BY DEF OpToRel
<1> HIDE DEF R
<1>3. S \subseteq Nat
  OBVIOUS
<1>4. PICK i \in S : \A j \in S : ~(<<j, i>> \in R)
  BY <1>1, <1>3, WFMin
<1>5. \A j \in S : ~(j < i)
  BY <1>2, <1>3, <1>4
<1>6. \A j \in S : i <= j
  BY <1>3, <1>5
<1> QED
  BY <1>6 DEF First

Inv == TypeOK /\ PlanWellFormed /\ BudgetRespected

\* The step that failed is the only one that was in progress.
LEMMA FailingIsActive ==
    ASSUME Inv
    PROVE  Failing(plan) = Active(plan)
<1>1. Len(plan) \in Nat /\ Active(plan) \subseteq 1 .. Len(plan)
  BY StepTypes DEF Inv, Active
<1>2. Active(plan) # {} => First(Active(plan)) \in Active(plan)
  BY <1>1, FirstInSet
<1>3. \A i, j \in Active(plan) : i = j
  BY DEF Inv, PlanWellFormed, Valid
<1> QED
  BY <1>2, <1>3 DEF Failing

\* A list written as a whole replaces plan and history together.
LEMMA ReplaceStep ==
    ASSUME NEW p \in PlanLists \cup TodoLists, Replace(p)
    PROVE  Inv'
<1>1. p \in Seq(Step) /\ Valid(p)
  BY AcceptedLists
<1>2. plan' = p /\ reopened' = IdsOf(p)
  BY DEF Replace
<1>3. \A i \in DOMAIN p : p[i] \in Step
  BY <1>1, LenProperties
<1>4. IdsOf(p) \subseteq Ids
  BY <1>3 DEF IdsOf, Step
<1>5. TypeOK'
  BY <1>1, <1>2, <1>4 DEF TypeOK
<1>6. BudgetRespected'
  BY <1>2 DEF BudgetRespected, IdsOf
<1> QED
  BY <1>1, <1>2, <1>5, <1>6 DEF Inv, PlanWellFormed

\* A merge changes the status of steps it names, which become reopened, and
\* appends reopened items; validation is repeated on the result.
LEMMA MergeStep ==
    ASSUME Inv, TodoMerge
    PROVE  Inv'
<1>0. PICK D \in SUBSET IdsOf(plan) : \E upd \in [D -> TodoStatus] :
        \E fresh \in {<<>>} \cup {<<s>> : s \in TodoSteps} :
           /\ Valid(Merged(upd, fresh))
           /\ plan' = Merged(upd, fresh)
           /\ reopened' = reopened \cup D \cup IdsOf(fresh)
  BY DEF TodoMerge
<1>1. PICK upd \in [D -> TodoStatus], fresh \in {<<>>} \cup {<<s>> : s \in TodoSteps} :
           /\ Valid(Merged(upd, fresh))
           /\ plan' = Merged(upd, fresh)
           /\ reopened' = reopened \cup D \cup IdsOf(fresh)
  BY <1>0
<1> DEFINE kept == [i \in DOMAIN plan |->
                      IF plan[i].id \in DOMAIN upd
                      THEN [plan[i] EXCEPT !.status = upd[plan[i].id]]
                      ELSE plan[i]]
<1>2. /\ Len(plan) \in Nat /\ DOMAIN plan = 1 .. Len(plan)
      /\ \A i \in DOMAIN plan : plan[i] \in Step
      /\ IdsOf(plan) \subseteq Ids
  BY StepTypes DEF Inv
<1>3. kept \in [1 .. Len(plan) -> Step]
  BY <1>2 DEF Step, Status, TodoStatus
<1>4. kept \in Seq(Step) /\ Len(kept) = Len(plan)
  BY <1>2, <1>3, SegmentIsSeq
<1>5. fresh \in Seq(Step)
  <2>1. TodoSteps \subseteq Step
    BY DEF TodoSteps, TodoStep, TodoStatus, Step, Status, Retry, NoBudget
  <2>2. <<>> \in Seq(Step)
    BY EmptySeq
  <2>3. ASSUME NEW t \in Step PROVE <<t>> \in Seq(Step)
    BY <2>3
  <2> QED
    BY <1>1, <2>1, <2>2, <2>3
<1>6. plan' = kept \o fresh
  BY <1>1 DEF Merged
<1> HIDE DEF kept
<1>7. /\ plan' \in Seq(Step)
      /\ Len(plan') = Len(plan) + Len(fresh)
      /\ \A i \in 1 .. Len(plan') :
            plan'[i] = IF i <= Len(plan) THEN kept[i] ELSE fresh[i - Len(plan)]
  BY <1>4, <1>5, <1>6, ConcatProperties, SMTT(30)
<1>8. Len(fresh) \in Nat /\ DOMAIN fresh = 1 .. Len(fresh)
      /\ \A i \in DOMAIN fresh : fresh[i] \in Step
  BY <1>5, LenProperties
<1>9. TypeOK'
  <2>1. IdsOf(fresh) \subseteq Ids
    BY <1>8 DEF IdsOf, Step
  <2> QED
    BY <1>1, <1>2, <1>7, <2>1 DEF TypeOK, Inv
<1>10. BudgetRespected'
  <2> SUFFICES ASSUME NEW i \in 1 .. Len(plan'), Exhausted(plan'[i]),
                      plan'[i].status \in {"pending", "in_progress"}
               PROVE  plan'[i].id \in reopened'
    BY <1>7, LenProperties DEF BudgetRespected
  <2>1. CASE i <= Len(plan)
    <3>1. plan'[i] = kept[i] /\ i \in DOMAIN plan
      BY <1>2, <1>7, <1>8, <2>1
    <3>2. CASE plan[i].id \in D
      BY <1>1, <1>2, <3>1, <3>2 DEF kept, Step
    <3>3. CASE plan[i].id \notin D
      BY <1>1, <1>2, <3>1, <3>3 DEF kept, Inv, BudgetRespected
    <3> QED
      BY <3>2, <3>3
  <2>2. CASE ~(i <= Len(plan))
    <3>1. i - Len(plan) \in DOMAIN fresh /\ plan'[i] = fresh[i - Len(plan)]
      BY <1>2, <1>7, <1>8, <2>2
    <3> QED
      BY <1>1, <3>1 DEF IdsOf
  <2> QED
    BY <2>1, <2>2
<1> QED
  BY <1>1, <1>9, <1>10 DEF Inv, PlanWellFormed

\* An update rewrites one step; only a gated one may become in_progress.
LEMMA UpdateStep ==
    ASSUME Inv, NEW k \in DOMAIN plan, NEW s \in Status, PlanUpdate(k, s)
    PROVE  Inv'
<1>1. PICK b \in Budgets \cup {plan[k].budget} :
        plan' = [plan EXCEPT ![k].status = s, ![k].budget = b]
  BY DEF PlanUpdate
<1>2. /\ Len(plan) \in Nat /\ DOMAIN plan = 1 .. Len(plan)
      /\ \A i \in DOMAIN plan : plan[i] \in Step
  BY StepTypes DEF Inv
<1>3. b \in Nat \cup {NoBudget}
  BY <1>2, BudgetsAssumption DEF Step
<1>4. /\ DOMAIN plan' = DOMAIN plan
      /\ \A i \in DOMAIN plan : i # k => plan'[i] = plan[i]
      /\ plan'[k] = [plan[k] EXCEPT !.status = s, !.budget = b]
  BY <1>1
<1>5. \A i \in DOMAIN plan : /\ plan'[i].id = plan[i].id
                             /\ plan'[i].deps = plan[i].deps
                             /\ plan'[i] \in Step
  <2> SUFFICES ASSUME NEW i \in DOMAIN plan
               PROVE  /\ plan'[i].id = plan[i].id
                      /\ plan'[i].deps = plan[i].deps
                      /\ plan'[i] \in Step
    OBVIOUS
  <2>1. CASE i # k
    BY <1>2, <1>4, <2>1
  <2>2. CASE i = k
    <3> DEFINE old == plan[k]
    <3>1. old \in Step
      BY <1>2
    <3>2. [old EXCEPT !.status = s, !.budget = b] \in Step
      BY <1>3, <3>1 DEF Step
    <3> QED
      BY <1>4, <2>2, <3>1, <3>2 DEF Step
  <2> QED
    BY <2>1, <2>2
<1>6. TypeOK'
  <2>1. plan' \in [1 .. Len(plan) -> Step]
    BY <1>1, <1>2, <1>4, <1>5
  <2>2. plan[k].id \in Ids
    BY <1>2 DEF Step
  <2> QED
    BY <1>2, <2>1, <2>2, SegmentIsSeq DEF TypeOK, Inv, PlanUpdate
<1>7. \A i, j \in Active(plan') : i = j
  <2>1. \A i, j \in Active(plan) : i = j
    BY DEF Inv, PlanWellFormed, Valid
  <2>2. CASE s = "in_progress"
    <3>1. \A j \in Active(plan) : j = k
      BY <2>2 DEF PlanUpdate, MayActivate
    <3> QED
      BY <1>4, <3>1 DEF Active
  <2>3. CASE s # "in_progress"
    <3>1. plan'[k].status = s
      BY <1>2, <1>4 DEF Step
    <3> QED
      BY <1>4, <2>1, <2>3, <3>1 DEF Active
  <2> QED
    BY <2>2, <2>3
<1>8. PlanWellFormed'
  BY <1>4, <1>5, <1>7, SameShape DEF Inv, PlanWellFormed
<1>9. BudgetRespected'
  BY <1>4, <1>5 DEF BudgetRespected, Inv, PlanUpdate
<1> QED
  BY <1>6, <1>8, <1>9 DEF Inv

\* What one recovery does to each position: at most one step is chosen, it
\* was eligible, and every step that was in progress is charged and demoted.
LEMMA RecoverShape ==
    ASSUME Inv, NEW label \in Labels, Recover(label)
    PROVE  \E chosen \in SUBSET Eligible(plan) :
             /\ \A i, j \in chosen : i = j
             /\ chosen # {} => RetryAllowed(label)
             /\ DOMAIN plan' = DOMAIN plan
             /\ \A i \in chosen : plan'[i] = [plan[i] EXCEPT !.status = "in_progress"]
             /\ \A i \in Active(plan) : plan'[i] = Failed(plan[i], label)
             /\ \A i \in DOMAIN plan \ (chosen \cup Active(plan)) : plan'[i] = plan[i]
<1> DEFINE chosen == IF RetryAllowed(label) /\ Eligible(plan) # {}
                     THEN {First(Eligible(plan))} ELSE {}
<1>1. chosen \subseteq Eligible(plan)
  <2>1. Len(plan) \in Nat /\ Eligible(plan) \subseteq 1 .. Len(plan)
    BY StepTypes DEF Inv, Eligible
  <2>2. Eligible(plan) # {} => First(Eligible(plan)) \in Eligible(plan)
    BY <2>1, FirstInSet
  <2> QED
    BY <2>2
<1>2. /\ \A i, j \in chosen : i = j
      /\ chosen # {} => RetryAllowed(label)
  OBVIOUS
<1>3. \A i \in chosen : i \in DOMAIN plan /\ i \notin Active(plan)
  BY <1>1 DEF Eligible, Active
<1>4. plan' = [i \in DOMAIN plan |->
                 IF i \in chosen
                 THEN [(IF i \in Active(plan) THEN Failed(plan[i], label)
                                             ELSE plan[i])
                          EXCEPT !.status = "in_progress"]
                 ELSE IF i \in Active(plan) THEN Failed(plan[i], label)
                                            ELSE plan[i]]
  BY FailingIsActive DEF Recover
<1> HIDE DEF chosen
<1>5. \A i \in Active(plan) : i \in DOMAIN plan
  BY DEF Active
<1>6. /\ DOMAIN plan' = DOMAIN plan
      /\ \A i \in chosen : plan'[i] = [plan[i] EXCEPT !.status = "in_progress"]
      /\ \A i \in Active(plan) : plan'[i] = Failed(plan[i], label)
      /\ \A i \in DOMAIN plan \ (chosen \cup Active(plan)) : plan'[i] = plan[i]
  BY <1>3, <1>4, <1>5
<1> QED
  BY <1>1, <1>2, <1>6

\* One failure more: the step is charged, and blocked once its budget is used.
LEMMA FailedStep ==
    ASSUME NEW s \in Step, NEW label \in Labels
    PROVE  /\ Failed(s, label) \in Step
           /\ Failed(s, label).id = s.id
           /\ Failed(s, label).deps = s.deps
           /\ Failed(s, label).status \in {"blocked", "pending"}
           /\ Exhausted(Failed(s, label)) => Failed(s, label).status = "blocked"
<1> DEFINE n == [s EXCEPT !.attempts = @ + 1,
                          !.retry = IF label = "transient" THEN "future" ELSE @]
           v == IF Exhausted(n) THEN "blocked" ELSE "pending"
<1>1. Failed(s, label) = [n EXCEPT !.status = v]
  BY DEF Failed
<1>2. n \in Step /\ n.id = s.id /\ n.deps = s.deps
  <2>1. s.attempts + 1 \in Nat
    BY DEF Step
  <2>2. (IF label = "transient" THEN "future" ELSE s.retry) \in Retry
    BY DEF Step, Retry
  <2> QED
    BY <2>1, <2>2 DEF Step
<1> HIDE DEF n
<1>3. v \in {"blocked", "pending"} /\ v \in Status
  BY DEF Status
<1>4. /\ [n EXCEPT !.status = v] \in Step
      /\ [n EXCEPT !.status = v].status = v
      /\ [n EXCEPT !.status = v].id = n.id
      /\ [n EXCEPT !.status = v].deps = n.deps
      /\ [n EXCEPT !.status = v].budget = n.budget
      /\ [n EXCEPT !.status = v].attempts = n.attempts
  BY <1>2, <1>3 DEF Step
<1> QED
  BY <1>1, <1>2, <1>3, <1>4 DEF Exhausted

LEMMA RecoverStep ==
    ASSUME Inv, NEW label \in Labels, Recover(label)
    PROVE  Inv'
<1>1. PICK chosen \in SUBSET Eligible(plan) :
        /\ \A i, j \in chosen : i = j
        /\ DOMAIN plan' = DOMAIN plan
        /\ \A i \in chosen : plan'[i] = [plan[i] EXCEPT !.status = "in_progress"]
        /\ \A i \in Active(plan) : plan'[i] = Failed(plan[i], label)
        /\ \A i \in DOMAIN plan \ (chosen \cup Active(plan)) : plan'[i] = plan[i]
  BY RecoverShape
<1>2. /\ Len(plan) \in Nat /\ DOMAIN plan = 1 .. Len(plan)
      /\ \A i \in DOMAIN plan : plan[i] \in Step
  BY StepTypes DEF Inv
<1>3. \A i \in chosen : i \in DOMAIN plan /\ plan[i].status = "pending"
  BY DEF Eligible
<1>4. reopened' = reopened \ {plan[i].id : i \in Active(plan)}
  BY FailingIsActive DEF Recover
<1>5. \A i \in DOMAIN plan : /\ plan'[i].id = plan[i].id
                             /\ plan'[i].deps = plan[i].deps
                             /\ plan'[i] \in Step
  <2> SUFFICES ASSUME NEW i \in DOMAIN plan
               PROVE  /\ plan'[i].id = plan[i].id
                      /\ plan'[i].deps = plan[i].deps
                      /\ plan'[i] \in Step
    OBVIOUS
  <2>1. CASE i \in Active(plan)
    BY <1>1, <1>2, <2>1, FailedStep
  <2>2. CASE i \in chosen
    <3>1. plan'[i] = [plan[i] EXCEPT !.status = "in_progress"]
      BY <1>1, <2>2
    <3>2. plan[i] \in Step
      BY <1>2
    <3> QED
      BY <3>1, <3>2 DEF Step, Status
  <2>3. CASE i \notin chosen \cup Active(plan)
    BY <1>1, <1>2, <2>3
  <2> QED
    BY <2>1, <2>2, <2>3
<1>6. TypeOK'
  <2>1. plan' \in Seq(Step)
    <3>1. plan' \in [1 .. Len(plan) -> Step]
      <4>1. plan' = [i \in DOMAIN plan' |-> plan'[i]]
        BY DEF Recover
      <4> QED
        BY <1>1, <1>2, <1>5, <4>1
    <3> QED
      BY <1>2, <3>1, SegmentIsSeq
  <2> QED
    BY <1>4, <2>1 DEF TypeOK, Inv
<1>7. \A i \in Active(plan') : i \in chosen
  <2> SUFFICES ASSUME NEW i \in Active(plan'), i \notin chosen
               PROVE  FALSE
    OBVIOUS
  <2>1. i \in DOMAIN plan /\ plan'[i].status = "in_progress"
    BY <1>1 DEF Active
  <2>2. CASE i \in Active(plan)
    BY <1>1, <1>2, <2>1, <2>2, FailedStep
  <2>3. CASE i \notin Active(plan)
    BY <1>1, <2>1, <2>3 DEF Active
  <2> QED
    BY <2>2, <2>3
<1>8. PlanWellFormed'
  <2>1. \A i, j \in Active(plan') : i = j
    BY <1>1, <1>7
  <2> QED
    BY <1>1, <1>5, <2>1, SameShape DEF Inv, PlanWellFormed
<1>9. BudgetRespected'
  <2> SUFFICES ASSUME NEW i \in DOMAIN plan, Exhausted(plan'[i]),
                      plan'[i].status \in {"pending", "in_progress"}
               PROVE  plan'[i].id \in reopened'
    BY <1>1 DEF BudgetRespected
  <2>1. i \notin Active(plan)
    BY <1>1, <1>2, FailedStep
  <2>2. plan[i].id \in reopened
    <3>1. CASE i \in chosen
      <4>1. plan'[i] = [plan[i] EXCEPT !.status = "in_progress"]
        BY <1>1, <3>1
      <4>2. Exhausted(plan[i])
        BY <1>2, <4>1 DEF Exhausted, Step
      <4> QED
        BY <1>3, <3>1, <4>2 DEF Inv, BudgetRespected
    <3>2. CASE i \notin chosen
      BY <1>1, <2>1, <3>2 DEF Inv, BudgetRespected
    <3> QED
      BY <3>1, <3>2
  <2>3. \A j \in Active(plan) : plan[j].id # plan[i].id
    BY <2>1 DEF Active, Inv, PlanWellFormed, Valid
  <2> QED
    BY <1>4, <1>5, <2>2, <2>3
<1> QED
  BY <1>6, <1>8, <1>9 DEF Inv

\* The clock only turns a future retry time into one that is due.
LEMMA RetryDueStep ==
    ASSUME Inv, NEW k \in DOMAIN plan, RetryDue(k)
    PROVE  Inv'
<1>1. /\ Len(plan) \in Nat /\ DOMAIN plan = 1 .. Len(plan)
      /\ \A i \in DOMAIN plan : plan[i] \in Step
  BY StepTypes DEF Inv
<1>2. plan' = [plan EXCEPT ![k].retry = "none"] /\ reopened' = reopened
  BY DEF RetryDue
<1>3. /\ DOMAIN plan' = DOMAIN plan
      /\ \A i \in DOMAIN plan : plan'[i] = IF i = k THEN [plan[i] EXCEPT !.retry = "none"]
                                                    ELSE plan[i]
  BY <1>2
<1>4. \A i \in DOMAIN plan :
        /\ plan'[i] \in Step /\ plan'[i].id = plan[i].id
        /\ plan'[i].deps = plan[i].deps /\ plan'[i].status = plan[i].status
        /\ plan'[i].budget = plan[i].budget /\ plan'[i].attempts = plan[i].attempts
  BY <1>1, <1>3 DEF Step, Retry
<1>5. TypeOK'
  <2>1. plan' \in [1 .. Len(plan) -> Step]
    BY <1>1, <1>2, <1>3, <1>4
  <2> QED
    BY <1>1, <1>2, <2>1, SegmentIsSeq DEF TypeOK, Inv
<1>6. PlanWellFormed'
  <2>1. Active(plan') = Active(plan)
    BY <1>3, <1>4 DEF Active
  <2>2. \A i, j \in Active(plan') : i = j
    BY <2>1 DEF Inv, PlanWellFormed, Valid
  <2> QED
    BY <1>3, <1>4, <2>2, SameShape DEF Inv, PlanWellFormed
<1>7. BudgetRespected'
  BY <1>2, <1>3, <1>4 DEF BudgetRespected, Inv, Exhausted
<1> QED
  BY <1>5, <1>6, <1>7 DEF Inv
-----------------------------------------------------------------------------
LEMMA InvInit == Init => Inv
<1> SUFFICES ASSUME Init PROVE Inv
  OBVIOUS
<1>1. plan = <<>> /\ reopened = {} /\ DOMAIN plan = {}
  BY EmptySeq, LenProperties DEF Init
<1>2. TypeOK
  BY <1>1, EmptySeq DEF TypeOK
<1>3. PlanWellFormed
  <2>1. Active(plan) = {}
    BY <1>1 DEF Active
  <2>2. Acyclic(plan)
    <3> SUFFICES ASSUME NEW S \in (SUBSET (DOMAIN plan)) \ {{}}
                 PROVE  \E i \in S : \A j \in S : plan[j].id \notin plan[i].deps
      BY DEF Acyclic
    <3> QED
      BY <1>1
  <2> QED
    BY <1>1, <2>1, <2>2 DEF PlanWellFormed, Valid
<1> QED
  BY <1>1, <1>2, <1>3 DEF Inv, BudgetRespected

LEMMA InvNext == Inv /\ [Next]_vars => Inv'
<1> SUFFICES ASSUME Inv, [Next]_vars PROVE Inv'
  OBVIOUS
<1>1. CASE PlanSet
  BY <1>1, ReplaceStep DEF PlanSet
<1>2. CASE TodoReplace
  BY <1>2, ReplaceStep DEF TodoReplace
<1>3. CASE TodoMerge
  BY <1>3, MergeStep
<1>4. CASE \E i \in DOMAIN plan, s \in Status : PlanUpdate(i, s)
  BY <1>4, UpdateStep
<1>5. CASE \E label \in Labels : Recover(label)
  BY <1>5, RecoverStep
<1>6. CASE \E i \in DOMAIN plan : RetryDue(i)
  BY <1>6, RetryDueStep
<1>7. CASE UNCHANGED vars
  <2>1. plan' = plan /\ reopened' = reopened
    BY <1>7 DEF vars
  <2>2. TypeOK' /\ PlanWellFormed'
    BY <2>1 DEF Inv, TypeOK, PlanWellFormed
  <2>3. BudgetRespected'
    BY <2>1 DEF Inv, BudgetRespected
  <2> QED
    BY <2>2, <2>3 DEF Inv
<1> QED
  BY <1>1, <1>2, <1>3, <1>4, <1>5, <1>6, <1>7 DEF Next

\* The plan and its history variable keep their types.
THEOREM TypeCorrect == Spec => []TypeOK
<1>1. Inv => TypeOK
  BY DEF Inv
<1> QED
  BY <1>1, InvInit, InvNext, PTL DEF Spec

\* Unique ids, acyclic dependencies and one active step survive every write
\* and every recovery.
THEOREM PlanStaysWellFormed == Spec => []PlanWellFormed
<1>1. Inv => PlanWellFormed
  BY DEF Inv
<1> QED
  BY <1>1, InvInit, InvNext, PTL DEF Spec

\* Recovery alone never schedules a step whose retry budget is used up.
THEOREM BudgetIsRespected == Spec => []BudgetRespected
<1>1. Inv => BudgetRespected
  BY DEF Inv
<1> QED
  BY <1>1, InvInit, InvNext, PTL DEF Spec

\* What recovery leaves in progress was eligible, and stays eligible after it.
LEMMA RecoverChoosesEligible ==
    ASSUME Inv, NEW label \in Labels, Recover(label), NEW i \in Active(plan')
    PROVE  /\ RetryAllowed(label)
           /\ plan[i].status = "pending"
           /\ plan'[i].deps \subseteq CompletedOf(plan')
           /\ plan'[i].retry = "none"
<1>1. PICK chosen \in SUBSET Eligible(plan) :
        /\ chosen # {} => RetryAllowed(label)
        /\ DOMAIN plan' = DOMAIN plan
        /\ \A j \in chosen : plan'[j] = [plan[j] EXCEPT !.status = "in_progress"]
        /\ \A j \in Active(plan) : plan'[j] = Failed(plan[j], label)
        /\ \A j \in DOMAIN plan \ (chosen \cup Active(plan)) : plan'[j] = plan[j]
  BY RecoverShape
<1>2. \A j \in DOMAIN plan : plan[j] \in Step
  BY StepTypes DEF Inv
<1>3. i \in DOMAIN plan /\ plan'[i].status = "in_progress"
  BY <1>1 DEF Active
<1>4. i \notin Active(plan)
  BY <1>1, <1>2, <1>3, FailedStep
<1>5. i \in chosen
  BY <1>1, <1>3, <1>4 DEF Active
<1>6. CompletedOf(plan) \subseteq CompletedOf(plan')
  <2> SUFFICES ASSUME NEW j \in DOMAIN plan, plan[j].status = "completed"
               PROVE  plan[j].id \in CompletedOf(plan')
    BY DEF CompletedOf
  <2>1. plan'[j] = plan[j]
    BY <1>1 DEF Active, Eligible
  <2> QED
    BY <1>1, <2>1 DEF CompletedOf
<1>7. /\ plan'[i].deps = plan[i].deps
      /\ plan'[i].retry = plan[i].retry
  BY <1>1, <1>2, <1>3, <1>5 DEF Step
<1> QED
  BY <1>1, <1>5, <1>6, <1>7 DEF Eligible

\* Every recovery step of every behaviour chooses what it activates safely.
THEOREM RecoveryIsSafe == Spec => RecoverySafe
<1>1. Inv /\ [Next]_vars =>
        [\A label \in Labels : Recover(label) =>
            \A i \in Active(plan') :
               /\ RetryAllowed(label)
               /\ plan[i].status = "pending"
               /\ plan'[i].deps \subseteq CompletedOf(plan')
               /\ plan'[i].retry = "none"]_vars
  BY RecoverChoosesEligible
<1> QED
  BY <1>1, InvInit, InvNext, PTL DEF Spec, RecoverySafe

=============================================================================
