------------------------- MODULE AgentRuntimeProofs -------------------------
(* The safety properties of AgentRuntime hold for every set of batches,    *)
(* every goal, every option and every bound, with crashes or, for those at *)
(* the end, without; and the runtime implements SessionLifecycle.          *)
EXTENDS AgentRuntime, SequenceTheorems, TLAPS

\* What the worker's position says about the calls of the turn.
BatchShape ==
    /\ pc \in {"idle", "turn", "model", "finish"}
         => batch = <<>> /\ results = <<>> /\ k = 0
    /\ pc \in {"replay", "replayed"} => Len(batch) = 1 /\ k = 0
    /\ pc = "replay" => results = <<>>
    /\ pc = "replayed" => Len(results) = 1
    /\ pc = "exec" => k = 0 /\ Len(results) < Len(batch)
    /\ pc = "results" => Len(results) = Len(batch) /\ k < Len(results)
    /\ pc = "save" => Len(results) = Len(batch)
    /\ \A i \in DOMAIN results : i \in DOMAIN batch
    /\ \A i \in DOMAIN results : results[i] = "approval" => batch[i] \in Consequential

\* What it says about the session in memory.
MemShape ==
    /\ pc = "idle" => mem = store
    /\ pc \in {"replay", "replayed", "model", "exec", "results"} => mem.status = "running"
    /\ pc = "finish" => mem.status = "blocked"
    /\ pc \in {"idle", "replay", "replayed"} => fork # "now"
    /\ store.status \in {"verified", "failed", "blocked"} /\ fork # "now"
         => pc \in {"idle", "turn"} /\ mem = store

\* A session waits exactly when it holds the consequential call to approve.
ParkedWith(s) ==
    IF s.status = "awaiting_approval" THEN s.pending \in Consequential
                                      ELSE s.pending = NoCall

\* The plan in memory is the plan on disk until a plan write executes.
PlanSync ==
    /\ pc \in {"idle", "replay", "replayed", "turn", "model"} /\ fork # "now"
         => mem.planned = store.planned
    /\ pc = "exec" /\ RequirePlan /\ Has(batch, Mutations)
         => ~Has(batch, {"plan"}) /\ (fork # "now" => mem.planned = store.planned)

\* A session parks with a mutation under the plan that the mutation needs.
ParksPlanned(s) == RequirePlan => (s.pending \in Mutations => s.planned)

\* The call of a replay is the one on disk, and it acted under the plan there.
ParkedPlan ==
    /\ pc \in {"replay", "replayed"}
         => store.status = "awaiting_approval" /\ batch[1] = store.pending
    /\ ParksPlanned(store) /\ ParksPlanned(mem)

\* Between the calls of one batch with a mutation the plan cannot change.
BatchPlan ==
    pc \in {"exec", "results"} /\ RequirePlan
        => \A i \in DOMAIN results :
              results[i] = "approval" /\ batch[i] \in Mutations
                 => mem.planned

\* A live grant is approved, or its session was denied after an aborted replay.
GrantsApproved ==
    fork = "never" =>
        \A c \in grants :
            \/ verdict[c] = "approved"
            \/ store.status = "blocked"
            \/ /\ store.status = "awaiting_approval" /\ store.pending = c
               /\ \/ pc = "idle"
                  \/ pc = "turn" /\ mem.status # "running"

\* A parked session that moves in memory was decided.
Decided ==
    store.status = "awaiting_approval" /\ pc # "idle" /\ mem # store /\ fork # "now"
        => \/ verdict[store.pending] = "approved"
           \/ /\ verdict[store.pending] = "denied"
              /\ mem.status = "blocked" /\ mem.pending = NoCall /\ pc = "turn"

\* The replayed call is approved.
ReplayApproved ==
    pc \in {"replay", "replayed"} => verdict[batch[1]] = "approved"

IInv == /\ TypeOK /\ BatchShape /\ MemShape
        /\ ParkedWith(store) /\ ParkedWith(mem)
        /\ PlanSync /\ ParkedPlan /\ BatchPlan
        /\ GrantsApproved /\ Decided /\ ReplayApproved
        /\ ApprovedBeforeDispatch /\ DurablePlanFirst

\* A client keeps states that runs have left behind.
KeptShape == \A s \in kept : ParkedWith(s) /\ ParksPlanned(s)

-----------------------------------------------------------------------------
(* Sequences and obligations.                                              *)

USE DEF clientVars, Settled, Rerun, ParksPlanned

\* A one-element sequence.
LEMMA OneIsSeq == ASSUME NEW S, NEW x \in S PROVE <<x>> \in Seq(S) /\ Len(<<x>>) = 1
  OBVIOUS

\* A function on 1 .. n is a sequence.
LEMMA TableIsSeq == ASSUME NEW S, NEW n \in Nat, NEW f \in [1 .. n -> S] PROVE f \in Seq(S)
  OBVIOUS

\* An obligation keeps a session and the ledger well typed.
LEMMA OutcomeType ==
  /\ \A s \in Session : AfterOutcome(s) \in Session
  /\ \A s \in Session : ledger \in {"none", "required", "updated"}
                           => LedgerOutcome(s) \in {"none", "required", "updated"}
  BY OptionsAssumption DEF AfterOutcome, LedgerOutcome, Owes, Session

\* An obligation changes nothing else in the session.
LEMMA OutcomeKeeps ==
  ASSUME NEW s \in Session
  PROVE  /\ AfterOutcome(s).status = s.status
         /\ AfterOutcome(s).planned = s.planned
         /\ AfterOutcome(s).pending = s.pending
  BY DEF AfterOutcome, Session
-----------------------------------------------------------------------------
(* One lemma per action: it preserves the inductive invariant.             *)

\* The session in memory becomes the one on disk.
LEMMA ResumeOpenStep == ASSUME IInv, ResumeOpen PROVE IInv'
<1>1. TypeOK'
  BY BoundsAssumption DEF IInv, TypeOK, ResumeOpen, turnVars
<1>2. (BatchShape /\ MemShape /\ ParkedWith(store) /\ ParkedWith(mem) /\
      PlanSync /\ ParkedPlan /\ BatchPlan /\ GrantsApproved /\ Decided /\
      ReplayApproved /\ ApprovedBeforeDispatch /\ DurablePlanFirst)'
  BY DEF IInv, BatchShape, ResumeOpen, turnVars, MemShape, ParkedWith,
     PlanSync, ParkedPlan, BatchPlan, GrantsApproved, Decided, ReplayApproved,
     ApprovedBeforeDispatch, Executed, DurablePlanFirst
<1> QED BY <1>1, <1>2 DEF IInv

\* A waiting session is looked at.
LEMMA ResumePeekStep == ASSUME IInv, ResumePeek PROVE IInv'
<1>1. TypeOK'
  BY DEF IInv, TypeOK, ResumePeek, Keepable, turnVars
<1>2. (BatchShape /\ MemShape /\ ParkedWith(store) /\ ParkedWith(mem) /\
      PlanSync /\ ParkedPlan /\ BatchPlan /\ GrantsApproved /\ Decided /\
      ReplayApproved /\ ApprovedBeforeDispatch /\ DurablePlanFirst)'
  BY DEF IInv, BatchShape, ResumePeek, turnVars, MemShape, ParkedWith,
     PlanSync, ParkedPlan, BatchPlan, GrantsApproved, Decided, ReplayApproved,
     ApprovedBeforeDispatch, Executed, DurablePlanFirst
<1> QED BY <1>1, <1>2 DEF IInv

\* A kept state is run: it is the snapshot, or the run is marked.
LEMMA RunStep == ASSUME IInv, KeptShape, NEW s \in kept, Run(s) PROVE IInv'
<1>1. s \in Session /\ ParkedWith(s) /\ ParksPlanned(s)
  BY DEF IInv, TypeOK, KeptShape
<1>2. TypeOK'
  BY <1>1, BoundsAssumption DEF IInv, TypeOK, Run, turnVars
<1>3. (ParkedWith(mem) /\ ParkedPlan)'
  BY <1>1 DEF IInv, ParkedWith, ParkedPlan, Run
<1>4. (BatchShape /\ MemShape /\ ParkedWith(store) /\ PlanSync /\ BatchPlan /\
      GrantsApproved /\ Decided /\ ReplayApproved /\ ApprovedBeforeDispatch /\
      DurablePlanFirst)'
  BY DEF IInv, BatchShape, Run, turnVars, MemShape, ParkedWith, PlanSync,
     BatchPlan, GrantsApproved, Decided, ReplayApproved,
     ApprovedBeforeDispatch, Executed, DurablePlanFirst
<1> QED BY <1>2, <1>3, <1>4 DEF IInv

\* The parked call is forgotten with a denial, and the session is blocked.
LEMMA ResumeDenyStep == ASSUME IInv, ResumeDeny PROVE IInv'
<1>1. store.pending \in Consequential
  BY DEF IInv, ParkedWith, ResumeDeny
<1>2. mem' \in Session
  BY DEF IInv, TypeOK, Session, Statuses, ResumeDeny
<1>3. TypeOK'
  BY <1>1, <1>2, BoundsAssumption DEF IInv, TypeOK, ResumeDeny, turnVars
<1>4. ParkedPlan'
  BY DEF IInv, TypeOK, Session, ParkedPlan, ResumeDeny, NoCall, Mutations,
     Mobile
<1>5. Decided'
  BY <1>1 DEF IInv, TypeOK, Session, Decided, ResumeDeny
<1>6. (BatchShape /\ MemShape /\ ParkedWith(store) /\ ParkedWith(mem) /\
      PlanSync /\ BatchPlan /\ GrantsApproved /\ ReplayApproved /\
      ApprovedBeforeDispatch /\ DurablePlanFirst)'
  BY DEF IInv, BatchShape, ResumeDeny, turnVars, MemShape, ParkedWith,
     PlanSync, BatchPlan, GrantsApproved, ReplayApproved,
     ApprovedBeforeDispatch, Executed, DurablePlanFirst
<1> QED BY <1>3, <1>4, <1>5, <1>6 DEF IInv

\* The parked call becomes the batch of the replay, approved and granted.
LEMMA ResumeApproveStep == ASSUME IInv, ResumeApprove PROVE IInv'
<1>1. store.pending \in Consequential
  BY DEF IInv, ParkedWith, ResumeApprove
<1>2. batch' \in Seq(Calls)
  <2>1. store.pending \in Calls
    BY <1>1 DEF Calls, Consequential, Dependent, Mutations, Mobile
  <2> QED BY <2>1, OneIsSeq DEF ResumeApprove
<1>3. mem' \in Session
  BY DEF IInv, TypeOK, Session, Statuses, ResumeApprove
<1>4. TypeOK'
  BY <1>1, <1>2, <1>3, BoundsAssumption DEF IInv, TypeOK, ResumeApprove
<1>5. ParkedPlan'
  BY DEF IInv, TypeOK, Session, ParkedPlan, ResumeApprove, NoCall, Mutations,
     Mobile
<1>6. (GrantsApproved /\ Decided /\ ReplayApproved)'
  BY <1>1 DEF IInv, TypeOK, GrantsApproved, Decided, ReplayApproved,
     ResumeApprove
<1>7. (BatchShape /\ MemShape /\ ParkedWith(store) /\ ParkedWith(mem) /\
      PlanSync /\ BatchPlan /\ ApprovedBeforeDispatch /\ DurablePlanFirst)'
  BY DEF IInv, BatchShape, ResumeApprove, MemShape, ParkedWith, PlanSync,
     BatchPlan, ApprovedBeforeDispatch, Executed, DurablePlanFirst
<1> QED BY <1>4, <1>5, <1>6, <1>7 DEF IInv

\* The replayed call is approved and acts under the plan it was parked with.
LEMMA ReplayStep == ASSUME IInv, Replay PROVE IInv'
<1>1. results' \in Seq(Results) /\ Len(results') = 1
  <2>1. results' \in {<<"ok">>, <<"failed">>, <<"error">>}
    BY DEF Replay
  <2> QED BY <2>1, OneIsSeq DEF Results
<1>2. screen' \in Screens
  BY BoundsAssumption DEF IInv, TypeOK, Replay, Screens, Dispatched
<1>3. TypeOK'
  BY <1>1, <1>2 DEF IInv, TypeOK, BatchShape, Replay
<1>4. (ApprovedBeforeDispatch /\ DurablePlanFirst)'
  BY DEF IInv, BatchShape, ParkedPlan, ReplayApproved, ApprovedBeforeDispatch,
     DurablePlanFirst, Executed, Replay
<1>5. (BatchShape /\ MemShape /\ ParkedWith(store) /\ ParkedWith(mem) /\
      PlanSync /\ ParkedPlan /\ BatchPlan /\ GrantsApproved /\ Decided /\
      ReplayApproved)'
  BY DEF IInv, BatchShape, Replay, MemShape, ParkedWith, PlanSync, ParkedPlan,
     BatchPlan, GrantsApproved, Decided, ReplayApproved
<1> QED BY <1>3, <1>4, <1>5 DEF IInv

\* A failed replay changes nothing but the obligation.
LEMMA ReplayResultStep == ASSUME IInv, ReplayResult PROVE IInv'
<1>1. mem' \in Session /\ ledger' \in {"none", "required", "updated"}
  BY OutcomeType DEF IInv, TypeOK, ReplayResult
<1>2. TypeOK'
  BY <1>1 DEF IInv, TypeOK, ReplayResult, ClearTurn
<1>3. (ParkedWith(mem) /\ PlanSync /\ ParkedPlan)'
  BY OutcomeKeeps DEF IInv, TypeOK, ParkedWith, PlanSync, ParkedPlan,
     ReplayResult
<1>4. (BatchShape /\ MemShape /\ ParkedWith(store) /\ BatchPlan /\
      GrantsApproved /\ Decided /\ ReplayApproved /\ ApprovedBeforeDispatch /\
      DurablePlanFirst)'
  BY DEF IInv, BatchShape, ReplayResult, ClearTurn, AfterOutcome, MemShape,
     ParkedWith, BatchPlan, GrantsApproved, Decided, ReplayApproved,
     ApprovedBeforeDispatch, Executed, DurablePlanFirst
<1> QED BY <1>2, <1>3, <1>4 DEF IInv

\* An observation changes nothing but the view and the obligation.
LEMMA ObserveStep == ASSUME IInv, NEW cropped \in BOOLEAN, Observe(cropped) PROVE IInv'
<1>1. mem' \in Session
  <2>1. <<screen, cropped>> \in Views
    BY DEF IInv, TypeOK, Views
  <2> DEFINE seenAt(n) == [mem EXCEPT !.zoom = cropped, !.seen = <<screen, cropped>>,
                                      !.stagnant = n]
  <2>2. \A n \in 0 .. 1 : seenAt(n) \in Session
    BY <2>1 DEF IInv, TypeOK, Session
  <2>3. \A n \in 0 .. 1 : AfterOutcome(seenAt(n)) \in Session
    BY <2>2, OutcomeType
  <2>4. CASE <<screen, cropped>> = mem.seen /\ mem.stagnant = 1
    <3>1. mem' = AfterOutcome(seenAt(0))
      BY <2>4 DEF Observe
    <3> QED BY <2>3, <3>1
  <2>5. CASE <<screen, cropped>> = mem.seen /\ mem.stagnant # 1
    <3>1. mem' = seenAt(1)
      BY <2>5 DEF Observe
    <3> QED BY <2>2, <3>1
  <2>6. CASE <<screen, cropped>> # mem.seen
    <3>1. mem' = seenAt(0)
      BY <2>6 DEF Observe
    <3> QED BY <2>2, <3>1
  <2> QED BY <2>4, <2>5, <2>6
<1>2. ledger' \in {"none", "required", "updated"}
  BY DEF IInv, TypeOK, Observe, LedgerOutcome
<1>3. view' \in Views
  BY DEF IInv, TypeOK, Observe, Views
<1>4. TypeOK'
  BY <1>1, <1>2, <1>3, BoundsAssumption DEF IInv, TypeOK, Observe
<1>5. (BatchShape /\ MemShape /\ ParkedWith(store) /\ ParkedWith(mem) /\
      PlanSync /\ ParkedPlan /\ BatchPlan /\ GrantsApproved /\ Decided /\
      ReplayApproved /\ ApprovedBeforeDispatch /\ DurablePlanFirst)'
  BY DEF IInv, BatchShape, Observe, AfterOutcome, MemShape, ParkedWith,
     PlanSync, ParkedPlan, BatchPlan, GrantsApproved, Decided, ReplayApproved,
     ApprovedBeforeDispatch, Executed, DurablePlanFirst
<1> QED BY <1>4, <1>5 DEF IInv

\* A provider failure changes nothing but the obligation.
LEMMA ModelFailsStep == ASSUME IInv, ModelFails PROVE IInv'
<1>1. TypeOK'
  BY OutcomeType DEF IInv, TypeOK, ModelFails, ClearTurn
<1>2. (BatchShape /\ MemShape /\ ParkedWith(store) /\ ParkedWith(mem) /\
      PlanSync /\ ParkedPlan /\ BatchPlan /\ GrantsApproved /\ Decided /\
      ReplayApproved /\ ApprovedBeforeDispatch /\ DurablePlanFirst)'
  BY DEF IInv, BatchShape, ModelFails, ClearTurn, AfterOutcome, MemShape,
     ParkedWith, PlanSync, ParkedPlan, BatchPlan, GrantsApproved, Decided,
     ReplayApproved, ApprovedBeforeDispatch, Executed, DurablePlanFirst
<1> QED BY <1>1, <1>2 DEF IInv

\* A silent model blocks the session in memory.
LEMMA ModelSilentStep == ASSUME IInv, ModelSilent PROVE IInv'
<1>1. TypeOK'
  BY DEF IInv, TypeOK, Session, Statuses, ModelSilent, ClearTurn
<1>2. (BatchShape /\ MemShape /\ ParkedWith(store) /\ ParkedWith(mem) /\
      PlanSync /\ ParkedPlan /\ BatchPlan /\ GrantsApproved /\ Decided /\
      ReplayApproved /\ ApprovedBeforeDispatch /\ DurablePlanFirst)'
  BY DEF IInv, BatchShape, ModelSilent, ClearTurn, MemShape, ParkedWith,
     PlanSync, ParkedPlan, BatchPlan, GrantsApproved, Decided, ReplayApproved,
     ApprovedBeforeDispatch, Executed, DurablePlanFirst
<1> QED BY <1>1, <1>2 DEF IInv

\* A batch with an Android action has no plan write, or is rejected as a whole.
LEMMA ModelCallsStep == ASSUME IInv, NEW calls \in Batches, ModelCalls(calls) PROVE IInv'
<1>1. calls \in Seq(Calls) /\ Len(calls) \in Nat /\ DOMAIN calls = 1 .. Len(calls)
  BY BatchesAssumption
<1>2. batch' \in Seq(Calls)
  <2>1. CASE batch' = calls
    BY <1>1, <2>1
  <2>2. CASE \E order \in [DOMAIN calls -> DOMAIN calls] :
               batch' = [i \in DOMAIN calls |-> calls[order[i]]]
    <3>1. batch' \in [1 .. Len(calls) -> Calls]
      BY <1>1, <2>2
    <3> QED BY <1>1, <3>1, TableIsSeq
  <2> QED BY <2>1, <2>2 DEF ModelCalls
<1>3. results' \in Seq(Results) /\ \A i \in DOMAIN results' : results'[i] \notin {"ok", "failed"}
  <2>1. CASE results' = [i \in DOMAIN calls |-> IF Rejected(calls) THEN "error" ELSE "gated"]
    <3>1. results' \in [1 .. Len(calls) -> Results]
      BY <1>1, <2>1 DEF Results
    <3>2. results' \in Seq(Results)
      BY <1>1, <3>1, TableIsSeq
    <3> QED BY <2>1, <3>2
  <2>2. CASE results' = <<>>
    BY <2>2
  <2> QED BY <2>1, <2>2 DEF ModelCalls
<1>4. TypeOK'
  <2>1. k' \in 0 .. Len(results')
    BY <1>3 DEF IInv, BatchShape, ModelCalls
  <2>2. pc' \in {"results", "exec"}
    BY DEF ModelCalls
  <2> QED BY <1>2, <1>3, <2>1, <2>2 DEF IInv, TypeOK, ModelCalls
<1>5. PlanSync'
  <2>1. ASSUME RequirePlan, pc' = "exec", Has(batch', Mutations), Has(batch', {"plan"})
        PROVE  FALSE
    <3>1. ~Rejected(calls)
      BY <2>1 DEF ModelCalls
    <3>2. \A S : Has(batch', S) => Has(calls, S)
      BY <1>1, <2>1 DEF Has, ModelCalls
    <3> QED BY <2>1, <3>1, <3>2 DEF Rejected
  <2> QED BY <2>1 DEF IInv, PlanSync, ModelCalls
<1>6. DurablePlanFirst'
  BY <1>3 DEF DurablePlanFirst, Executed
<1>7. (BatchShape /\ MemShape /\ ParkedWith(store) /\ ParkedWith(mem) /\
      ParkedPlan /\ BatchPlan /\ GrantsApproved /\ Decided /\ ReplayApproved /\
      ApprovedBeforeDispatch)'
  BY DEF IInv, BatchShape, ModelCalls, MemShape, ParkedWith, ParkedPlan,
     BatchPlan, GrantsApproved, Decided, ReplayApproved,
     ApprovedBeforeDispatch, Executed
<1> QED BY <1>4, <1>5, <1>6, <1>7 DEF IInv

\* A call that waits is consequential and has a plan on disk if it needs one.
LEMMA ExecParkStep == ASSUME IInv, ExecPark PROVE IInv'
<1>1. results' \in Seq(Results) /\ Len(results') = Len(results) + 1
  BY DEF IInv, TypeOK, Results, ExecPark, Yield
<1>2. TypeOK'
  BY <1>1 DEF IInv, TypeOK, BatchShape, ExecPark, Yield
<1>3. BatchShape'
  BY DEF IInv, TypeOK, BatchShape, ExecPark, Yield, NextCall, NeedsGrant
<1>4. BatchPlan'
  BY <1>1 DEF IInv, TypeOK, BatchShape, PlanSync, BatchPlan, ExecPark, Yield,
     NextCall, NeedsPlan, Has
<1>5. (MemShape /\ ParkedWith(store) /\ ParkedWith(mem) /\ PlanSync /\
      ParkedPlan /\ GrantsApproved /\ Decided /\ ReplayApproved /\
      ApprovedBeforeDispatch /\ DurablePlanFirst)'
  BY DEF IInv, MemShape, ExecPark, Yield, ParkedWith, PlanSync, ParkedPlan,
     GrantsApproved, Decided, ReplayApproved, ApprovedBeforeDispatch,
     Executed, DurablePlanFirst
<1> QED BY <1>2, <1>3, <1>4, <1>5 DEF IInv

\* A dispatched call is granted and has a plan on disk if it needs one.
LEMMA ExecDispatchStep == ASSUME IInv, ExecDispatch PROVE IInv'
<1>1. results' \in Seq(Results) /\ Len(results') = Len(results) + 1
  BY DEF IInv, TypeOK, Results, ExecDispatch, Yield
<1>2. screen' \in Screens
  BY BoundsAssumption DEF IInv, TypeOK, ExecDispatch, Screens, Dispatched
<1>3. TypeOK'
  BY <1>1, <1>2 DEF IInv, TypeOK, BatchShape, ExecDispatch, Yield
<1>4. ApprovedBeforeDispatch'
  BY DEF IInv, TypeOK, BatchShape, MemShape, GrantsApproved,
     ApprovedBeforeDispatch, Executed, ExecDispatch, Yield, NextCall,
     NeedsGrant
<1>5. DurablePlanFirst'
  BY DEF IInv, TypeOK, BatchShape, PlanSync, DurablePlanFirst, Executed,
     ExecDispatch, Yield, NextCall, NeedsPlan, Has
<1>6. (BatchShape /\ MemShape /\ ParkedWith(store) /\ ParkedWith(mem) /\
      PlanSync /\ ParkedPlan /\ BatchPlan /\ GrantsApproved /\ Decided /\
      ReplayApproved)'
  BY DEF IInv, BatchShape, ExecDispatch, Yield, MemShape, ParkedWith,
     PlanSync, ParkedPlan, BatchPlan, GrantsApproved, Decided, ReplayApproved
<1> QED BY <1>3, <1>4, <1>5, <1>6 DEF IInv

\* A plan write shares no batch with an Android action when plans are required.
LEMMA ExecPlanWriteStep == ASSUME IInv, NEW r \in PlanWritten, ExecPlanWrite(r) PROVE IInv'
<1>1. r \in Results /\ r \notin {"ok", "failed", "approval"}
  BY DEF Results, PlanWritten
<1>2. results' \in Seq(Results) /\ Len(results') = Len(results) + 1
  BY <1>1 DEF IInv, TypeOK, ExecPlanWrite, Yield
<1>3. mem' \in Session
  BY DEF IInv, TypeOK, Session, ExecPlanWrite
<1>4. TypeOK'
  BY <1>2, <1>3 DEF IInv, TypeOK, BatchShape, ExecPlanWrite, Yield
<1>5. Has(batch, {"plan"})
  BY DEF IInv, TypeOK, BatchShape, ExecPlanWrite, NextCall, Has
<1>6. BatchShape'
  BY <1>1 DEF IInv, TypeOK, BatchShape, ExecPlanWrite, Yield
<1>7. PlanSync'
  BY <1>5 DEF IInv, PlanSync, ExecPlanWrite, Yield
<1>8. RequirePlan => ~Has(batch, Mutations)
  BY <1>5 DEF IInv, PlanSync, ExecPlanWrite
<1>9. ParkedPlan'
  BY DEF IInv, MemShape, TypeOK, Session, ParkedWith, ParkedPlan, NoCall,
     Mutations, Mobile, ExecPlanWrite, Yield
<1>10. BatchPlan'
  BY <1>1, <1>8 DEF IInv, TypeOK, BatchShape, BatchPlan, ExecPlanWrite, Yield,
     Has
<1>11. (ApprovedBeforeDispatch /\ DurablePlanFirst)'
  BY <1>1 DEF IInv, TypeOK, BatchShape, ApprovedBeforeDispatch,
     DurablePlanFirst, Executed, ExecPlanWrite, Yield
<1>12. (GrantsApproved /\ Decided /\ ReplayApproved)'
  BY DEF IInv, MemShape, GrantsApproved, Decided, ReplayApproved,
     ExecPlanWrite, Yield
<1>13. (MemShape /\ ParkedWith(store) /\ ParkedWith(mem))'
  BY DEF IInv, MemShape, ExecPlanWrite, Yield, ParkedWith
<1> QED BY <1>4, <1>6, <1>7, <1>9, <1>10, <1>11, <1>12, <1>13 DEF IInv

\* An error executes nothing.
LEMMA ExecErrorStep == ASSUME IInv, ExecError PROVE IInv'
<1>1. results' \in Seq(Results) /\ Len(results') = Len(results) + 1
  BY DEF IInv, TypeOK, Results, ExecError, Yield
<1>2. TypeOK'
  BY <1>1 DEF IInv, TypeOK, BatchShape, ExecError, Yield
<1>3. (BatchShape /\ MemShape /\ ParkedWith(store) /\ ParkedWith(mem) /\
      PlanSync /\ ParkedPlan /\ BatchPlan /\ GrantsApproved /\ Decided /\
      ReplayApproved /\ ApprovedBeforeDispatch /\ DurablePlanFirst)'
  BY DEF IInv, BatchShape, ExecError, Yield, MemShape, ParkedWith, PlanSync,
     ParkedPlan, BatchPlan, GrantsApproved, Decided, ReplayApproved,
     ApprovedBeforeDispatch, Executed, DurablePlanFirst
<1> QED BY <1>2, <1>3 DEF IInv

\* An obligation is acknowledged.
LEMMA TakePlanWriteStep == ASSUME IInv, TakePlanWrite PROVE IInv'
<1>1. mem' \in Session
  BY DEF IInv, TypeOK, Session, TakePlanWrite
<1>2. TypeOK'
  BY <1>1 DEF IInv, TypeOK, BatchShape, TakePlanWrite, Taking, Taken, Continue
<1>3. (BatchShape /\ MemShape /\ ParkedWith(store) /\ ParkedWith(mem) /\
      PlanSync /\ ParkedPlan /\ BatchPlan /\ GrantsApproved /\ Decided /\
      ReplayApproved /\ ApprovedBeforeDispatch /\ DurablePlanFirst)'
  BY DEF IInv, TypeOK, BatchShape, TakePlanWrite, Taking, Taken, Continue,
     MemShape, ParkedWith, PlanSync, ParkedPlan, BatchPlan, GrantsApproved,
     Decided, ReplayApproved, ApprovedBeforeDispatch, Executed,
     DurablePlanFirst
<1> QED BY <1>2, <1>3 DEF IInv

\* The session in memory parks with the call that waits.
LEMMA TakeApprovalStep == ASSUME IInv, TakeApproval PROVE IInv'
<1>1. Call \in Consequential
  BY DEF IInv, TypeOK, BatchShape, TakeApproval, Taking, Call
<1>2. mem' \in Session
  BY <1>1 DEF IInv, TypeOK, Session, Statuses, TakeApproval, Calls,
     Consequential, Dependent, Mutations, Mobile
<1>3. TypeOK'
  BY <1>2 DEF IInv, TypeOK, BatchShape, TakeApproval, Taking, Taken, Break
<1>4. ParkedWith(mem)'
  BY <1>1 DEF IInv, TypeOK, Session, ParkedWith, TakeApproval
<1>5. ParkedPlan'
  BY DEF IInv, TypeOK, Session, BatchShape, ParkedPlan, BatchPlan,
     TakeApproval, Taking, Taken, Break, Call
<1>6. (BatchShape /\ MemShape /\ ParkedWith(store) /\ PlanSync /\ BatchPlan /\
      GrantsApproved /\ Decided /\ ReplayApproved /\ ApprovedBeforeDispatch /\
      DurablePlanFirst)'
  BY DEF IInv, BatchShape, TakeApproval, Taking, Taken, Break, MemShape,
     ParkedWith, PlanSync, BatchPlan, GrantsApproved, Decided, ReplayApproved,
     ApprovedBeforeDispatch, Executed, DurablePlanFirst
<1> QED BY <1>3, <1>4, <1>5, <1>6 DEF IInv

\* A gated batch changes nothing.
LEMMA TakeGatedStep == ASSUME IInv, TakeGated PROVE IInv'
<1>1. (TypeOK /\ BatchShape /\ MemShape /\ ParkedWith(store) /\
      ParkedWith(mem) /\ PlanSync /\ ParkedPlan /\ BatchPlan /\ GrantsApproved /\
      Decided /\ ReplayApproved /\ ApprovedBeforeDispatch /\ DurablePlanFirst)'
  BY DEF IInv, BatchShape, TypeOK, TakeGated, Taking, Taken, Break, MemShape,
     ParkedWith, PlanSync, ParkedPlan, BatchPlan, GrantsApproved, Decided,
     ReplayApproved, ApprovedBeforeDispatch, Executed, DurablePlanFirst
<1> QED BY <1>1 DEF IInv

\* A failed call changes nothing but the obligation.
LEMMA TakeErrorStep == ASSUME IInv, TakeError PROVE IInv'
<1>1. TypeOK'
  BY OutcomeType DEF IInv, TypeOK, BatchShape, TakeError, Taking, Taken, Break
<1>2. (BatchShape /\ MemShape /\ ParkedWith(store) /\ ParkedWith(mem) /\
      PlanSync /\ ParkedPlan /\ BatchPlan /\ GrantsApproved /\ Decided /\
      ReplayApproved /\ ApprovedBeforeDispatch /\ DurablePlanFirst)'
  BY DEF IInv, BatchShape, TakeError, Taking, Taken, Break, AfterOutcome,
     MemShape, ParkedWith, PlanSync, ParkedPlan, BatchPlan, GrantsApproved,
     Decided, ReplayApproved, ApprovedBeforeDispatch, Executed,
     DurablePlanFirst
<1> QED BY <1>1, <1>2 DEF IInv

\* An executed action clears the zoom and may create an obligation.
LEMMA TakeActionStep == ASSUME IInv, TakeAction PROVE IInv'
<1>1. mem' \in Session
  BY OutcomeType DEF IInv, TypeOK, Session, TakeAction
<1>2. TypeOK'
  BY <1>1, OutcomeType DEF IInv, TypeOK, BatchShape, TakeAction, Taking,
     Taken, Continue
<1>3. (BatchShape /\ MemShape /\ ParkedWith(store) /\ ParkedWith(mem) /\
      PlanSync /\ ParkedPlan /\ BatchPlan /\ GrantsApproved /\ Decided /\
      ReplayApproved /\ ApprovedBeforeDispatch /\ DurablePlanFirst)'
  BY DEF IInv, TypeOK, BatchShape, TakeAction, Taking, Taken, Continue,
     AfterOutcome, MemShape, ParkedWith, PlanSync, ParkedPlan, BatchPlan,
     GrantsApproved, Decided, ReplayApproved, ApprovedBeforeDispatch,
     Executed, DurablePlanFirst
<1> QED BY <1>2, <1>3 DEF IInv

\* A zoom changes the crop only.
LEMMA TakeZoomStep == ASSUME IInv, TakeZoom PROVE IInv'
<1>1. mem' \in Session
  BY DEF IInv, TypeOK, Session, TakeZoom
<1>2. TypeOK'
  BY <1>1 DEF IInv, TypeOK, BatchShape, TakeZoom, Taking, Taken, Continue
<1>3. (BatchShape /\ MemShape /\ ParkedWith(store) /\ ParkedWith(mem) /\
      PlanSync /\ ParkedPlan /\ BatchPlan /\ GrantsApproved /\ Decided /\
      ReplayApproved /\ ApprovedBeforeDispatch /\ DurablePlanFirst)'
  BY DEF IInv, TypeOK, BatchShape, TakeZoom, Taking, Taken, Continue,
     MemShape, ParkedWith, PlanSync, ParkedPlan, BatchPlan, GrantsApproved,
     Decided, ReplayApproved, ApprovedBeforeDispatch, Executed,
     DurablePlanFirst
<1> QED BY <1>2, <1>3 DEF IInv

\* A read or a command leaves the session as it is.
LEMMA TakeOtherStep == ASSUME IInv, TakeOther PROVE IInv'
<1>1. (TypeOK /\ BatchShape /\ MemShape /\ ParkedWith(store) /\
      ParkedWith(mem) /\ PlanSync /\ ParkedPlan /\ BatchPlan /\ GrantsApproved /\
      Decided /\ ReplayApproved /\ ApprovedBeforeDispatch /\ DurablePlanFirst)'
  BY DEF IInv, BatchShape, TypeOK, TakeOther, Taking, Taken, Continue,
     MemShape, ParkedWith, PlanSync, ParkedPlan, BatchPlan, GrantsApproved,
     Decided, ReplayApproved, ApprovedBeforeDispatch, Executed,
     DurablePlanFirst
<1> QED BY <1>1 DEF IInv

\* A claim verifies the session or changes nothing but the obligation.
LEMMA TakeClaimStep == ASSUME IInv, TakeClaim PROVE IInv'
<1>1. mem' \in Session
  BY OutcomeType DEF IInv, TypeOK, Session, Statuses, TakeClaim
<1>2. TypeOK'
  BY <1>1, OutcomeType DEF IInv, TypeOK, BatchShape, TakeClaim, Taking, Taken,
     Break
<1>3. (ParkedWith(mem) /\ ParkedPlan)'
  BY OutcomeKeeps DEF IInv, TypeOK, Session, BatchShape, MemShape, ParkedWith,
     ParkedPlan, TakeClaim, Taking, Taken, Break
<1>4. (BatchShape /\ MemShape /\ ParkedWith(store) /\ PlanSync /\ BatchPlan /\
      GrantsApproved /\ Decided /\ ReplayApproved /\ ApprovedBeforeDispatch /\
      DurablePlanFirst)'
  BY DEF IInv, BatchShape, TakeClaim, Taking, Taken, Break, AfterOutcome,
     MemShape, ParkedWith, PlanSync, BatchPlan, GrantsApproved, Decided,
     ReplayApproved, ApprovedBeforeDispatch, Executed, DurablePlanFirst
<1> QED BY <1>2, <1>3, <1>4 DEF IInv

\* The session in memory becomes the one on disk.
LEMMA SaveStep == ASSUME IInv, Save PROVE IInv'
<1>1. (TypeOK /\ BatchShape /\ MemShape /\ ParkedWith(store) /\
      ParkedWith(mem) /\ PlanSync /\ ParkedPlan /\ BatchPlan /\ GrantsApproved /\
      Decided /\ ReplayApproved /\ ApprovedBeforeDispatch /\ DurablePlanFirst)'
  BY DEF IInv, TypeOK, Save, ClearTurn, BatchShape, MemShape, ParkedWith,
     PlanSync, ParkedPlan, BatchPlan, GrantsApproved, Decided, ReplayApproved,
     ApprovedBeforeDispatch, Executed, DurablePlanFirst
<1> QED BY <1>1 DEF IInv

\* The run returns with its session saved.
LEMMA FinishStep == ASSUME IInv, Finish PROVE IInv'
<1>a. mem' \in Session
  BY DEF IInv, TypeOK, Session, Statuses, Finish
<1>b. kept' \subseteq kept \cup {mem'}
  BY DEF Finish, Keepable
<1>c. kept' \subseteq Session
  BY <1>a, <1>b DEF IInv, TypeOK
<1>d. held' \in BOOLEAN /\ fork' \in {"never", "now", "past"}
  BY DEF Finish, IInv, TypeOK
<1>1. TypeOK'
  BY <1>a, <1>c, <1>d, BoundsAssumption DEF IInv, TypeOK, Finish, turnVars
<1>2. (BatchShape /\ MemShape /\ ParkedWith(store) /\ ParkedWith(mem) /\
      PlanSync /\ ParkedPlan /\ BatchPlan /\ GrantsApproved /\ Decided /\
      ReplayApproved /\ ApprovedBeforeDispatch /\ DurablePlanFirst)'
  BY DEF IInv, BatchShape, Finish, Over, turnVars, MemShape, ParkedWith, PlanSync,
     ParkedPlan, BatchPlan, GrantsApproved, Decided, ReplayApproved,
     ApprovedBeforeDispatch, Executed, DurablePlanFirst
<1> QED BY <1>1, <1>2 DEF IInv

\* What is not on disk is lost.
LEMMA CutOffStep ==
  ASSUME IInv, CutOff, grants' \in {grants, {}}, kept' \subseteq Session PROVE IInv'
<1>a. grants' \in SUBSET Consequential /\ fork' \in {"never", "now", "past"}
  BY DEF IInv, TypeOK, CutOff
<1>b. held' \in BOOLEAN
  BY DEF CutOff
<1>1. TypeOK'
  BY <1>a, <1>b, BoundsAssumption DEF IInv, TypeOK, CutOff, ClearTurn
<1>2. (BatchShape /\ MemShape /\ ParkedWith(store) /\ ParkedWith(mem) /\
      PlanSync /\ ParkedPlan /\ BatchPlan /\ GrantsApproved /\ Decided /\
      ReplayApproved /\ ApprovedBeforeDispatch /\ DurablePlanFirst)'
  BY DEF IInv, BatchShape, CutOff, ClearTurn, MemShape, ParkedWith,
     PlanSync, ParkedPlan, BatchPlan, GrantsApproved, Decided, ReplayApproved,
     ApprovedBeforeDispatch, Executed, DurablePlanFirst
<1> QED BY <1>1, <1>2 DEF IInv

LEMMA CrashStep == ASSUME IInv, Crash PROVE IInv'
  BY CutOffStep DEF Crash

LEMMA AbortStep == ASSUME IInv, Abort PROVE IInv'
<1>1. kept' \subseteq kept \cup {mem}
  BY DEF Abort, Keepable
<1> QED BY <1>1, CutOffStep DEF Abort, IInv, TypeOK

\* A step that changes no variable.
LEMMA StutterStep == ASSUME IInv, UNCHANGED vars PROVE IInv'
  BY DEF IInv, vars, turnVars, TypeOK, BatchShape, MemShape, ParkedWith, PlanSync,
     ParkedPlan, BatchPlan, GrantsApproved, Decided, ReplayApproved,
     ApprovedBeforeDispatch, DurablePlanFirst, Executed
-----------------------------------------------------------------------------
(* The invariant, and what follows from it.                                *)

LEMMA InitIInv == Init => IInv
<1> SUFFICES ASSUME Init PROVE IInv
  OBVIOUS
<1>a. store \in Session
  BY DEF Init, Session, Statuses
<1>b. kept \subseteq {store}
  BY DEF Init, Keepable
<1>c. held \in BOOLEAN
  BY DEF Init
<1>d. mem \in Session /\ kept \subseteq Session
  BY <1>a, <1>b DEF Init
<1>e. verdict \in [Consequential -> {"none", "approved", "denied"}]
  BY DEF Init
<1>f. turn \in 0 .. MaxTurns /\ screen \in Screens
  BY BoundsAssumption DEF Init, Screens
<1>g. batch \in Seq(Calls) /\ results \in Seq(Results) /\ k \in 0 .. Len(results)
  BY DEF Init
<1>h. /\ ledger = "none" /\ pc = "idle" /\ view = NoView /\ grants = {} /\ replays = 0
      /\ fork = "never"
  BY DEF Init
<1>1. TypeOK
  BY <1>a, <1>c, <1>d, <1>e, <1>f, <1>g, <1>h DEF TypeOK
<1> QED
  BY <1>1 DEF Init, IInv, BatchShape, MemShape, ParkedWith, PlanSync, ParkedPlan,
     BatchPlan, GrantsApproved, Decided, ReplayApproved, ApprovedBeforeDispatch,
     DurablePlanFirst, Executed, NoCall, Mutations, Mobile

LEMMA NextIInv == IInv /\ KeptShape /\ [Next]_vars => IInv'
<1> SUFFICES ASSUME IInv, KeptShape, [Next]_vars PROVE IInv'
  OBVIOUS
<1>1. CASE Resume
  BY <1>1, ResumePeekStep, ResumeOpenStep, ResumeDenyStep, ResumeApproveStep DEF Resume
<1>2. CASE Work
  <2>1. CASE Replay \/ ReplayResult
    BY <2>1, ReplayStep, ReplayResultStep
  <2>2. CASE \E cropped \in BOOLEAN : Observe(cropped)
    BY <2>2, ObserveStep
  <2>3. CASE ModelFails \/ ModelSilent
    BY <2>3, ModelFailsStep, ModelSilentStep
  <2>4. CASE \E calls \in Batches : ModelCalls(calls)
    BY <2>4, ModelCallsStep
  <2>5. CASE ExecPark \/ ExecDispatch \/ ExecError
    BY <2>5, ExecParkStep, ExecDispatchStep, ExecErrorStep
  <2>6. CASE \E r \in PlanWritten : ExecPlanWrite(r)
    BY <2>6, ExecPlanWriteStep
  <2>7. CASE TakePlanWrite \/ TakeApproval \/ TakeGated \/ TakeError
    BY <2>7, TakePlanWriteStep, TakeApprovalStep, TakeGatedStep, TakeErrorStep
  <2>8. CASE TakeAction \/ TakeZoom \/ TakeOther \/ TakeClaim
    BY <2>8, TakeActionStep, TakeZoomStep, TakeOtherStep, TakeClaimStep
  <2>9. CASE Save \/ Finish
    BY <2>9, SaveStep, FinishStep
  <2> QED BY <1>2, <2>1, <2>2, <2>3, <2>4, <2>5, <2>6, <2>7, <2>8, <2>9 DEF Work
<1>3. CASE Crash \/ Abort
  BY <1>3, CrashStep, AbortStep
<1>4. CASE UNCHANGED vars
  BY <1>4, StutterStep
<1>5. CASE \E s \in kept : Run(s)
  BY <1>5, RunStep
<1> QED BY <1>1, <1>2, <1>3, <1>4, <1>5 DEF Next

\* What a client gets to keep is what is in memory or on disk.
LEMMA KeptComes ==
  ASSUME [Next]_vars PROVE kept' \subseteq kept \cup {store, mem, mem'}
<1>1. CASE Resume
  BY <1>1 DEF Resume, ResumePeek, ResumeOpen, ResumeDeny, ResumeApprove, Keepable
<1>2. CASE Work
  <2>1. CASE Replay \/ ReplayResult \/ ModelFails \/ ModelSilent \/ Save
    BY <2>1 DEF Replay, ReplayResult, ModelFails, ModelSilent, Save
  <2>2. CASE \E cropped \in BOOLEAN : Observe(cropped)
    BY <2>2 DEF Observe
  <2>3. CASE \E calls \in Batches : ModelCalls(calls)
    BY <2>3 DEF ModelCalls
  <2>4. CASE ExecPark \/ ExecError \/ ExecDispatch \/ \E r \in PlanWritten : ExecPlanWrite(r)
    BY <2>4 DEF ExecPark, ExecError, ExecDispatch, ExecPlanWrite, Yield
  <2>5. CASE \/ TakePlanWrite \/ TakeApproval \/ TakeGated \/ TakeError
             \/ TakeAction \/ TakeZoom \/ TakeOther \/ TakeClaim
    BY <2>5 DEF TakePlanWrite, TakeApproval, TakeGated, TakeError, TakeAction, TakeZoom,
       TakeOther, TakeClaim, Taken
  <2>6. CASE Finish
    BY <2>6 DEF Finish, Keepable
  <2> QED BY <1>2, <2>1, <2>2, <2>3, <2>4, <2>5, <2>6 DEF Work
<1>3. CASE Crash \/ Abort
  BY <1>3 DEF Crash, Abort, Keepable
<1>4. CASE UNCHANGED vars
  BY <1>4 DEF vars
<1>5. CASE \E s \in kept : Run(s)
  BY <1>5 DEF Run
<1> QED BY <1>1, <1>2, <1>3, <1>4, <1>5 DEF Next

LEMMA NextKept == IInv /\ IInv' /\ KeptShape /\ [Next]_vars => KeptShape'
<1> SUFFICES ASSUME IInv, IInv', KeptShape, [Next]_vars, NEW s \in kept'
             PROVE  ParkedWith(s) /\ ParksPlanned(s)
  BY DEF KeptShape
<1>1. s \in kept \cup {store, mem, mem'}
  BY KeptComes
<1>2. CASE s \in kept
  BY <1>2 DEF KeptShape
<1>3. CASE s \in {store, mem}
  BY <1>3 DEF IInv, ParkedPlan
<1>4. CASE s = mem'
  BY <1>4 DEF IInv, ParkedPlan, ParkedWith
<1> QED BY <1>1, <1>2, <1>3, <1>4

\* IInv holds in every reachable state.
LEMMA IInvAlways == Spec => []IInv
<1>1. Init => KeptShape
  BY DEF Init, Keepable, KeptShape, ParkedWith, NoCall, Mutations, Mobile
<1>2. IInv /\ KeptShape /\ [Next]_vars => IInv' /\ KeptShape'
  BY NextIInv, NextKept
<1> QED BY InitIInv, <1>1, <1>2, PTL DEF Spec

\* Every variable keeps its type: whatever the model returns, a snapshot is a
\* session of the runtime and a batch never outgrows its calls.
THEOREM TypeCorrect == Spec => []TypeOK
<1>1. IInv => TypeOK
  BY DEF IInv
<1> QED BY <1>1, IInvAlways, PTL

\* A consequential call is executed only while the user's last decision on it
\* is an approval, across denials, replays and crashes, until a client runs a
\* state other than the snapshot (policy.py:47-61, runtime.py:409-431).
THEOREM DispatchIsApproved == Spec => []ApprovedBeforeDispatch
<1>1. IInv => ApprovedBeforeDispatch
  BY DEF IInv
<1> QED BY <1>1, IInvAlways, PTL

\* With require_plan_before_mutation, every executed Android action has a plan
\* in the snapshot on disk, but in the unsaved first turn of a run(state) whose
\* state is not the snapshot (tools.py:299-319, runtime.py:622-623).
THEOREM PlanIsDurable == Spec => []DurablePlanFirst
<1>1. IInv => DurablePlanFirst
  BY DEF IInv
<1> QED BY <1>1, IInvAlways, PTL
-----------------------------------------------------------------------------
(* The refinement.                                                         *)

\* The initial session is an initial session of the lifecycle.
LEMMA LifecycleInit == Init => Lifecycle!Init
  BY DEF Init, Lifecycle!Init, Decision

\* Snapshots are well typed and parked as a lifecycle is.
LEMMA LifecycleShape ==
  ASSUME IInv
  PROVE  /\ store.status \in Statuses
         /\ store.status = "awaiting_approval" => store.pending \in Consequential
         /\ store.status # "awaiting_approval" => store.pending = NoCall
         /\ Decision \in {"approved", "denied", "none"}
<1>1. store.status \in Statuses
  BY DEF IInv, TypeOK, Session
<1>2. store.status = "awaiting_approval" => store.pending \in Consequential
  BY DEF IInv, ParkedWith
<1>3. Decision \in {"approved", "denied", "none"}
  BY <1>2 DEF IInv, TypeOK, Decision
<1> QED BY <1>1, <1>2, <1>3 DEF IInv, ParkedWith

\* A run is marked when it begins, and no longer once it has saved or is over.
LEMMA ForkMoves ==
  ASSUME [Next]_vars
  PROVE  /\ fork' # fork => \/ pc = "idle" /\ fork' = "now"
                            \/ fork = "now" /\ fork' = "past" /\ (pc' = "idle" \/ mem' = store')
         /\ fork' = "never" => fork = "never"
<1>1. CASE Resume
  BY <1>1 DEF Resume, ResumePeek, ResumeOpen, ResumeDeny, ResumeApprove
<1>2. CASE Work
  <2>1. CASE Replay \/ ReplayResult \/ ModelFails \/ ModelSilent \/ Save \/ Finish
    BY <2>1 DEF Replay, ReplayResult, ModelFails, ModelSilent, Save, Finish
  <2>2. CASE \E cropped \in BOOLEAN : Observe(cropped)
    BY <2>2 DEF Observe
  <2>3. CASE \E calls \in Batches : ModelCalls(calls)
    BY <2>3 DEF ModelCalls
  <2>4. CASE ExecPark \/ ExecError \/ ExecDispatch \/ \E r \in PlanWritten : ExecPlanWrite(r)
    BY <2>4 DEF ExecPark, ExecError, ExecDispatch, ExecPlanWrite, Yield
  <2>5. CASE \/ TakePlanWrite \/ TakeApproval \/ TakeGated \/ TakeError
             \/ TakeAction \/ TakeZoom \/ TakeOther \/ TakeClaim
    BY <2>5 DEF TakePlanWrite, TakeApproval, TakeGated, TakeError, TakeAction, TakeZoom,
       TakeOther, TakeClaim, Taken
  <2> QED BY <1>2, <2>1, <2>2, <2>3, <2>4, <2>5 DEF Work
<1>3. CASE Crash \/ Abort
  BY <1>3 DEF Crash, Abort, CutOff
<1>4. CASE UNCHANGED vars
  BY <1>4 DEF vars
<1>5. CASE \E s \in kept : Run(s)
  BY <1>5 DEF Run
<1> QED BY <1>1, <1>2, <1>3, <1>4, <1>5 DEF Next

\* While the snapshot stays, a parked session can only be decided on.
LEMMA KeptSnapshot ==
  ASSUME IInv, IInv', store' = store, [Next]_vars
  PROVE  [Lifecycle!Next]_(Lifecycle!lifecycleVars)
<1>1. CASE store.status = "awaiting_approval" /\ Rerun' = Rerun
  <2>1. Decision' \in {"approved", "denied", "none"}
    <3>1. store'.pending \in Consequential
      BY <1>1 DEF IInv, ParkedWith
    <3> QED BY <3>1 DEF IInv, TypeOK, Decision
  <2>2. Lifecycle!Decide(Decision')
    BY <1>1 DEF Lifecycle!Decide
  <2> QED BY <2>1, <2>2 DEF Lifecycle!Next
<1>2. CASE store.status # "awaiting_approval" /\ Rerun' = Rerun
  BY <1>2 DEF Decision, Lifecycle!lifecycleVars
<1>3. CASE Rerun' # Rerun
  <2>1. Decision = "none" /\ Decision' = "none"
    BY <1>3, ForkMoves DEF Decision
  <2>2. Rerun' = ~Rerun
    BY <1>3
  <2>3. Lifecycle!HandBack
    BY <2>1, <2>2 DEF Lifecycle!HandBack
  <2> QED BY <2>3 DEF Lifecycle!Next
<1> QED BY <1>1, <1>2, <1>3

\* A snapshot written over one that may move on is a move or a pause.
LEMMA FreeSnapshot ==
  ASSUME IInv, IInv', Lifecycle!Free, store' = mem', ~Rerun'
  PROVE  Lifecycle!Next
<1>1. Decision' = "none"
  BY DEF Decision
<1>2. store'.status \in Statuses
  BY DEF IInv, TypeOK, Session
<1>3. CASE store'.status = "awaiting_approval"
  <2>1. store'.pending \in Consequential
    BY <1>3 DEF IInv, ParkedWith
  <2>2. Lifecycle!Park(store'.pending)
    BY <1>1, <1>3 DEF Lifecycle!Park
  <2> QED BY <2>1, <2>2 DEF Lifecycle!Next
<1>4. CASE store'.status # "awaiting_approval"
  <2>1. store'.pending = NoCall
    BY <1>4 DEF IInv, ParkedWith
  <2>2. Lifecycle!Move(store'.status)
    BY <1>1, <2>1 DEF Lifecycle!Move
  <2>3. store'.status \in Lifecycle!Terminal \cup {"running"}
    BY <1>2, <1>4 DEF Statuses, Lifecycle!Terminal
  <2> QED BY <2>2, <2>3 DEF Lifecycle!Next
<1> QED BY <1>3, <1>4

\* A parked session is written again only after its decision, or unchanged.
LEMMA WrittenSnapshot ==
  ASSUME IInv, IInv', Save \/ Finish
  PROVE  [Lifecycle!Next]_(Lifecycle!lifecycleVars)
<1>1. /\ store' = mem' /\ (mem.status # "running" => store' = mem) /\ pc # "idle"
      /\ ~Rerun'
  <2>1. CASE Save
    BY <2>1 DEF Save
  <2>2. CASE Finish
    BY <2>2 DEF Finish, Over, IInv, TypeOK, Session
  <2> QED BY <2>1, <2>2
<1>a. [Next]_vars
  BY DEF Next, Work
<1>b. CASE Rerun
  BY <1>1, <1>b, FreeSnapshot DEF Lifecycle!Free
<1>2. CASE store.status = "running"
  BY <1>1, <1>2, FreeSnapshot DEF Lifecycle!Free
<1>3. CASE store.status \in {"verified", "failed", "blocked"} /\ ~Rerun
  <2>1. store' = store
    BY <1>1, <1>3 DEF IInv, MemShape
  <2> QED BY <1>a, <2>1, KeptSnapshot
<1>4. CASE store.status = "awaiting_approval" /\ mem = store
  <2>1. store' = store
    BY <1>1, <1>4
  <2> QED BY <1>a, <2>1, KeptSnapshot
<1>5. CASE store.status = "awaiting_approval" /\ mem # store /\ ~Rerun
  <2>1. Decision = verdict[store.pending]
    BY <1>1, <1>5 DEF Decision
  <2>2. CASE verdict[store.pending] = "approved"
    BY <1>1, <1>5, <2>1, <2>2, FreeSnapshot DEF Lifecycle!Free
  <2>3. CASE verdict[store.pending] # "approved"
    <3>1. verdict[store.pending] = "denied" /\ mem.status = "blocked" /\ mem.pending = NoCall
      BY <1>1, <1>5, <2>3 DEF IInv, Decided
    <3>2. store'.status = "blocked" /\ store'.pending = NoCall
      BY <1>1, <3>1
    <3>3. Lifecycle!Refuse
      BY <1>1, <1>5, <2>1, <3>1, <3>2 DEF Decision, Lifecycle!Refuse
    <3> QED BY <3>3 DEF Lifecycle!Next
  <2> QED BY <2>2, <2>3
<1> QED
  BY <1>b, <1>2, <1>3, <1>4, <1>5, LifecycleShape DEF Statuses

\* Every action but Save and Finish leaves the snapshot alone.
LEMMA SnapshotWriters ==
  ASSUME [Next]_vars, ~Save, ~Finish PROVE store' = store
<1>1. CASE Resume
  BY <1>1 DEF Resume, ResumePeek, ResumeOpen, ResumeDeny, ResumeApprove
<1>2. CASE Work
  <2>1. CASE Replay \/ ReplayResult \/ ModelFails \/ ModelSilent
    BY <2>1 DEF Replay, ReplayResult, ModelFails, ModelSilent
  <2>2. CASE \E cropped \in BOOLEAN : Observe(cropped)
    BY <2>2 DEF Observe
  <2>3. CASE \E calls \in Batches : ModelCalls(calls)
    BY <2>3 DEF ModelCalls
  <2>4. CASE \/ ExecPark \/ ExecDispatch \/ ExecError
             \/ \E r \in PlanWritten : ExecPlanWrite(r)
    BY <2>4 DEF ExecPark, ExecDispatch, ExecError, ExecPlanWrite, Yield
  <2>5. CASE \/ TakePlanWrite \/ TakeApproval \/ TakeGated \/ TakeError
             \/ TakeAction \/ TakeZoom \/ TakeOther \/ TakeClaim
    BY <2>5 DEF TakePlanWrite, TakeApproval, TakeGated, TakeError, TakeAction,
       TakeZoom, TakeOther, TakeClaim, Taken
  <2> QED BY <1>2, <2>1, <2>2, <2>3, <2>4, <2>5 DEF Work
<1>3. CASE Crash \/ Abort
  BY <1>3 DEF Crash, Abort, CutOff
<1>4. CASE UNCHANGED vars
  BY <1>4 DEF vars
<1>5. CASE \E s \in kept : Run(s)
  BY <1>5 DEF Run
<1> QED BY <1>1, <1>2, <1>3, <1>4, <1>5 DEF Next

\* The runtime implements SessionLifecycle: an ended session stays as it is, and
\* a parked one moves only by the user's decision on the call it is parked with,
\* unless a client runs a state that is not the snapshot (runtime.py:429-431).
THEOREM RuntimeImplementsLifecycle == Spec => ImplementsLifecycle
<1>1. IInv /\ IInv' /\ [Next]_vars => [Lifecycle!Next]_(Lifecycle!lifecycleVars)
  BY SnapshotWriters, KeptSnapshot, WrittenSnapshot
<1> QED
  BY <1>1, LifecycleInit, IInvAlways, PTL DEF Spec, ImplementsLifecycle, Lifecycle!Spec
-----------------------------------------------------------------------------
(* The verdict.                                                            *)

\* Until a batch dispatches an Android action, the view is of the screen.
ViewFresh ==
    pc \in {"model", "exec", "results"} /\ (\A i \in DOMAIN results : ~Executed(i, Mobile))
        => view[1] = screen

\* One more result; a dispatched action is itself an executed one.
LEMMA YieldFresh ==
  ASSUME IInv, ViewFresh, NEW r \in Results, pc = "exec", Yield(r),
         screen' = screen \/ (r \in {"ok", "failed"} /\ NextCall \in Mobile)
  PROVE  ViewFresh'
<1>1. results' = Append(results, r) /\ results \in Seq(Results) /\ batch' = batch /\ view' = view
  BY DEF Yield, IInv, TypeOK
<1>2. /\ Len(results) \in Nat /\ DOMAIN results' = 1 .. Len(results) + 1
      /\ DOMAIN results = 1 .. Len(results)
      /\ results'[Len(results) + 1] = r
      /\ \A i \in DOMAIN results : results'[i] = results[i]
  BY <1>1, AppendProperties, LenProperties
<1>3. SUFFICES ASSUME \A i \in DOMAIN results' : ~(results'[i] \in {"ok", "failed"} /\ batch[i] \in Mobile)
      PROVE  view[1] = screen'
  BY <1>1 DEF ViewFresh, Executed
<1>4. \A i \in DOMAIN results : ~Executed(i, Mobile)
  BY <1>2, <1>3 DEF Executed
<1>5. ~(r \in {"ok", "failed"} /\ NextCall \in Mobile)
  BY <1>2, <1>3 DEF NextCall
<1> QED BY <1>4, <1>5 DEF ViewFresh

\* Every step keeps the view fresh or leaves the turn.
LEMMA NextFresh == IInv /\ ViewFresh /\ [Next]_vars => ViewFresh'
<1> SUFFICES ASSUME IInv, ViewFresh, [Next]_vars PROVE ViewFresh'
  OBVIOUS
<1>1. CASE Resume
  BY <1>1 DEF Resume, ResumePeek, ResumeOpen, ResumeDeny, ResumeApprove, ViewFresh
<1>2. CASE Work
  <2>1. CASE Replay \/ ReplayResult \/ ModelFails \/ ModelSilent \/ Save \/ Finish
    BY <2>1 DEF Replay, ReplayResult, ModelFails, ModelSilent, Save, Finish, ViewFresh
  <2>2. CASE \E cropped \in BOOLEAN : Observe(cropped)
    BY <2>2 DEF Observe, ViewFresh
  <2>3. CASE \E calls \in Batches : ModelCalls(calls)
    <3>1. results = <<>> /\ view' = view /\ screen' = screen /\ pc = "model"
      BY <2>3 DEF ModelCalls, IInv, BatchShape
    <3>2. \A i \in DOMAIN results : ~Executed(i, Mobile)
      BY <3>1
    <3> QED BY <3>1, <3>2 DEF ViewFresh
  <2>4. CASE ExecPark \/ ExecError \/ \E r \in PlanWritten : ExecPlanWrite(r)
    BY <2>4, YieldFresh DEF ExecPark, ExecError, ExecPlanWrite, Results
  <2>5. CASE ExecDispatch
    <3>1. screen' = screen \/ NextCall \in Mobile
      BY <2>5 DEF ExecDispatch, Dispatched
    <3> QED BY <2>5, <3>1, YieldFresh DEF ExecDispatch, Results
  <2>6. CASE \/ TakePlanWrite \/ TakeApproval \/ TakeGated \/ TakeError
             \/ TakeAction \/ TakeZoom \/ TakeOther \/ TakeClaim
    BY <2>6 DEF TakePlanWrite, TakeApproval, TakeGated, TakeError, TakeAction, TakeZoom,
       TakeOther, TakeClaim, Taking, Taken, Continue, Break, ViewFresh, Executed
  <2> QED BY <1>2, <2>1, <2>2, <2>3, <2>4, <2>5, <2>6 DEF Work
<1>3. CASE Crash \/ Abort
  BY <1>3 DEF Crash, Abort, CutOff, ViewFresh
<1>4. CASE UNCHANGED vars
  BY <1>4 DEF vars, turnVars, ViewFresh, Executed
<1>5. CASE \E s \in kept : Run(s)
  BY <1>5 DEF Run, ViewFresh
<1> QED BY <1>1, <1>2, <1>3, <1>4, <1>5 DEF Next

LEMMA FreshAlways == Spec => []ViewFresh
<1>1. Init => ViewFresh
  BY DEF Init, ViewFresh
<1> QED BY <1>1, NextFresh, IInvAlways, PTL DEF Spec

\* In a run, only a claim turns a session verified.
LEMMA OnlyClaimVerifies ==
  ASSUME IInv, [Next]_vars, mem.status # "verified", mem'.status = "verified",
         pc # "idle", pc' # "idle"
  PROVE  TakeClaim /\ view[1] \in Goal
<1>1. CASE Resume
  BY <1>1 DEF Resume, ResumePeek, ResumeOpen, ResumeDeny, ResumeApprove, IInv, MemShape, TypeOK, Session
<1>2. CASE Work
  <2>1. CASE ReplayResult \/ ModelFails \/ TakeError
    BY <2>1, OutcomeKeeps DEF ReplayResult, ModelFails, TakeError, IInv, TypeOK
  <2>2. CASE Replay \/ ModelSilent \/ Save \/ Finish \/ ExecPark \/ ExecDispatch \/ ExecError
    BY <2>2 DEF Replay, ModelSilent, Save, Finish, ExecPark, ExecDispatch, ExecError,
       IInv, TypeOK, Session
  <2>3. CASE \/ \E calls \in Batches : ModelCalls(calls)
             \/ \E r \in PlanWritten : ExecPlanWrite(r)
    BY <2>3 DEF ModelCalls, ExecPlanWrite, IInv, TypeOK, Session
  <2>6. CASE \E cropped \in BOOLEAN : Observe(cropped)
    BY <2>6 DEF Observe, AfterOutcome, IInv, TypeOK, Session
  <2>4. CASE TakePlanWrite \/ TakeApproval \/ TakeGated \/ TakeAction \/ TakeZoom \/ TakeOther
    BY <2>4 DEF TakePlanWrite, TakeApproval, TakeGated, TakeAction, TakeZoom, TakeOther,
       AfterOutcome, IInv, TypeOK, Session
  <2>5. CASE TakeClaim
    <3>1. AfterOutcome(mem).status = mem.status
      BY OutcomeKeeps DEF IInv, TypeOK
    <3> QED BY <2>5, <3>1 DEF TakeClaim
  <2> QED BY <1>2, <2>1, <2>2, <2>3, <2>4, <2>5, <2>6 DEF Work
<1>3. CASE Crash \/ Abort
  BY <1>3 DEF Crash, Abort, CutOff, IInv, MemShape
<1>4. CASE UNCHANGED vars
  BY <1>4 DEF vars
<1>5. CASE \E s \in kept : Run(s)
  BY <1>5 DEF Run, IInv, MemShape
<1> QED BY <1>1, <1>2, <1>3, <1>4, <1>5 DEF Next

\* A session is verified on a screen that satisfies the predicates, unless the
\* batch that claims it has moved the screen itself (runtime.py:503-516).
THEOREM VerdictIsFresh == Spec => VerifiedUnlessMoved
<1>1. ASSUME IInv, ViewFresh, [Next]_vars, mem.status # "verified", mem'.status = "verified",
             pc # "idle", pc' # "idle",
             \A i \in DOMAIN results : ~Executed(i, Mobile)
      PROVE  screen \in Goal
  <2>1. TakeClaim /\ view[1] \in Goal
    BY <1>1, OnlyClaimVerifies
  <2>2. view[1] = screen
    BY <1>1, <2>1 DEF TakeClaim, Taking, ViewFresh
  <2> QED BY <2>1, <2>2
<1> QED BY <1>1, IInvAlways, FreshAlways, PTL DEF Spec, VerifiedUnlessMoved
-----------------------------------------------------------------------------
(* Runs that are not cut short: no step is a crash.                        *)

\* The journal and the session agree on an obligation, ...
LedgerKnown == fork = "never" /\ ledger = "required" => RequireUpdate /\ mem.required

\* ... and a batch that an obligation met at the gate was held there whole.
GateHolds ==
    /\ pc = "save" => k > 0
    /\ pc = "exec" /\ RequireUpdate /\ mem.required => ~Has(batch, Dependent)
    /\ pc = "results" /\ k = 0 /\ RequireUpdate /\ mem.required
         => \A i \in DOMAIN results : ~Executed(i, Dependent)

\* A call that waits, or is about to be replayed, was not dispatched.
NotYetReplayed ==
    fork = "never" =>
    /\ replays \in 0 .. 1
    /\ mem.status = "awaiting_approval" \/ pc = "replay" => replays = 0

\* An obligation is in the journal and in the session or in neither.
LEMMA OutcomeKnown ==
  ASSUME NEW s \in Session, LedgerKnown, s.planned = mem.planned,
         mem \in Session, s.required = mem.required
  PROVE  fork = "never" /\ LedgerOutcome(mem) = "required" => RequireUpdate /\ AfterOutcome(s).required
  BY OptionsAssumption DEF LedgerKnown, LedgerOutcome, AfterOutcome, Owes, Session

LEMMA NextLedger == IInv /\ LedgerKnown /\ [Next]_vars /\ ~CanCrash => LedgerKnown'
<1> SUFFICES ASSUME IInv, LedgerKnown, [Next]_vars, ~CanCrash PROVE LedgerKnown'
  OBVIOUS
<1>1. mem \in Session
  BY DEF IInv, TypeOK
<1>2. CASE Resume
  BY <1>2 DEF Resume, ResumePeek, ResumeOpen, ResumeDeny, ResumeApprove, LedgerKnown, IInv, MemShape,
     TypeOK, Session
<1>3. CASE Work
  <2>1. CASE ReplayResult \/ ModelFails \/ TakeError
    BY <1>1, <2>1, OutcomeKnown DEF ReplayResult, ModelFails, TakeError, Taken, LedgerKnown
  <2>2. CASE \E cropped \in BOOLEAN : Observe(cropped)
    BY <1>1, <2>2, OptionsAssumption
    DEF Observe, LedgerKnown, LedgerOutcome, AfterOutcome, Owes, Session
  <2>3. CASE TakeAction
    BY <1>1, <2>3, OptionsAssumption
    DEF TakeAction, Taken, LedgerKnown, LedgerOutcome, AfterOutcome, Owes, Session
  <2>4. CASE TakeClaim
    BY <1>1, <2>4, OptionsAssumption
    DEF TakeClaim, Taken, LedgerKnown, LedgerOutcome, AfterOutcome, Owes, Session
  <2>5. CASE Replay \/ ModelSilent \/ Save \/ Finish \/ ExecPark \/ ExecDispatch \/ ExecError
    BY <1>1, <2>5 DEF Replay, ModelSilent, Save, Finish, ExecPark, ExecDispatch, ExecError,
       Yield, LedgerKnown, Session
  <2>6. CASE \/ \E calls \in Batches : ModelCalls(calls)
             \/ \E r \in PlanWritten : ExecPlanWrite(r)
    BY <1>1, <2>6 DEF ModelCalls, ExecPlanWrite, Yield, LedgerKnown, Session
  <2>7. CASE TakePlanWrite \/ TakeApproval \/ TakeGated \/ TakeZoom \/ TakeOther
    BY <1>1, <2>7 DEF TakePlanWrite, TakeApproval, TakeGated, TakeZoom, TakeOther,
       Taken, LedgerKnown, Session
  <2> QED BY <1>3, <2>1, <2>2, <2>3, <2>4, <2>5, <2>6, <2>7 DEF Work
<1>4. CASE Crash \/ Abort
  BY <1>4 DEF Crash, Abort, CutOff
<1>5. CASE UNCHANGED vars
  BY <1>5 DEF vars, LedgerKnown
<1>6. CASE \E s \in kept : Run(s)
  BY <1>6 DEF Run, LedgerKnown, IInv, MemShape
<1> QED BY <1>2, <1>3, <1>4, <1>5, <1>6 DEF Next

\* A batch that runs under an obligation has no dependent call to execute.
LEMMA YieldGate ==
  ASSUME IInv, GateHolds, NEW r \in Results, pc = "exec", Yield(r),
         mem'.required = mem.required
  PROVE  GateHolds'
<1>1. /\ results' = Append(results, r) /\ results \in Seq(Results) /\ batch' = batch /\ k' = k
      /\ Len(results) < Len(batch) /\ batch \in Seq(Calls) /\ pc' \in {"results", "exec"}
  BY DEF Yield, IInv, TypeOK, BatchShape
<1>2. \A i \in DOMAIN results' : i \in DOMAIN batch
  BY <1>1
<1>3. ASSUME RequireUpdate, mem.required
      PROVE  ~Has(batch, Dependent) /\ \A i \in DOMAIN results' : batch[i] \notin Dependent
  BY <1>2, <1>3 DEF GateHolds, Has
<1> QED BY <1>1, <1>3 DEF GateHolds, Executed

LEMMA NextGate == IInv /\ GateHolds /\ [Next]_vars => GateHolds'
<1> SUFFICES ASSUME IInv, GateHolds, [Next]_vars PROVE GateHolds'
  OBVIOUS
<1>1. CASE Resume
  BY <1>1 DEF Resume, ResumePeek, ResumeOpen, ResumeDeny, ResumeApprove, GateHolds
<1>2. CASE Work
  <2>1. CASE Replay \/ ReplayResult \/ ModelFails \/ ModelSilent \/ Save \/ Finish
    BY <2>1 DEF Replay, ReplayResult, ModelFails, ModelSilent, Save, Finish, GateHolds
  <2>2. CASE \E cropped \in BOOLEAN : Observe(cropped)
    BY <2>2 DEF Observe, GateHolds
  <2>3. ASSUME NEW calls \in Batches, ModelCalls(calls) PROVE GateHolds'
    <3>1. CASE Rejected(calls) \/ Gated(calls)
      <4>1. \A i \in DOMAIN results' : results'[i] # "ok"
        BY <2>3, <3>1 DEF ModelCalls
      <4> QED BY <2>3, <3>1, <4>1 DEF ModelCalls, GateHolds, Executed
    <3>2. CASE ~(Rejected(calls) \/ Gated(calls))
      <4>1. PICK order \in [DOMAIN calls -> DOMAIN calls] :
              batch' = [i \in DOMAIN calls |-> calls[order[i]]]
        BY <2>3, <3>2 DEF ModelCalls
      <4>2. Has(batch', Dependent) => Has(calls, Dependent)
        BY <4>1 DEF Has
      <4>3. mem' = mem /\ pc' = "exec"
        BY <2>3, <3>2 DEF ModelCalls
      <4> QED BY <3>2, <4>2, <4>3 DEF Gated, GateHolds
    <3> QED BY <3>1, <3>2
  <2>4. CASE ExecPark \/ ExecError \/ ExecDispatch
    BY <2>4, YieldGate DEF ExecPark, ExecError, ExecDispatch, Results
  <2>5. ASSUME NEW r \in PlanWritten, ExecPlanWrite(r) PROVE GateHolds'
    <3>1. mem'.required = mem.required
      BY <2>5 DEF ExecPlanWrite, IInv, TypeOK, Session
    <3> QED BY <2>5, <3>1, YieldGate DEF ExecPlanWrite, Results
  <2>6. CASE \/ TakePlanWrite \/ TakeApproval \/ TakeGated \/ TakeError
             \/ TakeAction \/ TakeZoom \/ TakeOther \/ TakeClaim
    <3>1. k' = k + 1 /\ k \in Nat /\ pc' \in {"save", "results"}
      BY <2>6 DEF TakePlanWrite, TakeApproval, TakeGated, TakeError, TakeAction, TakeZoom,
         TakeOther, TakeClaim, Taken, Continue, Break, IInv, TypeOK
    <3> QED BY <3>1 DEF GateHolds
  <2> QED BY <1>2, <2>1, <2>2, <2>3, <2>4, <2>5, <2>6 DEF Work
<1>3. CASE Crash \/ Abort
  BY <1>3 DEF Crash, Abort, CutOff, GateHolds
<1>4. CASE UNCHANGED vars
  BY <1>4 DEF vars, turnVars, GateHolds, Executed
<1>5. CASE \E s \in kept : Run(s)
  BY <1>5 DEF Run, GateHolds
<1> QED BY <1>1, <1>2, <1>3, <1>4, <1>5 DEF Next

\* With require_plan_update_on_transition, as long as no run was cut short, a
\* turn that begins while the journal's last word is an obligation executes no
\* dependent call, until a client runs a state other than the snapshot
\* (runtime.py:76-78 and :626-630).
THEOREM ObligationIsMet == ASSUME ~CanCrash PROVE Spec => []ObligationBlocks
<1>1. Init => LedgerKnown /\ GateHolds
  BY DEF Init, LedgerKnown, GateHolds
<1>2. IInv /\ LedgerKnown /\ GateHolds /\ [Next]_vars => LedgerKnown' /\ GateHolds'
  BY NextLedger, NextGate
<1>3. IInv /\ LedgerKnown /\ GateHolds => ObligationBlocks
  <2> SUFFICES ASSUME IInv, LedgerKnown, GateHolds, ledger = "required", k = 0, pc # "replayed",
                      fork = "never",
                      NEW i \in DOMAIN results
               PROVE  ~Executed(i, Dependent)
    BY DEF ObligationBlocks
  <2>1. RequireUpdate /\ mem.required
    BY DEF LedgerKnown
  <2>2. pc \in {"exec", "results"}
    BY DEF IInv, TypeOK, BatchShape, GateHolds
  <2>3. CASE pc = "exec"
    BY <2>1, <2>3 DEF IInv, BatchShape, GateHolds, Has, Executed
  <2>4. CASE pc = "results"
    BY <2>1, <2>4 DEF GateHolds
  <2> QED BY <2>2, <2>3, <2>4
<1> QED BY <1>1, <1>2, <1>3, IInvAlways, PTL DEF Spec

\* Only a result that asks for an approval parks a session.
LEMMA OnlyApprovalParks ==
  ASSUME IInv, [Next]_vars, mem'.status = "awaiting_approval", mem.status # mem'.status,
         ~CanCrash, fork' = "never"
  PROVE  TakeApproval
<1>1. mem \in Session
  BY DEF IInv, TypeOK
<1>2. CASE Resume
  BY <1>1, <1>2 DEF Resume, ResumePeek, ResumeOpen, ResumeDeny, ResumeApprove, IInv, TypeOK, Session
<1>3. CASE Work
  <2>1. CASE ReplayResult \/ ModelFails \/ TakeError
    BY <1>1, <2>1, OutcomeKeeps DEF ReplayResult, ModelFails, TakeError
  <2>2. CASE Replay \/ ModelSilent \/ Save \/ Finish \/ ExecPark \/ ExecDispatch \/ ExecError
    BY <1>1, <2>2 DEF Replay, ModelSilent, Save, Finish, ExecPark, ExecDispatch, ExecError,
       Session
  <2>3. CASE \/ \E calls \in Batches : ModelCalls(calls)
             \/ \E r \in PlanWritten : ExecPlanWrite(r)
    BY <1>1, <2>3 DEF ModelCalls, ExecPlanWrite, Session
  <2>4. CASE \E cropped \in BOOLEAN : Observe(cropped)
    BY <1>1, <2>4 DEF Observe, AfterOutcome, Session
  <2>5. CASE TakePlanWrite \/ TakeGated \/ TakeAction \/ TakeZoom \/ TakeOther
    BY <1>1, <2>5 DEF TakePlanWrite, TakeGated, TakeAction, TakeZoom, TakeOther,
       AfterOutcome, Session
  <2>6. CASE TakeClaim
    <3>1. AfterOutcome(mem).status = mem.status
      BY <1>1, OutcomeKeeps
    <3> QED BY <1>1, <2>6, <3>1 DEF TakeClaim, Session
  <2> QED BY <1>3, <2>1, <2>2, <2>3, <2>4, <2>5, <2>6 DEF Work
<1>4. CASE Crash \/ Abort
  BY <1>4 DEF Crash, Abort, CutOff
<1>5. CASE UNCHANGED vars
  BY <1>5 DEF vars
<1>6. CASE \E s \in kept : Run(s)
  BY <1>6 DEF Run, IInv, MemShape
<1> QED BY <1>2, <1>3, <1>4, <1>5, <1>6 DEF Next

\* The count moves only with a replay and with a new parking.
LEMMA CountMoves ==
  ASSUME [Next]_vars
  PROVE  /\ replays' # replays => Replay \/ TakeApproval
         /\ pc' = "replay" => ResumeApprove \/ (pc = "replay" /\ replays' = replays)
<1>1. CASE Resume
  BY <1>1 DEF Resume, ResumePeek, ResumeOpen, ResumeDeny, ResumeApprove
<1>2. CASE Work
  <2>1. CASE Replay \/ ReplayResult \/ ModelFails \/ ModelSilent \/ Save \/ Finish
    BY <2>1 DEF Replay, ReplayResult, ModelFails, ModelSilent, Save, Finish
  <2>2. CASE \E cropped \in BOOLEAN : Observe(cropped)
    BY <2>2 DEF Observe
  <2>3. CASE \E calls \in Batches : ModelCalls(calls)
    BY <2>3 DEF ModelCalls
  <2>4. CASE ExecPark \/ ExecError \/ ExecDispatch \/ \E r \in PlanWritten : ExecPlanWrite(r)
    BY <2>4 DEF ExecPark, ExecError, ExecDispatch, ExecPlanWrite, Yield
  <2>5. CASE \/ TakePlanWrite \/ TakeApproval \/ TakeGated \/ TakeError
             \/ TakeAction \/ TakeZoom \/ TakeOther \/ TakeClaim
    BY <2>5 DEF TakePlanWrite, TakeApproval, TakeGated, TakeError, TakeAction, TakeZoom,
       TakeOther, TakeClaim, Taken, Continue, Break
  <2> QED BY <1>2, <2>1, <2>2, <2>3, <2>4, <2>5 DEF Work
<1>3. CASE Crash \/ Abort
  BY <1>3 DEF Crash, Abort, CutOff
<1>4. CASE UNCHANGED vars
  BY <1>4 DEF vars
<1>5. CASE \E s \in kept : Run(s)
  BY <1>5 DEF Run
<1> QED BY <1>1, <1>2, <1>3, <1>4, <1>5 DEF Next

\* As long as no run is cut short, resume dispatches the call it approves once
\* at most, until a client runs a state other than the snapshot
\* (runtime.py:409-431).
THEOREM ApprovedCallRunsOnce == ASSUME ~CanCrash PROVE Spec => []ReplayedOnce
<1>1. Init => NotYetReplayed
  BY DEF Init, NotYetReplayed
<1>2. IInv /\ NotYetReplayed /\ [Next]_vars => NotYetReplayed'
  <2> SUFFICES ASSUME IInv, NotYetReplayed, [Next]_vars PROVE NotYetReplayed'
    OBVIOUS
  <2>1. CASE Replay
    <3>1. mem' = mem /\ mem.status = "running" /\ pc' = "replayed"
      BY <2>1 DEF Replay, IInv, MemShape
    <3>2. fork' = "never" => replays' \in 0 .. 1
      BY <2>1 DEF Replay, NotYetReplayed
    <3> QED BY <3>1, <3>2 DEF NotYetReplayed
  <2>2. CASE TakeApproval
    BY <2>2 DEF TakeApproval, NotYetReplayed
  <2>3. CASE ~Replay /\ ~TakeApproval
    <3>1. replays' = replays
      BY <2>3, CountMoves
    <3>2. fork' = "never" /\ mem'.status = "awaiting_approval" => mem.status = "awaiting_approval"
      BY <2>3, OnlyApprovalParks
    <3>4. fork' = "never" => fork = "never"
      BY ForkMoves
    <3>3. pc' = "replay" => mem.status = "awaiting_approval" \/ pc = "replay"
      BY CountMoves DEF ResumeApprove, IInv, MemShape
    <3> QED BY <3>1, <3>2, <3>3, <3>4 DEF NotYetReplayed
  <2> QED BY <2>1, <2>2, <2>3
<1>3. NotYetReplayed => ReplayedOnce
  BY DEF NotYetReplayed, ReplayedOnce
<1> QED BY <1>1, <1>2, <1>3, IInvAlways, PTL DEF Spec

\* Only the end of the loop returns.
LEMMA OnlyFinishReturns ==
  ASSUME [Next]_vars, pc # "idle", pc' = "idle", ~CanCrash PROVE Finish
<1>1. CASE Resume
  BY <1>1 DEF Resume, ResumePeek, ResumeOpen, ResumeDeny, ResumeApprove
<1>2. CASE Work
  <2>1. CASE Replay \/ ReplayResult \/ ModelFails \/ ModelSilent \/ Save
    BY <2>1 DEF Replay, ReplayResult, ModelFails, ModelSilent, Save
  <2>2. CASE \E cropped \in BOOLEAN : Observe(cropped)
    BY <2>2 DEF Observe
  <2>3. CASE \E calls \in Batches : ModelCalls(calls)
    BY <2>3 DEF ModelCalls
  <2>4. CASE ExecPark \/ ExecError \/ ExecDispatch \/ \E r \in PlanWritten : ExecPlanWrite(r)
    BY <2>4 DEF ExecPark, ExecError, ExecDispatch, ExecPlanWrite, Yield
  <2>5. CASE \/ TakePlanWrite \/ TakeApproval \/ TakeGated \/ TakeError
             \/ TakeAction \/ TakeZoom \/ TakeOther \/ TakeClaim
    BY <2>5 DEF TakePlanWrite, TakeApproval, TakeGated, TakeError, TakeAction, TakeZoom,
       TakeOther, TakeClaim, Continue, Break
  <2> QED BY <1>2, <2>1, <2>2, <2>3, <2>4, <2>5 DEF Work
<1>3. CASE Crash \/ Abort
  BY <1>3 DEF Crash, Abort, CutOff
<1>4. CASE UNCHANGED vars
  BY <1>4 DEF vars
<1>5. CASE \E s \in kept : Run(s)
  BY <1>5 DEF Run
<1> QED BY <1>1, <1>2, <1>3, <1>4, <1>5 DEF Next

\* A run that is not cut short leaves a durable session that is ended or waits
\* for a decision: running out of turns is a failure (runtime.py:520-524).
THEOREM ReturnIsSettled == ASSUME ~CanCrash PROVE Spec => ReturnsSettled
<1>1. ASSUME IInv, [Next]_vars, pc # "idle", pc' = "idle" PROVE store'.status # "running"
  <2>1. Finish /\ mem \in Session
    BY <1>1, OnlyFinishReturns DEF IInv, TypeOK
  <2> QED BY <2>1 DEF Finish, Session
<1> QED BY <1>1, IInvAlways, PTL DEF Spec, ReturnsSettled
=============================================================================
