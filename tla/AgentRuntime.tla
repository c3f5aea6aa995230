---------------------------- MODULE AgentRuntime ----------------------------
(***************************************************************************)
(* One durable session driven by MobileAgentRuntime (runtime.py): the turn *)
(* loop, the batch of tool calls of a turn, approval pauses and their      *)
(* replay, the plan gates, the snapshot at the end of a turn and crashes   *)
(* between any two of these steps.  The session lease is held throughout   *)
(* (see SessionLease) and a snapshot is written atomically (see            *)
(* SessionStore).                                                          *)
(*                                                                         *)
(* A client keeps the states that start, resume and run return and may     *)
(* hand one to run(state), also when the snapshot has moved on since.      *)
(*                                                                         *)
(* Abstractions.  A call is its kind.  The plan is whether it has steps    *)
(* (see TaskPlan).  The phone is a screen number that only the session's   *)
(* own actions change.  The journal is its last obligation event.          *)
(***************************************************************************)
EXTENDS Integers, Sequences, FiniteSets

CONSTANTS
    RequirePlan,    \* require_plan_before_mutation
    RequireUpdate,  \* require_plan_update_on_transition
    CanCrash,       \* whether the process may die or abort between steps
    Batches,        \* what the model may return: sequences of calls
    Goal,           \* screens on which the verifier's predicates hold
    MaxTurns,       \* max_turns of one run
    MaxScreen,      \* bound: screens of the phone are 0 .. MaxScreen
    MaxKept         \* bound: states a client keeps; 0: it only uses resume

Mobile        == {"tap", "pay"}            \* navigation, consequential
Mutations     == Mobile \cup {"zoom"}
Dependent     == Mutations \cup {"done"}
Consequential == {"pay", "command"}
Calls         == Dependent \cup {"command", "plan", "read"}
NoCall        == "none"

\* "gated" is the update-gate error; "failed" is a dispatched call that failed
\* or timed out, "error" one that was refused before; "set", "cleared" and
\* "unchanged" are the successful plan writes.
PlanWritten == {"set", "cleared", "unchanged"}
Results     == PlanWritten \cup {"ok", "failed", "error", "gated", "approval"}
Statuses    == {"running", "awaiting_approval", "verified", "failed", "blocked"}

ASSUME OptionsAssumption == /\ RequirePlan \in BOOLEAN
                            /\ RequireUpdate \in BOOLEAN
                            /\ CanCrash \in BOOLEAN
ASSUME BatchesAssumption == Batches \subseteq Seq(Calls)
ASSUME BoundsAssumption  == /\ MaxTurns \in Nat /\ MaxScreen \in Nat
                            /\ MaxKept \in Nat

Screens == 0 .. MaxScreen
Views   == Screens \X BOOLEAN             \* what is observed, cropped or not
NoView  == <<-1, FALSE>>

Session == [status : Statuses, planned : BOOLEAN, required : BOOLEAN,
            pending : Calls \cup {NoCall}, zoom : BOOLEAN,
            stagnant : 0 .. 1, seen : Views \cup {NoView}]

VARIABLES
    store,    \* the session snapshot on disk
    ledger,   \* the journal's last obligation event
    screen,   \* what the phone shows
    mem,      \* the SessionState in memory, meaningful while pc # "idle"
    pc,       \* where the worker is
    turn,     \* turns of this run already begun
    view,     \* the observation of this turn
    batch,    \* the calls of this turn, in execution order
    results,  \* the results of the calls executed so far
    k,        \* results already processed
    grants,   \* AuthorityBroker._grants of the live process
    verdict,  \* history: the user's last decision on each call
    replays,  \* history: dispatches of the parked call by resume (0, 1, more)
    kept,     \* the SessionState objects that the client keeps
    held,     \* the run was started by run(state): its client holds mem
    fork      \* history: a kept state other than the snapshot was "never" run,
              \* is run "now" and not yet saved, or was in the "past"

turnVars   == <<view, batch, results, k>>
clientVars == <<kept, held, fork>>
vars == <<store, ledger, screen, mem, pc, turn, turnVars, grants, verdict, replays,
          clientVars>>

\* What a client may keep of the states K and of the state s it is given.
Keepable(K, s) == {S \in SUBSET (K \cup {s}) : Cardinality(S) <= MaxKept}
-----------------------------------------------------------------------------
\* start has saved the session and returns it.
Init ==
    /\ store = [status |-> "running", planned |-> FALSE, required |-> FALSE,
                pending |-> NoCall, zoom |-> FALSE, stagnant |-> 0,
                seen |-> NoView]
    /\ mem = store
    /\ ledger = "none" /\ screen = 0
    /\ pc = "idle" /\ turn = 0
    /\ view = NoView /\ batch = <<>> /\ results = <<>> /\ k = 0
    /\ grants = {} /\ verdict = [c \in Consequential |-> "none"] /\ replays = 0
    /\ kept \in Keepable({}, store) /\ held = FALSE /\ fork = "never"

\* _recover on the session: an obligation, when the option is on.
Owes(s) == RequireUpdate /\ s.planned
AfterOutcome(s)   == [s EXCEPT !.required = @ \/ Owes(s)]
LedgerOutcome(s)  == IF Owes(s) THEN "required" ELSE ledger

\* Leave the turn's scratch variables in one canonical value between turns.
ClearTurn == view' = NoView /\ batch' = <<>> /\ results' = <<>> /\ k' = 0
-----------------------------------------------------------------------------
(* resume(session_id, approve).                                            *)

\* Without a decision a waiting session is only returned.
ResumePeek ==
    /\ pc = "idle" /\ store.status = "awaiting_approval"
    /\ kept' \in Keepable(kept, store)
    /\ UNCHANGED <<store, ledger, screen, mem, pc, turn, turnVars, grants, verdict, replays,
                   held, fork>>

\* Mutant: an ended session is run again.
ResumeRestarts ==
    /\ pc = "idle" /\ store.status # "awaiting_approval"
    /\ mem' = [store EXCEPT !.status = "running"] /\ pc' = "turn" /\ turn' = 0
    /\ UNCHANGED <<store, ledger, screen, turnVars, grants, verdict, replays, clientVars>>

\* A session that does not wait for a decision is loaded and run.
ResumeOpen ==
    /\ pc = "idle" /\ store.status # "awaiting_approval"
    /\ mem' = store /\ pc' = "turn" /\ turn' = 0
    /\ UNCHANGED <<store, ledger, screen, turnVars, grants, verdict, replays,
                   clientVars>>

\* Mutant: a denial lets the session go on.
ResumeDenyRuns ==
    /\ pc = "idle" /\ store.status = "awaiting_approval"
    /\ mem' = [store EXCEPT !.status = "running", !.pending = NoCall]
    /\ verdict' = [verdict EXCEPT ![store.pending] = "denied"]
    /\ pc' = "turn" /\ turn' = 0
    /\ UNCHANGED <<store, ledger, screen, turnVars, grants, replays, clientVars>>

ResumeDeny ==
    /\ pc = "idle" /\ store.status = "awaiting_approval"
    /\ mem' = [store EXCEPT !.status = "blocked", !.pending = NoCall]
    /\ verdict' = [verdict EXCEPT ![store.pending] = "denied"]
    /\ pc' = "turn" /\ turn' = 0
    /\ UNCHANGED <<store, ledger, screen, turnVars, grants, replays, clientVars>>

\* Mutant: the approved call stays parked.
ResumeApproveParked ==
    /\ pc = "idle" /\ store.status = "awaiting_approval"
    /\ mem' = store
    /\ verdict' = [verdict EXCEPT ![store.pending] = "approved"]
    /\ grants' = grants \cup {store.pending}
    /\ batch' = <<store.pending>>
    /\ pc' = "replay" /\ turn' = 0
    /\ UNCHANGED <<store, ledger, screen, view, results, k, replays, clientVars>>

ResumeApprove ==
    /\ pc = "idle" /\ store.status = "awaiting_approval"
    /\ mem' = [store EXCEPT !.status = "running", !.pending = NoCall]
    /\ verdict' = [verdict EXCEPT ![store.pending] = "approved"]
    /\ grants' = grants \cup {store.pending}
    /\ batch' = <<store.pending>>
    /\ pc' = "replay" /\ turn' = 0
    /\ UNCHANGED <<store, ledger, screen, view, results, k, replays, clientVars>>

\* run(state) loads nothing: it works on the object the client hands it.
Run(s) ==
    /\ pc = "idle" /\ s \in kept
    /\ mem' = s /\ pc' = "turn" /\ turn' = 0
    /\ kept' = kept \ {s} /\ held' = TRUE
    /\ fork' = IF s = store THEN fork ELSE "now"
    /\ UNCHANGED <<store, ledger, screen, turnVars, grants, verdict, replays>>

\* What a dispatched call may do to the phone.
Dispatched(c) == IF c \in Mobile THEN {screen} \cup {(screen + 1) % (MaxScreen + 1)}
                                 ELSE {screen}

\* The approved call is executed on a fresh observation, outside the gates.
Replay ==
    /\ pc = "replay"
    /\ \/ /\ results' \in {<<"ok">>, <<"failed">>}
          /\ screen' \in Dispatched(batch[1])
          /\ replays' = IF replays = 0 THEN 1 ELSE 2
       \/ results' = <<"error">> /\ UNCHANGED <<screen, replays>>
    /\ pc' = "replayed"
    /\ UNCHANGED <<store, ledger, mem, turn, view, batch, k, grants, verdict, clientVars>>

ReplayResult ==
    /\ pc = "replayed"
    /\ IF results[1] # "ok"
       THEN mem' = AfterOutcome(mem) /\ ledger' = LedgerOutcome(mem)
       ELSE UNCHANGED <<mem, ledger>>
    /\ pc' = "turn" /\ ClearTurn
    /\ UNCHANGED <<store, screen, turn, grants, verdict, replays,
                   clientVars>>
-----------------------------------------------------------------------------
(* One turn of _run_locked.                                                *)

\* A crop that no longer fits the screen is dropped, so a zoomed session may
\* observe either way; the third identical view in a row is a failure.
Observe(cropped) ==
    /\ pc = "turn" /\ mem.status = "running" /\ turn < MaxTurns
    /\ cropped => mem.zoom
    /\ LET seen  == <<screen, cropped>>
           same  == seen = mem.seen
           stale == same /\ mem.stagnant = 1
           s     == [mem EXCEPT !.zoom = cropped, !.seen = seen,
                                !.stagnant = IF stale \/ ~same THEN 0 ELSE 1]
       IN  /\ view' = seen
           /\ mem' = IF stale THEN AfterOutcome(s) ELSE s
           /\ ledger' = IF stale THEN LedgerOutcome(s) ELSE ledger
    /\ pc' = "model" /\ turn' = turn + 1
    /\ UNCHANGED <<store, screen, batch, results, k, grants, verdict, replays,
                   clientVars>>

\* Mutant: a provider failure does not spend the turn.
ModelFailsForFree ==
    /\ pc = "model"
    /\ mem' = AfterOutcome(mem) /\ ledger' = LedgerOutcome(mem)
    /\ pc' = "turn" /\ ClearTurn /\ turn' = turn - 1
    /\ UNCHANGED <<store, screen, grants, verdict, replays, clientVars>>

\* The provider raises: the turn is spent and nothing is saved.
ModelFails ==
    /\ pc = "model"
    /\ mem' = AfterOutcome(mem) /\ ledger' = LedgerOutcome(mem)
    /\ pc' = "turn" /\ ClearTurn
    /\ UNCHANGED <<store, screen, turn, grants, verdict, replays,
                   clientVars>>

\* The model returns no call: the session blocks and the loop is left.
ModelSilent ==
    /\ pc = "model"
    /\ mem' = [mem EXCEPT !.status = "blocked"]
    /\ pc' = "finish" /\ ClearTurn
    /\ UNCHANGED <<store, ledger, screen, turn, grants, verdict, replays,
                   clientVars>>

Has(calls, S) == \E i \in DOMAIN calls : calls[i] \in S

\* Reads are collected before serial calls; order is kept within each group.
ReadsFirst(calls, order) ==
    \A i, j \in DOMAIN calls : i < j =>
        LET a == calls[order[i]]
            b == calls[order[j]]
        IN  IF (a = "read") = (b = "read") THEN order[i] < order[j] ELSE a = "read"

\* Mutants: a plan may be written beside actions; only claims are gated.
RejectedZoomOnly(calls) ==
    \/ Has(calls, {"zoom"}) /\ Len(calls) # 1
    \/ RequireUpdate /\ Has(calls, {"plan"}) /\ Has(calls, {"done"})
GatedClaimOnly(calls) == RequireUpdate /\ mem.required /\ Has(calls, {"done"})

\* The checks made once per batch, before any call of it runs.
Rejected(calls) ==
    \/ Has(calls, {"zoom"}) /\ Len(calls) # 1
    \/ RequirePlan /\ Has(calls, {"plan"}) /\ Has(calls, Mutations)
    \/ RequireUpdate /\ Has(calls, {"plan"}) /\ Has(calls, {"done"})
Gated(calls) == RequireUpdate /\ mem.required /\ Has(calls, Dependent)

ModelCalls(calls) ==
    /\ pc = "model" /\ calls # <<>>
    /\ IF Rejected(calls) \/ Gated(calls)
       THEN /\ batch' = calls
            /\ results' = [i \in DOMAIN calls |->
                              IF Rejected(calls) THEN "error" ELSE "gated"]
            /\ pc' = "results"
       ELSE /\ \E order \in [DOMAIN calls -> DOMAIN calls] :
                  /\ ReadsFirst(calls, order)
                  /\ batch' = [i \in DOMAIN calls |-> calls[order[i]]]
            /\ results' = <<>> /\ pc' = "exec"
    /\ UNCHANGED <<store, ledger, screen, mem, turn, view, k, grants, verdict, replays,
                   clientVars>>
-----------------------------------------------------------------------------
(* _execute_calls: every serial call runs before any result is processed.  *)

NextCall == batch[Len(results) + 1]
Yield(r) ==
    /\ results' = Append(results, r)
    /\ pc' = IF Len(results) + 1 = Len(batch) THEN "results" ELSE "exec"
    /\ UNCHANGED <<store, ledger, turn, view, batch, k, grants, verdict, replays,
                   clientVars>>

\* Mutant: any grant of the process is enough.
NeedsAnyGrant(c) == c \in Consequential /\ grants = {}

NeedsPlan(c)  == RequirePlan /\ c \in Mutations /\ ~mem.planned
NeedsGrant(c) == c \in Consequential \ grants

ExecPark ==
    /\ pc = "exec" /\ ~NeedsPlan(NextCall) /\ NeedsGrant(NextCall)
    /\ Yield("approval") /\ UNCHANGED <<mem, screen>>

ExecDispatch ==
    /\ pc = "exec" /\ NextCall # "plan"
    /\ ~NeedsPlan(NextCall) /\ ~NeedsGrant(NextCall)
    /\ screen' \in Dispatched(NextCall)
    /\ \E r \in {"ok", "failed"} : Yield(r)
    /\ UNCHANGED mem

ExecPlanWrite(r) ==
    /\ pc = "exec" /\ NextCall = "plan"
    /\ mem' = [mem EXCEPT !.planned = CASE r = "set" -> TRUE
                                        [] r = "cleared" -> FALSE
                                        [] OTHER -> @]
    /\ Yield(r) /\ UNCHANGED screen

\* There is no plan yet, the tool is disabled or its arguments are refused.
ExecError ==
    /\ pc = "exec"
    /\ Yield("error") /\ UNCHANGED <<mem, screen>>
-----------------------------------------------------------------------------
(* The result loop.  Each action takes the next result; the ones that      *)
(* break leave the rest of the batch unprocessed.                          *)

Taking(r) == pc = "results" /\ results[k + 1] \in r
Call      == batch[k + 1]
\* Mutant: two results are taken for one.
TakenTwo == /\ k' = k + 2
            /\ UNCHANGED <<store, screen, turn, view, batch, results, grants, verdict,
                           clientVars>>

Taken     == /\ k' = k + 1
             /\ UNCHANGED <<store, screen, turn, view, batch, results, grants, verdict,
                           clientVars>>
Continue  == pc' = IF k + 1 = Len(results) THEN "save" ELSE "results"
Break     == pc' = "save"

TakePlanWrite ==
    /\ Taking(PlanWritten) /\ Taken /\ Continue
    /\ mem' = [mem EXCEPT !.required = FALSE] /\ ledger' = "updated"
    /\ UNCHANGED replays

TakeApproval ==
    /\ Taking({"approval"}) /\ Taken /\ Break
    /\ mem' = [mem EXCEPT !.status = "awaiting_approval", !.pending = Call]
    /\ replays' = 0
    /\ UNCHANGED ledger

TakeGated ==
    /\ Taking({"gated"}) /\ Taken /\ Break
    /\ UNCHANGED <<mem, ledger, replays>>

TakeError ==
    /\ Taking({"error", "failed"}) /\ Taken /\ Break
    /\ mem' = AfterOutcome(mem) /\ ledger' = LedgerOutcome(mem)
    /\ UNCHANGED replays

TakeAction ==
    /\ Taking({"ok"}) /\ Call \in Mobile /\ Taken /\ Continue
    /\ mem' = [AfterOutcome(mem) EXCEPT !.zoom = FALSE]
    /\ ledger' = LedgerOutcome(mem)
    /\ UNCHANGED replays

TakeZoom ==
    /\ Taking({"ok"}) /\ Call = "zoom" /\ Taken /\ Continue
    /\ mem' = [mem EXCEPT !.zoom = TRUE]
    /\ UNCHANGED <<ledger, replays>>

TakeOther ==
    /\ Taking({"ok"}) /\ Call \in {"read", "command"} /\ Taken /\ Continue
    /\ UNCHANGED <<mem, ledger, replays>>

\* Mutant: the verifier is not asked.
TakeClaimTrusted ==
    /\ Taking({"ok"}) /\ Call = "done" /\ Taken /\ Break
    /\ mem' = [mem EXCEPT !.status = "verified"]
    /\ UNCHANGED <<ledger, replays>>

\* claim_done is judged on the observation made at the start of the turn.
TakeClaim ==
    /\ Taking({"ok"}) /\ Call = "done" /\ Taken /\ Break
    /\ \/ /\ view[1] \in Goal
          /\ mem' = [mem EXCEPT !.status = "verified"]
          /\ UNCHANGED ledger
       \/ mem' = AfterOutcome(mem) /\ ledger' = LedgerOutcome(mem)
    /\ UNCHANGED replays
-----------------------------------------------------------------------------
\* What is on disk is now what is in memory.
Settled == IF fork = "now" THEN "past" ELSE fork

Save ==
    /\ pc = "save"
    /\ store' = mem /\ fork' = Settled
    /\ pc' = "turn" /\ ClearTurn
    /\ UNCHANGED <<ledger, screen, mem, turn, grants, verdict, replays, kept, held>>

Over == pc = "finish" \/ (pc = "turn" /\ (mem.status # "running" \/ turn = MaxTurns))

\* Mutant: running out of turns is not a failure.
FinishRunning ==
    /\ Over
    /\ store' = mem /\ fork' = Settled
    /\ pc' = "idle" /\ turn' = 0
    /\ kept' \in Keepable(kept, mem) /\ held' = FALSE
    /\ UNCHANGED <<mem, ledger, screen, turnVars, grants, verdict, replays>>

\* The loop is over: a session still running has used up its turns.  The
\* state is saved, whatever the snapshot holds by now, and returned.
Finish ==
    /\ Over
    /\ mem' = [mem EXCEPT !.status = IF @ = "running" THEN "failed" ELSE @]
    /\ store' = mem' /\ fork' = Settled
    /\ pc' = "idle" /\ turn' = 0
    /\ kept' \in Keepable(kept, mem') /\ held' = FALSE
    /\ UNCHANGED <<ledger, screen, turnVars, grants, verdict, replays>>

\* The run is cut off: what it did not save is no longer on its way to disk.
CutOff ==
    /\ CanCrash
    /\ mem' = store /\ fork' = Settled
    /\ pc' = "idle" /\ turn' = 0 /\ ClearTurn
    /\ held' = FALSE
    /\ UNCHANGED <<store, ledger, screen, verdict, replays>>

\* The process dies, and with it its grants and the states kept in it.
Crash == CutOff /\ grants' = {} /\ kept' = {}

\* An exception that nothing catches (the device cannot be observed) leaves
\* the caller of run(state) with the object as the run has changed it.
Abort ==
    /\ CutOff /\ pc # "idle"
    /\ IF held THEN kept' \in Keepable(kept, mem) ELSE UNCHANGED kept
    /\ UNCHANGED grants

Resume == ResumePeek \/ ResumeOpen \/ ResumeDeny \/ ResumeApprove

Work == \/ Replay \/ ReplayResult
        \/ \E cropped \in BOOLEAN : Observe(cropped)
        \/ ModelFails \/ ModelSilent
        \/ \E calls \in Batches : ModelCalls(calls)
        \/ ExecPark \/ ExecDispatch \/ ExecError
        \/ \E r \in PlanWritten : ExecPlanWrite(r)
        \/ TakePlanWrite \/ TakeApproval \/ TakeGated \/ TakeError
        \/ TakeAction \/ TakeZoom \/ TakeOther \/ TakeClaim
        \/ Save \/ Finish

Next == Resume \/ (\E s \in kept : Run(s)) \/ Work \/ Crash \/ Abort

Spec     == Init /\ [][Next]_vars
FairSpec == Spec /\ WF_vars(Work)
-----------------------------------------------------------------------------
\* The type of every variable.
TypeOK ==
    /\ store \in Session /\ mem \in Session
    /\ ledger \in {"none", "required", "updated"}
    /\ screen \in Screens
    /\ pc \in {"idle", "replay", "replayed", "turn", "model", "exec",
               "results", "save", "finish"}
    /\ turn \in 0 .. MaxTurns
    /\ view \in Views \cup {NoView}
    /\ batch \in Seq(Calls) /\ results \in Seq(Results)
    /\ k \in 0 .. Len(results)
    /\ grants \in SUBSET Consequential
    /\ verdict \in [Consequential -> {"none", "approved", "denied"}]
    /\ replays \in 0 .. 2
    /\ kept \subseteq Session /\ held \in BOOLEAN
    /\ fork \in {"never", "now", "past"}

\* Dispatched, also if the answer never came.
Executed(i, S) == results[i] \in {"ok", "failed"} /\ batch[i] \in S

\* A consequential call reaches the phone or the host only while the user's
\* last decision on it is an approval, also after crashes, replays and denials
\* (AuthorityBroker.check and resolve_approval).  A denial revokes no grant
\* (policy.py:47-61): once a client has run a state other than the snapshot, a
\* session can go on after a denial with the grant of an earlier approval.
ApprovedBeforeDispatch ==
    fork = "never" =>
        \A i \in DOMAIN results :
            Executed(i, Consequential) => verdict[batch[i]] = "approved"

\* With require_plan_before_mutation, no Android action is executed unless a
\* non-empty plan is already in the snapshot on disk: a crash right after the
\* action still resumes with the plan it acted under ("commit the durable plan
\* update in its own turn", runtime.py:623).  The first turn of a run(state)
\* whose state is not the snapshot acts under the plan of that state.
DurablePlanFirst ==
    fork # "now" =>
        \A i \in DOMAIN results :
            RequirePlan /\ Executed(i, Mutations) => store.planned

\* While the journal's last word before a turn is that a plan update is
\* required, the turn executes no dependent call (comment at runtime.py:76-78),
\* for clients that run no state other than the snapshot.
\* k = 0: no result is processed, so the ledger is what earlier turns left.
ObligationBlocks ==
    ledger = "required" /\ k = 0 /\ pc # "replayed" /\ fork = "never"
        => \A i \in DOMAIN results : ~Executed(i, Dependent)

\* A session that becomes verified does so on a screen that satisfies the
\* verifier's predicates (UiObservationVerifier, "from the current observation").
VerifiedMeansGoal == mem.status = "verified" => screen \in Goal

\* A run makes a session verified only on a screen that satisfies the
\* predicates, if the turn that claims it has dispatched no Android action.
VerifiedUnlessMoved ==
    [][pc # "idle" /\ pc' # "idle" /\ mem.status # "verified" /\ mem'.status = "verified"
         /\ (\A i \in DOMAIN results : ~Executed(i, Mobile))
           => screen \in Goal]_vars

\* A parked call is dispatched at most once by the resume that approves it,
\* unless a client wrote the parked state back with run(state).
ReplayedOnce == fork = "never" => replays <= 1

\* The runtime implements the lifecycle a client relies on: an ended session
\* changes, and a parked one moves without the decision on its call, only by a
\* run(state) of a state other than the snapshot (runtime.py:429-431, :523).
Rerun    == fork = "now"
Decision == IF store.status = "awaiting_approval" /\ pc # "idle" /\ mem # store /\ ~Rerun
            THEN verdict[store.pending] ELSE "none"
Lifecycle == INSTANCE SessionLifecycle WITH
                Calls <- Consequential, status <- store.status,
                parked <- store.pending, decision <- Decision, rerun <- Rerun
ImplementsLifecycle == Lifecycle!Spec

\* A run that returns leaves a durable session that is not "running".
ReturnsSettled ==
    [][pc # "idle" /\ pc' = "idle" => store'.status # "running"]_vars

\* Every run returns, whatever the model, the user and the phone answer.
RunReturns == (pc # "idle") ~> (pc = "idle")
=============================================================================
