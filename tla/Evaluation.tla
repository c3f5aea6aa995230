----------------------------- MODULE Evaluation -----------------------------
(***************************************************************************)
(* scripts/evaluate_androidworld.py: a list of benchmark tasks run one     *)
(* after the other in one environment, by the durable runtime ("core") or  *)
(* by the Harness of core.py ("harness"), each under an optional deadline. *)
(*                                                                         *)
(* The deadline is a one-shot alarm that raises TimeoutError wherever the  *)
(* task is.  The environment and the evaluator of a task are external.     *)
(***************************************************************************)
EXTENDS Naturals, Sequences

CONSTANTS
    Tasks,   \* how many tasks
    MaxSteps \* turns of one task

VARIABLES
    runtime,  \* "core" or "harness", for the whole suite
    timed,    \* whether --task-timeout is given
    task,     \* the task being run, by position
    pc,       \* where the script is
    turns,    \* turns of this task
    timer,    \* its alarm: "off", "armed" or "spent"
    env,      \* the task the environment is initialised for, or 0
    reached,  \* whether the environment satisfies that task
    success,  \* is_success, which outlives a task
    verdict,  \* history: what the task's evaluator last said of this task
    claimed,  \* history: whether the agent has claimed completion
    results,  \* a record for each finished task
    successes, \* the count of the summary
    exit      \* the exit status, or 2 before there is one

vars == <<runtime, timed, task, pc, turns, timer, env, reached, success, verdict,
          claimed, results, successes, exit>>

\* What the script and the task of the moment are, and what it has recorded.
suite  == <<runtime, timed>>
report == <<results, successes, exit>>

Verdicts == {"none", "pass", "fail", "raised"}
Result(won, said, claim) == [success |-> won, verdict |-> said, claimed |-> claim]
Verdict == IF env = task /\ reached THEN "pass" ELSE "fail"

Init ==
    /\ runtime \in {"core", "harness"} /\ timed \in BOOLEAN
    /\ task = 0 /\ pc = "next" /\ turns = 0
    /\ timer = "off" /\ env = 0 /\ reached = FALSE
    /\ success = FALSE /\ verdict = "none" /\ claimed = FALSE
    /\ results = <<>> /\ successes = 0 /\ exit = 2

NoParams ==
    /\ pc = "next" /\ task < Tasks
    /\ task' = task + 1
    /\ results' = Append(results, Result(FALSE, "none", FALSE))
    /\ UNCHANGED <<suite, pc, turns, timer, env, reached, success, verdict, claimed, successes, exit>>

NextTask ==
    /\ pc = "next" /\ task < Tasks
    /\ task' = task + 1
    /\ pc' = "initialize" /\ turns' = 0
    /\ timer' = IF timed THEN "armed" ELSE "off"
    /\ verdict' = "none" /\ claimed' = FALSE
    /\ UNCHANGED <<suite, env, reached, success, report>>

Initialize ==
    /\ pc = "initialize"
    /\ env' = task /\ reached' \in BOOLEAN
    /\ pc' = "turn"
    /\ UNCHANGED <<suite, task, turns, timer, success, verdict, claimed, report>>

\* Observe, ask, check, act: whatever the action, the screen may change.  A
\* blocked action, a zoom and a failed model call are turns too.
Turn ==
    /\ pc = "turn" /\ turns < MaxSteps
    /\ turns' = turns + 1
    /\ reached' \in BOOLEAN
    /\ UNCHANGED <<suite, task, pc, timer, env, success, verdict, claimed, report>>

\* The harness asks the evaluator about a claim and goes on if it is refused.
HarnessClaim ==
    /\ pc = "turn" /\ turns < MaxSteps /\ runtime = "harness"
    /\ claimed' = TRUE /\ verdict' = Verdict
    /\ turns' = turns + 1
    /\ pc' = IF Verdict = "pass" THEN "score" ELSE "turn"
    /\ UNCHANGED <<suite, task, timer, env, reached, success, report>>

\* The run is over: all turns spent, or a blocked or parked core session.
Stop ==
    /\ pc = "turn" /\ (turns = MaxSteps \/ runtime = "core")
    /\ pc' = "score"
    /\ UNCHANGED <<suite, task, turns, timer, env, reached, success, verdict, claimed, report>>

\* task.is_successful decides, whatever the agent and the runtime say.
Score ==
    /\ pc = "score"
    /\ verdict' = Verdict /\ success' = (Verdict = "pass")
    /\ pc' = "leave"
    /\ UNCHANGED <<suite, task, turns, timer, env, reached, claimed, report>>

\* Mutant: the handler does not reset is_success.
Rethrown ==
    /\ pc' = "teardown" /\ timer' = "off"
    /\ verdict' = IF pc \in {"score", "leave"} THEN "raised" ELSE verdict
    /\ UNCHANGED <<suite, task, turns, reached, success, report>>

\* An exception leaves the deadline's block: the task counts as failed.
Thrown ==
    /\ pc' = "teardown" /\ timer' = "off" /\ success' = FALSE
    /\ verdict' = IF pc \in {"score", "leave"} THEN "raised" ELSE verdict
    /\ UNCHANGED <<suite, task, turns, reached, report>>

\* The environment, the agent of the harness or the evaluator raises.
Raise ==
    /\ pc \in {"initialize", "turn", "score"}
    /\ Thrown
    /\ env' \in IF pc = "initialize" THEN {env, task} ELSE {env}
    /\ UNCHANGED claimed

\* The core runtime calls verify(task, observation, events); the evaluator's
\* adapter also wants the device, so the claim itself ends in a TypeError.
CoreClaim ==
    /\ pc = "turn" /\ turns < MaxSteps /\ runtime = "core"
    /\ claimed' = TRUE
    /\ Thrown
    /\ UNCHANGED env

AlarmThrown ==
    /\ timer = "armed" /\ pc \in {"initialize", "turn", "score", "leave"}
    /\ Thrown
    /\ UNCHANGED <<env, claimed>>

\* "except Exception" around the model call, the device action and the
\* screenshot takes the alarm for a failure of its own, and no other comes.
AlarmSwallowed ==
    /\ timer = "armed" /\ pc = "turn" /\ turns < MaxSteps
    /\ timer' = "spent"
    /\ turns' = turns + 1
    /\ reached' \in BOOLEAN
    /\ UNCHANGED <<suite, task, pc, env, success, verdict, claimed, report>>

LeaveDeadline ==
    /\ pc = "leave"
    /\ timer' = "off" /\ pc' = "teardown"
    /\ UNCHANGED <<suite, task, turns, env, reached, success, verdict, claimed, report>>

\* A tear-down that raises is a warning, and may leave the task as it is.
TearDown ==
    /\ pc = "teardown"
    /\ env' \in {0, env} /\ pc' = "record"
    /\ UNCHANGED <<suite, task, turns, timer, reached, success, verdict, claimed, report>>

Record ==
    /\ pc = "record"
    /\ results' = Append(results, Result(success, verdict, claimed))
    /\ successes' = IF success THEN successes + 1 ELSE successes
    /\ pc' = "next"
    /\ UNCHANGED <<suite, task, turns, timer, env, reached, success, verdict, claimed, exit>>

\* A trace that cannot be written ends the suite without a summary.
Abort ==
    /\ pc = "record"
    /\ pc' = "ended" /\ exit' = 1 /\ env' = 0
    /\ UNCHANGED <<suite, task, turns, timer, reached, success, verdict, claimed, results, successes>>

Summarize ==
    /\ pc = "next" /\ task = Tasks
    /\ pc' = "ended" /\ env' = 0
    /\ exit' = IF successes = Len(results) THEN 0 ELSE 1
    /\ UNCHANGED <<suite, task, turns, timer, reached, success, verdict, claimed, results, successes>>
-----------------------------------------------------------------------------
Step ==
    \/ NoParams \/ NextTask \/ Initialize
    \/ Turn \/ HarnessClaim \/ CoreClaim \/ Stop \/ Score
    \/ Raise \/ AlarmThrown \/ AlarmSwallowed
    \/ LeaveDeadline \/ TearDown \/ Record \/ Abort \/ Summarize

Spec == Init /\ [][Step]_vars

\* The type of every variable.
TypeOK ==
    /\ task \in 0..Tasks /\ turns \in 0..MaxSteps /\ env \in 0..Tasks
    /\ pc \in {"next", "initialize", "turn", "score", "leave", "teardown", "record", "ended"}
    /\ timer \in {"off", "armed", "spent"}
    /\ pc \in {"next", "teardown", "record", "ended"} => timer = "off"
    /\ verdict \in Verdicts /\ exit \in 0..2

\* run_evaluation ("AndroidWorld's evaluator is authoritative"; "Score every
\* planned task"): a task is recorded as a success exactly if its own
\* evaluator passed it in an environment initialised for it and nothing was
\* raised since; at the end every task has its record, and the exit status is
\* 0 exactly if all are successes.
VerdictIsEvaluators ==
    /\ \A i \in DOMAIN results : results[i].success <=> results[i].verdict = "pass"
    /\ pc \in {"next", "initialize", "turn"} => Len(results) + (IF pc = "next" THEN 0 ELSE 1) = task
    /\ pc = "ended" /\ task = Tasks /\ Len(results) = Tasks =>
         (exit = 0 <=> \A i \in DOMAIN results : results[i].success)
    /\ exit = 0 => Len(results) = Tasks

\* README.md: "terminal claims continue to be independently scored": a task
\* whose agent claims completion has been put to its evaluator.
ClaimsAreScored ==
    \A i \in DOMAIN results : results[i].claimed => results[i].verdict # "none"
=============================================================================
