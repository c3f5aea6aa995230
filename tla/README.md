# Verification of mobile-harness

TLA+ specifications of the durable mobile agent runtime in `src/mobile_harness`, the TLC
configurations that check them on small instances, and TLAPS proofs of their main safety
properties for every value of the constants. All paths below are relative to
`src/mobile_harness` unless they start with `tests/` or `README.md`.

To parse, check and prove (inside this directory):

    tlasany SessionStore.tla
    tlc -workers 2 -config MCStore.cfg MCSessionStore
    tlapm SessionStoreProofs.tla

## 1. Inventory

### Components, their state and operations

| Component | State it keeps | Operations | Model |
|---|---|---|---|
| Agent runtime (`runtime.py`, `MobileAgentRuntime`) | `SessionState` in memory: status, pending approval, plan flags, zoom, stagnation counter, events | `start`, `resume`, `run`, the turn loop, `_execute_calls`, `_recover`, `_verify` | `AgentRuntime`, `SessionLifecycle` |
| Task plan (`tools.py` plan and todo tools, `runtime._recover`) | `state.plan`: steps with id, status, dependencies, attempts, budget, retry time | `plan(set/update)`, `todo(replace/merge)`, recovery | `TaskPlan` |
| Recovery policy (`recovery.py`) | none | `classify`, `recover`, choice of the next step | inside `TaskPlan` |
| Session lease (`runtime.py` `SessionStore.lease`) | one lease file per session | create, judge dead owner, reap, deadline, release | `SessionLease` |
| Session store (`runtime.py` `SessionStore`) | snapshot file, digest file | `save`, `load`, migration | `SessionStore` |
| Event journal (`history.py`) | hash-chained `<id>.events.jsonl`, derived `search-index.json` | `append`, `read`, `rebuild`, search | `SessionStore` (the journal), `HistoryIndex` (the index) |
| Evidence (`runtime.py` 307-354) | evidence files, manifest | capture, verify | `Evidence` |
| Tool broker (`tools.py` `ToolBroker`) | references to the stores, the todo and plan of the session | `execute`, some 50 tools | `AgentRuntime`, `TaskPlan` (the dispatch, gates, plan, todo, claim), `CommandRun` |
| Authority (`policy.py`) | grants of the live process | `check`, `approve`, `resolve_approval` | `AgentRuntime` |
| Delegation (`delegation.py`) | futures, kept results, cancelled ids, thread pool, `delegations.jsonl` | `submit`, `run`, `result`, `cancel`, `resume_pending` | `Delegation` |
| Curated memory (`memory.py` `CuratedMemoryStore`) | candidates, promoted items, promotion ledger, lock file | `stage`, `curate`, `prune`, recall | `CuratedMemory` |
| Skills (`memory.py` `SkillStore`) | candidates, current and versioned skill files | `stage`, `curate`, `save`, delete | `SkillStore` |
| Prompts (`prompts.py`) | event compaction, a prefix cache | `compact_if_needed`, rendering | `Compaction`; its effect on loading in `SessionStore` |
| Extensions and MCP (`extensions.py`) | registry, server records, hook lists, child processes | connect, refresh, disconnect, call, dispatch hooks | `Extensions`, `McpTransport` |
| Model resilience (`resilience.py`) | attempts of the last request | retries, back-off and fallback over providers | `ModelCalls` |
| Providers (`providers.py`) | one response stream | request, read frames, parse | `ModelCalls` (the stream) |
| Core harness, `DevicePolicy` (`core.py`, `policy.py`) | step counter, events, current observation | observe, decide, check, act or zoom, verify | inside `Evaluation` |
| Evaluation (`../scripts/evaluate_androidworld.py`, `benchmarks.py`) | the task, its alarm, results | initialise, run, score, tear down, record | `Evaluation` |
| Ports, ADB, model adapters, CLI, config | none over time | I/O, parsing, wiring | not modelled |

### How they interact

A client calls `start`, `resume` or `run`. The runtime takes the session **lease**, loads the
session (snapshot, digest, then **journal** replay) and runs turns. A turn observes the device,
asks the model for a batch of calls, checks the batch against the gates, hands every call to the
**tool broker** (which asks the **authority** for consequential ones and writes the **task plan**),
and only then processes the results one by one: approval pause, error and **recovery**, plan
write, action, claim and verdict. Every event goes to the journal at once; the snapshot is saved at
the end of the turn. A verdict triggers memory **curation**; a tool starts **delegation**, whose
pool threads run beside the turn loop. Leases, memory, skills, journals and the search index are
shared by processes. Other tools call an **MCP server** through one locked client per server, or run
a **command** under a deadline. The model is a list of **providers** with retries. The
**evaluation script** drives the runtime or the older harness over a list of benchmark tasks.

### What is hard

* *Crashes*: a process may die between two file operations (snapshot and digest, journal and
  snapshot, item and ledger line, lease creation and its content), or inside an append.
* *Framing*: the journal, the delegation records and the memory are written with `ensure_ascii=False`
  and read with `str.splitlines()`, which also ends a line at U+0085, U+2028 and U+2029.
* *Ordering*: all calls of a batch run before the first result is looked at.
* *Stale state*: a verdict on the observation made before the batch; `run(state)` with a state kept
  by the caller; a kept delegation result; a prune that writes back what it read.
* *Concurrency*: workers of several processes race on the lease and the memory; callers, deadlines
  and pool threads race on a delegated task.
* *Long call sequences*: `update` and recovery write step statuses without the validation that
  plan and todo writes pass.
* *Retries and limits*: budgets, turn limits, provider failures, deadlines.
* *Deadlines racing answers*: an MCP answer that comes when its request has given up; a command
  that exits as its deadline passes; an alarm that some handler takes for an ordinary failure.

`PROJECT.json` lists each hazard at its line with the properties that cover it.

### What makes each component correct

* Runtime: nothing consequential is executed without approval; no action before a durable plan;
  an ended session stays ended unless a client runs an older state of it; a verdict is about the screen that is there; every run returns.
* Task plan: one active step, unique ids, acyclic dependencies; budgets bind recovery; recovery
  chooses only an eligible step.
* Lease: one live holder; a dead holder does not block the session.
* Store: no recorded event is lost; event numbers are unique; a session can be loaded, or it is known
  what locks it out.
* Delegation: one live run per task; no task forgotten, none kept active without a run; calls return.
* Memory: a candidate is promoted once, and stays; the lock is never left held.
* Skills: the current file is the newest version. Evidence: what the session refers to is there
  and whole. Index: no writer's event is dropped. Compaction: the outcomes that matter stay known.
* MCP: an answer reaches its own request; only tools of a live record are registered.
* Model: an answer is one attempt's, after all models before it failed. Commands: a time-out stops
  the tree. Evaluation: a recorded success is the evaluator's verdict on that very task.

## 2. Modules

### TaskPlan (`TaskPlanProofs`, `MCTaskPlan`)

`plan` is `state.plan`. `PlanSet`, `TodoReplace`, `TodoMerge` and `PlanUpdate` are the successful
calls of the two tools, `Recover` is `_recover` with the recovery policy, `RetryDue` the passing of
a retry time. Attempts are what the model gives (`tools.py:548`) until recovery counts them. A rejected
write changes nothing and has no action, and neither has the update of an unknown id, which raises. The history variable `reopened`
remembers which ids the model wrote since they last failed.
Left out or abstracted: parents, descriptions and evidence; a retry timestamp is absent or due,
future, or invalid; a merge appends at most one unknown item; negative budgets and timestamps without
a zone.

### AgentRuntime and SessionLifecycle (`AgentRuntimeProofs`, `MCAgentRuntime`)

`mem` is the session in memory, `store` its snapshot, `ledger` the last obligation event of the
journal, `pc` the place in `resume` and `_run_locked`. `kept` are the `SessionState` objects that a
client keeps from `start`, `resume` and `run`; `Run` is `run(state)` of any of them, which loads
nothing, and `fork` remembers whether the state was another than the snapshot. `Resume*` and `Replay*` are `resume`,
`Observe` to `ModelCalls` the head of a turn with the batch checks, `Exec*` the serial calls of
`_execute_calls`, `Take*` the branches of the result loop, `Save` and `Finish` the ends of turn
and loop. `Crash` is the death of the process; `Abort` an exception that leaves the loop, after which the caller
of `run(state)` still has the object as the run changed it. `SessionLifecycle` is the abstract
specification: what a client may rely on about the durable session. A run of a state other than the
snapshot is a step of it (`HandBack`): until that run has saved, the session may become anything, an ended
one included. `ImplementsLifecycle` is the refinement.
Abstractions: a call is its kind; the plan is whether it has steps; the phone shows a screen number
that only the session's own actions change; the search for a crop that no longer fits is the free
choice of `Observe`; a bad zoom is an error; an abort keeps the grants and a death loses them, and the
kept states with them; one client process uses the session at a time (others are kept away by the lease, and
what they saved is what `resume` loads). A time-out of a dispatched call is "failed" and may have moved the screen.
Memory curation and compaction inside a turn are in modules of their own.

### SessionLease (`SessionLeaseProofs`, `MCSessionLease`)

One action per file-system call: exclusive creation, writing the owner, judging, reaping, the
deadline, and a release that reads the token and then unlinks. `stolen` remembers that a reaper
removed the file of a living worker. A worker is one thread of its own process, process ids are not
reused, and unlinking an existing file succeeds.

### SessionStore (`SessionStoreProofs`, `MCSessionStore`)

Snapshot, digest and journal on disk, the state of the present or the last call, and the other states that
callers keep. `Start`, `Resume` and `Rerun` (`run(state)`, of any kept state) are the ways to take the session, `Peek`
a `resume` without a decision, which only returns the loaded state, `Record` is `_event`, `Compact` the effect of
`compact_if_needed` (any older events may be dropped), `SaveSnapshot` and `SaveDigest` the two
replaces of `save`, `Return` and `Die` the ends of a call. A hash is the identity of what was
hashed. A line reads as an event, is skipped, or makes the reader raise: a torn line is skipped and swallows the
line appended to it, and an event whose text holds a line separator of Unicode is skipped or raises (one of its
fragments may be JSON but no event). The history variables `recorded` and `unread` remember which events'
appends returned and which of their lines do not read, `forked` whether a call went on from a state other than
the last call's. An append that is cut exactly before its line end is left out. Only what decides
which events a session has is in the copies; migration and the search index are left out.

### Delegation (`DelegationProofs`, `MCDelegation`)

A run is one submission of a task. `phase` follows `_run_one` step by step, `pc` a caller in `run`
and `result`, `cancel` or `resume_pending`; `futures`, `completed` and `cancelled` are the
manager's tables; `latest` and `ragged` are the journal as `_latest` reads it, where a record is skipped that
is torn or whose goal, summary or error holds a line separator (`unread`). `Crash` is the
death of the process followed by a new manager over the same journal.
Abstractions: the store root is given; ids in one submission are distinct; the records of one
submission are written at once; taking a task out of the table and answering its future is one
step; the journal can be written (an I/O error at `delegation.py:170` would leave the id in `_futures`);
there is one process at a time, and an isolated child does not survive it.

### CuratedMemory (`CuratedMemoryProofs`, `MCCuratedMemory`)

`staged`, `promoted` and `ledger` are the three files, `holder` the promotion lock (a thread lock
and an `flock`, freed by the system when its holder dies). `Stage`; `CurateRead`, `Skip`,
`Promote`, `AppendLedger`, `Curated`; and `PruneRead`, `PruneReplace` are the bodies of the three
writers. `Die` may leave a fragment of the line being written, which takes the next line with it, and an item
whose text or evidence holds a line separator does not read.
`written`, `unledgered` and `lost` are histories. Candidates of one call are taken in any order;
expired items are the oldest ones; a fragment does not parse. Left out: the public `promote`, which
nothing in the program calls, reading, and the lock time-out of Windows.

### The components around the runtime (`Services`, `ServicesProofs`, `MCServices`)

The next nine modules model components that share no state with one another. `Services` instantiates
each of them on its own variables, declares their constants with the assumptions on them and
combines their specifications and properties; `ServicesProofs` proves about all nine, and
`MCServices` only defines the values that TLC gives to some of the constants. In `Services` the
variable `part`, chosen at the start, says which one runs, and the others stay at their initial
state. The state graph is therefore the union of nine small ones, not their product, and one run
asks the nine questions.

* **SkillStore** (`SkillStoreProofs`): one skill name. `Stage`, `Curate`, `Accept`, `Reject` are staging and
  review; `Lock`, `Count`, `WriteVersion`, `WriteCurrent` are `save` under the promotion lock; `Delete` takes no
  lock, as in the code; `Die` may come between the two writes. `behind` counts saves that died there.
* **Evidence**: `files` and `manifest` on disk; `Reuse` or `Open` and `Written` for each
  artifact of an observation, `Compose` and `UpdateManifest` at its end. A file is torn from the moment it is
  opened until it is written. A name is the hash of the content, so an artifact is its own name.
* **HistoryIndex**: `Append`, `Journal`, `LoadIndex`, `SaveIndex` are `append` under the mutation lock; `Search`,
  `Rebuild` to `ReplaceIndex`, `SearchAgain` a search that finds nothing and rebuilds; `ReadRaises` is a rebuild
  that meets a broken chain. All sessions' journals are one set; an event is found by one word; the lines of the
  events in `Split` do not read.
* **Compaction**: what is kept as events (head and tail) and as important outcomes in the checkpoint, through
  repeated compaction, `Save` and `Reload` (which brings dropped events back from the journal). When
  the context is too large is a free choice; a summarizer that fails leaves everything as it is.
* **McpTransport**: threads that share a `StdioMcpClient`. Each line is read by a reader thread of its own;
  `LineTimeout`, `LateLine` and `HardStop` are the deadline, the grace and the stop of the process. `Answer`,
  `Notify` and `Exit` are the server and are external: it answers in any order, or never, and sends notices,
  lines that are no object, and requests of its own, whose numbers may be the caller's.
* **Extensions**: `registry`, `conn` and `saved` are the capability registry, the live servers and the server store.
  An operation registers its tools one by one; `Refused` is a name that is registered already and `Malformed` a
  listing of another shape: both raise outside the `try` and leave the process and what was registered so far.
  `partial` remembers those. Callers' approval and fingerprints are given.
* **ModelCalls**: `ResilientModel.respond` around one streamed request: `Frame`, `Done`, `Stall`, `BadFrame`, or
  `Whole` for a provider that answers at once. `Send` and `End` are the provider and are external: it ends its answer,
  with [DONE] or by closing, after any frame. The answer is one call in `Frames` frames; those that the code skips
  (comments, frames without choices, an error frame among them) and delays are left out.
* **Evaluation**: `run_evaluation` with both runtimes. `Initialize`, `Turn`, `HarnessClaim`, `CoreClaim`, `Score`,
  `TearDown`, `Record` follow one task; `Raise` is an exception in any of them; `AlarmThrown` and `AlarmSwallowed`
  are the two things that the one-shot alarm may come to. `verdict` and `claimed` are histories. The environment
  is right or wrong for the goal; only the run of the task itself changes it.
* **CommandRun**: a command leading a process group and its descendants, each of which may leave the group,
  hold the output pipes, or exit at any time; `Expire`, `Poll`, `KillGroup`, `KillCommand`, `Collect` are the deadline on POSIX.

## 3. Runs

| Run | Question | Result |
|---|---|---|
| `plan` | Do all mixes of plan and todo writes, updates, failures and time keep the plan valid, budgets respected and recovery sound? | holds |
| `runtime_turns` | Without crashes: do consequential calls of mixed batches wait for approval, does a required update block dependent calls, is an approved call replayed once, does every run return and return settled? | holds |
| `runtime_crash` | With a crash or abort between any two steps and a client that runs kept states: approvals, durable plan, lifecycle, verdicts. | holds |
| `runtime_stale_claim` | Is a session verified only on a goal screen? | **violated**: a batch `tap, done` is judged on the view before the tap |
| `runtime_obligation` | Does an obligation survive a crash? | **violated**: it is journaled at once, saved later and never read back from the journal |
| `lease` | Is exclusivity lost only by robbery; does nobody wait for ever; is a dead owner's lease reclaimed? | holds |
| `lease_exclusive` | Is the lease exclusive? | **violated**: a created but still empty file is judged corrupt and reaped |
| `store` | With compaction, torn and unreadable lines, runs of kept states and deaths: which events loading returns, what prevents loading, unique numbers. | holds |
| `delegation` | One live run per task, no task forgotten or kept active, calls return. | holds |
| `memory` | Promotion once and lasting, the lock comes free. | holds |
| `services` | For each of the nine components around the runtime: MCP answers and registry, model answers, evaluation verdicts, skill versions, evidence, index, outcomes, command trees. | holds |
| `evaluation_claim` | Is a claim of the core runtime put to the evaluator? | **violated**: it raises a `TypeError`, recorded as a failed task |

### Bounds, and why they are enough

* `plan`: two interchangeable ids, plans of up to two steps, one budget (2, so that both a failure
  within it and the one that exhausts it occur), attempts that the model sets to 0 or 1, two failures counted per step. Two steps give a
  prerequisite and its dependant, the active step and its successor, and a cycle to refuse.
* `runtime_*`: two screens (one satisfies the goal), three turns (act, fail, resume; stagnation
  needs three identical views), single calls and every pair in which one call can affect another.
  The number of resumptions is not bounded. With crashes: two turns, six batches (`CrashCalls`) and one kept
  state, enough for a parked state to be run after a resume has ended the session. Without: `MaxKept = 0`, a client
  that uses `resume` alone. Proofs cover all batches, turns, screens and kept states.
* `lease*`: three workers, one lease each: a robbed owner, a robber and a third that profits. The
  bound on leases matters for `AskReturns`: with unbounded requests a reaper may starve.
* `store`: four events and one kept state: two events for a line behind one that does not read, which breaks the
  chain, two more for renumbering after compaction. Callers reach the session through the disk or
  through a kept state, and the lease lets one of them run at a time, so they need no names.
* `delegation`: three tasks, one of which has a separator in its goal, two callers, one pool thread, two submissions:
  enough for a task queued behind a hung one, a resubmission during a cancellation, and a resume after a crash.
* `memory`: two workers with three calls each, one candidate of every kind, two sessions, at most
  one torn write, separators in any text, and prune keeping one item. Checked by search: a candidate promoted twice after a
  death without a torn write, an item lost to a fragment, and one call promoting two candidates.

* `services`: two workers (also the callers, servers and index processes), two texts and one other word
  (three artifacts, tools, events or descendants, so that one shares its word and one is not allowed).
  Skills: three versions, for a death between two whole saves. MCP: three requests and two notices (or requests of the server), for a late
  answer, the request that follows it and one more; two processes, for a reconnection. Model: three models, one
  retry, three frames (nothing, part, all). Index: one of the three events does not read. Evaluation: two tasks of two turns, for a record that could
  keep the success of the task before. Compaction: head 1, tail 2, two outcomes and nine events, of which six are
  important: three compactions and more outcomes than are kept. The code's values are 4, 24 and 16.
* `evaluation_claim`: the same script with two tasks; the first is the counterexample.

`CHECK_DEADLOCK FALSE` is set where the system may stop: every worker dead or done with its
bounded requests, or no event left to record.

### Fairness

* `AgentRuntime`: weak fairness of the worker's steps together. One synchronous thread runs the
  loop; providers, tools and device calls return or raise (each has a time-out). Nobody has to
  resume. A crash needs no fairness, and `RunReturns` is checked without crashes.
* `SessionLease`: weak fairness per worker of its steps and of its deadline. Leaving `held` is not
  fair: a run may take for ever.
* `Delegation`: weak fairness of each caller's steps (its deadline passes). None for pool threads:
  a worker may hang, and calls must return all the same.
* The modules of `services` state no fairness and no liveness: an MCP server, a provider, a descendant
  and an evaluator are not the program's to schedule, and the deadline of a task can be lost (section 5).
* `CuratedMemory`: weak fairness of each worker's steps inside the lock. Entering is not fair: the
  property is that the lock comes free, not that a given worker gets it.

## 4. Proofs

All theorems hold for every value of the constants that satisfies the named assumptions of the
modules (option flags are Booleans, bounds are naturals, and "none" is no worker).

* **TaskPlan**: `TypeCorrect`, `PlanStaysWellFormed`, `BudgetIsRespected`, `RecoveryIsSafe`. The
  conjunction of the three state properties is inductive. The crux is that recovery never makes two
  steps active: it demotes every active step and promotes at most one that was pending; and that
  acyclicity depends only on ids and dependencies, which update, merge and recovery keep.
* **AgentRuntime**: `TypeCorrect`, `DispatchIsApproved`, `PlanIsDurable`, `VerdictIsFresh`,
  `RuntimeImplementsLifecycle`. The inductive invariant `IInv` adds to the properties where the
  parts of a batch stand (`BatchShape`), how the session in memory relates to the snapshot
  (`MemShape`, `PlanSync`, `ParkedPlan`), that a batch with a plan write has no mutation
  (`BatchPlan`), that every grant of the process was approved and not since denied
  (`GrantsApproved`, `Decided`, `ReplayApproved`), and that the view is the screen until the batch
  acts (`ViewFresh`); `KeptShape` says of the states a client keeps what holds of any snapshot. A denial is
  followed by a blocked session, which is why a grant that outlives it is harmless - until a client runs the state of
  before (section 5), so approvals, obligations and replays are stated for `fork = "never"`. Durable plans and the
  lifecycle hold again once the run of the other state has saved. The refinement theorem shows that every step is a step or a stutter of
  `SessionLifecycle` under the mapping in `AgentRuntime`. `ObligationIsMet`, `ApprovedCallRunsOnce` and
  `ReturnIsSettled` are about runs that are not cut short (`~CanCrash`, as in `runtime_turns`). For the first the
  journal and the session agree on an obligation (`LedgerKnown`), and a batch met by one at the gate is held there
  whole or has no dependent call (`GateHolds`); for the second a call that waits for its decision or its replay has
  not been dispatched (`NotYetReplayed`).
* **SessionLease**: `LeaseTypeCorrect`, `LeaseIsExclusive`, from the invariant that, until a living
  worker is robbed, whoever created the file and has not released it still owns the path.
* **SessionStore**: `TypeCorrect` and `OnlyUnreadLinesLock` hold whatever states callers reuse. `TInv` says that
  everything on disk and in memory is made of the events created so far; `JInv` that each line that reads continues the
  line before it, or starts anew if that one does not read, and that a recorded event is in a line or counted
  unread. So the chain holds as long as no event stands behind a line that does not read. `SequencesAreUnique` and
  `HistoryIsDurable` are about sessions whose calls each went on from the state of the one before (`~forked`: no id was
  started again, no older state run; without this TLC loses an event and repeats a number, section 5).
  Their invariant `UInv` (`Continues`) says that among the events of the disk and of that state
  a number names one event, and that no event of the disk is numbered above the newest of the state
  (`Reaches`). So the next number, one above the newest kept, is free even after a compaction, and
  a torn append, which leaves an event in memory only, cannot give its number away twice.
* **Delegation**: `DelegationTypeCorrect`, `OneRunAtATime`, `ActiveIsLive`, `PendingHasARun`. The
  invariant relates tables, phases and records: a live run is the one in `futures`, a record
  names a run of its task, a pending record is of a run not yet settled or of one whose outcome did not
  read, a torn line and a crash leave idle callers.
* **CuratedMemory**: `MemoryTypeCorrect` (with mutual exclusion), `PromotionIsIdempotent`,
  `PromotionLasts`. The invariant adds that the candidate between its item and its ledger line is one
  and not ledgered (`SubjectIsFresh`), that items without a kept ledger line are counted
  (`LedgerCounts`), and that between the two steps of a prune the memory has nothing that is neither
  written back nor recorded as dropped (`RetainedCovers`).
* **SkillStore**: `TypeCorrect`, `SkillIsNewest`. Inductive with three facts: a saver inside the lock has a
  text, the number it computed is the next one (and the newest after its first write), and a current file
  that was not deleted is the version `behind` saves before the newest. The
  crux is that a death between the two writes is the only step that changes that difference.
* **Services** (`ServicesProofs`): one theorem for each component, about `ServicesSpec`, so that it states the
  very property that the run `services` checks; `ServicesTypeCorrect` collects the types. Each has an inductive
  invariant over the variables of its component, and `part` keeps the steps of the others away.
  * *Evidence*, `EvidenceSafe`: the open file is torn and has no manifest entry yet (`OpenFile`), no other file
    is torn but by a death (`FilesKnown`), and each entry vouches for the bytes in its file (`ManifestHolds`): files
    are never rewritten, so an entry cannot go stale.
  * *Index*, `IndexLosesNothing`: what the holder of the lock is about to write is the index it read and its
    event, or the whole journal as it still is (`Views`). The lock covers journal and index together: that is the argument.
  * *MCP*, `McpSound`: at most one reader is on the pipe, and it is the owner's (`OneReader`); a registration
    under way has registered only what it has done so far (`Operation`), and what a listing that raises
    leaves behind is known (`partial`).
  * *Model*, `AnswerAfterFallback`: the attempts of the models before the present one are used up and those of
    the later ones are untouched (`Attempts`), and what is assembled was sent on the connection under way (`AnswerFrames`).
  * *Evaluation*, `SuccessIsTheEvaluators`: the flag of a task is the evaluator's verdict or unset (`Judged`), records
    are one per finished task and were right when written (`RecordsJudged`, `Counted`), and the exit status was
    computed from all of them (`Finished`).
  * *Commands*, `TimeoutStopsTheTree`: after the kill nothing of the group runs, unless the command had exited itself.
  * *Compaction*, `OutcomesSurvive`, is the deepest: events are a head and a tail of the numbers up to the last
    (`EventsForm`); outcomes may repeat, because a reload brings compacted events back, but if a smaller one follows
    a greater one then the greater one comes again later (`Recurs`). So cutting the list to its newest entries keeps,
    of each important event, the entry or enough greater ones (`Displaced`). The loop that collects what matters is a
    recursive function (`Collected`); `CollectedSelects` proves what it returns for every sequence.

The library's induction theorem for the naturals takes an operator as a parameter and cannot be used here. Where
a proof needs induction, it uses the equivalent fact on sets: `LeastNumber` (a non-empty set of naturals has a least
member, from `NatLessThanWellFounded` and `WFMin`) and `AllNumbers` (a set with 0 and all successors of its members is
`Nat`). They are applied to the set of the numbers at which the claim holds; `MaxOfBounded` in `SessionStoreProofs`
is the same device.

### Only model-checked

* Liveness, which TLAPS does not support: `RunReturns`, `AskReturns`, `DeadLeaseIsReclaimed`, `CallsReturn`, `LockComesFree`.
* The four claims that are violated; there is nothing to prove.
* The theorems on obligations, replays and settled returns with crashes: `ObligationBlocks` is then false (the
  run `runtime_obligation` shows it), an approved call can be dispatched again, and a run that was cut off leaves its
  session running. That these fail once a client runs an older state is described in section 5, without a run.

Every other property of the passing runs is a theorem. No module with a proof uses a recursive operator.

## 5. Divergences met

Shown by runs (see `findings` in `PROJECT.json`): the verdict on a stale view, the obligation lost in
a crash, the lease that is not exclusive, and the benchmark claim that is never scored.

Seen in the code while modelling, described here and not separate runs:

* A crash between the snapshot's replace and its digest's leaves a session that `load` refuses for ever, although
  `runtime.py:169` says "interrupted writes never erase history". `ResumableUnlessUnread` is about snapshots whose
  digest was written.
* Journal and records are written with `ensure_ascii=False` and read with `str.splitlines()`, which also ends a line at
  U+0085, U+2028 and U+2029 (`history.py:39` and `:52`). An event with such a character, from a screen or a web page, is written
  whole and does not read: after a crash it is lost, although `runtime.py:258` says that "a crash after journal append
  but before snapshot replacement loses no events"; the next event breaks the chain, after which `load` and a
  rebuild of the index raise; and if a fragment is JSON but no event, `read` raises at once. The same framing loses a record of a
  delegation (`delegation.py:204`, `:220`: a completed task stays pending and is resumed), an item of the memory
  (`memory.py:155`, `:223`, `:249`) and a skill candidate (`memory.py:282`, `:287`). Checked by search: with `Separators` the
  store's properties fail without their exemptions `unread` and `EventBehindUnread`.
* `run(state)` (`runtime.py:429-431`) loads nothing. Handed a parked state after another resume has ended the session, it
  leaves the loop at once and the save at `runtime.py:523` puts `awaiting_approval` back over `verified`; the call can be
  approved and dispatched again. A running state of before a denial goes on with the grant of an earlier approval, because a denial
  revokes none (`policy.py:47-61`). Events of the journal whose numbers the older state gives anew are dropped by `load`.
  `runtime.py:180-182` founds the lease on "journal hash chains cannot safely merge two independently resumed state
  snapshots": the lease orders the calls, not the states that they go on from. `SessionLifecycle!HandBack`, `fork` and `forked` mark exactly these.
* `result` of the delegation manager prefers a result kept for the id to the submission its caller waits for
  (`delegation.py:121`), and `tools.py:801` numbers tasks from 1 in every call.
* The deadline of a benchmark task is one alarm. Raised where a caller catches `Exception` or `OSError` (a model
  call, `benchmarks.py:56` and `:69`, a tool), it is an ordinary failure, and the task then has no deadline;
  `evaluate_androidworld.py:55` says "Bound one task on POSIX hosts".
* A command that exits before its deadline while a descendant holds its pipes: nothing is stopped, the result
  still says "process tree cancelled", and `tools.py:492` says that a time-out must stop the whole tree.
* A model stream is accepted wherever it ends, also when `[DONE]` follows an error frame or a part of the answer
  (`providers.py:79-87`): a call whose arguments had not begun arrives with none. A malformed frame raises a `RuntimeError`, which the retries do not catch.
* The search index is called rebuildable, but an event whose writer died before the index was saved stays
  unfindable as long as the search matches anything else.
* A torn evidence file keeps its name; when the same content is captured again the manifest vouches for the
  torn bytes, and loading accepts them.
* An MCP listing with a repeated name, or a malformed one (`"tools": null`, an entry that is no object,
  `extensions.py:201-205`), raises outside the `try` that closes the client: part of the tools may stay registered
  and, on connecting, a process stays up that no record owns. A request of the server that has the id of the caller's
  passes `extensions.py:278-280` and is returned as its result. `refresh` drops the tools before it asks. The server store is read, changed and
  written without a lock. Notices restart the time-out of a request; the server's stderr is never read.
* An exception of an extension's handler leaves `ToolBroker.execute` and ends the run unsaved.
* Deleting a skill takes no lock. `compacted_event_count` counts events again after a reload brought them back.
* MobileWorld and MemGUI initialise their environment outside the `try` that tears it down.
* Parallel web reads check the host interval without a lock, and a load that fails is not counted.
* A resumed approval is dispatched outside the plan gates, and its success records no outcome.
  After a crash it can be approved and dispatched again; `policy.py:59` says that calls are
  "intentionally not replayed automatically".
* Serial calls after one that needs approval still run, and their results are not journaled.
* A torn journal line swallows the next record; after one more append the hash chain does not hold,
  and the session cannot be loaded (`EventBehindUnread`).
* A release reads the token and then unlinks; between the two a robbed worker may remove
  another's file.
* A task cancelled in the queue stays active for ever, and the resubmission of a timed-out id is
  journaled as queued and never runs. A worker's own `TimeoutError` is taken for the deadline on
  Python 3.11 and later.
* `README.md:27` calls promotion idempotent; a death between the item and the ledger line promotes
  twice. `PromotedOnce` allows exactly that. The docstring at `memory.py:109` says only reviewed
  evidence becomes recallable; `curate` ignores a refusal by its `reviewer` callback for a success with evidence.
* `SkillStore.curate` promotes every candidate of the session again on each call, and asks its reviewer twice.

## 6. Done, not modelled, and what could come next

Done: the turn loop with its gates and approvals and the abstract lifecycle it implements; the task
plan and recovery; the lease; the store and journal; delegation; curated memory; skills; evidence; the search
index; compaction; MCP; model calls; the evaluation script; commands. All of them have proofs.

Not modelled, and why:

* Device ports, ADB, the older model adapters: one request and one answer, no behaviour over time that the
  models do not already treat as an arbitrary answer.
* Contracts, the trust filter, trace, configuration, command lines: data types, scanning of text, logging, wiring.
* Hook dispatch, extension manifests, file and web tools, `VerifiedExperienceStore`: loops and single writes
  without an interleaving that a property could be about. What a race on the unlocked web cache and its limiter
  costs is one request more.
* `PlanValidation`: Kahn's order in `tools.py` 652-659 is modelled by the acyclicity it decides (`TaskPlan!Acyclic`), not
  step by step; parents of plan steps are left out.

Next, if the project is taken further: an abstract promise for the store (a session is a growing set of events)
and for the lease (a mutex that a robbery breaks), refined by the detailed modules; the runtime composed with a delegation
manager and an MCP client in one turn.
