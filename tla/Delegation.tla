----------------------------- MODULE Delegation -----------------------------
(***************************************************************************)
(* DelegationManager (delegation.py): callers of one process submit tasks, *)
(* wait for their results, cancel them and resume unfinished ones; a pool  *)
(* of threads runs them; a journal of status records outlives the process. *)
(*                                                                         *)
(* A run is one submission of a task, numbered in order of submission; a   *)
(* result is the number of the run that produced it.  The journal is, as   *)
(* _latest reads it, the last record of every task that parses.  A record  *)
(* is written with ensure_ascii=False and read with splitlines(), which    *)
(* also splits at U+0085, U+2028 and U+2029: one whose goal, summary or    *)
(* error holds such a separator is whole on disk and does not parse.  The  *)
(* records of one submission are written at once: a crash amid them is a   *)
(* crash after the submission of fewer tasks.  The ids of one submission   *)
(* are distinct.                                                           *)
(***************************************************************************)
EXTENDS Naturals, Sequences, FiniteSets

CONSTANTS
    Ids,         \* identifiers of tasks
    Callers,     \* threads that call the manager
    Batches,     \* what one call of `run` may submit: sequences of ids
    SplitGoals,  \* tasks whose goal holds a line separator
    MaxWorkers,  \* threads of the pool
    CanCrash,    \* whether the process may die and be started again
    MaxRuns      \* bound: tasks ever submitted

None == 0
Distinct(b) == \A m, n \in DOMAIN b : b[m] = b[n] => m = n
ASSUME BatchesAssumption ==
    \A b \in Batches : b \in Seq(Ids) /\ b # <<>> /\ Distinct(b)
ASSUME OptionAssumption == CanCrash \in BOOLEAN /\ SplitGoals \subseteq Ids
ASSUME BoundsAssumption == MaxRuns \in Nat /\ MaxWorkers \in Nat \ {0}

Runs == 1 .. MaxRuns

\* Where a run is in _run_one, or how it ended.  "stopped" is a future that was
\* cancelled in the queue, "gone" a run of a process that died.
Begun == {"begin", "record", "working", "judge", "cancelling", "storing",
          "publishing", "failing", "recording", "popping", "returning"}
Live  == Begun \cup {"queued"}
Ended == {"returned", "raised", "stopped"}
Phase == Live \cup Ended \cup {"unborn", "gone"}

Pending  == {"queued", "running"}
Statuses == Pending \cup {"completed", "failed", "cancelled", "timed_out"}
Record   == [status : Statuses, run : Runs]
NoRecord == [status |-> "none", run |-> None]

VARIABLES
    used,       \* runs submitted so far
    task,       \* the task of each run
    phase,      \* where each run is
    futures,    \* _futures: the run of each task, or None
    completed,  \* _completed: the run whose result is kept for each task
    cancelled,  \* _cancelled
    latest,     \* the journal's last record of each task that parses
    ragged,     \* the journal ends in a torn line
    unread,     \* history: runs of which a whole record does not parse
    pc,         \* what each caller is doing
    todo,       \* runs whose results a caller still wants
    handle,     \* the run whose future a caller waits for or cancelled
    unfinished  \* the tasks resume_pending read

runVars    == <<used, task, phase>>
tableVars  == <<futures, completed, cancelled>>
diskVars   == <<latest, ragged, unread>>
callerVars == <<pc, todo, handle, unfinished>>
vars == <<runVars, tableVars, diskVars, callerVars>>

Init ==
    /\ used = 0
    /\ task = [r \in Runs |-> None] /\ phase = [r \in Runs |-> "unborn"]
    /\ futures = [i \in Ids |-> None] /\ completed = [i \in Ids |-> None]
    /\ cancelled = {}
    /\ latest = [i \in Ids |-> NoRecord] /\ ragged = FALSE /\ unread = {}
    /\ pc = [c \in Callers |-> "idle"] /\ todo = [c \in Callers |-> <<>>]
    /\ handle = [c \in Callers |-> None]
    /\ unfinished = [c \in Callers |-> {}]

\* Whether the record may parse: it carries the task, and an outcome the text
\* of a worker.
Readings(i, s) == IF i \in SplitGoals THEN {FALSE}
                  ELSE IF s \in {"completed", "failed"} THEN BOOLEAN ELSE {TRUE}

\* _record: a record appended to a torn line is lost with it.
Journal(i, s, r) ==
    \E reads \in Readings(i, s) :
        /\ latest' = IF ragged \/ ~reads THEN latest
                     ELSE [latest EXCEPT ![i] = [status |-> s, run |-> r]]
        /\ unread' = IF reads THEN unread ELSE unread \cup {r}
        /\ ragged' = FALSE

Goto(c, place) == pc' = [pc EXCEPT ![c] = place]
-----------------------------------------------------------------------------
(* submit.                                                                 *)

IdsOf(b) == {b[n] : n \in DOMAIN b}

\* Mutant: only tasks that have begun count as active.
BusyOnceBegun(S) == \E i \in S : futures[i] # None /\ phase[futures[i]] \in Begun

Busy(S)  == \E i \in S : futures[i] # None
RunOf(b, i) == used + CHOOSE n \in DOMAIN b : b[n] = i

Submit(b) ==
    /\ ~Busy(IdsOf(b)) /\ used + Len(b) <= MaxRuns
    /\ used' = used + Len(b)
    /\ task' = [r \in Runs |-> IF r \in used + 1 .. used + Len(b)
                               THEN b[r - used] ELSE task[r]]
    /\ phase' = [r \in Runs |-> IF r \in used + 1 .. used + Len(b)
                                THEN "queued" ELSE phase[r]]
    /\ futures' = [i \in Ids |-> IF i \in IdsOf(b) THEN RunOf(b, i) ELSE futures[i]]
    /\ latest' = [i \in Ids |->
                    IF i \in IdsOf(b) \ SplitGoals /\ (ragged => i # b[1])
                    THEN [status |-> "queued", run |-> RunOf(b, i)]
                    ELSE latest[i]]
    /\ unread' = unread \cup {used + n : n \in {m \in DOMAIN b : b[m] \in SplitGoals}}
    /\ ragged' = FALSE
    /\ UNCHANGED <<completed, cancelled>>

\* `run` submits and then asks for each result in turn.
Run(c, b) ==
    /\ pc[c] = "idle" /\ Submit(b)
    /\ Goto(c, "result")
    /\ todo' = [todo EXCEPT ![c] = [n \in DOMAIN b |-> used + n]]
    /\ UNCHANGED <<handle, unfinished>>
-----------------------------------------------------------------------------
(* result.                                                                 *)

Asked(c) == Head(todo[c])
IdOf(c)  == task[Asked(c)]

Give(c) ==
    /\ todo' = [todo EXCEPT ![c] = Tail(@)]
    /\ Goto(c, IF Len(todo[c]) = 1 THEN "idle" ELSE "result")
    /\ UNCHANGED <<runVars, tableVars, diskVars, handle, unfinished>>

\* The call raises; `run` gives up on the results it has not asked for.
Raise(c) ==
    /\ Goto(c, "idle") /\ todo' = [todo EXCEPT ![c] = <<>>]
    /\ UNCHANGED <<runVars, tableVars, handle, unfinished>>

\* A kept result of the task is returned, else its future is waited for, else
\* the journal is read.
LookKept(c) ==
    /\ pc[c] = "result" /\ completed[IdOf(c)] # None
    /\ Give(c)

LookAhead(c) ==
    /\ pc[c] = "result" /\ completed[IdOf(c)] = None
    /\ Goto(c, IF futures[IdOf(c)] = None THEN "recall" ELSE "wait")
    /\ handle' = [handle EXCEPT ![c] = futures[IdOf(c)]]
    /\ UNCHANGED <<runVars, tableVars, diskVars, todo, unfinished>>

Recall(c) ==
    /\ pc[c] = "recall"
    /\ IF latest[IdOf(c)].status = "completed"
       THEN Give(c)
       ELSE Raise(c) /\ UNCHANGED diskVars

AwaitValue(c) ==
    /\ pc[c] = "wait" /\ phase[handle[c]] = "returned"
    /\ Give(c)

AwaitRaise(c) ==
    /\ pc[c] = "wait" /\ phase[handle[c]] \in {"raised", "stopped"}
    /\ Raise(c) /\ UNCHANGED diskVars

\* Mutant: a deadline runs only once the task does.
AwaitExpireBegun(c) ==
    /\ pc[c] = "wait" /\ phase[handle[c]] \in Begun
    /\ cancelled' = cancelled \cup {IdOf(c)}
    /\ Goto(c, "expired")
    /\ UNCHANGED <<runVars, futures, completed, diskVars, todo, handle, unfinished>>

\* The deadline of the task passes while its future is not done, or its worker
\* raised the same TimeoutError (since Python 3.11) when its own deadline passed.
AwaitExpire(c) ==
    /\ pc[c] = "wait" /\ phase[handle[c]] \in Live \cup {"raised"}
    /\ cancelled' = cancelled \cup {IdOf(c)}
    /\ Goto(c, "expired")
    /\ UNCHANGED <<runVars, futures, completed, diskVars, todo, handle, unfinished>>

RecordExpired(c) ==
    /\ pc[c] = "expired"
    /\ Journal(IdOf(c), "timed_out", Asked(c))
    /\ Raise(c)
-----------------------------------------------------------------------------
(* cancel and resume_pending.                                              *)

Cancel(c, i) ==
    /\ pc[c] = "idle" /\ futures[i] # None
    /\ cancelled' = cancelled \cup {i}
    /\ phase' = [phase EXCEPT ![futures[i]] = IF @ = "queued" THEN "stopped" ELSE @]
    /\ handle' = [handle EXCEPT ![c] = futures[i]]
    /\ Goto(c, "cancel")
    /\ UNCHANGED <<used, task, futures, completed, diskVars, todo, unfinished>>

RecordCancel(c) ==
    /\ pc[c] = "cancel"
    /\ LET i == task[handle[c]]
       IN  IF latest[i] = NoRecord THEN UNCHANGED diskVars
           ELSE Journal(i, "cancelled", handle[c])
    /\ Goto(c, "idle")
    /\ UNCHANGED <<runVars, tableVars, todo, handle, unfinished>>

ResumeRead(c) ==
    /\ pc[c] = "idle"
    /\ unfinished' = [unfinished EXCEPT ![c] = {i \in Ids : latest[i].status \in Pending}]
    /\ unfinished'[c] # {}
    /\ Goto(c, "resume")
    /\ UNCHANGED <<runVars, tableVars, diskVars, todo, handle>>

\* The unfinished tasks are submitted, unless one of them is active.
Lists(S) == {b \in UNION {[1 .. n -> S] : n \in 1 .. MaxRuns} :
                IdsOf(b) = S /\ Distinct(b)}

ResumeSubmit(c) ==
    /\ pc[c] = "resume" /\ Goto(c, "idle")
    /\ unfinished' = [unfinished EXCEPT ![c] = {}]
    /\ \/ \E b \in Lists(unfinished[c]) : Submit(b)
       \/ /\ Busy(unfinished[c])
          /\ UNCHANGED <<runVars, tableVars, diskVars>>
    /\ UNCHANGED <<todo, handle>>
-----------------------------------------------------------------------------
(* _run_one, on a thread of the pool.                                      *)

Step(r, from, to) == phase[r] = from /\ phase' = [phase EXCEPT ![r] = to]
Cancelled(r)      == task[r] \in cancelled
NoRecordYet       == UNCHANGED diskVars
NoTable           == UNCHANGED tableVars

\* The pool takes the oldest queued run when a thread is free.
Start(r) ==
    /\ \A s \in Runs : s < r => phase[s] # "queued"
    /\ Cardinality({s \in Runs : phase[s] \in Begun}) < MaxWorkers
    /\ Step(r, "queued", "begin") /\ NoTable /\ NoRecordYet

\* A run that finds its task cancelled raises outside the try statement, and
\* stays in _futures.
Begin(r) ==
    /\ Step(r, "begin", IF Cancelled(r) THEN "raised" ELSE "record")
    /\ NoTable /\ NoRecordYet

RecordRunning(r) ==
    /\ Step(r, "record", "working") /\ NoTable
    /\ Journal(task[r], "running", r)

\* The worker returns, or raises.
Work(r) ==
    /\ Step(r, "working", "judge") \/ Step(r, "working", "failing")
    /\ NoTable /\ NoRecordYet

Judge(r) ==
    /\ Step(r, "judge", IF Cancelled(r) THEN "cancelling" ELSE "storing")
    /\ NoTable /\ NoRecordYet

\* Mutant: the status is spelled otherwise.
RecordCanceled(r) ==
    /\ Step(r, "cancelling", "popping") /\ NoTable
    /\ Journal(task[r], "canceled", r)

RecordCancelled(r) ==
    /\ Step(r, "cancelling", "popping") /\ NoTable
    /\ Journal(task[r], "cancelled", r)

RecordCompleted(r) ==
    /\ Step(r, "storing", "publishing") /\ NoTable
    /\ Journal(task[r], "completed", r)

Publish(r) ==
    /\ Step(r, "publishing", "returning")
    /\ completed' = [completed EXCEPT ![task[r]] = r]
    /\ UNCHANGED <<futures, cancelled>> /\ NoRecordYet

\* Mutant: a failure is recorded only for tasks that were cancelled.
FailSwapped(r) ==
    /\ Step(r, "failing", IF Cancelled(r) THEN "recording" ELSE "popping")
    /\ NoTable /\ NoRecordYet

Fail(r) ==
    /\ Step(r, "failing", IF Cancelled(r) THEN "popping" ELSE "recording")
    /\ NoTable /\ NoRecordYet

RecordFailed(r) ==
    /\ Step(r, "recording", "popping") /\ NoTable
    /\ Journal(task[r], "failed", r)

\* Mutant: only a run that returns leaves _futures.
PopReturned(r) ==
    /\ \/ Step(r, "popping", "raised") /\ UNCHANGED futures
       \/ Step(r, "returning", "returned") /\ futures' = [futures EXCEPT ![task[r]] = None]
    /\ UNCHANGED <<completed, cancelled>> /\ NoRecordYet

Pop(r) ==
    /\ Step(r, "popping", "raised") \/ Step(r, "returning", "returned")
    /\ futures' = [futures EXCEPT ![task[r]] = None]
    /\ UNCHANGED <<completed, cancelled>> /\ NoRecordYet
-----------------------------------------------------------------------------
\* The process dies, perhaps amid a record, and a new one opens the journal.
Crash ==
    /\ CanCrash
    /\ phase' = [r \in Runs |-> IF r <= used THEN "gone" ELSE "unborn"]
    /\ futures' = [i \in Ids |-> None] /\ completed' = [i \in Ids |-> None]
    /\ cancelled' = {}
    /\ ragged' \in {ragged, TRUE}
    /\ pc' = [c \in Callers |-> "idle"] /\ todo' = [c \in Callers |-> <<>>]
    /\ handle' = [c \in Callers |-> None]
    /\ unfinished' = [c \in Callers |-> {}]
    /\ UNCHANGED <<used, task, latest, unread>>

Call(c) == \/ \E b \in Batches : Run(c, b)
           \/ \E i \in Ids : Cancel(c, i)
           \/ ResumeRead(c)

\* What a caller does without waiting for another thread, once its deadline
\* has passed.
CallerStep(c) == \/ LookKept(c) \/ LookAhead(c) \/ Recall(c)
                 \/ AwaitValue(c) \/ AwaitRaise(c) \/ AwaitExpire(c)
                 \/ RecordExpired(c) \/ RecordCancel(c) \/ ResumeSubmit(c)

RunStep(r) == /\ \/ Start(r) \/ Begin(r) \/ RecordRunning(r) \/ Work(r) \/ Judge(r)
                 \/ RecordCancelled(r) \/ RecordCompleted(r) \/ Publish(r)
                 \/ Fail(r) \/ RecordFailed(r) \/ Pop(r)
              /\ UNCHANGED <<used, task, callerVars>>

Next == \/ \E c \in Callers : Call(c) \/ CallerStep(c)
        \/ \E r \in Runs : RunStep(r)
        \/ Crash

Spec == Init /\ [][Next]_vars

\* Callers are scheduled and deadlines pass; a worker may never return.
FairSpec == Spec /\ \A c \in Callers : WF_vars(CallerStep(c))
-----------------------------------------------------------------------------
\* The type of every variable.
TypeOK ==
    /\ used \in 0 .. MaxRuns
    /\ task \in [Runs -> Ids \cup {None}] /\ phase \in [Runs -> Phase]
    /\ futures \in [Ids -> Runs \cup {None}]
    /\ completed \in [Ids -> Runs \cup {None}]
    /\ cancelled \in SUBSET Ids
    /\ latest \in [Ids -> Record \cup {NoRecord}] /\ ragged \in BOOLEAN
    /\ unread \in SUBSET Runs
    /\ pc \in [Callers -> {"idle", "result", "recall", "wait", "expired",
                           "cancel", "resume"}]
    /\ todo \in [Callers -> Seq(Runs)]
    /\ handle \in [Callers -> Runs \cup {None}]
    /\ unfinished \in [Callers -> SUBSET Ids]

\* A task is executed by one run at a time, whoever submits, resumes, cancels
\* or times it out ("delegated task already active", delegation.py:105).
OneLiveRun ==
    \A r, s \in Runs :
        phase[r] \in Live /\ phase[s] \in Live /\ task[r] = task[s] => r = s

\* A task that was never cancelled and never timed out is refused as "already
\* active" only while a run of it is: failures and results free its id.
ActiveMeansLive ==
    \A i \in Ids : futures[i] # None /\ i \notin cancelled
                       => phase[futures[i]] \in Live

\* The journal calls a task queued or running only while a run of it is alive,
\* was lost with its process, was cancelled, or wrote its outcome in a record
\* that splitlines() breaks (delegation.py:204, 220): no failure, race or torn
\* line leaves a task of this process unfinished that nobody works on.
PendingIsLive ==
    \A i \in Ids : /\ latest[i].status \in Pending /\ i \notin cancelled
                   /\ latest[i].run \notin unread
                   => phase[latest[i].run] \in Live \cup {"gone"}

\* Every call of run, result or cancel returns or raises, although a worker may
\* hang and keep its thread of the pool for ever.
CallsReturn ==
    \A c \in Callers :
        pc[c] \in {"result", "recall", "wait", "expired", "cancel"} ~> pc[c] = "idle"
=============================================================================
