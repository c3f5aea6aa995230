-------------------------- MODULE DelegationProofs --------------------------
(***************************************************************************)
(* OneLiveRun, ActiveMeansLive and PendingIsLive hold for any number of    *)
(* tasks, callers, threads and crashes.  The inductive invariant adds what *)
(* ties the tables together: a live run is the future of its task, a       *)
(* record names a run of its task, and while the journal ends in a torn    *)
(* line no run is alive, so that only a "queued" record can be lost.       *)
(***************************************************************************)
EXTENDS Delegation, SequenceTheorems, TLAPS

RunsNumbered ==
    \A r \in Runs : /\ phase[r] = "unborn" <=> r > used
                    /\ r <= used => task[r] \in Ids

CallersKnow ==
    \A c \in Callers :
        /\ todo[c] \in Seq(1 .. used)
        /\ pc[c] \in {"result", "recall", "wait", "expired"} => todo[c] # <<>>
        /\ handle[c] \in 0 .. used
        /\ pc[c] = "cancel" => handle[c] # None

FuturesOwn ==
    \A i \in Ids : futures[i] # None => futures[i] <= used /\ task[futures[i]] = i

LiveIsFuture == \A r \in Runs : phase[r] \in Live => futures[task[r]] = r

RecordsOwn ==
    \A i \in Ids : latest[i] # NoRecord
        => latest[i].run \in 1 .. used /\ task[latest[i].run] = i

\* Where the run of a pending record may be: its own last record is still to come.
Unsettled == {"queued", "begin", "record", "working", "judge", "storing",
              "failing", "recording", "gone"}

PendingUnsettled ==
    \A i \in Ids : /\ latest[i].status \in Pending /\ i \notin cancelled
                   /\ latest[i].run \notin unread
                   => phase[latest[i].run] \in Unsettled

CancellingIsCancelled ==
    \A r \in Runs : phase[r] = "cancelling" => task[r] \in cancelled

TornIsIdle == ragged => \A r \in Runs : phase[r] \notin Live

IInv == /\ TypeOK /\ RunsNumbered /\ CallersKnow
        /\ FuturesOwn /\ LiveIsFuture /\ RecordsOwn
        /\ ActiveMeansLive /\ PendingUnsettled /\ CancellingIsCancelled /\ TornIsIdle

\* The part of the invariant that is not about callers.
RInv == /\ used \in 0 .. MaxRuns
        /\ task \in [Runs -> Ids \cup {None}] /\ phase \in [Runs -> Phase]
        /\ futures \in [Ids -> Runs \cup {None}]
        /\ completed \in [Ids -> Runs \cup {None}]
        /\ cancelled \in SUBSET Ids
        /\ latest \in [Ids -> Record \cup {NoRecord}] /\ ragged \in BOOLEAN
        /\ unread \in SUBSET Runs
        /\ RunsNumbered /\ FuturesOwn /\ LiveIsFuture /\ RecordsOwn
        /\ ActiveMeansLive /\ PendingUnsettled /\ CancellingIsCancelled /\ TornIsIdle
CInv == /\ pc \in [Callers -> {"idle", "result", "recall", "wait", "expired",
                               "cancel", "resume"}]
        /\ todo \in [Callers -> Seq(Runs)]
        /\ handle \in [Callers -> Runs \cup {None}]
        /\ unfinished \in [Callers -> SUBSET Ids]
        /\ CallersKnow

LEMMA Split == IInv <=> RInv /\ CInv
BY DEF IInv, RInv, CInv, TypeOK

LEMMA InitInv == Init => IInv
<1> SUFFICES ASSUME Init PROVE IInv
  OBVIOUS
<1>1. TypeOK
  <2>1. latest \in [Ids -> Record \cup {NoRecord}]
    BY DEF Init
  <2>2. todo \in [Callers -> Seq(Runs)]
    BY DEF Init
  <2>3. used \in 0 .. MaxRuns
    BY BoundsAssumption DEF Init
  <2>8. cancelled \in SUBSET Ids /\ ragged \in BOOLEAN /\ unread \in SUBSET Runs
    BY DEF Init
  <2>4. task \in [Runs -> Ids \cup {None}] /\ phase \in [Runs -> Phase]
    BY DEF Init, Phase
  <2>5. futures \in [Ids -> Runs \cup {None}] /\ completed \in [Ids -> Runs \cup {None}]
    BY DEF Init
  <2>6. handle \in [Callers -> Runs \cup {None}] /\ unfinished \in [Callers -> SUBSET Ids]
    BY DEF Init
  <2>7. pc \in [Callers -> {"idle", "result", "recall", "wait", "expired",
                            "cancel", "resume"}]
    BY DEF Init
  <2> QED
    BY <2>1, <2>2, <2>3, <2>4, <2>5, <2>6, <2>7, <2>8 DEF TypeOK
<1>2. RunsNumbered /\ CallersKnow
  BY BoundsAssumption DEF Init, RunsNumbered, CallersKnow, Runs, None
<1>3. FuturesOwn /\ LiveIsFuture /\ RecordsOwn
  BY DEF Init, FuturesOwn, LiveIsFuture, RecordsOwn, Live, Begun, None, NoRecord
<1>4. ActiveMeansLive /\ PendingUnsettled /\ CancellingIsCancelled /\ TornIsIdle
  BY DEF Init, ActiveMeansLive, PendingUnsettled, CancellingIsCancelled, TornIsIdle,
         None, NoRecord, Pending
<1> QED
  BY <1>1, <1>2, <1>3, <1>4 DEF IInv

\* Every phase a run is in is one of Phase, and which of them are live.
LEMMA Phases ==
    /\ Live = {"begin", "record", "working", "judge", "cancelling", "storing",
               "publishing", "failing", "recording", "popping", "returning", "queued"}
    /\ Phase = Live \cup {"returned", "raised", "stopped", "unborn", "gone"}
BY DEF Live, Begun, Ended, Phase

-----------------------------------------------------------------------------
\* A step of a run that keeps it alive and writes nothing keeps the invariant.
LEMMA QuietStep ==
    ASSUME RInv, NEW r \in Runs, NEW from, NEW to, Step(r, from, to),
           NEW S, S = Live, from \in S, to \in S,
           to = "cancelling" => task[r] \in cancelled,
           to \in {"publishing", "popping", "returning", "cancelling"} =>
               \/ from \notin Unsettled
               \/ task[r] \in cancelled
               \/ latest[task[r]].status \notin Pending,
           UNCHANGED <<used, task, tableVars, diskVars>>
    PROVE  RInv'
<1>1. phase' \in [Runs -> Phase]
  BY Phases DEF RInv, Step
<1>2. RunsNumbered'
  BY Phases DEF RInv, Step, RunsNumbered
<1>3. FuturesOwn' /\ RecordsOwn'
  BY DEF RInv, FuturesOwn, RecordsOwn, tableVars, diskVars
<1>4. LiveIsFuture'
  BY DEF RInv, LiveIsFuture, Step, tableVars
<1>5. ActiveMeansLive'
  BY DEF RInv, ActiveMeansLive, Step, tableVars
<1>6. PendingUnsettled'
  BY Phases DEF RInv, PendingUnsettled, RecordsOwn, Step, tableVars, diskVars, Unsettled, NoRecord, Pending
<1>7. CancellingIsCancelled'
  BY DEF RInv, CancellingIsCancelled, Step, tableVars
<1>8. TornIsIdle'
  BY DEF RInv, TornIsIdle, Step, diskVars
<1> QED
  BY <1>1, <1>2, <1>3, <1>4, <1>5, <1>6, <1>7, <1>8 DEF RInv, tableVars, diskVars

\* A record of a live run's own status keeps the record invariants.
LEMMA RecordStep ==
    ASSUME RInv, NEW r \in Runs, NEW from, NEW to, Step(r, from, to),
           NEW s \in Statuses,
           NEW S, S = Live, from \in S, to \in S, to # "cancelling",
           s \in Pending => to \in Unsettled,
           Journal(task[r], s, r), UNCHANGED <<used, task, tableVars>>
    PROVE  RInv'
<1> DEFINE i == task[r]
<1>1. phase' \in [Runs -> Phase] /\ i \in Ids /\ r <= used /\ r \in 1 .. used
  BY Phases, BoundsAssumption DEF RInv, Step, RunsNumbered, Runs
<1>2. ~ragged /\ ragged' = FALSE
  BY DEF RInv, TornIsIdle, Step, Journal
<1>3. \/ latest' = [latest EXCEPT ![i] = [status |-> s, run |-> r]] /\ unread' = unread
      \/ latest' = latest /\ unread' = unread \cup {r}
  BY <1>2 DEF Journal
<1>4. [status |-> s, run |-> r] \in Record
  BY DEF Record
<1>5. latest' \in [Ids -> Record \cup {NoRecord}] /\ unread' \in SUBSET Runs
  BY <1>3, <1>4 DEF RInv
<1>6. RunsNumbered'
  BY Phases DEF RInv, Step, RunsNumbered
<1>7. FuturesOwn' /\ LiveIsFuture'
  BY DEF RInv, FuturesOwn, LiveIsFuture, Step, tableVars
<1>8. RecordsOwn'
  BY <1>1, <1>3 DEF RInv, RecordsOwn
<1>9. ActiveMeansLive'
  BY DEF RInv, ActiveMeansLive, Step, tableVars
<1>10. PendingUnsettled'
  <2> SUFFICES ASSUME NEW j \in Ids, latest'[j].status \in Pending, j \notin cancelled,
                      latest'[j].run \notin unread'
               PROVE  phase'[latest'[j].run] \in Unsettled
    BY DEF PendingUnsettled, tableVars
  <2>1. CASE latest'[j] # latest[j]
    BY <1>1, <1>3, <2>1 DEF RInv, Step
  <2>2. CASE latest'[j] = latest[j] /\ latest[j].run # r
    <3>1. latest[j] # NoRecord /\ latest[j].run \notin unread
      BY <1>3, <2>2 DEF NoRecord, Pending
    <3>2. phase[latest[j].run] \in Unsettled
      BY <2>2, <3>1 DEF RInv, PendingUnsettled
    <3> QED
      BY <2>2, <3>2 DEF RInv, Step
  <2>3. CASE latest'[j] = latest[j] /\ latest[j].run = r
    <3>1. latest[j] # NoRecord
      BY <2>3 DEF NoRecord, Pending
    <3>2. j = i
      BY <2>3, <3>1 DEF RInv, RecordsOwn
    <3>3. latest'[i] = [status |-> s, run |-> r]
      BY <1>1, <1>3, <2>3 DEF RInv
    <3> QED
      BY <1>1, <2>3, <3>2, <3>3 DEF RInv, Step
  <2> QED
    BY <2>1, <2>2, <2>3
<1>11. CancellingIsCancelled'
  BY DEF RInv, CancellingIsCancelled, Step, tableVars
<1>12. TornIsIdle'
  BY <1>2 DEF TornIsIdle
<1> QED
  BY <1>1, <1>2, <1>5, <1>6, <1>7, <1>8, <1>9, <1>10, <1>11, <1>12 DEF RInv, tableVars

\* A caller's record of a final status keeps the record invariants.
LEMMA FinalRecord ==
    ASSUME RInv, NEW r \in 1 .. used, NEW s \in Statuses, s \notin Pending,
           Journal(task[r], s, r), UNCHANGED <<runVars, tableVars>>
    PROVE  RInv'
<1> DEFINE i == task[r]
<1>1. r \in Runs /\ i \in Ids
  BY BoundsAssumption DEF RInv, RunsNumbered, Runs
<1>2. [status |-> s, run |-> r] \in Record
  BY <1>1 DEF Record
<1>3. /\ latest' \in [Ids -> Record \cup {NoRecord}] /\ ragged' = FALSE
      /\ unread' \in SUBSET Runs /\ unread \subseteq unread'
  BY <1>1, <1>2 DEF RInv, Journal
<1>4. RunsNumbered' /\ FuturesOwn' /\ LiveIsFuture' /\ ActiveMeansLive' /\ CancellingIsCancelled'
  BY DEF RInv, RunsNumbered, FuturesOwn, LiveIsFuture, ActiveMeansLive,
         CancellingIsCancelled, runVars, tableVars
<1>5. \A j \in Ids : latest'[j] = latest[j]
                       \/ (j = i /\ latest'[j] = [status |-> s, run |-> r])
  BY DEF RInv, Journal
<1>6. RecordsOwn'
  BY <1>5 DEF RInv, RecordsOwn, runVars
<1>7. PendingUnsettled'
  BY <1>3, <1>5 DEF RInv, PendingUnsettled, runVars, tableVars
<1>8. TornIsIdle'
  BY <1>3 DEF TornIsIdle
<1> QED
  BY <1>3, <1>4, <1>6, <1>7, <1>8 DEF RInv, runVars, tableVars

-----------------------------------------------------------------------------
\* The steps of a run.
LEMMA RunKeeps ==
    ASSUME RInv, NEW r \in Runs, RunStep(r)
    PROVE  RInv'
<1> USE DEF NoTable, NoRecordYet
<1>0. UNCHANGED <<used, task>>
  BY DEF RunStep, callerVars
<1> DEFINE S == Live
<1>s. S = Live /\ {"queued", "begin", "record", "working", "judge", "cancelling", "storing",
                    "publishing", "failing", "recording", "popping", "returning"} \subseteq S
  BY Phases
<1> HIDE DEF S
<1>1. CASE Start(r)
  BY <1>0, <1>1, <1>s, QuietStep DEF Start
<1>2. CASE Begin(r)
  <2>1. CASE Cancelled(r)
    <3>1. /\ phase[r] = "begin" /\ phase' = [phase EXCEPT ![r] = "raised"]
          /\ task[r] \in cancelled /\ UNCHANGED <<tableVars, diskVars>>
      BY <1>2, <2>1 DEF Begin, Step, Cancelled
    <3>2. RunsNumbered' /\ phase' \in [Runs -> Phase]
      BY <1>0, <3>1 DEF RInv, RunsNumbered, Phase, Live, Begun, Ended
    <3>3. FuturesOwn' /\ RecordsOwn' /\ LiveIsFuture'
      BY <1>0, <3>1 DEF RInv, FuturesOwn, RecordsOwn, LiveIsFuture, tableVars, diskVars, Live, Begun
    <3>4. ActiveMeansLive'
      BY <3>1 DEF RInv, ActiveMeansLive, FuturesOwn, tableVars
    <3>5. PendingUnsettled'
      BY <3>1 DEF RInv, PendingUnsettled, RecordsOwn, Pending, NoRecord, tableVars, diskVars
    <3>6. CancellingIsCancelled' /\ TornIsIdle'
      BY <1>0, <3>1 DEF RInv, CancellingIsCancelled, TornIsIdle, tableVars, diskVars, Live, Begun
    <3> QED
      BY <1>0, <3>1, <3>2, <3>3, <3>4, <3>5, <3>6 DEF RInv, tableVars, diskVars
  <2>2. CASE ~Cancelled(r)
    <3>1. Step(r, "begin", "record")
      BY <1>2, <2>2 DEF Begin
    <3> QED
      BY <1>0, <1>2, <3>1, <1>s, QuietStep DEF Begin
  <2> QED
    BY <2>1, <2>2
<1>3. CASE RecordRunning(r)
  BY <1>0, <1>3, <1>s, RecordStep DEF RecordRunning, Statuses, Pending, Unsettled
<1>4. CASE Work(r)
  <2>1. CASE Step(r, "working", "judge")
    BY <1>0, <1>4, <2>1, <1>s, QuietStep DEF Work
  <2>2. CASE Step(r, "working", "failing")
    BY <1>0, <1>4, <2>2, <1>s, QuietStep DEF Work
  <2> QED
    BY <1>4, <2>1, <2>2 DEF Work
<1>5. CASE Judge(r)
  <2>1. CASE Cancelled(r)
    <3>1. Step(r, "judge", "cancelling") /\ task[r] \in cancelled
      BY <1>5, <2>1 DEF Judge, Cancelled
    <3> QED
      BY <1>0, <1>5, <3>1, <1>s, QuietStep DEF Judge
  <2>2. CASE ~Cancelled(r)
    <3>1. Step(r, "judge", "storing")
      BY <1>5, <2>2 DEF Judge
    <3> QED
      BY <1>0, <1>5, <3>1, <1>s, QuietStep DEF Judge
  <2> QED
    BY <2>1, <2>2
<1>6. CASE RecordCancelled(r)
  BY <1>0, <1>6, <1>s, RecordStep DEF RecordCancelled, Statuses, Pending
<1>7. CASE RecordCompleted(r)
  BY <1>0, <1>7, <1>s, RecordStep DEF RecordCompleted, Statuses, Pending
<1>8. CASE Publish(r)
  <2>1. completed' \in [Ids -> Runs \cup {None}] /\ futures' = futures /\ cancelled' = cancelled
    BY <1>8 DEF Publish, RInv
  <2> QED
    BY <1>0, <1>8, <2>1
       DEF Publish, Step, RInv, Phase, Live, Begun, Ended, RunsNumbered, FuturesOwn,
           LiveIsFuture, RecordsOwn, ActiveMeansLive, PendingUnsettled, Unsettled,
           CancellingIsCancelled, TornIsIdle, diskVars
<1>9. CASE Fail(r)
  <2>1. CASE Cancelled(r)
    <3>1. Step(r, "failing", "popping") /\ task[r] \in cancelled
      BY <1>9, <2>1 DEF Fail, Cancelled
    <3> QED
      BY <1>0, <1>9, <3>1, <1>s, QuietStep DEF Fail
  <2>2. CASE ~Cancelled(r)
    <3>1. Step(r, "failing", "recording")
      BY <1>9, <2>2 DEF Fail
    <3> QED
      BY <1>0, <1>9, <3>1, <1>s, QuietStep DEF Fail
  <2> QED
    BY <2>1, <2>2
<1>10. CASE RecordFailed(r)
  BY <1>0, <1>10, <1>s, RecordStep DEF RecordFailed, Statuses, Pending
<1>11. CASE Pop(r)
  <2>1. /\ phase[r] \in {"popping", "returning"} /\ task[r] \in Ids /\ r <= used
        /\ \E to \in {"raised", "returned"} : phase' = [phase EXCEPT ![r] = to]
        /\ futures' = [futures EXCEPT ![task[r]] = None]
        /\ completed' = completed /\ cancelled' = cancelled
        /\ latest' = latest /\ ragged' = ragged /\ unread' = unread
    BY <1>11, BoundsAssumption DEF Pop, Step, RInv, RunsNumbered, diskVars, Runs
  <2>2. futures[task[r]] = r
    BY <2>1 DEF RInv, LiveIsFuture, Live, Begun
  <2>3. RunsNumbered' /\ phase' \in [Runs -> Phase] /\ futures' \in [Ids -> Runs \cup {None}]
    BY <1>0, <2>1 DEF RInv, RunsNumbered, Phase, Live, Begun, Ended
  <2>4. FuturesOwn' /\ RecordsOwn'
    BY <1>0, <2>1 DEF RInv, FuturesOwn, RecordsOwn
  <2>5. LiveIsFuture'
    BY <1>0, <2>1, <2>2 DEF RInv, LiveIsFuture, Live, Begun
  <2>6. ActiveMeansLive'
    BY <2>1, <2>2 DEF RInv, ActiveMeansLive, FuturesOwn
  <2>7. PendingUnsettled'
    BY <2>1 DEF RInv, PendingUnsettled, Unsettled
  <2>8. CancellingIsCancelled' /\ TornIsIdle'
    BY <1>0, <2>1 DEF RInv, CancellingIsCancelled, TornIsIdle, Live, Begun
  <2> QED
    BY <1>0, <2>1, <2>3, <2>4, <2>5, <2>6, <2>7, <2>8 DEF RInv
<1> QED
  BY <1>1, <1>2, <1>3, <1>4, <1>5, <1>6, <1>7, <1>8, <1>9, <1>10, <1>11 DEF RunStep

-----------------------------------------------------------------------------
\* A submission of distinct tasks, none of them active, keeps the invariant.
LEMMA SubmitKeeps ==
    ASSUME RInv, NEW b \in Seq(Ids), b # <<>>, Distinct(b), Submit(b)
    PROVE  RInv' /\ used' \in used .. MaxRuns /\ used' = used + Len(b)
<1> DEFINE New == used + 1 .. used + Len(b)
<1>1. /\ used \in Nat /\ Len(b) \in Nat /\ Len(b) > 0 /\ MaxRuns \in Nat
      /\ used' = used + Len(b) /\ used' <= MaxRuns /\ DOMAIN b = 1 .. Len(b)
      /\ New \subseteq Runs
  BY BoundsAssumption DEF RInv, Submit, Runs
<1>2. /\ \A r \in Runs : task'[r] = IF r \in New THEN b[r - used] ELSE task[r]
      /\ \A r \in Runs : phase'[r] = IF r \in New THEN "queued" ELSE phase[r]
  BY DEF Submit
<1>3. /\ task' \in [Runs -> Ids \cup {None}]
      /\ phase' \in [Runs -> Phase]
  BY <1>1, Phases DEF Submit, RInv
<1>4. \A i \in IdsOf(b) : /\ RunOf(b, i) \in New /\ RunOf(b, i) \in Runs
                           /\ task'[RunOf(b, i)] = i
                           /\ phase'[RunOf(b, i)] = "queued"
  <2> SUFFICES ASSUME NEW i \in IdsOf(b)
               PROVE  /\ RunOf(b, i) \in New /\ task'[RunOf(b, i)] = i
                      /\ phase'[RunOf(b, i)] = "queued"
    BY <1>1
  <2> DEFINE n == CHOOSE m \in DOMAIN b : b[m] = i
  <2>1. n \in DOMAIN b /\ b[n] = i
    BY DEF IdsOf
  <2>2. RunOf(b, i) = used + n
    BY DEF RunOf
  <2> HIDE DEF n
  <2>3. RunOf(b, i) \in New /\ RunOf(b, i) - used = n /\ RunOf(b, i) \in Runs
    BY <1>1, <2>1, <2>2
  <2> QED
    BY <1>2, <2>1, <2>3
<1>5. \A r \in New : task'[r] \in IdsOf(b) /\ RunOf(b, task'[r]) = r
  <2> SUFFICES ASSUME NEW r \in New PROVE task'[r] \in IdsOf(b) /\ RunOf(b, task'[r]) = r
    OBVIOUS
  <2>1. r \in Runs /\ r - used \in DOMAIN b /\ task'[r] = b[r - used]
    BY <1>1, <1>2
  <2>2. task'[r] \in IdsOf(b)
    BY <2>1 DEF IdsOf
  <2>3. RunOf(b, task'[r]) \in New /\ RunOf(b, task'[r]) - used \in DOMAIN b
        /\ b[RunOf(b, task'[r]) - used] = task'[r]
    BY <1>1, <1>2, <1>4, <2>2, SMTT(30)
  <2>4. RunOf(b, task'[r]) - used = r - used
    BY <2>1, <2>3 DEF Distinct
  <2>5. RunOf(b, task'[r]) \in Nat /\ r \in Nat
    BY <1>4, <2>1, <2>2 DEF Runs
  <2>6. RunOf(b, task'[r]) = r
    BY <1>1, <2>4, <2>5
  <2> QED
    BY <2>2, <2>6
<1>6. /\ \A i \in Ids : futures'[i] = IF i \in IdsOf(b) THEN RunOf(b, i) ELSE futures[i]
      /\ futures' \in [Ids -> Runs \cup {None}]
      /\ \A i \in IdsOf(b) : i \in Ids /\ futures[i] = None
  <2>1. IdsOf(b) \subseteq Ids
    BY <1>1 DEF IdsOf
  <2> QED
    BY <1>4, <2>1 DEF Submit, Busy, RInv
<1>7. \A i \in Ids : \/ latest'[i] = latest[i]
                     \/ /\ i \in IdsOf(b)
                        /\ latest'[i] = [status |-> "queued", run |-> RunOf(b, i)]
  BY DEF Submit, RInv
<1>20. unread' \in SUBSET Runs /\ unread \subseteq unread'
  <2>1. \A n \in DOMAIN b : used + n \in New
    BY <1>1
  <2> QED
    BY <1>1, <2>1 DEF Submit, RInv
<1>8. latest' \in [Ids -> Record \cup {NoRecord}] /\ ragged' = FALSE
  <2>1. \A i \in IdsOf(b) : [status |-> "queued", run |-> RunOf(b, i)] \in Record
    BY <1>4 DEF Record, Statuses, Pending
  <2>2. \A i \in Ids : latest'[i] \in Record \cup {NoRecord}
    BY <1>7, <2>1 DEF RInv
  <2>3. latest' = [i \in Ids |-> latest'[i]]
    BY DEF Submit
  <2> HIDE DEF New
  <2> QED
    BY <2>2, <2>3 DEF Submit
<1>9. UNCHANGED <<completed, cancelled>>
  BY DEF Submit
<1> HIDE DEF New
<1>10. RunsNumbered'
  <2> SUFFICES ASSUME NEW r \in Runs
               PROVE  (phase'[r] = "unborn" <=> r > used') /\ (r <= used' => task'[r] \in Ids)
    BY DEF RunsNumbered
  <2>1. CASE r \in New
    BY <1>1, <1>2, <1>5, <1>6, <2>1 DEF New
  <2>2. CASE r \notin New
    BY <1>1, <1>2, <2>2 DEF New, RInv, RunsNumbered, Runs
  <2> QED
    BY <2>1, <2>2
<1>11. FuturesOwn'
  <2> SUFFICES ASSUME NEW i \in Ids, futures'[i] # None
               PROVE  futures'[i] <= used' /\ task'[futures'[i]] = i
    BY DEF FuturesOwn
  <2>1. CASE i \in IdsOf(b)
    BY <1>1, <1>4, <1>6, <2>1 DEF New
  <2>2. CASE i \notin IdsOf(b)
    <3>1. futures'[i] = futures[i] /\ futures[i] \in Runs
      BY <1>6, <2>2 DEF RInv
    <3>2. futures[i] <= used /\ task[futures[i]] = i
      BY <3>1 DEF RInv, FuturesOwn
    <3>3. futures[i] \notin New
      BY <1>1, <3>1, <3>2 DEF New, Runs
    <3> QED
      BY <1>1, <1>2, <3>1, <3>2, <3>3 DEF Runs
  <2> QED
    BY <2>1, <2>2
<1>12. LiveIsFuture'
  <2> SUFFICES ASSUME NEW r \in Runs, phase'[r] \in Live PROVE futures'[task'[r]] = r
    BY DEF LiveIsFuture
  <2>1. CASE r \in New
    BY <1>5, <1>6, <2>1
  <2>2. CASE r \notin New
    <3>1. futures[task[r]] = r /\ r # None /\ r <= used /\ task[r] \in Ids
      BY <1>2, <2>2, Phases DEF RInv, LiveIsFuture, Runs, None, RunsNumbered
    <3> QED
      BY <1>2, <1>6, <2>2, <3>1
  <2> QED
    BY <2>1, <2>2
<1>13. RecordsOwn'
  <2> SUFFICES ASSUME NEW i \in Ids, latest'[i] # NoRecord
               PROVE  latest'[i].run \in 1 .. used' /\ task'[latest'[i].run] = i
    BY DEF RecordsOwn
  <2>1. CASE latest'[i] = latest[i]
    <3>1. latest[i].run \in 1 .. used /\ task[latest[i].run] = i
      BY <2>1 DEF RInv, RecordsOwn
    <3> QED
      BY <1>1, <1>2, <2>1, <3>1 DEF New, Runs
  <2>2. CASE i \in IdsOf(b) /\ latest'[i] = [status |-> "queued", run |-> RunOf(b, i)]
    BY <1>1, <1>4, <2>2 DEF New
  <2> QED
    BY <1>7, <2>1, <2>2
<1>14. ActiveMeansLive'
  <2> SUFFICES ASSUME NEW i \in Ids, futures'[i] # None, i \notin cancelled
               PROVE  phase'[futures'[i]] \in Live
    BY <1>9 DEF ActiveMeansLive
  <2>1. CASE i \in IdsOf(b)
    BY <1>4, <1>6, <2>1, Phases
  <2>2. CASE i \notin IdsOf(b)
    <3>1. futures[i] \in Runs /\ futures[i] \notin New /\ phase[futures[i]] \in Live
      BY <1>1, <1>6, <2>2 DEF RInv, FuturesOwn, ActiveMeansLive, New
    <3> QED
      BY <1>2, <1>6, <2>2, <3>1
  <2> QED
    BY <2>1, <2>2
<1>15. PendingUnsettled'
  <2> SUFFICES ASSUME NEW i \in Ids, latest'[i].status \in Pending, i \notin cancelled,
                      latest'[i].run \notin unread
               PROVE  phase'[latest'[i].run] \in Unsettled
    BY <1>9, <1>20 DEF PendingUnsettled
  <2>1. CASE latest'[i] = latest[i]
    <3>1. latest[i].run \in 1 .. used /\ phase[latest[i].run] \in Unsettled
      BY <2>1 DEF RInv, RecordsOwn, PendingUnsettled, NoRecord, Pending
    <3> QED
      BY <1>1, <1>2, <2>1, <3>1 DEF New, Runs
  <2>2. CASE i \in IdsOf(b) /\ latest'[i] = [status |-> "queued", run |-> RunOf(b, i)]
    BY <1>4, <2>2 DEF Unsettled
  <2> QED
    BY <1>7, <2>1, <2>2
<1>16. CancellingIsCancelled'
  BY <1>2, <1>9 DEF RInv, CancellingIsCancelled
<1>17. TornIsIdle'
  BY <1>8 DEF TornIsIdle
<1>18. used' \in 0 .. MaxRuns /\ used' \in used .. MaxRuns
  BY <1>1
<1>19. completed' \in [Ids -> Runs \cup {None}] /\ cancelled' \in SUBSET Ids
       /\ ragged' \in BOOLEAN
  BY <1>8, <1>9 DEF RInv
<1> QED
  BY <1>1, <1>3, <1>6, <1>8, <1>10, <1>11, <1>12, <1>13, <1>14, <1>15, <1>16, <1>17,
     <1>18, <1>19, <1>20
     DEF RInv

-----------------------------------------------------------------------------
\* The callers' own variables.
LEMMA TailKeeps ==
    ASSUME NEW S, NEW q \in Seq(S), q # <<>>
    PROVE  Tail(q) \in Seq(S) /\ (Len(q) # 1 => Tail(q) # <<>>) /\ Head(q) \in S
<1>1. Tail(q) \in Seq(S)
  OBVIOUS
<1>2. Head(q) \in S
  OBVIOUS
<1> DEFINE n == Len(q)
           t == Len(Tail(q))
<1>3. t = n - 1 /\ n \in Nat
  BY HeadTailProperties, LenProperties
<1>4. Tail(q) = <<>> => t = 0
  BY EmptySeq, Zenon
<1>5. n # 1 => t # 0
  <2> HIDE DEF n, t
  <2> QED
    BY <1>3
<1> QED
  BY <1>1, <1>2, <1>4, <1>5

LEMMA GiveKeeps ==
    ASSUME RInv, CInv, NEW c \in Callers,
           pc[c] \in {"result", "recall", "wait"}, Give(c)
    PROVE  RInv' /\ CInv'
<1>1. RInv'
  BY DEF Give, RInv, RunsNumbered, FuturesOwn, LiveIsFuture, RecordsOwn, ActiveMeansLive,
         PendingUnsettled, CancellingIsCancelled, TornIsIdle, runVars, tableVars, diskVars
<1>2. todo[c] \in Seq(1 .. used) /\ todo[c] # <<>> /\ todo[c] \in Seq(Runs)
  BY DEF CInv, CallersKnow
<1>3. /\ Tail(todo[c]) \in Seq(1 .. used) /\ Tail(todo[c]) \in Seq(Runs)
      /\ Len(todo[c]) # 1 => Tail(todo[c]) # <<>>
  BY <1>2, TailKeeps
<1>4. todo' = [todo EXCEPT ![c] = Tail(todo[c])]
      /\ pc' = [pc EXCEPT ![c] = IF Len(todo[c]) = 1 THEN "idle" ELSE "result"]
      /\ used' = used /\ handle' = handle /\ unfinished' = unfinished
  BY DEF Give, Goto, runVars
<1>5. todo' \in [Callers -> Seq(Runs)]
  BY <1>3, <1>4 DEF CInv
<1>6. CallersKnow'
  BY <1>3, <1>4 DEF CInv, CallersKnow
<1> QED
  BY <1>1, <1>4, <1>5, <1>6 DEF CInv

LEMMA RaiseKeeps ==
    ASSUME CInv, NEW c \in Callers, Raise(c)
    PROVE  CInv'
<1>1. <<>> \in Seq(1 .. used) /\ <<>> \in Seq(Runs)
  OBVIOUS
<1> QED
  BY <1>1 DEF Raise, Goto, CInv, CallersKnow, runVars

LEMMA RInvUnchanged ==
    ASSUME RInv, UNCHANGED <<runVars, tableVars, diskVars>>
    PROVE  RInv'
BY DEF RInv, RunsNumbered, FuturesOwn, LiveIsFuture, RecordsOwn, ActiveMeansLive,
       PendingUnsettled, CancellingIsCancelled, TornIsIdle, runVars, tableVars, diskVars

\* Cancelling one more task exempts it from what is promised of the others.
LEMMA CancelMore ==
    ASSUME RInv, NEW i \in Ids, cancelled' = cancelled \cup {i},
           UNCHANGED <<used, task, futures, completed, diskVars>>,
           \/ phase' = phase
           \/ /\ futures[i] # None
              /\ phase' = [phase EXCEPT ![futures[i]] = IF @ = "queued" THEN "stopped" ELSE @]
    PROVE  RInv'
<1>1. phase' \in [Runs -> Phase] /\ RunsNumbered'
  BY Phases DEF RInv, RunsNumbered
<1>2. \A r \in Runs : \/ phase'[r] = phase[r]
                      \/ phase'[r] = "stopped" /\ r = futures[i] /\ task[r] = i
  BY DEF RInv, FuturesOwn
<1>3. FuturesOwn' /\ RecordsOwn' /\ CancellingIsCancelled'
  BY <1>2 DEF RInv, FuturesOwn, RecordsOwn, CancellingIsCancelled, diskVars
<1>4. LiveIsFuture' /\ TornIsIdle'
  BY <1>2, Phases DEF RInv, LiveIsFuture, TornIsIdle, diskVars
<1>5. ActiveMeansLive'
  BY <1>2 DEF RInv, ActiveMeansLive, FuturesOwn
<1>6. PendingUnsettled'
  <2> SUFFICES ASSUME NEW j \in Ids, latest[j].status \in Pending, j \notin cancelled, j # i,
                      latest[j].run \notin unread
               PROVE  phase'[latest[j].run] \in Unsettled
    BY DEF PendingUnsettled, diskVars
  <2>1. latest[j].run \in 1 .. used /\ task[latest[j].run] = j
        /\ phase[latest[j].run] \in Unsettled
    BY DEF RInv, RecordsOwn, PendingUnsettled, NoRecord, Pending
  <2>2. latest[j].run \in Runs
    BY <2>1, BoundsAssumption DEF RInv, Runs
  <2> QED
    BY <1>2, <2>1, <2>2
<1> QED
  BY <1>1, <1>3, <1>4, <1>5, <1>6 DEF RInv, diskVars

LEMMA SeqGrow ==
    ASSUME NEW m \in Nat, NEW n \in Nat, m <= n, NEW q \in Seq(1 .. m)
    PROVE  q \in Seq(1 .. n)
<1>1. Len(q) \in Nat /\ q \in [1 .. Len(q) -> 1 .. m]
  BY LenProperties
<1>2. q \in [1 .. Len(q) -> 1 .. n]
  BY <1>1
<1> QED
  BY <1>1, <1>2, SeqDef

\* A caller that only waits knows no less of a system with more runs.
LEMMA KnowGrow ==
    ASSUME RInv, CInv, used' \in used .. MaxRuns, NEW c \in Callers
    PROVE  todo[c] \in Seq(1 .. used') /\ handle[c] \in 0 .. used'
<1>1. used \in Nat /\ used' \in Nat /\ used <= used'
  BY BoundsAssumption DEF RInv
<1>2. todo[c] \in Seq(1 .. used) /\ handle[c] \in 0 .. used
  BY DEF CInv, CallersKnow
<1> QED
  BY <1>1, <1>2, SeqGrow

LEMMA CallersUnchanged ==
    ASSUME RInv, CInv, used' \in used .. MaxRuns, UNCHANGED callerVars
    PROVE  CInv'
<1>1. \A c \in Callers : todo'[c] \in Seq(1 .. used') /\ handle'[c] \in 0 .. used'
  BY KnowGrow DEF callerVars
<1> QED
  BY <1>1 DEF CInv, CallersKnow, callerVars

\* What a caller that asks for a result knows of it.
LEMMA AskedKnown ==
    ASSUME RInv, CInv, NEW c \in Callers, todo[c] # <<>>
    PROVE  /\ Asked(c) \in 1 .. used /\ Asked(c) \in Runs /\ IdOf(c) \in Ids
<1>1. Asked(c) \in 1 .. used
  BY TailKeeps DEF CInv, CallersKnow, Asked
<1> QED
  BY <1>1, BoundsAssumption DEF RInv, RunsNumbered, Runs, IdOf

-----------------------------------------------------------------------------
\* The steps of a caller that waits for a result.
LEMMA ResultKeeps ==
    ASSUME RInv, CInv, NEW c \in Callers,
           \/ LookKept(c) \/ LookAhead(c) \/ Recall(c) \/ AwaitValue(c)
           \/ AwaitRaise(c) \/ AwaitExpire(c) \/ RecordExpired(c)
    PROVE  RInv' /\ CInv'
<1>1. CASE LookKept(c)
  BY <1>1, GiveKeeps DEF LookKept
<1>2. CASE LookAhead(c)
  <2>1. RInv' /\ used' = used
    BY <1>2, RInvUnchanged DEF LookAhead, runVars
  <2>2. todo[c] # <<>> /\ IdOf(c) \in Ids
    BY <1>2, AskedKnown DEF LookAhead, CInv, CallersKnow
  <2>3. futures[IdOf(c)] \in Runs \cup {None} /\ futures[IdOf(c)] \in 0 .. used
    BY <2>2, BoundsAssumption DEF RInv, FuturesOwn, Runs, None
  <2>4. CASE futures[IdOf(c)] = None
    BY <1>2, <2>1, <2>2, <2>3, <2>4 DEF LookAhead, Goto, CInv, CallersKnow
  <2>5. CASE futures[IdOf(c)] # None
    BY <1>2, <2>1, <2>2, <2>3, <2>5 DEF LookAhead, Goto, CInv, CallersKnow
  <2> QED
    BY <2>1, <2>4, <2>5
<1>3. CASE Recall(c)
  <2>1. CASE latest[IdOf(c)].status = "completed"
    BY <1>3, <2>1, GiveKeeps DEF Recall
  <2>2. CASE latest[IdOf(c)].status # "completed"
    BY <1>3, <2>2, RaiseKeeps, RInvUnchanged DEF Recall, Raise
  <2> QED
    BY <2>1, <2>2
<1>4. CASE AwaitValue(c)
  BY <1>4, GiveKeeps DEF AwaitValue
<1>5. CASE AwaitRaise(c)
  BY <1>5, RaiseKeeps, RInvUnchanged DEF AwaitRaise, Raise
<1>6. CASE AwaitExpire(c)
  <2>1. todo[c] # <<>> /\ IdOf(c) \in Ids
    BY <1>6, AskedKnown DEF AwaitExpire, CInv, CallersKnow
  <2>2. RInv'
    BY <1>6, <2>1, CancelMore DEF AwaitExpire, runVars
  <2> QED
    BY <1>6, <2>1, <2>2 DEF AwaitExpire, Goto, CInv, CallersKnow, runVars
<1>7. CASE RecordExpired(c)
  <2>1. Asked(c) \in 1 .. used
    BY <1>7, AskedKnown DEF RecordExpired, CInv, CallersKnow
  <2>2. Journal(task[Asked(c)], "timed_out", Asked(c))
    BY <1>7 DEF RecordExpired, IdOf
  <2>3. "timed_out" \in Statuses /\ "timed_out" \notin Pending
    BY DEF Statuses, Pending
  <2>4. RInv'
    BY <1>7, <2>1, <2>2, <2>3, FinalRecord DEF RecordExpired, Raise
  <2> QED
    BY <1>7, <2>4, RaiseKeeps DEF RecordExpired
<1> QED
  BY <1>1, <1>2, <1>3, <1>4, <1>5, <1>6, <1>7

\* The other steps of a caller.
LEMMA CancelKeeps ==
    ASSUME RInv, CInv, NEW c \in Callers,
           (\E i \in Ids : Cancel(c, i)) \/ RecordCancel(c)
    PROVE  RInv' /\ CInv'
<1>1. ASSUME NEW i \in Ids, Cancel(c, i)
      PROVE  RInv' /\ CInv'
  <2>1. RInv'
    BY <1>1, CancelMore DEF Cancel
  <2>2. futures[i] \in Runs /\ futures[i] \in 0 .. used /\ futures[i] # None
    BY <1>1, BoundsAssumption DEF Cancel, RInv, FuturesOwn, Runs
  <2> QED
    BY <1>1, <2>1, <2>2 DEF Cancel, Goto, CInv, CallersKnow
<1>2. CASE RecordCancel(c)
  <2>1. handle[c] \in 1 .. used
    BY <1>2, BoundsAssumption DEF RecordCancel, RInv, CInv, CallersKnow, None
  <2>2. "cancelled" \in Statuses /\ "cancelled" \notin Pending
    BY DEF Statuses, Pending
  <2>3. CASE latest[task[handle[c]]] = NoRecord
    <3>1. UNCHANGED <<runVars, tableVars, diskVars>>
      BY <1>2, <2>3 DEF RecordCancel
    <3>2. RInv'
      BY <3>1, RInvUnchanged
    <3> QED
      BY <1>2, <3>2 DEF RecordCancel, Goto, CInv, CallersKnow, runVars
  <2>4. CASE latest[task[handle[c]]] # NoRecord
    <3>1. /\ Journal(task[handle[c]], "cancelled", handle[c])
          /\ UNCHANGED <<runVars, tableVars>>
      BY <1>2, <2>4 DEF RecordCancel
    <3>2. RInv'
      BY <2>1, <2>2, <3>1, FinalRecord
    <3> QED
      BY <1>2, <3>2 DEF RecordCancel, Goto, CInv, CallersKnow, runVars
  <2> QED
    BY <2>3, <2>4
<1> QED
  BY <1>1, <1>2

LEMMA ResumeKeeps ==
    ASSUME RInv, CInv, NEW c \in Callers, ResumeRead(c) \/ ResumeSubmit(c)
    PROVE  RInv' /\ CInv'
<1>1. CASE ResumeRead(c)
  <2>1. RInv'
    BY <1>1, RInvUnchanged DEF ResumeRead
  <2>2. unfinished' \in [Callers -> SUBSET Ids]
    BY <1>1 DEF ResumeRead, CInv
  <2> QED
    BY <1>1, <2>1, <2>2 DEF ResumeRead, Goto, CInv, CallersKnow, runVars
<1>2. CASE ResumeSubmit(c)
  <2>1. CASE \E b \in Lists(unfinished[c]) : Submit(b)
    <3>1. PICK b \in Lists(unfinished[c]) : Submit(b)
      BY <2>1
    <3>2. PICK n \in 1 .. MaxRuns : b \in [1 .. n -> unfinished[c]]
      BY DEF Lists
    <3>3. b \in Seq(Ids) /\ Len(b) = n /\ b # <<>> /\ Distinct(b)
      <4>1. unfinished[c] \subseteq Ids /\ n \in Nat \ {0}
        BY BoundsAssumption DEF CInv
      <4>2. b \in [1 .. n -> Ids]
        BY <3>2, <4>1
      <4>3. b \in Seq(Ids)
        BY <4>1, <4>2, SeqDef
      <4>4. Len(b) = n
        BY <4>1, <4>2, <4>3, LenProperties
      <4> QED
        BY <4>1, <4>3, <4>4, EmptySeq DEF Lists
    <3>4. RInv' /\ used' \in used .. MaxRuns
      BY <3>1, <3>3, SubmitKeeps
    <3>5. \A d \in Callers : todo'[d] \in Seq(1 .. used') /\ handle'[d] \in 0 .. used'
      BY <1>2, <3>4, KnowGrow DEF ResumeSubmit
    <3> QED
      BY <1>2, <3>4, <3>5 DEF ResumeSubmit, Goto, CInv, CallersKnow
  <2>2. CASE UNCHANGED <<runVars, tableVars, diskVars>>
    BY <1>2, <2>2, RInvUnchanged DEF ResumeSubmit, Goto, CInv, CallersKnow, runVars
  <2> QED
    BY <1>2, <2>1, <2>2 DEF ResumeSubmit
<1> QED
  BY <1>1, <1>2

LEMMA BatchKeeps ==
    ASSUME RInv, CInv, NEW c \in Callers, NEW b \in Batches, Run(c, b)
    PROVE  RInv' /\ CInv'
<1>1. b \in Seq(Ids) /\ b # <<>> /\ Distinct(b)
  BY BatchesAssumption
<1>2. RInv' /\ used' \in used .. MaxRuns /\ used' = used + Len(b)
  BY <1>1, SubmitKeeps DEF Run
<1> DEFINE q == [n \in DOMAIN b |-> used + n]
<1>3. used \in Nat /\ MaxRuns \in Nat /\ Len(b) \in Nat \ {0} /\ DOMAIN b = 1 .. Len(b)
  BY <1>1, BoundsAssumption, LenProperties, EmptySeq DEF RInv
<1>4. q \in [1 .. Len(b) -> 1 .. used'] /\ q \in [1 .. Len(b) -> Runs]
  BY <1>2, <1>3 DEF Runs
<1>5. q \in Seq(1 .. used') /\ q \in Seq(Runs) /\ q # <<>>
  <2>1. q \in Seq(1 .. used') /\ q \in Seq(Runs)
    BY <1>3, <1>4, SeqDef
  <2>2. Len(q) = Len(b)
    BY <1>3, <1>4, <2>1, LenProperties
  <2> QED
    BY <1>3, <2>1, <2>2, EmptySeq
<1>6. /\ todo' = [todo EXCEPT ![c] = q] /\ pc' = [pc EXCEPT ![c] = "result"]
      /\ handle' = handle /\ unfinished' = unfinished /\ pc[c] = "idle"
  BY DEF Run, Goto
<1> HIDE DEF q
<1>7. \A d \in Callers : todo'[d] \in Seq(1 .. used') /\ handle'[d] \in 0 .. used'
  BY <1>2, <1>5, <1>6, KnowGrow DEF CInv
<1>8. todo' \in [Callers -> Seq(Runs)]
  BY <1>5, <1>6 DEF CInv
<1>9. \A d \in Callers : /\ pc'[d] \in {"result", "recall", "wait", "expired"} => todo'[d] # <<>>
                         /\ pc'[d] = "cancel" => handle'[d] # None
  BY <1>5, <1>6 DEF CInv, CallersKnow
<1>10. CallersKnow'
  BY <1>7, <1>9 DEF CallersKnow
<1> QED
  BY <1>2, <1>6, <1>8, <1>10 DEF CInv

-----------------------------------------------------------------------------
\* The death of the process leaves no run alive and no caller.
LEMMA CrashKeeps ==
    ASSUME RInv, CInv, Crash
    PROVE  RInv' /\ CInv'
<1>1. phase' \in [Runs -> Phase] /\ RunsNumbered'
  BY BoundsAssumption, Phases DEF Crash, RInv, RunsNumbered, Runs
<1>2. \A r \in Runs : phase'[r] \in {"gone", "unborn"}
  BY DEF Crash
<1>3. FuturesOwn' /\ RecordsOwn' /\ ActiveMeansLive'
  BY DEF Crash, RInv, FuturesOwn, RecordsOwn, ActiveMeansLive
<1>4. LiveIsFuture' /\ CancellingIsCancelled' /\ TornIsIdle'
  BY <1>2, Phases DEF LiveIsFuture, CancellingIsCancelled, TornIsIdle
<1>5. PendingUnsettled'
  <2> SUFFICES ASSUME NEW i \in Ids, latest[i].status \in Pending
               PROVE  phase'[latest[i].run] = "gone"
    BY DEF PendingUnsettled, Unsettled, Crash
  <2>1. latest[i].run \in 1 .. used /\ latest[i].run \in Runs
    BY BoundsAssumption DEF RInv, RecordsOwn, NoRecord, Pending, Runs
  <2> QED
    BY <2>1 DEF Crash, RInv
<1>6. RInv'
  BY <1>1, <1>3, <1>4, <1>5 DEF Crash, RInv
<1>7. <<>> \in Seq(1 .. used) /\ <<>> \in Seq(Runs) /\ used \in Nat
  BY BoundsAssumption DEF RInv
<1>8. CInv'
  BY <1>7 DEF Crash, CInv, CallersKnow, None
<1> QED
  BY <1>6, <1>8

LEMMA Inductive == IInv /\ [Next]_vars => IInv'
<1> SUFFICES ASSUME RInv, CInv, [Next]_vars PROVE RInv' /\ CInv'
  BY DEF IInv, RInv, CInv, TypeOK
<1>1. ASSUME NEW c \in Callers, Call(c) \/ CallerStep(c)
      PROVE  RInv' /\ CInv'
  BY <1>1, BatchKeeps, CancelKeeps, ResumeKeeps, ResultKeeps DEF Call, CallerStep
<1>2. ASSUME NEW r \in Runs, RunStep(r)
      PROVE  RInv' /\ CInv'
  <2>1. RInv'
    BY <1>2, RunKeeps
  <2>2. used' \in used .. MaxRuns /\ UNCHANGED callerVars
    BY <1>2, BoundsAssumption DEF RunStep, RInv
  <2> QED
    BY <2>1, <2>2, CallersUnchanged
<1>3. CASE Crash
  BY <1>3, CrashKeeps
<1>4. CASE UNCHANGED vars
  <2>1. RInv'
    BY <1>4, RInvUnchanged DEF vars
  <2>2. used' \in used .. MaxRuns /\ UNCHANGED callerVars
    BY <1>4, BoundsAssumption DEF vars, runVars, RInv
  <2> QED
    BY <2>1, <2>2, CallersUnchanged
<1> QED
  BY <1>1, <1>2, <1>3, <1>4 DEF Next

LEMMA Invariant == Spec => []IInv
BY InitInv, Inductive, PTL DEF Spec

\* Every variable keeps its type, whatever callers, runs and crashes do.
THEOREM DelegationTypeCorrect == Spec => []TypeOK
<1>1. IInv => TypeOK
  BY DEF IInv
<1> QED
  BY <1>1, Invariant, PTL

\* No two runs of a task are alive at once, because a live run is the future of
\* its task and submit refuses a task that has one.
THEOREM OneRunAtATime == Spec => []OneLiveRun
<1>1. IInv => OneLiveRun
  BY DEF IInv, LiveIsFuture, OneLiveRun
<1> QED
  BY <1>1, Invariant, PTL

\* A task that nobody cancelled and no deadline met is active only while a run
\* of it is alive.
THEOREM ActiveIsLive == Spec => []ActiveMeansLive
<1>1. IInv => ActiveMeansLive
  BY DEF IInv
<1> QED
  BY <1>1, Invariant, PTL

\* A journaled "queued" or "running" names a run that is alive or died with its
\* process, unless the task was cancelled, timed out, or left its outcome in a
\* record that splitlines() breaks.
THEOREM PendingHasARun == Spec => []PendingIsLive
<1>1. IInv => PendingIsLive
  BY Phases DEF IInv, PendingUnsettled, PendingIsLive, Unsettled
<1> QED
  BY <1>1, Invariant, PTL
=============================================================================
