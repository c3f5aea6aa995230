--------------------------- MODULE ServicesProofs ---------------------------
(***************************************************************************)
(* Proofs about the components of Services, for any callers, servers,      *)
(* tools, models, tasks, artifacts, processes, events and bounds.  Each    *)
(* component has an inductive invariant of its own; a step of Services is  *)
(* a step of one component and leaves the others alone.                    *)
(***************************************************************************)
EXTENDS Services, SkillStoreProofs, WellFoundedInduction
-----------------------------------------------------------------------------
\* Induction over the naturals, for a set: a set that has 0 and the successor
\* of each of its members has them all.
LEMMA LeastNumber ==
    ASSUME NEW T \in SUBSET Nat, T # {}
    PROVE  \E m \in T : \A k \in T : ~(k < m)
<1> DEFINE Less == {pair \in Nat \X Nat : pair[1] < pair[2]}
<1>1. IsWellFoundedOn(Less, Nat)
  BY NatLessThanWellFounded DEF OpToRel
<1> HIDE DEF Less
<1>2. PICK m \in T : \A k \in T : ~(<<k, m>> \in Less)
  BY <1>1, WFMin
<1> QED
  BY <1>2 DEF Less

LEMMA AllNumbers ==
    ASSUME NEW T \in SUBSET Nat, 0 \in T, \A n \in T : n + 1 \in T
    PROVE  T = Nat
<1> SUFFICES ASSUME T # Nat PROVE FALSE
  OBVIOUS
<1> DEFINE U == Nat \ T
<1>1. U \in SUBSET Nat /\ U # {}
  OBVIOUS
<1> HIDE DEF U
<1>2. PICK m \in U : \A k \in U : ~(k < m)
  BY <1>1, LeastNumber
<1>3. m \in Nat \ T /\ m # 0
  BY <1>2 DEF U
<1>4. m - 1 \in T
  BY <1>2, <1>3 DEF U
<1> QED
  BY <1>3, <1>4
-----------------------------------------------------------------------------
\* CommandRun.

\* One command is stopped together with its group, or had exited before.
CommandInv ==
    /\ Command!TypeOK
    /\ commandPc = "checks" => command = "none"
    /\ commandPc \in {"collect", "returned"} => command # "up"
    /\ outcome = "timed out" => commandPc = "returned"
    /\ commandPc = "collect" \/ outcome = "timed out" => orphaned \/ alive \cap grouped = {}

LEMMA CommandInit == Command!Init => CommandInv
  BY DEF Command!Init, CommandInv, Command!TypeOK

LEMMA CommandStep == CommandInv /\ [Command!Next]_commands => CommandInv'
<1> SUFFICES ASSUME CommandInv, [Command!Next]_commands PROVE CommandInv'
  OBVIOUS
<1> USE DEF CommandInv, Command!TypeOK, Command!processes, Command!call
<1>1. CASE Command!Refuse
  BY <1>1 DEF Command!Refuse
<1>2. CASE Command!Start
  BY <1>2 DEF Command!Start
<1>3. CASE Command!Communicated
  BY <1>3 DEF Command!Communicated, Command!Collectable
<1>4. CASE Command!Expire
  BY <1>4 DEF Command!Expire
<1>5. CASE Command!Poll
  BY <1>5 DEF Command!Poll
<1>6. CASE Command!KillGroup
  BY <1>6 DEF Command!KillGroup, Command!KillCommand
<1>7. CASE Command!Collect
  BY <1>7 DEF Command!Collect, Command!Collectable, Command!KillCommand
<1>8. CASE Command!CommandExits
  BY <1>8 DEF Command!CommandExits
<1>9. ASSUME NEW d \in Descendants, Command!Spawn(d) PROVE CommandInv'
  BY <1>9, ZenonT(30) DEF Command!Spawn
<1>10. ASSUME NEW d \in Descendants, Command!DescendantExits(d) PROVE CommandInv'
  BY <1>10, ZenonT(30) DEF Command!DescendantExits
<1>11. CASE UNCHANGED commands
  BY <1>11 DEF commands
<1> QED
  BY <1>1, <1>2, <1>3, <1>4, <1>5, <1>6, <1>7, <1>8, <1>9, <1>10, <1>11 DEF Command!Next

LEMMA CommandAlways == ServicesSpec => []CommandInv
<1>1. ServicesInit => CommandInv
  BY CommandInit DEF ServicesInit
<1>2. CommandInv /\ [ServicesNext]_<<part, transport, extensions, model, evaluation,
                                     skills, evidence, history, compaction, commands>>
        => CommandInv'
  BY CommandStep DEF ServicesNext
<1> QED
  BY <1>1, <1>2, PTL DEF ServicesSpec

\* _tool_run_command: for any number of descendants, whenever they start, leave
\* the group or keep the pipes, a time-out leaves none of the group running
\* unless the command had exited by itself, and no call returns before its
\* command has ended.
THEOREM TimeoutStopsTheTree == ServicesSpec => []TreeIsStopped
<1>1. CommandInv => TreeIsStopped
  BY DEF CommandInv, TreeIsStopped, Command!TreeIsStopped
<1> QED
  BY CommandAlways, <1>1, PTL
-----------------------------------------------------------------------------
\* ModelCalls.

\* The attempts made before the one under way.
TriesSoFar == \A p \in 1..Providers :
    tries[p] = IF p < provider THEN Retries + 1 ELSE IF p = provider THEN attempt ELSE 0

\* Every model before the one that is asked has failed all its attempts.
Attempts ==
    /\ requestPc \in {"request", "stream", "returned", "raised", "escaped"}
    /\ provider \in 1..Providers /\ attempt \in 0..Retries
    /\ tries \in [1..Providers -> 0..(Retries + 1)]
    /\ requestPc \in {"request", "stream", "returned"} => TriesSoFar
    /\ requestPc = "raised" => \A p \in 1..Providers : tries[p] = Retries + 1

\* What is assembled was sent on the connection under way.
AnswerFrames ==
    /\ sent \in 0..Frames /\ frames \in 0..sent
    /\ requestPc = "request" => sent = 0
    /\ requestPc = "returned" => frames = sent

AnswerEnded ==
    /\ ended \in BOOLEAN
    /\ requestPc = "returned" => ended

ModelInv == Attempts /\ AnswerFrames /\ AnswerEnded

LEMMA ModelInit == Model!Init => ModelInv
<1> SUFFICES ASSUME Model!Init PROVE ModelInv
  OBVIOUS
<1>1. Attempts
  BY CountsAssumption DEF Model!Init, Attempts, TriesSoFar
<1>2. AnswerFrames
  BY CountsAssumption DEF Model!Init, AnswerFrames
<1>3. AnswerEnded
  BY Zenon DEF Model!Init, AnswerEnded
<1> QED
  BY <1>1, <1>2, <1>3 DEF ModelInv

\* A failed attempt is counted; the next one is the same model's or, after the
\* last, the next model's first.
LEMMA FailedStep ==
    ModelInv /\ requestPc \in {"request", "stream"} /\ Model!Failed => ModelInv'
<1> SUFFICES ASSUME ModelInv, requestPc \in {"request", "stream"}, Model!Failed
             PROVE ModelInv'
  OBVIOUS
<1>1. /\ provider \in 1..Providers /\ attempt \in 0..Retries
      /\ tries \in [1..Providers -> 0..(Retries + 1)] /\ TriesSoFar
      /\ tries' = [tries EXCEPT ![provider] = @ + 1] /\ sent' = 0 /\ frames' = 0
      /\ Providers \in Nat \ {0} /\ Retries \in Nat /\ Frames \in Nat
  BY CountsAssumption DEF ModelInv, Attempts, Model!Failed, Model!FailKeeping
<1>2. tries[provider] = attempt
  BY <1>1 DEF TriesSoFar
<1>3. /\ tries' \in [1..Providers -> 0..(Retries + 1)]
      /\ \A p \in 1..Providers : tries'[p] = IF p < provider THEN Retries + 1
                                             ELSE IF p = provider THEN attempt + 1 ELSE 0
  BY <1>1, <1>2 DEF TriesSoFar
<1>4. Attempts'
  <2>1. CASE attempt < Retries
    <3>1. requestPc' = "request" /\ attempt' = attempt + 1 /\ UNCHANGED provider
      BY <2>1 DEF Model!Failed, Model!FailKeeping
    <3> QED
      BY <1>1, <1>3, <2>1, <3>1 DEF Attempts, TriesSoFar
  <2>2. CASE ~(attempt < Retries) /\ provider < Providers
    <3>1. requestPc' = "request" /\ attempt' = 0 /\ provider' = provider + 1
      BY <2>2 DEF Model!Failed, Model!FailKeeping
    <3>2. attempt = Retries
      BY <1>1, <2>2
    <3>3. TriesSoFar'
      BY <1>1, <1>3, <3>1, <3>2 DEF TriesSoFar
    <3> QED
      BY <1>1, <1>3, <2>2, <3>1, <3>3 DEF Attempts
  <2>3. CASE ~(attempt < Retries) /\ ~(provider < Providers)
    <3>1. requestPc' = "raised" /\ UNCHANGED <<attempt, provider>>
      BY <2>3 DEF Model!Failed, Model!FailKeeping
    <3>2. provider = Providers /\ attempt = Retries
      BY <1>1, <2>3
    <3>3. \A p \in 1..Providers : tries'[p] = Retries + 1
      BY <1>1, <1>3, <3>2
    <3> QED
      BY <1>1, <1>3, <3>1, <3>3 DEF Attempts
  <2> QED
    BY <2>1, <2>2, <2>3
<1>5. requestPc' \in {"request", "raised"}
  BY DEF Model!Failed, Model!FailKeeping
<1>6. AnswerFrames'
  BY <1>1, <1>5 DEF AnswerFrames
<1>7. ended' = FALSE
  BY DEF Model!Failed, Model!FailKeeping
<1>8. AnswerEnded'
  BY <1>5, <1>7, Zenon DEF AnswerEnded
<1> QED
  BY <1>4, <1>6, <1>8 DEF ModelInv

LEMMA ModelStep == ModelInv /\ [Model!Next]_model => ModelInv'
<1> SUFFICES ASSUME ModelInv, [Model!Next]_model PROVE ModelInv'
  OBVIOUS
<1> USE DEF ModelInv
<1>1. CASE Model!Whole
  <2>1. Attempts'
    BY <1>1 DEF Model!Whole, Attempts, TriesSoFar
  <2>2. AnswerFrames'
    BY <1>1, CountsAssumption DEF Model!Whole, AnswerFrames
  <2>3. AnswerEnded'
    BY <1>1, Zenon DEF Model!Whole, AnswerEnded
  <2> QED
    BY <2>1, <2>2, <2>3
<1>2. CASE Model!RequestFails
  BY <1>2, FailedStep DEF Model!RequestFails
<1>3. CASE Model!OpenStream
  <2>1. Attempts'
    BY <1>3 DEF Model!OpenStream, Attempts, TriesSoFar
  <2>2. AnswerFrames'
    BY <1>3, CountsAssumption DEF Model!OpenStream, AnswerFrames
  <2>3. AnswerEnded'
    BY <1>3, Zenon DEF Model!OpenStream, AnswerEnded
  <2> QED
    BY <2>1, <2>2, <2>3
<1>4. CASE Model!Send
  <2>1. Attempts'
    BY <1>4 DEF Model!Send, Attempts, TriesSoFar
  <2>2. AnswerFrames'
    BY <1>4, CountsAssumption DEF Model!Send, AnswerFrames
  <2>3. AnswerEnded'
    BY <1>4, Zenon DEF Model!Send, AnswerEnded
  <2> QED
    BY <2>1, <2>2, <2>3
<1>5. CASE Model!End
  <2>1. Attempts'
    BY <1>5 DEF Model!End, Attempts, TriesSoFar
  <2>2. AnswerFrames'
    BY <1>5, CountsAssumption DEF Model!End, AnswerFrames
  <2>3. AnswerEnded'
    BY <1>5, Zenon DEF Model!End, AnswerEnded
  <2> QED
    BY <2>1, <2>2, <2>3
<1>6. CASE Model!Frame
  <2>1. Attempts'
    BY <1>6 DEF Model!Frame, Attempts, TriesSoFar
  <2>2. AnswerFrames'
    BY <1>6, CountsAssumption DEF Model!Frame, AnswerFrames
  <2>3. AnswerEnded'
    BY <1>6, Zenon DEF Model!Frame, AnswerEnded
  <2> QED
    BY <2>1, <2>2, <2>3
<1>7. CASE Model!Done
  <2>1. CASE Model!Parses(frames)
    <3>1. Attempts'
      BY <1>7, <2>1 DEF Model!Done, Attempts, TriesSoFar
    <3>2. AnswerFrames'
      BY <1>7, <2>1, CountsAssumption DEF Model!Done, AnswerFrames
    <3>3. AnswerEnded'
      BY <1>7, <2>1, Zenon DEF Model!Done, AnswerEnded
    <3> QED
      BY <3>1, <3>2, <3>3
  <2>2. CASE ~Model!Parses(frames)
    BY <1>7, <2>2, FailedStep DEF Model!Done
  <2> QED
    BY <2>1, <2>2
<1>8. CASE Model!Stall
  BY <1>8, FailedStep DEF Model!Stall
<1>9. CASE Model!BadFrame
  <2>1. Attempts'
    BY <1>9 DEF Model!BadFrame, Attempts, TriesSoFar
  <2>2. AnswerFrames'
    BY <1>9, CountsAssumption DEF Model!BadFrame, AnswerFrames
  <2>3. AnswerEnded'
    BY <1>9, Zenon DEF Model!BadFrame, AnswerEnded
  <2> QED
    BY <2>1, <2>2, <2>3
<1>10. CASE UNCHANGED model
  BY <1>10 DEF model, Attempts, AnswerFrames, AnswerEnded, TriesSoFar
<1> QED
  BY <1>1, <1>2, <1>3, <1>4, <1>5, <1>6, <1>7, <1>8, <1>9, <1>10 DEF Model!Next

LEMMA ModelAlways == ServicesSpec => []ModelInv
<1>1. ServicesInit => ModelInv
  BY ModelInit DEF ServicesInit
<1>2. ModelInv /\ [ServicesNext]_<<part, transport, extensions, model, evaluation,
                                   skills, evidence, history, compaction, commands>>
        => ModelInv'
  BY ModelStep DEF ServicesNext
<1> QED
  BY <1>1, <1>2, PTL DEF ServicesSpec

\* ResilientModel.respond: for any number of models, retries and frames, an
\* answer is what one attempt's provider sent until it ended, with nothing lost
\* and nothing left of earlier attempts, after every model before it has failed
\* all its attempts, and an error comes only after all have.
THEOREM AnswerAfterFallback == ServicesSpec => []AnswerIsOneAttempts
<1>1. ModelInv => AnswerIsOneAttempts
  <2> SUFFICES ASSUME ModelInv PROVE AnswerIsOneAttempts
    OBVIOUS
  <2>1. requestPc = "returned" => ended
    BY Zenon DEF ModelInv, AnswerEnded
  <2>2. requestPc = "returned" => frames = sent
    BY Zenon DEF ModelInv, AnswerFrames
  <2>3. requestPc = "returned" => TriesSoFar
    BY DEF ModelInv, Attempts
  <2>4. requestPc = "raised" => \A p \in 1..Providers : tries[p] = Retries + 1
    BY DEF ModelInv, Attempts
  <2> QED
    BY <2>1, <2>2, <2>3, <2>4, Zenon
       DEF AnswerIsOneAttempts, Model!AnswerIsOneAttempts, TriesSoFar
<1> QED
  BY ModelAlways, <1>1, PTL
-----------------------------------------------------------------------------
\* HistoryIndex.

\* What each process holds of an index is what the lock makes sure of.
HistoryTypes ==
    /\ indexPc \in [Processes -> History!Locked \cup {"idle", "rebuild", "again"}]
    /\ entry \in [Processes -> SUBSET Events] /\ view \in [Processes -> SUBSET Events]
    /\ found \in [Processes -> SUBSET Events]
    /\ query \in [Processes -> SUBSET History!Terms]

Views == \A p \in Processes :
    /\ entry[p] \subseteq journal
    /\ entry[p] # {} => indexPc[p] \in {"load", "save"}
    /\ indexPc[p] = "save" => view[p] = index \cup entry[p]
    /\ indexPc[p] = "replace" => view[p] = journal \ Split

HistoryInv == History!TypeOK /\ HistoryTypes /\ Views /\ History!IndexCovers

LEMMA HistoryInit == History!Init => HistoryInv
<1> SUFFICES ASSUME History!Init PROVE HistoryInv
  OBVIOUS
<1>1. History!TypeOK
  BY NamesAssumption DEF History!Init, History!TypeOK, History!Locked
<1>2. HistoryTypes /\ Views
  BY DEF History!Init, HistoryTypes, Views, History!Locked
<1> QED
  BY <1>1, <1>2 DEF HistoryInv, History!Init, History!IndexCovers

LEMMA HistoryStep == HistoryInv /\ [History!Next]_history => HistoryInv'
<1> SUFFICES ASSUME HistoryInv, [History!Next]_history PROVE HistoryInv'
  OBVIOUS
<1> USE NamesAssumption DEF HistoryInv, History!TypeOK, HistoryTypes, History!Locked, History!Goto
<1>1. ASSUME NEW p \in Processes, History!Append(p) PROVE HistoryInv'
  <2> USE <1>1 DEF History!Append
  <2>1. History!TypeOK' /\ HistoryTypes'
    OBVIOUS
  <2>2. Views' /\ History!IndexCovers'
    BY DEF Views, History!IndexCovers
  <2> QED
    BY <2>1, <2>2
<1>2. ASSUME NEW p \in Processes, History!Journal(p) PROVE HistoryInv'
  <2>1. PICK e \in Events \ journal :
          journal' = journal \cup {e} /\ entry' = [entry EXCEPT ![p] = {e}]
    BY <1>2 DEF History!Journal
  <2>2. /\ indexPc[p] = "append" /\ indexPc' = [indexPc EXCEPT ![p] = "load"]
        /\ UNCHANGED <<index, mutex, view, query, found, orphans>>
    BY <1>2 DEF History!Journal
  <2>3. History!TypeOK' /\ HistoryTypes'
    BY <2>1, <2>2
  <2>4. Views'
    BY <2>1, <2>2 DEF Views
  <2>5. entry[p] = {}
    BY <2>2 DEF Views
  <2>6. UNION {entry'[q] : q \in Processes} = {e} \cup UNION {entry[q] : q \in Processes}
    BY <2>1, <2>5
  <2>7. History!IndexCovers'
    BY <2>1, <2>2, <2>6 DEF History!IndexCovers
  <2> QED
    BY <2>3, <2>4, <2>7
<1>3. ASSUME NEW p \in Processes, History!LoadIndex(p) PROVE HistoryInv'
  <2> USE <1>3 DEF History!LoadIndex
  <2>1. History!TypeOK' /\ HistoryTypes'
    BY DEF Views
  <2>2. Views' /\ History!IndexCovers'
    BY DEF Views, History!IndexCovers
  <2> QED
    BY <2>1, <2>2
<1>4. ASSUME NEW p \in Processes, History!SaveIndex(p) PROVE HistoryInv'
  <2> USE <1>4 DEF History!SaveIndex
  <2>1. History!TypeOK' /\ HistoryTypes'
    OBVIOUS
  <2>2. Views'
    BY DEF Views, History!IndexCovers
  <2>3. index' = index \cup entry[p] /\ entry' = [entry EXCEPT ![p] = {}]
    BY DEF Views
  <2>4. index' \subseteq journal'
    BY <2>3 DEF Views, History!IndexCovers
  <2>5. UNION {entry[q] : q \in Processes} \subseteq entry[p] \cup UNION {entry'[q] : q \in Processes}
    BY <2>3
  <2>6. journal' \subseteq index' \cup orphans' \cup Split \cup UNION {entry'[q] : q \in Processes}
    BY <2>3, <2>5 DEF History!IndexCovers
  <2> QED
    BY <2>1, <2>2, <2>4, <2>6 DEF History!IndexCovers
<1>5. ASSUME NEW p \in Processes, History!Search(p) PROVE HistoryInv'
  <2>1. UNCHANGED <<journal, index, mutex, entry, view, orphans>>
    BY <1>5 DEF History!Search
  <2>2. PICK term \in History!Terms :
          /\ found' = [found EXCEPT ![p] = {e \in index \cap journal : TermOf[e] = term} \ Split]
          /\ \/ indexPc' = [indexPc EXCEPT ![p] = "rebuild"]
                /\ query' = [query EXCEPT ![p] = {term}]
             \/ UNCHANGED <<indexPc, query>>
          /\ indexPc[p] = "idle"
    BY <1>5 DEF History!Search
  <2>3. History!TypeOK'
    BY <2>1, <2>2
  <2>4. HistoryTypes'
    BY <2>1, <2>2
  <2>5. Views' /\ History!IndexCovers'
    BY <2>1, <2>2 DEF Views, History!IndexCovers
  <2> QED
    BY <2>3, <2>4, <2>5
<1>6. ASSUME NEW p \in Processes, History!Rebuild(p) PROVE HistoryInv'
  <2> USE <1>6 DEF History!Rebuild
  <2>1. History!TypeOK' /\ HistoryTypes'
    OBVIOUS
  <2>2. Views' /\ History!IndexCovers'
    BY DEF Views, History!IndexCovers
  <2> QED
    BY <2>1, <2>2
<1>7. ASSUME NEW p \in Processes, History!ReadJournals(p) PROVE HistoryInv'
  <2> USE <1>7 DEF History!ReadJournals
  <2>1. History!TypeOK' /\ HistoryTypes'
    OBVIOUS
  <2>2. Views' /\ History!IndexCovers'
    BY DEF Views, History!IndexCovers
  <2> QED
    BY <2>1, <2>2
<1>8. ASSUME NEW p \in Processes, History!ReplaceIndex(p) PROVE HistoryInv'
  <2> USE <1>8 DEF History!ReplaceIndex
  <2>1. History!TypeOK' /\ HistoryTypes'
    OBVIOUS
  <2>2. index' = journal \ Split
    BY DEF Views
  <2>3. Views'
    BY <2>2 DEF Views, History!IndexCovers
  <2> QED
    BY <2>1, <2>2, <2>3 DEF History!IndexCovers
<1>9. ASSUME NEW p \in Processes, History!SearchAgain(p) PROVE HistoryInv'
  <2> USE <1>9 DEF History!SearchAgain, History!Matching
  <2>1. History!TypeOK' /\ HistoryTypes'
    OBVIOUS
  <2>2. Views' /\ History!IndexCovers'
    BY DEF Views, History!IndexCovers
  <2> QED
    BY <2>1, <2>2
<1>10. ASSUME NEW p \in Processes, History!Die(p) PROVE HistoryInv'
  <2> USE <1>10 DEF History!Die
  <2>1. History!TypeOK' /\ HistoryTypes'
    BY DEF Views
  <2>2. Views'
    BY DEF Views
  <2>3. UNION {entry[q] : q \in Processes} \subseteq entry[p] \cup UNION {entry'[q] : q \in Processes}
    OBVIOUS
  <2>4. History!IndexCovers'
    BY <2>3 DEF History!IndexCovers
  <2> QED
    BY <2>1, <2>2, <2>4
<1>11. ASSUME NEW p \in Processes, History!ReadRaises(p) PROVE HistoryInv'
  <2> USE <1>11 DEF History!ReadRaises
  <2>1. History!TypeOK' /\ HistoryTypes'
    OBVIOUS
  <2>2. Views' /\ History!IndexCovers'
    BY DEF Views, History!IndexCovers
  <2> QED
    BY <2>1, <2>2
<1>12. CASE UNCHANGED history
  BY <1>12 DEF history, Views, History!IndexCovers
<1> QED
  BY <1>1, <1>2, <1>3, <1>4, <1>5, <1>6, <1>7, <1>8, <1>9, <1>10, <1>11, <1>12 DEF History!Next

LEMMA HistoryAlways == ServicesSpec => []HistoryInv
<1>1. ServicesInit => HistoryInv
  BY HistoryInit DEF ServicesInit
<1>2. HistoryInv /\ [ServicesNext]_<<part, transport, extensions, model, evaluation,
                                     skills, evidence, history, compaction, commands>>
        => HistoryInv'
  BY HistoryStep DEF ServicesNext
<1> QED
  BY <1>1, <1>2, PTL DEF ServicesSpec

\* HistoryIndex.append and rebuild: for any processes and events, the index has
\* only journaled events and lacks none but one that is being appended, whose
\* writer died before the index was saved, or whose line does not read.
THEOREM IndexLosesNothing == ServicesSpec => []IndexCovers
<1>1. HistoryInv => IndexCovers
  BY DEF HistoryInv, IndexCovers
<1> QED
  BY HistoryAlways, <1>1, PTL
-----------------------------------------------------------------------------
\* Evaluation.

\* The script's records so far.
ScriptTypes ==
    /\ results \in Seq([success : BOOLEAN, verdict : Script!Verdicts, claimed : BOOLEAN])
    /\ successes \in 0..Len(results)

Flags == success \in BOOLEAN /\ claimed \in BOOLEAN

\* The count is that of the records exactly if all are successes.
Counted == successes = Len(results) <=> \A i \in DOMAIN results : results[i].success

RecordsJudged == \A i \in DOMAIN results : results[i].success <=> results[i].verdict = "pass"

\* is_success is stale before the task is scored, and decided after that.
Judged ==
    /\ scriptPc \in {"leave", "teardown", "record"} => (success <=> verdict = "pass")
    /\ scriptPc \in {"initialize", "turn"} => verdict # "pass"

\* A task that is not under way has its record, unless the suite was cut off.
Finished ==
    /\ scriptPc # "ended" =>
         exit = 2 /\ Len(results) + (IF scriptPc = "next" THEN 0 ELSE 1) = task
    /\ scriptPc = "ended" =>
         \/ exit = 1 /\ Len(results) + 1 = task
         \/ Len(results) = task /\ task = Tasks
            /\ exit = IF successes = Len(results) THEN 0 ELSE 1

ScriptInv ==
    Script!TypeOK /\ ScriptTypes /\ Flags /\ Counted /\ RecordsJudged /\ Judged /\ Finished

LEMMA ScriptInit == Script!Init => ScriptInv
<1> SUFFICES ASSUME Script!Init PROVE ScriptInv
  OBVIOUS
<1>1. results = <<>> /\ successes = 0 /\ Len(results) = 0 /\ DOMAIN results = {}
  BY DEF Script!Init
<1>2. Script!TypeOK
  BY CountsAssumption DEF Script!Init, Script!TypeOK, Script!Verdicts
<1>3. ScriptTypes
  BY <1>1 DEF ScriptTypes
<1>4. Flags
  BY Zenon DEF Script!Init, Flags
<1>5. Counted /\ RecordsJudged
  BY <1>1 DEF Counted, RecordsJudged
<1>6. Judged /\ Finished
  BY <1>1 DEF Script!Init, Judged, Finished
<1> QED
  BY <1>2, <1>3, <1>4, <1>5, <1>6 DEF ScriptInv

\* A step that records nothing keeps what has been recorded and counted.
LEMMA SameReport ==
    /\ ScriptTypes /\ Counted /\ RecordsJudged /\ UNCHANGED <<results, successes>>
    => ScriptTypes' /\ Counted' /\ RecordsJudged'
  BY DEF ScriptTypes, Counted, RecordsJudged

\* A record more: the count and the verdicts follow.
LEMMA OneMore ==
    ASSUME ScriptTypes, Counted, RecordsJudged,
           NEW won \in BOOLEAN, NEW said \in Script!Verdicts, NEW claim \in BOOLEAN,
           won <=> said = "pass",
           results' = Append(results, Script!Result(won, said, claim)),
           successes' = IF won THEN successes + 1 ELSE successes
    PROVE  ScriptTypes' /\ Counted' /\ RecordsJudged' /\ Len(results') = Len(results) + 1
<1> DEFINE row == Script!Result(won, said, claim)
           Rows == [success : BOOLEAN, verdict : Script!Verdicts, claimed : BOOLEAN]
<1>1. row \in Rows /\ (row.success <=> won) /\ row.verdict = said
  BY DEF Script!Result
<1>2. results \in Seq(Rows) /\ successes \in 0..Len(results) /\ Len(results) \in Nat
  BY DEF ScriptTypes
<1>3. results' = Append(results, row)
  OBVIOUS
<1> HIDE DEF row, Rows
<1>4. /\ results' \in Seq(Rows) /\ Len(results') = Len(results) + 1
      /\ DOMAIN results' = 1..(Len(results) + 1) /\ DOMAIN results = 1..Len(results)
      /\ \A i \in 1..Len(results) : results'[i] = results[i]
      /\ results'[Len(results) + 1] = row
  BY <1>1, <1>2, <1>3
<1>5. DOMAIN results' = DOMAIN results \cup {Len(results) + 1}
  BY <1>2, <1>4
<1>6. (\A i \in DOMAIN results' : results'[i].success)
        <=> won /\ \A i \in DOMAIN results : results[i].success
  <2>1. ASSUME \A i \in DOMAIN results' : results'[i].success
        PROVE  won /\ \A i \in DOMAIN results : results[i].success
    BY <1>1, <1>4, <1>5, <2>1
  <2>2. ASSUME won, \A i \in DOMAIN results : results[i].success
        PROVE  \A i \in DOMAIN results' : results'[i].success
    BY <1>1, <1>4, <1>5, <2>2
  <2> QED
    BY <2>1, <2>2
<1>7. successes' \in 0..Len(results') /\ (successes' = Len(results') <=> won /\ successes = Len(results))
  <2>1. CASE won
    <3>1. successes' = successes + 1
      BY <2>1
    <3>2. successes' \in 0..Len(results') /\ (successes' = Len(results') <=> successes = Len(results))
      BY <1>2, <1>4, <3>1
    <3> QED
      BY <2>1, <3>2
  <2>2. CASE ~won
    <3>1. successes' = successes
      BY <2>2
    <3>2. successes' \in 0..Len(results') /\ successes' # Len(results')
      BY <1>2, <1>4, <3>1
    <3> QED
      BY <2>2, <3>2
  <2> QED
    BY <2>1, <2>2
<1>8. RecordsJudged'
  <2> SUFFICES ASSUME NEW i \in DOMAIN results'
               PROVE  results'[i].success <=> results'[i].verdict = "pass"
    BY DEF RecordsJudged
  <2>1. CASE i \in DOMAIN results
    BY <1>4, <2>1 DEF RecordsJudged
  <2>2. CASE i = Len(results) + 1
    BY <1>1, <1>4, <2>2
  <2> QED
    BY <1>5, <2>1, <2>2
<1>9. Counted'
  BY <1>6, <1>7 DEF Counted
<1> QED
  BY <1>4, <1>7, <1>8, <1>9 DEF Rows, ScriptTypes

\* An exception that leaves the deadline's block decides the task.
LEMMA ThrownStep ==
    ASSUME ScriptInv, Script!Thrown, env' \in {env, task}, claimed' \in BOOLEAN,
           scriptPc \in {"initialize", "turn", "score", "leave"}
    PROVE  ScriptInv'
<1> USE DEF ScriptInv, Script!Thrown, Script!report
<1>1. Script!TypeOK'
  BY DEF Script!TypeOK, Script!Verdicts
<1>2. ScriptTypes' /\ Counted' /\ RecordsJudged'
  BY SameReport
<1>3. Flags'
  BY Zenon DEF Flags
<1>4. success' = FALSE /\ scriptPc' = "teardown" /\ verdict' # "pass"
  BY DEF Judged
<1>5. Judged'
  BY <1>4, Zenon DEF Judged
<1>6. Finished'
  BY DEF Finished
<1> QED
  BY <1>1, <1>2, <1>3, <1>5, <1>6

LEMMA ScriptStep == ScriptInv /\ [Script!Step]_evaluation => ScriptInv'
<1> SUFFICES ASSUME ScriptInv, [Script!Step]_evaluation PROVE ScriptInv'
  OBVIOUS
<1> USE DEF ScriptInv
<1>1. CASE Script!NextTask
  <2> USE <1>1 DEF Script!NextTask
  <2>1. Script!TypeOK'
    BY CountsAssumption DEF Script!report, Script!TypeOK, Script!Verdicts
  <2>2. ScriptTypes' /\ Counted' /\ RecordsJudged'
    BY SameReport DEF Script!report
  <2>3. Flags'
    BY Zenon DEF Flags
  <2>4. Judged'
    BY DEF Judged
  <2>5. Finished'
    BY CountsAssumption DEF Finished, Script!TypeOK, ScriptTypes, Script!report
  <2> QED
    BY <2>1, <2>2, <2>3, <2>4, <2>5
<1>2. CASE Script!Initialize
  <2> USE <1>2 DEF Script!Initialize
  <2>1. Script!TypeOK'
    BY CountsAssumption DEF Script!report, Script!TypeOK, Script!Verdicts
  <2>2. ScriptTypes' /\ Counted' /\ RecordsJudged'
    BY SameReport DEF Script!report
  <2>3. Flags'
    BY Zenon DEF Flags
  <2>4. Judged'
    BY DEF Judged
  <2>5. Finished'
    BY CountsAssumption DEF Finished, Script!TypeOK, ScriptTypes, Script!report
  <2> QED
    BY <2>1, <2>2, <2>3, <2>4, <2>5
<1>3. CASE Script!Turn
  <2> USE <1>3 DEF Script!Turn
  <2>1. Script!TypeOK'
    BY CountsAssumption DEF Script!report, Script!TypeOK, Script!Verdicts
  <2>2. ScriptTypes' /\ Counted' /\ RecordsJudged'
    BY SameReport DEF Script!report
  <2>3. Flags'
    BY Zenon DEF Flags
  <2>4. Judged'
    BY DEF Judged
  <2>5. Finished'
    BY CountsAssumption DEF Finished, Script!TypeOK, ScriptTypes, Script!report
  <2> QED
    BY <2>1, <2>2, <2>3, <2>4, <2>5
<1>4. CASE Script!HarnessClaim
  <2> USE <1>4 DEF Script!HarnessClaim
  <2>1. Script!TypeOK'
    BY CountsAssumption DEF Script!report, Script!TypeOK, Script!Verdict, Script!Verdicts
  <2>2. ScriptTypes' /\ Counted' /\ RecordsJudged'
    BY SameReport DEF Script!report
  <2>3. Flags'
    BY Zenon DEF Flags
  <2>4. Judged'
    BY DEF Judged, Script!Verdict
  <2>5. Finished'
    BY CountsAssumption DEF Finished, Script!TypeOK, ScriptTypes, Script!report
  <2> QED
    BY <2>1, <2>2, <2>3, <2>4, <2>5
<1>5. CASE Script!Stop
  <2> USE <1>5 DEF Script!Stop
  <2>1. Script!TypeOK'
    BY CountsAssumption DEF Script!report, Script!TypeOK, Script!Verdicts
  <2>2. ScriptTypes' /\ Counted' /\ RecordsJudged'
    BY SameReport DEF Script!report
  <2>3. Flags'
    BY Zenon DEF Flags
  <2>4. Judged'
    BY DEF Judged
  <2>5. Finished'
    BY CountsAssumption DEF Finished, Script!TypeOK, ScriptTypes, Script!report
  <2> QED
    BY <2>1, <2>2, <2>3, <2>4, <2>5
<1>6. CASE Script!Score
  <2> USE <1>6 DEF Script!Score
  <2>1. Script!TypeOK'
    BY CountsAssumption DEF Script!report, Script!TypeOK, Script!Verdict, Script!Verdicts
  <2>2. ScriptTypes' /\ Counted' /\ RecordsJudged'
    BY SameReport DEF Script!report
  <2>3. Flags'
    BY Zenon DEF Flags
  <2>4. Judged'
    BY Zenon DEF Judged, Script!Verdict
  <2>5. Finished'
    BY CountsAssumption DEF Finished, Script!TypeOK, ScriptTypes, Script!report
  <2> QED
    BY <2>1, <2>2, <2>3, <2>4, <2>5
<1>7. CASE Script!AlarmSwallowed
  <2> USE <1>7 DEF Script!AlarmSwallowed
  <2>1. Script!TypeOK'
    BY CountsAssumption DEF Script!report, Script!TypeOK, Script!Verdicts
  <2>2. ScriptTypes' /\ Counted' /\ RecordsJudged'
    BY SameReport DEF Script!report
  <2>3. Flags'
    BY Zenon DEF Flags
  <2>4. Judged'
    BY DEF Judged
  <2>5. Finished'
    BY CountsAssumption DEF Finished, Script!TypeOK, ScriptTypes, Script!report
  <2> QED
    BY <2>1, <2>2, <2>3, <2>4, <2>5
<1>8. CASE Script!LeaveDeadline
  <2> USE <1>8 DEF Script!LeaveDeadline
  <2>1. Script!TypeOK'
    BY CountsAssumption DEF Script!report, Script!TypeOK, Script!Verdicts
  <2>2. ScriptTypes' /\ Counted' /\ RecordsJudged'
    BY SameReport DEF Script!report
  <2>3. Flags'
    BY Zenon DEF Flags
  <2>4. Judged'
    BY DEF Judged
  <2>5. Finished'
    BY CountsAssumption DEF Finished, Script!TypeOK, ScriptTypes, Script!report
  <2> QED
    BY <2>1, <2>2, <2>3, <2>4, <2>5
<1>9. CASE Script!TearDown
  <2> USE <1>9 DEF Script!TearDown
  <2>1. Script!TypeOK'
    BY CountsAssumption DEF Script!report, Script!TypeOK, Script!Verdicts
  <2>2. ScriptTypes' /\ Counted' /\ RecordsJudged'
    BY SameReport DEF Script!report
  <2>3. Flags'
    BY Zenon DEF Flags
  <2>4. Judged'
    BY DEF Judged
  <2>5. Finished'
    BY CountsAssumption DEF Finished, Script!TypeOK, ScriptTypes, Script!report
  <2> QED
    BY <2>1, <2>2, <2>3, <2>4, <2>5
<1>10. CASE Script!Raise
  <2>1. env' \in {env, task} /\ claimed' = claimed
    BY <1>10 DEF Script!Raise
  <2>2. claimed' \in BOOLEAN
    BY <2>1 DEF Flags
  <2> QED
    BY <1>10, <2>1, <2>2, ThrownStep DEF Script!Raise
<1>11. CASE Script!CoreClaim
  <2>1. claimed' \in BOOLEAN
    BY <1>11, Zenon DEF Script!CoreClaim
  <2> QED
    BY <1>11, <2>1, ThrownStep DEF Script!CoreClaim
<1>12. CASE Script!AlarmThrown
  <2>1. claimed' \in BOOLEAN
    BY <1>12 DEF Script!AlarmThrown, Flags
  <2> QED
    BY <1>12, <2>1, ThrownStep DEF Script!AlarmThrown
<1>13. CASE Script!NoParams
  <2> USE <1>13 DEF Script!NoParams
  <2>1. Script!TypeOK'
    BY CountsAssumption DEF Script!TypeOK
  <2>2. results' = Append(results, Script!Result(FALSE, "none", FALSE)) /\ UNCHANGED successes
    OBVIOUS
  <2>3. ScriptTypes' /\ Counted' /\ RecordsJudged' /\ Len(results') = Len(results) + 1
    BY <2>2, OneMore DEF Script!Verdicts
  <2>4. Flags' /\ Judged'
    BY DEF Flags, Judged
  <2>5. Finished'
    BY <2>3 DEF Finished, Script!TypeOK, ScriptTypes
  <2> QED
    BY <2>1, <2>3, <2>4, <2>5
<1>14. CASE Script!Record
  <2> USE <1>14 DEF Script!Record
  <2>1. Script!TypeOK'
    BY DEF Script!TypeOK
  <2>2. /\ success \in BOOLEAN /\ claimed \in BOOLEAN /\ verdict \in Script!Verdicts
        /\ (success <=> verdict = "pass")
    BY DEF Flags, Judged, Script!TypeOK
  <2>3. ScriptTypes' /\ Counted' /\ RecordsJudged' /\ Len(results') = Len(results) + 1
    BY <2>2, OneMore
  <2>4. Flags' /\ Judged'
    BY DEF Flags, Judged
  <2>5. Finished'
    BY <2>3 DEF Finished, Script!TypeOK, ScriptTypes
  <2> QED
    BY <2>1, <2>3, <2>4, <2>5
<1>15. CASE Script!Abort
  <2> USE <1>15 DEF Script!Abort
  <2>1. Script!TypeOK'
    BY CountsAssumption DEF Script!TypeOK
  <2>2. ScriptTypes' /\ Counted' /\ RecordsJudged'
    BY SameReport
  <2>3. Flags' /\ Judged'
    BY DEF Flags, Judged
  <2>4. Finished'
    BY DEF Finished
  <2> QED
    BY <2>1, <2>2, <2>3, <2>4
<1>16. CASE Script!Summarize
  <2> USE <1>16 DEF Script!Summarize
  <2>1. Script!TypeOK'
    BY CountsAssumption DEF Script!TypeOK
  <2>2. ScriptTypes' /\ Counted' /\ RecordsJudged'
    BY SameReport
  <2>3. Flags' /\ Judged'
    BY DEF Flags, Judged
  <2>4. Finished'
    BY DEF Finished
  <2> QED
    BY <2>1, <2>2, <2>3, <2>4
<1>17. CASE UNCHANGED evaluation
  <2>1. ScriptTypes' /\ Counted' /\ RecordsJudged'
    BY <1>17, SameReport DEF evaluation
  <2>2. Script!TypeOK' /\ Flags' /\ Judged' /\ Finished'
    BY <1>17 DEF evaluation, Script!TypeOK, Flags, Judged, Finished
  <2> QED
    BY <2>1, <2>2
<1> QED
  BY <1>1, <1>2, <1>3, <1>4, <1>5, <1>6, <1>7, <1>8,
     <1>9, <1>10, <1>11, <1>12, <1>13, <1>14, <1>15, <1>16, <1>17 DEF Script!Step

LEMMA ScriptAlways == ServicesSpec => []ScriptInv
<1>1. ServicesInit => ScriptInv
  BY ScriptInit DEF ServicesInit
<1>2. ScriptInv /\ [ServicesNext]_<<part, transport, extensions, model, evaluation,
                                    skills, evidence, history, compaction, commands>>
        => ScriptInv'
  BY ScriptStep DEF ServicesNext
<1> QED
  BY <1>1, <1>2, PTL DEF ServicesSpec

\* run_evaluation: for any number of tasks and turns, a recorded success is the
\* verdict of the task's own evaluator and nothing raised since, no task is
\* skipped, and the exit status is 0 exactly if every planned task succeeded.
THEOREM SuccessIsTheEvaluators == ServicesSpec => []VerdictIsEvaluators
<1>1. ScriptInv => VerdictIsEvaluators
  <2> SUFFICES ASSUME ScriptInv PROVE VerdictIsEvaluators
    OBVIOUS
  <2>1. Len(results) \in Nat /\ task \in Nat /\ Tasks \in Nat
    BY CountsAssumption DEF ScriptInv, ScriptTypes, Script!TypeOK
  <2> QED
    BY <2>1 DEF ScriptInv, Counted, RecordsJudged, Finished,
                VerdictIsEvaluators, Script!VerdictIsEvaluators
<1> QED
  BY ScriptAlways, <1>1, PTL
-----------------------------------------------------------------------------
\* McpTransport.

\* The one reader belongs to the request under way.
TransportTypes ==
    /\ inbox \subseteq 1..MaxRequests
    /\ out \in Seq([id : 0..MaxRequests, form : Transport!Forms])
    /\ owner \in Callers \cup {"none"}
    /\ callerPc \in [Callers -> {"idle", "reading", "grace"}]
    /\ rid \in [Callers -> 0..MaxRequests] /\ lastId \in 0..MaxRequests
    /\ got \in [Callers -> [kind : {"pending", "raised", "result", "taken"}, id : 0..MaxRequests]]

OneReader ==
    /\ owner = "none" => readers = {}
    /\ \A c \in Callers : owner = c => readers = {rid[c]} /\ rid[c] # 0

TransportInv == Transport!TypeOK /\ TransportTypes /\ OneReader /\ Transport!AnswersArrive

LEMMA TransportInit == Transport!Init => TransportInv
<1> SUFFICES ASSUME Transport!Init PROVE TransportInv
  OBVIOUS
<1>1. Transport!TypeOK /\ TransportTypes
  BY NamesAssumption, CountsAssumption
  DEF Transport!Init, Transport!TypeOK, TransportTypes, Transport!Pending
<1>2. OneReader /\ Transport!AnswersArrive
  BY NamesAssumption DEF Transport!Init, OneReader, Transport!AnswersArrive, Transport!Pending
<1> QED
  BY <1>1, <1>2 DEF TransportInv

\* A sequence of lines loses its head: the others are still in it.
LEMMA TailKeeps ==
    ASSUME NEW S, NEW s \in Seq(S), s # <<>>
    PROVE  /\ Head(s) = s[1] /\ Head(s) \in S /\ Tail(s) \in Seq(S)
           /\ \A i \in DOMAIN s : i # 1 => i - 1 \in DOMAIN Tail(s) /\ Tail(s)[i - 1] = s[i]
  OBVIOUS

LEMMA ElementsOf ==
    ASSUME NEW S, NEW s \in Seq(S)
    PROVE  \A i \in DOMAIN s : s[i] \in S
  OBVIOUS

\* A request that ends frees the lock, and nobody else was reading.
LEMMA EndStep ==
    ASSUME TransportInv, NEW c \in Callers, callerPc[c] \in {"reading", "grace"},
           NEW reply \in [kind : {"pending", "raised", "result", "taken"}, id : 0..MaxRequests],
           reply.kind = "result" => reply.id = rid[c],
           Transport!End(c, reply), readers' = {},
           out' \in Seq([id : 0..MaxRequests, form : Transport!Forms]),
           server' \in {"up", "exited", "closed"}, UNCHANGED <<inbox, rid, lastId>>
    PROVE  TransportInv'
<1> USE NamesAssumption DEF TransportInv, Transport!End, TransportTypes, Transport!TypeOK
<1>1. callerPc' = [callerPc EXCEPT ![c] = "idle"] /\ owner' = "none" /\ owner = c
  OBVIOUS
<1>2. \A d \in Callers : callerPc'[d] = "idle"
  BY <1>1
<1>3. TransportTypes'
  BY <1>1
<1>4. \A d \in Callers : callerPc'[d] # "idle" <=> owner' = d
  BY <1>1, <1>2
<1>5. \A i \in DOMAIN out' : out'[i] \in [id : 0..MaxRequests, form : Transport!Forms]
  BY ElementsOf
<1>6. Transport!TypeOK'
  BY <1>2, <1>4, <1>5
<1>7. OneReader'
  BY <1>1 DEF OneReader
<1>8. \A d \in Callers : got'[d].kind = "result" => got'[d].id = rid'[d]
  BY DEF Transport!AnswersArrive
<1>9. Transport!AnswersArrive'
  BY <1>2, <1>8 DEF Transport!AnswersArrive
<1> QED
  BY <1>3, <1>6, <1>7, <1>9

LEMMA TransportStep == TransportInv /\ [Transport!Next]_transport => TransportInv'
<1> SUFFICES ASSUME TransportInv, [Transport!Next]_transport PROVE TransportInv'
  OBVIOUS
<1> USE NamesAssumption, CountsAssumption DEF TransportInv
<1> DEFINE Rows == [id : 0..MaxRequests, form : Transport!Forms]
           Kinds == [kind : {"pending", "raised", "result", "taken"}, id : 0..MaxRequests]
<1>a. Transport!Raised \in Kinds /\ Transport!Pending \in Kinds
      /\ Transport!Raised.kind # "result" /\ Transport!Pending.kind # "result"
  BY DEF Transport!Raised, Transport!Pending
<1>b. out \in Seq(Rows)
  BY DEF TransportTypes
<1>1. ASSUME NEW c \in Callers, Transport!Request(c) PROVE TransportInv'
  <2>1. /\ callerPc[c] = "idle" /\ owner = "none" /\ lastId < MaxRequests
        /\ lastId' = lastId + 1 /\ rid' = [rid EXCEPT ![c] = lastId + 1]
        /\ UNCHANGED <<server, out>> /\ readers = {}
        /\ \A d \in Callers : callerPc[d] = "idle"
    BY <1>1 DEF Transport!Request, OneReader, Transport!TypeOK
  <2>2. CASE server = "up"
    <3>1. /\ inbox' = inbox \cup {lastId + 1} /\ readers' = {lastId + 1}
          /\ got' = [got EXCEPT ![c] = Transport!Pending]
          /\ callerPc' = [callerPc EXCEPT ![c] = "reading"] /\ owner' = c
      BY <1>1, <2>1, <2>2 DEF Transport!Request
    <3>2. TransportTypes'
      BY <2>1, <3>1, <1>a DEF TransportTypes
    <3>3. Transport!TypeOK'
      BY <2>1, <3>1 DEF Transport!TypeOK, TransportTypes
    <3>4. OneReader'
      BY <2>1, <3>1 DEF OneReader, TransportTypes
    <3>5. Transport!AnswersArrive'
      BY <2>1, <3>1, <1>a DEF Transport!AnswersArrive, TransportTypes
    <3> QED
      BY <3>2, <3>3, <3>4, <3>5
  <2>3. CASE server # "up"
    <3>1. /\ got' = [got EXCEPT ![c] = Transport!Raised]
          /\ callerPc' = [callerPc EXCEPT ![c] = "idle"] /\ owner' = "none"
          /\ UNCHANGED <<inbox, readers>>
      BY <1>1, <2>1, <2>3 DEF Transport!Request, Transport!End
    <3>2. TransportTypes'
      BY <2>1, <3>1, <1>a DEF TransportTypes
    <3>3. Transport!TypeOK'
      BY <2>1, <3>1 DEF Transport!TypeOK, TransportTypes
    <3>4. OneReader'
      BY <2>1, <3>1 DEF OneReader, TransportTypes
    <3>5. Transport!AnswersArrive'
      BY <2>1, <3>1, <1>a DEF Transport!AnswersArrive, TransportTypes
    <3> QED
      BY <3>2, <3>3, <3>4, <3>5
  <2> QED
    BY <2>2, <2>3
<1>2. ASSUME NEW c \in Callers, Transport!Receive(c) PROVE TransportInv'
  <2> DEFINE line == Head(out)
  <2>1. /\ callerPc[c] = "reading" /\ rid[c] \in readers /\ out # <<>> /\ out' = Tail(out)
        /\ UNCHANGED <<server, inbox, rid, lastId>>
    BY <1>2 DEF Transport!Receive
  <2>2. /\ line = out[1] /\ line \in Rows /\ Tail(out) \in Seq(Rows)
        /\ \A i \in DOMAIN out : i # 1 => i - 1 \in DOMAIN Tail(out) /\ Tail(out)[i - 1] = out[i]
    BY <2>1, <1>b, TailKeeps
  <2>3. owner = c /\ readers = {rid[c]}
    BY <2>1 DEF Transport!TypeOK, OneReader
  <2>4. CASE line.form # "garbled" /\ line.id # rid[c]
    <3>1. UNCHANGED <<got, callerPc, owner, readers>>
      BY <1>2, <2>4 DEF Transport!Receive
    <3>2. TransportTypes'
      BY <2>1, <2>2, <3>1 DEF TransportTypes
    <3>3. Transport!TypeOK' /\ OneReader'
      BY <2>1, <2>2, <3>1 DEF Transport!TypeOK, OneReader
    <3>4. \A d \in Callers : callerPc[d] = "reading" => d = c
      BY <2>3 DEF Transport!TypeOK
    <3>5. rid[c] \notin inbox /\ server # "closed"
            => \E i \in DOMAIN Tail(out) : /\ Tail(out)[i].form \in Transport!Answers
                                           /\ Tail(out)[i].id = rid[c]
      <4> SUFFICES ASSUME rid[c] \notin inbox, server # "closed"
                   PROVE  \E i \in DOMAIN Tail(out) : /\ Tail(out)[i].form \in Transport!Answers
                                                       /\ Tail(out)[i].id = rid[c]
        OBVIOUS
      <4>1. PICK i \in DOMAIN out : out[i].form \in Transport!Answers /\ out[i].id = rid[c]
        BY <2>1 DEF Transport!AnswersArrive
      <4>2. i # 1
        BY <2>2, <2>4, <4>1
      <4> HIDE DEF Rows
      <4> QED
        BY <2>2, <4>1, <4>2
    <3>6. Transport!AnswersArrive'
      BY <2>1, <3>1, <3>4, <3>5 DEF Transport!AnswersArrive
    <3> QED
      BY <3>2, <3>3, <3>6
  <2>5. CASE ~(line.form # "garbled" /\ line.id # rid[c])
    <3> DEFINE answer == CASE line.form = "result"  -> [kind |-> "result", id |-> line.id]
                           [] line.form = "request" -> [kind |-> "taken", id |-> line.id]
                           [] OTHER -> Transport!Raised
    <3>1. Transport!End(c, answer) /\ readers' = {}
      BY <1>2, <2>3, <2>5 DEF Transport!Receive
    <3>2. answer \in Kinds /\ (answer.kind = "result" => answer.id = rid[c])
      BY <1>a, <2>2, <2>5
    <3> HIDE DEF answer
    <3> QED
      BY <2>1, <2>2, <3>1, <3>2, EndStep DEF Transport!TypeOK
  <2> QED
    BY <2>4, <2>5
<1>3. ASSUME NEW c \in Callers, Transport!EndOfFile(c) PROVE TransportInv'
  <2>1. /\ callerPc[c] \in {"reading", "grace"} /\ Transport!End(c, Transport!Raised)
        /\ readers' = readers \ {rid[c]} /\ UNCHANGED <<server, inbox, out, rid, lastId>>
    BY <1>3 DEF Transport!EndOfFile
  <2>2. readers' = {}
    BY <2>1 DEF OneReader, Transport!TypeOK
  <2> QED
    BY <1>a, <1>b, <2>1, <2>2, EndStep DEF Transport!TypeOK
<1>4. ASSUME NEW c \in Callers, Transport!HardStop(c) PROVE TransportInv'
  <2>1. /\ callerPc[c] = "grace" /\ Transport!End(c, Transport!Raised) /\ server' = "closed"
        /\ readers' = {} /\ out' = <<>> /\ UNCHANGED <<inbox, rid, lastId>>
    BY <1>4 DEF Transport!HardStop
  <2>2. out' \in Seq(Rows)
    BY <2>1
  <2> QED
    BY <1>a, <2>1, <2>2, EndStep
<1>5. ASSUME NEW c \in Callers, Transport!LineTimeout(c) PROVE TransportInv'
  <2> USE <1>5 DEF Transport!LineTimeout
  <2>1. TransportTypes' /\ Transport!TypeOK'
    BY DEF TransportTypes, Transport!TypeOK
  <2>2. OneReader' /\ Transport!AnswersArrive'
    BY DEF TransportTypes, OneReader, Transport!AnswersArrive
  <2> QED
    BY <2>1, <2>2
<1>6. ASSUME NEW r \in readers, Transport!LateLine(r) PROVE TransportInv'
  <2>1. /\ out # <<>> /\ out' = Tail(out) /\ readers' = readers \ {r}
        /\ \A c \in Callers : ~(callerPc[c] = "reading" /\ rid[c] = r)
        /\ UNCHANGED <<server, inbox, rid, lastId>>
    BY <1>6 DEF Transport!LateLine
  <2>2. PICK c \in Callers : owner = c
    BY DEF OneReader, TransportTypes
  <2>3. rid[c] = r /\ callerPc[c] = "grace" /\ readers' = {}
    BY <2>1, <2>2 DEF OneReader, TransportTypes, Transport!TypeOK
  <2>4. {d \in Callers : callerPc[d] = "grace" /\ rid[d] = r} = {c}
    BY <2>2, <2>3 DEF Transport!TypeOK
  <2>5. /\ got' = [d \in Callers |-> IF d \in {c} THEN Transport!Raised ELSE got[d]]
        /\ callerPc' = [d \in Callers |-> IF d \in {c} THEN "idle" ELSE callerPc[d]]
        /\ owner' = IF owner \in {c} THEN "none" ELSE owner
    BY <1>6, <2>4 DEF Transport!LateLine
  <2>6. Transport!End(c, Transport!Raised)
    BY <2>2, <2>5 DEF Transport!End, TransportTypes
  <2>7. Tail(out) \in Seq(Rows)
    BY <2>1, <1>b, TailKeeps
  <2> QED
    BY <1>a, <2>1, <2>3, <2>6, <2>7, EndStep DEF Transport!TypeOK
<1>7. CASE Transport!Close
  <2>1. server' = "closed" /\ out' = <<>> /\ UNCHANGED <<inbox, owner, callerPc, rid, lastId, readers, got>>
    BY <1>7 DEF Transport!Close
  <2>2. TransportTypes' /\ OneReader'
    BY <2>1 DEF TransportTypes, OneReader
  <2>3. DOMAIN out' = {}
    BY <2>1
  <2>4. Transport!TypeOK'
    BY <2>1, <2>3 DEF Transport!TypeOK
  <2>5. Transport!AnswersArrive'
    BY <2>1 DEF Transport!AnswersArrive
  <2> QED
    BY <2>2, <2>4, <2>5
<1>8. CASE Transport!Answer
  <2>1. PICK i \in inbox, form \in Transport!Answers :
          out' = Append(out, Transport!Line(i, form)) /\ inbox' = inbox \ {i}
    BY <1>8 DEF Transport!Answer
  <2>2. UNCHANGED <<server, owner, callerPc, rid, lastId, readers, got>>
    BY <1>8 DEF Transport!Answer
  <2>3. /\ Transport!Line(i, form) \in Rows /\ Transport!Line(i, form).id = i
        /\ Transport!Line(i, form).form \in Transport!Answers
    BY DEF Transport!Line, TransportTypes, Transport!Forms, Transport!Answers
  <2>4. /\ out' \in Seq(Rows) /\ DOMAIN out \subseteq DOMAIN out'
        /\ \A j \in DOMAIN out : out'[j] = out[j]
        /\ \E j \in DOMAIN out' : out'[j].form \in Transport!Answers /\ out'[j].id = i
    <3> DEFINE row == Transport!Line(i, form)
    <3> HIDE DEF row, Rows
    <3>1. /\ row \in Rows /\ row.id = i /\ row.form \in Transport!Answers
          /\ out' = Append(out, row)
      BY <2>1, <2>3 DEF row
    <3>2. Len(out) + 1 \in DOMAIN out' /\ out'[Len(out) + 1] = row
      BY <1>b, <3>1
    <3> QED
      BY <1>b, <3>1, <3>2, SMTT(30)
  <2>5. TransportTypes'
    BY <2>1, <2>2, <2>4 DEF TransportTypes
  <2>6. Transport!TypeOK' /\ OneReader'
    BY <2>1, <2>2, <2>4 DEF Transport!TypeOK, OneReader
  <2>7. Transport!AnswersArrive'
    BY <2>1, <2>2, <2>4 DEF Transport!AnswersArrive
  <2> QED
    BY <2>5, <2>6, <2>7
<1>9. CASE Transport!Notify
  <2>1. PICK i \in 0..MaxRequests, form \in {"notice", "request", "garbled"} :
          out' = Append(out, Transport!Line(i, form))
    BY <1>9 DEF Transport!Notify
  <2>2. UNCHANGED <<server, inbox, owner, callerPc, rid, lastId, readers, got>>
    BY <1>9 DEF Transport!Notify
  <2>3. Transport!Line(i, form) \in Rows
    BY DEF Transport!Line, Transport!Forms
  <2>4. /\ out' \in Seq(Rows) /\ DOMAIN out \subseteq DOMAIN out'
        /\ \A j \in DOMAIN out : out'[j] = out[j]
    <3> DEFINE row == Transport!Line(i, form)
    <3> HIDE DEF row, Rows
    <3>1. row \in Rows /\ out' = Append(out, row)
      BY <2>1, <2>3 DEF row
    <3> QED
      BY <1>b, <3>1
  <2>5. TransportTypes'
    BY <2>2, <2>4 DEF TransportTypes
  <2>6. Transport!TypeOK' /\ OneReader'
    <3>1. \A j \in DOMAIN out' : out'[j] \in Rows
      BY <2>4, ElementsOf
    <3> QED
      BY <2>2, <3>1 DEF Transport!TypeOK, OneReader
  <2>7. Transport!AnswersArrive'
    BY <2>2, <2>4 DEF Transport!AnswersArrive
  <2> QED
    BY <2>5, <2>6, <2>7
<1>10. CASE Transport!Exit
  <2> USE <1>10 DEF Transport!Exit
  <2>1. TransportTypes' /\ Transport!TypeOK'
    BY DEF TransportTypes, Transport!TypeOK
  <2>2. OneReader' /\ Transport!AnswersArrive'
    BY DEF OneReader, Transport!AnswersArrive
  <2> QED
    BY <2>1, <2>2
<1>11. CASE UNCHANGED transport
  BY <1>11 DEF transport, TransportTypes, Transport!TypeOK, OneReader, Transport!AnswersArrive
<1> QED
  BY <1>1, <1>2, <1>3, <1>4, <1>5, <1>6, <1>7, <1>8, <1>9, <1>10, <1>11 DEF Transport!Next

LEMMA TransportAlways == ServicesSpec => []TransportInv
<1>1. ServicesInit => TransportInv
  BY TransportInit DEF ServicesInit
<1>2. TransportInv /\ [ServicesNext]_<<part, transport, extensions, model, evaluation,
                                       skills, evidence, history, compaction, commands>>
        => TransportInv'
  BY TransportStep DEF ServicesNext
<1> QED
  BY <1>1, <1>2, PTL DEF ServicesSpec
-----------------------------------------------------------------------------
\* Extensions.

\* What an operation under way has found and done.
ExtensionTypes ==
    /\ registry \in [Servers -> [Tools -> 0..MaxClients]]
    /\ conn \in [Servers -> 0..MaxClients] /\ names \in [Servers -> SUBSET Allowed]
    /\ process \in [Mcp!Clients -> {"none", "up", "exited", "closed"}]
    /\ op \in [kind : {"none", "connect", "refresh", "connecting", "refreshing"},
               server : Servers \cup {"none"}, client : 0..MaxClients]
    /\ saved \subseteq Servers /\ partial \subseteq Servers \X Mcp!Clients
    /\ left \subseteq Allowed \cap Tools /\ done \subseteq Allowed

\* A tool of the server's old record is registered again or not at all.
Operation ==
    /\ op.kind = "none" => op = Mcp!NoOp
    /\ op.kind # "none" => op.server \in Servers /\ op.client \in Mcp!Clients
    /\ op.kind \in {"none", "connect", "refresh"} => done = {}
    /\ op.kind \in {"connect", "connecting"} => conn[op.server] = 0
    /\ op.kind \in {"refresh", "refreshing"} =>
         /\ conn[op.server] = op.client
         /\ \A t \in names[op.server] \cap Tools : registry[op.server][t] = 0 \/ t \in done

ExtensionsInv == ExtensionTypes /\ Operation /\ Mcp!RegistryIsBacked

LEMMA ExtensionsInit == Mcp!Init => ExtensionsInv
<1> SUFFICES ASSUME Mcp!Init PROVE ExtensionsInv
  OBVIOUS
<1>1. ExtensionTypes
  BY CountsAssumption DEF Mcp!Init, ExtensionTypes, Mcp!NoOp, Mcp!Clients
<1>2. Operation
  BY DEF Mcp!Init, Operation, Mcp!NoOp
<1>3. Mcp!RegistryIsBacked
  BY DEF Mcp!Init, Mcp!RegistryIsBacked
<1> QED
  BY <1>1, <1>2, <1>3 DEF ExtensionsInv

\* Binding tools of a server changes those registrations alone.
LEMMA BindStep ==
    ASSUME ExtensionTypes, NEW s \in Servers, NEW tools, NEW c \in 0..MaxClients,
           Mcp!Bind(s, tools, c)
    PROVE  /\ registry' \in [Servers -> [Tools -> 0..MaxClients]]
           /\ \A r \in Servers, t \in Tools :
                registry'[r][t] = IF r = s /\ t \in tools THEN c ELSE registry[r][t]
  BY DEF Mcp!Bind, ExtensionTypes

\* A process that is stopped or has exited needs no owner.
LEMMA StoppedStep ==
    ASSUME ExtensionsInv, NEW c \in Mcp!Clients, NEW end \in {"exited", "closed"},
           process' = [process EXCEPT ![c] = end],
           UNCHANGED <<registry, conn, names, saved, op, left, done, repeats, partial>>
    PROVE  ExtensionsInv'
<1> USE DEF ExtensionsInv
<1>1. ExtensionTypes'
  BY DEF ExtensionTypes
<1>2. Operation'
  BY DEF Operation
<1>3. Mcp!RegistryIsBacked'
  BY DEF Mcp!RegistryIsBacked, ExtensionTypes
<1> QED
  BY <1>1, <1>2, <1>3

LEMMA ExtensionsStep == ExtensionsInv /\ [Mcp!Next]_extensions => ExtensionsInv'
<1> SUFFICES ASSUME ExtensionsInv, [Mcp!Next]_extensions PROVE ExtensionsInv'
  OBVIOUS
<1> USE NamesAssumption, CountsAssumption DEF ExtensionsInv
<1>1. ASSUME NEW s \in Servers, Mcp!Start(s) PROVE ExtensionsInv'
  <2>1. PICK c \in Mcp!Clients :
          /\ process[c] = "none" /\ process' = [process EXCEPT ![c] = "up"]
          /\ op' = [kind |-> "connect", server |-> s, client |-> c]
    BY <1>1 DEF Mcp!Start
  <2>2. /\ op = Mcp!NoOp /\ conn[s] = 0
        /\ UNCHANGED <<registry, conn, names, saved, left, done, repeats, partial>>
    BY <1>1 DEF Mcp!Start
  <2>3. ExtensionTypes'
    BY <2>1, <2>2 DEF ExtensionTypes, Mcp!Clients
  <2>4. Operation'
    BY <2>1, <2>2 DEF Operation, Mcp!NoOp
  <2>5. Mcp!RegistryIsBacked'
    BY <2>1, <2>2 DEF Mcp!RegistryIsBacked, ExtensionTypes, Mcp!NoOp, Mcp!Clients
  <2> QED
    BY <2>3, <2>4, <2>5
<1>2. ASSUME NEW s \in Servers, Mcp!Refresh(s) PROVE ExtensionsInv'
  <2>1. /\ op = Mcp!NoOp /\ conn[s] # 0 /\ Mcp!Bind(s, names[s], 0)
        /\ op' = [kind |-> "refresh", server |-> s, client |-> conn[s]]
        /\ UNCHANGED <<conn, names, process, saved, left, done, repeats, partial>>
    BY <1>2 DEF Mcp!Refresh
  <2>2. /\ registry' \in [Servers -> [Tools -> 0..MaxClients]]
        /\ \A r \in Servers, t \in Tools :
             registry'[r][t] = IF r = s /\ t \in names[s] THEN 0 ELSE registry[r][t]
    BY <2>1, BindStep
  <2>3. ExtensionTypes'
    BY <2>1, <2>2 DEF ExtensionTypes
  <2>4. Operation'
    BY <2>1, <2>2 DEF Operation, Mcp!NoOp, ExtensionTypes, Mcp!Clients
  <2>5. Mcp!RegistryIsBacked'
    <3>1. ASSUME NEW r \in Servers, NEW t \in Tools, registry'[r][t] # 0
          PROVE  /\ t \in Allowed
                 /\ \/ registry'[r][t] = conn'[r] /\ t \in names'[r]
                    \/ <<r, registry'[r][t]>> \in partial'
      <4>1. registry'[r][t] = registry[r][t]
        BY <2>2, <3>1
      <4>2. op.server # r
        BY <2>1 DEF Mcp!NoOp
      <4> QED
        BY <2>1, <3>1, <4>1, <4>2 DEF Mcp!RegistryIsBacked
    <3>2. ASSUME NEW c \in Mcp!Clients, process'[c] = "up"
          PROVE  (\E r \in Servers : conn'[r] = c) \/ (\E r \in Servers : <<r, c>> \in partial')
      <4>1. op.client # c
        BY <2>1 DEF Mcp!NoOp, Mcp!Clients
      <4> QED
        BY <2>1, <3>2, <4>1 DEF Mcp!RegistryIsBacked
    <3> QED
      BY <3>1, <3>2 DEF Mcp!RegistryIsBacked
  <2> QED
    BY <2>3, <2>4, <2>5
<1>3. ASSUME NEW s \in Servers, Mcp!Disconnect(s) PROVE ExtensionsInv'
  <2>1. /\ op = Mcp!NoOp /\ conn[s] # 0 /\ Mcp!Bind(s, names[s], 0)
        /\ process' = [process EXCEPT ![conn[s]] = "closed"]
        /\ conn' = [conn EXCEPT ![s] = 0] /\ names' = [names EXCEPT ![s] = {}]
        /\ UNCHANGED <<saved, op, left, done, repeats, partial>>
    BY <1>3 DEF Mcp!Disconnect
  <2>2. /\ registry' \in [Servers -> [Tools -> 0..MaxClients]]
        /\ \A r \in Servers, t \in Tools :
             registry'[r][t] = IF r = s /\ t \in names[s] THEN 0 ELSE registry[r][t]
    BY <2>1, BindStep
  <2>3. ExtensionTypes'
    <3>1. process' \in [Mcp!Clients -> {"none", "up", "exited", "closed"}]
      BY <2>1 DEF ExtensionTypes
    <3>2. conn' \in [Servers -> 0..MaxClients]
      BY <2>1 DEF ExtensionTypes
    <3>3. names' \in [Servers -> SUBSET Allowed]
      BY <2>1 DEF ExtensionTypes
    <3> QED
      BY <2>1, <2>2, <3>1, <3>2, <3>3 DEF ExtensionTypes
  <2>4. Operation'
    BY <2>1 DEF Operation, Mcp!NoOp
  <2>5. \A r \in Servers, t \in Tools : registry'[r][t] # 0 =>
          /\ t \in Allowed
          /\ \/ registry'[r][t] = conn'[r] /\ t \in names'[r]
             \/ <<r, registry'[r][t]>> \in partial'
    BY <2>1, <2>2 DEF Mcp!RegistryIsBacked, Mcp!NoOp, ExtensionTypes
  <2>6. \A c \in Mcp!Clients : process'[c] = "up" =>
          (\E r \in Servers : conn'[r] = c) \/ op'.client = c
            \/ \E r \in Servers : <<r, c>> \in partial'
    <3> SUFFICES ASSUME NEW c \in Mcp!Clients, process'[c] = "up"
                 PROVE  \/ \E r \in Servers : conn'[r] = c
                        \/ op'.client = c
                        \/ \E r \in Servers : <<r, c>> \in partial'
      OBVIOUS
    <3>1. c # conn[s] /\ process[c] = "up"
      BY <2>1 DEF ExtensionTypes, Mcp!Clients
    <3>2. ASSUME NEW r \in Servers, conn[r] = c PROVE conn'[r] = c
      BY <2>1, <3>1, <3>2 DEF ExtensionTypes
    <3> QED
      BY <2>1, <3>1, <3>2 DEF Mcp!RegistryIsBacked
  <2>7. Mcp!RegistryIsBacked'
    BY <2>5, <2>6 DEF Mcp!RegistryIsBacked
  <2> QED
    BY <2>3, <2>4, <2>7
<1>4. ASSUME NEW s \in Servers, Mcp!CallTimesOut(s) PROVE ExtensionsInv'
  <2>1. PICK t \in Tools : /\ registry[s][t] # 0 /\ process[registry[s][t]] = "up"
                           /\ process' = [process EXCEPT ![registry[s][t]] = "closed"]
    BY <1>4 DEF Mcp!CallTimesOut
  <2>2. registry[s][t] \in Mcp!Clients
    BY <2>1 DEF ExtensionTypes, Mcp!Clients
  <2> QED
    BY <1>4, <2>1, <2>2, StoppedStep DEF Mcp!CallTimesOut
<1>5. CASE Mcp!ServerExits
  BY <1>5, StoppedStep DEF Mcp!ServerExits
<1>6. CASE Mcp!List
  <2>1. PICK listing \in SUBSET Tools : left' = listing \cap Allowed
    BY <1>6 DEF Mcp!List
  <2>2. /\ op.kind \in {"connect", "refresh"}
        /\ op' = [op EXCEPT !.kind = IF @ = "connect" THEN "connecting" ELSE "refreshing"]
        /\ UNCHANGED <<registry, conn, names, process, saved, done, partial>>
    BY <1>6 DEF Mcp!List
  <2>3. /\ op'.server = op.server /\ op'.client = op.client
        /\ op'.kind = IF op.kind = "connect" THEN "connecting" ELSE "refreshing"
        /\ op' \in [kind : {"none", "connect", "refresh", "connecting", "refreshing"},
                    server : Servers \cup {"none"}, client : 0..MaxClients]
    BY <2>2 DEF ExtensionTypes
  <2>4. ExtensionTypes'
    BY <2>1, <2>2, <2>3 DEF ExtensionTypes
  <2>5. Operation'
    BY <2>2, <2>3 DEF Operation
  <2>6. Mcp!RegistryIsBacked'
    BY <2>2, <2>3 DEF Mcp!RegistryIsBacked
  <2> QED
    BY <2>4, <2>5, <2>6
<1>7. CASE Mcp!ListFails
  <2>1. PICK stops \in BOOLEAN :
          /\ process' = [process EXCEPT ![op.client] = IF stops THEN "closed" ELSE @]
          /\ op.kind = "connect" => stops
    BY <1>7 DEF Mcp!ListFails
  <2>2. /\ op.kind \in {"connect", "refresh"} /\ op' = Mcp!NoOp /\ done = {}
        /\ UNCHANGED <<registry, conn, names, saved, left, done, repeats, partial>>
    BY <1>7 DEF Mcp!ListFails, Operation
  <2>3. op.server \in Servers /\ op.client \in Mcp!Clients
    BY <2>2 DEF Operation
  <2>4. ExtensionTypes'
    BY <2>1, <2>2, <2>3 DEF ExtensionTypes, Mcp!NoOp
  <2>5. Operation'
    BY <2>2 DEF Operation, Mcp!NoOp
  <2>6. \A r \in Servers, t \in Tools : registry'[r][t] # 0 =>
          /\ t \in Allowed
          /\ \/ registry'[r][t] = conn'[r] /\ t \in names'[r]
             \/ <<r, registry'[r][t]>> \in partial'
    BY <2>2 DEF Mcp!RegistryIsBacked
  <2>7. ASSUME NEW c \in Mcp!Clients, process'[c] = "up"
        PROVE  (\E r \in Servers : conn'[r] = c) \/ (\E r \in Servers : <<r, c>> \in partial')
    <3>1. process[c] = "up" /\ (op.kind = "connect" => c # op.client)
      BY <2>1, <2>3, <2>7 DEF ExtensionTypes
    <3>2. op.kind = "refresh" => conn[op.server] = op.client
      BY DEF Operation
    <3> QED
      BY <2>2, <2>3, <3>1, <3>2 DEF Mcp!RegistryIsBacked
  <2>8. Mcp!RegistryIsBacked'
    BY <2>6, <2>7 DEF Mcp!RegistryIsBacked
  <2> QED
    BY <2>4, <2>5, <2>8
<1>8. CASE Mcp!Register
  <2>1. PICK t \in left : /\ registry[op.server][t] = 0 /\ Mcp!Bind(op.server, {t}, op.client)
                          /\ left' = left \ {t} /\ done' = done \cup {t}
    BY <1>8 DEF Mcp!Register
  <2>2. /\ op.kind \in {"connecting", "refreshing"}
        /\ UNCHANGED <<conn, names, process, saved, op, repeats, partial>>
    BY <1>8 DEF Mcp!Register
  <2>3. op.server \in Servers /\ op.client \in Mcp!Clients /\ op.client \in 0..MaxClients
    BY <2>2 DEF Operation, ExtensionTypes
  <2>4. /\ registry' \in [Servers -> [Tools -> 0..MaxClients]]
        /\ \A r \in Servers, u \in Tools :
             registry'[r][u] = IF r = op.server /\ u \in {t} THEN op.client ELSE registry[r][u]
    BY <2>1, <2>3, BindStep
  <2>5. ExtensionTypes'
    BY <2>1, <2>2, <2>4 DEF ExtensionTypes
  <2>6. Operation'
    BY <2>1, <2>2, <2>3, <2>4 DEF Operation
  <2>7. Mcp!RegistryIsBacked'
    <3>1. ASSUME NEW r \in Servers, NEW u \in Tools, registry'[r][u] # 0
          PROVE  /\ u \in Allowed
                 /\ \/ registry'[r][u] = conn'[r] /\ u \in names'[r]
                    \/ op'.server = r /\ registry'[r][u] = op'.client /\ u \in done'
                    \/ <<r, registry'[r][u]>> \in partial'
      <4>1. CASE r = op.server /\ u = t
        BY <2>1, <2>2, <2>4, <4>1 DEF ExtensionTypes
      <4>2. CASE ~(r = op.server /\ u = t)
        <5>1. registry'[r][u] = registry[r][u]
          BY <2>4, <4>2
        <5> QED
          BY <2>1, <2>2, <3>1, <5>1 DEF Mcp!RegistryIsBacked
      <4> QED
        BY <4>1, <4>2
    <3> QED
      BY <2>2, <3>1 DEF Mcp!RegistryIsBacked
  <2> QED
    BY <2>5, <2>6, <2>7
<1>9. CASE Mcp!Refused \/ Mcp!Malformed
  <2>1. /\ op.kind \in {"connecting", "refreshing"}
        /\ partial' = partial \cup {<<op.server, op.client>>}
        /\ op' = Mcp!NoOp /\ left' = {} /\ done' = {}
        /\ UNCHANGED <<registry, conn, names, process, saved>>
    BY <1>9 DEF Mcp!Refused, Mcp!Malformed, Mcp!CutShort
  <2>2. op.server \in Servers /\ op.client \in Mcp!Clients
    BY <2>1 DEF Operation
  <2>3. ExtensionTypes'
    BY <2>1, <2>2 DEF ExtensionTypes, Mcp!NoOp
  <2>4. Operation'
    BY <2>1 DEF Operation, Mcp!NoOp
  <2>5. Mcp!RegistryIsBacked'
    BY <2>1, <2>2 DEF Mcp!RegistryIsBacked, Mcp!NoOp
  <2> QED
    BY <2>3, <2>4, <2>5
<1>10. CASE Mcp!Finish
  <2>1. /\ op.kind \in {"connecting", "refreshing"}
        /\ conn' = [conn EXCEPT ![op.server] = op.client]
        /\ names' = [names EXCEPT ![op.server] = done]
        /\ saved' = saved \cup {op.server} /\ op' = Mcp!NoOp /\ done' = {}
        /\ UNCHANGED <<registry, process, left, repeats, partial>>
    BY <1>10 DEF Mcp!Finish, Mcp!SaveRecord
  <2>2. op.server \in Servers /\ op.client \in Mcp!Clients
    BY <2>1 DEF Operation
  <2>3. ExtensionTypes'
    BY <2>1, <2>2 DEF ExtensionTypes, Mcp!NoOp
  <2>4. Operation'
    BY <2>1 DEF Operation, Mcp!NoOp
  <2>5. ASSUME NEW r \in Servers, NEW t \in Tools, registry'[r][t] # 0
        PROVE  /\ t \in Allowed
               /\ \/ registry'[r][t] = conn'[r] /\ t \in names'[r]
                  \/ <<r, registry'[r][t]>> \in partial'
    <3>1. /\ t \in Allowed
          /\ \/ registry[r][t] = conn[r] /\ t \in names[r]
             \/ op.server = r /\ registry[r][t] = op.client /\ t \in done
             \/ <<r, registry[r][t]>> \in partial
      BY <2>1, <2>5 DEF Mcp!RegistryIsBacked
    <3>2. CASE r # op.server
      BY <2>1, <2>2, <3>1, <3>2 DEF ExtensionTypes
    <3>3. CASE r = op.server
      <4>1. conn'[r] = op.client /\ names'[r] = done
        BY <2>1, <2>2, <3>3 DEF ExtensionTypes
      <4>2. conn[r] = 0 \/ (conn[r] = op.client /\ (t \in names[r] => t \in done))
        BY <2>1, <2>5, <3>3 DEF Operation
      <4> QED
        BY <2>1, <2>5, <3>1, <4>1, <4>2
    <3> QED
      BY <3>2, <3>3
  <2>6. ASSUME NEW c \in Mcp!Clients, process'[c] = "up"
        PROVE  (\E r \in Servers : conn'[r] = c) \/ (\E r \in Servers : <<r, c>> \in partial')
    <3>1. conn'[op.server] = op.client /\ \A r \in Servers \ {op.server} : conn'[r] = conn[r]
      BY <2>1, <2>2 DEF ExtensionTypes
    <3>2. conn[op.server] = 0 \/ conn[op.server] = op.client
      BY <2>1 DEF Operation
    <3>3. c # 0
      BY DEF Mcp!Clients
    <3> QED
      BY <2>1, <2>2, <2>6, <3>1, <3>2, <3>3 DEF Mcp!RegistryIsBacked
  <2>7. Mcp!RegistryIsBacked'
    BY <2>5, <2>6 DEF Mcp!RegistryIsBacked
  <2> QED
    BY <2>3, <2>4, <2>7
<1>11. CASE UNCHANGED extensions
  BY <1>11 DEF extensions, ExtensionTypes, Operation, Mcp!RegistryIsBacked
<1> QED
  BY <1>1, <1>2, <1>3, <1>4, <1>5, <1>6, <1>7, <1>8, <1>9, <1>10, <1>11
  DEF Mcp!Next, Mcp!Connect, Mcp!Restore

LEMMA ExtensionsAlways == ServicesSpec => []ExtensionsInv
<1>1. ServicesInit => ExtensionsInv
  BY ExtensionsInit DEF ServicesInit
<1>2. ExtensionsInv /\ [ServicesNext]_<<part, transport, extensions, model, evaluation,
                                        skills, evidence, history, compaction, commands>>
        => ExtensionsInv'
  BY ExtensionsStep DEF ServicesNext
<1> QED
  BY <1>1, <1>2, PTL DEF ServicesSpec

\* StdioMcpClient and McpToolAdapter: for any callers, servers, tools and
\* allowlist, no reader takes an answer that another request waits for, a
\* registered tool is allowed and backed by its server's record and client,
\* and no process runs without a connection, unless a registration was cut
\* short.
THEOREM McpSound == ServicesSpec => []McpIsSound
<1>1. TransportInv /\ ExtensionsInv => McpIsSound
  BY DEF TransportInv, ExtensionsInv, McpIsSound
<1> QED
  BY TransportAlways, ExtensionsAlways, <1>1, PTL
-----------------------------------------------------------------------------
\* Evidence.

\* One file is open at most, in the phase that writes files; it is not whole
\* and the manifest does not name it.
OpenFile ==
    /\ \A a, b \in writing : a = b
    /\ \A a \in writing : files[a] = "torn" /\ manifest[a] = "none"
    /\ writing # {} => capturePc = "write"
    /\ capturePc = "manifest" => pending = {}

\* What an observation has dealt with is on disk; what is not whole was torn
\* by a death or is being written.
FilesKnown ==
    /\ \A a \in captured \ pending : files[a] # "absent"
    /\ \A a \in Artifacts : files[a] = "torn" => a \in torn \cup writing

\* The manifest vouches for the bytes that are there, for all evidence that
\* was returned.
ManifestHolds ==
    /\ Replay!Verifies
    /\ \A a \in refs : manifest[a] # "none"

EvidenceInv == Replay!TypeOK /\ OpenFile /\ FilesKnown /\ ManifestHolds

LEMMA EvidenceInit == Replay!Init => EvidenceInv
  BY DEF Replay!Init, EvidenceInv, Replay!TypeOK, OpenFile, FilesKnown, ManifestHolds, Replay!Verifies

LEMMA EvidenceStep == EvidenceInv /\ [Replay!Next]_evidence => EvidenceInv'
<1> SUFFICES ASSUME EvidenceInv, [Replay!Next]_evidence PROVE EvidenceInv'
  OBVIOUS
<1> USE DEF EvidenceInv
<1>1. CASE Replay!Capture
  <2>1. Replay!TypeOK'
    BY <1>1 DEF Replay!Capture, Replay!TypeOK, OpenFile
  <2>2. OpenFile' /\ FilesKnown' /\ ManifestHolds'
    BY <1>1 DEF Replay!Capture, Replay!TypeOK, OpenFile, FilesKnown, ManifestHolds, Replay!Verifies
  <2> QED
    BY <2>1, <2>2
<1>2. CASE Replay!Reuse
  <2>1. Replay!TypeOK'
    BY <1>2 DEF Replay!Reuse, Replay!TypeOK
  <2>2. OpenFile' /\ FilesKnown' /\ ManifestHolds'
    BY <1>2 DEF Replay!Reuse, Replay!TypeOK, OpenFile, FilesKnown, ManifestHolds, Replay!Verifies
  <2> QED
    BY <2>1, <2>2
<1>3. CASE Replay!Open
  <2>1. PICK a \in pending : /\ files[a] = "absent" /\ writing' = {a}
                             /\ files' = [files EXCEPT ![a] = "torn"]
    BY <1>3 DEF Replay!Open
  <2>2. /\ UNCHANGED <<manifest, capturePc, pending, captured, refs, torn>>
        /\ capturePc = "write" /\ writing = {} /\ a \in Artifacts /\ manifest[a] = "none"
    BY <1>3, <2>1 DEF Replay!Open, Replay!TypeOK, ManifestHolds, Replay!Verifies
  <2>3. Replay!TypeOK'
    BY <2>1, <2>2 DEF Replay!TypeOK
  <2>4. OpenFile' /\ FilesKnown'
    BY <2>1, <2>2 DEF Replay!TypeOK, OpenFile, FilesKnown
  <2>5. ManifestHolds'
    BY <2>1, <2>2 DEF Replay!TypeOK, ManifestHolds, Replay!Verifies
  <2> QED
    BY <2>3, <2>4, <2>5
<1>4. CASE Replay!Written
  <2>1. PICK a \in writing : /\ files' = [files EXCEPT ![a] = "whole"]
                             /\ pending' = pending \ {a}
    BY <1>4 DEF Replay!Written
  <2>2. /\ UNCHANGED <<manifest, capturePc, captured, refs, torn>> /\ writing' = {}
        /\ capturePc = "write" /\ writing = {a} /\ a \in Artifacts /\ manifest[a] = "none"
    BY <1>4, <2>1 DEF Replay!Written, Replay!TypeOK, OpenFile
  <2>3. Replay!TypeOK'
    BY <2>1, <2>2 DEF Replay!TypeOK
  <2>4. OpenFile' /\ FilesKnown'
    BY <2>1, <2>2 DEF Replay!TypeOK, OpenFile, FilesKnown
  <2>5. ManifestHolds'
    BY <2>1, <2>2 DEF Replay!TypeOK, ManifestHolds, Replay!Verifies
  <2> QED
    BY <2>3, <2>4, <2>5
<1>5. CASE Replay!Compose
  BY <1>5 DEF Replay!Compose, Replay!TypeOK, OpenFile, FilesKnown, ManifestHolds, Replay!Verifies
<1>6. CASE Replay!UpdateManifest
  <2>1. /\ pending = {} /\ writing = {} /\ \A a \in captured : files[a] \in {"whole", "torn"}
        /\ manifest' = [a \in Artifacts |-> IF a \in captured THEN files[a] ELSE manifest[a]]
        /\ refs' = refs \cup captured /\ captured' = {} /\ capturePc' = "idle"
        /\ UNCHANGED <<files, pending, writing, torn>>
    BY <1>6 DEF Replay!UpdateManifest, Replay!TypeOK, OpenFile, FilesKnown
  <2>2. Replay!TypeOK'
    BY <2>1 DEF Replay!TypeOK
  <2>3. OpenFile' /\ FilesKnown'
    BY <2>1 DEF Replay!TypeOK, OpenFile, FilesKnown
  <2>4. ManifestHolds'
    BY <2>1 DEF Replay!TypeOK, ManifestHolds, Replay!Verifies
  <2> QED
    BY <2>2, <2>3, <2>4
<1>7. CASE Replay!Die
  BY <1>7 DEF Replay!Die, Replay!TypeOK, OpenFile, FilesKnown, ManifestHolds, Replay!Verifies
<1>8. CASE Replay!Load
  BY <1>8 DEF Replay!Load, Replay!TypeOK, OpenFile, FilesKnown, ManifestHolds, Replay!Verifies
<1>9. CASE UNCHANGED evidence
  BY <1>9 DEF evidence, Replay!TypeOK, OpenFile, FilesKnown, ManifestHolds, Replay!Verifies
<1> QED
  BY <1>1, <1>2, <1>3, <1>4, <1>5, <1>6, <1>7, <1>8, <1>9 DEF Replay!Next

LEMMA EvidenceAlways == ServicesSpec => []EvidenceInv
<1>1. ServicesInit => EvidenceInv
  BY EvidenceInit DEF ServicesInit
<1>2. EvidenceInv /\ [ServicesNext]_<<part, transport, extensions, model, evaluation,
                                      skills, evidence, history, compaction, commands>>
        => EvidenceInv'
  BY EvidenceStep DEF ServicesNext
<1> QED
  BY <1>1, <1>2, PTL DEF ServicesSpec

\* capture_observation and verify_evidence: for any artifacts and at every point
\* where a run may be cut off, the session still loads, the manifest names all
\* returned evidence, and a file of it is whole unless a death tore it.
THEOREM EvidenceSafe == ServicesSpec => []EvidenceHolds
<1>1. EvidenceInv => EvidenceHolds
  BY DEF EvidenceInv, Replay!TypeOK, OpenFile, FilesKnown, ManifestHolds, Replay!Verifies,
         EvidenceHolds, Replay!EvidenceHolds
<1> QED
  BY EvidenceAlways, <1>1, PTL
-----------------------------------------------------------------------------
\* Compaction: the loop.

\* The loop of compact_if_needed over the events it compacts, one at a time.
Loop(f, s, n) ==
    IF n = 0 THEN <<>>
    ELSE IF s[n] \in Important THEN Append(f[n - 1], s[n]) ELSE f[n - 1]

LEMMA LoopExists ==
    ASSUME NEW s, NEW N \in Nat
    PROVE  \E f : f = [n \in 0..N |-> Loop(f, s, n)]
<1> DEFINE Is(f, m) == f = [n \in 0..m |-> Loop(f, s, n)]
           T == {m \in Nat : \E f : Is(f, m)}
<1>1. 0 \in T
  <2> DEFINE f == [n \in 0..0 |-> <<>>]
  <2>1. \A n \in 0..0 : Loop(f, s, n) = <<>>
    BY DEF Loop
  <2>2. Is(f, 0)
    BY <2>1
  <2> QED
    BY <2>2
<1>2. ASSUME NEW m \in T PROVE m + 1 \in T
  <2>1. PICK f : Is(f, m)
    OBVIOUS
  <2>2. m \in Nat /\ m + 1 \in Nat
    OBVIOUS
  <2> DEFINE g == [n \in 0..(m + 1) |-> IF n = m + 1 THEN Loop(f, s, n) ELSE f[n]]
  <2>3. ASSUME NEW n \in 0..(m + 1) PROVE g[n] = Loop(g, s, n)
    <3>1. CASE n = 0
      BY <2>1, <2>2, <3>1 DEF Loop
    <3>2. CASE n # 0
      <4>1. n - 1 \in 0..m /\ n - 1 \in 0..(m + 1) /\ n - 1 # m + 1
        BY <2>2, <3>2
      <4>2. g[n - 1] = f[n - 1]
        BY <4>1
      <4>3. Loop(g, s, n) = Loop(f, s, n)
        BY <3>2, <4>2 DEF Loop
      <4>4. n # m + 1 => n \in 0..m
        BY <2>2
      <4>5. g[n] = Loop(f, s, n)
        BY <2>1, <4>4
      <4> QED
        BY <4>3, <4>5
    <3> QED
      BY <3>1, <3>2
  <2>4. g = [n \in 0..(m + 1) |-> g[n]]
    OBVIOUS
  <2> HIDE DEF g
  <2>5. Is(g, m + 1)
    BY <2>3, <2>4
  <2> HIDE DEF Is
  <2> QED
    BY <2>2, <2>5
<1>3. N \in T
  <2>1. T \in SUBSET Nat
    OBVIOUS
  <2> HIDE DEF T
  <2> QED
    BY <1>1, <1>2, <2>1, AllNumbers
<1> QED
  BY <1>3

LEMMA LoopUnfolds ==
    ASSUME NEW s, Len(s) \in Nat
    PROVE  \E f : Prompts!Collected(s) = f[Len(s)] /\ f = [n \in 0..Len(s) |-> Loop(f, s, n)]
<1> DEFINE F == CHOOSE f : f = [n \in 0..Len(s) |-> Loop(f, s, n)]
<1>1. Prompts!Collected(s) = F[Len(s)]
  BY DEF Prompts!Collected, Prompts!Matters, Loop
<1>2. F = [n \in 0..Len(s) |-> Loop(F, s, n)]
  BY LoopExists, Zenon
<1> HIDE DEF F
<1> QED
  BY <1>1, <1>2

\* c has the important ones of the first n numbers of s, in order.
Selects(c, s, n) ==
    /\ c \in Seq(Nat)
    /\ \A i \in 1..Len(c) : c[i] \in Important /\ \E k \in 1..n : s[k] = c[i]
    /\ \A k \in 1..n : s[k] \in Important => \E i \in 1..Len(c) : c[i] = s[k]
    /\ \A i, j \in 1..Len(c) : i < j => c[i] < c[j]

LEMMA SelectsMore ==
    ASSUME NEW s \in Seq(Nat), \A i, j \in 1..Len(s) : i < j => s[i] < s[j],
           NEW n \in Nat, n + 1 <= Len(s), NEW c, Selects(c, s, n), s[n + 1] \in Important
    PROVE  Selects(Append(c, s[n + 1]), s, n + 1)
<1> DEFINE e == s[n + 1]
           d == Append(c, e)
<1>1. n + 1 \in 1..Len(s) /\ 1..n \subseteq 1..Len(s) /\ e \in Nat /\ Len(s) \in Nat
  OBVIOUS
<1>2. \A k \in 1..n : s[k] < e
  BY <1>1
<1> HIDE DEF e
<1>3. c \in Seq(Nat) /\ Len(c) \in Nat /\ d \in Seq(Nat) /\ Len(d) = Len(c) + 1 /\ d[Len(c) + 1] = e
  BY <1>1 DEF Selects
<1>4. \A i \in 1..Len(c) : d[i] = c[i] /\ d[i] \in Nat
  BY <1>1, <1>3
<1> HIDE DEF d
<1>5. \A i \in 1..Len(d) : i \in 1..Len(c) \/ i = Len(c) + 1
  BY <1>3
<1>6. ASSUME NEW i \in 1..Len(d) PROVE d[i] \in Important /\ \E k \in 1..(n + 1) : s[k] = d[i]
  <2>1. CASE i \in 1..Len(c)
    <3>1. PICK k \in 1..n : s[k] = c[i]
      BY <2>1 DEF Selects
    <3>2. k \in 1..(n + 1)
      OBVIOUS
    <3> QED
      BY <1>4, <2>1, <3>1, <3>2 DEF Selects
  <2>2. CASE i = Len(c) + 1
    <3>1. n + 1 \in 1..(n + 1)
      OBVIOUS
    <3> QED
      BY <1>3, <2>2, <3>1 DEF e
  <2> QED
    BY <1>5, <2>1, <2>2
<1>7. ASSUME NEW k \in 1..(n + 1), s[k] \in Important PROVE \E i \in 1..Len(d) : d[i] = s[k]
  <2>1. CASE k \in 1..n
    <3>1. PICK i \in 1..Len(c) : c[i] = s[k]
      BY <1>7, <2>1 DEF Selects
    <3>2. i \in 1..Len(d)
      BY <1>3
    <3> QED
      BY <1>4, <3>1, <3>2
  <2>2. CASE k = n + 1
    <3>1. Len(c) + 1 \in 1..Len(d)
      BY <1>3
    <3> QED
      BY <1>3, <2>2, <3>1 DEF e
  <2> QED
    BY <2>1, <2>2
<1>8. ASSUME NEW i \in 1..Len(d), NEW j \in 1..Len(d), i < j PROVE d[i] < d[j]
  <2>1. i \in 1..Len(c)
    BY <1>3, <1>8
  <2>2. CASE j \in 1..Len(c)
    BY <1>4, <1>8, <2>1, <2>2 DEF Selects
  <2>3. CASE j = Len(c) + 1
    <3>1. PICK k \in 1..n : s[k] = c[i]
      BY <2>1 DEF Selects
    <3> QED
      BY <1>2, <1>3, <1>4, <2>1, <2>3, <3>1
  <2> QED
    BY <1>5, <2>2, <2>3
<1>9. Selects(d, s, n + 1)
  BY <1>3, <1>6, <1>7, <1>8 DEF Selects
<1> QED
  BY <1>9 DEF d, e

LEMMA SelectsNoMore ==
    ASSUME NEW s \in Seq(Nat), NEW n \in Nat, n + 1 <= Len(s), NEW c, Selects(c, s, n),
           s[n + 1] \notin Important
    PROVE  Selects(c, s, n + 1)
<1>1. 1..n \subseteq 1..(n + 1) /\ \A k \in 1..(n + 1) : k \in 1..n \/ k = n + 1
  OBVIOUS
<1> QED
  BY <1>1 DEF Selects

\* The loop collects what matters, in order and once each.
LEMMA CollectedSelects ==
    ASSUME NEW s \in Seq(Nat), \A i, j \in 1..Len(s) : i < j => s[i] < s[j]
    PROVE  Selects(Prompts!Collected(s), s, Len(s))
<1>1. Len(s) \in Nat
  OBVIOUS
<1>2. PICK f : Prompts!Collected(s) = f[Len(s)] /\ f = [n \in 0..Len(s) |-> Loop(f, s, n)]
  BY <1>1, LoopUnfolds
<1>3. \A n \in 0..Len(s) : f[n] = Loop(f, s, n)
  BY <1>2
<1> DEFINE T == {n \in Nat : n <= Len(s) => Selects(f[n], s, n)}
<1>4. 0 \in T
  <2>1. f[0] = <<>>
    BY <1>1, <1>3 DEF Loop
  <2>2. Selects(<<>>, s, 0)
    BY DEF Selects
  <2> QED
    BY <2>1, <2>2
<1>5. ASSUME NEW n \in T PROVE n + 1 \in T
  <2> SUFFICES ASSUME n + 1 <= Len(s) PROVE Selects(f[n + 1], s, n + 1)
    OBVIOUS
  <2>1. n \in Nat /\ Selects(f[n], s, n)
    BY <1>1
  <2>2. f[n + 1] = IF s[n + 1] \in Important THEN Append(f[n], s[n + 1]) ELSE f[n]
    <3>1. n + 1 \in 0..Len(s) /\ n + 1 # 0 /\ (n + 1) - 1 = n
      BY <1>1, <2>1
    <3> QED
      BY <1>3, <3>1 DEF Loop
  <2>3. CASE s[n + 1] \in Important
    BY <2>1, <2>2, <2>3, SelectsMore
  <2>4. CASE s[n + 1] \notin Important
    BY <2>1, <2>2, <2>4, SelectsNoMore
  <2> QED
    BY <2>3, <2>4
<1>6. Len(s) \in T
  <2>1. T \in SUBSET Nat
    OBVIOUS
  <2> HIDE DEF T
  <2> QED
    BY <1>1, <1>4, <1>5, <2>1, AllNumbers
<1> QED
  BY <1>1, <1>2, <1>6
-----------------------------------------------------------------------------
\* Compaction: the invariant.

\* Of l events, e has the protected head and, after a gap, the newest ones.
HeadAndTail(e, l) ==
    /\ e \in Seq(Nat) /\ Len(e) <= l
    /\ \A i \in 1..Len(e) : e[i] = IF i <= HeadKept THEN i ELSE i + (l - Len(e))
    /\ Len(e) = l \/ Len(e) >= HeadKept + TailKept

EventsForm == last \in 0..MaxEvents /\ HeadAndTail(events, last)

\* If a smaller number follows one of the sequence, that one comes again.
Recurs(s) == \A i, j \in 1..Len(s) :
    i < j /\ s[i] > s[j] => \E k \in 1..Len(s) : k > j /\ s[k] = s[i]

\* Outcomes are of events that were compacted away once.
Outlived(s) ==
    /\ s \in Seq(Nat) /\ Len(s) <= OutcomesKept
    /\ \A i \in 1..Len(s) :
         s[i] \in Important /\ s[i] > HeadKept /\ s[i] + TailKept <= last
    /\ Recurs(s)

\* What is neither an event nor an outcome gave way to newer outcomes.
Displaced == \A n \in Important \cap (1..last) :
    \/ \E i \in 1..Len(events) : events[i] = n
    \/ \E i \in 1..Len(outcomes) : outcomes[i] = n
    \/ Len(outcomes) = OutcomesKept /\ \A i \in 1..Len(outcomes) : outcomes[i] > n

CompactionInv == EventsForm /\ Outlived(outcomes) /\ Outlived(snapshot.outcomes) /\ Displaced

\* The newest part of a sequence.
LEMMA NewestFacts ==
    ASSUME NEW s \in Seq(Nat), NEW n \in Nat
    PROVE  /\ Prompts!Newest(s, n) \in Seq(Nat)
           /\ Len(Prompts!Newest(s, n)) = Prompts!Least(n, Len(s))
           /\ \A i \in 1..Prompts!Least(n, Len(s)) :
                Prompts!Newest(s, n)[i] = s[i + Len(s) - Prompts!Least(n, Len(s))]
<1> DEFINE m == Prompts!Least(n, Len(s))
<1>1. Len(s) \in Nat /\ m \in 0..Len(s)
  BY DEF Prompts!Least
<1>2. Prompts!Newest(s, n) = SubSeq(s, Len(s) - m + 1, Len(s))
  BY DEF Prompts!Newest
<1> HIDE DEF m
<1>3. /\ SubSeq(s, Len(s) - m + 1, Len(s)) \in Seq(Nat)
      /\ Len(SubSeq(s, Len(s) - m + 1, Len(s))) = m
  BY <1>1
<1>4. ASSUME NEW i \in 1..m PROVE SubSeq(s, Len(s) - m + 1, Len(s))[i] = s[i + Len(s) - m]
  BY <1>1
<1> QED
  BY <1>2, <1>3, <1>4 DEF m

LEMMA JoinFacts ==
    ASSUME NEW s \in Seq(Nat), NEW t \in Seq(Nat)
    PROVE  /\ s \o t \in Seq(Nat) /\ Len(s \o t) = Len(s) + Len(t)
           /\ \A i \in 1..Len(s) : (s \o t)[i] = s[i]
           /\ \A i \in 1..Len(t) : (s \o t)[i + Len(s)] = t[i]
  OBVIOUS

LEMMA CutFacts ==
    ASSUME NEW s \in Seq(Nat), NEW m \in 1..Len(s), NEW n \in 1..Len(s), m <= n
    PROVE  /\ SubSeq(s, m, n) \in Seq(Nat) /\ Len(SubSeq(s, m, n)) = n - m + 1
           /\ \A i \in 1..(n - m + 1) : SubSeq(s, m, n)[i] = s[i + m - 1]
  OBVIOUS

\* A number that truncation removes altogether is smaller than all that stay.
LEMMA Truncated ==
    ASSUME NEW s \in Seq(Nat), Recurs(s), NEW n \in Nat, NEW p \in 1..Len(s),
           \A i \in 1..Len(Prompts!Newest(s, n)) : Prompts!Newest(s, n)[i] # s[p]
    PROVE  /\ Len(Prompts!Newest(s, n)) = n
           /\ \A i \in 1..n : Prompts!Newest(s, n)[i] > s[p]
<1> DEFINE r == Prompts!Newest(s, n)
           m == Prompts!Least(n, Len(s))
<1>1. /\ r \in Seq(Nat) /\ Len(r) = m /\ \A i \in 1..m : r[i] = s[i + Len(s) - m]
      /\ \A i \in 1..Len(r) : r[i] # s[p]
  BY NewestFacts
<1>2. Len(s) \in Nat /\ m \in Nat /\ m <= Len(s) /\ (m = n \/ m = Len(s))
  BY DEF Prompts!Least
<1> HIDE DEF r, m
<1>3. \A q \in 1..Len(s) : s[q] = s[p] => q <= Len(s) - m
  <2> SUFFICES ASSUME NEW q \in 1..Len(s), s[q] = s[p], ~(q <= Len(s) - m) PROVE FALSE
    OBVIOUS
  <2> DEFINE i == q - (Len(s) - m)
  <2>1. i \in 1..m /\ i + Len(s) - m = q
    BY <1>2
  <2> HIDE DEF i
  <2>2. r[i] = s[q]
    BY <1>1, <2>1
  <2> QED
    BY <1>1, <2>1, <2>2
<1>4. p <= Len(s) - m /\ m = n
  BY <1>2, <1>3
<1>5. ASSUME NEW i \in 1..n PROVE r[i] > s[p]
  <2> DEFINE q == i + Len(s) - m
  <2>1. q \in 1..Len(s) /\ q > Len(s) - m /\ p < q
    BY <1>2, <1>4
  <2>2. r[i] = s[q] /\ i \in 1..m
    BY <1>1, <1>4
  <2> HIDE DEF q
  <2>3. s[q] # s[p] /\ s[q] \in Nat /\ s[p] \in Nat
    BY <1>1, <2>1, <2>2, SMTT(30)
  <2>4. ~(s[p] > s[q])
    <3> SUFFICES ASSUME s[p] > s[q] PROVE FALSE
      OBVIOUS
    <3>1. PICK k \in 1..Len(s) : k > q /\ s[k] = s[p]
      BY <2>1 DEF Recurs
    <3>2. k <= Len(s) - m
      BY <1>3, <3>1
    <3> QED
      BY <1>2, <2>1, <3>1, <3>2, SMTT(30)
  <2> QED
    BY <2>2, <2>3, <2>4
<1> QED
  BY <1>1, <1>4, <1>5 DEF r

\* The place in the newest m of l entries of the one at place q.
LEMMA NewestPlace ==
    ASSUME NEW l \in Nat, NEW m \in Nat, m <= l, NEW j \in 1..m, NEW q \in 1..l,
           q > j + l - m
    PROVE  /\ q - (l - m) \in 1..m /\ q - (l - m) > j
           /\ q - (l - m) + l - m = q
  OBVIOUS

LEMMA RecursNewest ==
    ASSUME NEW s \in Seq(Nat), Recurs(s), NEW n \in Nat
    PROVE  Recurs(Prompts!Newest(s, n))
<1> DEFINE r == Prompts!Newest(s, n)
           m == Prompts!Least(n, Len(s))
<1>1. r \in Seq(Nat) /\ Len(r) = m /\ \A i \in 1..m : r[i] = s[i + Len(s) - m]
  BY NewestFacts
<1>2. Len(s) \in Nat /\ m \in Nat /\ m <= Len(s)
  BY DEF Prompts!Least
<1> HIDE DEF r, m
<1> SUFFICES ASSUME NEW i \in 1..Len(r), NEW j \in 1..Len(r), i < j, r[i] > r[j]
             PROVE  \E k \in 1..Len(r) : k > j /\ r[k] = r[i]
  BY DEF Recurs, r
<1>a. i \in 1..m /\ j \in 1..m
  BY <1>1
<1>3. i + Len(s) - m \in 1..Len(s) /\ j + Len(s) - m \in 1..Len(s) /\ i + Len(s) - m < j + Len(s) - m
  BY <1>2, <1>a
<1>4. s[i + Len(s) - m] > s[j + Len(s) - m]
  BY <1>1, <1>a
<1>5. PICK q \in 1..Len(s) : q > j + Len(s) - m /\ s[q] = s[i + Len(s) - m]
  BY <1>3, <1>4 DEF Recurs
<1> DEFINE k == q - (Len(s) - m)
<1>6. k \in 1..m /\ k > j /\ k + Len(s) - m = q
  BY <1>2, <1>5, <1>a, NewestPlace
<1> HIDE DEF k
<1>7. r[k] = r[i]
  BY <1>1, <1>5, <1>6, <1>a
<1> QED
  BY <1>1, <1>6, <1>7

LEMMA CompactionInit == Prompts!Init => CompactionInv
<1> SUFFICES ASSUME Prompts!Init PROVE CompactionInv
  OBVIOUS
<1>1. last = 0 /\ events = <<>> /\ outcomes = <<>> /\ snapshot.outcomes = <<>>
  BY DEF Prompts!Init
<1>2. EventsForm
  BY <1>1, CountsAssumption DEF EventsForm, HeadAndTail
<1>3. Outlived(outcomes) /\ Outlived(snapshot.outcomes)
  BY <1>1, CountsAssumption DEF Outlived, Recurs
<1> QED
  BY <1>1, <1>2, <1>3 DEF CompactionInv, Displaced

\* Which events there are: all but those of the gap, whose size is the
\* difference of the counts.
LEMMA EventsThere ==
    ASSUME NEW l \in Nat, NEW e, HeadAndTail(e, l), NEW n \in 1..l,
           n <= HeadKept \/ n > HeadKept + (l - Len(e))
    PROVE  \E i \in 1..Len(e) : e[i] = n
<1>1. /\ Len(e) \in Nat /\ Len(e) <= l /\ HeadKept \in Nat /\ TailKept \in Nat
      /\ Len(e) = l \/ Len(e) >= HeadKept + TailKept
      /\ \A i \in 1..Len(e) : e[i] = IF i <= HeadKept THEN i ELSE i + (l - Len(e))
  BY CountsAssumption DEF HeadAndTail
<1>2. CASE n <= HeadKept
  <2>1. n \in 1..Len(e)
    BY <1>1, <1>2
  <2>2. e[n] = n
    BY <1>1, <1>2, <2>1
  <2> QED
    BY <2>1, <2>2
<1>3. CASE n > HeadKept + (l - Len(e))
  <2> DEFINE i == n - (l - Len(e))
  <2>1. i \in 1..Len(e) /\ i > HeadKept /\ i + (l - Len(e)) = n
    BY <1>1, <1>3
  <2> HIDE DEF i
  <2>2. ~(i <= HeadKept)
    BY <1>1, <2>1
  <2>3. e[i] = i + (l - Len(e))
    BY <1>1, <2>1, <2>2
  <2> QED
    BY <2>1, <2>3
<1> QED
  BY <1>2, <1>3

\* What a compaction leaves, and what it takes out.
LEMMA CompactEvents ==
    ASSUME EventsForm, NEW new,
           new = SubSeq(events, 1, Prompts!HeadLen) \o Prompts!Newest(events, TailKept)
    PROVE  /\ HeadAndTail(new, last) /\ Len(new) <= Len(events)
           /\ Len(new) <= HeadKept + TailKept
           /\ Prompts!Old \in Seq(Nat)
           /\ Len(Prompts!Old) = Len(events) - Len(new)
           /\ \A k \in 1..Len(Prompts!Old) :
                Prompts!Old[k] = HeadKept + k + (last - Len(events))
           /\ Len(Prompts!Old) > 0 => Len(new) = HeadKept + TailKept
<1> DEFINE L == Len(events)
           t == Prompts!Least(TailKept, L)
           h == Prompts!HeadLen
           head == SubSeq(events, 1, h)
           tail == Prompts!Newest(events, TailKept)
<1>1. /\ last \in Nat /\ L \in Nat /\ L <= last /\ HeadKept \in Nat /\ TailKept \in Nat
      /\ L = last \/ L >= HeadKept + TailKept
  BY CountsAssumption DEF EventsForm, HeadAndTail
<1>2. events \in Seq(Nat) /\ \A i \in 1..L : events[i] = IF i <= HeadKept THEN i ELSE i + (last - L)
  BY DEF EventsForm, HeadAndTail
<1>3. /\ t = IF TailKept < L THEN TailKept ELSE L
      /\ h = IF HeadKept < L - t THEN HeadKept ELSE L - t
  BY DEF Prompts!Least, Prompts!HeadLen
<1>4. Prompts!Old = IF L > h + TailKept THEN SubSeq(events, h + 1, L - TailKept) ELSE <<>>
  BY DEF Prompts!Old
<1>5. tail \in Seq(Nat) /\ Len(tail) = t /\ \A i \in 1..t : tail[i] = events[i + L - t]
  BY <1>1, <1>2, NewestFacts
<1>6. new = head \o tail
  OBVIOUS
<1> HIDE DEF t, h, tail
<1>7. t \in 0..L /\ h \in 0..(L - t) /\ h <= HeadKept /\ h \in Nat /\ t \in Nat
  BY <1>1, <1>3
<1>8. head \in Seq(Nat) /\ Len(head) = h /\ \A i \in 1..h : head[i] = events[i]
  <2>1. h \in Nat /\ h <= Len(events)
    BY <1>1, <1>7
  <2> QED BY <1>2, <2>1, SMTT(30)
<1> HIDE DEF L, head
<1>9. /\ new \in Seq(Nat) /\ Len(new) = h + t
      /\ \A i \in 1..h : new[i] = events[i]
      /\ \A i \in 1..t : new[i + h] = events[i + L - t]
  <2>1. head \in Seq(Nat) /\ tail \in Seq(Nat)
    BY <1>5, <1>8
  <2>2. /\ head \o tail \in Seq(Nat) /\ Len(head \o tail) = Len(head) + Len(tail)
        /\ \A i \in 1..Len(head) : (head \o tail)[i] = head[i]
        /\ \A i \in 1..Len(tail) : (head \o tail)[i + Len(head)] = tail[i]
    BY ONLY <2>1, JoinFacts
  <2> QED
    BY <1>5, <1>6, <1>8, <2>2
<1>10. ASSUME NEW i \in 1..(h + t), i > h PROVE new[i] = events[i - h + L - t]
  <2>1. i - h \in 1..t /\ (i - h) + h = i
    BY <1>7, <1>10
  <2> QED
    BY <1>9, <2>1
<1>11. CASE L > h + TailKept
  <2>1. h = HeadKept /\ t = TailKept
    BY <1>1, <1>3, <1>7, <1>11
  <2>2. Len(new) = HeadKept + TailKept /\ Len(new) < L
    BY <1>9, <1>11, <2>1
  <2>3. ASSUME NEW i \in 1..Len(new)
        PROVE  new[i] = IF i <= HeadKept THEN i ELSE i + (last - Len(new))
    <3>1. CASE i <= HeadKept
      <4>1. i \in 1..h /\ i \in 1..L
        BY ONLY <1>1, <2>1, <2>2, <3>1
      <4>2. new[i] = i
        BY <1>2, <1>9, <3>1, <4>1
      <4> QED
        BY <3>1, <4>2
    <3>2. CASE ~(i <= HeadKept)
      <4> DEFINE j == i - h + L - t
      <4>1. i \in 1..(h + t) /\ i > h
        BY ONLY <1>1, <2>1, <2>2, <3>2
      <4>2. new[i] = events[j]
        BY <1>10, <4>1
      <4>3. j \in 1..L /\ ~(j <= HeadKept) /\ j + (last - L) = i + (last - (HeadKept + TailKept))
        BY <1>1, <1>11, <2>1, <4>1
      <4> HIDE DEF j
      <4>4. events[j] = j + (last - L)
        BY <1>2, <4>3
      <4>5. new[i] = i + (last - Len(new))
        BY <2>2, <4>2, <4>3, <4>4
      <4> QED
        BY <3>2, <4>5
    <3> QED
      BY <3>1, <3>2
  <2>4. Prompts!Old = SubSeq(events, h + 1, L - TailKept)
    BY <1>4, <1>11
  <2>5. h + 1 \in 1..L /\ L - TailKept \in 1..L /\ h + 1 <= L - TailKept /\ L - TailKept - h \in Nat
    BY <1>1, <1>11, <2>1
  <2>6. /\ Prompts!Old \in Seq(Nat) /\ Len(Prompts!Old) = L - TailKept - h
        /\ \A k \in 1..(L - TailKept - h) : Prompts!Old[k] = events[k + h]
    <3>1. (L - TailKept) - (h + 1) + 1 = L - TailKept - h
      BY <1>1, <1>7
    <3>2. /\ Prompts!Old \in Seq(Nat) /\ Len(Prompts!Old) = (L - TailKept) - (h + 1) + 1
          /\ \A k \in 1..((L - TailKept) - (h + 1) + 1) : Prompts!Old[k] = events[k + (h + 1) - 1]
      BY <1>2, <2>4, <2>5, CutFacts DEF L
    <3>3. \A k \in 1..(L - TailKept - h) : k + (h + 1) - 1 = k + h
      BY <1>7
    <3> QED
      BY <3>1, <3>2, <3>3
  <2>7. ASSUME NEW k \in 1..(L - TailKept - h) PROVE Prompts!Old[k] = HeadKept + k + (last - L)
    <3>1. k + h \in 1..L /\ ~(k + h <= HeadKept) /\ k + h + (last - L) = HeadKept + k + (last - L)
      BY <1>1, <2>1, <2>5
    <3>2. events[k + h] = k + h + (last - L)
      BY <1>2, <3>1
    <3> QED
      BY <2>6, <3>1, <3>2
  <2>8. Len(Prompts!Old) = L - Len(new)
    BY ONLY <1>1, <2>1, <2>2, <2>6
  <2>9. Len(new) >= HeadKept + TailKept /\ Len(new) <= L /\ Len(new) <= last
    BY ONLY <1>1, <2>2
  <2>10. HeadAndTail(new, last)
    BY ONLY <1>9, <2>3, <2>9 DEF HeadAndTail
  <2>11. Len(new) <= HeadKept + TailKept
    BY ONLY <1>1, <2>2
  <2> QED
    BY <2>2, <2>6, <2>7, <2>8, <2>9, <2>10, <2>11 DEF L
<1>12. CASE ~(L > h + TailKept)
  <2>1. h + t = L /\ Prompts!Old = <<>>
    BY <1>1, <1>3, <1>4, <1>7, <1>12
  <2>2. ASSUME NEW i \in 1..L PROVE new[i] = events[i]
    <3>1. CASE i <= h
      <4>1. i \in 1..h
        BY <1>7, <3>1
      <4> QED
        BY <1>9, <4>1
    <3>2. CASE ~(i <= h)
      <4>1. i \in 1..(h + t) /\ i > h /\ i - h + L - t = i
        BY <1>1, <1>7, <2>1, <3>2
      <4>2. new[i] = events[i - h + L - t]
        BY <1>10, <4>1
      <4> QED
        BY <4>1, <4>2
    <3> QED
      BY <3>1, <3>2
  <2>3. Len(new) = L
    BY <1>9, <2>1
  <2>4. Prompts!Old \in Seq(Nat) /\ Len(Prompts!Old) = 0
    BY <2>1
  <2>5. L - Len(new) = 0 /\ 1..Len(Prompts!Old) = {} /\ Len(new) <= L
    BY ONLY <1>1, <2>3, <2>4
  <2>6. \A i \in 1..Len(new) : new[i] = IF i <= HeadKept THEN i ELSE i + (last - Len(new))
    BY <1>2, <2>2, <2>3
  <2>7. /\ Len(new) = last \/ Len(new) >= HeadKept + TailKept
        /\ Len(new) <= last /\ Len(new) <= HeadKept + TailKept
    <3>1. t <= TailKept
      BY <1>1, <1>3
    <3> QED
      BY ONLY <1>1, <1>7, <2>1, <2>3, <3>1
  <2>8. ~(Len(Prompts!Old) > 0)
    BY <2>4
  <2>9. HeadAndTail(new, last)
    BY ONLY <1>9, <2>6, <2>7 DEF HeadAndTail
  <2> QED
    BY <2>4, <2>5, <2>7, <2>8, <2>9 DEF L
<1> QED
  BY <1>11, <1>12

\* What the loop collects of the events that a compaction takes out.
LEMMA CompactCollects ==
    ASSUME EventsForm, NEW new,
           new = SubSeq(events, 1, Prompts!HeadLen) \o Prompts!Newest(events, TailKept),
           NEW c, c = Prompts!Collected(Prompts!Old)
    PROVE  /\ c \in Seq(Nat)
           /\ \A i \in 1..Len(c) :
                /\ c[i] \in Important /\ c[i] > HeadKept /\ c[i] + TailKept <= last
                /\ c[i] > HeadKept + (last - Len(events))
           /\ \A n \in Important \cap Nat :
                n > HeadKept + (last - Len(events)) /\ n + TailKept <= last =>
                    \E i \in 1..Len(c) : c[i] = n
           /\ \A i, j \in 1..Len(c) : i < j => c[i] < c[j]
<1> DEFINE old == Prompts!Old
           L == Len(events)
           M == Len(new)
           gap == last - L
<1>1. /\ last \in Nat /\ L \in Nat /\ L <= last /\ HeadKept \in Nat /\ TailKept \in Nat
  BY CountsAssumption DEF EventsForm, HeadAndTail
<1>2. /\ M <= L /\ M <= HeadKept + TailKept /\ M \in Nat
      /\ old \in Seq(Nat) /\ Len(old) = L - M
      /\ \A k \in 1..Len(old) : old[k] = HeadKept + k + (last - L)
      /\ Len(old) > 0 => M = HeadKept + TailKept
  <2>1. /\ HeadAndTail(new, last) /\ Len(new) <= Len(events)
        /\ Len(new) <= HeadKept + TailKept
        /\ Prompts!Old \in Seq(Nat)
        /\ Len(Prompts!Old) = Len(events) - Len(new)
        /\ \A k \in 1..Len(Prompts!Old) :
             Prompts!Old[k] = HeadKept + k + (last - Len(events))
        /\ Len(Prompts!Old) > 0 => Len(new) = HeadKept + TailKept
    BY CompactEvents, Zenon
  <2>2. Len(new) \in Nat
    BY ONLY <2>1 DEF HeadAndTail
  <2> QED
    BY ONLY <2>1, <2>2
<1> HIDE DEF old, L, M
<1>3. \A k \in 1..Len(old) : old[k] = HeadKept + k + gap
  BY <1>2
<1>4. gap \in Nat
  BY ONLY <1>1
<1>5. last = L + gap
  BY ONLY <1>1
<1> HIDE DEF gap
<1>6. \A i, j \in 1..Len(old) : i < j => old[i] < old[j]
  BY ONLY <1>1, <1>3, <1>4
<1>7. Selects(c, old, Len(old))
  BY <1>2, <1>6, CollectedSelects DEF old
<1>8. ASSUME NEW i \in 1..Len(c)
      PROVE  /\ c[i] \in Important /\ c[i] > HeadKept /\ c[i] + TailKept <= last
             /\ c[i] > HeadKept + gap
  <2>1. PICK k \in 1..Len(old) : old[k] = c[i]
    BY ONLY <1>7 DEF Selects
  <2>2. c[i] \in Important /\ c[i] = HeadKept + k + gap
    BY ONLY <1>3, <1>7, <2>1 DEF Selects
  <2>3. k \in 1..(L - M) /\ Len(old) > 0
    BY ONLY <1>2, <2>1
  <2>4. k <= L - (HeadKept + TailKept) /\ k >= 1 /\ k \in Nat
    BY ONLY <1>1, <1>2, <2>3
  <2> QED
    BY ONLY <1>1, <1>4, <1>5, <2>2, <2>4
<1>9. ASSUME NEW n \in Important \cap Nat, n > HeadKept + gap, n + TailKept <= last
      PROVE  \E i \in 1..Len(c) : c[i] = n
  <2> DEFINE k == n - (HeadKept + gap)
  <2>1. k \in 1..(L - (HeadKept + TailKept)) /\ HeadKept + k + gap = n
    BY ONLY <1>1, <1>4, <1>5, <1>9
  <2> HIDE DEF k
  <2>2. k \in 1..Len(old)
    BY ONLY <1>1, <1>2, <2>1
  <2>3. old[k] = n
    BY ONLY <1>3, <2>1, <2>2
  <2> QED
    BY ONLY <1>7, <1>9, <2>2, <2>3 DEF Selects
<1> QED
  BY ONLY <1>7, <1>8, <1>9 DEF Selects, gap, L

\* A compaction appends to the outcomes those it takes out of the events; one
\* that follows a newer one is taken out, and so appended, once more.
LEMMA JoinRecurs ==
    ASSUME NEW s \in Seq(Nat), NEW c \in Seq(Nat), Recurs(s),
           \A i, j \in 1..Len(c) : i < j => c[i] < c[j],
           \A i \in 1..Len(s), j \in 1..Len(c) :
              s[i] > c[j] => \E k \in 1..Len(c) : c[k] = s[i]
    PROVE  Recurs(s \o c)
<1> DEFINE C == s \o c
           a == Len(s)
           b == Len(c)
<1>1. /\ C \in Seq(Nat) /\ Len(C) = a + b /\ a \in Nat /\ b \in Nat
      /\ \A i \in 1..a : C[i] = s[i]
      /\ \A i \in 1..b : C[i + a] = c[i]
  BY JoinFacts
<1>2. /\ \A i \in 1..a : s[i] \in Nat
      /\ \A i \in 1..b : c[i] \in Nat
  OBVIOUS
<1>3. \A i, j \in 1..a : i < j /\ s[i] > s[j] => \E k \in 1..a : k > j /\ s[k] = s[i]
  BY DEF Recurs
<1>4. /\ \A i, j \in 1..b : i < j => c[i] < c[j]
      /\ \A i \in 1..a, j \in 1..b : s[i] > c[j] => \E k \in 1..b : c[k] = s[i]
  OBVIOUS
<1> HIDE DEF C, a, b
<1>5. ASSUME NEW i \in 1..Len(C), NEW j \in 1..Len(C), i < j, C[i] > C[j]
      PROVE  \E k \in 1..Len(C) : k > j /\ C[k] = C[i]
  <2>1. CASE j <= a
    <3>1. i \in 1..a /\ j \in 1..a
      BY ONLY <1>1, <1>5, <2>1
    <3>2. s[i] > s[j] /\ C[i] = s[i]
      BY ONLY <1>1, <1>5, <3>1
    <3>3. PICK k \in 1..a : k > j /\ s[k] = s[i]
      BY ONLY <1>3, <1>5, <3>1, <3>2
    <3>4. k \in 1..Len(C)
      BY ONLY <1>1, <3>3
    <3> QED
      BY ONLY <1>1, <3>2, <3>3, <3>4
  <2>2. CASE ~(j <= a)
    <3> DEFINE q == j - a
    <3>1. q \in 1..b /\ q + a = j
      BY ONLY <1>1, <1>5, <2>2
    <3> HIDE DEF q
    <3>2. C[j] = c[q]
      BY ONLY <1>1, <3>1
    <3>3. CASE i <= a
      <4>1. i \in 1..a /\ C[i] = s[i]
        BY ONLY <1>1, <1>5, <3>3
      <4>2. s[i] > c[q]
        BY ONLY <1>5, <3>2, <4>1
      <4>3. PICK k \in 1..b : c[k] = s[i]
        BY ONLY <1>4, <3>1, <4>1, <4>2
      <4>4. k > q
        <5>1. c[k] \in Nat /\ c[q] \in Nat /\ c[k] > c[q]
          BY ONLY <1>2, <3>1, <4>2, <4>3
        <5>2. k # q
          BY ONLY <5>1
        <5>3. k < q => c[k] < c[q]
          BY ONLY <1>4, <3>1
        <5>4. ~(k < q)
          BY ONLY <5>1, <5>3
        <5>5. k \in Nat /\ q \in Nat
          BY ONLY <1>1, <3>1
        <5> QED
          BY ONLY <5>2, <5>4, <5>5
      <4>5. k + a \in 1..Len(C) /\ k + a > j
        BY ONLY <1>1, <3>1, <4>4
      <4>6. C[k + a] = C[i]
        BY ONLY <1>1, <4>1, <4>3
      <4> QED
        BY ONLY <4>5, <4>6
    <3>4. CASE ~(i <= a)
      <4> DEFINE p == i - a
      <4>1. p \in 1..b /\ p + a = i /\ p < q
        BY ONLY <1>1, <1>5, <3>1, <3>4
      <4> HIDE DEF p
      <4>2. C[i] = c[p] /\ c[p] < c[q] /\ c[p] \in Nat /\ c[q] \in Nat
        BY ONLY <1>1, <1>2, <1>4, <3>1, <4>1
      <4> QED
        BY ONLY <1>5, <3>2, <4>2
    <3> QED
      BY <3>3, <3>4
  <2> QED
    BY <2>1, <2>2
<1> QED
  BY <1>5 DEF Recurs, C

LEMMA CompactKeeps ==
    ASSUME CompactionInv, Prompts!Compact
    PROVE  CompactionInv'
<1> DEFINE c == Prompts!Collected(Prompts!Old)
           C == outcomes \o c
           a == Len(outcomes)
           b == Len(c)
           bound == HeadKept + (last - Len(events))
<1>1. /\ EventsForm /\ Outlived(outcomes) /\ Outlived(snapshot.outcomes) /\ Displaced
      /\ events' = SubSeq(events, 1, Prompts!HeadLen) \o Prompts!Newest(events, TailKept)
      /\ outcomes' = Prompts!Newest(C, OutcomesKept)
      /\ last' = last /\ snapshot' = snapshot
  BY DEF CompactionInv, Prompts!Compact, Prompts!Checkpoint
<1>2. /\ last \in Nat /\ Len(events) \in Nat /\ Len(events) <= last
      /\ HeadKept \in Nat /\ TailKept \in Nat /\ OutcomesKept \in Nat
      /\ last \in 0..MaxEvents
  BY <1>1, CountsAssumption DEF EventsForm, HeadAndTail
<1>3. HeadAndTail(events', last)
  BY <1>1, CompactEvents, Zenon
<1>4. /\ c \in Seq(Nat)
      /\ \A i \in 1..b :
           /\ c[i] \in Important /\ c[i] > HeadKept /\ c[i] + TailKept <= last
           /\ c[i] > bound
      /\ \A n \in Important \cap Nat :
           n > bound /\ n + TailKept <= last => \E i \in 1..b : c[i] = n
      /\ \A i, j \in 1..b : i < j => c[i] < c[j]
  <2> HIDE DEF c, b, bound
  <2>1. /\ c \in Seq(Nat)
        /\ \A i \in 1..Len(c) :
             /\ c[i] \in Important /\ c[i] > HeadKept /\ c[i] + TailKept <= last
             /\ c[i] > HeadKept + (last - Len(events))
        /\ \A n \in Important \cap Nat :
             n > HeadKept + (last - Len(events)) /\ n + TailKept <= last =>
                 \E i \in 1..Len(c) : c[i] = n
        /\ \A i, j \in 1..Len(c) : i < j => c[i] < c[j]
    BY <1>1, CompactCollects, Zenon DEF c
  <2> QED
    BY <2>1, Zenon DEF b, bound
<1>5. bound \in Nat
  BY <1>2
<1>6. /\ outcomes \in Seq(Nat) /\ a <= OutcomesKept /\ Recurs(outcomes)
      /\ \A i \in 1..a :
           outcomes[i] \in Important /\ outcomes[i] > HeadKept /\ outcomes[i] + TailKept <= last
  BY <1>1 DEF Outlived
<1> HIDE DEF c, b, bound, a
<1>7. /\ C \in Seq(Nat) /\ Len(C) = a + b /\ a \in Nat /\ b \in Nat
      /\ \A i \in 1..a : C[i] = outcomes[i]
      /\ \A i \in 1..b : C[i + a] = c[i]
  BY ONLY <1>4, <1>6, JoinFacts DEF a, b
<1>8. /\ \A i \in 1..a : outcomes[i] \in Nat
      /\ \A i \in 1..b : c[i] \in Nat
  BY ONLY <1>4, <1>6 DEF a, b
<1> HIDE DEF C
<1>9. ASSUME NEW i \in 1..Len(C)
      PROVE  \/ i \in 1..a /\ C[i] = outcomes[i]
             \/ \E k \in 1..b : C[i] = c[k]
  <2>1. CASE i <= a
    BY ONLY <1>7, <2>1
  <2>2. CASE ~(i <= a)
    <3>1. i - a \in 1..b /\ (i - a) + a = i
      BY ONLY <1>7, <2>2
    <3> QED
      BY ONLY <1>7, <3>1
  <2> QED
    BY <2>1, <2>2
<1>10. Recurs(C)
  <2>1. \A i \in 1..a, j \in 1..b :
          outcomes[i] > c[j] => \E k \in 1..b : c[k] = outcomes[i]
    <3> SUFFICES ASSUME NEW i \in 1..a, NEW j \in 1..b, outcomes[i] > c[j]
                 PROVE  \E k \in 1..b : c[k] = outcomes[i]
      BY Zenon
    <3>1. c[j] > bound /\ outcomes[i] + TailKept <= last /\ outcomes[i] \in Important \cap Nat
      BY ONLY <1>4, <1>6, <1>8
    <3>2. outcomes[i] > bound
      BY <1>5, <1>8, <3>1
    <3> QED
      BY ONLY <1>4, <3>1, <3>2
  <2> QED
    BY <1>4, <1>6, <2>1, JoinRecurs DEF C, a, b
<1>11. \A i \in 1..Len(C) : C[i] \in Important /\ C[i] > HeadKept /\ C[i] + TailKept <= last
  BY ONLY <1>4, <1>6, <1>9
<1> DEFINE r == Prompts!Newest(C, OutcomesKept)
           m == Prompts!Least(OutcomesKept, Len(C))
<1>12. /\ r \in Seq(Nat) /\ Len(r) = m
       /\ \A i \in 1..m : r[i] = C[i + Len(C) - m]
  BY <1>2, <1>7, NewestFacts
<1>13. m \in Nat /\ m <= OutcomesKept /\ m <= Len(C) /\ (m = OutcomesKept \/ m = Len(C))
  BY <1>2, <1>7 DEF Prompts!Least
<1>14. Recurs(r)
  BY <1>2, <1>7, <1>10, RecursNewest
<1>15. outcomes' = r
  BY <1>1
<1> HIDE DEF r, m
<1>16. \A i \in 1..Len(r) : \E k \in 1..Len(C) : r[i] = C[k]
  <2> SUFFICES ASSUME NEW i \in 1..m PROVE \E k \in 1..Len(C) : r[i] = C[k]
    BY <1>12
  <2>1. i + Len(C) - m \in 1..Len(C)
    BY ONLY <1>7, <1>13
  <2> QED
    BY <1>12, <2>1
<1>17. EventsForm'
  BY <1>1, <1>2, <1>3 DEF EventsForm
<1>18. Outlived(outcomes)'
  <2>1. \A i \in 1..Len(r) : r[i] \in Important /\ r[i] > HeadKept /\ r[i] + TailKept <= last
    BY ONLY <1>11, <1>16
  <2> QED
    BY <1>1, <1>12, <1>13, <1>14, <1>15, <2>1 DEF Outlived
<1>19. Outlived(snapshot.outcomes)'
  BY <1>1 DEF Outlived
<1>20. Displaced'
  <2> SUFFICES ASSUME NEW n \in Important \cap (1..last)
               PROVE  \/ \E i \in 1..Len(events') : events'[i] = n
                      \/ \E i \in 1..Len(r) : r[i] = n
                      \/ Len(r) = OutcomesKept /\ \A i \in 1..Len(r) : r[i] > n
    BY <1>1, <1>15 DEF Displaced
  <2>1. ASSUME NEW p \in 1..Len(C), C[p] = n
        PROVE  \/ \E i \in 1..Len(r) : r[i] = n
               \/ Len(r) = OutcomesKept /\ \A i \in 1..Len(r) : r[i] > n
    <3>1. ASSUME \A i \in 1..Len(r) : r[i] # n
          PROVE  Len(r) = OutcomesKept /\ \A i \in 1..OutcomesKept : r[i] > n
      BY <1>2, <1>7, <1>10, <2>1, <3>1, Truncated DEF r
    <3> QED
      BY ONLY <3>1
  <2>2. CASE n <= HeadKept \/ n > HeadKept + (last - Len(events'))
    BY <1>2, <1>3, <2>2, EventsThere, SMTT(30)
  <2>3. CASE ~(n <= HeadKept) /\ ~(n > HeadKept + (last - Len(events'))) /\ n > bound
    <3>1. /\ Len(events') \in Nat /\ Len(events') <= last
          /\ Len(events') = last \/ Len(events') >= HeadKept + TailKept
      BY ONLY <1>3 DEF HeadAndTail
    <3>2. n + TailKept <= last
      BY ONLY <1>2, <2>3, <3>1
    <3>3. PICK i \in 1..b : c[i] = n
      BY ONLY <1>4, <2>3, <3>2
    <3>4. i + a \in 1..Len(C) /\ C[i + a] = n
      BY ONLY <1>7, <3>3
    <3> QED
      BY <2>1, <3>4
  <2>4. CASE ~(n <= HeadKept) /\ ~(n > bound)
    <3>1. ~\E i \in 1..Len(events) : events[i] = n
      <4>1. \A i \in 1..Len(events) :
              events[i] = IF i <= HeadKept THEN i ELSE i + (last - Len(events))
        BY ONLY <1>1 DEF EventsForm, HeadAndTail
      <4> SUFFICES ASSUME NEW i \in 1..Len(events), events[i] = n PROVE FALSE
        OBVIOUS
      <4>2. ~(n <= HeadKept) /\ ~(n > HeadKept + (last - Len(events)))
        BY <2>4 DEF bound
      <4>3. CASE i <= HeadKept
        <5>1. events[i] = i
          BY ONLY <4>1, <4>3
        <5> QED
          BY <4>2, <4>3, <5>1
      <4>4. CASE ~(i <= HeadKept)
        <5>1. events[i] = i + (last - Len(events))
          BY ONLY <4>1, <4>4
        <5>2. i + (last - Len(events)) > HeadKept + (last - Len(events))
          BY ONLY <1>2, <4>4
        <5> QED
          BY <4>2, <5>1, <5>2
      <4> QED
        BY <4>3, <4>4
    <3>2. \/ \E i \in 1..a : outcomes[i] = n
          \/ a = OutcomesKept /\ \A i \in 1..a : outcomes[i] > n
      BY <1>1, <3>1 DEF Displaced, a
    <3>3. CASE \E i \in 1..a : outcomes[i] = n
      <4>1. PICK i \in 1..a : outcomes[i] = n
        BY <3>3
      <4>2. i \in 1..Len(C) /\ C[i] = n
        BY ONLY <1>7, <4>1
      <4> QED
        BY <2>1, <4>2
    <3>4. CASE a = OutcomesKept /\ \A i \in 1..a : outcomes[i] > n
      <4>1. \A k \in 1..b : c[k] > n
        BY ONLY <1>4, <1>5, <1>8, <2>4
      <4>2. \A k \in 1..Len(C) : C[k] > n
        BY ONLY <1>9, <3>4, <4>1
      <4>3. \A i \in 1..Len(r) : r[i] > n
        BY ONLY <1>16, <4>2
      <4>4. Len(r) = OutcomesKept
        BY ONLY <1>7, <1>12, <1>13, <3>4
      <4> QED
        BY ONLY <4>3, <4>4
    <3> QED
      BY <3>2, <3>3, <3>4
  <2> QED
    BY <2>2, <2>3, <2>4
<1> QED
  BY <1>17, <1>18, <1>19, <1>20 DEF CompactionInv

LEMMA CompactionStep ==
    ASSUME CompactionInv, Prompts!Next \/ UNCHANGED compaction
    PROVE  CompactionInv'
<1>1. /\ EventsForm /\ Outlived(outcomes) /\ Outlived(snapshot.outcomes) /\ Displaced
      /\ last \in Nat /\ TailKept \in Nat /\ HeadKept \in Nat /\ MaxEvents \in Nat
  BY CountsAssumption DEF CompactionInv, EventsForm
<1>2. CASE Prompts!Record
  <2> DEFINE L == Len(events)
  <2>1. /\ last < MaxEvents /\ last' = last + 1 /\ events' = Append(events, last + 1)
        /\ outcomes' = outcomes /\ snapshot' = snapshot
    BY <1>2 DEF Prompts!Record
  <2>2. /\ events \in Seq(Nat) /\ L \in Nat /\ L <= last
        /\ \A i \in 1..L : events[i] = IF i <= HeadKept THEN i ELSE i + (last - L)
        /\ L = last \/ L >= HeadKept + TailKept
    BY <1>1 DEF EventsForm, HeadAndTail
  <2>3. /\ events' \in Seq(Nat) /\ Len(events') = L + 1 /\ events'[L + 1] = last + 1
        /\ \A i \in 1..L : events'[i] = events[i]
    BY <1>1, <2>1, <2>2
  <2> HIDE DEF L
  <2>4. ASSUME NEW i \in 1..(L + 1)
        PROVE  events'[i] = IF i <= HeadKept THEN i ELSE i + ((last + 1) - (L + 1))
    <3>1. (last + 1) - (L + 1) = last - L
      BY ONLY <1>1, <2>2
    <3>2. CASE i \in 1..L
      BY ONLY <2>2, <2>3, <3>1, <3>2
    <3>3. CASE i = L + 1
      <4>1. i <= HeadKept => i = last + 1
        BY ONLY <1>1, <2>2, <3>3
      <4>2. i + (last - L) = last + 1
        BY ONLY <1>1, <2>2, <3>3
      <4> QED
        BY ONLY <2>3, <3>1, <3>3, <4>1, <4>2
    <3> QED
      BY ONLY <2>2, <3>2, <3>3
  <2>5. HeadAndTail(events', last + 1)
    <3>1. L + 1 <= last + 1 /\ (L + 1 = last + 1 \/ L + 1 >= HeadKept + TailKept)
      BY ONLY <1>1, <2>2
    <3> QED
      BY ONLY <2>3, <2>4, <3>1 DEF HeadAndTail
  <2>6. EventsForm'
    <3>1. last + 1 \in 0..MaxEvents
      BY ONLY <1>1, <2>1
    <3> QED
      BY <2>1, <2>5, <3>1 DEF EventsForm
  <2>7. ASSUME NEW s, Outlived(s)
        PROVE  /\ s \in Seq(Nat) /\ Len(s) <= OutcomesKept /\ Recurs(s)
               /\ \A i \in 1..Len(s) :
                    s[i] \in Important /\ s[i] > HeadKept /\ s[i] + TailKept <= last + 1
    BY <1>1, <2>7 DEF Outlived
  <2>8. Outlived(outcomes)' /\ Outlived(snapshot.outcomes)'
    BY <1>1, <2>1, <2>7 DEF Outlived
  <2>9. Displaced'
    <3> SUFFICES ASSUME NEW n \in Important \cap (1..(last + 1))
                 PROVE  \/ \E i \in 1..Len(events') : events'[i] = n
                        \/ \E i \in 1..Len(outcomes) : outcomes[i] = n
                        \/ Len(outcomes) = OutcomesKept /\ \A i \in 1..Len(outcomes) : outcomes[i] > n
      BY <2>1 DEF Displaced
    <3>1. CASE n = last + 1
      <4>1. L + 1 \in 1..Len(events')
        BY ONLY <2>2, <2>3
      <4> QED
        BY ONLY <2>3, <3>1, <4>1
    <3>2. CASE n # last + 1
      <4>1. n \in Important \cap (1..last)
        BY ONLY <1>1, <3>2
      <4>2. CASE \E i \in 1..L : events[i] = n
        <5>1. PICK i \in 1..L : events[i] = n
          BY <4>2
        <5>2. i \in 1..Len(events')
          BY ONLY <2>2, <2>3
        <5> QED
          BY ONLY <2>3, <5>1, <5>2
      <4> QED
        BY <1>1, <4>1, <4>2 DEF Displaced, L
    <3> QED
      BY <3>1, <3>2
  <2> QED
    BY <2>6, <2>8, <2>9 DEF CompactionInv
<1>3. CASE Prompts!Compact
  BY <1>3, CompactKeeps
<1>4. CASE Prompts!Save
  <2>1. /\ UNCHANGED <<last, events, outcomes>>
        /\ snapshot' = [events |-> events, outcomes |-> outcomes]
    BY <1>4 DEF Prompts!Save
  <2>2. snapshot'.outcomes = outcomes
    BY <2>1
  <2> QED
    BY <1>1, <2>1, <2>2 DEF CompactionInv, EventsForm, Outlived, Displaced
<1>5. CASE Prompts!Reload
  <2>1. /\ events' = [n \in 1..last |-> n] /\ outcomes' = snapshot.outcomes
        /\ last' = last /\ snapshot' = snapshot
    BY <1>5 DEF Prompts!Reload
  <2>2. events' \in Seq(Nat) /\ Len(events') = last /\ \A i \in 1..last : events'[i] = i
    BY <1>1, <2>1
  <2>3. HeadAndTail(events', last)
    BY ONLY <1>1, <2>2 DEF HeadAndTail
  <2>4. EventsForm'
    BY <1>1, <2>1, <2>3 DEF EventsForm
  <2>5. Outlived(outcomes)' /\ Outlived(snapshot.outcomes)'
    BY <1>1, <2>1 DEF Outlived
  <2>6. Displaced'
    BY <2>1, <2>2 DEF Displaced
  <2> QED
    BY <2>4, <2>5, <2>6 DEF CompactionInv
<1>6. CASE UNCHANGED compaction
  <2>1. UNCHANGED <<last, events, outcomes, snapshot>>
    BY <1>6 DEF compaction
  <2> QED
    BY <1>1, <2>1 DEF CompactionInv, EventsForm, Outlived, Displaced
<1> QED
  BY <1>2, <1>3, <1>4, <1>5, <1>6 DEF Prompts!Next

\* EventsForm also tells the protected head and the newest events.
LEMMA CompactionImplies == CompactionInv => OutcomesRemembered
<1> SUFFICES ASSUME CompactionInv PROVE Prompts!OutcomesRemembered
  BY DEF OutcomesRemembered
<1>1. /\ HeadAndTail(events, last) /\ Displaced /\ last \in Nat
      /\ HeadKept \in Nat /\ TailKept \in Nat
      /\ outcomes \in Seq(Nat) /\ events \in Seq(Nat)
  BY CountsAssumption DEF CompactionInv, EventsForm, HeadAndTail, Outlived
<1>2. /\ DOMAIN outcomes = 1..Len(outcomes) /\ DOMAIN events = 1..Len(events)
      /\ Prompts!Range(events) = {events[i] : i \in 1..Len(events)}
      /\ Prompts!Range(outcomes) = {outcomes[i] : i \in 1..Len(outcomes)}
  BY <1>1 DEF Prompts!Range
<1>3. ASSUME NEW n \in 1..last, n <= HeadKept \/ n + TailKept > last
      PROVE  n \in Prompts!Range(events)
  <2>1. /\ Len(events) \in Nat /\ Len(events) <= last
        /\ Len(events) = last \/ Len(events) >= HeadKept + TailKept
    BY <1>1 DEF HeadAndTail
  <2>2. n <= HeadKept \/ n > HeadKept + (last - Len(events))
    BY ONLY <1>1, <1>3, <2>1
  <2>3. \E i \in 1..Len(events) : events[i] = n
    BY <1>1, <2>2, EventsThere
  <2> QED
    BY <1>2, <2>3
<1>4. ASSUME NEW n \in Important \cap (1..last)
      PROVE  \/ n \in Prompts!Range(events) \cup Prompts!Range(outcomes)
             \/ Len(outcomes) = OutcomesKept /\ \A i \in DOMAIN outcomes : outcomes[i] > n
  BY <1>1, <1>2 DEF Displaced
<1> QED
  BY <1>3, <1>4 DEF Prompts!OutcomesRemembered

LEMMA CompactionTypes == CompactionInv => Prompts!TypeOK
<1> SUFFICES ASSUME CompactionInv PROVE Prompts!TypeOK
  OBVIOUS
<1>1. /\ last \in 0..MaxEvents /\ last \in Nat /\ HeadKept \in Nat /\ TailKept \in Nat
      /\ events \in Seq(Nat) /\ Len(events) <= last /\ Len(events) \in Nat
      /\ \A i \in 1..Len(events) :
           events[i] = IF i <= HeadKept THEN i ELSE i + (last - Len(events))
      /\ outcomes \in Seq(Nat)
      /\ \A i \in 1..Len(outcomes) :
           outcomes[i] \in Important /\ outcomes[i] > HeadKept /\ outcomes[i] + TailKept <= last
  BY CountsAssumption DEF CompactionInv, EventsForm, HeadAndTail, Outlived
<1>2. /\ DOMAIN outcomes = 1..Len(outcomes) /\ DOMAIN events = 1..Len(events)
      /\ Prompts!Range(events) = {events[i] : i \in 1..Len(events)}
      /\ Prompts!Range(outcomes) = {outcomes[i] : i \in 1..Len(outcomes)}
  BY <1>1 DEF Prompts!Range
<1> DEFINE gap == last - Len(events)
<1>a. gap \in Nat /\ last = Len(events) + gap
  BY ONLY <1>1
<1>b. \A i \in 1..Len(events) : events[i] = IF i <= HeadKept THEN i ELSE i + gap
  BY <1>1
<1> HIDE DEF gap
<1>c. ASSUME NEW i \in 1..Len(events)
      PROVE  /\ i \in Nat /\ events[i] \in 1..last
             /\ i <= HeadKept => events[i] = i
             /\ ~(i <= HeadKept) => events[i] = i + gap
  <2>1. CASE i <= HeadKept
    <3>1. events[i] = i
      BY ONLY <1>b, <2>1
    <3> QED
      BY ONLY <1>1, <2>1, <3>1
  <2>2. CASE ~(i <= HeadKept)
    <3>1. events[i] = i + gap
      BY ONLY <1>b, <2>2
    <3> QED
      BY ONLY <1>1, <1>a, <2>2, <3>1
  <2> QED
    BY <2>1, <2>2
<1>3. \A i \in 1..Len(events) : events[i] \in 1..last
  BY ONLY <1>c
<1>4. ASSUME NEW i \in 1..Len(events), NEW j \in 1..Len(events), i < j
      PROVE  events[i] < events[j]
  <2>1. i \in Nat /\ j \in Nat /\ gap \in Nat /\ HeadKept \in Nat
    BY <1>1, <1>a, <1>c
  <2>2. /\ i <= HeadKept => events[i] = i
        /\ ~(i <= HeadKept) => events[i] = i + gap
        /\ j <= HeadKept => events[j] = j
        /\ ~(j <= HeadKept) => events[j] = j + gap
    BY <1>c
  <2>3. CASE j <= HeadKept
    <3>1. i <= HeadKept
      BY ONLY <1>4, <2>1, <2>3
    <3> QED
      BY ONLY <1>4, <2>2, <2>3, <3>1
  <2>4. CASE ~(j <= HeadKept)
    <3>1. events[j] = j + gap
      BY ONLY <2>2, <2>4
    <3>2. events[i] \in {i, i + gap}
      BY ONLY <2>2
    <3> QED
      BY ONLY <1>4, <2>1, <3>1, <3>2
  <2> QED
    BY <2>3, <2>4
<1>5. \A i \in 1..Len(outcomes) : outcomes[i] \in Important \cap (1..last)
  <2> TAKE i \in 1..Len(outcomes)
  <2>1. outcomes[i] \in Nat
    BY <1>1
  <2> QED
    BY <1>1, <2>1
<1> QED
  BY <1>1, <1>2, <1>3, <1>4, <1>5 DEF Prompts!TypeOK

LEMMA CompactionAlways == ServicesSpec => []CompactionInv
<1>1. ServicesInit => CompactionInv
  BY CompactionInit DEF ServicesInit
<1>2. CompactionInv /\ [ServicesNext]_<<part, transport, extensions, model, evaluation,
                                        skills, evidence, history, compaction, commands>>
        => CompactionInv'
  BY CompactionStep DEF ServicesNext
<1> QED
  BY <1>1, <1>2, PTL DEF ServicesSpec

\* compact_if_needed: for any important events, sizes of head, tail and
\* outcomes, and any sequence of compactions, saves and reloads, the protected
\* head and the newest events stay, and what is important stays as an event or
\* an outcome until as many newer outcomes displace it.
THEOREM OutcomesSurvive == ServicesSpec => []OutcomesRemembered
  BY CompactionAlways, CompactionImplies, PTL
-----------------------------------------------------------------------------
\* All components.

LEMMA SkillsAlways == ServicesSpec => []IInv
<1>1. ServicesInit => IInv
  BY InitHolds DEF ServicesInit
<1>2. IInv /\ [ServicesNext]_<<part, transport, extensions, model, evaluation,
                               skills, evidence, history, compaction, commands>>
        => IInv'
  <2> SUFFICES ASSUME IInv, [Next]_vars PROVE IInv'
    BY DEF ServicesNext, skills
  <2> QED
    BY TypeStep, RestStep DEF IInv
<1> QED
  BY <1>1, <1>2, PTL DEF ServicesSpec

LEMMA ModelTypes == ModelInv => Model!TypeOK
<1> SUFFICES ASSUME ModelInv PROVE Model!TypeOK
  OBVIOUS
<1>1. ended \in BOOLEAN
  BY Zenon DEF ModelInv, AnswerEnded
<1>2. sent \in 0..Frames /\ frames \in 0..Frames
  BY CountsAssumption DEF ModelInv, AnswerFrames
<1>3. Attempts
  BY Zenon DEF ModelInv
<1> QED
  BY <1>1, <1>2, <1>3, Zenon DEF Attempts, Model!TypeOK

LEMMA ExtensionsTypes == ExtensionsInv => Mcp!TypeOK
<1> SUFFICES ASSUME ExtensionsInv PROVE Mcp!TypeOK
  OBVIOUS
<1>1. op # Mcp!NoOp => op.server \in Servers /\ op.client \in Mcp!Clients
  BY DEF ExtensionsInv, Operation
<1> QED
  BY <1>1 DEF ExtensionsInv, ExtensionTypes, Mcp!TypeOK

\* The variables of all nine components keep their types, for all values of
\* their constants; with them come the mutual exclusions that the types of the
\* callers, the curators and the index writers state.
THEOREM ServicesTypeCorrect == ServicesSpec => []ServicesTypeOK
<1>1. IInv /\ TransportInv /\ ExtensionsInv /\ ModelInv /\ ScriptInv /\ EvidenceInv
      /\ HistoryInv /\ CompactionInv /\ CommandInv => ServicesTypeOK
  <2> SUFFICES ASSUME IInv, TransportInv, ExtensionsInv, ModelInv, ScriptInv,
                      EvidenceInv, HistoryInv, CompactionInv, CommandInv
               PROVE  ServicesTypeOK
    OBVIOUS
  <2>1. TypeOK /\ Transport!TypeOK /\ Script!TypeOK
    BY Zenon DEF IInv, TransportInv, ScriptInv
  <2>2. Replay!TypeOK /\ History!TypeOK /\ Command!TypeOK
    BY Zenon DEF EvidenceInv, HistoryInv, CommandInv
  <2>3. Mcp!TypeOK
    BY ExtensionsTypes
  <2>4. Model!TypeOK
    BY ModelTypes
  <2>5. Prompts!TypeOK
    BY CompactionTypes
  <2> QED
    BY ONLY <2>1, <2>2, <2>3, <2>4, <2>5 DEF ServicesTypeOK
<1> QED
  BY SkillsAlways, TransportAlways, ExtensionsAlways, ModelAlways, ScriptAlways,
     EvidenceAlways, HistoryAlways, CompactionAlways, CommandAlways, <1>1, PTL
=============================================================================
