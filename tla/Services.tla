------------------------------ MODULE Services ------------------------------
(***************************************************************************)
(* The nine components around the runtime that share no state with one    *)
(* another, side by side: a behaviour is one of one component, chosen at   *)
(* the start, and the state graph is the union of theirs.                  *)
(***************************************************************************)
EXTENDS SkillStore
skills == vars

CONSTANTS
    Callers, MaxRequests, MaxNotices,          \* McpTransport
    Servers, Tools, Allowed, MaxClients,       \* Extensions
    Providers, Retries, Frames,                \* ModelCalls
    Tasks, MaxSteps,                           \* Evaluation
    Artifacts,                                 \* Evidence
    Processes, Events, TermOf, Split,          \* HistoryIndex
    Important, HeadKept, TailKept, OutcomesKept, MaxEvents, \* Compaction
    Descendants                                \* CommandRun

\* "none" stands for no holder of a lock and for no server.
ASSUME NamesAssumption == "none" \notin Callers \cup Servers \cup Processes

\* A fallback chain has a model, and compaction keeps a tail.
ASSUME CountsAssumption ==
    /\ MaxRequests \in Nat /\ MaxNotices \in Nat /\ MaxClients \in Nat
    /\ Providers \in Nat \ {0} /\ Retries \in Nat /\ Frames \in Nat
    /\ Tasks \in Nat /\ MaxSteps \in Nat
    /\ HeadKept \in Nat /\ TailKept \in Nat \ {0} /\ OutcomesKept \in Nat /\ MaxEvents \in Nat

VARIABLE part \* the component that runs

VARIABLES server, inbox, out, owner, callerPc, rid, lastId, readers, got, notices
transport == <<server, inbox, out, owner, callerPc, rid, lastId, readers, got, notices>>
Transport == INSTANCE McpTransport WITH pc <- callerPc

VARIABLES registry, conn, names, process, saved, op, left, done, repeats, partial
extensions == <<registry, conn, names, process, saved, op, left, done, repeats, partial>>
Mcp == INSTANCE Extensions

VARIABLES requestPc, provider, attempt, sent, ended, frames, tries
model == <<requestPc, provider, attempt, sent, ended, frames, tries>>
Model == INSTANCE ModelCalls WITH pc <- requestPc, got <- frames

VARIABLES runtime, timed, task, scriptPc, turns, timer, env, reached, success, verdict,
          claimed, results, successes, exit
evaluation == <<runtime, timed, task, scriptPc, turns, timer, env, reached, success,
                verdict, claimed, results, successes, exit>>
Script == INSTANCE Evaluation WITH pc <- scriptPc

VARIABLES files, manifest, capturePc, pending, captured, writing, refs, torn
evidence == <<files, manifest, capturePc, pending, captured, writing, refs, torn>>
Replay == INSTANCE Evidence WITH pc <- capturePc

VARIABLES journal, index, mutex, indexPc, entry, view, query, found, orphans
history == <<journal, index, mutex, indexPc, entry, view, query, found, orphans>>
History == INSTANCE HistoryIndex WITH holder <- mutex, pc <- indexPc

VARIABLES last, events, outcomes, snapshot
compaction == <<last, events, outcomes, snapshot>>
Prompts == INSTANCE Compaction WITH saved <- snapshot

VARIABLES commandPc, command, started, alive, grouped, piped, outcome, orphaned
commands == <<commandPc, command, started, alive, grouped, piped, outcome, orphaned>>
Command == INSTANCE CommandRun WITH pc <- commandPc
-----------------------------------------------------------------------------
Parts == {"transport", "extensions", "model", "evaluation",
          "skills", "evidence", "history", "compaction", "commands"}

\* The script's choices at its start are made only where it runs.
ServicesInit ==
    /\ part \in Parts
    /\ part # "evaluation" => runtime = "core" /\ timed = FALSE
    /\ Transport!Init /\ Mcp!Init /\ Model!Init /\ Script!Init
    /\ Init /\ Replay!Init /\ History!Init /\ Prompts!Init
    /\ Command!Init

ServicesNext ==
    /\ UNCHANGED part
    /\ \/ part = "transport"  /\ Transport!Next
       \/ part # "transport"  /\ UNCHANGED transport
    /\ \/ part = "extensions" /\ Mcp!Next
       \/ part # "extensions" /\ UNCHANGED extensions
    /\ \/ part = "model"      /\ Model!Next
       \/ part # "model"      /\ UNCHANGED model
    /\ \/ part = "evaluation" /\ Script!Step
       \/ part # "evaluation" /\ UNCHANGED evaluation
    /\ \/ part = "skills"     /\ Next
       \/ part # "skills"     /\ UNCHANGED skills
    /\ \/ part = "evidence"   /\ Replay!Next
       \/ part # "evidence"   /\ UNCHANGED evidence
    /\ \/ part = "history"    /\ History!Next
       \/ part # "history"    /\ UNCHANGED history
    /\ \/ part = "compaction" /\ Prompts!Next
       \/ part # "compaction" /\ UNCHANGED compaction
    /\ \/ part = "commands"   /\ Command!Next
       \/ part # "commands"   /\ UNCHANGED commands

ServicesSpec == ServicesInit /\ [][ServicesNext]_<<part, transport, extensions, model,
                    evaluation, skills, evidence, history, compaction, commands>>
-----------------------------------------------------------------------------
\* The type invariants of all nine modules, with the mutual exclusion of
\* callers, curators and index writers.
ServicesTypeOK ==
    /\ TypeOK
    /\ Transport!TypeOK /\ Mcp!TypeOK /\ Model!TypeOK /\ Script!TypeOK
    /\ Replay!TypeOK /\ History!TypeOK /\ Prompts!TypeOK
    /\ Command!TypeOK

\* StdioMcpClient and McpToolAdapter: no reader takes an answer another
\* request waits for, and the registry names only tools of a live record.
McpIsSound == Transport!AnswersArrive /\ Mcp!RegistryIsBacked

\* ResilientModel: an accepted answer is what one attempt's provider sent until
\* it ended, after every model before it has failed all of its own attempts.
AnswerIsOneAttempts == Model!AnswerIsOneAttempts

\* run_evaluation: a task's recorded success is its own evaluator's verdict.
VerdictIsEvaluators == Script!VerdictIsEvaluators

\* capture_observation: a cut-off run leaves a session that loads, with the
\* evidence it refers to.
EvidenceHolds == Replay!EvidenceHolds

\* HistoryIndex: no append or rebuild drops another writer's event.
IndexCovers == History!IndexCovers

\* compact_if_needed: the newest important events survive repeated compaction
\* and reloading, as events or as outcomes.
OutcomesRemembered == Prompts!OutcomesRemembered

\* _tool_run_command: a time-out leaves no process of the group running.
TreeIsStopped == Command!TreeIsStopped
=============================================================================
