----------------------------- MODULE CommandRun -----------------------------
(***************************************************************************)
(* ToolBroker._tool_run_command (tools.py): one command, the processes it  *)
(* starts, and its deadline, on POSIX.  The command leads a process group; *)
(* a descendant may leave it, and may keep the inherited output pipes.     *)
(***************************************************************************)
CONSTANTS Descendants \* processes the command may start, directly or not

VARIABLES
    pc,       \* "checks", "communicate", "poll", "kill", "collect" or "returned"
    command,  \* the direct process: "none", "up", "exited" or "killed"
    started,  \* descendants ever started
    alive,    \* descendants that run
    grouped,  \* descendants in the command's process group
    piped,    \* descendants that hold its output pipes
    outcome,  \* "none", "refused", "completed" or "timed out"
    orphaned  \* history: the command had exited when its deadline passed

vars == <<pc, command, started, alive, grouped, piped, outcome, orphaned>>

\* What the processes are, and how the call stands.
processes == <<command, started, alive, grouped, piped>>
call      == <<pc, outcome, orphaned>>

Init ==
    /\ pc = "checks" /\ command = "none"
    /\ started = {} /\ alive = {} /\ grouped = {} /\ piped = {}
    /\ outcome = "none" /\ orphaned = FALSE

\* Not approved, a shell operator, empty, not on the allowlist, or not found.
Refuse ==
    /\ pc = "checks" /\ pc' = "returned" /\ outcome' = "refused"
    /\ UNCHANGED <<processes, orphaned>>

Start ==
    /\ pc = "checks" /\ pc' = "communicate"
    /\ command' = "up"
    /\ UNCHANGED <<started, alive, grouped, piped, outcome, orphaned>>

\* Both pipes are at their end and the command can be waited for.
Collectable == command # "up" /\ alive \cap piped = {}

Communicated ==
    /\ pc = "communicate" /\ Collectable
    /\ pc' = "returned" /\ outcome' = "completed"
    /\ UNCHANGED <<processes, orphaned>>

Expire ==
    /\ pc = "communicate" /\ pc' = "poll"
    /\ UNCHANGED <<processes, outcome, orphaned>>

\* _terminate_process_tree returns at once if the command is no more.
Poll ==
    /\ pc = "poll"
    /\ pc' = IF command = "up" THEN "kill" ELSE "collect"
    /\ orphaned' = (command # "up")
    /\ UNCHANGED <<processes, outcome>>

KillCommand == command' = IF command = "up" THEN "killed" ELSE command

\* Mutant: the deadline stops the direct process only.
KillOne ==
    /\ pc = "kill" /\ pc' = "collect"
    /\ KillCommand
    /\ UNCHANGED <<started, alive, grouped, piped, outcome, orphaned>>

KillGroup ==
    /\ pc = "kill" /\ pc' = "collect"
    /\ KillCommand
    /\ alive' = alive \ grouped
    /\ UNCHANGED <<started, grouped, piped, outcome, orphaned>>

\* The output is collected, or given up after two seconds.
Collect ==
    /\ pc = "collect"
    /\ IF Collectable THEN UNCHANGED command ELSE KillCommand
    /\ pc' = "returned" /\ outcome' = "timed out"
    /\ UNCHANGED <<started, alive, grouped, piped, orphaned>>
-----------------------------------------------------------------------------
\* The processes: a descendant keeps its parent's group and pipes or not.
Spawn(d) ==
    /\ d \notin started
    /\ \E group, pipes \in BOOLEAN :
         /\ \/ command = "up"
            \/ \E e \in alive : (group => e \in grouped) /\ (pipes => e \in piped)
         /\ grouped' = IF group THEN grouped \cup {d} ELSE grouped
         /\ piped' = IF pipes THEN piped \cup {d} ELSE piped
    /\ started' = started \cup {d} /\ alive' = alive \cup {d}
    /\ UNCHANGED <<call, command>>

DescendantExits(d) ==
    /\ d \in alive /\ alive' = alive \ {d}
    /\ UNCHANGED <<call, command, started, grouped, piped>>

CommandExits ==
    /\ command = "up" /\ command' = "exited"
    /\ UNCHANGED <<call, started, alive, grouped, piped>>
-----------------------------------------------------------------------------
Next ==
    \/ Refuse \/ Start \/ Communicated \/ Expire \/ Poll \/ KillGroup \/ Collect
    \/ CommandExits
    \/ \E d \in Descendants : Spawn(d) \/ DescendantExits(d)

\* The type of every variable.
TypeOK ==
    /\ pc \in {"checks", "communicate", "poll", "kill", "collect", "returned"}
    /\ command \in {"none", "up", "exited", "killed"}
    /\ alive \cup grouped \cup piped \subseteq started /\ started \subseteq Descendants
    /\ outcome \in {"none", "refused", "completed", "timed out"} /\ orphaned \in BOOLEAN

\* "A timeout must stop the whole command tree, not just stop waiting for its
\* direct parent": after a time-out no process of the group runs, unless the
\* command itself had exited before (nothing is stopped then); and no call
\* returns while its command runs.
TreeIsStopped ==
    /\ pc = "returned" => command # "up"
    /\ outcome = "timed out" => orphaned \/ alive \cap grouped = {}
=============================================================================
