----------------------------- MODULE SkillStore -----------------------------
(***************************************************************************)
(* SkillStore (memory.py) and the tools that stage, promote and delete a   *)
(* skill (tools.py), for one skill name: names share nothing but the lock. *)
(* Workers are threads and processes that may die between two writes.      *)
(***************************************************************************)
EXTENDS Naturals, Sequences

CONSTANTS
    Workers,    \* threads and processes that share the root
    Texts,      \* what may be staged under the name
    MaxVersions \* bound: versions ever saved

ASSUME WorkersAssumption  == "none" \notin Workers
ASSUME VersionsAssumption == MaxVersions \in Nat

VARIABLES
    staged,   \* texts that candidates.jsonl reads as
    versions, \* .versions/<name>/v<n>.md, by n
    current,  \* <name>.md: empty, or what it says: its version and its text
    holder,   \* who has the promotion lock
    pc,       \* where each worker is
    todo,     \* candidates a curate call has yet to review
    text,     \* the text each worker saves
    number,   \* the version each worker computed
    behind    \* history: saves that died half-way since the last whole one

vars == <<staged, versions, current, holder, pc, todo, text, number, behind>>

Inside    == {"count", "version", "current"}
Positions == Inside \cup {"idle", "review", "wait", "dead"}
File(n, t) == [version |-> n, text |-> t]

Init ==
    /\ staged = {} /\ versions = <<>> /\ current = {}
    /\ holder = "none"
    /\ pc = [w \in Workers |-> "idle"]
    /\ todo = [w \in Workers |-> {}]
    /\ text = [w \in Workers |-> {}] /\ number = [w \in Workers |-> 0]
    /\ behind = 0

Goto(w, place) == pc' = [pc EXCEPT ![w] = place]

\* stage: a text that _clean accepts is appended for review.  One whose line
\* splitlines() breaks is on disk and never read: nothing changes here.
Stage ==
    /\ \E t \in Texts \ staged : staged' = staged \cup {t}
    /\ UNCHANGED <<versions, current, holder, pc, todo, text, number, behind>>

\* curate reads all candidates of the session, saved ones too.
Curate(w) ==
    /\ pc[w] = "idle"
    /\ todo' = [todo EXCEPT ![w] = staged]
    /\ Goto(w, "review")
    /\ UNCHANGED <<staged, versions, current, holder, text, number, behind>>

Reject(w) ==
    /\ pc[w] = "review"
    /\ \E t \in todo[w] : todo' = [todo EXCEPT ![w] = @ \ {t}]
    /\ UNCHANGED <<staged, versions, current, holder, pc, text, number, behind>>

Accept(w) ==
    /\ pc[w] = "review"
    /\ \E t \in todo[w] :
         /\ todo' = [todo EXCEPT ![w] = @ \ {t}]
         /\ text' = [text EXCEPT ![w] = {t}]
    /\ Goto(w, "wait")
    /\ UNCHANGED <<staged, versions, current, holder, number, behind>>

\* The call ends: nothing is left, or the reviewer, who is asked twice about
\* each candidate, changed its mind (PermissionError).
Leave(w) ==
    /\ pc[w] = "review"
    /\ todo' = [todo EXCEPT ![w] = {}]
    /\ Goto(w, "idle")
    /\ UNCHANGED <<staged, versions, current, holder, text, number, behind>>

\* Mutant: the lock keeps no two workers apart.
LockNobody(w) ==
    /\ pc[w] = "wait"
    /\ holder' = w
    /\ Goto(w, "count")
    /\ UNCHANGED <<staged, versions, current, todo, text, number, behind>>

Lock(w) ==
    /\ pc[w] = "wait" /\ holder = "none"
    /\ holder' = w
    /\ Goto(w, "count")
    /\ UNCHANGED <<staged, versions, current, todo, text, number, behind>>

\* The next version is the number of version files and one.
Count(w) ==
    /\ pc[w] = "count" /\ Len(versions) < MaxVersions
    /\ number' = [number EXCEPT ![w] = Len(versions) + 1]
    /\ Goto(w, "version")
    /\ UNCHANGED <<staged, versions, current, holder, todo, text, behind>>

WriteVersion(w) ==
    /\ pc[w] = "version"
    /\ \E t \in text[w] :
         versions' = IF number[w] = Len(versions) + 1
                     THEN Append(versions, t) ELSE [versions EXCEPT ![number[w]] = t]
    /\ Goto(w, "current")
    /\ UNCHANGED <<staged, current, holder, todo, text, number, behind>>

WriteCurrent(w) ==
    /\ pc[w] = "current"
    /\ current' = {File(number[w], t) : t \in text[w]}
    /\ behind' = 0
    /\ holder' = "none"
    /\ text' = [text EXCEPT ![w] = {}]
    /\ Goto(w, "review")
    /\ UNCHANGED <<staged, versions, todo, number>>

\* skill_manage(delete) takes no lock and leaves the versions.
Delete ==
    /\ current # {}
    /\ current' = {}
    /\ UNCHANGED <<staged, versions, holder, pc, todo, text, number, behind>>

\* A death frees the lock; temporary files are no version files.
Die(w) ==
    /\ pc[w] # "dead"
    /\ behind' = IF pc[w] = "current" THEN behind + 1 ELSE behind
    /\ holder' = IF holder = w THEN "none" ELSE holder
    /\ todo' = [todo EXCEPT ![w] = {}] /\ text' = [text EXCEPT ![w] = {}]
    /\ Goto(w, "dead")
    /\ UNCHANGED <<staged, versions, current, number>>

Restart(w) ==
    /\ pc[w] = "dead"
    /\ Goto(w, "idle")
    /\ UNCHANGED <<staged, versions, current, holder, todo, text, number, behind>>
-----------------------------------------------------------------------------
Next ==
    \/ Stage \/ Delete
    \/ \E w \in Workers :
         \/ Curate(w) \/ Reject(w) \/ Accept(w) \/ Leave(w)
         \/ Lock(w) \/ Count(w) \/ WriteVersion(w) \/ WriteCurrent(w)
         \/ Die(w) \/ Restart(w)

Spec == Init /\ [][Next]_vars

\* Types, and that the steps of save are taken by the lock's holder alone.
TypeOK ==
    /\ staged \subseteq Texts /\ versions \in Seq(Texts)
    /\ current \subseteq [version : Nat, text : Texts]
    /\ holder \in Workers \cup {"none"}
    /\ pc \in [Workers -> Positions]
    /\ \A w \in Workers : pc[w] \in Inside => holder = w
    /\ todo \in [Workers -> SUBSET Texts] /\ text \in [Workers -> SUBSET Texts]
    /\ number \in [Workers -> Nat] /\ behind \in Nat

\* save ("serializes version allocation across independent reviewer workers"):
\* while nobody saves, a skill that was not deleted is, number and text, the
\* newest version but for the saves that died between their two writes, and
\* the version file it came from still has its text.
CurrentIsNewest ==
    holder = "none" => \A f \in current :
        /\ f.version \in 1..Len(versions)
        /\ f.version + behind = Len(versions)
        /\ f.text = versions[f.version]
=============================================================================
