---------------------------- MODULE SessionLease ----------------------------
(***************************************************************************)
(* The per-session lease file of SessionStore.lease and                    *)
(* _lease_owner_is_dead (runtime.py): workers of different processes       *)
(* create, judge, reap and release one file, and may die at any step.      *)
(*                                                                         *)
(* Each action is one file-system call with the code around it.  A worker  *)
(* is a process with one thread; a dead process identifier is not reused;  *)
(* unlinking an existing file succeeds.                                    *)
(***************************************************************************)
EXTENDS Naturals, FiniteSets

CONSTANTS
    Workers,    \* processes that lease the session
    MaxLeases   \* bound: leases one worker asks for

ASSUME LeasesAssumption  == MaxLeases \in Nat
ASSUME WorkersAssumption == "none" \notin Workers

\* The file on the path: who created it, and whether the owner is in it yet.
NoFile == [owner |-> "none", written |-> FALSE]
File   == {NoFile} \cup [owner : Workers, written : BOOLEAN]

VARIABLES
    file,      \* the file on the lease path
    pc,        \* where each worker is
    expired,   \* workers whose deadline has passed
    asked,     \* leases each worker has asked for
    stolen     \* history: a reaper removed the file of a living worker

vars == <<file, pc, expired, asked, stolen>>

Positions == {"idle", "create", "write", "judge", "reap", "contend", "refused",
              "held", "release", "unlink", "dead"}

Init ==
    /\ file = NoFile
    /\ pc = [w \in Workers |-> "idle"]
    /\ expired = {}
    /\ asked = [w \in Workers |-> 0]
    /\ stolen = FALSE

Alive(w) == pc[w] # "dead"
Goto(w, place) == pc' = [pc EXCEPT ![w] = place]
-----------------------------------------------------------------------------
Ask(w) ==
    /\ pc[w] \in {"idle", "refused"} /\ asked[w] < MaxLeases
    /\ asked' = [asked EXCEPT ![w] = @ + 1]
    /\ expired' = expired \ {w}
    /\ Goto(w, "create")
    /\ UNCHANGED <<file, stolen>>

Deadline(w) ==
    /\ pc[w] \in {"create", "judge", "reap", "contend"}
    /\ expired' = expired \cup {w}
    /\ UNCHANGED <<file, pc, asked, stolen>>

\* Mutant: the file is opened without O_EXCL.
CreateShared(w) ==
    /\ pc[w] = "create"
    /\ file' = [owner |-> w, written |-> FALSE]
    /\ Goto(w, "write")
    /\ UNCHANGED <<expired, asked, stolen>>

\* os.open with O_CREAT | O_EXCL: the file is on the path before its owner is.
Create(w) ==
    /\ pc[w] = "create" /\ file = NoFile
    /\ file' = [owner |-> w, written |-> FALSE]
    /\ Goto(w, "write")
    /\ UNCHANGED <<expired, asked, stolen>>

CreateFails(w) ==
    /\ pc[w] = "create" /\ file # NoFile
    /\ Goto(w, "judge")
    /\ UNCHANGED <<file, expired, asked, stolen>>

\* Mutant: the owner is written to the path.
WriteByPath(w) ==
    /\ pc[w] = "write"
    /\ file' = [file EXCEPT !.written = TRUE]
    /\ Goto(w, "held")
    /\ UNCHANGED <<expired, asked, stolen>>

\* The owner is written through the descriptor: to this worker's file, even
\* when the path no longer names it.
Write(w) ==
    /\ pc[w] = "write"
    /\ file' = IF file.owner = w THEN [owner |-> w, written |-> TRUE] ELSE file
    /\ Goto(w, "held")
    /\ UNCHANGED <<expired, asked, stolen>>

\* Mutant: only a corrupt file is reaped.
OnlyCorruptIsDead == file # NoFile /\ ~file.written

\* An empty file does not parse and counts as corrupt; a file that is gone
\* does not.
OwnerIsDead == file # NoFile /\ (file.written => ~Alive(file.owner))

Judge(w) ==
    /\ pc[w] = "judge"
    /\ Goto(w, IF OwnerIsDead THEN "reap" ELSE "contend")
    /\ UNCHANGED <<file, expired, asked, stolen>>

\* The reaper unlinks the path, whatever is on it by now.
Reap(w) ==
    /\ pc[w] = "reap"
    /\ file' = NoFile
    /\ stolen' = (stolen \/ (file # NoFile /\ Alive(file.owner)))
    /\ Goto(w, "create")
    /\ UNCHANGED <<expired, asked>>

\* Mutant: the deadline is not looked at.
ContendForever(w) ==
    /\ pc[w] = "contend"
    /\ Goto(w, "create")
    /\ UNCHANGED <<file, expired, asked, stolen>>

\* The deadline is looked at only here, so a reaper starts over without it.
Contend(w) ==
    /\ pc[w] = "contend"
    /\ Goto(w, IF w \in expired THEN "refused" ELSE "create")
    /\ UNCHANGED <<file, expired, asked, stolen>>

Leave(w) ==
    /\ pc[w] = "held"
    /\ Goto(w, "release")
    /\ UNCHANGED <<file, expired, asked, stolen>>

\* The token in the file is read first, and the path is unlinked after.
ReleaseRead(w) ==
    /\ pc[w] = "release"
    /\ Goto(w, IF file = [owner |-> w, written |-> TRUE] THEN "unlink" ELSE "idle")
    /\ UNCHANGED <<file, expired, asked, stolen>>

ReleaseUnlink(w) ==
    /\ pc[w] = "unlink"
    /\ file' = NoFile
    /\ Goto(w, "idle")
    /\ UNCHANGED <<expired, asked, stolen>>

Die(w) ==
    /\ Alive(w)
    /\ Goto(w, "dead")
    /\ UNCHANGED <<file, expired, asked, stolen>>

\* The steps a live worker takes without waiting for anyone.
Step(w) == \/ Create(w) \/ CreateFails(w) \/ Write(w) \/ Judge(w) \/ Reap(w)
           \/ Contend(w) \/ ReleaseRead(w) \/ ReleaseUnlink(w)

Next == \E w \in Workers : Ask(w) \/ Deadline(w) \/ Step(w) \/ Leave(w) \/ Die(w)

Spec == Init /\ [][Next]_vars

\* Processes are scheduled and clocks advance; a run may keep its lease.
FairSpec == Spec /\ \A w \in Workers : WF_vars(Step(w)) /\ WF_vars(Deadline(w))
-----------------------------------------------------------------------------
\* The type of every variable.
TypeOK ==
    /\ file \in File
    /\ pc \in [Workers -> Positions]
    /\ expired \in SUBSET Workers
    /\ asked \in [Workers -> 0 .. MaxLeases]
    /\ stolen \in BOOLEAN

Holders == {w \in Workers : pc[w] \in {"held", "release", "unlink"}}

\* At most one live worker holds the session's lease (docstring at
\* runtime.py:178-183, "an exclusive cross-process lease").
Exclusive == \A v, w \in Holders : v = w

\* Exclusivity is lost only through a reaper that removes the file of a living
\* worker: deaths at any step, late judgements and releases alone never do it.
ExclusiveUnlessStolen == ~stolen => Exclusive

\* Whoever asks for the lease gets it, is refused or dies: neither a holder
\* that never leaves nor one that died without releasing blocks it for good.
AskReturns ==
    \A w \in Workers : pc[w] = "create" ~> pc[w] \in {"held", "refused", "dead"}

\* The lease of a dead worker does not outlast the next worker that asks.
DeadLeaseIsReclaimed ==
    \A v, w \in Workers :
        pc[v] = "dead" /\ file.owner = v /\ pc[w] = "create"
            ~> file.owner # v \/ pc[w] = "dead"
=============================================================================
