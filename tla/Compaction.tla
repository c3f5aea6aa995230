----------------------------- MODULE Compaction -----------------------------
(***************************************************************************)
(* PromptAssembler.compact_if_needed (prompts.py) with the journal and the *)
(* snapshot it works beside: what a session still knows of its events.     *)
(* Events are numbered from 1.  Whether the context budget is exceeded is  *)
(* a free choice: it depends on sizes.                                     *)
(***************************************************************************)
EXTENDS Naturals, Sequences, Functions

CONSTANTS
    Important,  \* events whose outcome a checkpoint keeps
    HeadKept,   \* head: 4 in the code
    TailKept,   \* tail: 24
    OutcomesKept, \* the newest outcomes a checkpoint keeps: 16
    MaxEvents   \* bound: events recorded

VARIABLES
    last,     \* the journal: events 1 to last
    events,   \* state.events
    outcomes, \* important_outcomes of the checkpoint in state.summary
    saved     \* the snapshot's events and outcomes

vars == <<last, events, outcomes, saved>>

Least(m, n) == IF m < n THEN m ELSE n
Newest(seq, n) == SubSeq(seq, Len(seq) - Least(n, Len(seq)) + 1, Len(seq))

Init ==
    /\ last = 0 /\ events = <<>> /\ outcomes = <<>>
    /\ saved = [events |-> <<>>, outcomes |-> <<>>]

Record ==
    /\ last < MaxEvents
    /\ last' = last + 1
    /\ events' = Append(events, last + 1)
    /\ UNCHANGED <<outcomes, saved>>

\* The protected head gives way while there are few events.
HeadLen == Least(HeadKept, Len(events) - Least(TailKept, Len(events)))
Old == IF Len(events) > HeadLen + TailKept
       THEN SubSeq(events, HeadLen + 1, Len(events) - TailKept) ELSE <<>>
Matters(e) == e \in Important

\* The loop over a sequence of events that collects those that matter.
Collected(s) ==
    LET upTo[n \in 0..Len(s)] ==
          IF n = 0 THEN <<>>
          ELSE IF Matters(s[n]) THEN Append(upTo[n - 1], s[n]) ELSE upTo[n - 1]
    IN  upTo[Len(s)]

\* Mutant: the checkpoint is composed from this compaction alone.
CheckpointAnew == Newest(Collected(Old), OutcomesKept)

\* The checkpoint carries the outcomes of the one before.
Checkpoint == Newest(outcomes \o Collected(Old), OutcomesKept)

\* A compaction whose summary hook fails or stalls changes nothing and has no
\* action of its own.
Compact ==
    /\ events # <<>>
    /\ events' = SubSeq(events, 1, HeadLen) \o Newest(events, TailKept)
    /\ outcomes' = Checkpoint
    /\ UNCHANGED <<last, saved>>

Save ==
    /\ saved' = [events |-> events, outcomes |-> outcomes]
    /\ UNCHANGED <<last, events, outcomes>>

\* load: a journaled event that the snapshot does not have is replayed, the
\* compacted ones too, and all are put in order.
Reload ==
    /\ events' = [n \in 1..last |-> n]
    /\ outcomes' = saved.outcomes
    /\ UNCHANGED <<last, saved>>
-----------------------------------------------------------------------------
Next == Record \/ Compact \/ Save \/ Reload

\* The type of every variable.
TypeOK ==
    /\ last \in 0..MaxEvents
    /\ Range(events) \subseteq 1..last /\ Range(outcomes) \subseteq Important \cap (1..last)
    /\ \A i, j \in DOMAIN events : i < j => events[i] < events[j]

\* compact_if_needed: after any compactions, saves and reloads the session
\* has the protected head of its events and the newest ones, and an important
\* one is an event or an outcome unless as many newer outcomes displaced it.
OutcomesRemembered ==
    /\ \A n \in 1..last : n <= HeadKept \/ n + TailKept > last => n \in Range(events)
    /\ \A n \in Important \cap (1..last) :
         \/ n \in Range(events) \cup Range(outcomes)
         \/ Len(outcomes) = OutcomesKept /\ \A i \in DOMAIN outcomes : outcomes[i] > n
=============================================================================
