---------------------------- MODULE SessionStore ----------------------------
(***************************************************************************)
(* The durable form of one session: the snapshot and its digest file       *)
(* (SessionStore, runtime.py) and the hash-chained journal (HistoryIndex,  *)
(* history.py), written by the calls that start, resume and run it, one at *)
(* a time under the session lease, and the states that their callers keep. *)
(*                                                                         *)
(* An event is its sequence number and an identity.  An entry hash is the  *)
(* identity of its event (hashes do not collide), 0 the empty hash.  What  *)
(* one append wrote is one line, also when splitlines() reads it as        *)
(* several, because its text holds a Unicode line separator: the last of   *)
(* those never parses, and one of the middle may be JSON but no event.     *)
(***************************************************************************)
EXTENDS Naturals, Sequences, FiniteSets, FiniteSetsExt

CONSTANTS
    CrashWindows,  \* where a run may die: between "turn" steps, inside a "save"
    TornAppends,   \* whether a journal append may be cut short
    Separators,    \* whether the text of an event may hold U+0085, U+2028 or U+2029
    Reuse,         \* whether a caller may "run" a state it kept, "start" an id again
    MaxEvents,     \* bound: events ever recorded
    MaxKept        \* bound: states that callers keep

ASSUME OptionsAssumption == /\ CrashWindows \subseteq {"turn", "save"}
                            /\ TornAppends \in BOOLEAN /\ Separators \in BOOLEAN
                            /\ Reuse \subseteq {"run", "start"}
ASSUME BoundAssumption   == MaxEvents \in Nat /\ MaxKept \in Nat

Event   == [seq : 1 .. MaxEvents, id : 1 .. MaxEvents]
Copy    == [there : BOOLEAN, events : SUBSET Event]   \* of a session's events
NoCopy  == [there |-> FALSE, events |-> {}]
CopyOf(S) == [there |-> TRUE, events |-> S]

\* A line reads as an event, is skipped by the reader, or makes it raise.
Line(e, prev) == [reads |-> "event", event |-> e, prev |-> prev]
Unread(how)   == [reads |-> how, event |-> [seq |-> 0, id |-> 0], prev |-> 0]
Garbage       == Unread("skipped")

VARIABLES
    snapshot,  \* <id>.json
    digest,    \* <id>.sha256: the snapshot it was computed from
    journal,   \* the lines of <id>.events.jsonl
    ragged,    \* the journal does not end with a line end
    state,     \* the events of the SessionState of the present or the last call
    passed,    \* the caller passed that state in
    kept,      \* the other states that callers still hold
    pc,        \* what the present call is doing
    born,      \* events ever created
    recorded,  \* history: events whose append returned
    unread,    \* history: of these, the ones whose line does not read as an event
    forked     \* history: a call went on from another state than the last call's

diskVars == <<snapshot, digest, journal, ragged>>
memVars  == <<state, passed, kept>>
vars == <<diskVars, memVars, pc, born, recorded, unread, forked>>

Init ==
    /\ snapshot = NoCopy /\ digest = NoCopy
    /\ journal = <<>> /\ ragged = FALSE
    /\ state = {} /\ passed = FALSE /\ kept = {}
    /\ pc = "free" /\ born = 0
    /\ recorded = {} /\ unread = {} /\ forked = FALSE
-----------------------------------------------------------------------------
(* Reading: HistoryIndex.read, _last_hash and SessionStore.load.           *)

SeqsOf(S) == {e.seq : e \in S}

\* Lines that do not parse are skipped, when reading and when chaining.
Whole      == {i \in DOMAIN journal : journal[i].reads = "event"}
Raising    == {i \in DOMAIN journal : journal[i].reads = "raises"}
Journaled  == {journal[i].event : i \in Whole}
HashAt(S)  == IF S = {} THEN 0 ELSE journal[Max(S)].event.id
ChainHolds == \A i \in Whole : journal[i].prev = HashAt({j \in Whole : j < i})

\* Mutant: a new line continues the first one.
FirstHash == HashAt(Whole \cap {1})

\* The hash a new line continues: of the last line, if that one parses.
LastHash == HashAt(Whole \cap {Len(journal)})

Loadable == /\ snapshot.there /\ (digest.there => digest = snapshot)
            /\ Raising = {} /\ ChainHolds

\* Mutant: the journal is not replayed.
LoadedSnapshot == snapshot.events

Loaded   == snapshot.events
              \cup {e \in Journaled : e.seq \notin SeqsOf(snapshot.events)}
-----------------------------------------------------------------------------
(* The calls: start, resume, run.                                          *)

Take(S, given) == /\ pc = "free" /\ pc' = "run"
                  /\ state' = S /\ passed' = given
                  /\ UNCHANGED <<diskVars, born, recorded, unread>>

Start == /\ journal # <<>> => "start" \in Reuse
         /\ Take({}, FALSE)
         /\ forked' = (forked \/ journal # <<>>)
         /\ UNCHANGED kept

Resume == /\ Loadable
          /\ Take(Loaded, FALSE)
          /\ UNCHANGED <<kept, forked>>

\* run(state): what is on disk is not looked at.  Another copy of the state may
\* stay with another caller.
Rerun(S) == /\ "run" \in Reuse
            /\ Take(S, TRUE)
            /\ kept' \in {kept, kept \ {S}}
            /\ forked' = (forked \/ S # state)

\* A caller keeps the state, or forgets it.
MayKeep(S) == kept' \in {kept, kept \cup {S}} /\ Cardinality(kept') <= MaxKept

\* resume without a decision on the parked call: the loaded state is returned
\* and nothing is saved.
Peek == /\ pc = "free" /\ Loadable
        /\ state' = Loaded /\ MayKeep(Loaded)
        /\ UNCHANGED <<diskVars, passed, pc, born, recorded, unread, forked>>
-----------------------------------------------------------------------------
(* Under the lease.                                                        *)

\* Mutants: events are counted instead of numbered; a number is skipped.
FreshByCount == [seq |-> Cardinality(state) + 1, id |-> born + 1]
FreshSkips   == [seq |-> Max(SeqsOf(state) \cup {0}) + 2, id |-> born + 1]

Fresh == [seq |-> Max(SeqsOf(state) \cup {0}) + 1, id |-> born + 1]

\* The call ends with an exception or the process dies: only a state that its
\* caller passed in can be left.
Drop(S) == /\ pc' = "free" /\ state' = S /\ passed' = FALSE
           /\ IF passed THEN MayKeep(S) ELSE UNCHANGED kept

\* How an event's line will read.
Texts == {"event"} \cup (IF Separators THEN {"skipped", "raises"} ELSE {})
LineAs(text) == IF text = "event" THEN Line(Fresh, LastHash) ELSE Unread(text)

\* What follows a fragment on its line is lost with it.
Behind(line) == IF line.reads = "event" THEN Garbage ELSE line
Written(line) == IF ragged THEN [journal EXCEPT ![Len(journal)] = Behind(line)]
                           ELSE Append(journal, line)

\* _event: the event joins the state, then a chained line the journal.
Record ==
    /\ pc = "run" /\ born < MaxEvents
    /\ born' = born + 1
    /\ state' = state \cup {Fresh}
    /\ \E text \in Texts :
          /\ journal' = Written(LineAs(text))
          /\ unread' = IF ragged \/ text # "event" THEN unread \cup {Fresh} ELSE unread
    /\ ragged' = FALSE
    /\ recorded' = recorded \cup {Fresh}
    /\ UNCHANGED <<snapshot, digest, passed, kept, pc, forked>>

\* The write of the line is cut short and the call ends with it.
RecordTorn ==
    /\ TornAppends /\ pc = "run" /\ born < MaxEvents
    /\ born' = born + 1
    /\ journal' = Written(Garbage)
    /\ ragged' = TRUE
    /\ Drop(state \cup {Fresh})
    /\ UNCHANGED <<snapshot, digest, recorded, unread, forked>>

\* compact_if_needed drops events of the middle, never the newest one.
Compact ==
    /\ pc = "run"
    /\ \E S \in SUBSET state :
          /\ S # state /\ Max(SeqsOf(state)) \in SeqsOf(S)
          /\ state' = S
    /\ UNCHANGED <<diskVars, passed, kept, pc, born, recorded, unread, forked>>

\* save: the snapshot is replaced, then its digest is.
SaveSnapshot ==
    /\ pc = "run" /\ state # {}
    /\ snapshot' = CopyOf(state) /\ pc' = "digest"
    /\ UNCHANGED <<digest, journal, ragged, memVars, born, recorded, unread, forked>>

SaveDigest ==
    /\ pc = "digest"
    /\ digest' = snapshot /\ pc' = "run"
    /\ UNCHANGED <<snapshot, journal, ragged, memVars, born, recorded, unread, forked>>

\* Every call that has run a turn has saved its state last.
Return ==
    /\ pc = "run" /\ snapshot = CopyOf(state)
    /\ pc' = "free" /\ passed' = FALSE /\ MayKeep(state)
    /\ UNCHANGED <<diskVars, state, born, recorded, unread, forked>>

\* The process dies, or an exception that nothing catches ends the call.
Die ==
    /\ \/ pc = "run" /\ "turn" \in CrashWindows
       \/ pc = "digest" /\ "save" \in CrashWindows
    /\ Drop(state)
    /\ UNCHANGED <<diskVars, born, recorded, unread, forked>>

Next == \/ Start \/ Resume \/ Peek \/ \E S \in kept : Rerun(S)
        \/ Record \/ RecordTorn \/ Compact \/ SaveSnapshot \/ SaveDigest
        \/ Return \/ Die

Spec == Init /\ [][Next]_vars
-----------------------------------------------------------------------------
\* The type of every variable.
TypeOK ==
    /\ snapshot \in Copy /\ digest \in Copy
    /\ journal \in Seq({Unread("skipped"), Unread("raises")} \cup
          [reads : {"event"}, event : Event, prev : 0 .. MaxEvents])
    /\ ragged \in BOOLEAN
    /\ state \in SUBSET Event /\ kept \in SUBSET (SUBSET Event) /\ passed \in BOOLEAN
    /\ pc \in {"free", "run", "digest"}
    /\ born \in 0 .. MaxEvents
    /\ recorded \in SUBSET Event /\ unread \in SUBSET recorded /\ forked \in BOOLEAN

\* An event has been recorded behind a line that does not read.
EventBehindUnread == \E i \in Whole : \E j \in 1 .. (i - 1) : j \notin Whole

\* A session whose last save was not interrupted can be loaded whenever nobody
\* runs it, wherever its calls ended since and whatever states they went on
\* from.  What can lock it out beside a save that died is a journal line that
\* does not read: one that makes the reader raise, or one that it skips, once
\* another event stands behind it.  A skipped last line locks out nobody.
ResumableUnlessUnread ==
    pc = "free" /\ snapshot.there /\ digest = snapshot
      /\ Raising = {} /\ ~EventBehindUnread => Loadable

\* Loading returns every event whose append returned and whose line reads,
\* however calls ended and were compacted, as long as each went on from the
\* state of the one before ("A crash after journal append but before snapshot
\* replacement loses no events", runtime.py:258).
NoEventLost ==
    pc = "free" /\ Loadable /\ ~forked => recorded \subseteq Loaded \cup unread

\* Under the same condition a loaded session numbers its events without
\* repetition, so that a number names one event in traces and in the index.
UniqueSequences ==
    pc = "free" /\ Loadable /\ ~forked
        => \A d, e \in Loaded : d.seq = e.seq => d = e
=============================================================================
