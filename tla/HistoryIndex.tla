---------------------------- MODULE HistoryIndex ----------------------------
(***************************************************************************)
(* HistoryIndex (history.py): the journals of all sessions as one set of   *)
(* events, and search-index.json derived from them.  Processes append,     *)
(* search and rebuild, and may die at any step; the mutation lock is a     *)
(* thread lock and an flock that the system frees.  An event whose text    *)
(* holds a line separator of Unicode is on disk but does not read.         *)
(***************************************************************************)
CONSTANTS
    Processes, \* threads and processes that share the root
    Events,    \* what may be recorded, each once
    TermOf,    \* the word by which each event is found
    Split      \* events whose line splitlines() breaks

VARIABLES
    journal, \* events on disk
    index,   \* events in the index file
    holder,  \* who has the mutation lock
    pc,      \* where each process is
    entry,   \* the event a process appends
    view,    \* the events of the index it is about to save
    query,   \* the word a process searches for
    found,   \* what its last search returned
    orphans  \* history: events whose writer died before the index was saved

vars == <<journal, index, holder, pc, entry, view, query, found, orphans>>

Terms == {TermOf[e] : e \in Events}
Locked == {"append", "load", "save", "read", "replace"}

Init ==
    /\ journal = {} /\ index = {} /\ holder = "none"
    /\ pc = [p \in Processes |-> "idle"]
    /\ entry = [p \in Processes |-> {}] /\ view = [p \in Processes |-> {}]
    /\ query = [p \in Processes |-> {}] /\ found = [p \in Processes |-> {}]
    /\ orphans = {}

Goto(p, place) == pc' = [pc EXCEPT ![p] = place]
Matching(events, p) == {e \in events : TermOf[e] \in query[p]}

Append(p) ==
    /\ pc[p] = "idle" /\ holder = "none"
    /\ holder' = p
    /\ Goto(p, "append")
    /\ UNCHANGED <<journal, index, entry, view, query, found, orphans>>

Journal(p) ==
    /\ pc[p] = "append"
    /\ \E e \in Events \ journal :
         journal' = journal \cup {e} /\ entry' = [entry EXCEPT ![p] = {e}]
    /\ Goto(p, "load")
    /\ UNCHANGED <<index, holder, view, query, found, orphans>>

LoadIndex(p) ==
    /\ pc[p] = "load"
    /\ view' = [view EXCEPT ![p] = index \cup entry[p]]
    /\ Goto(p, "save")
    /\ UNCHANGED <<journal, index, holder, entry, query, found, orphans>>

\* Saving replaces the file, and the lock is released.
SaveIndex(p) ==
    /\ pc[p] = "save"
    /\ index' = view[p]
    /\ holder' = "none"
    /\ view' = [view EXCEPT ![p] = {}] /\ entry' = [entry EXCEPT ![p] = {}]
    /\ Goto(p, "idle")
    /\ UNCHANGED <<journal, query, found, orphans>>

\* search reads the index without the lock, and rebuilds it only when no
\* event matches.  Candidates are looked up in the journal again, and left
\* out if they do not read.
Search(p) ==
    /\ pc[p] = "idle"
    /\ \E term \in Terms :
         LET hits == {e \in index \cap journal : TermOf[e] = term} IN
         /\ found' = [found EXCEPT ![p] = hits \ Split]
         /\ IF hits = {} /\ journal # {}
            THEN Goto(p, "rebuild") /\ query' = [query EXCEPT ![p] = {term}]
            ELSE UNCHANGED <<pc, query>>
    /\ UNCHANGED <<journal, index, holder, entry, view, orphans>>

\* Mutant: the journals are read before the lock is taken.
RebuildEarly(p) ==
    /\ pc[p] = "rebuild"
    /\ Goto(p, "read")
    /\ UNCHANGED <<journal, index, holder, entry, view, query, found, orphans>>

Rebuild(p) ==
    /\ pc[p] = "rebuild" /\ holder = "none"
    /\ holder' = p
    /\ Goto(p, "read")
    /\ UNCHANGED <<journal, index, entry, view, query, found, orphans>>

ReadJournals(p) ==
    /\ pc[p] = "read"
    /\ view' = [view EXCEPT ![p] = journal \ Split]
    /\ Goto(p, "replace")
    /\ UNCHANGED <<journal, index, holder, entry, query, found, orphans>>

\* A journal whose chain is broken makes the rebuild, and the search, raise.
ReadRaises(p) ==
    /\ pc[p] = "read"
    /\ holder' = "none"
    /\ query' = [query EXCEPT ![p] = {}]
    /\ Goto(p, "idle")
    /\ UNCHANGED <<journal, index, entry, view, found, orphans>>

ReplaceIndex(p) ==
    /\ pc[p] = "replace"
    /\ index' = view[p]
    /\ orphans' = orphans \ view[p]
    /\ holder' = "none"
    /\ view' = [view EXCEPT ![p] = {}]
    /\ Goto(p, "again")
    /\ UNCHANGED <<journal, entry, query, found>>

SearchAgain(p) ==
    /\ pc[p] = "again"
    /\ found' = [found EXCEPT ![p] = Matching(index \cap journal, p) \ Split]
    /\ query' = [query EXCEPT ![p] = {}]
    /\ Goto(p, "idle")
    /\ UNCHANGED <<journal, index, holder, entry, view, orphans>>

\* A process dies, and a new one takes its place.
Die(p) ==
    /\ pc[p] # "idle"
    /\ orphans' = orphans \cup entry[p]
    /\ holder' = IF holder = p THEN "none" ELSE holder
    /\ entry' = [entry EXCEPT ![p] = {}] /\ view' = [view EXCEPT ![p] = {}]
    /\ query' = [query EXCEPT ![p] = {}] /\ found' = [found EXCEPT ![p] = {}]
    /\ Goto(p, "idle")
    /\ UNCHANGED <<journal, index>>
-----------------------------------------------------------------------------
Next == \E p \in Processes :
    \/ Append(p) \/ Journal(p) \/ LoadIndex(p) \/ SaveIndex(p)
    \/ Search(p) \/ Rebuild(p) \/ ReadJournals(p) \/ ReadRaises(p)
    \/ ReplaceIndex(p) \/ SearchAgain(p)
    \/ Die(p)

\* The type of every variable.
TypeOK ==
    /\ journal \subseteq Events /\ index \subseteq Events /\ orphans \subseteq Events
    /\ holder \in Processes \cup {"none"}
    /\ \A p \in Processes : pc[p] \in Locked \cup {"idle", "rebuild", "again"}
    /\ \A p \in Processes : pc[p] \in Locked <=> holder = p
    /\ \A p \in Processes : entry[p] \cup view[p] \cup found[p] \subseteq Events

\* append and rebuild: the index has no event that is in no journal, and
\* lacks none but the one being appended, those whose writer died on the way,
\* which stay lost to a search as long as anything else matches, and those
\* whose line does not read (history.py:39, 52), which a rebuild drops.
IndexCovers ==
    /\ index \subseteq journal
    /\ journal \subseteq index \cup orphans \cup Split \cup UNION {entry[p] : p \in Processes}
=============================================================================
