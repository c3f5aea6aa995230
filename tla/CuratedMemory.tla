--------------------------- MODULE CuratedMemory ---------------------------
(***************************************************************************)
(* CuratedMemoryStore (memory.py): candidates.jsonl, memory.jsonl and the  *)
(* promotion ledger of one memory root, written under the promotion lock   *)
(* by threads and processes that may die between any two writes.  A        *)
(* worker asks to stage only while a candidate is left.                    *)
(*                                                                         *)
(* The lock is a thread lock and an flock: the system frees it when its    *)
(* holder dies.  A dying write may leave a fragment of a line; a fragment  *)
(* does not parse, and neither does the line it is glued to, nor a whole   *)
(* one that splitlines() breaks: lines are written with ensure_ascii=False *)
(* and may hold a line separator of Unicode.                               *)
(***************************************************************************)
EXTENDS Naturals, Sequences, Functions

CONSTANTS
    Workers,    \* threads and processes that share the root
    Candidates, \* staged texts, told apart by _candidate_id
    KindOf,     \* each candidate's kind
    SessionOf,  \* each candidate's session
    Keep,       \* the keep argument of prune
    Separators, \* whether a text or its evidence may hold a line separator
    MaxCalls,   \* bound: calls one worker makes
    MaxTorn     \* bound: writes torn by a death

Kinds == {"success", "failure_avoidance", "preference"}

ASSUME WorkersAssumption    == "none" \notin Workers
ASSUME CandidatesAssumption == KindOf \in [Candidates -> Kinds] /\ DOMAIN SessionOf = Candidates
ASSUME OptionAssumption     == Separators \in BOOLEAN
ASSUME BoundsAssumption     == Keep \in Nat /\ MaxCalls \in Nat /\ MaxTorn \in Nat

VARIABLES
    staged,     \* candidates.jsonl: what its lines parse to
    promoted,   \* memory.jsonl
    ledger,     \* promotion-ledger.jsonl
    ragged,     \* files that end in a fragment
    holder,     \* who has the promotion lock
    pc,         \* where each worker is
    todo,       \* candidates a curate call has yet to look at, its rejects left out
    subject,    \* the candidate, if any, with an item and no ledger line yet
    retained,   \* what a prune call writes back
    calls,      \* calls each worker has made
    torn,       \* history: torn writes
    written,    \* history: items each candidate has been given
    unledgered, \* history: of those, the ones whose ledger line was not kept
    lost        \* history: candidates whose item was pruned or did not parse

files == <<staged, promoted, ledger, ragged>>
histories == <<written, unledgered, lost>>
local == <<todo, subject, retained>>
vars == <<files, holder, pc, local, calls, torn, histories>>

Files     == {"staged", "promoted", "ledger"}
Entries   == {"stage", "read", "prune"}
Positions == Entries \cup {"idle", "consider", "ledger", "replace", "dead"}

Init ==
    /\ staged = <<>> /\ promoted = <<>> /\ ledger = {} /\ ragged = {}
    /\ holder = "none"
    /\ pc = [w \in Workers |-> "idle"]
    /\ todo = [w \in Workers |-> {}] /\ subject = [w \in Workers |-> {}]
    /\ retained = [w \in Workers |-> <<>>]
    /\ calls = [w \in Workers |-> 0]
    /\ torn = 0
    /\ written = [c \in Candidates |-> 0]
    /\ unledgered = [c \in Candidates |-> 0]
    /\ lost = {}

Goto(w, place) == pc' = [pc EXCEPT ![w] = place]
Leave(w) == holder' = "none" /\ Goto(w, "idle")

\* A line appended to a fragment is part of it.
Kept(f) == f \notin ragged

\* Whether an item's line reads, and what its file parses to with it.
Readings == IF Separators THEN BOOLEAN ELSE {TRUE}
Appended(seq, f, x, reads) == IF Kept(f) /\ reads THEN Append(seq, x) ELSE seq
-----------------------------------------------------------------------------
\* Mutant: only threads of one process are kept apart.
EnterLocal(w, place) ==
    /\ pc[w] = "idle" /\ calls[w] < MaxCalls
    /\ place = "stage" => Range(staged) # Candidates
    /\ calls' = [calls EXCEPT ![w] = @ + 1]
    /\ holder' = w
    /\ Goto(w, place)
    /\ UNCHANGED <<files, local, torn, histories>>

\* Mutant: prune reads the memory before it takes the lock.
EnterPruneEarly(w, place) ==
    /\ pc[w] = "idle" /\ calls[w] < MaxCalls
    /\ place = "stage" => Range(staged) # Candidates
    /\ holder = "none" \/ place = "prune"
    /\ calls' = [calls EXCEPT ![w] = @ + 1]
    /\ holder' = IF place = "prune" THEN holder ELSE w
    /\ Goto(w, place)
    /\ UNCHANGED <<files, local, torn, histories>>

\* _promotion_lock is had; a worker that waits for it has not started yet.
Enter(w, place) ==
    /\ pc[w] = "idle" /\ calls[w] < MaxCalls
    /\ place = "stage" => Range(staged) # Candidates
    /\ holder = "none"
    /\ calls' = [calls EXCEPT ![w] = @ + 1]
    /\ holder' = w
    /\ Goto(w, place)
    /\ UNCHANGED <<files, local, torn, histories>>

\* stage: a staged text is new, its identity has the time in it.
Stage(w) ==
    /\ pc[w] = "stage"
    /\ \E c \in Candidates \ Range(staged), reads \in Readings :
         staged' = Appended(staged, "staged", c, reads)
    /\ ragged' = ragged \ {"staged"}
    /\ Leave(w)
    /\ UNCHANGED <<promoted, ledger, local, calls, torn, histories>>

\* The reviewer's answer counts for failures only, a preference is never
\* promoted.  Without a reviewer no failure passes.
Accepts(c, evidence, approves) ==
    \/ KindOf[c] = "success" /\ evidence
    \/ KindOf[c] = "failure_avoidance" /\ approves

\* curate reads the session's candidates, and takes them in any order here.
CurateRead(w) ==
    /\ pc[w] = "read"
    /\ \E s \in Range(SessionOf), evidence \in BOOLEAN, approves \in BOOLEAN :
         todo' = [todo EXCEPT ![w] = {c \in Range(staged) :
                    SessionOf[c] = s /\ Accepts(c, evidence, approves)}]
    /\ Goto(w, "consider")
    /\ UNCHANGED <<files, holder, subject, retained, calls, torn, histories>>

Skip(w) ==
    /\ pc[w] = "consider"
    /\ \E c \in todo[w] \cap ledger : todo' = [todo EXCEPT ![w] = @ \ {c}]
    /\ UNCHANGED <<files, holder, pc, subject, retained, calls, torn, histories>>

\* The item is written first, so a death before AppendLedger promotes twice.
Promote(w) ==
    /\ pc[w] = "consider"
    /\ \E c \in todo[w] \ ledger, reads \in Readings :
         /\ promoted' = Appended(promoted, "promoted", c, reads)
         /\ lost' = IF Kept("promoted") /\ reads THEN lost \ {c} ELSE lost \cup {c}
         /\ written' = [written EXCEPT ![c] = @ + 1]
         /\ unledgered' = [unledgered EXCEPT ![c] = @ + 1]
         /\ todo' = [todo EXCEPT ![w] = @ \ {c}]
         /\ subject' = [subject EXCEPT ![w] = {c}]
    /\ ragged' = ragged \ {"promoted"}
    /\ Goto(w, "ledger")
    /\ UNCHANGED <<staged, ledger, holder, retained, calls, torn>>

AppendLedger(w) ==
    /\ pc[w] = "ledger"
    /\ IF Kept("ledger")
       THEN /\ ledger' = ledger \cup subject[w]
            /\ unledgered' = [c \in Candidates |->
                                IF c \in subject[w] THEN unledgered[c] - 1 ELSE unledgered[c]]
       ELSE UNCHANGED <<ledger, unledgered>>
    /\ ragged' = ragged \ {"ledger"}
    /\ subject' = [subject EXCEPT ![w] = {}]
    /\ Goto(w, "consider")
    /\ UNCHANGED <<staged, promoted, holder, todo, retained, calls, torn, written, lost>>

Curated(w) ==
    /\ pc[w] = "consider" /\ todo[w] = {}
    /\ Leave(w)
    /\ UNCHANGED <<files, local, calls, torn, histories>>

\* Items are in the order of their age, so the expired ones come first; of
\* the others the newest Keep stay.  A Keep of 0 keeps all: so does seq[-0:].
Newest(seq) ==
    SubSeq(seq, IF Keep > 0 /\ Len(seq) > Keep THEN Len(seq) - Keep + 1 ELSE 1, Len(seq))

PruneRead(w) ==
    /\ pc[w] = "prune"
    /\ \E expired \in 0..Len(promoted) :
         LET left == Newest(SubSeq(promoted, expired + 1, Len(promoted))) IN
         /\ retained' = [retained EXCEPT ![w] = left]
         /\ lost' = lost \cup (Range(promoted) \ Range(left))
    /\ Goto(w, "replace")
    /\ UNCHANGED <<files, holder, todo, subject, calls, torn, written, unledgered>>

\* The temporary file replaces memory.jsonl in one step, fragment and all.
PruneReplace(w) ==
    /\ pc[w] = "replace"
    /\ promoted' = retained[w]
    /\ ragged' = ragged \ {"promoted"}
    /\ retained' = [retained EXCEPT ![w] = <<>>]
    /\ Leave(w)
    /\ UNCHANGED <<staged, ledger, todo, subject, calls, torn, histories>>

Forget(w) ==
    /\ todo' = [todo EXCEPT ![w] = {}] /\ subject' = [subject EXCEPT ![w] = {}]
    /\ retained' = [retained EXCEPT ![w] = <<>>]

\* The file the worker's next step appends to.
Target(w) ==
    CASE pc[w] = "stage"  -> "staged"
      [] pc[w] = "ledger" -> "ledger"
      [] pc[w] = "consider" /\ todo[w] \ ledger # {} -> "promoted"
      [] OTHER -> "none"

\* Mutant: the lock is a file that its holder removes.
DieHolding(w) ==
    /\ pc[w] # "dead"
    /\ Goto(w, "dead")
    /\ Forget(w)
    /\ UNCHANGED <<files, holder, calls, torn, histories>>

\* A death frees the lock and may leave a fragment of the line being written.
Die(w) ==
    /\ pc[w] # "dead"
    /\ \/ UNCHANGED <<torn, ragged>>
       \/ /\ torn < MaxTorn /\ Target(w) \in Files
          /\ torn' = torn + 1 /\ ragged' = ragged \cup {Target(w)}
    /\ holder' = IF holder = w THEN "none" ELSE holder
    /\ Goto(w, "dead")
    /\ Forget(w)
    /\ UNCHANGED <<staged, promoted, ledger, calls, histories>>

\* A process starts anew in a dead one's place.
Restart(w) ==
    /\ pc[w] = "dead"
    /\ Goto(w, "idle")
    /\ UNCHANGED <<files, holder, local, calls, torn, histories>>
-----------------------------------------------------------------------------
Step(w) ==
    \/ Stage(w)
    \/ CurateRead(w) \/ Skip(w) \/ Promote(w) \/ AppendLedger(w) \/ Curated(w)
    \/ PruneRead(w) \/ PruneReplace(w)

Next == \E w \in Workers :
    \/ \E place \in Entries : Enter(w, place)
    \/ Step(w)
    \/ Die(w)
    \/ Restart(w)

Spec == Init /\ [][Next]_vars

\* A thread that holds the lock is run; nobody has to call, and may die.
FairSpec == Spec /\ \A w \in Workers : WF_vars(Step(w))
-----------------------------------------------------------------------------
\* Types, and that the steps of stage, curate and prune (memory.py) are taken
\* by the holder of the promotion lock alone.
TypeOK ==
    /\ staged \in Seq(Candidates) /\ promoted \in Seq(Candidates)
    /\ ledger \subseteq Candidates
    /\ ragged \subseteq Files
    /\ holder \in Workers \cup {"none"}
    /\ pc \in [Workers -> Positions]
    /\ \A w \in Workers : pc[w] \notin {"idle", "dead"} => holder = w
    /\ todo \in [Workers -> SUBSET Candidates]
    /\ subject \in [Workers -> SUBSET Candidates]
    /\ retained \in [Workers -> Seq(Candidates)]
    /\ calls \in [Workers -> Nat]
    /\ torn \in 0..MaxTorn
    /\ written \in [Candidates -> Nat] /\ unledgered \in [Candidates -> Nat]
    /\ lost \subseteq Candidates

\* README "memory promotion is idempotent": a candidate gets a second item
\* only after a ledger line of its own was not written or not kept.
PromotedOnce == \A c \in Candidates : written[c] <= unledgered[c] + 1

\* curate: a candidate the ledger keeps from being promoted again has its
\* item in memory.jsonl, unless a prune dropped it, a fragment took it, or its
\* line does not read because its evidence breaks it (memory.py:155, 249).
LedgeredIsRecallable == ledger \subseteq Range(promoted) \cup lost

\* _promotion_lock: whatever its holder does or dies of, the lock comes free.
LockComesFree == \A w \in Workers : holder = w ~> holder # w
=============================================================================
