------------------------ MODULE CuratedMemoryProofs ------------------------
(* Idempotent and lasting promotion, for any workers, candidates, kinds,   *)
(* sessions and bounds, whatever dies and whatever is torn.                *)
EXTENDS CuratedMemory, SequenceTheorems, TLAPS

InCurate == {"consider", "ledger"}

\* The candidate between its item and its ledger line is one, and not ledgered.
SubjectIsFresh ==
    \A w \in Workers :
        /\ pc[w] # "ledger" => subject[w] = {}
        /\ pc[w] = "ledger" => \E c \in Candidates \ ledger :
                                 /\ subject[w] = {c}
                                 /\ unledgered[c] > 0
                                 /\ c \in Range(promoted) \cup lost

\* An item without its ledger line is counted by unledgered.
LedgerCounts ==
    \A c \in Candidates :
        written[c] <= unledgered[c] + (IF c \in ledger THEN 1 ELSE 0)

\* What a prune call is about to drop is recorded, and nothing is added
\* between its two steps.
RetainedCovers ==
    \A w \in Workers : pc[w] = "replace" =>
        Range(promoted) \subseteq Range(retained[w]) \cup lost

IInv == TypeOK /\ SubjectIsFresh /\ LedgerCounts /\ RetainedCovers /\ LedgeredIsRecallable

-----------------------------------------------------------------------------
LEMMA AppendRange ==
  ASSUME NEW S, NEW s \in Seq(S), NEW x \in S
  PROVE  /\ Append(s, x) \in Seq(S)
         /\ Range(Append(s, x)) = Range(s) \cup {x}
<1> DEFINE t == Append(s, x)
<1>1. /\ t \in Seq(S) /\ Len(t) = Len(s) + 1
      /\ \A i \in 1..Len(s) : t[i] = s[i]
      /\ t[Len(s) + 1] = x
  BY AppendProperties
<1>2. DOMAIN t = 1..(Len(s) + 1) /\ DOMAIN s = 1..Len(s) /\ Len(s) \in Nat
  BY <1>1
<1> HIDE DEF t
<1>3. Range(t) = Range(s) \cup {x}
  BY <1>1, <1>2 DEF Range
<1> QED BY <1>1, <1>3 DEF t

\* Appending to a file keeps what it parses to, and adds the line if it
\* reads, unless a fragment takes it.
LEMMA AppendedRange ==
  ASSUME NEW S, NEW s \in Seq(S), NEW x \in S, NEW f, NEW reads
  PROVE  /\ Appended(s, f, x, reads) \in Seq(S)
         /\ Range(Appended(s, f, x, reads))
              = IF Kept(f) /\ reads THEN Range(s) \cup {x} ELSE Range(s)
<1>1. CASE Kept(f) /\ reads
  BY <1>1, AppendRange DEF Appended
<1>2. CASE ~(Kept(f) /\ reads)
  <2>1. Appended(s, f, x, reads) = s
    BY <1>2 DEF Appended
  <2> QED BY <1>2, <2>1
<1> QED BY <1>1, <1>2

\* The others are outside while one worker is inside the lock.
LEMMA OthersOutside ==
  ASSUME TypeOK, NEW w \in Workers, pc[w] \notin {"idle", "dead"}
  PROVE  holder = w /\ \A v \in Workers \ {w} : pc[v] \in {"idle", "dead"}
BY DEF TypeOK

LEMMA NewestInSeq ==
  ASSUME NEW s \in Seq(Candidates), NEW n \in 0..Len(s)
  PROVE  Newest(SubSeq(s, n + 1, Len(s))) \in Seq(Candidates)
<1> DEFINE t == SubSeq(s, n + 1, Len(s))
           first == IF Keep > 0 /\ Len(t) > Keep THEN Len(t) - Keep + 1 ELSE 1
<1>1. t \in Seq(Candidates)
  <2>1. \A i \in (n + 1)..Len(s) : s[i] \in Candidates
    BY ElementOfSeq
  <2> QED BY <2>1, SubSeqProperties
<1> HIDE DEF t
<1>2. Len(t) \in Nat /\ first \in 1..(Len(t) + 1)
  BY <1>1, BoundsAssumption
<1> HIDE DEF first
<1>3. \A i \in first..Len(t) : t[i] \in Candidates
  BY <1>1, <1>2
<1>4. SubSeq(t, first, Len(t)) \in Seq(Candidates)
  BY <1>1, <1>2, <1>3, SubSeqProperties
<1> QED BY <1>4 DEF Newest, t, first

LEMMA InitIInv == Init => IInv
<1> SUFFICES ASSUME Init PROVE IInv
  OBVIOUS
<1>1. TypeOK
  <2>1. <<>> \in Seq(Candidates)
    OBVIOUS
  <2> QED BY <2>1, BoundsAssumption DEF Init, TypeOK, Positions, Entries, Files
<1>2. SubjectIsFresh /\ LedgerCounts /\ RetainedCovers /\ LedgeredIsRecallable
  BY DEF Init, SubjectIsFresh, LedgerCounts, RetainedCovers, LedgeredIsRecallable
<1> QED BY <1>1, <1>2 DEF IInv

\* Steps that leave the promotion files and their histories alone, and in
\* which at most one worker moves, to a place with nothing in hand.
LEMMA QuietStep ==
  ASSUME IInv, TypeOK', NEW w \in Workers, NEW place \in Positions,
         Goto(w, place), place \notin {"ledger", "replace"},
         UNCHANGED <<promoted, ledger, histories>>,
         subject' = [subject EXCEPT ![w] = {}],
         \A v \in Workers \ {w} : retained'[v] = retained[v]
  PROVE  IInv'
<1> USE DEF IInv, histories
<1>1. \A v \in Workers \ {w} : pc'[v] = pc[v] /\ subject'[v] = subject[v]
  BY DEF TypeOK, Goto
<1>2. pc'[w] = place /\ subject'[w] = {}
  BY DEF TypeOK, Goto
<1>3. SubjectIsFresh'
  BY <1>1, <1>2 DEF SubjectIsFresh
<1>4. LedgerCounts' /\ LedgeredIsRecallable'
  BY DEF LedgerCounts, LedgeredIsRecallable
<1>5. RetainedCovers'
  BY <1>1, <1>2 DEF RetainedCovers
<1> QED BY <1>3, <1>4, <1>5

LEMMA EnterStep ==
  ASSUME IInv, NEW w \in Workers, NEW place \in Entries, Enter(w, place)
  PROVE  IInv'
<1>0. \A v \in Workers : pc[v] \in {"idle", "dead"}
  BY WorkersAssumption DEF IInv, TypeOK, Enter
<1>1. TypeOK'
  <2>1. holder' = w /\ \A v \in Workers : pc'[v] \notin {"idle", "dead"} => holder' = v
    BY <1>0 DEF IInv, TypeOK, Enter, Goto
  <2>2. calls' \in [Workers -> Nat] /\ pc' \in [Workers -> Positions]
    BY DEF IInv, TypeOK, Enter, Goto, Positions, Entries
  <2> QED BY <2>1, <2>2 DEF IInv, TypeOK, Enter, files, local, histories
<1>2. subject' = [subject EXCEPT ![w] = {}]
  BY DEF IInv, TypeOK, SubjectIsFresh, Enter, local
<1>3. place \in Positions /\ place \notin {"ledger", "replace"}
  BY DEF Positions, Entries
<1> QED BY <1>1, <1>2, <1>3, QuietStep DEF Enter, files, local, histories

LEMMA StageStep == ASSUME IInv, NEW w \in Workers, Stage(w) PROVE IInv'
<1>1. staged' \in Seq(Candidates)
  <2>1. PICK c \in Candidates, reads \in Readings :
          staged' = Appended(staged, "staged", c, reads)
    BY DEF Stage
  <2> QED BY <2>1, AppendedRange DEF IInv, TypeOK
<1>2. TypeOK'
  BY <1>1, OthersOutside DEF IInv, TypeOK, Stage, Leave, Goto, local, histories, Positions
<1>3. subject' = [subject EXCEPT ![w] = {}]
  BY DEF IInv, TypeOK, SubjectIsFresh, Stage, local
<1> QED BY <1>2, <1>3, QuietStep DEF Stage, Leave, local, histories, Positions

LEMMA CurateReadStep == ASSUME IInv, NEW w \in Workers, CurateRead(w) PROVE IInv'
<1>1. todo' \in [Workers -> SUBSET Candidates]
  <2>1. Range(staged) \subseteq Candidates
    BY ElementOfSeq DEF IInv, TypeOK, Range
  <2> QED BY <2>1 DEF IInv, TypeOK, CurateRead
<1>2. TypeOK'
  BY <1>1 DEF IInv, TypeOK, CurateRead, Goto, files, histories, Positions
<1>3. subject' = [subject EXCEPT ![w] = {}]
  BY DEF IInv, TypeOK, SubjectIsFresh, CurateRead
<1> QED BY <1>2, <1>3, QuietStep DEF CurateRead, files, histories, Positions

LEMMA SkipStep == ASSUME IInv, NEW w \in Workers, Skip(w) PROVE IInv'
<1>1. TypeOK'
  BY DEF IInv, TypeOK, Skip, files, histories
<1>2. subject' = [subject EXCEPT ![w] = {}] /\ Goto(w, "consider")
  BY DEF IInv, TypeOK, SubjectIsFresh, Skip, Goto
<1> QED BY <1>1, <1>2, QuietStep DEF Skip, files, histories, Positions

LEMMA CuratedStep == ASSUME IInv, NEW w \in Workers, Curated(w) PROVE IInv'
<1>1. TypeOK'
  BY OthersOutside DEF IInv, TypeOK, Curated, Leave, Goto, files, local, histories, Positions
<1>2. subject' = [subject EXCEPT ![w] = {}]
  BY DEF IInv, TypeOK, SubjectIsFresh, Curated, local
<1> QED BY <1>1, <1>2, QuietStep DEF Curated, Leave, files, local, histories, Positions

LEMMA DieStep == ASSUME IInv, NEW w \in Workers, Die(w) PROVE IInv'
<1>1. torn' \in 0..MaxTorn /\ ragged' \subseteq Files
  BY BoundsAssumption DEF IInv, TypeOK, Die
<1>2. <<>> \in Seq(Candidates)
  OBVIOUS
<1>3. /\ holder' \in Workers \cup {"none"}
      /\ \A v \in Workers : pc'[v] \notin {"idle", "dead"} => holder' = v
  BY DEF IInv, TypeOK, Die, Goto
<1>4. TypeOK'
  BY <1>1, <1>2, <1>3 DEF IInv, TypeOK, Die, Goto, Forget, histories, Positions
<1>5. subject' = [subject EXCEPT ![w] = {}]
  BY DEF Die, Forget
<1>6. \A v \in Workers \ {w} : retained'[v] = retained[v]
  BY DEF IInv, TypeOK, Die, Forget
<1> QED BY <1>4, <1>5, <1>6, QuietStep DEF Die, histories, Positions

LEMMA RestartStep == ASSUME IInv, NEW w \in Workers, Restart(w) PROVE IInv'
<1>1. TypeOK'
  BY DEF IInv, TypeOK, Restart, Goto, files, local, histories, Positions
<1>2. subject' = [subject EXCEPT ![w] = {}]
  BY DEF IInv, TypeOK, SubjectIsFresh, Restart, local
<1> QED BY <1>1, <1>2, QuietStep DEF Restart, files, local, histories, Positions
-----------------------------------------------------------------------------
LEMMA PromoteStep == ASSUME IInv, NEW w \in Workers, Promote(w) PROVE IInv'
<1> USE DEF IInv
<1>1. PICK c \in todo[w] \ ledger, reads \in Readings :
        /\ promoted' = Appended(promoted, "promoted", c, reads)
        /\ lost' = IF Kept("promoted") /\ reads THEN lost \ {c} ELSE lost \cup {c}
        /\ written' = [written EXCEPT ![c] = @ + 1]
        /\ unledgered' = [unledgered EXCEPT ![c] = @ + 1]
        /\ todo' = [todo EXCEPT ![w] = @ \ {c}]
        /\ subject' = [subject EXCEPT ![w] = {c}]
  BY DEF Promote
<1>2. c \in Candidates /\ c \notin ledger
  BY <1>1 DEF TypeOK
<1>3. /\ promoted' \in Seq(Candidates)
      /\ Range(promoted') = IF Kept("promoted") /\ reads
                             THEN Range(promoted) \cup {c} ELSE Range(promoted)
  <2>1. promoted \in Seq(Candidates)
    BY DEF TypeOK
  <2>2. /\ Appended(promoted, "promoted", c, reads) \in Seq(Candidates)
        /\ Range(Appended(promoted, "promoted", c, reads))
             = IF Kept("promoted") /\ reads THEN Range(promoted) \cup {c} ELSE Range(promoted)
    BY <1>2, <2>1, AppendedRange
  <2> QED BY <1>1, <2>2
<1>4. Range(promoted) \cup lost \cup {c} = Range(promoted') \cup lost'
  BY <1>1, <1>3
<1>5. /\ pc' = [pc EXCEPT ![w] = "ledger"] /\ ledger' = ledger
      /\ UNCHANGED <<staged, holder, retained, calls, torn>>
      /\ ragged' = ragged \ {"promoted"}
  BY DEF Promote, Goto
<1>6. /\ written' \in [Candidates -> Nat] /\ unledgered' \in [Candidates -> Nat]
      /\ todo' \in [Workers -> SUBSET Candidates]
      /\ subject' \in [Workers -> SUBSET Candidates]
      /\ lost' \subseteq Candidates
  BY <1>1, <1>2 DEF TypeOK
<1>7. pc[w] = "consider" /\ holder = w /\ \A v \in Workers \ {w} : pc[v] \in {"idle", "dead"}
  BY OthersOutside DEF Promote
<1>8. TypeOK'
  BY <1>3, <1>5, <1>6, <1>7 DEF TypeOK, Positions
<1>9. SubjectIsFresh'
  <2>1. pc'[w] = "ledger" /\ subject'[w] = {c} /\ unledgered'[c] > 0 /\ c \in Range(promoted') \cup lost'
    BY <1>1, <1>2, <1>4, <1>5 DEF TypeOK
  <2>2. \A v \in Workers \ {w} : pc'[v] # "ledger" /\ subject'[v] = {}
    BY <1>1, <1>5, <1>7 DEF TypeOK, SubjectIsFresh
  <2> QED BY <2>1, <2>2, <1>2, <1>5 DEF SubjectIsFresh
<1>10. LedgerCounts'
  BY <1>1, <1>2, <1>5 DEF TypeOK, LedgerCounts
<1>11. RetainedCovers'
  BY <1>5, <1>7 DEF TypeOK, RetainedCovers
<1>12. LedgeredIsRecallable'
  BY <1>4, <1>5 DEF LedgeredIsRecallable
<1> QED BY <1>8, <1>9, <1>10, <1>11, <1>12

LEMMA AppendLedgerStep == ASSUME IInv, NEW w \in Workers, AppendLedger(w) PROVE IInv'
<1> USE DEF IInv
<1>1. PICK c \in Candidates \ ledger :
        /\ subject[w] = {c} /\ unledgered[c] > 0 /\ c \in Range(promoted) \cup lost
  BY DEF AppendLedger, SubjectIsFresh
<1>2. pc[w] = "ledger" /\ holder = w /\ \A v \in Workers \ {w} : pc[v] \in {"idle", "dead"}
  BY OthersOutside DEF AppendLedger
<1>3. /\ pc' = [pc EXCEPT ![w] = "consider"]
      /\ subject' = [subject EXCEPT ![w] = {}]
      /\ UNCHANGED <<staged, promoted, holder, todo, retained, calls, torn, written, lost>>
      /\ ragged' = ragged \ {"ledger"}
  BY DEF AppendLedger, Goto
<1>4. /\ ledger' \subseteq Candidates /\ ledger \subseteq ledger' /\ ledger' \subseteq ledger \cup {c}
      /\ unledgered' \in [Candidates -> Nat]
      /\ \A d \in Candidates \ {c} : unledgered'[d] = unledgered[d]
      /\ c \in ledger' => unledgered'[c] = unledgered[c] - 1
      /\ c \notin ledger' => unledgered'[c] = unledgered[c]
  <2>1. CASE Kept("ledger")
    <3>1. /\ ledger' = ledger \cup {c}
          /\ unledgered' = [d \in Candidates |-> IF d \in {c} THEN unledgered[d] - 1 ELSE unledgered[d]]
      BY <1>1, <2>1 DEF AppendLedger
    <3>2. unledgered[c] - 1 \in Nat
      BY <1>1 DEF TypeOK
    <3> QED BY <1>1, <3>1, <3>2 DEF TypeOK
  <2>2. CASE ~Kept("ledger")
    BY <1>1, <2>2 DEF AppendLedger, TypeOK
  <2> QED BY <2>1, <2>2
<1>5. TypeOK'
  BY <1>2, <1>3, <1>4 DEF TypeOK, Positions
<1>6. SubjectIsFresh'
  BY <1>2, <1>3 DEF TypeOK, SubjectIsFresh
<1>7. LedgerCounts'
  <2> SUFFICES ASSUME NEW d \in Candidates
               PROVE  written'[d] <= unledgered'[d] + (IF d \in ledger' THEN 1 ELSE 0)
    BY DEF LedgerCounts
  <2>1. /\ written'[d] = written[d] /\ written[d] \in Nat /\ unledgered[d] \in Nat
        /\ written[d] <= unledgered[d] + (IF d \in ledger THEN 1 ELSE 0)
    BY <1>3 DEF TypeOK, LedgerCounts
  <2>2. CASE d = c
    BY <1>1, <1>4, <2>1, <2>2
  <2>3. CASE d # c
    BY <1>4, <2>1, <2>3
  <2> QED BY <2>2, <2>3
<1>8. RetainedCovers'
  BY <1>2, <1>3 DEF TypeOK, RetainedCovers
<1>9. LedgeredIsRecallable'
  BY <1>1, <1>3, <1>4 DEF LedgeredIsRecallable
<1> QED BY <1>5, <1>6, <1>7, <1>8, <1>9

LEMMA PruneReadStep == ASSUME IInv, NEW w \in Workers, PruneRead(w) PROVE IInv'
<1> USE DEF IInv
<1>1. PICK n \in 0..Len(promoted) :
        LET left == Newest(SubSeq(promoted, n + 1, Len(promoted))) IN
        /\ retained' = [retained EXCEPT ![w] = left]
        /\ lost' = lost \cup (Range(promoted) \ Range(left))
  BY DEF PruneRead
<1>2. PICK left \in Seq(Candidates) :
        /\ retained' = [retained EXCEPT ![w] = left]
        /\ lost' = lost \cup (Range(promoted) \ Range(left))
  BY <1>1, NewestInSeq DEF TypeOK
<1>3. /\ pc[w] = "prune" /\ pc' = [pc EXCEPT ![w] = "replace"]
      /\ UNCHANGED <<files, holder, todo, subject, calls, torn, written, unledgered>>
  BY DEF PruneRead, Goto
<1>4. holder = w /\ \A v \in Workers \ {w} : pc[v] \in {"idle", "dead"}
  BY <1>3, OthersOutside
<1>5. Range(promoted) \subseteq Candidates
  BY ElementOfSeq DEF TypeOK, Range
<1>6. TypeOK'
  BY <1>2, <1>3, <1>4, <1>5 DEF TypeOK, Positions, files
<1>7. SubjectIsFresh'
  BY <1>2, <1>3, <1>4 DEF TypeOK, SubjectIsFresh, files
<1>8. LedgerCounts' /\ LedgeredIsRecallable'
  BY <1>2, <1>3 DEF LedgerCounts, LedgeredIsRecallable, files
<1>9. RetainedCovers'
  <2>1. retained'[w] = left
    BY <1>2 DEF TypeOK
  <2> QED BY <1>2, <1>3, <1>4, <2>1 DEF TypeOK, RetainedCovers, files
<1> QED BY <1>6, <1>7, <1>8, <1>9

LEMMA PruneReplaceStep == ASSUME IInv, NEW w \in Workers, PruneReplace(w) PROVE IInv'
<1> USE DEF IInv
<1>1. pc[w] = "replace" /\ holder = w /\ \A v \in Workers \ {w} : pc[v] \in {"idle", "dead"}
  BY OthersOutside DEF PruneReplace
<1>2. /\ promoted' = retained[w] /\ retained' = [retained EXCEPT ![w] = <<>>]
      /\ ragged' = ragged \ {"promoted"}
      /\ holder' = "none" /\ pc' = [pc EXCEPT ![w] = "idle"]
      /\ UNCHANGED <<staged, ledger, todo, subject, calls, torn, histories>>
  BY DEF PruneReplace, Leave, Goto
<1>3. <<>> \in Seq(Candidates) /\ retained[w] \in Seq(Candidates)
  BY DEF TypeOK
<1>4. Range(promoted) \subseteq Range(promoted') \cup lost
  BY <1>1, <1>2 DEF RetainedCovers
<1>5. TypeOK'
  BY <1>1, <1>2, <1>3 DEF TypeOK, Positions, histories
<1>6. SubjectIsFresh'
  BY <1>1, <1>2 DEF TypeOK, SubjectIsFresh, histories
<1>7. LedgerCounts'
  BY <1>2 DEF LedgerCounts, histories
<1>8. LedgeredIsRecallable'
  BY <1>2, <1>4 DEF LedgeredIsRecallable, histories
<1>9. RetainedCovers'
  BY <1>1, <1>2 DEF TypeOK, RetainedCovers
<1> QED BY <1>5, <1>6, <1>7, <1>8, <1>9
-----------------------------------------------------------------------------
LEMMA NextIInv == IInv /\ [Next]_vars => IInv'
<1> SUFFICES ASSUME IInv, [Next]_vars PROVE IInv'
  OBVIOUS
<1>1. CASE UNCHANGED vars
  BY <1>1 DEF vars, files, local, histories, IInv, TypeOK, SubjectIsFresh, LedgerCounts,
              RetainedCovers, LedgeredIsRecallable
<1>2. CASE Next
  <2>1. PICK w \in Workers :
          \/ \E place \in Entries : Enter(w, place)
          \/ Step(w) \/ Die(w) \/ Restart(w)
    BY <1>2 DEF Next
  <2>2. CASE \E place \in Entries : Enter(w, place)
    BY <2>2, EnterStep
  <2>3. CASE Step(w)
    BY <2>3, StageStep, CurateReadStep, SkipStep, PromoteStep, AppendLedgerStep,
       CuratedStep, PruneReadStep, PruneReplaceStep DEF Step
  <2>4. CASE Die(w) \/ Restart(w)
    BY <2>4, DieStep, RestartStep
  <2> QED BY <2>1, <2>2, <2>3, <2>4
<1> QED BY <1>1, <1>2

\* Type correctness, and that only the lock's holder is inside stage, curate
\* or prune.
THEOREM MemoryTypeCorrect == Spec => []TypeOK
<1>1. IInv => TypeOK
  BY DEF IInv
<1> QED BY <1>1, InitIInv, NextIInv, PTL DEF Spec

\* curate gives a candidate one item more than it failed to ledger, at most.
THEOREM PromotionIsIdempotent == Spec => []PromotedOnce
<1>1. IInv => PromotedOnce
  <2> SUFFICES ASSUME IInv, NEW c \in Candidates
               PROVE  written[c] <= unledgered[c] + 1
    BY DEF PromotedOnce
  <2>1. written[c] \in Nat /\ unledgered[c] \in Nat
    BY DEF IInv, TypeOK
  <2> QED BY <2>1 DEF IInv, LedgerCounts
<1> QED BY <1>1, InitIInv, NextIInv, PTL DEF Spec

\* No interleaving of curate and prune, and no death, leaves a candidate
\* ledgered without its item, unless prune dropped it, a fragment took
\* it or its line does not read.
THEOREM PromotionLasts == Spec => []LedgeredIsRecallable
<1>1. IInv => LedgeredIsRecallable
  BY DEF IInv
<1> QED BY <1>1, InitIInv, NextIInv, PTL DEF Spec
=============================================================================
