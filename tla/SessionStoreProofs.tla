-------------------------- MODULE SessionStoreProofs --------------------------
(* Durability of the session history for any number of events and of states *)
(* that callers keep, with calls that die between any two steps, appends    *)
(* that are torn and events whose line does not read.                       *)
EXTENDS SessionStore, NaturalsInduction, WellFoundedInduction, TLAPS

\* The greatest of a non-empty bounded set of numbers is one of them.
LEMMA MaxOfBounded ==
  ASSUME NEW n \in Nat, NEW S \in SUBSET (0 .. n), S # {}
  PROVE  Max(S) \in S /\ \A x \in S : x <= Max(S)
<1> DEFINE R == OpToRel(<, Nat)
           T == {n - x : x \in S}
<1>1. IsWellFoundedOn(R, Nat)
  BY NatLessThanWellFounded
<1>2. \A i, j \in Nat : <<j, i>> \in R <=> j < i
  BY DEF OpToRel
<1> HIDE DEF R
<1>3. T \subseteq Nat /\ T # {}
  <2>1. \A x \in S : n - x \in Nat
    OBVIOUS
  <2> QED BY <2>1
<1> HIDE DEF T
<1>4. PICK t \in T : \A u \in T : ~(<<u, t>> \in R)
  BY <1>1, <1>3, WFMin
<1>5. \A u \in T : t <= u
  <2>1. \A u \in T : ~(u < t)
    BY <1>2, <1>3, <1>4
  <2> QED BY <1>3, <2>1
<1>6. PICK m \in S : t = n - m
  BY DEF T
<1>7. \A x \in S : n - x \in T
  BY DEF T
<1>8. \A x \in S : x <= m
  BY <1>5, <1>6, <1>7
<1>9. \E y \in S : \A x \in S : y >= x
  BY <1>8
<1> QED
  BY <1>9 DEF Max

-----------------------------------------------------------------------------
(* Types.                                                                  *)

\* What is made of the first n events.
EventsTo(n) == [seq : 1 .. n, id : 1 .. n]
CopyTo(n)   == [there : BOOLEAN, events : SUBSET EventsTo(n)]
Unreads     == {Unread("skipped"), Unread("raises")}
LinesTo(n)  == Unreads \cup [reads : {"event"}, event : EventsTo(n), prev : 0 .. n]

TInv ==
    /\ born \in 0 .. MaxEvents /\ recorded \subseteq EventsTo(born)
    /\ snapshot \in CopyTo(born) /\ digest \in CopyTo(born)
    /\ state \subseteq EventsTo(born) /\ kept \subseteq SUBSET EventsTo(born)
    /\ journal \in Seq(LinesTo(born))
    /\ ragged \in BOOLEAN /\ unread \subseteq recorded
    /\ passed \in BOOLEAN /\ forked \in BOOLEAN /\ pc \in {"free", "run", "digest"}

LEMMA SeqGrows == ASSUME NEW S, NEW T, S \subseteq T PROVE Seq(S) \subseteq Seq(T)
  OBVIOUS

\* Later there may be more events, and what there was still is.
LEMMA EventsGrow ==
  ASSUME NEW m \in Nat, NEW n \in Nat, m <= n
  PROVE  /\ EventsTo(m) \subseteq EventsTo(n) /\ CopyTo(m) \subseteq CopyTo(n)
         /\ LinesTo(m) \subseteq LinesTo(n) /\ Seq(LinesTo(m)) \subseteq Seq(LinesTo(n))
         /\ SUBSET EventsTo(m) \subseteq SUBSET EventsTo(n)
<1>1. 1 .. m \subseteq 1 .. n /\ 0 .. m \subseteq 0 .. n
  OBVIOUS
<1>2. EventsTo(m) \subseteq EventsTo(n)
  BY <1>1 DEF EventsTo
<1>3. CopyTo(m) \subseteq CopyTo(n)
  BY <1>2 DEF CopyTo
<1>4. LinesTo(m) \subseteq LinesTo(n)
  BY <1>1, <1>2 DEF LinesTo
<1> QED BY <1>2, <1>3, <1>4, SeqGrows

LEMMA TInvType == TInv => TypeOK
<1> SUFFICES ASSUME TInv PROVE TypeOK
  OBVIOUS
<1>1. born \in Nat /\ MaxEvents \in Nat /\ born <= MaxEvents
  BY BoundAssumption DEF TInv
<1>2. EventsTo(MaxEvents) = Event /\ CopyTo(MaxEvents) = Copy
  BY DEF EventsTo, CopyTo, Event, Copy
<1>3. LinesTo(MaxEvents) = {Unread("skipped"), Unread("raises")} \cup
        [reads : {"event"}, event : Event, prev : 0 .. MaxEvents]
  BY <1>2 DEF LinesTo, Unreads
<1>4. /\ EventsTo(born) \subseteq Event /\ CopyTo(born) \subseteq Copy
      /\ Seq(LinesTo(born)) \subseteq Seq(LinesTo(MaxEvents))
      /\ SUBSET EventsTo(born) \subseteq SUBSET Event
  BY <1>1, <1>2, EventsGrow
<1> QED BY <1>3, <1>4 DEF TInv, TypeOK

\* A line that reads as no event is one of two.
LEMMA UnreadLines == /\ \A l \in Unreads : l.reads # "event"
                     /\ Garbage \in Unreads
                     /\ \A t \in {"skipped", "raises"} : Unread(t) \in Unreads
<1>1. Unread("skipped").reads = "skipped" /\ Unread("raises").reads = "raises"
  BY Zenon DEF Unread
<1> QED BY <1>1 DEF Unreads, Garbage

\* The lines that read have events in them.
LEMMA WholeLines ==
  ASSUME TInv
  PROVE  /\ \A i \in Whole : /\ i \in DOMAIN journal /\ journal[i].event \in EventsTo(born)
                             /\ journal[i].event.id \in 0 .. born
         /\ Journaled \subseteq EventsTo(born) /\ Loaded \subseteq EventsTo(born)
         /\ Len(journal) \in Nat /\ DOMAIN journal = 1 .. Len(journal)
<1>1. \A i \in DOMAIN journal : journal[i] \in LinesTo(born)
  BY DEF TInv
<1>2. ASSUME NEW i \in Whole PROVE i \in DOMAIN journal /\ journal[i].event \in EventsTo(born)
  <2>1. i \in DOMAIN journal /\ journal[i].reads = "event"
    BY DEF Whole
  <2>2. journal[i] \notin Unreads
    BY <2>1, UnreadLines
  <2>3. journal[i] \in [reads : {"event"}, event : EventsTo(born), prev : 0 .. born]
    BY <1>1, <2>1, <2>2 DEF LinesTo
  <2> QED BY <2>1, <2>3
<1>3. \A e \in EventsTo(born) : e.id \in 0 .. born
  BY DEF EventsTo, TInv
<1>4. Journaled \subseteq EventsTo(born)
  BY <1>2 DEF Journaled
<1>5. snapshot.events \subseteq EventsTo(born)
  BY DEF TInv, CopyTo
<1>6. Loaded \subseteq EventsTo(born)
  BY <1>4, <1>5 DEF Loaded
<1> QED BY <1>2, <1>3, <1>4, <1>6 DEF TInv

\* The hash of one line: of its event, or the empty one.
HashOf(i) == IF i \in Whole THEN journal[i].event.id ELSE 0

LEMMA HashOfLine == ASSUME NEW i \in Nat PROVE HashAt(Whole \cap {i}) = HashOf(i)
<1>1. CASE i \in Whole
  <2>1. {i} \in SUBSET (0 .. i) /\ {i} # {} /\ Whole \cap {i} = {i}
    BY <1>1
  <2>2. Max({i}) = i
    BY <2>1, MaxOfBounded
  <2> QED BY <1>1, <2>1, <2>2 DEF HashAt, HashOf
<1>2. CASE i \notin Whole
  <2>1. Whole \cap {i} = {}
    BY <1>2
  <2> QED BY <1>2, <2>1 DEF HashAt, HashOf
<1> QED BY <1>1, <1>2

LEMMA HashTyped == ASSUME TInv PROVE LastHash = HashOf(Len(journal)) /\ LastHash \in 0 .. born
<1>1. LastHash = HashOf(Len(journal))
  BY WholeLines, HashOfLine DEF LastHash
<1>2. HashOf(Len(journal)) \in 0 .. born
  BY WholeLines DEF HashOf, TInv
<1> QED BY <1>1, <1>2

\* A new event is numbered above all that its state has.
LEMMA FreshTyped ==
  ASSUME TInv
  PROVE  /\ Fresh \in EventsTo(born + 1)
         /\ \A e \in state : e.seq < Fresh.seq
<1> DEFINE S == SeqsOf(state) \cup {0}
<1>1. state \subseteq EventsTo(born) /\ born \in Nat
  BY DEF TInv
<1>2. S \in SUBSET (0 .. born) /\ S # {}
  BY <1>1 DEF SeqsOf, EventsTo
<1>3. Max(S) \in S /\ \A x \in S : x <= Max(S)
  BY <1>1, <1>2, MaxOfBounded
<1>4. \A e \in state : e.seq \in S
  BY DEF SeqsOf
<1>5. Fresh = [seq |-> Max(S) + 1, id |-> born + 1]
  BY DEF Fresh
<1> HIDE DEF S
<1>6. Max(S) \in 0 .. born /\ \A x \in S : x \in Nat
  <2>1. \A x \in S : x \in 0 .. born
    BY ONLY <1>2
  <2> QED BY ONLY <1>1, <1>3, <2>1
<1>7. Max(S) + 1 \in 1 .. born + 1 /\ born + 1 \in 1 .. born + 1
  BY <1>1, <1>6
<1>8. Fresh \in EventsTo(born + 1) /\ Fresh.seq = Max(S) + 1
  BY <1>5, <1>7 DEF EventsTo
<1>9. \A e \in state : e.seq < Max(S) + 1
  BY <1>3, <1>4, <1>6
<1> QED BY <1>8, <1>9

\* What a caller may keep.
LEMMA KeepTyped ==
  ASSUME NEW n \in Nat, NEW S \in SUBSET EventsTo(n), kept \subseteq SUBSET EventsTo(n),
         MayKeep(S) \/ UNCHANGED kept
  PROVE  kept' \subseteq SUBSET EventsTo(n)
  BY DEF MayKeep

\* What one append writes.
LEMMA WrittenTyped ==
  ASSUME TInv, NEW n \in Nat, born <= n, NEW l \in LinesTo(n),
         ragged => Len(journal) \in DOMAIN journal, journal' = Written(l)
  PROVE  journal' \in Seq(LinesTo(n))
<1>1. journal \in Seq(LinesTo(n))
  <2>1. born \in Nat
    BY DEF TInv
  <2> QED BY <2>1, EventsGrow DEF TInv
<1>2. Behind(l) \in LinesTo(n)
  BY UnreadLines DEF Behind, LinesTo
<1>3. CASE ragged
  <2>1. journal' = [journal EXCEPT ![Len(journal)] = Behind(l)]
    BY <1>3 DEF Written
  <2>2. Len(journal) \in Nat /\ DOMAIN journal = 1 .. Len(journal)
    BY <1>1
  <2>3. journal \in [1 .. Len(journal) -> LinesTo(n)]
    BY <1>1
  <2> PICK k \in Nat : k = Len(journal)
    BY <2>2
  <2> DEFINE L == LinesTo(n)
             b == Behind(l)
  <2>4. journal \in [1 .. k -> L] /\ b \in L /\ journal' = [journal EXCEPT ![k] = b]
    BY <1>2, <2>1, <2>3
  <2> HIDE DEF L, b
  <2>5. journal' \in [1 .. k -> L]
    BY ONLY <2>4
  <2>6. journal' \in Seq(L)
    BY ONLY <2>5
  <2> QED BY <2>6 DEF L
<1>4. CASE ~ragged
  <2>1. journal' = Append(journal, l)
    BY <1>4 DEF Written
  <2> QED BY <1>1, <2>1
<1> QED BY <1>3, <1>4

\* The journal: an unfinished line does not read, every event whose append
\* returned is in a line or is counted unread, and every line that reads
\* continues the one before it.
JInv ==
    /\ ragged => Len(journal) \in DOMAIN journal /\ Len(journal) \notin Whole
    /\ recorded \subseteq Journaled \cup unread
    /\ \A i \in Whole : journal[i].prev = HashOf(i - 1)

LEMMA InitTInv == Init => TInv /\ JInv
<1> SUFFICES ASSUME Init PROVE TInv /\ JInv
  OBVIOUS
<1>1. NoCopy \in CopyTo(0)
  BY DEF NoCopy, CopyTo
<1>2. journal \in Seq(LinesTo(0)) /\ born = 0 /\ Whole = {}
  BY <1>1 DEF Init, Whole
<1>3. 0 \in 0 .. MaxEvents
  BY BoundAssumption
<1> QED BY <1>1, <1>2, <1>3 DEF Init, TInv, JInv

\* The line that an event's append writes.
LEMMA LineTyped ==
  ASSUME TInv, NEW t \in Texts
  PROVE  /\ LineAs(t) \in LinesTo(born + 1)
         /\ LineAs(t).reads = "event" <=> t = "event"
         /\ t = "event" => LineAs(t).event = Fresh /\ LineAs(t).prev = LastHash
<1>1. t \in {"event", "skipped", "raises"}
  BY DEF Texts
<1>2. CASE t = "event"
  <2>1. Fresh \in EventsTo(born + 1) /\ LastHash \in 0 .. born + 1
    BY FreshTyped, HashTyped DEF TInv
  <2>2. LineAs(t) = [reads |-> "event", event |-> Fresh, prev |-> LastHash]
    BY <1>2, Zenon DEF LineAs, Line
  <2> QED BY <1>2, <2>1, <2>2 DEF LinesTo
<1>3. CASE t # "event"
  <2>1. LineAs(t) \in Unreads
    BY <1>1, <1>3, UnreadLines DEF LineAs
  <2> QED BY <1>3, <2>1, UnreadLines DEF LinesTo
<1> QED BY <1>2, <1>3

LEMMA NextTInv == TInv /\ JInv /\ [Next]_vars => TInv'
<1> SUFFICES ASSUME TInv, JInv, [Next]_vars PROVE TInv'
  OBVIOUS
<1>1. CASE UNCHANGED vars
  BY <1>1 DEF vars, diskVars, memVars, TInv
<1>2. CASE Start \/ Resume \/ Peek \/ \E S \in kept : Rerun(S)
  <2>1. Loaded \subseteq EventsTo(born) /\ born \in Nat
    BY WholeLines DEF TInv
  <2>2. UNCHANGED <<diskVars, born, recorded, unread>> /\ pc' \in {"free", "run"}
    BY <1>2 DEF Start, Resume, Peek, Rerun, Take
  <2>3. /\ state' \subseteq EventsTo(born) /\ passed' \in BOOLEAN /\ forked' \in BOOLEAN
    BY <1>2, <2>1 DEF Start, Resume, Peek, Rerun, Take, TInv
  <2>4. kept' \subseteq SUBSET EventsTo(born)
    BY <1>2, <2>1, KeepTyped DEF Start, Resume, Peek, Rerun, TInv
  <2> QED BY <2>2, <2>3, <2>4 DEF TInv, diskVars
<1>3. CASE Record \/ RecordTorn
  <2>1. /\ born < MaxEvents /\ born' = born + 1
        /\ born \in Nat /\ MaxEvents \in Nat /\ snapshot' = snapshot /\ digest' = digest
    BY <1>3, BoundAssumption DEF Record, RecordTorn, TInv
  <2>2. born + 1 \in 0 .. MaxEvents /\ born + 1 \in Nat /\ born <= born + 1
    BY <2>1
  <2>3. /\ EventsTo(born) \subseteq EventsTo(born + 1) /\ CopyTo(born) \subseteq CopyTo(born + 1)
        /\ SUBSET EventsTo(born) \subseteq SUBSET EventsTo(born + 1)
    BY <2>1, <2>2, EventsGrow
  <2>4. Fresh \in EventsTo(born + 1) /\ state \cup {Fresh} \in SUBSET EventsTo(born + 1)
    BY <2>3, FreshTyped DEF TInv
  <2>5. PICK l \in LinesTo(born + 1) : journal' = Written(l)
    <3>1. CASE Record
      BY <3>1, LineTyped DEF Record
    <3>2. CASE RecordTorn
      BY <3>2, UnreadLines DEF RecordTorn, LinesTo
    <3> QED BY <1>3, <3>1, <3>2
  <2>6. journal' \in Seq(LinesTo(born + 1))
    BY <2>2, <2>5, WrittenTyped DEF JInv
  <2>7. kept' \subseteq SUBSET EventsTo(born + 1)
    <3>1. kept \subseteq SUBSET EventsTo(born + 1)
      BY <2>3 DEF TInv
    <3>2. MayKeep(state \cup {Fresh}) \/ UNCHANGED kept
      BY <1>3 DEF Record, RecordTorn, Drop
    <3> QED BY <2>2, <2>4, <3>1, <3>2, KeepTyped
  <2>8. /\ recorded' \subseteq EventsTo(born + 1) /\ unread' \subseteq recorded'
        /\ snapshot \in CopyTo(born + 1) /\ digest \in CopyTo(born + 1)
    <3>1. recorded \subseteq EventsTo(born + 1) /\ unread \subseteq recorded
      BY <2>3 DEF TInv
    <3>2. /\ recorded' \in {recorded, recorded \cup {Fresh}}
          /\ unread' # unread => /\ unread' = unread \cup {Fresh}
                                 /\ recorded' = recorded \cup {Fresh}
          /\ recorded \subseteq recorded'
      BY <1>3 DEF Record, RecordTorn
    <3> QED BY <2>3, <2>4, <3>1, <3>2 DEF TInv
  <2>9. /\ state' = state \cup {Fresh} /\ ragged' \in BOOLEAN /\ passed' \in BOOLEAN
        /\ forked' \in BOOLEAN /\ pc' \in {"free", "run", "digest"}
    BY <1>3 DEF Record, RecordTorn, Drop, TInv
  <2> QED BY <2>1, <2>2, <2>4, <2>6, <2>7, <2>8, <2>9 DEF TInv
<1>4. CASE Compact
  <2>1. /\ state' \subseteq state
        /\ UNCHANGED <<diskVars, passed, kept, pc, born, recorded, unread, forked>>
    BY <1>4 DEF Compact
  <2> QED BY <2>1 DEF TInv, diskVars
<1>5. CASE SaveSnapshot \/ SaveDigest
  <2>1. CopyOf(state) \in CopyTo(born)
    BY DEF TInv, CopyTo, CopyOf
  <2> QED BY <1>5, <2>1 DEF SaveSnapshot, SaveDigest, TInv, memVars
<1>6. CASE Return \/ Die
  <2>1. UNCHANGED <<diskVars, state, born, recorded, unread, forked>> /\ pc' = "free" /\ passed' = FALSE
    BY <1>6 DEF Return, Die, Drop
  <2>2. kept' \subseteq SUBSET EventsTo(born)
    BY <1>6, KeepTyped DEF Return, Die, Drop, TInv
  <2> QED BY <2>1, <2>2 DEF TInv, diskVars
<1> QED BY <1>1, <1>2, <1>3, <1>4, <1>5, <1>6 DEF Next
-----------------------------------------------------------------------------
(* The journal.                                                            *)

\* The hash of the lines up to the n-th is the n-th's.
LEMMA HashOfLast ==
  ASSUME NEW n \in Nat \ {0}, NEW S \in SUBSET (1 .. n), n \in S
  PROVE  HashAt(S) = journal[n].event.id
<1>1. S \in SUBSET (0 .. n) /\ S # {}
  OBVIOUS
<1>2. Max(S) \in S /\ n <= Max(S)
  BY <1>1, MaxOfBounded
<1>3. Max(S) = n
  <2> DEFINE m == Max(S)
  <2>1. m \in 0 .. n /\ n <= m
    BY <1>1, <1>2
  <2> HIDE DEF m
  <2>2. m = n
    BY <2>1
  <2> QED BY <2>2 DEF m
<1> QED BY <1>1, <1>3 DEF HashAt

\* The journal after an append: its last line, numbered n, is the new one or an
\* unfinished one that does not read.
LEMMA OneLineMore ==
  ASSUME TInv, JInv, NEW m, NEW l \in LinesTo(m), journal' = Written(l)
  PROVE  \E n \in Nat \ {0} :
           /\ DOMAIN journal' = 1 .. n /\ n \notin Whole
           /\ \A i \in Whole : i \in 1 .. (n - 1)
           /\ \A i \in 1 .. (n - 1) : i \in DOMAIN journal /\ journal'[i] = journal[i]
           /\ journal'[n] = IF ragged THEN Behind(l) ELSE l
           /\ ~ragged => Len(journal) = n - 1
           /\ Whole' = IF ragged \/ l.reads # "event" THEN Whole ELSE Whole \cup {n}
<1>1. Len(journal) \in Nat /\ DOMAIN journal = 1 .. Len(journal) /\ Whole \subseteq DOMAIN journal
  BY WholeLines DEF Whole
<1>2. Behind(l).reads # "event"
  BY UnreadLines DEF Behind
<1>3. CASE ragged
  <2> DEFINE n == Len(journal)
  <2>1. n \in DOMAIN journal /\ n \notin Whole /\ n \in Nat \ {0}
    BY <1>1, <1>3 DEF JInv
  <2>2. journal' = [journal EXCEPT ![n] = Behind(l)]
    BY <1>3 DEF Written
  <2>3. DOMAIN journal' = 1 .. n
    BY <1>1, <2>2
  <2>4. journal'[n] = Behind(l) /\ \A i \in 1 .. n : i # n => journal'[i] = journal[i]
    BY <1>1, <2>1, <2>2
  <2> HIDE DEF n
  <2>5. \A i \in 1 .. n : i # n <=> i \in 1 .. (n - 1)
    BY <2>1
  <2>6. 1 .. (n - 1) \subseteq 1 .. n /\ Whole \subseteq 1 .. n
    BY <1>1, <2>1 DEF n
  <2>7. Whole' = Whole
    BY <1>1, <1>2, <2>1, <2>3, <2>4 DEF Whole, n
  <2>8. /\ \A i \in Whole : i \in 1 .. (n - 1)
        /\ \A i \in 1 .. (n - 1) : i \in DOMAIN journal /\ journal'[i] = journal[i]
    BY <1>1, <2>1, <2>4, <2>5, <2>6 DEF n
  <2> QED BY <1>3, <2>1, <2>3, <2>4, <2>7, <2>8
<1>4. CASE ~ragged
  <2> DEFINE n == Len(journal) + 1
  <2>1. journal' = Append(journal, l)
    BY <1>4 DEF Written
  <2>2. /\ DOMAIN journal' = 1 .. n /\ journal'[n] = l
        /\ \A i \in 1 .. Len(journal) : journal'[i] = journal[i]
    BY <2>1 DEF TInv
  <2>3. /\ n \in Nat \ {0} /\ Len(journal) = n - 1 /\ n \notin 1 .. Len(journal)
        /\ \A i \in 1 .. n : i \in 1 .. Len(journal) \/ i = n
        /\ n \in 1 .. n /\ 1 .. Len(journal) \subseteq 1 .. n
    BY <1>1
  <2> HIDE DEF n
  <2>4. Whole' = IF l.reads # "event" THEN Whole ELSE Whole \cup {n}
    BY <1>1, <2>2, <2>3 DEF Whole
  <2>5. n \notin Whole /\ \A i \in Whole : i \in 1 .. (n - 1)
    BY <1>1, <2>3
  <2> QED BY <1>1, <1>4, <2>2, <2>3, <2>4, <2>5
<1> QED BY <1>3, <1>4

\* What the append of an event, whole or torn, does to the journal's events.
LEMMA JournalStep ==
  ASSUME TInv, JInv, Record \/ RecordTorn
  PROVE  /\ journal' # <<>> /\ Journaled' \subseteq Journaled \cup {Fresh}
         /\ JInv'
<1>1. PICK l : /\ l \in LinesTo(born + 1) /\ journal' = Written(l)
               /\ ~ragged /\ l.reads = "event" => l.event = Fresh /\ l.prev = LastHash
               /\ RecordTorn => l.reads # "event"
               /\ Record => unread' = IF ragged \/ l.reads # "event"
                                      THEN unread \cup {Fresh} ELSE unread
  <2>1. CASE Record
    <3>1. PICK t \in Texts :
             /\ journal' = Written(LineAs(t))
             /\ unread' = IF ragged \/ t # "event" THEN unread \cup {Fresh} ELSE unread
      BY <2>1 DEF Record
    <3>2. ~RecordTorn
      BY <2>1 DEF Record, RecordTorn, TInv, Drop
    <3> QED BY <3>1, <3>2, LineTyped
  <2>2. CASE RecordTorn
    <3>1. ~Record
      BY <2>2 DEF Record, RecordTorn, TInv, Drop
    <3>2. Garbage \in LinesTo(born + 1) /\ Garbage.reads # "event"
      BY UnreadLines DEF LinesTo
    <3> QED BY <2>2, <3>1, <3>2 DEF RecordTorn
  <2> QED BY <2>1, <2>2
<1>2. PICK n \in Nat \ {0} :
           /\ DOMAIN journal' = 1 .. n /\ n \notin Whole
           /\ \A i \in Whole : i \in 1 .. (n - 1)
           /\ \A i \in 1 .. (n - 1) : i \in DOMAIN journal /\ journal'[i] = journal[i]
           /\ journal'[n] = IF ragged THEN Behind(l) ELSE l
           /\ ~ragged => Len(journal) = n - 1
           /\ Whole' = IF ragged \/ l.reads # "event" THEN Whole ELSE Whole \cup {n}
  BY <1>1, OneLineMore
<1>3. \A i \in Whole : journal'[i] = journal[i]
  BY <1>2
<1>4. Journaled' = IF ragged \/ l.reads # "event" THEN Journaled ELSE Journaled \cup {Fresh}
  <2>1. CASE ragged \/ l.reads # "event"
    BY <1>2, <1>3, <2>1 DEF Journaled
  <2>2. CASE ~(ragged \/ l.reads # "event")
    <3>1. journal'[n].event = Fresh /\ Whole' = Whole \cup {n}
      BY <1>1, <1>2, <2>2
    <3> QED BY <1>3, <2>2, <3>1 DEF Journaled
  <2> QED BY <2>1, <2>2
<1>5. journal' # <<>> /\ Len(journal') = n
  <2>1. journal' \in Seq(LinesTo(born + 1))
    <3>1. born \in Nat
      BY DEF TInv
    <3> QED BY <1>1, <3>1, WrittenTyped DEF JInv
  <2>2. Len(journal') \in Nat /\ DOMAIN journal' = 1 .. Len(journal')
    BY <2>1
  <2>3. Len(journal') = n
    BY <1>2, <2>2
  <2> QED BY <1>2, <2>3
<1>6. ragged' => Len(journal') \in DOMAIN journal' /\ Len(journal') \notin Whole'
  <2> SUFFICES ASSUME ragged' PROVE n \in 1 .. n /\ n \notin Whole'
    BY <1>2, <1>5
  <2>1. RecordTorn
    BY DEF Record
  <2> QED BY <1>1, <1>2, <2>1
<1>7. recorded' \subseteq Journaled' \cup unread'
  <2>1. CASE Record
    <3>1. recorded' = recorded \cup {Fresh}
      BY <2>1 DEF Record
    <3> QED BY <1>1, <1>4, <2>1, <3>1 DEF JInv
  <2>2. CASE RecordTorn
    BY <1>4, <2>2 DEF RecordTorn, JInv
  <2> QED BY <2>1, <2>2
<1>8. ASSUME NEW i \in Whole' PROVE journal'[i].prev = HashOf(i - 1)'
  <2>1. CASE i \in Whole
    <3>1. i \in 1 .. (n - 1) /\ i - 1 # n /\ journal'[i].prev = HashOf(i - 1)
      BY <1>2, <1>3, <2>1 DEF JInv
    <3>2. i - 1 \in Whole' <=> i - 1 \in Whole
      BY <1>2, <3>1
    <3> QED BY <1>3, <3>1, <3>2 DEF HashOf
  <2>2. CASE i \notin Whole
    <3>1. i = n /\ ~ragged /\ l.reads = "event" /\ Whole' = Whole \cup {n}
      BY <1>2, <2>2
    <3>2. journal'[i].prev = HashOf(n - 1)
      BY <1>1, <1>2, <3>1, HashTyped
    <3>3. n - 1 \in Whole' <=> n - 1 \in Whole
      BY <1>2, <3>1
    <3> QED BY <1>3, <3>1, <3>2, <3>3 DEF HashOf
  <2> QED BY <2>1, <2>2
<1> QED BY <1>4, <1>5, <1>6, <1>7, <1>8 DEF JInv

LEMMA NextJInv == TInv /\ JInv /\ [Next]_vars => JInv'
<1> SUFFICES ASSUME TInv, JInv, [Next]_vars PROVE JInv'
  OBVIOUS
<1>1. CASE Record \/ RecordTorn
  BY <1>1, JournalStep
<1>2. CASE ~(Record \/ RecordTorn)
  <2>1. UNCHANGED <<journal, ragged, recorded, unread>>
    BY <1>2 DEF Next, vars, diskVars, memVars, Start, Resume, Peek, Rerun, Take, Compact,
       SaveSnapshot, SaveDigest, Return, Die
  <2> QED BY <2>1 DEF JInv, Whole, Journaled, HashOf
<1> QED BY <1>1, <1>2

LEMMA TInvAlways == Spec => [](TInv /\ JInv)
  BY InitTInv, NextTInv, NextJInv, PTL DEF Spec

\* For all faults, texts and reuse of states, a snapshot, its digest, the states
\* in memory and the journal are made of events of the session, numbered and
\* identified by those created so far.
THEOREM TypeCorrect == Spec => []TypeOK
  BY TInvAlways, TInvType, PTL

\* A snapshot whose save ended loads again, wherever calls died since and
\* whatever states they went on from, unless a journal line makes the reader
\* raise or an event was recorded behind one that the reader skips
\* (runtime.py:239-271, history.py:38-68, history.py:162-172).
THEOREM OnlyUnreadLinesLock == Spec => []ResumableUnlessUnread
<1>1. TInv /\ JInv => ResumableUnlessUnread
  <2> SUFFICES ASSUME TInv, JInv, ~EventBehindUnread, NEW i \in Whole
               PROVE  journal[i].prev = HashAt({j \in Whole : j < i})
    BY DEF ResumableUnlessUnread, Loadable, ChainHolds
  <2> DEFINE S == {j \in Whole : j < i}
  <2>1. /\ Whole \subseteq 1 .. Len(journal) /\ Len(journal) \in Nat
        /\ journal[i].prev = HashOf(i - 1)
    BY WholeLines DEF JInv
  <2>0. \A j \in Whole : j \in Nat /\ 1 <= j
    BY <2>1
  <2>2. CASE i = 1
    <3>1. S = {} /\ 0 \notin Whole
      <4>1. \A j \in Whole : ~(j < 1)
        BY <2>0
      <4>2. 0 \notin Whole
        BY <2>0
      <4> QED BY <2>2, <4>1, <4>2
    <3> QED BY <2>1, <2>2, <3>1 DEF HashAt, HashOf
  <2>3. CASE i # 1
    <3>0. i \in Nat /\ 1 <= i /\ i - 1 \in Nat \ {0}
      BY <2>0, <2>3
    <3> PICK n \in Nat \ {0} : n = i - 1
      BY <3>0
    <3>1. n \in Whole
      <4>1. n \in 1 .. (i - 1)
        BY <3>0
      <4> QED BY <4>1 DEF EventBehindUnread
    <3>2. S \in SUBSET (1 .. n) /\ n \in S
      <4>1. n < i /\ \A j \in Nat : j < i => j <= n
        BY <3>0
      <4>2. \A j \in S : j \in Nat /\ 1 <= j /\ j <= n
        BY <2>0, <4>1
      <4>3. n \in S
        BY <3>1, <4>1
      <4> HIDE DEF S
      <4>4. \A j \in S : j \in 1 .. n
        BY ONLY <4>2
      <4> QED BY ONLY <4>3, <4>4
    <3>3. HashAt(S) = journal[n].event.id
      BY <3>2, HashOfLast
    <3> QED BY <2>1, <3>1, <3>3 DEF HashOf
  <2> QED BY <2>2, <2>3
<1> QED BY <1>1, TInvAlways, PTL
-----------------------------------------------------------------------------
(* The numbers of the events.                                              *)

\* What is on disk of a session.
Disk == snapshot.events \cup Journaled

OneEach(S)    == \A d, e \in S : d.seq = e.seq => d = e
Reaches(T, S) == \A e \in S : \E f \in T : e.seq <= f.seq

\* The state that a session is continued from: it ends at the newest event of
\* the disk or a later one, and no number names two events of both.
Continues(S) == /\ OneEach(Disk \cup S) /\ Reaches(S, Disk)
                /\ journal = <<>> => S = {} /\ Disk = {}

UInv == ~forked => Continues(state)

LEMMA DiskTyped ==
  ASSUME TInv
  PROVE  /\ Disk \subseteq EventsTo(born) /\ state \subseteq EventsTo(born)
         /\ \A e \in EventsTo(born) : e.seq \in Nat
<1>1. snapshot.events \subseteq EventsTo(born) /\ state \subseteq EventsTo(born)
  BY DEF TInv, CopyTo
<1>2. \A e \in EventsTo(born) : e.seq \in Nat
  BY DEF EventsTo
<1> QED BY <1>1, <1>2, WholeLines DEF Disk

\* Loading leaves out no journaled event: a number names one.
LEMMA LoadsDisk == ASSUME OneEach(Disk) PROVE Loaded = Disk
<1>1. ASSUME NEW e \in Journaled PROVE e \in Loaded
  <2>1. CASE e.seq \in SeqsOf(snapshot.events)
    <3>1. PICK d \in snapshot.events : d.seq = e.seq
      BY <2>1 DEF SeqsOf
    <3>2. d = e
      BY <3>1 DEF OneEach, Disk
    <3> QED BY <3>2 DEF Loaded
  <2>2. CASE e.seq \notin SeqsOf(snapshot.events)
    BY <2>2 DEF Loaded
  <2> QED BY <2>1, <2>2
<1> QED BY <1>1 DEF Loaded, Disk

\* A call that goes on from the last state, from the loaded one or, in a new
\* session, from none.
LEMMA CallStep ==
  ASSUME TInv, UInv, Start \/ Resume \/ Peek \/ \E S \in kept : Rerun(S)
  PROVE  UInv'
<1> SUFFICES ASSUME ~forked' PROVE Continues(state)'
  BY DEF UInv
<1>0. ~forked
  BY Zenon DEF Start, Resume, Peek, Rerun
<1>1. UNCHANGED <<snapshot, journal>> /\ ~forked
  BY <1>0 DEF Start, Resume, Peek, Rerun, Take, diskVars
<1>2. Disk' = Disk /\ Continues(state)
  BY <1>1 DEF Disk, Journaled, Whole, UInv
<1>3. CASE Start
  <2>1. journal = <<>> /\ Disk = {} /\ state' = {}
    BY <1>2, <1>3 DEF Start, Take, Continues
  <2> QED BY <1>1, <1>2, <2>1 DEF Continues, OneEach, Reaches
<1>4. CASE Resume \/ Peek
  <2>1. OneEach(Disk)
    BY <1>2 DEF Continues, OneEach
  <2>2. state' = Disk
    BY <1>4, <2>1, LoadsDisk DEF Resume, Take, Peek
  <2>3. OneEach(Disk \cup Disk) /\ Reaches(Disk, Disk)
    <3>1. \A e \in Disk : e.seq <= e.seq
      BY DiskTyped
    <3> QED BY <2>1, <3>1 DEF OneEach, Reaches
  <2> QED BY <1>1, <1>2, <2>2, <2>3 DEF Continues
<1>5. CASE \E S \in kept : Rerun(S)
  <2>1. state' = state
    BY <1>5 DEF Rerun, Take
  <2> QED BY <1>1, <1>2, <2>1 DEF Continues
<1> QED BY <1>3, <1>4, <1>5

LEMMA RecordStep == ASSUME TInv, JInv, UInv, Record \/ RecordTorn PROVE UInv'
<1> SUFFICES ASSUME ~forked' PROVE Continues(state)'
  BY DEF UInv
<1>1. UNCHANGED <<snapshot, forked>> /\ state' = state \cup {Fresh}
  BY DEF Record, RecordTorn, Drop
<1>2. OneEach(Disk \cup state) /\ Reaches(state, Disk)
  BY <1>1 DEF UInv, Continues
<1>3. Fresh \in EventsTo(born + 1) /\ \A e \in state : e.seq < Fresh.seq
  BY FreshTyped
<1>4. Fresh.seq \in Nat /\ \A e \in Disk \cup state : e.seq \in Nat
  <2>1. born \in Nat
    BY DEF TInv
  <2>2. Fresh.seq \in Nat
    BY <1>3, <2>1 DEF EventsTo
  <2> QED BY <2>2, DiskTyped
<1>5. \A e \in Disk \cup state : e.seq < Fresh.seq
  <2> SUFFICES ASSUME NEW e \in Disk PROVE e.seq < Fresh.seq
    BY <1>3
  <2>1. PICK f \in state : e.seq <= f.seq
    BY <1>2 DEF Reaches
  <2> QED BY <1>3, <1>4, <2>1
<1>6. Disk' \subseteq Disk \cup {Fresh} /\ journal' # <<>>
  BY <1>1, JournalStep DEF Disk
<1>7. OneEach(Disk \cup state \cup {Fresh})
  <2> SUFFICES ASSUME NEW d \in Disk \cup state \cup {Fresh}, NEW e \in Disk \cup state \cup {Fresh},
                      d.seq = e.seq
               PROVE  d = e
    BY DEF OneEach
  <2>1. CASE d \in Disk \cup state /\ e \in Disk \cup state
    BY <1>2, <2>1 DEF OneEach
  <2>2. \A x \in Disk \cup state : x.seq # Fresh.seq
    BY <1>4, <1>5
  <2> QED BY <2>1, <2>2
<1>8. Reaches(state \cup {Fresh}, Disk \cup {Fresh})
  <2>1. \A e \in Disk \cup {Fresh} : e.seq <= Fresh.seq
    BY <1>4, <1>5
  <2> QED BY <2>1 DEF Reaches
<1>9. OneEach(Disk' \cup state') /\ Reaches(state', Disk')
  BY <1>1, <1>6, <1>7, <1>8 DEF OneEach, Reaches
<1> QED BY <1>6, <1>9 DEF Continues

LEMMA CompactStep == ASSUME TInv, UInv, Compact PROVE UInv'
<1> SUFFICES ASSUME ~forked' PROVE Continues(state)'
  BY DEF UInv
<1>1. UNCHANGED <<snapshot, journal, forked>>
  BY DEF Compact, diskVars
<1>2. /\ OneEach(Disk \cup state) /\ Reaches(state, Disk)
      /\ journal = <<>> => state = {} /\ Disk = {}
  BY <1>1 DEF UInv, Continues
<1>3. PICK S \in SUBSET state : S # state /\ Max(SeqsOf(state)) \in SeqsOf(S) /\ state' = S
  BY DEF Compact
<1>4. PICK g \in S : g.seq = Max(SeqsOf(state))
  BY <1>3 DEF SeqsOf
<1>5. \A f \in state : f.seq <= g.seq /\ f.seq \in Nat
  <2>1. state \subseteq EventsTo(born) /\ born \in Nat
    BY DEF TInv
  <2>2. SeqsOf(state) \in SUBSET (0 .. born) /\ SeqsOf(state) # {} /\ \A f \in state : f.seq \in SeqsOf(state)
    BY <1>4, <2>1 DEF SeqsOf, EventsTo
  <2> DEFINE T == SeqsOf(state)
  <2>3. Max(T) = g.seq /\ T \in SUBSET (0 .. born) /\ T # {}
    BY <1>4, <2>2
  <2>4. \A f \in state : f.seq \in T
    BY <2>2
  <2> HIDE DEF T
  <2>5. \A x \in T : x <= Max(T)
    BY ONLY <2>1, <2>3, MaxOfBounded
  <2>6. \A x \in T : x \in Nat
    BY ONLY <2>1, <2>3
  <2> QED BY ONLY <2>3, <2>4, <2>5, <2>6
<1>6. Reaches(S, Disk)
  <2> SUFFICES ASSUME NEW e \in Disk PROVE \E f \in S : e.seq <= f.seq
    BY DEF Reaches
  <2>1. PICK f \in state : e.seq <= f.seq
    BY <1>2 DEF Reaches
  <2>2. e.seq \in Nat /\ f.seq \in Nat /\ g.seq \in Nat /\ f.seq <= g.seq
    BY <1>5, DiskTyped
  <2>3. e.seq <= g.seq
    BY <2>1, <2>2
  <2> QED BY <2>3
<1>7. Disk' = Disk
  BY <1>1 DEF Disk, Journaled, Whole
<1>8. OneEach(Disk \cup S)
  BY <1>2 DEF OneEach
<1>9. journal = <<>> => S = {} /\ Disk = {}
  BY <1>2
<1> QED BY <1>1, <1>3, <1>6, <1>7, <1>8, <1>9 DEF Continues

LEMMA SaveStep == ASSUME TInv, UInv, SaveSnapshot \/ SaveDigest PROVE UInv'
<1> SUFFICES ASSUME ~forked' PROVE Continues(state)'
  BY DEF UInv
<1>1. /\ UNCHANGED <<journal, state, forked>>
      /\ snapshot' \in {snapshot, CopyOf(state)}
      /\ CopyOf(state).events = state
  BY DEF SaveSnapshot, SaveDigest, CopyOf, memVars
<1>2. /\ OneEach(Disk \cup state) /\ Reaches(state, Disk)
      /\ journal = <<>> => state = {} /\ Disk = {}
  BY <1>1 DEF UInv, Continues
<1>3. Disk' \subseteq Disk \cup state
  BY <1>1 DEF Disk, Journaled, Whole
<1>4. OneEach(Disk' \cup state)
  BY <1>2, <1>3 DEF OneEach
<1>5. Reaches(state, Disk')
  <2>1. \A e \in state : e.seq <= e.seq
    BY DiskTyped
  <2> QED BY <1>2, <1>3, <2>1 DEF Reaches
<1>6. journal = <<>> => state = {} /\ Disk' = {}
  BY <1>2, <1>3
<1> QED BY <1>1, <1>4, <1>5, <1>6 DEF Continues

LEMMA NextUInv == TInv /\ JInv /\ UInv /\ [Next]_vars => UInv'
<1> SUFFICES ASSUME TInv, JInv, UInv, [Next]_vars PROVE UInv'
  OBVIOUS
<1>1. CASE UNCHANGED vars \/ Return \/ Die
  <2>1. UNCHANGED <<snapshot, journal, state, forked>>
    BY <1>1 DEF vars, diskVars, memVars, Return, Die, Drop
  <2> QED BY <2>1 DEF UInv, Continues, Disk, Journaled, Whole
<1>2. CASE Start \/ Resume \/ Peek \/ \E S \in kept : Rerun(S)
  BY <1>2, CallStep
<1>3. CASE Record \/ RecordTorn \/ Compact \/ SaveSnapshot \/ SaveDigest
  BY <1>3, RecordStep, CompactStep, SaveStep
<1> QED BY <1>1, <1>2, <1>3 DEF Next

LEMMA UInvAlways == Spec => []UInv
<1>1. Init => UInv
  BY DEF Init, UInv, Continues, Disk, Journaled, Whole, OneEach, Reaches, NoCopy
<1> QED BY <1>1, NextUInv, TInvAlways, PTL DEF Spec

\* Whenever a session can be loaded, a sequence number names one event of it,
\* whatever the calls died of, were compacted to, tore or could not write
\* readably, as long as each went on from the state of the one before
\* (runtime.py:258-271).
THEOREM SequencesAreUnique == Spec => []UniqueSequences
<1>1. UInv => UniqueSequences
  <2> SUFFICES ASSUME UInv, ~forked PROVE OneEach(Loaded)
    BY DEF UniqueSequences, OneEach
  <2>1. OneEach(Disk)
    BY DEF UInv, Continues, OneEach
  <2> QED BY <2>1, LoadsDisk
<1> QED BY <1>1, UInvAlways, PTL

\* Under the same condition loading returns every event whose append returned
\* and whose own line reads as an event (runtime.py:249-271).
THEOREM HistoryIsDurable == Spec => []NoEventLost
<1>1. UInv /\ JInv => NoEventLost
  <2> SUFFICES ASSUME UInv, JInv, ~forked PROVE recorded \subseteq Loaded \cup unread
    BY DEF NoEventLost
  <2>1. OneEach(Disk)
    BY DEF UInv, Continues, OneEach
  <2> QED BY <2>1, LoadsDisk DEF Disk, JInv
<1> QED BY <1>1, UInvAlways, TInvAlways, PTL
=============================================================================
