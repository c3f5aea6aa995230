-------------------------- MODULE SkillStoreProofs --------------------------
(***************************************************************************)
(* Proofs about SkillStore, for any workers, texts and number of versions. *)
(***************************************************************************)
EXTENDS SkillStore, SequenceTheorems, TLAPS

\* A worker between its two writes: the version is there, the skill is not.
HalfWay == \E w \in Workers : pc[w] = "current"

\* A worker that is to save has one text.
HasText ==
    \A w \in Workers : pc[w] \in Inside \cup {"wait"} => \E t \in Texts : text[w] = {t}

\* The number a worker computed is still the next one; after the version is
\* written it is the newest, with the worker's text.
NumberIsNext ==
    \A w \in Workers :
        /\ pc[w] = "version" => number[w] = Len(versions) + 1
        /\ pc[w] = "current" => /\ number[w] = Len(versions) /\ Len(versions) # 0
                                /\ text[w] = {versions[number[w]]}

\* The skill is the newest version but for the saves that did not end.
Newest(f) ==
    /\ f.version \in 1..Len(versions)
    /\ f.text = versions[f.version]
    /\ HalfWay  => f.version + behind + 1 = Len(versions)
    /\ ~HalfWay => f.version + behind = Len(versions)

CurrentHolds == \A f \in current : Newest(f)

IInv == TypeOK /\ HasText /\ NumberIsNext /\ CurrentHolds
-----------------------------------------------------------------------------
\* Only the lock's holder is between its two writes.
LEMMA OneInside ==
    ASSUME TypeOK, NEW v \in Workers, NEW w \in Workers,
           pc[v] \in Inside, pc[w] \in Inside
    PROVE  v = w
  BY DEF TypeOK

LEMMA InitHolds == Init => IInv
<1> SUFFICES ASSUME Init PROVE IInv
  OBVIOUS
<1>1. TypeOK
  BY DEF Init, TypeOK, Positions, Inside
<1>2. HasText /\ NumberIsNext /\ CurrentHolds
  BY DEF Init, HasText, NumberIsNext, CurrentHolds, Inside
<1> QED
  BY <1>1, <1>2 DEF IInv

\* The type invariant is inductive together with HasText and NumberIsNext.
LEMMA TypeStep == IInv /\ [Next]_vars => TypeOK'
<1> SUFFICES ASSUME IInv, [Next]_vars PROVE TypeOK'
  OBVIOUS
<1> USE WorkersAssumption DEF IInv, TypeOK, Positions, Inside
<1>1. CASE Stage
  BY <1>1 DEF Stage
<1>2. CASE Delete
  BY <1>2 DEF Delete
<1>3. CASE \E w \in Workers : Curate(w) \/ Reject(w) \/ Accept(w) \/ Leave(w)
  <2> SUFFICES ASSUME NEW w \in Workers, Curate(w) \/ Reject(w) \/ Accept(w) \/ Leave(w)
               PROVE  TypeOK'
    BY <1>3
  <2>1. CASE Curate(w)
    BY <2>1 DEF Curate, Goto
  <2>2. CASE Reject(w)
    BY <2>2 DEF Reject
  <2>3. CASE Accept(w)
    BY <2>3 DEF Accept, Goto
  <2>4. CASE Leave(w)
    BY <2>4 DEF Leave, Goto
  <2> QED
    BY <2>1, <2>2, <2>3, <2>4
<1>4. CASE \E w \in Workers : Lock(w)
  BY <1>4 DEF Lock, Goto
<1>5. CASE \E w \in Workers : Count(w)
  <2> PICK w \in Workers : Count(w)
    BY <1>5
  <2>1. Len(versions) + 1 \in Nat
    BY LenProperties
  <2> QED
    BY <2>1 DEF Count, Goto
<1>6. CASE \E w \in Workers : WriteVersion(w)
  <2> PICK w \in Workers : WriteVersion(w)
    BY <1>6
  <2>1. number[w] = Len(versions) + 1
    BY DEF WriteVersion, NumberIsNext
  <2>2. versions' \in Seq(Texts)
    <3>1. PICK t \in text[w] : versions' = Append(versions, t)
      BY <2>1 DEF WriteVersion
    <3>2. t \in Texts
      OBVIOUS
    <3> QED
      BY <3>1, <3>2, AppendProperties
  <2> QED
    BY <2>2 DEF WriteVersion, Goto
<1>7. CASE \E w \in Workers : WriteCurrent(w)
  <2> PICK w \in Workers : WriteCurrent(w)
    BY <1>7
  <2>1. current' \subseteq [version : Nat, text : Texts]
    BY DEF WriteCurrent, File
  <2> QED
    BY <2>1 DEF WriteCurrent, Goto
<1>8. CASE \E w \in Workers : Die(w)
  BY <1>8 DEF Die, Goto
<1>9. CASE \E w \in Workers : Restart(w)
  BY <1>9 DEF Restart, Goto
<1>10. CASE UNCHANGED vars
  BY <1>10 DEF vars
<1> QED
  BY <1>1, <1>2, <1>3, <1>4, <1>5, <1>6, <1>7, <1>8, <1>9, <1>10 DEF Next

\* A step that writes no file keeps all, if nobody comes to save without a
\* text or leaves the place between the two writes.
LEMMA QuietStep ==
    ASSUME IInv, UNCHANGED <<versions, number, behind>>, current' \subseteq current,
           \A w \in Workers : pc'[w] \in {"version", "current"} <=> pc[w] \in {"version", "current"},
           \A w \in Workers : pc'[w] = "current" <=> pc[w] = "current",
           \A w \in Workers : pc'[w] \in Inside \cup {"wait"} =>
               \/ pc[w] \in Inside \cup {"wait"} /\ text'[w] = text[w]
               \/ pc'[w] = "wait" /\ \E t \in Texts : text'[w] = {t}
    PROVE  HasText' /\ NumberIsNext' /\ CurrentHolds'
<1> USE DEF IInv
<1>1. HasText'
  BY DEF HasText, Inside
<1>2. NumberIsNext'
  BY DEF NumberIsNext, Inside
<1>3. HalfWay' <=> HalfWay
  BY DEF HalfWay
<1>4. CurrentHolds'
  <2> SUFFICES ASSUME NEW f \in current' PROVE Newest(f)'
    BY DEF CurrentHolds
  <2>1. Newest(f)
    BY DEF CurrentHolds
  <2> QED
    BY <2>1, <1>3 DEF Newest
<1> QED
  BY <1>1, <1>2, <1>4

LEMMA RestStep == IInv /\ [Next]_vars => HasText' /\ NumberIsNext' /\ CurrentHolds'
<1> SUFFICES ASSUME IInv, [Next]_vars PROVE HasText' /\ NumberIsNext' /\ CurrentHolds'
  OBVIOUS
<1> TypeOK
  BY DEF IInv
<1>1. CASE Stage \/ Delete \/ UNCHANGED vars
  <2>1. UNCHANGED <<versions, number, behind, pc, text>> /\ current' \subseteq current
    BY <1>1 DEF Stage, Delete, vars
  <2> QED
    BY <2>1, QuietStep
<1>2. CASE \E w \in Workers : Curate(w) \/ Reject(w) \/ Leave(w) \/ Lock(w) \/ Restart(w)
  <2> PICK w \in Workers : Curate(w) \/ Reject(w) \/ Leave(w) \/ Lock(w) \/ Restart(w)
    BY <1>2
  <2>1. UNCHANGED <<versions, number, behind, current, text>>
    BY DEF Curate, Reject, Leave, Lock, Restart
  <2>2. \A v \in Workers : pc'[v] # pc[v] => /\ pc[v] \notin {"version", "current"}
                                             /\ pc'[v] \notin {"version", "current", "wait"}
                                             /\ pc'[v] \in Inside => pc[v] = "wait"
    BY DEF Curate, Reject, Leave, Lock, Restart, Goto, TypeOK, Inside
  <2> QED
    BY <2>1, <2>2, QuietStep DEF Inside
<1>3. CASE \E w \in Workers : Accept(w)
  <2> PICK w \in Workers : Accept(w)
    BY <1>3
  <2>1. UNCHANGED <<versions, number, behind, current>>
    BY DEF Accept
  <2>2. \E t \in Texts : text'[w] = {t}
    BY DEF Accept, TypeOK
  <2>3. /\ pc[w] = "review" /\ pc'[w] = "wait"
        /\ \A v \in Workers \ {w} : pc'[v] = pc[v] /\ text'[v] = text[v]
    BY DEF Accept, Goto, TypeOK
  <2> QED
    BY <2>1, <2>2, <2>3, QuietStep DEF Inside
<1>4. CASE \E w \in Workers : Count(w)
  <2> PICK w \in Workers : Count(w)
    BY <1>4
  <2>1. /\ pc[w] = "count" /\ pc'[w] = "version" /\ number'[w] = Len(versions) + 1
        /\ \A v \in Workers \ {w} : pc'[v] = pc[v] /\ number'[v] = number[v]
        /\ UNCHANGED <<versions, current, text, behind>>
    BY DEF Count, Goto, TypeOK
  <2>2. HasText' /\ NumberIsNext'
    BY <2>1 DEF IInv, HasText, NumberIsNext, Inside
  <2>3. HalfWay' <=> HalfWay
    BY <2>1 DEF HalfWay
  <2>4. CurrentHolds'
    BY <2>1, <2>3 DEF IInv, CurrentHolds, Newest
  <2> QED
    BY <2>2, <2>4
<1>5. CASE \E w \in Workers : WriteVersion(w)
  <2> PICK w \in Workers : WriteVersion(w)
    BY <1>5
  <2>1. /\ pc[w] = "version" /\ pc'[w] = "current"
        /\ \A v \in Workers \ {w} : pc'[v] = pc[v]
        /\ UNCHANGED <<current, text, number, behind>>
    BY DEF WriteVersion, Goto, TypeOK
  <2>2. \A v \in Workers \ {w} : pc[v] \notin Inside
    BY <2>1, OneInside DEF Inside
  <2>3. number[w] = Len(versions) + 1
    BY <2>1 DEF IInv, NumberIsNext
  <2>4. PICK t \in Texts : text[w] = {t} /\ versions' = Append(versions, t)
    BY <2>1, <2>3 DEF WriteVersion, IInv, HasText, Inside
  <2>5. /\ Len(versions) \in Nat /\ Len(versions') = Len(versions) + 1
        /\ versions'[number[w]] = t
        /\ \A i \in 1..Len(versions) : versions'[i] = versions[i]
    BY <2>3, <2>4, AppendProperties, LenProperties DEF TypeOK
  <2>6. HasText' /\ NumberIsNext'
    <3>1. HasText'
      BY <2>1 DEF IInv, HasText, Inside
    <3>2. NumberIsNext'
      BY <2>1, <2>2, <2>3, <2>4, <2>5 DEF NumberIsNext, Inside
    <3> QED
      BY <3>1, <3>2
  <2>7. CurrentHolds'
    <3> SUFFICES ASSUME NEW f \in current PROVE Newest(f)'
      BY <2>1 DEF CurrentHolds
    <3>1. Newest(f) /\ behind \in Nat /\ f.version \in Nat
      BY DEF IInv, CurrentHolds, TypeOK
    <3>2. ~HalfWay /\ HalfWay'
      BY <2>1, <2>2 DEF HalfWay, Inside
    <3>3. f.version \in 1..Len(versions) /\ f.version + behind = Len(versions)
      BY <3>1, <3>2 DEF Newest
    <3>4. f.version \in 1..Len(versions') /\ f.version + behind' + 1 = Len(versions')
      <4>1. behind' = behind
        BY <2>1
      <4> DEFINE k == f.version
                 n == Len(versions)
                 m == Len(versions')
      <4>2. k \in Nat /\ n \in Nat /\ m = n + 1 /\ k \in 1..n /\ k + behind = n
        BY <2>5, <3>1, <3>3
      <4>3. behind \in Nat
        BY <3>1
      <4> HIDE DEF k, n, m
      <4>4. k \in 1..m /\ k + behind + 1 = m
        BY <4>2, <4>3
      <4> QED
        BY <4>1, <4>4 DEF k, m
    <3>5. f.text = versions'[f.version]
      BY <2>5, <3>1, <3>3 DEF Newest
    <3> QED
      BY <3>2, <3>4, <3>5 DEF Newest
  <2> QED
    BY <2>6, <2>7
<1>6. CASE \E w \in Workers : WriteCurrent(w)
  <2> PICK w \in Workers : WriteCurrent(w)
    BY <1>6
  <2>1. /\ pc[w] = "current" /\ pc'[w] = "review"
        /\ \A v \in Workers \ {w} : pc'[v] = pc[v] /\ text'[v] = text[v]
        /\ UNCHANGED <<versions, number>> /\ behind' = 0
    BY DEF WriteCurrent, Goto, TypeOK
  <2>2. \A v \in Workers \ {w} : pc[v] \notin Inside
    BY <2>1, OneInside DEF Inside
  <2>3. HasText' /\ NumberIsNext'
    BY <2>1, <2>2 DEF IInv, HasText, NumberIsNext, Inside
  <2>4. /\ number[w] = Len(versions) /\ Len(versions) # 0
        /\ text[w] = {versions[number[w]]}
    BY <2>1 DEF IInv, NumberIsNext
  <2>5. ~HalfWay'
    BY <2>1, <2>2 DEF HalfWay, Inside
  <2>6. CurrentHolds'
    <3> SUFFICES ASSUME NEW f \in current' PROVE Newest(f)'
      BY DEF CurrentHolds
    <3>1. f = File(number[w], versions[number[w]])
      BY <2>4 DEF WriteCurrent
    <3>2. Len(versions) \in Nat
      BY LenProperties DEF TypeOK
    <3> QED
      BY <2>1, <2>4, <2>5, <3>1, <3>2 DEF Newest, File
  <2> QED
    BY <2>3, <2>6
<1>7. CASE \E w \in Workers : Die(w)
  <2> PICK w \in Workers : Die(w)
    BY <1>7
  <2>1. /\ pc'[w] = "dead" /\ \A v \in Workers \ {w} : pc'[v] = pc[v] /\ text'[v] = text[v]
        /\ UNCHANGED <<versions, current, number>>
        /\ behind' = IF pc[w] = "current" THEN behind + 1 ELSE behind
    BY DEF Die, Goto, TypeOK
  <2>2. HasText' /\ NumberIsNext'
    BY <2>1 DEF IInv, HasText, NumberIsNext, Inside
  <2>3. CASE pc[w] = "current"
    <3>1. \A v \in Workers \ {w} : pc[v] \notin Inside
      BY <2>3, OneInside DEF Inside
    <3>2. HalfWay /\ ~HalfWay'
      BY <2>1, <2>3, <3>1 DEF HalfWay, Inside
    <3>3. CurrentHolds'
      <4> SUFFICES ASSUME NEW f \in current PROVE Newest(f)'
        BY <2>1 DEF CurrentHolds
      <4>1. Newest(f) /\ behind \in Nat /\ f.version \in Nat
        BY DEF IInv, CurrentHolds, TypeOK
      <4>2. f.version + behind + 1 = Len(versions) /\ behind' = behind + 1
        BY <2>1, <2>3, <3>2, <4>1 DEF Newest
      <4>3. f.version + behind' = Len(versions)
        BY <4>1, <4>2
      <4> QED
        BY <2>1, <3>2, <4>1, <4>3 DEF Newest
    <3> QED
      BY <2>2, <3>3
  <2>4. CASE pc[w] # "current"
    <3>1. HalfWay' <=> HalfWay
      BY <2>1, <2>4 DEF HalfWay
    <3>2. CurrentHolds'
      BY <2>1, <2>4, <3>1 DEF IInv, CurrentHolds, Newest
    <3> QED
      BY <2>2, <3>2
  <2> QED
    BY <2>3, <2>4
<1> QED
  BY <1>1, <1>2, <1>3, <1>4, <1>5, <1>6, <1>7 DEF Next

LEMMA Invariant == Spec => []IInv
<1>1. IInv /\ [Next]_vars => IInv'
  BY TypeStep, RestStep DEF IInv
<1> QED
  BY InitHolds, <1>1, PTL DEF Spec
-----------------------------------------------------------------------------
\* The variables keep their types, and the steps of save are taken by the
\* holder of the promotion lock alone.
THEOREM TypeCorrect == Spec => []TypeOK
  BY Invariant, PTL DEF IInv

\* save: while nobody saves, a skill that was not deleted is the newest
\* version but for the saves that died between their two writes.
THEOREM SkillIsNewest == Spec => []CurrentIsNewest
<1>1. IInv => CurrentIsNewest
  <2> SUFFICES ASSUME IInv, holder = "none", NEW f \in current
               PROVE  /\ f.version \in 1..Len(versions)
                      /\ f.version + behind = Len(versions)
                      /\ f.text = versions[f.version]
    BY DEF CurrentIsNewest
  <2>1. ~HalfWay
    BY WorkersAssumption DEF IInv, TypeOK, HalfWay, Inside
  <2> QED
    BY <2>1 DEF IInv, CurrentHolds, Newest
<1> QED
  BY Invariant, <1>1, PTL
=============================================================================
