-------------------------- MODULE SessionLeaseProofs --------------------------
(* Exclusivity of the session lease, for any number of workers and leases. *)
EXTENDS SessionLease, TLAPS

\* Unless a living worker was robbed, whoever created the lease file and has
\* not yet released it still owns the file on the path.
OwnsFile ==
    ~stolen =>
        \A w \in Workers :
            /\ pc[w] = "write" => file = [owner |-> w, written |-> FALSE]
            /\ w \in Holders => file = [owner |-> w, written |-> TRUE]

LInv == TypeOK /\ OwnsFile

LEMMA InitLInv == Init => LInv
<1> SUFFICES ASSUME Init PROVE LInv
  OBVIOUS
<1>1. file \in File /\ expired \in SUBSET Workers /\ stolen \in BOOLEAN
  BY DEF Init, File
<1>2. pc \in [Workers -> Positions] /\ asked \in [Workers -> 0 .. MaxLeases]
  BY LeasesAssumption DEF Init, Positions
<1>3. OwnsFile
  BY DEF Init, OwnsFile, Holders
<1> QED BY <1>1, <1>2, <1>3 DEF LInv, TypeOK

\* Steps that leave the file alone and give nobody a new right to it.
LEMMA QuietStep ==
  ASSUME LInv, NEW w \in Workers, NEW place \in Positions,
         Goto(w, place), UNCHANGED <<file, stolen>>,
         place \in {"write", "held"} => FALSE,
         place \in {"release", "unlink"} => w \in Holders,
         expired' \in SUBSET Workers, asked' \in [Workers -> 0 .. MaxLeases]
  PROVE  LInv'
<1>1. TypeOK'
  BY DEF LInv, TypeOK, Goto
<1>2. OwnsFile'
  BY DEF LInv, TypeOK, OwnsFile, Goto, Holders
<1> QED BY <1>1, <1>2 DEF LInv

LEMMA CreateStep == ASSUME LInv, NEW w \in Workers, Create(w) PROVE LInv'
<1>1. TypeOK'
  BY DEF LInv, TypeOK, Create, Goto, File, Positions
<1>2. \A v \in Workers : ~stolen => pc[v] # "write" /\ v \notin Holders
  BY WorkersAssumption DEF LInv, OwnsFile, Create, NoFile
<1>3. OwnsFile'
  BY <1>2 DEF LInv, TypeOK, OwnsFile, Create, Goto, Holders
<1> QED BY <1>1, <1>3 DEF LInv

LEMMA WriteStep == ASSUME LInv, NEW w \in Workers, Write(w) PROVE LInv'
<1>1. TypeOK'
  BY DEF LInv, TypeOK, Write, Goto, File, NoFile, Positions
<1>2. ~stolen => \A v \in Workers : pc[v] = "write" \/ v \in Holders => v = w
  BY DEF LInv, OwnsFile, Write
<1>3. ~stolen => file' = [owner |-> w, written |-> TRUE]
  <2>1. ~stolen => file = [owner |-> w, written |-> FALSE]
    BY DEF LInv, OwnsFile, Write
  <2> QED BY <2>1 DEF Write
<1>4. OwnsFile'
  BY <1>2, <1>3 DEF LInv, TypeOK, OwnsFile, Write, Goto, Holders
<1> QED BY <1>1, <1>4 DEF LInv

\* A reaper that robs nobody removes the file of no worker that relies on it.
LEMMA ReapStep == ASSUME LInv, NEW w \in Workers, Reap(w) PROVE LInv'
<1>1. TypeOK'
  BY DEF LInv, TypeOK, Reap, Goto, File, Positions
<1>2. ASSUME ~stolen', NEW v \in Workers, pc[v] = "write" \/ v \in Holders
      PROVE  FALSE
  <2>1. ~stolen /\ (file = NoFile \/ ~Alive(file.owner))
    BY <1>2 DEF Reap
  <2>2. file.owner = v
    BY <1>2, <2>1 DEF LInv, OwnsFile
  <2>3. Alive(v)
    BY <1>2 DEF Alive, Holders
  <2> QED BY <2>1, <2>2, <2>3, WorkersAssumption DEF NoFile
<1>3. OwnsFile'
  BY <1>2 DEF LInv, TypeOK, OwnsFile, Reap, Goto, Holders
<1> QED BY <1>1, <1>3 DEF LInv

LEMMA ReleaseUnlinkStep ==
  ASSUME LInv, NEW w \in Workers, ReleaseUnlink(w) PROVE LInv'
<1>1. TypeOK'
  BY DEF LInv, TypeOK, ReleaseUnlink, Goto, File, Positions
<1>2. ~stolen => \A v \in Workers : pc[v] = "write" \/ v \in Holders => v = w
  BY DEF LInv, OwnsFile, ReleaseUnlink, Holders
<1>3. OwnsFile'
  BY <1>2 DEF LInv, TypeOK, OwnsFile, ReleaseUnlink, Goto, Holders
<1> QED BY <1>1, <1>3 DEF LInv

LEMMA NextLInv == LInv /\ [Next]_vars => LInv'
<1> SUFFICES ASSUME LInv, [Next]_vars PROVE LInv'
  OBVIOUS
<1>1. CASE UNCHANGED vars
  BY <1>1 DEF LInv, vars, TypeOK, OwnsFile, Holders
<1>2. ASSUME NEW w \in Workers, Ask(w) \/ Deadline(w) \/ Step(w) \/ Leave(w) \/ Die(w)
      PROVE  LInv'
  <2>1. CASE Ask(w)
    <3>1. asked' \in [Workers -> 0 .. MaxLeases]
      BY <2>1, LeasesAssumption DEF Ask, LInv, TypeOK
    <3> QED BY <2>1, <3>1, QuietStep DEF Ask, LInv, TypeOK, Positions
  <2>2. CASE Deadline(w)
    BY <2>2 DEF Deadline, LInv, TypeOK, OwnsFile, Holders
  <2>3. CASE CreateFails(w)
    BY <2>3, QuietStep DEF CreateFails, LInv, TypeOK, Positions
  <2>4. CASE Judge(w)
    BY <2>4, QuietStep DEF Judge, LInv, TypeOK, Positions
  <2>5. CASE Contend(w)
    BY <2>5, QuietStep DEF Contend, LInv, TypeOK, Positions
  <2>6. CASE ReleaseRead(w)
    BY <2>6, QuietStep DEF ReleaseRead, LInv, TypeOK, Positions, Holders
  <2>7. CASE Leave(w)
    BY <2>7, QuietStep DEF Leave, LInv, TypeOK, Positions, Holders
  <2>8. CASE Die(w)
    BY <2>8, QuietStep DEF Die, LInv, TypeOK, Positions
  <2> QED
    BY <1>2, <2>1, <2>2, <2>3, <2>4, <2>5, <2>6, <2>7, <2>8, CreateStep, WriteStep,
       ReapStep, ReleaseUnlinkStep DEF Step
<1> QED BY <1>1, <1>2 DEF Next

\* At most one live worker holds a session's lease until a reaper removes the
\* file of a living one, for any number of workers, deaths and retries
\* (runtime.py:176-237).
THEOREM LeaseIsExclusive == Spec => []ExclusiveUnlessStolen
<1>1. LInv => ExclusiveUnlessStolen
  BY DEF LInv, OwnsFile, ExclusiveUnlessStolen, Exclusive, Holders
<1> QED BY <1>1, InitLInv, NextLInv, PTL DEF Spec

\* Every variable keeps its type, whatever the interleaving of the workers.
THEOREM LeaseTypeCorrect == Spec => []TypeOK
<1>1. LInv => TypeOK
  BY DEF LInv
<1> QED BY <1>1, InitLInv, NextLInv, PTL DEF Spec
=============================================================================
