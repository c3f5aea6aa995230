-------------------------- MODULE MCCuratedMemory --------------------------
(* Small instance of CuratedMemory: a success and a failure of one         *)
(* session, a preference of another.                                       *)
EXTENDS CuratedMemory

CONSTANTS success, failure, preference

MCCandidates == {success, failure, preference}
MCKindOf ==
    [c \in MCCandidates |-> CASE c = success -> "success"
                              [] c = failure -> "failure_avoidance"
                              [] OTHER -> "preference"]
MCSessionOf == [c \in MCCandidates |-> IF c = preference THEN "s2" ELSE "s1"]
=============================================================================
