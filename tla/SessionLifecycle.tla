-------------------------- MODULE SessionLifecycle --------------------------
(***************************************************************************)
(* What a client of the runtime may rely on about the durable session: it  *)
(* ends once, it is parked with the call that needs approval, and a parked *)
(* session moves only by the user's decision on that call.  A decision is  *)
(* remembered until the session moves or the process forgets it.  A client *)
(* gives this up when it runs a state of its own that is not the one on    *)
(* disk: until that run has saved, the session may become anything.        *)
(***************************************************************************)
CONSTANTS Calls, NoCall

VARIABLES status, parked, decision, rerun
lifecycleVars == <<status, parked, decision, rerun>>

Terminal == {"verified", "failed", "blocked"}

Init == status = "running" /\ parked = NoCall /\ decision = "none" /\ rerun = FALSE

\* The session may move on by itself.
Free == \/ status = "running"
        \/ status = "awaiting_approval" /\ decision = "approved"
        \/ rerun

Park(c) ==
    /\ Free
    /\ status' = "awaiting_approval" /\ parked' = c
    /\ decision' = "none" /\ rerun' = FALSE

Decide(d) ==
    /\ status = "awaiting_approval"
    /\ decision' = d
    /\ UNCHANGED <<status, parked, rerun>>

Move(s) ==
    /\ Free
    /\ status' = s /\ parked' = NoCall
    /\ decision' = "none" /\ rerun' = FALSE

Refuse ==
    /\ status = "awaiting_approval" /\ decision = "denied"
    /\ status' = "blocked" /\ parked' = NoCall /\ decision' = "none"
    /\ UNCHANGED rerun

\* A run of a state other than the session's begins, or is cut off unsaved.
HandBack ==
    /\ rerun' = ~rerun
    /\ UNCHANGED <<status, parked, decision>>

Next == \/ \E c \in Calls : Park(c)
        \/ \E d \in {"approved", "denied", "none"} : Decide(d)
        \/ \E s \in Terminal \cup {"running"} : Move(s)
        \/ Refuse
        \/ HandBack

Spec == Init /\ [][Next]_lifecycleVars
=============================================================================
