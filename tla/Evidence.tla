------------------------------ MODULE Evidence ------------------------------
(***************************************************************************)
(* The replay evidence of one session (SessionStore, runtime.py): files    *)
(* named by the hash of their content, and manifest.json with the hash of  *)
(* the bytes found in each.  The lease holder alone captures.  A death or  *)
(* a failed write ends the run at any step; load verifies the manifest.    *)
(***************************************************************************)

CONSTANTS Artifacts   \* screenshots and UI dumps, told apart by content

VARIABLES
    files,    \* each artifact's file: "absent", "whole" or "torn"
    manifest, \* the bytes its manifest entry vouches for, or "none"
    pc,       \* "idle", "write", "manifest", or "down" after a death
    pending,  \* artifacts of the observation whose file is still to write
    captured, \* artifacts of the observation
    writing,  \* the file that is open, if any
    refs,     \* history: evidence that was returned to the session
    torn      \* history: files a death has torn

vars == <<files, manifest, pc, pending, captured, writing, refs, torn>>

Init ==
    /\ files = [a \in Artifacts |-> "absent"]
    /\ manifest = [a \in Artifacts |-> "none"]
    /\ pc = "idle"
    /\ pending = {} /\ captured = {} /\ writing = {}
    /\ refs = {} /\ torn = {}

\* An observation has a screenshot, a UI dump, or both.
Capture ==
    /\ pc = "idle"
    /\ \E shown \in (SUBSET Artifacts) \ {{}} :
         pending' = shown /\ captured' = shown
    /\ pc' = "write"
    /\ UNCHANGED <<files, manifest, writing, refs, torn>>

\* A file that exists is taken for what its name says.
Reuse ==
    /\ pc = "write" /\ writing = {}
    /\ \E a \in pending : files[a] # "absent" /\ pending' = pending \ {a}
    /\ UNCHANGED <<files, manifest, pc, captured, writing, refs, torn>>

\* Mutant: a file is written anew for each observation that shows it.
OpenAlways ==
    /\ pc = "write" /\ writing = {}
    /\ \E a \in pending :
         /\ writing' = {a}
         /\ files' = [files EXCEPT ![a] = "torn"]
    /\ UNCHANGED <<manifest, pc, pending, captured, refs, torn>>

\* The file is written in place: it exists before its content does.
Open ==
    /\ pc = "write" /\ writing = {}
    /\ \E a \in pending :
         /\ files[a] = "absent"
         /\ writing' = {a}
         /\ files' = [files EXCEPT ![a] = "torn"]
    /\ UNCHANGED <<manifest, pc, pending, captured, refs, torn>>

Written ==
    /\ pc = "write"
    /\ \E a \in writing :
         /\ files' = [files EXCEPT ![a] = "whole"]
         /\ pending' = pending \ {a}
    /\ writing' = {}
    /\ UNCHANGED <<manifest, pc, captured, refs, torn>>

\* All files are there; the new manifest is composed and put in place.
Compose ==
    /\ pc = "write" /\ pending = {}
    /\ pc' = "manifest"
    /\ UNCHANGED <<files, manifest, pending, captured, writing, refs, torn>>

\* _update_evidence_manifest hashes what is on disk and replaces the manifest.
UpdateManifest ==
    /\ pc = "manifest"
    /\ manifest' = [a \in Artifacts |-> IF a \in captured THEN files[a] ELSE manifest[a]]
    /\ refs' = refs \cup captured
    /\ captured' = {}
    /\ pc' = "idle"
    /\ UNCHANGED <<files, pending, writing, torn>>

Die ==
    /\ pc # "down"
    /\ pc' = "down"
    /\ torn' = torn \cup writing
    /\ pending' = {} /\ captured' = {} /\ writing' = {}
    /\ UNCHANGED <<files, manifest, refs>>

\* verify_evidence: each file the manifest names has the bytes it had.
Verifies == \A a \in Artifacts : manifest[a] # "none" => files[a] = manifest[a]

Load ==
    /\ pc = "down" /\ Verifies
    /\ pc' = "idle"
    /\ UNCHANGED <<files, manifest, pending, captured, writing, refs, torn>>
-----------------------------------------------------------------------------
Next == Capture \/ Reuse \/ Open \/ Written \/ Compose \/ UpdateManifest \/ Die \/ Load

Spec == Init /\ [][Next]_vars

\* The type of every variable.
TypeOK ==
    /\ files \in [Artifacts -> {"absent", "whole", "torn"}]
    /\ manifest \in [Artifacts -> {"none", "whole", "torn"}]
    /\ pc \in {"idle", "write", "manifest", "down"}
    /\ pending \subseteq captured /\ captured \subseteq Artifacts
    /\ writing \subseteq pending
    /\ refs \subseteq Artifacts /\ torn \subseteq Artifacts

\* capture_observation and verify_evidence: wherever a run is cut off, the
\* session still loads; evidence the session refers to is in the manifest;
\* and it has the content its name promises unless a death tore that file.
EvidenceHolds ==
    /\ Verifies
    /\ \A a \in refs : manifest[a] # "none"
    /\ \A a \in refs \ torn : files[a] = "whole"
=============================================================================
