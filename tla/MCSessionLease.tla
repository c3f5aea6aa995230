--------------------------- MODULE MCSessionLease ---------------------------
(* Small instances of SessionLease.                                        *)
EXTENDS SessionLease, TLC

\* Workers are interchangeable in the safety properties.
Symmetry == Permutations(Workers)
=============================================================================
