---------------------------- MODULE MCDelegation ----------------------------
(* Small instances of Delegation.                                          *)
EXTENDS Delegation

CONSTANTS t1, t2, t3

\* The first two tasks together, and each task alone; the third one's goal splits
\* the line of every record of it.
SomeBatches == {<<t1>>, <<t2>>, <<t3>>, <<t1, t2>>}
=============================================================================
