----------------------------- MODULE MCServices -----------------------------
(***************************************************************************)
(* Small instances of the nine components of Services.                     *)
(***************************************************************************)
EXTENDS Services

CONSTANT Others          \* words beside Texts: tools, artifacts, events
Words == Texts \cup Others
WordTerm == [w \in Words |-> IF w \in Texts THEN "a" ELSE "b"]

\* Of the events 1 to MaxEvents; 1 is the protected head.
SomeImportant == {1, 3, 4, 6, 7, 8}
=============================================================================
