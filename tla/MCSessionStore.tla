--------------------------- MODULE MCSessionStore ---------------------------
(* Small instances of SessionStore.                                        *)
EXTENDS SessionStore

\* A process may die inside a turn and between the two replaces of a save.
AnyWindow == {"turn", "save"}
=============================================================================
