----------------------------- MODULE MCTaskPlan -----------------------------
(* Small instance of TaskPlan: two-step plans over two interchangeable ids. *)
EXTENDS TaskPlan, TLC

IdSymmetry == Permutations(Ids)
=============================================================================
