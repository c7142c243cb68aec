----------------------------- MODULE MCZaloAgent -----------------------------
(* Tasks are interchangeable. *)
EXTENDS ZaloAgent, TLC

TaskSymmetry == Permutations(Task)
=============================================================================
