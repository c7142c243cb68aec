--------------------------- MODULE MCTelegramAgent ---------------------------
(* Tasks are interchangeable. *)
EXTENDS TelegramAgent, TLC

TaskSymmetry == Permutations(Task)
=============================================================================
