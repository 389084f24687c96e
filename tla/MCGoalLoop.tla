----------------------------- MODULE MCGoalLoop -----------------------------
(* Small instances of GoalLoop for TLC. *)
EXTENDS GoalLoop, TLC

CONSTANTS report, word, other, note, going_on

\* People's messages are alike; used with invariants only.
Alike == Permutations(Said)
=============================================================================
