---------------------------- MODULE MCContextEpoch ----------------------------
(* Small instances of ContextEpoch for TLC. *)
EXTENDS ContextEpoch, TLC

CONSTANTS o1, o2, o3, transcript, plan, todos
===============================================================================
