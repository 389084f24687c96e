----------------------------- MODULE MCPendingWork -----------------------------
(* Small instances of PendingWork for TLC. *)
EXTENDS PendingWork, TLC

CONSTANTS w1, w2, i1, i2

Mix(k, l) == w1 :> k @@ w2 :> l

\* Every kind next to another, and two forks, which share a call and its join.
Pairs == {Mix("fork", "fork"), Mix("fork", "plan"), Mix("pause", "plan"),
          Mix("pause", "delegate"), Mix("job", "delegate")}
================================================================================
