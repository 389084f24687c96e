------------------------------- MODULE SwitchLog -------------------------------
(***************************************************************************)
(* What a conversation's context store promises: the switches it made, in  *)
(* order, each by a command of its own.  A switch is there from one step   *)
(* to the next, and what was switched stays switched.                      *)
(***************************************************************************)
EXTENDS Sequences

CONSTANTS Op, Mode

VARIABLE switches

Made == {switches[i].id : i \in DOMAIN switches}

LInit == switches = <<>>

Switch(op, m) ==
    /\ op \notin Made
    /\ switches' = Append(switches, [id |-> op, mode |-> m])

LNext == \E op \in Op, m \in Mode : Switch(op, m)

LSpec == LInit /\ [][LNext]_switches
================================================================================
