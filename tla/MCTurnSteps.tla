------------------------------ MODULE MCTurnSteps ------------------------------
(* Small instances of TurnSteps for TLC. *)
EXTENDS TurnSteps, TLC

CONSTANTS t1, t2, c1, c2, c3, pay, save

Only(f) == [c \in Call |-> f[c]]
InLine == Only(c1 :> 1 @@ c2 :> 2 @@ c3 :> 3)

\* One turn; c2 and c3 are the same action.
OwnerOne == [c \in Call |-> t1]
TwoActions == Only(c1 :> save @@ c2 :> pay @@ c3 :> pay)

\* Two conversations of one agent: the text of an action may be the same.
OwnerTwo == Only(c1 :> t1 @@ c2 :> t2 @@ c3 :> t2)
SameAction == [c \in Call |-> pay]
EachItsOwn == Only(c1 :> save @@ c2 :> pay @@ c3 :> save)
================================================================================
