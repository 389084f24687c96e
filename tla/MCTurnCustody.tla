---------------------------- MODULE MCTurnCustody ----------------------------
(* Small instances of TurnCustody for TLC. *)
EXTENDS TurnCustody, TLC

CONSTANTS m1, m2, m3, t1, t2, w1, w2, w3

\* One agent, its main conversation and a private one.
MainOfOne == w1 :> w1 @@ w2 :> w1
\* The same, and another agent.
MainOfTwo == MainOfOne @@ w3 :> w3
\* Agents with one conversation each.
MainOfSelf == [w \in Worker |-> w]

MessageTurnSymmetry == Permutations(Message) \cup Permutations(Turn)
=============================================================================
