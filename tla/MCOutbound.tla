------------------------------- MODULE MCOutbound -------------------------------
(* Small instances of Outbound for TLC. *)
EXTENDS Outbound, TLC

CONSTANTS m1, m2

Mix(k, l) == m1 :> k @@ m2 :> l

\* A message of the host next to a draft, and an answer by itself.
Mixed == {Mix("notice", "draft"), Mix("answer", "none")}

\* Only is SelectSeq.
ASSUME OnlySelects ==
    \A n \in 0..4, S \in SUBSET Msg : \A s \in [1..n -> Msg] :
        Only(s, S) = SelectSeq(s, LAMBDA m : m \in S)
================================================================================
