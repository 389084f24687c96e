------------------------------- MODULE Custody -------------------------------
(***************************************************************************)
(* What the host promises about every message it acknowledges: it is       *)
(* accepted, then held by work that is on record, then settled.  It is     *)
(* never settled without having been held, and never held a second time.   *)
(* A goal's own wake may be declined instead.  TurnCustody implements this *)
(* whatever crashes and restarts happen in between.                        *)
(***************************************************************************)
CONSTANT Message

VARIABLE custody

CustodyState == {"unsent", "accepted", "held", "settled", "declined"}

CInit == custody = [m \in Message |-> "unsent"]

\* The messages of S, all at "from", go to "to" together.
Move(S, from, to) ==
    /\ S # {}
    /\ \A m \in S : custody[m] = from
    /\ custody' = [m \in Message |-> IF m \in S THEN to ELSE custody[m]]

Accept(S) == Move(S, "unsent", "accepted")
Take(S) == Move(S, "accepted", "held")
Settle(S) == Move(S, "held", "settled")
Refuse(S) == Move(S, "accepted", "declined")

CNext == \E S \in SUBSET Message :
             Accept(S) \/ Take(S) \/ Settle(S) \/ Refuse(S)

CSpec == CInit /\ [][CNext]_custody
=============================================================================
