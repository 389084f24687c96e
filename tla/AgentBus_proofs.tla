---------------------------- MODULE AgentBus_proofs ----------------------------
(***************************************************************************)
(* Proofs about AgentBus, for any number of workers, agents and messages,  *)
(* and any length of the queues and the chains: what a turn takes is one   *)
(* request of one principal, in order; a loop runs once; and nothing waits *)
(* with nobody to look at it.                                              *)
(***************************************************************************)
EXTENDS AgentBus, FiniteSetTheorems, SequenceTheorems, WellFoundedInduction, TLAPS

----------------------------------------------------------------------------
(* The invariant.                                                          *)

LoopState == {"off", "running", "after", "check", "failed"}

\* The queue is an order: total among the messages of a worker, and without an
\* endless descent, so that what waits has a first.
Ordered ==
    /\ \A m, n, o \in queued : <<m, n>> \in before /\ <<n, o>> \in before => <<m, o>> \in before
    /\ \A m, n \in queued :
         m # n /\ About[m].to = About[n].to => <<m, n>> \in before \/ <<n, m>> \in before
    /\ IsWellFoundedOn(before, queued)

\* A chain has one run of the loop while the loop waits for one, else none.
Knows(s, at) ==
    IF at = "running" THEN \E i \in 1..Len(s) : \A j \in 1..Len(s) : s[j] = "loop" <=> j = i
    ELSE \A j \in 1..Len(s) : s[j] # "loop"
LoopKnown(c, l) == \A w \in Worker : Knows(c[w], l[w])

\* A turn in flight is the run at the head of its chain.
TurnHeld == \A w \in Worker : turn[w].running => chain[w] # <<>>

\* Who else looks at what waits for w.
SomebodyElse(w) ==
    \/ AgentOf[w] \in pausedAt \cup owed
    \/ tails[w] > 0 \/ loop[w] # "off" \/ w \in stalled

\* Where nobody else will, every message that waits has a run of its own still
\* to come, not counting the one in flight.
AttendedAt(w) ==
    \/ SomebodyElse(w)
    \/ /\ IsFiniteSet(Waiting(w))
       /\ Cardinality(Waiting(w)) + (IF turn[w].running THEN 1 ELSE 0) <= Len(chain[w])
Attended == \A w \in Worker : AttendedAt(w)

\* What OneRequestPerTurn says of a turn.
OneRequest(r) ==
    /\ \A m \in r.inbound \cup r.steered : About[m].principal = r.principal
    /\ \A m, n \in r.inbound : About[m].lane = About[n].lane /\ (IsKickoff(m) => m = n)
    /\ \A m \in r.steered : IsSteering(m)
Requests == \A w \in Worker : OneRequest(turn[w])

BusInv ==
    TypeOK /\ Ordered /\ Requests /\ LoopKnown(chain, loop) /\ TurnHeld /\ Attended

----------------------------------------------------------------------------
(* Constants and records.                                                  *)

LEMMA Fields ==
  ASSUME NEW m \in Message
  PROVE  /\ About[m].to \in Worker /\ About[m].lane \in {"user", "agent", "background"}
         /\ About[m].principal \in {NoPrincipal, "p", "q"} /\ AgentOf[About[m].to] \in Agent
  <1>1. About[m] \in MessageFields /\ AgentOf \in [Worker -> Agent]
    BY ConstantsAssumption DEF ConstantsAssumption
  <1> QED  BY <1>1 DEF MessageFields

LEMMA AbortedTurn ==
  ASSUME NEW r \in TurnRecord
  PROVE  /\ [r EXCEPT !.aborted = TRUE] \in TurnRecord
         /\ [r EXCEPT !.aborted = TRUE].running = r.running
         /\ [r EXCEPT !.aborted = TRUE].inbound = r.inbound
         /\ [r EXCEPT !.aborted = TRUE].steered = r.steered
         /\ [r EXCEPT !.aborted = TRUE].principal = r.principal
  BY DEF TurnRecord

LEMMA SteeredTurn ==
  ASSUME NEW r \in TurnRecord, NEW S \in SUBSET Message
  PROVE  /\ [r EXCEPT !.steered = @ \cup S] \in TurnRecord
         /\ [r EXCEPT !.steered = @ \cup S].running = r.running
         /\ [r EXCEPT !.steered = @ \cup S].inbound = r.inbound
         /\ [r EXCEPT !.steered = @ \cup S].steered = r.steered \cup S
         /\ [r EXCEPT !.steered = @ \cup S].principal = r.principal
  BY DEF TurnRecord

LEMMA NoTurnIsOne == NoTurn \in TurnRecord /\ ~NoTurn.running /\ NoTurn.inbound = {} /\ NoTurn.steered = {}
  BY DEF NoTurn, TurnRecord

----------------------------------------------------------------------------
(* The order of the queue.                                                 *)

\* Whatever waits has a first, and nothing of it is ahead of the first.
LEMMA FirstIs ==
  ASSUME Ordered, NEW S \in SUBSET queued, S # {}
  PROVE  First(S) \in S /\ \A m \in S : <<m, First(S)>> \notin before
  <1>1. IsWellFoundedOn(before, queued)
    BY DEF Ordered
  <1>2. \E x \in S : \A y \in S : <<y, x>> \notin before
    BY <1>1, WFMin
  <1>3. First(S) \in S /\ \A n \in S \ {First(S)} : <<n, First(S)>> \notin before
    BY <1>2 DEF First
  <1>4. <<First(S), First(S)>> \notin before
    BY <1>1, <1>3, WellFoundedIsIrreflexive
  <1> QED  BY <1>3, <1>4

\* What is queued joins behind what is there.
LEMMA EnqueueOrdered ==
  ASSUME TypeOK, Ordered, NEW M, M \cap queued = {}, Enqueue(M),
         \A m, n \in M : About[m].to = About[n].to => m = n
  PROVE  Ordered'
  <1>1. queued' = queued \cup M /\ before' = before \cup (queued \X M)
    BY DEF Enqueue
  <1>2. before \subseteq queued \X queued
    BY DEF TypeOK
  <1>3. \A m, n \in queued' : <<m, n>> \in before' <=> <<m, n>> \in before \/ (m \in queued /\ n \in M)
    BY <1>1, <1>2
  <1>4. \A m, n : <<m, n>> \in before => m \in queued /\ n \in queued
    BY <1>2
  <1>5. \A m, n, o \in queued' : <<m, n>> \in before' /\ <<n, o>> \in before' => <<m, o>> \in before'
    BY <1>1, <1>3, <1>4 DEF Ordered
  <1>6. \A m, n \in queued' :
          m # n /\ About[m].to = About[n].to => <<m, n>> \in before' \/ <<n, m>> \in before'
    BY <1>1, <1>3 DEF Ordered
  <1>7. IsWellFoundedOn(before', queued')
    <2> SUFFICES ASSUME NEW f \in [Nat -> queued'], \A n \in Nat : <<f[n + 1], f[n]>> \in before'
                 PROVE  FALSE
      BY DEF IsWellFoundedOn
    <2> DEFINE g == [n \in Nat |-> f[n + 1]]
    <2>1. ASSUME NEW n \in Nat PROVE f[n + 1] \in queued
      <3>1. <<f[n + 1], f[n]>> \in before' /\ f[n + 1] \in queued' /\ f[n] \in queued'
        OBVIOUS
      <3> QED  BY <1>3, <1>4, <3>1
    <2>2. g \in [Nat -> queued]
      BY <2>1
    <2>3. ASSUME NEW n \in Nat PROVE <<g[n + 1], g[n]>> \in before
      <3>1. <<f[(n + 1) + 1], f[n + 1]>> \in before' /\ f[n + 1] \in queued /\ f[(n + 1) + 1] \in queued
        BY <2>1
      <3>2. <<f[(n + 1) + 1], f[n + 1]>> \in before
        BY <1>1, <3>1
      <3> QED  BY <3>2
    <2> HIDE DEF g
    <2>4. ~IsWellFoundedOn(before, queued)
      BY <2>2, <2>3 DEF IsWellFoundedOn
    <2> QED  BY <2>4 DEF Ordered
  <1> QED  BY <1>5, <1>6, <1>7 DEF Ordered

LEMMA RemoveOrdered ==
  ASSUME TypeOK, Ordered, NEW S, Remove(S)
  PROVE  Ordered' /\ before' \subseteq queued' \X queued' /\ stale' \subseteq queued'
  <1>1. /\ queued' = queued \ S /\ before' = {p \in before : p[1] \notin S /\ p[2] \notin S}
        /\ before \subseteq queued \X queued /\ stale \subseteq queued /\ stale' = stale \ S
    BY DEF Remove, TypeOK
  <1>2. \A m, n : <<m, n>> \in before' <=> <<m, n>> \in before /\ m \notin S /\ n \notin S
    BY <1>1
  <1>3. IsWellFoundedOn(before', queued')
    <2>1. IsWellFoundedOn(before, queued')
      BY <1>1, IsWellFoundedOnSubset DEF Ordered
    <2>2. before' \cap (queued' \X queued') \subseteq before
      BY <1>1
    <2> QED  BY <2>1, <2>2, IsWellFoundedOnSubrelation
  <1>4. \A m, n, o \in queued' : <<m, n>> \in before' /\ <<n, o>> \in before' => <<m, o>> \in before'
    BY <1>1, <1>2 DEF Ordered
  <1>5. \A m, n \in queued' :
          m # n /\ About[m].to = About[n].to => <<m, n>> \in before' \/ <<n, m>> \in before'
    BY <1>1, <1>2 DEF Ordered
  <1>6. before' \subseteq queued' \X queued' /\ stale' \subseteq queued'
    BY <1>1
  <1> QED  BY <1>3, <1>4, <1>5, <1>6 DEF Ordered

----------------------------------------------------------------------------
(* What a turn takes.                                                      *)

\* The chosen lane is one that something waits in.
LEMMA LaneIsPresent ==
  ASSUME TypeOK, NEW w \in Worker, Waiting(w) # {}
  PROVE  InLane(w) # {} /\ InLane(w) \subseteq Waiting(w)
  <1>1. Waiting(w) \subseteq Message /\ Waiting(w) \cap stale \subseteq Waiting(w)
    BY DEF Waiting, WaitingIn, TypeOK
  <1> DEFINE lanes == IF Starved(w) # {} THEN Starved(w) ELSE Present(w)
  <1>2. lanes # {} /\ lanes \subseteq Present(w)
    BY <1>1 DEF Present, Starved
  <1>3. Present(w) \subseteq {"user", "agent", "background"}
    BY <1>1, Fields DEF Present
  <1>4. Highest(lanes) \in lanes
    BY <1>2, <1>3 DEF Highest
  <1>5. ChosenLane(w) \in Present(w)
    BY <1>2, <1>4 DEF ChosenLane
  <1> QED  BY <1>5 DEF InLane, Present

\* A batch is of one lane and one principal, a kickoff is alone in it, and
\* nothing of its lane is left that was ahead of it.
LEMMA DrainedIs ==
  ASSUME TypeOK, Ordered, NEW w \in Worker, Waiting(w) # {}, NEW S \in Drained(w)
  PROVE  /\ S # {} /\ S \subseteq Waiting(w) /\ First(S) \in S
         /\ \A m, n \in S : /\ About[m].lane = About[n].lane
                            /\ About[m].principal = About[n].principal
                            /\ IsKickoff(m) => m = n
         /\ \A m \in Waiting(w) \ S, n \in S :
              <<m, n>> \in before => About[m].lane # About[n].lane
  <1> DEFINE L == InLane(w)
             P == SamePrincipal(L)
             R == Request(P)
             lead == First(L)
             head == First(P)
             Other(n) == About[n].principal # About[lead].principal
  <1>1. L # {} /\ L \subseteq Waiting(w) /\ L \subseteq queued
    BY LaneIsPresent DEF Waiting, WaitingIn
  <1>2. \A m \in L : About[m].lane = ChosenLane(w) /\ About[m].to = w
    BY DEF InLane, Waiting, WaitingIn
  <1>3. \A m \in Waiting(w) : About[m].lane = ChosenLane(w) => m \in L
    BY DEF InLane
  <1>o. /\ \A m, n, o \in queued : <<m, n>> \in before /\ <<n, o>> \in before => <<m, o>> \in before
        /\ \A m, n \in L : m # n => <<m, n>> \in before \/ <<n, m>> \in before
        /\ \A m, n \in queued : <<m, n>> \in before => <<n, m>> \notin before
    <2>1. IsWellFoundedOn(before, queued)
      BY DEF Ordered
    <2>2. \A m, n \in queued : <<m, n>> \in before => <<n, m>> \notin before
      BY <2>1, WellFoundedIsAsymmetric
    <2> QED  BY <1>1, <1>2, <2>2 DEF Ordered
  <1>4. lead \in L /\ \A m \in L : <<m, lead>> \notin before
    BY <1>1, FirstIs
  <1>5. P = {m \in L : ~Other(m) /\ \A n \in L : Other(n) => <<m, n>> \in before}
    BY DEF SamePrincipal
  <1>6. lead \in P /\ P \subseteq L
    BY <1>4, <1>5, <1>o
  <1>7. head \in P /\ \A m \in P : <<m, head>> \notin before
    BY <1>1, <1>6, FirstIs
  <1>8. R = IF IsKickoff(head) THEN {head}
            ELSE {m \in P : \A n \in P : IsKickoff(n) => <<m, n>> \in before}
    BY DEF Request
  <1>9. S # {} /\ S \subseteq R /\ \A m \in S, n \in R : <<n, m>> \in before => n \in S
    <2>1. S \in Batches(R)
      BY DEF Drained
    <2> HIDE DEF R
    <2> QED  BY <2>1 DEF Batches
  <1> HIDE DEF L, P, R, lead, head
  <1>10. R \subseteq P /\ \A m, n \in R : IsKickoff(m) => m = n
    <2>1. \A m \in P : <<m, m>> \notin before
      BY <1>1, <1>6, <1>o
    <2> QED  BY <1>7, <1>8, <2>1
  <1>11. \A m \in L, n \in P : <<m, n>> \in before => m \in P
    <2> SUFFICES ASSUME NEW m \in L, NEW n \in P, <<m, n>> \in before PROVE m \in P
      OBVIOUS
    <2>1. ~Other(m)
      BY <1>1, <1>5, <1>6, <1>o
    <2>2. \A o \in L : Other(o) => <<m, o>> \in before
      BY <1>1, <1>5, <1>6, <1>o
    <2> QED  BY <1>5, <2>1, <2>2
  <1>12. \A m \in P, n \in R : <<m, n>> \in before => m \in R
    BY <1>1, <1>6, <1>7, <1>8, <1>o
  <1>13. \A m \in L, n \in S : <<m, n>> \in before => m \in S
    BY <1>9, <1>10, <1>11, <1>12
  <1>14. S \subseteq L /\ S \subseteq queued /\ S \subseteq Waiting(w)
    BY <1>1, <1>6, <1>9, <1>10
  <1>15. First(S) \in S
    BY <1>9, <1>14, FirstIs
  <1>16. \A m \in P : About[m].principal = About[lead].principal
    BY <1>5
  <1> QED  BY <1>2, <1>3, <1>6, <1>9, <1>10, <1>13, <1>14, <1>15, <1>16

\* What steers a turn waits for its worker and has its principal.
LEMMA SteerableIs ==
  ASSUME TypeOK, NEW w \in Worker
  PROVE  /\ Steerable(w) \subseteq Waiting(w) /\ Steerable(w) \in SUBSET Message
         /\ \A m \in Steerable(w) : IsSteering(m) /\ About[m].principal = turn[w].principal
  BY DEF Steerable, Waiting, WaitingIn, TypeOK

----------------------------------------------------------------------------
(* Chains and loops.                                                       *)

\* A run that joins a chain is behind those there.
LEMMA KnowsAppend ==
  ASSUME NEW s \in Seq(Caller), NEW at, Knows(s, at), NEW x \in Caller
  PROVE  /\ x # "loop" => Knows(Append(s, x), at)
         /\ x = "loop" /\ at # "running" => Knows(Append(s, x), "running")
  <1>1. /\ Len(s) \in Nat /\ Len(Append(s, x)) = Len(s) + 1 /\ Append(s, x)[Len(s) + 1] = x
        /\ \A i \in 1..Len(s) : Append(s, x)[i] = s[i]
    OBVIOUS
  <1>2. \A i \in 1..(Len(s) + 1) : i \in 1..Len(s) \/ i = Len(s) + 1
    BY <1>1
  <1>3. Len(s) + 1 \notin 1..Len(s) /\ Len(s) + 1 \in 1..(Len(s) + 1) /\ 1..Len(s) \subseteq 1..(Len(s) + 1)
    BY <1>1
  <1>4. ASSUME x # "loop", at = "running" PROVE Knows(Append(s, x), at)
    <2>1. PICK i \in 1..Len(s) : \A j \in 1..Len(s) : s[j] = "loop" <=> j = i
      BY <1>4 DEF Knows
    <2>2. \A j \in 1..(Len(s) + 1) : Append(s, x)[j] = "loop" <=> j = i
      BY <1>1, <1>2, <1>3, <1>4, <2>1
    <2>3. i \in 1..Len(Append(s, x))
      BY <1>1, <1>3
    <2> QED  BY <1>1, <1>4, <2>2, <2>3 DEF Knows
  <1>5. ASSUME x # "loop", at # "running" PROVE Knows(Append(s, x), at)
    BY <1>1, <1>2, <1>5 DEF Knows
  <1>6. ASSUME x = "loop", at # "running" PROVE Knows(Append(s, x), "running")
    <2>1. \A j \in 1..Len(s) : s[j] # "loop"
      BY <1>6 DEF Knows
    <2>2. \A j \in 1..Len(Append(s, x)) : Append(s, x)[j] = "loop" <=> j = Len(s) + 1
      BY <1>1, <1>2, <1>3, <1>6, <2>1
    <2>3. Len(s) + 1 \in 1..Len(Append(s, x))
      BY <1>1, <1>3
    <2> QED  BY <2>2, <2>3 DEF Knows
  <1> QED  BY <1>4, <1>5, <1>6

\* A run that ends is the first of its chain.
LEMMA KnowsTail ==
  ASSUME NEW s \in Seq(Caller), NEW at, Knows(s, at), s # <<>>
  PROVE  /\ Tail(s) \in Seq(Caller) /\ Len(Tail(s)) = Len(s) - 1 /\ Head(s) \in Caller
         /\ Head(s) # "loop" => Knows(Tail(s), at)
         /\ Head(s) = "loop" => at = "running" /\ \A b : b # "running" => Knows(Tail(s), b)
  <1>1. /\ Len(s) \in Nat \ {0} /\ Len(Tail(s)) = Len(s) - 1 /\ Head(s) = s[1]
        /\ Tail(s) \in Seq(Caller) /\ Head(s) \in Caller
    OBVIOUS
  <1>2. \A i \in 1..(Len(s) - 1) : Tail(s)[i] = s[i + 1] /\ i + 1 \in 1..Len(s)
    BY <1>1
  <1>3. 1 \in 1..Len(s)
    BY <1>1
  <1>4. ASSUME Head(s) # "loop", at = "running" PROVE Knows(Tail(s), at)
    <2>1. PICK i \in 1..Len(s) : \A j \in 1..Len(s) : s[j] = "loop" <=> j = i
      BY <1>4 DEF Knows
    <2>2. i # 1
      BY <1>1, <1>3, <1>4, <2>1
    <2>3. i - 1 \in 1..(Len(s) - 1)
      BY <1>1, <2>1, <2>2
    <2>4. ASSUME NEW j \in 1..(Len(s) - 1) PROVE Tail(s)[j] = "loop" <=> j = i - 1
      <3>1. s[j + 1] = "loop" <=> j + 1 = i
        BY <1>2, <2>1
      <3> QED  BY <1>2, <2>1, <3>1
    <2> QED  BY <1>1, <1>4, <2>3, <2>4 DEF Knows
  <1>5. ASSUME Head(s) # "loop", at # "running" PROVE Knows(Tail(s), at)
    BY <1>1, <1>2, <1>5 DEF Knows
  <1>6. ASSUME Head(s) = "loop" PROVE at = "running" /\ \A b : b # "running" => Knows(Tail(s), b)
    <2>1. at = "running"
      BY <1>1, <1>3, <1>6 DEF Knows
    <2>2. \A j \in 1..(Len(s) - 1) : Tail(s)[j] # "loop"
      <3>1. PICK i \in 1..Len(s) : \A j \in 1..Len(s) : s[j] = "loop" <=> j = i
        BY <2>1 DEF Knows
      <3>2. i = 1
        BY <1>1, <1>3, <1>6, <3>1
      <3> TAKE j \in 1..(Len(s) - 1)
      <3>3. j + 1 # 1 /\ j + 1 \in 1..Len(s) /\ Tail(s)[j] = s[j + 1]
        BY <1>2
      <3> QED  BY <3>1, <3>2, <3>3
    <2> QED  BY <1>1, <2>1, <2>2 DEF Knows
  <1> QED  BY <1>1, <1>4, <1>5, <1>6

\* wake(): the loops of A's agents with something in the queue run, each with a
\* run of its own in its chain; the others are as they were.
LEMMA WakeIs ==
  ASSUME NEW A, NEW q, NEW l \in [Worker -> LoopState], NEW c \in [Worker -> Seq(Caller)],
         LoopKnown(c, l)
  PROVE  /\ LoopsWoken(A, q, l) \in [Worker -> LoopState]
         /\ ChainsWoken(A, q, l, c) \in [Worker -> Seq(Caller)]
         /\ LoopKnown(ChainsWoken(A, q, l, c), LoopsWoken(A, q, l))
         /\ \A w \in Worker :
              /\ Len(c[w]) <= Len(ChainsWoken(A, q, l, c)[w])
              /\ c[w] # <<>> => ChainsWoken(A, q, l, c)[w] # <<>>
              /\ l[w] # "off" => LoopsWoken(A, q, l)[w] # "off"
              /\ w \in stalled => w \in StalledAfterWake(A, q, l) \/ LoopsWoken(A, q, l)[w] # "off"
              /\ AgentOf[w] \in A \ pausedAt /\ WaitingIn(q, w) # {} => LoopsWoken(A, q, l)[w] # "off"
         /\ StalledAfterWake(A, q, l) \subseteq stalled
  <1> DEFINE nl == LoopsWoken(A, q, l)
             nc == ChainsWoken(A, q, l, c)
  <1>1. ASSUME NEW w \in Worker, Wakes(A, q, l, w)
        PROVE  /\ nl[w] = "running" /\ nc[w] \in Seq(Caller) /\ Knows(nc[w], nl[w])
               /\ Len(nc[w]) = Len(c[w]) + 1 /\ nc[w] # <<>> /\ l[w] = "off"
    <2>1. nl[w] = "running" /\ nc[w] = Append(c[w], "loop") /\ l[w] = "off"
      BY <1>1 DEF LoopsWoken, ChainsWoken, Wakes
    <2>2. c[w] \in Seq(Caller) /\ "loop" \in Caller /\ Knows(c[w], l[w])
      BY DEF Caller, LoopKnown
    <2>3. Knows(Append(c[w], "loop"), "running")
      BY <2>1, <2>2, KnowsAppend
    <2>4. Append(c[w], "loop") \in Seq(Caller) /\ Len(Append(c[w], "loop")) = Len(c[w]) + 1 /\ Append(c[w], "loop") # <<>>
      BY <2>2
    <2> QED  BY <2>1, <2>3, <2>4
  <1>2. ASSUME NEW w \in Worker, ~Wakes(A, q, l, w)
        PROVE  nl[w] = l[w] /\ nc[w] = c[w]
    BY <1>2 DEF LoopsWoken, ChainsWoken
  <1>3. \A w \in Worker : nl[w] \in LoopState /\ nc[w] \in Seq(Caller) /\ Knows(nc[w], nl[w])
    BY <1>1, <1>2 DEF LoopState, LoopKnown
  <1>4. nl \in [Worker -> LoopState] /\ nc \in [Worker -> Seq(Caller)]
    <2>1. DOMAIN nl = Worker /\ DOMAIN nc = Worker /\ nl = [w \in Worker |-> nl[w]] /\ nc = [w \in Worker |-> nc[w]]
      BY DEF LoopsWoken, ChainsWoken
    <2> HIDE DEF nl, nc
    <2> QED  BY <1>3, <2>1
  <1>5. ASSUME NEW w \in Worker PROVE Len(c[w]) <= Len(nc[w])
    <2>1. Len(c[w]) \in Nat
      OBVIOUS
    <2> HIDE DEF nl, nc
    <2> QED  BY <1>1, <1>2, <2>1
  <1>6. \A w \in Worker : w \in stalled => w \in StalledAfterWake(A, q, l) \/ Wakes(A, q, l, w)
    BY DEF StalledAfterWake
  <1>7. \A w \in Worker : AgentOf[w] \in A \ pausedAt /\ WaitingIn(q, w) # {} =>
          Wakes(A, q, l, w) \/ l[w] # "off"
    BY DEF Wakes
  <1>8. StalledAfterWake(A, q, l) \subseteq stalled
    BY DEF StalledAfterWake
  <1> HIDE DEF nl, nc
  <1>9. ASSUME NEW w \in Worker
        PROVE  /\ c[w] # <<>> => nc[w] # <<>>
               /\ l[w] # "off" => nl[w] # "off"
               /\ Wakes(A, q, l, w) => nl[w] # "off"
    BY <1>1, <1>2
  <1> QED  BY <1>3, <1>4, <1>5, <1>6, <1>7, <1>8, <1>9 DEF nl, nc, LoopKnown

----------------------------------------------------------------------------
(* Pieces of steps.                                                        *)

QueueTypes == queued \subseteq Message /\ stale \subseteq queued /\ before \subseteq queued \X queued

\* Messages join the queue behind what is there.
LEMMA Enqueued ==
  ASSUME TypeOK, Ordered, NEW M \in SUBSET Message, M \cap queued = {}, Enqueue(M), stale' = stale,
         \A m, n \in M : About[m].to = About[n].to => m = n
  PROVE  /\ QueueTypes' /\ Ordered'
         /\ \A w \in Worker : (\A m \in M : About[m].to # w) => Waiting(w)' = Waiting(w)
  <1>1. queued' = queued \cup M /\ before' = before \cup (queued \X M)
    BY DEF Enqueue
  <1>2. QueueTypes'
    BY <1>1 DEF QueueTypes, TypeOK
  <1>3. \A w \in Worker : (\A m \in M : About[m].to # w) => Waiting(w)' = Waiting(w)
    BY <1>1 DEF Waiting, WaitingIn
  <1> QED  BY <1>2, <1>3, EnqueueOrdered

\* Messages leave the queue.
LEMMA Removed ==
  ASSUME TypeOK, Ordered, NEW S, Remove(S)
  PROVE  /\ QueueTypes' /\ Ordered'
         /\ \A w \in Worker : Waiting(w)' = Waiting(w) \ S
  <1>1. queued' = queued \ S /\ queued \subseteq Message
    BY DEF Remove, TypeOK
  <1>2. \A w \in Worker : Waiting(w)' = Waiting(w) \ S
    BY <1>1 DEF Waiting, WaitingIn
  <1> QED  BY <1>1, <1>2, RemoveOrdered DEF QueueTypes

\* With no more to take and no fewer runs, a worker stays attended.
LEMMA StillAttended ==
  ASSUME TypeOK, TypeOK', NEW w \in Worker, AttendedAt(w),
         SomebodyElse(w) => SomebodyElse(w)',
         Waiting(w)' \subseteq Waiting(w),
         turn'[w].running => turn[w].running,
         Len(chain[w]) <= Len(chain'[w])
  PROVE  AttendedAt(w)'
  <1>1. CASE SomebodyElse(w)
    BY <1>1 DEF AttendedAt
  <1>2. CASE /\ IsFiniteSet(Waiting(w))
             /\ Cardinality(Waiting(w)) + (IF turn[w].running THEN 1 ELSE 0) <= Len(chain[w])
    <2>1. /\ IsFiniteSet(Waiting(w)') /\ Cardinality(Waiting(w)') <= Cardinality(Waiting(w))
          /\ Cardinality(Waiting(w)) \in Nat /\ Cardinality(Waiting(w)') \in Nat
      BY <1>2, FS_Subset, FS_CardinalityType
    <2>2. Len(chain[w]) \in Nat /\ Len(chain'[w]) \in Nat
      BY DEF TypeOK
    <2> QED  BY <1>2, <2>1, <2>2 DEF AttendedAt
  <1> QED  BY <1>1, <1>2 DEF AttendedAt

\* A message that is prompted brings a run of its own: SendAndRun and Resume.
LEMMA PromptStep ==
  ASSUME BusInv, NEW m \in Message, NEW door, Prompt(m, door),
         UNCHANGED <<stale, turn, tails>>,
         pausedAt \cup owed \subseteq pausedAt' \cup owed',
         pausedAt' \subseteq Agent, owed' \subseteq Agent
  PROVE  BusInv'
  <1> DEFINE v == About[m].to
             x == IF door = "direct" THEN "direct" ELSE "prompt"
  <1>0. v \in Worker /\ x \in Caller /\ x # "loop"
    BY Fields DEF Caller
  <1>1. /\ m \notin queued /\ Enqueue({m}) /\ chain' = [chain EXCEPT ![v] = Append(@, x)]
        /\ UNCHANGED <<loop, stalled>>
    BY DEF Prompt, NoWake, Busy
  <1> HIDE DEF x, v
  <1>2. /\ QueueTypes' /\ Ordered'
        /\ \A w \in Worker : w # v => Waiting(w)' = Waiting(w)
    BY <1>1, Enqueued DEF BusInv, v
  <1>3. Waiting(v)' = Waiting(v) \cup {m} /\ m \notin Waiting(v)
    BY <1>1 DEF Waiting, WaitingIn, Enqueue, v
  <1>4. chain \in [Worker -> Seq(Caller)] /\ chain[v] \in Seq(Caller)
    BY <1>0 DEF BusInv, TypeOK
  <1>5. chain' \in [Worker -> Seq(Caller)]
    BY <1>0, <1>1, <1>4
  <1>6. TypeOK'
    BY <1>1, <1>2, <1>5 DEF BusInv, TypeOK, QueueTypes
  <1>7. chain'[v] = Append(chain[v], x) /\ \A w \in Worker : w # v => chain'[w] = chain[w]
    BY <1>0, <1>1, <1>4
  <1>8. LoopKnown(chain, loop)'
    <2>1. Knows(Append(chain[v], x), loop[v])
      BY <1>0, <1>4, KnowsAppend DEF BusInv, LoopKnown
    <2> QED  BY <1>1, <1>7, <2>1 DEF BusInv, LoopKnown
  <1>9. Append(chain[v], x) # <<>> /\ Len(Append(chain[v], x)) = Len(chain[v]) + 1 /\ Len(chain[v]) \in Nat
    BY <1>0, <1>4
  <1>10. TurnHeld'
    BY <1>7, <1>9 DEF BusInv, TurnHeld
  <1>11. \A w \in Worker : SomebodyElse(w) => SomebodyElse(w)'
    BY <1>1 DEF SomebodyElse
  <1>12. ASSUME NEW w \in Worker PROVE AttendedAt(w)'
    <2>1. CASE w # v
      <3>1. Len(chain[w]) <= Len(chain'[w])
        <4>1. Len(chain[w]) \in Nat
          BY <1>4
        <4> QED  BY <1>7, <2>1, <4>1
      <3>2. Waiting(w)' \subseteq Waiting(w)
        BY <1>2, <2>1
      <3> QED  BY <1>6, <1>11, <3>1, <3>2, StillAttended DEF BusInv, Attended
    <2>2. CASE w = v /\ SomebodyElse(w)
      BY <1>11, <2>2 DEF AttendedAt
    <2>3. CASE w = v /\ ~SomebodyElse(w)
      <3>1. /\ IsFiniteSet(Waiting(v))
            /\ Cardinality(Waiting(v)) + (IF turn[v].running THEN 1 ELSE 0) <= Len(chain[v])
        BY <1>0, <2>3 DEF BusInv, Attended, AttendedAt
      <3>2. /\ IsFiniteSet(Waiting(v)') /\ Cardinality(Waiting(v)') = Cardinality(Waiting(v)) + 1
            /\ Cardinality(Waiting(v)) \in Nat
        BY <1>3, <3>1, FS_AddElement, FS_CardinalityType
      <3>3. Cardinality(Waiting(v)') + (IF turn[v].running THEN 1 ELSE 0) <= Len(chain[v]) + 1
        BY <1>9, <3>1, <3>2
      <3> QED  BY <1>7, <1>9, <2>3, <3>2, <3>3 DEF AttendedAt
    <2> QED  BY <2>1, <2>2, <2>3
  <1>13. Requests'
    BY DEF BusInv, Requests
  <1> QED  BY <1>2, <1>6, <1>8, <1>10, <1>12, <1>13 DEF BusInv, Attended

\* What a step that ends in a wake of A's agents, with the chains c and the loops
\* l that wake() found, leaves to the turns and to the workers of other agents.
HeldIn(c) == \A w \in Worker : turn'[w].running => c[w] # <<>>
LeftToOthers(A, l, c) ==
    \A w \in Worker : AgentOf[w] \notin A =>
        \/ AgentOf[w] \in pausedAt \cup owed' \/ tails'[w] > 0 \/ l[w] # "off" \/ w \in stalled
        \/ /\ IsFiniteSet(Waiting(w)')
           /\ Cardinality(Waiting(w)') + (IF turn'[w].running THEN 1 ELSE 0) <= Len(c[w])

\* The end of a step that wakes A's agents, with the chains c and the loops l
\* that wake() found: everyone else was attended then.
LEMMA WakeStep ==
  ASSUME BusInv, NEW A, NEW l \in [Worker -> LoopState], NEW c \in [Worker -> Seq(Caller)],
         LoopKnown(c, l), Wake(A, queued', l, c), QueueTypes', Ordered', Requests',
         turn' \in [Worker -> TurnRecord], tails' \in [Worker -> Nat],
         pausedAt' = pausedAt, owed' \subseteq Agent,
         HeldIn(c), LeftToOthers(A, l, c)
  PROVE  BusInv'
  <1>1. /\ loop' = LoopsWoken(A, queued', l) /\ chain' = ChainsWoken(A, queued', l, c)
        /\ stalled' = StalledAfterWake(A, queued', l)
    BY DEF Wake
  <1>2. /\ loop' \in [Worker -> LoopState] /\ chain' \in [Worker -> Seq(Caller)]
        /\ LoopKnown(chain', loop')
        /\ \A w \in Worker :
             /\ Len(c[w]) <= Len(chain'[w])
             /\ c[w] # <<>> => chain'[w] # <<>>
             /\ l[w] # "off" => loop'[w] # "off"
             /\ w \in stalled => w \in stalled' \/ loop'[w] # "off"
             /\ AgentOf[w] \in A \ pausedAt /\ Waiting(w)' # {} => loop'[w] # "off"
        /\ stalled' \subseteq stalled
    BY <1>1, WakeIs DEF Waiting
  <1>3. TypeOK'
    BY <1>2 DEF BusInv, TypeOK, QueueTypes, LoopState
  <1>4. TurnHeld'
    BY <1>2 DEF TurnHeld, HeldIn
  <1>5. ASSUME NEW w \in Worker PROVE AttendedAt(w)'
    <2>0. Len(chain'[w]) \in Nat /\ Len(c[w]) \in Nat /\ chain'[w] \in Seq(Caller)
      BY <1>2
    <2>1. CASE AgentOf[w] \in pausedAt \/ loop'[w] # "off"
      BY <2>1 DEF AttendedAt, SomebodyElse
    <2>2. CASE AgentOf[w] \in A /\ Waiting(w)' = {}
      <3>1. IsFiniteSet(Waiting(w)') /\ Cardinality(Waiting(w)') = 0
        BY <2>2, FS_EmptySet
      <3>2. (IF turn'[w].running THEN 1 ELSE 0) <= Len(chain'[w])
        BY <1>4, <2>0 DEF TurnHeld
      <3> QED  BY <2>0, <3>1, <3>2 DEF AttendedAt
    <2>3. CASE AgentOf[w] \notin A /\ loop'[w] = "off"
      <3>0. \/ AgentOf[w] \in pausedAt \cup owed' \/ tails'[w] > 0 \/ l[w] # "off" \/ w \in stalled
            \/ /\ IsFiniteSet(Waiting(w)')
               /\ Cardinality(Waiting(w)') + (IF turn'[w].running THEN 1 ELSE 0) <= Len(c[w])
        BY <2>3 DEF LeftToOthers
      <3>1. CASE AgentOf[w] \in pausedAt \cup owed' \/ tails'[w] > 0 \/ l[w] # "off" \/ w \in stalled
        BY <1>2, <2>3, <3>1 DEF AttendedAt, SomebodyElse
      <3>2. CASE /\ IsFiniteSet(Waiting(w)')
                 /\ Cardinality(Waiting(w)') + (IF turn'[w].running THEN 1 ELSE 0) <= Len(c[w])
        <4>1. Cardinality(Waiting(w)') \in Nat /\ Len(c[w]) <= Len(chain'[w])
          BY <1>2, <3>2, FS_CardinalityType
        <4>2. Cardinality(Waiting(w)') + (IF turn'[w].running THEN 1 ELSE 0) <= Len(chain'[w])
          BY <2>0, <3>2, <4>1
        <4> QED  BY <3>2, <4>2 DEF AttendedAt
      <3> QED  BY <3>0, <3>1, <3>2
    <2> QED  BY <1>2, <2>1, <2>2, <2>3
  <1> QED  BY <1>2, <1>3, <1>4, <1>5 DEF BusInv, Attended

\* A run whose promise settles leaves its chain; whoever called it goes on.
LEMMA SettleStep ==
  ASSUME BusInv, NEW v \in Worker, chain[v] # <<>>, chain' = [chain EXCEPT ![v] = Tail(@)],
         Settle(v, "ok"), UNCHANGED <<queued, before, stale, pausedAt, owed, stalled>>,
         turn' \in [Worker -> TurnRecord], Requests', ~turn'[v].running,
         \A w \in Worker \ {v} : turn'[w] = turn[w]
  PROVE  BusInv'
  <1>1. /\ chain \in [Worker -> Seq(Caller)] /\ chain[v] \in Seq(Caller) /\ Knows(chain[v], loop[v])
        /\ loop \in [Worker -> LoopState] /\ tails \in [Worker -> Nat]
    BY DEF BusInv, TypeOK, LoopKnown, LoopState
  <1>2. /\ Tail(chain[v]) \in Seq(Caller)
        /\ Head(chain[v]) # "loop" => Knows(Tail(chain[v]), loop[v])
        /\ Head(chain[v]) = "loop" => Knows(Tail(chain[v]), "after")
    BY <1>1, KnowsTail
  <1>3. /\ loop' = [loop EXCEPT ![v] = IF Head(chain[v]) # "loop" THEN @ ELSE "after"]
        /\ tails' = [tails EXCEPT ![v] = IF Head(chain[v]) # "loop" THEN @ + 1 ELSE @]
    BY DEF Settle
  <1>4. /\ chain' \in [Worker -> Seq(Caller)] /\ loop' \in [Worker -> LoopState]
        /\ tails' \in [Worker -> Nat]
    BY <1>1, <1>2, <1>3 DEF LoopState
  <1>5. /\ chain'[v] = Tail(chain[v]) /\ Knows(chain'[v], loop'[v])
        /\ tails'[v] > 0 \/ loop'[v] # "off"
        /\ \A w \in Worker \ {v} : chain'[w] = chain[w] /\ loop'[w] = loop[w] /\ tails'[w] = tails[w]
    BY <1>1, <1>2, <1>3
  <1>6. TypeOK'
    BY <1>4 DEF BusInv, TypeOK, LoopState
  <1>7. LoopKnown(chain, loop)'
    BY <1>5 DEF BusInv, LoopKnown
  <1>8. TurnHeld'
    BY <1>5 DEF BusInv, TurnHeld
  <1>9. Ordered'
    BY DEF BusInv, Ordered
  <1>10. ASSUME NEW w \in Worker PROVE AttendedAt(w)'
    <2>1. CASE w = v
      BY <1>5, <2>1 DEF AttendedAt, SomebodyElse
    <2>2. CASE w # v
      BY <1>5, <2>2 DEF BusInv, Attended, AttendedAt, SomebodyElse, Waiting, WaitingIn
    <2> QED  BY <2>1, <2>2
  <1> QED  BY <1>6, <1>7, <1>8, <1>9, <1>10 DEF BusInv, Attended

----------------------------------------------------------------------------
(* The steps.                                                              *)

\* What was attended with the chains and loops as they are.
LEMMA WasAttended ==
  ASSUME BusInv, NEW w \in Worker, Waiting(w)' = Waiting(w), turn'[w].running = turn[w].running
  PROVE  \/ AgentOf[w] \in pausedAt \cup owed \/ tails[w] > 0 \/ loop[w] # "off" \/ w \in stalled
         \/ /\ IsFiniteSet(Waiting(w)')
            /\ Cardinality(Waiting(w)') + (IF turn'[w].running THEN 1 ELSE 0) <= Len(chain[w])
  BY DEF BusInv, Attended, AttendedAt, SomebodyElse

LEMMA SendAndWakeStep ==
  ASSUME BusInv, NEW m \in Message, SendAndWake(m)
  PROVE  BusInv'
  <1> DEFINE v == About[m].to
             A == {AgentOf[v]}
  <1>1. /\ m \notin queued /\ Enqueue({m}) /\ Interrupt(m) /\ Wake(A, queued', loop, chain)
        /\ UNCHANGED <<stale, tails, pausedAt, owed>>
    BY DEF SendAndWake, Busy
  <1>2. turn \in [Worker -> TurnRecord] /\ v \in Worker
    BY Fields DEF BusInv, TypeOK
  <1>3. turn' = turn \/ turn' = [turn EXCEPT ![v] = [turn[v] EXCEPT !.aborted = TRUE]]
    BY <1>1 DEF Interrupt
  <1>4. [turn[v] EXCEPT !.aborted = TRUE] \in TurnRecord
    BY <1>2, AbortedTurn
  <1>5. turn' \in [Worker -> TurnRecord]
    BY <1>2, <1>3, <1>4
  <1>6. \A w \in Worker : turn'[w] = turn[w] \/ turn'[w] = [turn[w] EXCEPT !.aborted = TRUE]
    BY <1>2, <1>3
  <1>7. \A w \in Worker : turn[w] \in TurnRecord
    BY <1>2
  <1>8. \A w \in Worker : /\ turn'[w].running = turn[w].running /\ turn'[w].inbound = turn[w].inbound
                          /\ turn'[w].steered = turn[w].steered
                          /\ turn'[w].principal = turn[w].principal
    BY <1>6, <1>7, AbortedTurn
  <1>9. Requests'
    BY <1>8 DEF BusInv, Requests, OneRequest
  <1> HIDE DEF v
  <1>10. /\ QueueTypes' /\ Ordered'
         /\ \A w \in Worker : w # v => Waiting(w)' = Waiting(w)
    BY <1>1, Enqueued DEF BusInv, v
  <1>11. \A w \in Worker : AgentOf[w] \notin A => Waiting(w)' = Waiting(w)
    BY <1>10
  <1>12. /\ loop \in [Worker -> LoopState] /\ chain \in [Worker -> Seq(Caller)] /\ LoopKnown(chain, loop)
         /\ owed' \subseteq Agent /\ tails' \in [Worker -> Nat] /\ pausedAt' = pausedAt
         /\ HeldIn(chain)
    BY <1>1, <1>8 DEF BusInv, TypeOK, LoopState, TurnHeld, HeldIn
  <1>13. LeftToOthers(A, loop, chain)
    BY <1>1, <1>8, <1>11, WasAttended DEF LeftToOthers
  <1> HIDE DEF A
  <1>14. Wake(A, queued', loop, chain) /\ QueueTypes' /\ Ordered'
    BY <1>1, <1>10
  <1> QED  BY <1>5, <1>9, <1>12, <1>13, <1>14, WakeStep

LEMMA SendAndRunStep ==
  ASSUME BusInv, NEW m \in Message, SendAndRun(m)
  PROVE  BusInv'
  BY PromptStep DEF SendAndRun, BusInv, TypeOK

LEMMA ResumeStep ==
  ASSUME BusInv, NEW a \in Agent, NEW m \in Message, Resume(a, m)
  PROVE  BusInv'
  BY PromptStep DEF Resume, BusInv, TypeOK

LEMMA SkipRunStep ==
  ASSUME BusInv, NEW v \in Worker, SkipRun(v)
  PROVE  BusInv'
  <1>1. /\ chain[v] # <<>> /\ ~turn[v].running /\ chain' = [chain EXCEPT ![v] = Tail(@)]
        /\ Settle(v, "ok") /\ UNCHANGED <<queued, before, stale, turn, pausedAt, owed, stalled>>
    BY DEF SkipRun, CanStart
  <1>2. Requests' /\ turn' \in [Worker -> TurnRecord]
    BY <1>1 DEF BusInv, Requests, TypeOK
  <1> QED  BY <1>1, <1>2, SettleStep

LEMMA TurnEndsStep ==
  ASSUME BusInv, NEW v \in Worker, TurnEnds(v)
  PROVE  BusInv'
  <1>1. /\ chain[v] # <<>> /\ turn' = [turn EXCEPT ![v] = NoTurn]
        /\ chain' = [chain EXCEPT ![v] = Tail(@)]
        /\ Settle(v, "ok") /\ UNCHANGED <<queued, before, stale, pausedAt, owed, stalled>>
    BY DEF TurnEnds, BusInv, TurnHeld
  <1>2. turn \in [Worker -> TurnRecord]
    BY DEF BusInv, TypeOK
  <1>3. /\ turn' \in [Worker -> TurnRecord] /\ turn'[v] = NoTurn
        /\ \A w \in Worker \ {v} : turn'[w] = turn[w]
    BY <1>1, <1>2, NoTurnIsOne
  <1>4. Requests'
    BY <1>3, NoTurnIsOne DEF BusInv, Requests, OneRequest
  <1> QED  BY <1>1, <1>3, <1>4, NoTurnIsOne, SettleStep

LEMMA OpenTurnStep ==
  ASSUME BusInv, NEW v \in Worker, OpenTurn(v)
  PROVE  BusInv'
  <1>1. /\ chain[v] # <<>> /\ ~turn[v].running /\ Waiting(v) # {}
        /\ UNCHANGED <<chain, loop, tails, pausedAt, owed, stalled>>
    BY DEF OpenTurn, CanStart
  <1>2. PICK S \in Drained(v) : /\ Remove(S)
                                /\ turn' = [turn EXCEPT ![v] =
                                     [running |-> TRUE, inbound |-> S, steered |-> {},
                                      principal |-> About[First(S)].principal,
                                      userDriven |-> Head(chain[v]) = "prompt",
                                      aborted |-> FALSE]]
    BY DEF OpenTurn
  <1> DEFINE opened == [running |-> TRUE, inbound |-> S, steered |-> {},
                        principal |-> About[First(S)].principal,
                        userDriven |-> Head(chain[v]) = "prompt", aborted |-> FALSE]
  <1>3. /\ S # {} /\ S \subseteq Waiting(v) /\ First(S) \in S
        /\ \A m, n \in S : /\ About[m].lane = About[n].lane
                           /\ About[m].principal = About[n].principal
                           /\ IsKickoff(m) => m = n
    BY <1>1, DrainedIs DEF BusInv
  <1>4. S \subseteq Message /\ First(S) \in Message
    BY <1>3 DEF Waiting, WaitingIn, BusInv, TypeOK
  <1>5. opened \in TurnRecord /\ opened.running /\ OneRequest(opened)
    <2>1. About[First(S)].principal \in {NoPrincipal, "p", "q"}
      BY <1>4, Fields
    <2> QED  BY <1>3, <1>4, <2>1 DEF TurnRecord, OneRequest
  <1>6. turn \in [Worker -> TurnRecord] /\ turn' = [turn EXCEPT ![v] = opened]
    BY <1>2 DEF BusInv, TypeOK
  <1> HIDE DEF opened
  <1>7. /\ turn' \in [Worker -> TurnRecord] /\ turn'[v] = opened
        /\ \A w \in Worker \ {v} : turn'[w] = turn[w]
    BY <1>5, <1>6
  <1>8. Requests'
    BY <1>5, <1>7 DEF BusInv, Requests
  <1>9. QueueTypes' /\ Ordered' /\ \A w \in Worker : Waiting(w)' = Waiting(w) \ S
    BY <1>2, Removed DEF BusInv
  <1>10. TypeOK'
    BY <1>1, <1>7, <1>9 DEF BusInv, TypeOK, QueueTypes
  <1>11. LoopKnown(chain, loop)' /\ TurnHeld'
    BY <1>1, <1>7 DEF BusInv, LoopKnown, TurnHeld
  <1>12. \A w \in Worker : SomebodyElse(w) <=> SomebodyElse(w)'
    BY <1>1 DEF SomebodyElse
  <1>13. ASSUME NEW w \in Worker PROVE AttendedAt(w)'
    <2>1. CASE w # v
      <3>1. Waiting(w)' \subseteq Waiting(w) /\ turn'[w] = turn[w] /\ Len(chain[w]) <= Len(chain'[w])
        <4>1. Len(chain[w]) \in Nat
          BY DEF BusInv, TypeOK
        <4> QED  BY <1>1, <1>7, <1>9, <2>1, <4>1
      <3> QED  BY <1>10, <1>12, <3>1, StillAttended DEF BusInv, Attended
    <2>2. CASE w = v /\ SomebodyElse(w)
      BY <1>12, <2>2 DEF AttendedAt
    <2>3. CASE w = v /\ ~SomebodyElse(w)
      <3>1. IsFiniteSet(Waiting(v)) /\ Cardinality(Waiting(v)) + 0 <= Len(chain[v])
        BY <1>1, <2>3 DEF BusInv, Attended, AttendedAt
      <3>2. PICK m \in S : m \in Waiting(v)
        BY <1>3
      <3>3. Waiting(v)' \subseteq Waiting(v) \ {m}
        BY <1>9, <3>2
      <3>4. /\ IsFiniteSet(Waiting(v) \ {m})
            /\ Cardinality(Waiting(v) \ {m}) = Cardinality(Waiting(v)) - 1
            /\ Cardinality(Waiting(v)) \in Nat /\ Cardinality(Waiting(v) \ {m}) \in Nat
        BY <3>1, <3>2, FS_RemoveElement, FS_CardinalityType
      <3>5. /\ IsFiniteSet(Waiting(v)') /\ Cardinality(Waiting(v)') <= Cardinality(Waiting(v) \ {m})
            /\ Cardinality(Waiting(v)') \in Nat
        BY <3>3, <3>4, FS_Subset, FS_CardinalityType
      <3>6. Len(chain[v]) \in Nat /\ chain'[v] = chain[v]
        BY <1>1 DEF BusInv, TypeOK
      <3>7. Cardinality(Waiting(v)') + 1 <= Len(chain'[v])
        BY <3>1, <3>4, <3>5, <3>6
      <3> QED  BY <1>5, <1>7, <2>3, <3>5, <3>7 DEF AttendedAt
    <2> QED  BY <2>1, <2>2, <2>3
  <1> QED  BY <1>8, <1>9, <1>10, <1>11, <1>13 DEF BusInv, Attended

LEMMA SteerStep ==
  ASSUME BusInv, NEW v \in Worker, Steer(v)
  PROVE  BusInv'
  <1> DEFINE S == Steerable(v)
             steered == [turn[v] EXCEPT !.steered = @ \cup S]
  <1>1. /\ turn[v].running /\ Remove(S) /\ turn' = [turn EXCEPT ![v] = steered]
        /\ UNCHANGED <<chain, loop, tails, pausedAt, owed, stalled>>
    BY DEF Steer
  <1>2. turn \in [Worker -> TurnRecord] /\ turn[v] \in TurnRecord
    BY DEF BusInv, TypeOK
  <1>3. /\ S \in SUBSET Message
        /\ \A m \in S : IsSteering(m) /\ About[m].principal = turn[v].principal
    BY SteerableIs DEF BusInv
  <1> HIDE DEF S
  <1>4. /\ steered \in TurnRecord /\ steered.running = turn[v].running
        /\ steered.inbound = turn[v].inbound /\ steered.steered = turn[v].steered \cup S
        /\ steered.principal = turn[v].principal
    BY <1>2, <1>3, SteeredTurn
  <1> HIDE DEF steered
  <1>5. OneRequest(steered)
    BY <1>3, <1>4 DEF BusInv, Requests, OneRequest
  <1>6. /\ turn' \in [Worker -> TurnRecord] /\ turn'[v] = steered
        /\ \A w \in Worker \ {v} : turn'[w] = turn[w]
    BY <1>1, <1>2, <1>4
  <1>7. Requests'
    BY <1>5, <1>6 DEF BusInv, Requests
  <1>8. QueueTypes' /\ Ordered' /\ \A w \in Worker : Waiting(w)' = Waiting(w) \ S
    BY <1>1, Removed DEF BusInv
  <1>9. TypeOK'
    BY <1>1, <1>6, <1>8 DEF BusInv, TypeOK, QueueTypes
  <1>10. \A w \in Worker : turn'[w].running = turn[w].running
    BY <1>4, <1>6
  <1>11. LoopKnown(chain, loop)' /\ TurnHeld'
    BY <1>1, <1>10 DEF BusInv, LoopKnown, TurnHeld
  <1>12. ASSUME NEW w \in Worker PROVE AttendedAt(w)'
    <2>1. Len(chain[w]) \in Nat /\ AttendedAt(w)
      BY DEF BusInv, TypeOK, Attended
    <2>2. Len(chain[w]) <= Len(chain'[w]) /\ Waiting(w)' \subseteq Waiting(w)
      BY <1>1, <1>8, <2>1
    <2>3. SomebodyElse(w) => SomebodyElse(w)'
      BY <1>1 DEF SomebodyElse
    <2> QED  BY <1>9, <1>10, <2>1, <2>2, <2>3, StillAttended DEF BusInv
  <1> QED  BY <1>7, <1>8, <1>9, <1>11, <1>12 DEF BusInv, Attended

LEMMA TurnFailsStep ==
  ASSUME BusInv, NEW v \in Worker, TurnFails(v)
  PROVE  BusInv'
  <1> DEFINE peers == {About[m].from : m \in turn[v].inbound} \cap Agent
             Notice(a) == NoticeOf[CHOOSE m \in turn[v].inbound : About[m].from = a]
             M == {Notice(a) : a \in peers}
             l == [loop EXCEPT ![v] = IF Head(chain[v]) = "loop" THEN "failed" ELSE @]
             c == [chain EXCEPT ![v] = Tail(@)]
  <1>1. /\ turn[v].running /\ M \cap Busy = {} /\ Enqueue(M)
        /\ turn' = [turn EXCEPT ![v] = NoTurn]
        /\ Wake(peers, queued', l, c)
        /\ UNCHANGED <<stale, tails, pausedAt, owed>>
    BY DEF TurnFails
  <1>2. turn \in [Worker -> TurnRecord] /\ turn[v].inbound \subseteq Message
    BY DEF BusInv, TypeOK, TurnRecord
  <1>3. ASSUME NEW a \in peers PROVE Notice(a) \in Message /\ AgentOf[About[Notice(a)].to] = a
    <2>1. PICK m \in turn[v].inbound : m = CHOOSE n \in turn[v].inbound : About[n].from = a
      OBVIOUS
    <2>2. About[m].from = a /\ a \in Agent /\ m \in Message
      BY <1>2, <2>1
    <2> QED  BY <2>1, <2>2, ConstantsAssumption DEF ConstantsAssumption
  <1> HIDE DEF Notice
  <1>4. M \subseteq Message /\ M \cap queued = {}
    <2>1. M \subseteq Message
      BY <1>3
    <2> HIDE DEF M
    <2> QED  BY <1>1, <2>1 DEF Busy
  <1>5. \A m, n \in M : About[m].to = About[n].to => m = n
    BY <1>3
  <1>6. \A w \in Worker : AgentOf[w] \notin peers => \A m \in M : About[m].to # w
    BY <1>3
  <1> HIDE DEF peers, M
  <1>7. /\ QueueTypes' /\ Ordered'
        /\ \A w \in Worker : AgentOf[w] \notin peers => Waiting(w)' = Waiting(w)
    BY <1>1, <1>4, <1>5, <1>6, Enqueued DEF BusInv
  <1>8. /\ turn' \in [Worker -> TurnRecord] /\ turn'[v] = NoTurn
        /\ \A w \in Worker \ {v} : turn'[w] = turn[w]
    BY <1>1, <1>2, NoTurnIsOne
  <1>9. Requests'
    BY <1>8, NoTurnIsOne DEF BusInv, Requests, OneRequest
  <1>10. /\ chain \in [Worker -> Seq(Caller)] /\ chain[v] \in Seq(Caller) /\ chain[v] # <<>>
         /\ Knows(chain[v], loop[v]) /\ loop \in [Worker -> LoopState]
    BY <1>1 DEF BusInv, TypeOK, LoopKnown, LoopState, TurnHeld
  <1>11. /\ Tail(chain[v]) \in Seq(Caller) /\ Len(Tail(chain[v])) = Len(chain[v]) - 1
         /\ Head(chain[v]) # "loop" => Knows(Tail(chain[v]), loop[v])
         /\ Head(chain[v]) = "loop" => Knows(Tail(chain[v]), "failed")
    BY <1>10, KnowsTail
  <1>12. /\ c \in [Worker -> Seq(Caller)] /\ l \in [Worker -> LoopState]
         /\ c[v] = Tail(chain[v]) /\ Knows(c[v], l[v]) /\ (loop[v] # "off" => l[v] # "off")
         /\ \A w \in Worker \ {v} : c[w] = chain[w] /\ l[w] = loop[w]
    BY <1>10, <1>11 DEF LoopState
  <1> HIDE DEF l, c
  <1>13. LoopKnown(c, l)
    BY <1>12 DEF BusInv, LoopKnown
  <1>14. HeldIn(c)
    BY <1>8, <1>12, NoTurnIsOne DEF BusInv, TurnHeld, HeldIn
  <1>15. LeftToOthers(peers, l, c)
    <2> SUFFICES
         ASSUME NEW w \in Worker, AgentOf[w] \notin peers
         PROVE  \/ AgentOf[w] \in pausedAt \cup owed' \/ tails'[w] > 0 \/ l[w] # "off" \/ w \in stalled
                \/ /\ IsFiniteSet(Waiting(w)')
                   /\ Cardinality(Waiting(w)') + (IF turn'[w].running THEN 1 ELSE 0) <= Len(c[w])
      BY DEF LeftToOthers
    <2>1. Waiting(w)' = Waiting(w) /\ owed' = owed /\ tails' = tails
      BY <1>1, <1>7
    <2>2. AttendedAt(w)
      BY DEF BusInv, Attended
    <2>3. CASE SomebodyElse(w)
      BY <1>12, <2>1, <2>3 DEF SomebodyElse
    <2>4. CASE w # v
      BY <1>8, <1>12, <2>1, <2>2, <2>4 DEF AttendedAt, SomebodyElse
    <2>5. CASE w = v /\ ~SomebodyElse(w)
      <3>1. IsFiniteSet(Waiting(v)) /\ Cardinality(Waiting(v)) + 1 <= Len(chain[v])
        BY <1>1, <2>2, <2>5 DEF AttendedAt
      <3>2. Cardinality(Waiting(v)) \in Nat /\ Len(chain[v]) \in Nat
        BY <1>10, <3>1, FS_CardinalityType
      <3>3. Cardinality(Waiting(v)) + 0 <= Len(c[v])
        BY <1>11, <1>12, <3>1, <3>2
      <3> QED  BY <1>8, <2>1, <2>5, <3>1, <3>3, NoTurnIsOne
    <2> QED  BY <2>3, <2>4, <2>5
  <1>16. owed' \subseteq Agent /\ tails' \in [Worker -> Nat] /\ pausedAt' = pausedAt
    BY <1>1 DEF BusInv, TypeOK
  <1>17. Wake(peers, queued', l, c)
    BY <1>1 DEF l, c
  <1> QED  BY <1>7, <1>8, <1>9, <1>12, <1>13, <1>14, <1>15, <1>16, <1>17, WakeStep

LEMMA RunReturnsStep ==
  ASSUME BusInv, NEW v \in Worker, RunReturns(v)
  PROVE  BusInv'
  <1> DEFINE A == WakeIfWaiting(v)
  <1>1. /\ tails[v] > 0 /\ tails' = [tails EXCEPT ![v] = @ - 1]
        /\ Wake(A, queued, loop, chain)
        /\ UNCHANGED <<queued, before, stale, turn, pausedAt, owed>>
    BY DEF RunReturns
  <1>2. Wake(A, queued', loop, chain) /\ QueueTypes' /\ Ordered' /\ Requests'
    BY <1>1 DEF BusInv, TypeOK, QueueTypes, Ordered, Requests
  <1>3. /\ turn' \in [Worker -> TurnRecord] /\ loop \in [Worker -> LoopState]
        /\ chain \in [Worker -> Seq(Caller)] /\ LoopKnown(chain, loop)
        /\ owed' \subseteq Agent /\ pausedAt' = pausedAt
        /\ HeldIn(chain)
    BY <1>1 DEF BusInv, TypeOK, LoopState, TurnHeld, HeldIn
  <1>4. tails \in [Worker -> Nat]
    BY DEF BusInv, TypeOK
  <1>5. tails' \in [Worker -> Nat] /\ \A w \in Worker \ {v} : tails'[w] = tails[w]
    BY <1>1, <1>4
  <1>6. \A w \in Worker : Waiting(w)' = Waiting(w) /\ turn'[w].running = turn[w].running
    BY <1>1 DEF Waiting, WaitingIn
  <1>7. LeftToOthers(A, loop, chain)
    <2> SUFFICES
        ASSUME NEW w \in Worker, AgentOf[w] \notin A
        PROVE  \/ AgentOf[w] \in pausedAt \cup owed' \/ tails'[w] > 0 \/ loop[w] # "off" \/ w \in stalled
               \/ /\ IsFiniteSet(Waiting(w)')
                  /\ Cardinality(Waiting(w)') + (IF turn'[w].running THEN 1 ELSE 0) <= Len(chain[w])
      BY DEF LeftToOthers
    <2>1. CASE w # v
      BY <1>1, <1>5, <1>6, <2>1, WasAttended
    <2>2. CASE w = v
      <3>1. Waiting(w)' = {}
        BY <1>6, <2>2 DEF WakeIfWaiting
      <3>2. IsFiniteSet(Waiting(w)') /\ Cardinality(Waiting(w)') = 0
        BY <3>1, FS_EmptySet
      <3>3. Len(chain[w]) \in Nat /\ (chain[w] # <<>> => Len(chain[w]) >= 1)
        BY <1>3
      <3> QED  BY <1>3, <3>2, <3>3 DEF HeldIn
    <2> QED  BY <2>1, <2>2
  <1> HIDE DEF A
  <1> QED  BY <1>2, <1>3, <1>5, <1>7, WakeStep

LEMMA RunReturnsToLoopStep ==
  ASSUME BusInv, NEW v \in Worker, RunReturnsToLoop(v)
  PROVE  BusInv'
  <1> DEFINE A == WakeIfWaiting(v)
             l == [loop EXCEPT ![v] = "check"]
  <1>1. /\ loop[v] = "after" /\ Wake(A, queued, l, chain)
        /\ UNCHANGED <<queued, before, stale, turn, tails, pausedAt, owed>>
    BY DEF RunReturnsToLoop
  <1>2. /\ turn' \in [Worker -> TurnRecord] /\ loop \in [Worker -> LoopState]
        /\ chain \in [Worker -> Seq(Caller)] /\ tails' \in [Worker -> Nat]
        /\ owed' \subseteq Agent /\ pausedAt' = pausedAt
        /\ HeldIn(chain)
    BY <1>1 DEF BusInv, TypeOK, LoopState, TurnHeld, HeldIn
  <1>3. /\ l \in [Worker -> LoopState] /\ l[v] = "check"
        /\ \A w \in Worker \ {v} : l[w] = loop[w]
    BY <1>2 DEF LoopState
  <1> HIDE DEF l
  <1>4. LoopKnown(chain, l)
    BY <1>1, <1>3 DEF BusInv, LoopKnown, Knows
  <1>5. Wake(A, queued', l, chain) /\ QueueTypes' /\ Ordered' /\ Requests'
    BY <1>1 DEF BusInv, TypeOK, QueueTypes, Ordered, Requests
  <1>6. \A w \in Worker : Waiting(w)' = Waiting(w) /\ turn'[w].running = turn[w].running
    BY <1>1 DEF Waiting, WaitingIn
  <1>7. LeftToOthers(A, l, chain)
    BY <1>1, <1>3, <1>6, WasAttended DEF LeftToOthers
  <1> HIDE DEF A
  <1> QED  BY <1>2, <1>3, <1>4, <1>5, <1>7, WakeStep

LEMMA WakeResumedStep ==
  ASSUME BusInv, NEW a \in Agent, WakeResumed(a)
  PROVE  BusInv'
  <1> DEFINE A == {a}
  <1>1. /\ owed' = owed \ {a} /\ Wake(A, queued, loop, chain)
        /\ UNCHANGED <<queued, before, stale, turn, tails, pausedAt>>
    BY DEF WakeResumed
  <1>2. /\ turn' \in [Worker -> TurnRecord] /\ loop \in [Worker -> LoopState]
        /\ chain \in [Worker -> Seq(Caller)] /\ tails' \in [Worker -> Nat]
        /\ LoopKnown(chain, loop) /\ owed' \subseteq Agent /\ pausedAt' = pausedAt
        /\ HeldIn(chain)
    BY <1>1 DEF BusInv, TypeOK, LoopState, TurnHeld, HeldIn
  <1>3. Wake(A, queued', loop, chain) /\ QueueTypes' /\ Ordered' /\ Requests'
    BY <1>1 DEF BusInv, TypeOK, QueueTypes, Ordered, Requests
  <1>4. \A w \in Worker : Waiting(w)' = Waiting(w) /\ turn'[w].running = turn[w].running
    BY <1>1 DEF Waiting, WaitingIn
  <1>5. LeftToOthers(A, loop, chain)
    BY <1>1, <1>4, WasAttended DEF LeftToOthers
  <1> HIDE DEF A
  <1> QED  BY <1>2, <1>3, <1>5, WakeStep

LEMMA LoopChecksStep ==
  ASSUME BusInv, NEW v \in Worker, LoopChecks(v)
  PROVE  BusInv'
  <1>1. /\ loop[v] = "check"
        /\ UNCHANGED <<queued, before, stale, turn, tails, pausedAt, owed, stalled>>
        /\ \/ /\ loop' = [loop EXCEPT ![v] = "running"]
              /\ chain' = [chain EXCEPT ![v] = Append(@, "loop")]
           \/ /\ Waiting(v) = {} \/ AgentOf[v] \in pausedAt
              /\ loop' = [loop EXCEPT ![v] = "off"] /\ chain' = chain
    BY DEF LoopChecks
  <1>2. /\ loop \in [Worker -> LoopState] /\ chain \in [Worker -> Seq(Caller)]
        /\ chain[v] \in Seq(Caller) /\ Knows(chain[v], "check") /\ "loop" \in Caller
    BY <1>1 DEF BusInv, TypeOK, LoopKnown, LoopState, Caller
  <1>3. /\ Append(chain[v], "loop") \in Seq(Caller) /\ Append(chain[v], "loop") # <<>>
        /\ Knows(Append(chain[v], "loop"), "running") /\ Knows(chain[v], "off")
    <2>1. Knows(chain[v], "off")
      BY <1>2 DEF Knows
    <2> QED  BY <1>2, <2>1, KnowsAppend
  <1>4. /\ loop' \in [Worker -> LoopState] /\ chain' \in [Worker -> Seq(Caller)]
        /\ Knows(chain'[v], loop'[v]) /\ (chain[v] # <<>> => chain'[v] # <<>>)
        /\ \A w \in Worker \ {v} : loop'[w] = loop[w] /\ chain'[w] = chain[w]
        /\ loop'[v] # "off" \/ Waiting(v) = {} \/ AgentOf[v] \in pausedAt
    BY <1>1, <1>2, <1>3 DEF LoopState
  <1>5. TypeOK'
    BY <1>1, <1>4 DEF BusInv, TypeOK, LoopState
  <1>6. LoopKnown(chain, loop)' /\ TurnHeld' /\ Requests' /\ Ordered'
    BY <1>1, <1>4 DEF BusInv, LoopKnown, TurnHeld, Requests, Ordered
  <1>7. ASSUME NEW w \in Worker PROVE AttendedAt(w)'
    <2>1. Waiting(w)' = Waiting(w) /\ Len(chain'[w]) \in Nat /\ (chain'[w] # <<>> => Len(chain'[w]) >= 1)
      BY <1>1, <1>4 DEF Waiting, WaitingIn
    <2>2. CASE w # v
      BY <1>1, <1>4, <2>1, <2>2 DEF BusInv, Attended, AttendedAt, SomebodyElse
    <2>3. CASE w = v /\ Waiting(v) # {}
      BY <1>1, <1>4, <2>3 DEF AttendedAt, SomebodyElse
    <2>4. CASE w = v /\ Waiting(v) = {}
      <3>1. IsFiniteSet(Waiting(w)') /\ Cardinality(Waiting(w)') = 0
        BY <2>1, <2>4, FS_EmptySet
      <3>2. (IF turn'[w].running THEN 1 ELSE 0) <= Len(chain'[w])
        BY <1>6, <2>1 DEF TurnHeld
      <3> QED  BY <2>1, <3>1, <3>2 DEF AttendedAt
    <2> QED  BY <2>2, <2>3, <2>4
  <1> QED  BY <1>5, <1>6, <1>7 DEF BusInv, Attended

LEMMA LoopStopsStep ==
  ASSUME BusInv, NEW v \in Worker, LoopStops(v)
  PROVE  BusInv'
  <1>1. /\ loop[v] = "failed" /\ loop' = [loop EXCEPT ![v] = "off"]
        /\ stalled' = (IF Waiting(v) # {} THEN stalled \cup {v} ELSE stalled)
        /\ UNCHANGED <<queued, before, stale, chain, turn, tails, pausedAt, owed>>
    BY DEF LoopStops
  <1>2. loop \in [Worker -> LoopState] /\ stalled \subseteq Worker
    BY DEF BusInv, TypeOK, LoopState
  <1>3. /\ loop' \in [Worker -> LoopState] /\ stalled' \subseteq Worker
        /\ \A w \in Worker \ {v} : loop'[w] = loop[w]
        /\ loop'[v] = "off" /\ stalled \subseteq stalled'
    BY <1>1, <1>2 DEF LoopState
  <1>4. TypeOK'
    BY <1>1, <1>3 DEF BusInv, TypeOK, LoopState
  <1>5. LoopKnown(chain, loop)'
    <2>1. \A w \in Worker : Knows(chain[w], loop[w])
      BY DEF BusInv, LoopKnown
    <2>2. Knows(chain[v], "off")
      BY <1>1, <2>1 DEF Knows
    <2> QED  BY <1>1, <1>3, <2>1, <2>2 DEF LoopKnown
  <1>6. TurnHeld' /\ Requests' /\ Ordered'
    BY <1>1 DEF BusInv, TurnHeld, Requests, Ordered
  <1>7. ASSUME NEW w \in Worker PROVE AttendedAt(w)'
    <2>1. Waiting(w)' = Waiting(w)
      BY <1>1 DEF Waiting, WaitingIn
    <2>2. CASE w # v
      BY <1>1, <1>3, <2>1, <2>2 DEF BusInv, Attended, AttendedAt, SomebodyElse
    <2>3. CASE w = v /\ Waiting(v) # {}
      BY <1>1, <2>3 DEF AttendedAt, SomebodyElse
    <2>4. CASE w = v /\ Waiting(v) = {}
      <3>1. IsFiniteSet(Waiting(w)') /\ Cardinality(Waiting(w)') = 0
        BY <2>1, <2>4, FS_EmptySet
      <3>2. (IF turn'[w].running THEN 1 ELSE 0) <= Len(chain'[w])
        <4>1. Len(chain'[w]) \in Nat /\ (chain'[w] # <<>> => Len(chain'[w]) >= 1)
          BY <1>4 DEF TypeOK
        <4> QED  BY <1>6, <4>1 DEF TurnHeld
      <3> QED  BY <3>1, <3>2 DEF AttendedAt
    <2> QED  BY <2>2, <2>3, <2>4
  <1> QED  BY <1>4, <1>5, <1>6, <1>7 DEF BusInv, Attended

LEMMA PauseStep ==
  ASSUME BusInv, NEW a \in Agent, Pause(a)
  PROVE  BusInv'
  <1>1. /\ pausedAt' = pausedAt \cup {a}
        /\ turn' = [w \in Worker |-> IF AgentOf[w] = a /\ turn[w].running
                                     THEN [turn[w] EXCEPT !.aborted = TRUE] ELSE turn[w]]
        /\ UNCHANGED <<queued, before, stale, chain, loop, tails, owed, stalled>>
    BY DEF Pause
  <1>2. \A w \in Worker : turn[w] \in TurnRecord
    BY DEF BusInv, TypeOK
  <1>3. \A w \in Worker : turn'[w] = turn[w] \/ turn'[w] = [turn[w] EXCEPT !.aborted = TRUE]
    BY <1>1
  <1>4. \A w \in Worker : /\ turn'[w] \in TurnRecord
                          /\ turn'[w].running = turn[w].running /\ turn'[w].inbound = turn[w].inbound
                          /\ turn'[w].steered = turn[w].steered
                          /\ turn'[w].principal = turn[w].principal
    BY <1>2, <1>3, AbortedTurn
  <1>5. turn' \in [Worker -> TurnRecord]
    <2>1. DOMAIN turn' = Worker /\ turn' = [w \in Worker |-> turn'[w]]
      BY <1>1
    <2> QED  BY <1>4, <2>1
  <1>6. TypeOK'
    BY <1>1, <1>5 DEF BusInv, TypeOK
  <1>7. Requests' /\ TurnHeld'
    BY <1>1, <1>4 DEF BusInv, Requests, OneRequest, TurnHeld
  <1>8. LoopKnown(chain, loop)' /\ Ordered'
    BY <1>1 DEF BusInv, LoopKnown, Ordered
  <1>9. ASSUME NEW w \in Worker PROVE AttendedAt(w)'
    <2>1. Waiting(w)' = Waiting(w)
      BY <1>1 DEF Waiting, WaitingIn
    <2> QED  BY <1>1, <1>4, <2>1 DEF BusInv, Attended, AttendedAt, SomebodyElse
  <1> QED  BY <1>6, <1>7, <1>8, <1>9 DEF BusInv, Attended

\* The steps that touch at most the clock of the queue.
LEMMA ClockStep ==
  ASSUME BusInv, stale' \subseteq queued,
         UNCHANGED <<queued, before, chain, turn, loop, tails, pausedAt, owed, stalled>>
  PROVE  BusInv'
  <1>1. TypeOK' /\ Ordered' /\ Requests' /\ LoopKnown(chain, loop)' /\ TurnHeld'
    BY DEF BusInv, TypeOK, Ordered, Requests, LoopKnown, TurnHeld
  <1>2. Attended'
    BY DEF BusInv, Attended, AttendedAt, SomebodyElse, Waiting, WaitingIn
  <1> QED  BY <1>1, <1>2 DEF BusInv

LEMMA StarveStep ==
  ASSUME BusInv, NEW m \in Message, Starve(m)
  PROVE  BusInv'
  <1>1. stale' \subseteq queued
    BY DEF Starve, BusInv, TypeOK
  <1> QED  BY <1>1, ClockStep DEF Starve

----------------------------------------------------------------------------
(* What follows.                                                           *)

LEMMA BusInit == Init => BusInv
  <1> SUFFICES ASSUME Init PROVE BusInv
    OBVIOUS
  <1>1. NoTurn \in TurnRecord /\ ~NoTurn.running
    BY NoTurnIsOne
  <1>2. TypeOK
    BY <1>1 DEF Init, TypeOK
  <1>3. Ordered
    BY EmptyIsWellFounded DEF Init, Ordered
  <1>4. Requests /\ TurnHeld
    BY <1>1, NoTurnIsOne DEF Init, Requests, OneRequest, TurnHeld
  <1>5. LoopKnown(chain, loop)
    BY DEF Init, LoopKnown, Knows
  <1>6. ASSUME NEW w \in Worker PROVE AttendedAt(w)
    <2>1. Waiting(w) = {} /\ ~turn[w].running /\ Len(chain[w]) = 0
      BY <1>1 DEF Init, Waiting, WaitingIn
    <2>2. IsFiniteSet(Waiting(w)) /\ Cardinality(Waiting(w)) = 0
      BY <2>1, FS_EmptySet
    <2> QED  BY <2>1, <2>2 DEF AttendedAt
  <1> QED  BY <1>2, <1>3, <1>4, <1>5, <1>6 DEF BusInv, Attended

LEMMA BusStep ==
  ASSUME BusInv, [Next]_vars
  PROVE  BusInv'
  <1>1. ASSUME UNCHANGED vars PROVE BusInv'
    BY <1>1, ClockStep DEF vars, BusInv, TypeOK
  <1> QED
    BY <1>1, SendAndWakeStep, SendAndRunStep, StarveStep, SkipRunStep, OpenTurnStep, SteerStep,
       TurnEndsStep, TurnFailsStep, RunReturnsStep, RunReturnsToLoopStep, LoopChecksStep,
       LoopStopsStep, PauseStep, WakeResumedStep, ResumeStep
    DEF Next, TurnStep, CallerStep

\* The invariant holds for any number of workers, agents and messages.
THEOREM BusInvariant == Spec => []BusInv
  <1>1. Init => BusInv
    BY BusInit
  <1>2. BusInv /\ [Next]_vars => BusInv'
    BY BusStep
  <1> QED  BY <1>1, <1>2, PTL DEF Spec

\* The maps of the bus keep their shapes: what is stale is queued, and every
\* turn has a principal a message came from.
THEOREM BusTypeCorrect == Spec => []TypeOK
  <1>1. BusInv => TypeOK
    BY DEF BusInv
  <1> QED  BY <1>1, BusInvariant, PTL

\* A turn is one request of one authority: one principal, one lane, and a
\* kickoff alone.  (drain(), takeSteering().)
THEOREM TurnsAreOneRequest == Spec => []OneRequestPerTurn
  <1>1. BusInv => OneRequestPerTurn
    BY DEF BusInv, Requests, OneRequest, OneRequestPerTurn, Taken
  <1> QED  BY <1>1, BusInvariant, PTL

\* A worker's loop has exactly one run in its chain while it waits for one, and
\* none otherwise.  (wake(), wakeScheduled.)
THEOREM LoopsRunOnce == Spec => []OneLoopRun
  <1>1. BusInv => OneLoopRun
    <2> SUFFICES ASSUME BusInv, NEW w \in Worker
                 PROVE  Cardinality({i \in 1..Len(chain[w]) : chain[w][i] = "loop"})
                          = IF loop[w] = "running" THEN 1 ELSE 0
      BY DEF OneLoopRun
    <2> DEFINE runs == {i \in 1..Len(chain[w]) : chain[w][i] = "loop"}
    <2>1. Knows(chain[w], loop[w])
      BY DEF BusInv, LoopKnown
    <2>2. CASE loop[w] = "running"
      <3>1. PICK i \in 1..Len(chain[w]) : \A j \in 1..Len(chain[w]) : chain[w][j] = "loop" <=> j = i
        BY <2>1, <2>2 DEF Knows
      <3>2. runs = {i}
        BY <3>1
      <3> QED  BY <2>2, <3>2, FS_Singleton
    <2>3. CASE loop[w] # "running"
      <3>1. runs = {}
        BY <2>1, <2>3 DEF Knows
      <3> QED  BY <2>3, <3>1, FS_EmptySet
    <2> QED  BY <2>2, <2>3
  <1> QED  BY <1>1, BusInvariant, PTL

\* Nothing waits with nobody to look at it, unless a failed turn stopped the
\* loop or the agent is paused.  (enqueue(), wake(), runExclusive().)
THEOREM WakeupsAreKept == Spec => []NoLostWakeup
  <1>1. BusInv => NoLostWakeup
    <2> SUFFICES ASSUME BusInv, NEW w \in Worker, Waiting(w) # {}
                 PROVE  \/ AgentOf[w] \in pausedAt \cup owed
                        \/ chain[w] # <<>> \/ tails[w] > 0
                        \/ loop[w] # "off"
                        \/ w \in stalled
      BY DEF NoLostWakeup
    <2>1. CASE SomebodyElse(w)
      BY <2>1 DEF SomebodyElse
    <2>2. CASE ~SomebodyElse(w)
      <3>1. /\ IsFiniteSet(Waiting(w))
            /\ Cardinality(Waiting(w)) + (IF turn[w].running THEN 1 ELSE 0) <= Len(chain[w])
        BY <2>2 DEF BusInv, Attended, AttendedAt
      <3>2. Cardinality(Waiting(w)) \in Nat /\ Cardinality(Waiting(w)) # 0
        BY <3>1, FS_CardinalityType, FS_EmptySet
      <3>3. chain[w] # <<>>
        BY <3>1, <3>2 DEF BusInv, TypeOK
      <3> QED  BY <3>3
    <2> QED  BY <2>1, <2>2
  <1> QED  BY <1>1, BusInvariant, PTL

\* Within a lane of a conversation a message is overtaken only by a person who
\* steers the turn in flight.  (drain(), boundBatch(), takeSteering().)
THEOREM LanesAreInOrder == Spec => TakenInOrder
  <1>1. ASSUME BusInv, [Next]_vars, NEW m \in queued, NEW n \in queued,
               <<m, n>> \in before, m \in queued', n \notin queued',
               About[m].to = About[n].to, About[m].lane = About[n].lane
        PROVE  n \in turn'[About[n].to].steered
    <2>1. ASSUME NEW v \in Worker, OpenTurn(v) PROVE FALSE
      <3>1. PICK S \in Drained(v) : queued' = queued \ S
        BY <2>1 DEF OpenTurn, Remove
      <3>2. /\ S \subseteq Waiting(v)
            /\ \A k \in Waiting(v) \ S, o \in S : <<k, o>> \in before => About[k].lane # About[o].lane
        BY <1>1, <2>1, DrainedIs DEF BusInv, OpenTurn
      <3>3. n \in S /\ m \notin S /\ About[n].to = v
        BY <1>1, <3>1, <3>2 DEF Waiting, WaitingIn
      <3>4. m \in Waiting(v) \ S
        BY <1>1, <3>3 DEF Waiting, WaitingIn
      <3> QED  BY <1>1, <3>2, <3>3, <3>4
    <2>2. ASSUME NEW v \in Worker, Steer(v) PROVE n \in turn'[About[n].to].steered
      <3>1. /\ queued' = queued \ Steerable(v)
            /\ turn' = [turn EXCEPT ![v] = [turn[v] EXCEPT !.steered = @ \cup Steerable(v)]]
        BY <2>2 DEF Steer, Remove
      <3>2. n \in Steerable(v) /\ About[n].to = v
        BY <1>1, <3>1 DEF Steerable, Waiting, WaitingIn
      <3>3. turn[v] \in TurnRecord /\ turn'[v] = [turn[v] EXCEPT !.steered = @ \cup Steerable(v)]
        BY <1>1, <3>1 DEF BusInv, TypeOK
      <3>4. turn'[v].steered = turn[v].steered \cup Steerable(v)
        BY <1>1, <3>3, SteeredTurn, SteerableIs DEF BusInv
      <3> QED  BY <3>2, <3>4
    <2>3. \/ queued \subseteq queued'
          \/ \E v \in Worker : OpenTurn(v) \/ Steer(v)
      BY <1>1 DEF Next, TurnStep, CallerStep, vars, SendAndWake, SendAndRun, Starve, SkipRun, TurnEnds,
             TurnFails, RunReturns, RunReturnsToLoop, LoopChecks, LoopStops, Pause, WakeResumed,
             Resume, Prompt, Enqueue
    <2> QED  BY <1>1, <2>1, <2>2, <2>3
  <1>2. BusInv /\ [Next]_vars =>
          [\A m, n \in queued :
             /\ <<m, n>> \in before /\ m \in queued' /\ n \notin queued'
             /\ About[m].to = About[n].to /\ About[m].lane = About[n].lane
             => n \in turn'[About[n].to].steered]_vars
    BY <1>1
  <1> QED  BY <1>2, BusInvariant, PTL DEF Spec, TakenInOrder

=============================================================================
