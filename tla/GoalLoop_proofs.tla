------------------------------ MODULE GoalLoop_proofs ------------------------------
(***************************************************************************)
(* Proofs about GoalLoop, for any goals and messages, any limits and any   *)
(* number of continuations, disturbances and restarts: a goal has at most  *)
(* one continuation and is not forgotten, a claim is judged, and silence   *)
(* never passes one.                                                       *)
(***************************************************************************)
EXTENDS GoalLoop, FiniteSetTheorems, TLAPS

----------------------------------------------------------------------------
(* Timers.                                                                 *)

\* What consideration does to the timer of a goal.
LEMMA ConsideredType ==
  ASSUME NEW goals \in SUBSET Goal, NEW b, NEW arm \in [Goal -> Pending], NEW run,
         NEW spoken \in Nat, NEW quiet
  PROVE  Considered(goals, b, arm, run, spoken, quiet) \in [Goal -> Pending]
  <1>1. \A i \in Goal : Timer(spoken, b[i].cont >= Limit) \in Pending
    <2>1. \A i \in Goal : (b[i].cont >= Limit) \in BOOLEAN
      BY GoalAssumption DEF GoalAssumption
    <2> QED  BY <2>1 DEF Timer, Pending
  <1> QED  BY <1>1 DEF Considered

LEMMA ConsideredSame ==
  ASSUME NEW goals \in SUBSET Goal, NEW b, NEW arm \in [Goal -> Pending], NEW run,
         NEW spoken, NEW quiet, NEW h \in Goal,
         arm[h].set \/ h \in run \/ h \notin goals
  PROVE  Considered(goals, b, arm, run, spoken, quiet)[h] = arm[h]
  BY DEF Considered

LEMMA ConsideredArms ==
  ASSUME NEW goals \in SUBSET Goal, NEW b, NEW arm \in [Goal -> Pending], NEW run,
         NEW spoken, NEW quiet, NEW h \in Goal,
         h \in goals, b[h].st = "active", h \notin run, quiet
  PROVE  Considered(goals, b, arm, run, spoken, quiet)[h].set
  BY DEF Considered, Timer

\* What a change of the board does to it.
LEMMA ChangedType ==
  ASSUME NEW g \in Goal, NEW b, NEW arm \in [Goal -> Pending], NEW run, NEW quiet,
         people \in Nat
  PROVE  Changed(g, b, arm, run, quiet) \in [Goal -> Pending]
  BY ConsideredType DEF Changed, NoTimer, Pending

LEMMA ChangedElsewhere ==
  ASSUME NEW g \in Goal, NEW b, NEW arm \in [Goal -> Pending], NEW run, NEW quiet,
         NEW h \in Goal, h # g
  PROVE  Changed(g, b, arm, run, quiet)[h] = arm[h]
  BY ConsideredSame DEF Changed

LEMMA ChangedStaysOff ==
  ASSUME NEW g \in Goal, NEW b, NEW arm \in [Goal -> Pending], NEW run, NEW quiet,
         NEW h \in Goal, h \in run, ~arm[h].set
  PROVE  ~Changed(g, b, arm, run, quiet)[h].set
  <1>1. CASE b[g].st = "active"
    BY <1>1, ConsideredSame DEF Changed
  <1>2. CASE b[g].st # "active"
    BY <1>2 DEF Changed, NoTimer
  <1> QED  BY <1>1, <1>2

LEMMA ChangedArms ==
  ASSUME NEW g \in Goal, NEW b, NEW arm \in [Goal -> Pending], NEW run, NEW quiet,
         b[g].st = "active", arm[g].set \/ (g \notin run /\ quiet)
  PROVE  Changed(g, b, arm, run, quiet)[g].set
  BY ConsideredSame, ConsideredArms DEF Changed

----------------------------------------------------------------------------
(* Types.                                                                  *)

\* The parts of the type invariant, as an inductive one: that a turn has at most
\* one continuation is said of its members.
ConvType ==
  /\ queue \subseteq Message /\ kept \subseteq Message \cup Check
  /\ people \in Nat
  /\ turn.batch \subseteq Message
  /\ turn = [batch |-> turn.batch, stage |-> turn.stage]
  /\ turn.stage \in {"none", "setup", "running", "over"}
  /\ \A v, w \in WakesIn(turn) : v = w
  /\ held \in BOOLEAN /\ stale \subseteq Wake /\ arrived \subseteq Said \cup Note

LoopType ==
  /\ armed \in [Goal -> Pending]
  /\ running \subseteq Goal
  /\ closing \subseteq [goal : Goal, nth : Nat, idle : Nat]
  /\ left \subseteq Goal

GateType ==
  /\ claiming \subseteq [goal : Goal, claim : Nat]
  /\ checks \subseteq Check /\ checking \subseteq CheckTurn
  /\ judging \subseteq [goal : Goal, verdict : Verdict]
  /\ words \in [Goal -> Verdict]
  /\ passed \subseteq Goal

CountType == events \in 0 .. MaxEvents /\ crashes \in 0 .. events

TypeInv == board \in [Goal -> Pursuit] /\ ConvType /\ LoopType /\ GateType /\ CountType

LEMMA TypeInvGives == TypeInv => TypeOK
  <1> SUFFICES ASSUME TypeInv PROVE TypeOK
    OBVIOUS
  <1>1. Cardinality(WakesIn(turn)) <= 1
    <2>1. CASE WakesIn(turn) = {}
      BY <2>1, FS_EmptySet
    <2>2. CASE WakesIn(turn) # {}
      <3>1. PICK w : WakesIn(turn) = {w}
        BY <2>2 DEF TypeInv, ConvType
      <3> QED  BY <3>1, FS_Singleton
    <2> QED  BY <2>1, <2>2
  <1> QED  BY <1>1 DEF TypeInv, TypeOK, ConvType, LoopType, GateType, CountType

LEMMA TypeInit == Init => TypeInv
  <1> SUFFICES ASSUME Init PROVE TypeInv
    OBVIOUS
  <1>1. board \in [Goal -> Pursuit]
    BY GoalAssumption DEF GoalAssumption, Init, Pursuit, Status
  <1>2. LoopType
    BY DEF Init, LoopType, Pending, NoTimer
  <1>3. ConvType
    BY DEF Init, ConvType, NoTurn, WakesIn
  <1>4. GateType
    BY DEF Init, GateType, Verdict
  <1>5. CountType
    BY GoalAssumption DEF GoalAssumption, Init, CountType
  <1> QED  BY <1>1, <1>2, <1>3, <1>4, <1>5 DEF TypeInv

\* A rejected claim: only this goal's entry changes, and it is under no
\* verification any more.
LEMMA RejectedIs ==
  ASSUME board \in [Goal -> Pursuit], NEW g \in Goal, NEW forced \in BOOLEAN
  PROVE  /\ Rejected(g, board, forced) \in [Goal -> Pursuit]
         /\ \A h \in Goal : h # g => Rejected(g, board, forced)[h] = board[h]
         /\ Rejected(g, board, forced)[g].st \in {"active", "paused"}
  <1> DEFINE st == IF forced \/ board[g].rejs + 1 >= Rejections THEN "paused" ELSE "active"
  <1>1. st \in {"active", "paused"} /\ st \in Status
    BY DEF Status
  <1>2. board[g].rejs + 1 \in Nat /\ 0 \in 0 .. Attempts
    BY GoalAssumption DEF GoalAssumption, Pursuit
  <1>3. Rejected(g, board, forced) =
          [board EXCEPT ![g].st = st, ![g].rejs = board[g].rejs + 1, ![g].att = 0, ![g].idle = 0]
    BY DEF Rejected
  <1> HIDE DEF st
  <1>4. Rejected(g, board, forced) \in [Goal -> Pursuit]
    BY <1>1, <1>2, <1>3 DEF Pursuit
  <1>5. Rejected(g, board, forced)[g].st = st
    BY <1>3 DEF Pursuit
  <1> QED  BY <1>1, <1>3, <1>4, <1>5

\* A claim that is written down.
LEMMA ClaimedType ==
  ASSUME NEW b \in [Goal -> Pursuit], NEW g \in Goal, NEW st \in Status, NEW claim \in Nat,
         NEW att \in 0 .. Attempts
  PROVE  [b EXCEPT ![g].st = st, ![g].claim = claim, ![g].att = att] \in [Goal -> Pursuit]
  <1> DEFINE e == [b[g] EXCEPT !.st = st, !.claim = claim, !.att = att]
  <1>1. b[g] \in Pursuit
    OBVIOUS
  <1>2. e \in Pursuit
    BY <1>1 DEF Pursuit
  <1>3. [b EXCEPT ![g].st = st, ![g].claim = claim, ![g].att = att] = [b EXCEPT ![g] = e]
    BY <1>1 DEF Pursuit
  <1> HIDE DEF e
  <1> QED  BY <1>2, <1>3

\* A change of the board, and a look at all goals after a verifier's turn.
LEMMA WriteType ==
  ASSUME TypeInv, NEW g \in Goal, NEW b \in [Goal -> Pursuit], NEW arm \in [Goal -> Pending],
         NEW run, Write(g, b, arm, run)
  PROVE  board' \in [Goal -> Pursuit] /\ armed' \in [Goal -> Pending] /\ left' \subseteq Goal
  <1>1. Changed(g, b, arm, run, Quiet(turn, queue, held)) \in [Goal -> Pending]
    BY ChangedType DEF TypeInv, ConvType
  <1> QED  BY <1>1 DEF Write, Arm, TypeInv, LoopType

LEMMA AfterCheckType ==
  ASSUME TypeInv, NEW g \in Goal, NEW b \in [Goal -> Pursuit], AfterCheck(g, b)
  PROVE  board' \in [Goal -> Pursuit] /\ armed' \in [Goal -> Pending] /\ left' \subseteq Goal
  <1> DEFINE quiet == Quiet(turn, queue, held)
  <1> HIDE DEF quiet
  <1>1. armed \in [Goal -> Pending] /\ people \in Nat
    BY DEF TypeInv, ConvType, LoopType
  <1>2. Changed(g, b, armed, running, quiet) \in [Goal -> Pending]
    BY <1>1, ChangedType
  <1>3. Considered(Goal, b, Changed(g, b, armed, running, quiet), running, people, quiet)
          \in [Goal -> Pending]
    BY <1>1, <1>2, ConsideredType
  <1> QED  BY <1>3 DEF quiet, AfterCheck, Arm, TypeInv, LoopType

\* People, teammates, and turns before their end.
LEMMA ConversationType ==
  ASSUME TypeInv,
         \/ \E g \in Goal, p \in Said : SetGoal(g, p)
         \/ \E m \in Said \cup Note : Arrive(m)
         \/ Release
         \/ \E batch \in Batches : Open(batch)
         \/ \E w \in queue \cap Wake : Continue(w)
         \/ Begin \/ SetupFails \/ Ask
         \/ \E p \in queue \cap Said : Steer(p)
  PROVE  TypeInv'
  <1> USE GoalAssumption DEF GoalAssumption, TypeInv, conv, loop, gate, count
  <1>1. Said \cup Note \cup {Resumption} \subseteq Message
    BY DEF Message, Other
  <1>2. ASSUME NEW g \in Goal, NEW p \in Said, SetGoal(g, p)  PROVE TypeInv'
    <2>1. board' \in [Goal -> Pursuit]
      BY <1>2 DEF SetGoal, Pursuit, Status
    <2>2. ConvType'
      BY <1>1, <1>2 DEF SetGoal, ConvType, WakesIn
    <2>3. LoopType' /\ GateType' /\ CountType'
      BY <1>2 DEF SetGoal, LoopType, GateType, CountType
    <2> QED  BY <2>1, <2>2, <2>3
  <1>3. ASSUME NEW m \in Said \cup Note, Arrive(m)  PROVE TypeInv'
    <2>1. ConvType'
      BY <1>1, <1>3 DEF Arrive, ConvType, WakesIn
    <2>2. LoopType' /\ GateType' /\ CountType' /\ board' = board
      BY <1>3 DEF Arrive, LoopType, GateType, CountType
    <2> QED  BY <2>1, <2>2
  <1>4. CASE Release
    <2>1. ConvType'
      BY <1>1, <1>4 DEF Release, ConvType, WakesIn
    <2>2. LoopType' /\ GateType' /\ CountType' /\ board' = board
      BY <1>4 DEF Release, LoopType, GateType, CountType
    <2> QED  BY <2>1, <2>2
  <1>5. ASSUME NEW batch \in Batches, Open(batch)  PROVE TypeInv'
    <2>1. batch \subseteq queue /\ batch \cap Wake = {}
      BY MessagesDiffer DEF Batches, Other
    <2>2. ConvType'
      BY <1>5, <2>1 DEF Open, ConvType, WakesIn
    <2>3. armed' \in [Goal -> Pending] /\ left' \subseteq Goal
      BY <1>5 DEF Open, Arm, LoopType, NoTimer, Pending
    <2>4. LoopType' /\ GateType' /\ CountType' /\ board' = board
      BY <1>5, <2>3 DEF Open, LoopType, GateType, CountType
    <2> QED  BY <2>2, <2>4
  <1>6. ASSUME NEW w \in queue \cap Wake, Continue(w)  PROVE TypeInv'
    <2>1. turn'.batch = {w} /\ turn' = [batch |-> {w}, stage |-> turn'.stage]
          /\ turn'.stage \in {"setup", "over"}
      BY <1>6 DEF Continue
    <2>2. ConvType'
      BY <1>6, <2>1 DEF Continue, ConvType, WakesIn
    <2>3. w.goal \in Goal
      BY DEF Wake
    <2>4. LoopType' /\ GateType' /\ CountType' /\ board' = board
      BY <1>6, <2>3 DEF Continue, LoopType, GateType, CountType
    <2> QED  BY <2>2, <2>4
  <1>7. CASE Begin
    BY <1>7 DEF Begin, ConvType, LoopType, GateType, CountType, WakesIn
  <1>8. CASE SetupFails
    <2>1. ConvType'
      BY <1>8 DEF SetupFails, ConvType, WakesIn
    <2>2. LoopType' /\ GateType' /\ CountType' /\ board' = board
      BY <1>8 DEF SetupFails, LoopType, GateType, CountType
    <2> QED  BY <2>1, <2>2
  <1>9. CASE Ask
    BY <1>9 DEF Ask, ConvType, LoopType, GateType, CountType, WakesIn
  <1>10. ASSUME NEW p \in queue \cap Said, Steer(p)  PROVE TypeInv'
    BY <1>10 DEF Steer, ConvType, LoopType, GateType, CountType, WakesIn
  <1> QED  BY <1>2, <1>3, <1>4, <1>5, <1>6, <1>7, <1>8, <1>9, <1>10

\* The loop, and the end of a turn.
LEMMA LoopsType ==
  ASSUME TypeInv,
         \/ \E g \in Goal : Pause(g) \/ Resume(g) \/ Clear(g) \/ FireInVain(g) \/ Start(g)
         \/ \E failed, worked \in BOOLEAN : EndTurn(failed, worked)
         \/ TurnFinished
         \/ \E c \in closing, repeats \in BOOLEAN : Account(c, repeats)
  PROVE  TypeInv'
  <1> USE GoalAssumption DEF GoalAssumption, conv, loop, gate, count
  <1>1. NoTimer \in Pending /\ \A n \in Nat, last \in BOOLEAN : Timer(n, last) \in Pending
    BY DEF NoTimer, Timer, Pending
  <1>2. /\ board \in [Goal -> Pursuit] /\ armed \in [Goal -> Pending]
        /\ people \in Nat /\ left \subseteq Goal
    BY DEF TypeInv, ConvType, LoopType
  <1>3. ASSUME NEW g \in Goal, NEW from, NEW to \in Status, Order(g, from, to)  PROVE TypeInv'
    <2>1. [board EXCEPT ![g].st = to] \in [Goal -> Pursuit]
      BY <1>2 DEF Pursuit
    <2>2. board' \in [Goal -> Pursuit] /\ armed' \in [Goal -> Pending] /\ left' \subseteq Goal
      BY <1>2, <1>3, <2>1, WriteType DEF Order
    <2>3. ConvType' /\ LoopType' /\ GateType' /\ CountType'
      BY <1>3, <2>2 DEF Order, TypeInv, ConvType, LoopType, GateType, CountType, WakesIn
    <2> QED  BY <2>2, <2>3 DEF TypeInv
  <1>4. ASSUME NEW g \in Goal, FireInVain(g)  PROVE TypeInv'
    <2>1. armed' \in [Goal -> Pending] /\ left' \subseteq Goal
      BY <1>1, <1>2, <1>4 DEF FireInVain, Arm
    <2> QED
      BY <1>4, <2>1 DEF FireInVain, TypeInv, ConvType, LoopType, GateType, CountType, WakesIn
  <1>5. ASSUME NEW g \in Goal, Start(g)  PROVE TypeInv'
    <2> DEFINE nth == board[g].cont + 1
               wake == [goal |-> g, nth |-> nth, person |-> armed[g].person,
                        last |-> armed[g].last, born |-> crashes]
    <2>1. nth \in 1 .. MaxWakes
      BY <1>2, <1>5 DEF Start, Pursuit
    <2>2. [board EXCEPT ![g].cont = nth] \in [Goal -> Pursuit]
      BY <1>2, <2>1 DEF Pursuit
    <2>3. [armed EXCEPT ![g] = NoTimer] \in [Goal -> Pending]
      BY <1>1, <1>2
    <2>4. board' \in [Goal -> Pursuit] /\ armed' \in [Goal -> Pending] /\ left' \subseteq Goal
      BY <1>5, <2>2, <2>3, WriteType DEF Start
    <2>5. crashes \in 0 .. MaxEvents
      BY DEF TypeInv, CountType
    <2>6. wake \in Message
      BY <1>2, <2>1, <2>5 DEF Wake, Message, Pending
    <2>7. queue' = queue \cup {wake}
      BY <1>5 DEF Start
    <2> HIDE DEF wake
    <2>8. ConvType' /\ LoopType' /\ GateType' /\ CountType'
      BY <1>5, <2>4, <2>6, <2>7
      DEF Start, TypeInv, ConvType, LoopType, GateType, CountType, WakesIn
    <2> QED  BY <2>4, <2>8 DEF TypeInv
  <1>6. ASSUME NEW failed \in BOOLEAN, NEW worked \in BOOLEAN, EndTurn(failed, worked)
        PROVE  TypeInv'
    <2>1. \A w \in WakesIn(turn) : w.goal \in Goal
      BY DEF WakesIn, Wake
    <2> DEFINE Kept ==
          /\ board' \in [Goal -> Pursuit] /\ armed' \in [Goal -> Pending]
          /\ closing' \subseteq [goal : Goal, nth : Nat, idle : Nat] /\ left' \subseteq Goal
    <2>2. Kept
      <3>1. CASE WakesIn(turn) = {}
        BY <1>2, <1>6, <3>1 DEF EndTurn, TypeInv, LoopType
      <3>2. ASSUME NEW w \in WakesIn(turn), FinishOnly(w.goal)
            PROVE  Kept
        <4>1. [board EXCEPT ![w.goal].st = "paused"] \in [Goal -> Pursuit]
          BY <1>2, <2>1 DEF Pursuit, Status
        <4> QED
          BY <1>2, <2>1, <3>2, <4>1, WriteType DEF FinishOnly, TypeInv, LoopType
      <3>3. ASSUME NEW w \in WakesIn(turn), Failed(w.goal)
            PROVE  Kept
        <4>1. CASE board[w.goal].errors + 1 > Retries
          <5>1. [board EXCEPT ![w.goal].errors = Retries + 1, ![w.goal].st = "paused"]
                  \in [Goal -> Pursuit]
            BY <1>2, <2>1 DEF Pursuit, Status
          <5> QED
            BY <1>2, <2>1, <3>3, <4>1, <5>1, WriteType DEF Failed, TypeInv, LoopType
        <4>2. CASE ~(board[w.goal].errors + 1 > Retries)
          <5>1. board[w.goal].errors + 1 \in 0 .. Retries + 1
            BY <1>2, <2>1, <4>2 DEF Pursuit
          <5>2. [board EXCEPT ![w.goal].errors = board[w.goal].errors + 1] \in [Goal -> Pursuit]
            BY <1>2, <2>1, <5>1 DEF Pursuit
          <5>3. [armed EXCEPT ![w.goal] = Timer(people, FALSE)] \in [Goal -> Pending]
            BY <1>1, <1>2
          <5> QED
            BY <1>2, <3>3, <4>2, <5>2, <5>3 DEF Failed, Arm, TypeInv, LoopType
        <4> QED  BY <4>1, <4>2
      <3>4. ASSUME NEW w \in WakesIn(turn), Succeeded(w.goal, worked)
            PROVE  Kept
        BY <1>2, <2>1, <3>4 DEF Succeeded, TypeInv, LoopType, Pursuit
      <3> QED  BY <1>6, <3>1, <3>2, <3>3, <3>4 DEF EndTurn
    <2>3. ConvType' /\ LoopType' /\ GateType' /\ CountType'
      BY <1>6, <2>2 DEF EndTurn, TypeInv, ConvType, LoopType, GateType, CountType, WakesIn
    <2> QED  BY <2>2, <2>3 DEF TypeInv
  <1>7. CASE TurnFinished
    <2>1. Considered(Goal, board, armed, running, people, QuietAfter) \in [Goal -> Pending]
      BY <1>2, ConsideredType
    <2>2. LoopType'
      BY <1>7, <2>1 DEF TurnFinished, Arm, TypeInv, LoopType
    <2>3. ConvType'
      BY <1>7 DEF TurnFinished, TypeInv, ConvType, WakesIn, NoTurn
    <2> QED
      BY <1>7, <2>2, <2>3 DEF TurnFinished, TypeInv, GateType, CountType
  <1>8. ASSUME NEW c \in closing, NEW repeats \in BOOLEAN, Account(c, repeats)  PROVE TypeInv'
    <2> DEFINE b == [board EXCEPT ![c.goal].idle = c.idle, ![c.goal].errors = 0,
                                  ![c.goal].st = IF c.idle >= AntiSpin \/ repeats
                                                   THEN "paused" ELSE @]
    <2>1. c.goal \in Goal /\ c.idle \in Nat
      BY DEF TypeInv, LoopType
    <2>2. b \in [Goal -> Pursuit]
      <3>1. PICK st \in Status : (IF c.idle >= AntiSpin \/ repeats THEN "paused"
                                    ELSE board[c.goal].st) = st
        BY <1>2, <2>1 DEF Pursuit, Status
      <3>2. b = [board EXCEPT ![c.goal].idle = c.idle, ![c.goal].errors = 0, ![c.goal].st = st]
        BY <3>1
      <3> QED  BY <1>2, <2>1, <3>2 DEF Pursuit
    <2>3. Write(c.goal, b, armed, running)
      BY <1>8 DEF Account
    <2> HIDE DEF b
    <2>4. board' \in [Goal -> Pursuit] /\ armed' \in [Goal -> Pending] /\ left' \subseteq Goal
      BY <1>2, <2>1, <2>2, <2>3, WriteType
    <2>5. ConvType' /\ LoopType' /\ GateType' /\ CountType'
      BY <1>8, <2>4 DEF Account, TypeInv, ConvType, LoopType, GateType, CountType, WakesIn
    <2> QED  BY <2>4, <2>5 DEF TypeInv
  <1> QED
    BY <1>3, <1>4, <1>5, <1>6, <1>7, <1>8 DEF Pause, Resume, Clear, Status

\* What a verifier is woken for, as its turn has it.
LEMMA WakeOfIs ==
  ASSUME NEW k \in CheckTurn
  PROVE  WakeOf(k) \in Check /\ k.goal \in Goal /\ WakeOf(k).goal = k.goal /\ WakeOf(k).att = k.att
  BY DEF WakeOf, CheckTurn, Check

\* The gate and the verifiers' turns.
LEMMA GatesType ==
  ASSUME TypeInv,
         \/ \E g \in Goal : Claim(g)
         \/ \E c \in claiming : Refuse(c) \/ Accept(c)
         \/ \E c \in checks : OpenCheck(c)
         \/ \E k \in checking :
              \/ CheckBegins(k) \/ CheckSetupFails(k)
              \/ \E verdict \in Verdict : CheckSpeaks(k, verdict)
              \/ \E done \in BOOLEAN : CheckEnds(k, done)
         \/ \E j \in judging, disturbed \in BOOLEAN : Judge(j, disturbed)
  PROVE  TypeInv'
  <1> USE GoalAssumption DEF GoalAssumption, conv, loop, gate, count
  <1>1. /\ board \in [Goal -> Pursuit] /\ armed \in [Goal -> Pending] /\ left \subseteq Goal
        /\ checking \subseteq CheckTurn
    BY DEF TypeInv, LoopType, GateType
  <1>2. ASSUME NEW g \in Goal, Claim(g)  PROVE TypeInv'
    <2>1. board[g].rejs + 1 \in Nat
      BY <1>1 DEF Pursuit
    <2>2. GateType'
      BY <1>2, <2>1 DEF Claim, TypeInv, GateType
    <2> QED
      BY <1>2, <2>2 DEF Claim, TypeInv, ConvType, LoopType, CountType, WakesIn
  <1>3. ASSUME NEW c \in claiming, Refuse(c)  PROVE TypeInv'
    <2>1. c.goal \in Goal
      BY DEF TypeInv, GateType
    <2>2. board' \in [Goal -> Pursuit] /\ armed' \in [Goal -> Pending] /\ left' \subseteq Goal
      BY <1>1, <1>3, <2>1, WriteType, RejectedIs DEF Refuse
    <2> QED
      BY <1>3, <2>2 DEF Refuse, TypeInv, ConvType, LoopType, GateType, CountType, WakesIn
  <1>4. ASSUME NEW c \in claiming, Accept(c)  PROVE TypeInv'
    <2>1. c.goal \in Goal /\ c.claim \in Nat /\ 1 \in 1 .. Attempts /\ 1 \in 0 .. Attempts
      BY DEF TypeInv, GateType
    <2>2. [board EXCEPT ![c.goal].st = "verifying", ![c.goal].claim = c.claim, ![c.goal].att = 1]
            \in [Goal -> Pursuit]
      <3>1. "verifying" \in Status
        BY DEF Status
      <3> QED  BY <1>1, <2>1, <3>1, ClaimedType
    <2>3. board' \in [Goal -> Pursuit] /\ armed' \in [Goal -> Pending] /\ left' \subseteq Goal
      BY <1>1, <1>4, <2>1, <2>2, WriteType DEF Accept
    <2>4. [goal |-> c.goal, claim |-> c.claim, att |-> 1] \in Check
      BY <2>1 DEF Check
    <2>5. GateType'
      BY <1>4, <2>4 DEF Accept, TypeInv, GateType, Verdict
    <2> QED
      BY <1>4, <2>3, <2>5 DEF Accept, TypeInv, ConvType, LoopType, CountType, WakesIn
  <1>5. ASSUME NEW c \in checks, OpenCheck(c)  PROVE TypeInv'
    <2>1. c \in Check
      BY DEF TypeInv, GateType
    <2>2. c.goal \in Goal /\ [goal |-> c.goal, claim |-> c.claim, att |-> c.att,
                              stage |-> "setup", said |-> "none"] \in CheckTurn
      BY <2>1 DEF Check, CheckTurn, Verdict
    <2>3. board' \in [Goal -> Pursuit] /\ armed' \in [Goal -> Pending] /\ left' \subseteq Goal
      BY <1>1, <1>5, <2>2, AfterCheckType DEF OpenCheck
    <2>4. GateType'
      BY <1>5, <2>2 DEF OpenCheck, TypeInv, GateType
    <2> QED
      BY <1>5, <2>3, <2>4 DEF OpenCheck, TypeInv, ConvType, LoopType, CountType, WakesIn
  <1>6. ASSUME NEW k \in checking, CheckBegins(k)  PROVE TypeInv'
    <2>1. [k EXCEPT !.stage = "running"] \in CheckTurn
      BY <1>1 DEF CheckTurn
    <2>2. GateType'
      BY <1>6, <2>1 DEF CheckBegins, TypeInv, GateType
    <2> QED
      BY <1>6, <2>2 DEF CheckBegins, TypeInv, ConvType, LoopType, CountType, WakesIn
  <1>7. ASSUME NEW k \in checking, CheckSetupFails(k)  PROVE TypeInv'
    <2>1. WakeOf(k) \in Check /\ k.goal \in Goal
      BY <1>1, WakeOfIs
    <2>2. board' \in [Goal -> Pursuit] /\ armed' \in [Goal -> Pending] /\ left' \subseteq Goal
      BY <1>1, <1>7, <2>1, AfterCheckType DEF CheckSetupFails
    <2>3. ConvType'
      BY <1>7, <2>1 DEF CheckSetupFails, TypeInv, ConvType, WakesIn
    <2>4. GateType' /\ LoopType' /\ CountType'
      BY <1>7, <2>2 DEF CheckSetupFails, TypeInv, GateType, LoopType, CountType
    <2> QED  BY <2>2, <2>3, <2>4 DEF TypeInv
  <1>8. ASSUME NEW k \in checking, NEW verdict \in Verdict, CheckSpeaks(k, verdict)  PROVE TypeInv'
    <2>1. [k EXCEPT !.said = verdict] \in CheckTurn /\ k.goal \in Goal
      BY <1>1 DEF CheckTurn
    <2>2. GateType'
      BY <1>8, <2>1 DEF CheckSpeaks, TypeInv, GateType
    <2> QED
      BY <1>8, <2>2 DEF CheckSpeaks, TypeInv, ConvType, LoopType, CountType, WakesIn
  <1>9. ASSUME NEW k \in checking, NEW done \in BOOLEAN, CheckEnds(k, done)  PROVE TypeInv'
    <2>1. k \in CheckTurn /\ k.goal \in Goal /\ k.said \in Verdict /\ k.att \in 1 .. Attempts
      BY <1>1 DEF CheckTurn
    <2> DEFINE Kept == /\ board' \in [Goal -> Pursuit] /\ armed' \in [Goal -> Pending]
                       /\ left' \subseteq Goal /\ checks' \subseteq Check
                       /\ judging' \subseteq [goal : Goal, verdict : Verdict]
    <2>2. Kept
      <3>1. CASE AfterCheck(k.goal, board) /\ UNCHANGED checks
        <4>1. board' \in [Goal -> Pursuit] /\ armed' \in [Goal -> Pending] /\ left' \subseteq Goal
          BY <1>1, <2>1, <3>1, AfterCheckType
        <4> QED  BY <1>9, <2>1, <3>1, <4>1 DEF CheckEnds, TypeInv, GateType
      <3>2. CASE NoVerdict(k) /\ UNCHANGED judging
        <4>1. CASE k.att < Attempts
          <5>1. k.att + 1 \in 1 .. Attempts /\ k.att + 1 \in 0 .. Attempts
            BY <2>1, <4>1
          <5>2. [board EXCEPT ![k.goal].att = k.att + 1] \in [Goal -> Pursuit]
            BY <1>1, <2>1, <5>1 DEF Pursuit
          <5>3. board' \in [Goal -> Pursuit] /\ armed' \in [Goal -> Pending] /\ left' \subseteq Goal
            BY <2>1, <3>2, <4>1, <5>2, AfterCheckType DEF NoVerdict, TryAgain
          <5>4. [WakeOf(k) EXCEPT !.att = k.att + 1] \in Check
            BY <2>1, <5>1, WakeOfIs DEF Check
          <5> QED
            BY <3>2, <4>1, <5>3, <5>4 DEF NoVerdict, TryAgain, TypeInv, GateType
        <4>2. CASE ~(k.att < Attempts)
          <5>1. Rejected(k.goal, board, TRUE) \in [Goal -> Pursuit]
            BY <1>1, <2>1, RejectedIs
          <5>2. board' \in [Goal -> Pursuit] /\ armed' \in [Goal -> Pending] /\ left' \subseteq Goal
            BY <2>1, <3>2, <4>2, <5>1, AfterCheckType DEF NoVerdict
          <5> QED  BY <3>2, <4>2, <5>2 DEF NoVerdict, TypeInv, GateType
        <4> QED  BY <4>1, <4>2
      <3> QED  BY <1>9, <3>1, <3>2 DEF CheckEnds
    <2>3. checking' \subseteq CheckTurn
      BY <1>1, <1>9 DEF CheckEnds
    <2>4. ConvType' /\ LoopType' /\ GateType' /\ CountType'
      BY <1>9, <2>2, <2>3
      DEF CheckEnds, TypeInv, ConvType, LoopType, GateType, CountType, WakesIn
    <2> QED  BY <2>2, <2>4 DEF TypeInv
  <1>10. ASSUME NEW j \in judging, NEW disturbed \in BOOLEAN, Judge(j, disturbed)  PROVE TypeInv'
    <2>1. j.goal \in Goal /\ 0 \in 0 .. Attempts
      BY DEF TypeInv, GateType
    <2>2. [board EXCEPT ![j.goal].st = "complete", ![j.goal].att = 0] \in [Goal -> Pursuit]
      BY <1>1, <2>1 DEF Pursuit, Status
    <2>3. Rejected(j.goal, board, FALSE) \in [Goal -> Pursuit]
      BY <1>1, <2>1, RejectedIs
    <2>4. board' \in [Goal -> Pursuit] /\ armed' \in [Goal -> Pending] /\ left' \subseteq Goal
      BY <1>1, <1>10, <2>1, <2>2, <2>3, WriteType DEF Judge
    <2> QED
      BY <1>10, <2>4 DEF Judge, TypeInv, ConvType, LoopType, GateType, CountType, WakesIn
  <1> QED  BY <1>2, <1>3, <1>4, <1>5, <1>6, <1>7, <1>8, <1>9, <1>10

\* The board after a restart.
LEMMA RestartBoard ==
  ASSUME TypeInv, NEW fate, Restart(fate)
  PROVE  /\ board' \in [Goal -> Pursuit]
         /\ \A g \in Goal :
              IF g \in Interrupted THEN board'[g].st \in {"active", "paused"}
                                   ELSE board'[g] = board[g]
  <1>1. board \in [Goal -> Pursuit]
    BY DEF TypeInv
  <1>2. \A g \in Goal : Rejected(g, board, FALSE) \in [Goal -> Pursuit]
                        /\ Rejected(g, board, FALSE)[g].st \in {"active", "paused"}
    BY <1>1, RejectedIs
  <1>3. board' = [g \in Goal |-> IF g \in Interrupted THEN Rejected(g, board, FALSE)[g]
                                                      ELSE board[g]]
    BY DEF Restart
  <1> QED  BY <1>1, <1>2, <1>3

LEMMA RestartType ==
  ASSUME TypeInv, NEW fate, Restart(fate)
  PROVE  TypeInv'
  <1> USE GoalAssumption DEF GoalAssumption
  <1> DEFINE again == IF turn.stage = "setup" THEN turn.batch ELSE {}
             h == held \/ fate = "parked"
  <1>1. board' \in [Goal -> Pursuit]
    BY RestartBoard
  <1>2. queue' \subseteq Message
    <2>1. Resumption \in Message
      BY DEF Message, Other
    <2> QED  BY <2>1 DEF Restart, TypeInv, ConvType
  <1>3. ConvType'
    <2>1. held' \in BOOLEAN /\ kept' = {} /\ people' = 0 /\ turn' = NoTurn /\ stale' = {}
          /\ arrived' = arrived
      BY DEF Restart
    <2>2. NoTurn = [batch |-> {}, stage |-> "none"] /\ NoTurn.batch = {} /\ NoTurn.stage = "none"
      BY DEF NoTurn
    <2> QED  BY <1>2, <2>1, <2>2 DEF TypeInv, ConvType, WakesIn
  <1>4. armed' \in [Goal -> Pending]
    <2>1. [g \in Goal |-> NoTimer] \in [Goal -> Pending]
      BY DEF NoTimer, Pending
    <2>2. armed' = Considered(Goal, board', [g \in Goal |-> NoTimer], {}, 0,
                              Quiet(NoTurn, queue', held'))
      BY DEF Restart
    <2>3. Considered(Goal, board', [g \in Goal |-> NoTimer], {}, 0, Quiet(NoTurn, queue', held'))
            \in [Goal -> Pending]
      BY <2>1, ConsideredType
    <2> QED  BY <2>2, <2>3
  <1>5. LoopType'
    BY <1>4 DEF Restart, LoopType
  <1>6. checks' \subseteq Check
    <2>1. \A k \in checking : WakeOf(k) \in Check
      BY WakeOfIs DEF TypeInv, GateType
    <2> QED  BY <2>1 DEF Restart, TypeInv, GateType
  <1>7. GateType'
    BY <1>6 DEF Restart, TypeInv, GateType
  <1>8. CountType'
    BY DEF Restart, TypeInv, CountType
  <1> QED  BY <1>1, <1>3, <1>5, <1>7, <1>8 DEF TypeInv

LEMMA TypeStep == TypeInv /\ [Next]_vars => TypeInv'
  <1> SUFFICES ASSUME TypeInv, [Next]_vars PROVE TypeInv'
    OBVIOUS
  <1>1. CASE UNCHANGED vars
    BY <1>1 DEF vars, conv, loop, gate, count, TypeInv, ConvType, LoopType, GateType, CountType,
                WakesIn
  <1>2. CASE Next
    BY <1>2, ConversationType, LoopsType, GatesType, RestartType DEF Next
  <1> QED  BY <1>1, <1>2

\* No step of loop, gate or restart leaves the shapes of the board, the queues and
\* the turns, gives a turn two continuations, or counts past a bound of retries.
THEOREM GoalTypeCorrect == Spec => []TypeOK
  <1>1. Spec => []TypeInv
    BY TypeInit, TypeStep, PTL DEF Spec
  <1> QED  BY <1>1, TypeInvGives, PTL

----------------------------------------------------------------------------
(* One continuation at a time.                                             *)

\* A goal whose continuation is taken to run and which has no timer gets none, and
\* stays so, until that continuation's turn ends or the process does.
Bound(g) == g \in running /\ ~armed[g].set

LEMMA WriteKeepsBound ==
  ASSUME TypeInv, NEW h \in Goal, NEW b, Write(h, b, armed, running), NEW g \in Goal, Bound(g)
  PROVE  ~armed'[g].set
  <1>1. armed \in [Goal -> Pending] /\ people \in Nat
    BY DEF TypeInv, ConvType, LoopType
  <1>2. ~Changed(h, b, armed, running, Quiet(turn, queue, held))[g].set
    BY <1>1, ChangedStaysOff DEF Bound
  <1> QED  BY <1>2 DEF Write, Arm

LEMMA AfterCheckKeepsBound ==
  ASSUME TypeInv, NEW h \in Goal, NEW b, AfterCheck(h, b), NEW g \in Goal, Bound(g)
  PROVE  ~armed'[g].set
  <1> DEFINE quiet == Quiet(turn, queue, held)
             arm == Changed(h, b, armed, running, quiet)
  <1>1. armed \in [Goal -> Pending] /\ people \in Nat
    BY DEF TypeInv, ConvType, LoopType
  <1>2. armed' = Considered(Goal, b, arm, running, people, quiet)
    BY DEF AfterCheck, Arm
  <1> HIDE DEF quiet
  <1>3. arm \in [Goal -> Pending] /\ ~arm[g].set
    BY <1>1, ChangedType, ChangedStaysOff DEF Bound
  <1> HIDE DEF arm
  <1>4. Considered(Goal, b, arm, running, people, quiet)[g] = arm[g]
    BY <1>1, <1>3, ConsideredSame DEF Bound
  <1> QED  BY <1>2, <1>3, <1>4

LEMMA BoundStays ==
  ASSUME TypeInv, Next, ~\E fate \in {"resumed", "parked", "gone"} : Restart(fate),
         NEW g \in Goal, Bound(g),
         turn.stage = "running" => \A w \in WakesIn(turn) : w.goal # g
  PROVE  Bound(g)'
  <1> USE DEF conv, loop, gate, count
  <1>1. armed \in [Goal -> Pending] /\ people \in Nat /\ ~NoTimer.set
    BY DEF TypeInv, ConvType, LoopType, NoTimer
  <1>2. CASE UNCHANGED <<armed, running>>
    BY <1>2 DEF Bound
  <1>3. ASSUME NEW h \in Goal, Pause(h) \/ Resume(h) \/ Clear(h)  PROVE Bound(g)'
    BY <1>3, WriteKeepsBound DEF Pause, Resume, Clear, Order, Bound
  <1>4. ASSUME NEW h \in Goal, FireInVain(h)  PROVE Bound(g)'
    BY <1>1, <1>4 DEF FireInVain, Arm, Bound
  <1>5. ASSUME NEW h \in Goal, Start(h)  PROVE Bound(g)'
    <2> DEFINE arm == [armed EXCEPT ![h] = NoTimer]
               b == [board EXCEPT ![h].cont = board[h].cont + 1]
    <2>1. arm \in [Goal -> Pending] /\ ~arm[g].set
      BY <1>1 DEF NoTimer, Pending, Bound
    <2>2. Write(h, b, arm, running) /\ running' = running
      BY <1>5 DEF Start
    <2>3. armed' = Changed(h, b, arm, running, Quiet(turn, queue, held))
      BY <2>2 DEF Write, Arm
    <2> HIDE DEF arm, b
    <2>4. ~Changed(h, b, arm, running, Quiet(turn, queue, held))[g].set
      BY <2>1, ChangedStaysOff DEF Bound
    <2> QED  BY <2>2, <2>3, <2>4 DEF Bound
  <1>6. ASSUME NEW batch \in Batches, Open(batch)  PROVE Bound(g)'
    BY <1>1, <1>6 DEF Open, Arm, Bound
  <1>7. ASSUME NEW w \in queue \cap Wake, Continue(w)  PROVE Bound(g)'
    BY <1>7 DEF Continue, Bound
  <1>8. ASSUME NEW failed \in BOOLEAN, NEW worked \in BOOLEAN, EndTurn(failed, worked)
        PROVE  Bound(g)'
    <2>1. turn.stage = "running" /\ \A w \in WakesIn(turn) : w.goal # g
      BY <1>8 DEF EndTurn
    <2>2. g \in running'
      BY <1>8, <2>1 DEF EndTurn, Bound
    <2>3. CASE UNCHANGED armed
      BY <2>2, <2>3 DEF Bound
    <2>4. ASSUME NEW w \in WakesIn(turn), NEW b, NEW run, Write(w.goal, b, armed, run)
          PROVE  Bound(g)'
      <3>1. w.goal \in Goal
        BY DEF WakesIn, Wake
      <3>2. armed' = Changed(w.goal, b, armed, run, Quiet(turn, queue, held))
        BY <2>4 DEF Write, Arm
      <3>3. Changed(w.goal, b, armed, run, Quiet(turn, queue, held))[g] = armed[g]
        BY <1>1, <2>1, <3>1, ChangedElsewhere
      <3> QED  BY <2>2, <3>2, <3>3 DEF Bound
    <2>5. ASSUME NEW w \in WakesIn(turn), armed' = [armed EXCEPT ![w.goal] = Timer(people, FALSE)]
          PROVE  Bound(g)'
      BY <1>1, <2>1, <2>2, <2>5 DEF Bound
    <2> QED
      BY <1>8, <2>3, <2>4, <2>5 DEF EndTurn, FinishOnly, Failed, Succeeded, Arm
  <1>9. CASE TurnFinished
    <2>1. Considered(Goal, board, armed, running, people, QuietAfter)[g] = armed[g]
      BY <1>1, ConsideredSame DEF Bound
    <2> QED  BY <1>9, <2>1 DEF TurnFinished, Arm, Bound
  <1>10. ASSUME NEW c \in closing, NEW repeats \in BOOLEAN, Account(c, repeats)  PROVE Bound(g)'
    <2>1. c.goal \in Goal
      BY DEF TypeInv, LoopType
    <2> QED  BY <1>10, <2>1, WriteKeepsBound DEF Account, Bound
  <1>11. ASSUME NEW c \in claiming, Refuse(c) \/ Accept(c)  PROVE Bound(g)'
    <2>1. c.goal \in Goal
      BY DEF TypeInv, GateType
    <2> QED  BY <1>11, <2>1, WriteKeepsBound DEF Refuse, Accept, Bound
  <1>12. ASSUME NEW c \in checks, OpenCheck(c)  PROVE Bound(g)'
    <2>1. c.goal \in Goal
      BY DEF TypeInv, GateType, Check
    <2> QED  BY <1>12, <2>1, AfterCheckKeepsBound DEF OpenCheck, Bound
  <1>13. ASSUME NEW k \in checking, NEW done \in BOOLEAN, CheckSetupFails(k) \/ CheckEnds(k, done)
         PROVE  Bound(g)'
    <2>1. k.goal \in Goal
      BY DEF TypeInv, GateType, CheckTurn
    <2>2. running' = running /\ \E b : AfterCheck(k.goal, b)
      BY <1>13 DEF CheckSetupFails, CheckEnds, NoVerdict, TryAgain
    <2> QED  BY <2>1, <2>2, AfterCheckKeepsBound DEF Bound
  <1>14. ASSUME NEW j \in judging, NEW disturbed \in BOOLEAN, Judge(j, disturbed)  PROVE Bound(g)'
    <2>1. j.goal \in Goal
      BY DEF TypeInv, GateType
    <2> QED  BY <1>14, <2>1, WriteKeepsBound DEF Judge, Bound
  <1> QED
    BY <1>2, <1>3, <1>4, <1>5, <1>6, <1>7, <1>8, <1>9, <1>10, <1>11, <1>12, <1>13, <1>14
    DEF Next, SetGoal, Arrive, Release, Begin, SetupFails, Ask, Steer, Claim, CheckBegins,
        CheckSpeaks

\* What makes it one: queued ones are of different goals, and of other goals than the
\* one in a turn; a goal whose continuation is being set up, or was left in the
\* inbox file, is bound; and what was left is alone, too.
QueueAlone ==
  \A v \in queue \cap Wake, w \in (queue \cup turn.batch) \cap Wake :
    v.goal = w.goal => v = w /\ w \notin turn.batch

SetupBound == turn.stage = "setup" => \A w \in WakesIn(turn) : Bound(w.goal)

KeptAlone ==
  \A u \in kept \cap Wake :
    /\ Bound(u.goal)
    /\ \A v \in queue \cap Wake : v.goal # u.goal
    /\ \A v \in WakesIn(turn) : v.goal = u.goal => turn.stage = "over"
    /\ \A v \in kept \cap Wake : v.goal = u.goal => v = u

AloneInv == QueueAlone /\ SetupBound /\ KeptAlone

LEMMA CheckIsNoWake ==
  ASSUME NEW c \in Check
  PROVE  c \notin Wake
  <1>1. DOMAIN c = {"goal", "claim", "att"}
    BY DEF Check
  <1>2. \A w \in Wake : DOMAIN w = {"goal", "nth", "person", "last", "born"}
    BY DEF Wake
  <1> QED  BY <1>1, <1>2

\* Steps that bring no continuation anywhere.
LEMMA AloneKept ==
  ASSUME TypeInv, AloneInv, Next, ~\E fate \in {"resumed", "parked", "gone"} : Restart(fate),
         queue' \cap Wake \subseteq queue, kept' \cap Wake \subseteq kept,
         \/ turn' = turn
         \/ WakesIn(turn') = {}
         \/ /\ turn'.batch = turn.batch /\ turn.stage \in {"setup", "running"}
            /\ turn'.stage \in {"running", "over"}
  PROVE  AloneInv'
  <1>1. WakesIn(turn') \subseteq WakesIn(turn)
    BY DEF WakesIn
  <1>2. \A v \in WakesIn(turn') : v.goal \in Goal
    BY DEF WakesIn, Wake
  <1>3. QueueAlone'
    BY <1>1 DEF AloneInv, QueueAlone, WakesIn
  <1>4. SetupBound'
    <2> SUFFICES ASSUME turn'.stage = "setup", NEW w \in WakesIn(turn')
                 PROVE  Bound(w.goal)'
      BY DEF SetupBound, WakesIn
    <2>1. turn.stage = "setup" /\ w \in WakesIn(turn)
      BY <1>1
    <2>2. Bound(w.goal) /\ w.goal \in Goal /\ turn.stage # "running"
      BY <1>2, <2>1 DEF AloneInv, SetupBound
    <2> QED  BY <2>2, BoundStays
  <1>5. KeptAlone'
    <2> SUFFICES ASSUME NEW u \in kept' \cap Wake
                 PROVE  /\ Bound(u.goal)'
                        /\ \A v \in queue' \cap Wake : v.goal # u.goal
                        /\ \A v \in WakesIn(turn') : v.goal = u.goal => turn'.stage = "over"
                        /\ \A v \in kept' \cap Wake : v.goal = u.goal => v = u
      BY DEF KeptAlone, WakesIn
    <2>1. u \in kept \cap Wake /\ u.goal \in Goal
      BY DEF Wake
    <2>2. /\ Bound(u.goal)
          /\ \A v \in queue \cap Wake : v.goal # u.goal
          /\ \A v \in WakesIn(turn) : v.goal = u.goal => turn.stage = "over"
          /\ \A v \in kept \cap Wake : v.goal = u.goal => v = u
      BY <2>1 DEF AloneInv, KeptAlone
    <2>3. Bound(u.goal)'
      BY <2>1, <2>2, BoundStays
    <2> QED  BY <1>1, <2>2, <2>3
  <1> QED  BY <1>3, <1>4, <1>5 DEF AloneInv

\* A continuation is sent: nothing is queued and no turn runs, and the goal is bound
\* to none that was left.
LEMMA AloneStart ==
  ASSUME TypeInv, AloneInv, Next, NEW g \in Goal, Start(g)
  PROVE  AloneInv'
  <1> DEFINE wake == [goal |-> g, nth |-> board[g].cont + 1, person |-> armed[g].person,
                      last |-> armed[g].last, born |-> crashes]
  <1>1. armed[g].set /\ queue = {} /\ turn = NoTurn /\ queue' = {wake} /\ kept' = kept /\ turn' = turn
        /\ running' = running
    BY DEF Start, MayStart, Quiet
  <1>2. WakesIn(turn') = {} /\ turn.stage = "none" /\ wake.goal = g
    BY <1>1 DEF WakesIn, NoTurn
  <1> HIDE DEF wake
  <1>3. QueueAlone' /\ SetupBound'
    BY <1>1, <1>2 DEF QueueAlone, SetupBound, WakesIn
  <1>4. KeptAlone'
    <2> SUFFICES ASSUME NEW u \in kept \cap Wake
                 PROVE  /\ Bound(u.goal)'
                        /\ \A v \in queue' \cap Wake : v.goal # u.goal
                        /\ \A v \in kept \cap Wake : v.goal = u.goal => v = u
      BY <1>1, <1>2 DEF KeptAlone, WakesIn
    <2>1. /\ u.goal \in Goal /\ Bound(u.goal)
          /\ \A v \in kept \cap Wake : v.goal = u.goal => v = u
      BY DEF AloneInv, KeptAlone, Wake
    <2>2. ~\E fate \in {"resumed", "parked", "gone"} : Restart(fate)
      <3>1. ASSUME NEW fate, Restart(fate)  PROVE FALSE
        <4>1. crashes' = crashes + 1 /\ crashes' = crashes /\ crashes \in Nat
          BY <3>1 DEF Restart, Start, count, TypeInv, CountType
        <4> QED  BY <4>1
      <3> QED  BY <3>1
    <2>3. Bound(u.goal)'
      BY <1>2, <2>1, <2>2, BoundStays
    <2> QED  BY <1>1, <1>2, <2>1, <2>3 DEF Bound
  <1> QED  BY <1>3, <1>4 DEF AloneInv

\* It is taken to run.
LEMMA AloneContinue ==
  ASSUME TypeInv, AloneInv, NEW w \in queue \cap Wake, Continue(w)
  PROVE  AloneInv'
  <1>1. /\ queue' = queue \ {w} /\ turn'.batch = {w} /\ kept' = kept /\ armed' = armed
        /\ turn'.stage \in {"setup", "over"} /\ running \subseteq running'
        /\ turn'.stage = "setup" => ~armed[w.goal].set /\ w.goal \in running'
    BY DEF Continue, StillWanted
  <1>2. WakesIn(turn') = {w}
    BY <1>1 DEF WakesIn
  <1>3. QueueAlone'
    BY <1>1, <1>2 DEF AloneInv, QueueAlone
  <1>4. SetupBound'
    BY <1>1, <1>2 DEF SetupBound, Bound, WakesIn
  <1>5. KeptAlone'
    BY <1>1, <1>2 DEF AloneInv, KeptAlone, Bound, WakesIn
  <1> QED  BY <1>3, <1>4, <1>5 DEF AloneInv

\* Its setup fails.
LEMMA AloneSetupFails ==
  ASSUME TypeInv, AloneInv, SetupFails
  PROVE  AloneInv'
  <1>1. /\ turn.stage = "setup" /\ turn'.batch = turn.batch /\ turn'.stage = "over"
        /\ queue' = queue /\ kept' = kept \cup turn.batch
        /\ armed' = armed /\ running' = running
    BY DEF SetupFails, loop, TypeInv, ConvType
  <1>2. QueueAlone' /\ SetupBound'
    BY <1>1 DEF AloneInv, QueueAlone, SetupBound
  <1>3. \A u \in WakesIn(turn) : /\ Bound(u.goal)
                                 /\ \A v \in queue \cap Wake : v.goal # u.goal
                                 /\ \A v \in kept \cap Wake : v.goal # u.goal
    <2> SUFFICES ASSUME NEW u \in WakesIn(turn)
                 PROVE  /\ Bound(u.goal)
                        /\ \A v \in queue \cap Wake : v.goal # u.goal
                        /\ \A v \in kept \cap Wake : v.goal # u.goal
      OBVIOUS
    <2>1. Bound(u.goal)
      BY <1>1 DEF AloneInv, SetupBound
    <2>2. \A v \in queue \cap Wake : v.goal # u.goal
      BY DEF AloneInv, QueueAlone, WakesIn
    <2>3. \A v \in kept \cap Wake : v.goal # u.goal
      BY <1>1 DEF AloneInv, KeptAlone
    <2> QED  BY <2>1, <2>2, <2>3
  <1>4. \A v, u \in WakesIn(turn) : v = u
    BY DEF TypeInv, ConvType
  <1>5. KeptAlone'
    <2> SUFFICES ASSUME NEW u \in (kept \cup turn.batch) \cap Wake
                 PROVE  /\ Bound(u.goal)
                        /\ \A v \in queue \cap Wake : v.goal # u.goal
                        /\ \A v \in (kept \cup turn.batch) \cap Wake : v.goal = u.goal => v = u
      BY <1>1 DEF KeptAlone, Bound
    <2>1. CASE u \in kept
      BY <1>3, <2>1 DEF AloneInv, KeptAlone, WakesIn
    <2>2. CASE u \in turn.batch
      BY <1>3, <1>4, <2>2 DEF WakesIn
    <2> QED  BY <2>1, <2>2
  <1> QED  BY <1>2, <1>5 DEF AloneInv

\* The inbox file and the turn being set up come back into the queue.
LEMMA AloneRestart ==
  ASSUME TypeInv, AloneInv, NEW fate, Restart(fate)
  PROVE  AloneInv'
  <1> DEFINE again == IF turn.stage = "setup" THEN turn.batch ELSE {}
  <1>1. /\ queue' \cap Wake \subseteq queue \cup kept \cup again
        /\ kept' = {} /\ turn' = NoTurn /\ NoTurn.batch = {} /\ NoTurn.stage = "none"
    <2>1. Resumption \notin Wake
      BY MessagesDiffer DEF Other
    <2> QED  BY <2>1 DEF Restart, NoTurn
  <1>2. \A v, w \in (queue \cup kept \cup again) \cap Wake : v.goal = w.goal => v = w
    <2> SUFFICES ASSUME NEW v \in (queue \cup kept \cup again) \cap Wake,
                        NEW w \in (queue \cup kept \cup again) \cap Wake,
                        v.goal = w.goal
                 PROVE  v = w
      OBVIOUS
    <2>1. CASE v \in queue \/ w \in queue
      BY <2>1 DEF AloneInv, QueueAlone, KeptAlone
    <2>2. CASE v \in kept \/ w \in kept
      BY <2>1, <2>2 DEF AloneInv, KeptAlone, WakesIn
    <2>3. CASE v \in again /\ w \in again
      BY <2>3 DEF TypeInv, ConvType, WakesIn
    <2> QED  BY <2>1, <2>2, <2>3
  <1> QED
    BY <1>1, <1>2 DEF AloneInv, QueueAlone, SetupBound, KeptAlone

LEMMA AloneStep == TypeInv /\ AloneInv /\ [Next]_vars => AloneInv'
  <1> SUFFICES ASSUME TypeInv, AloneInv, [Next]_vars PROVE AloneInv'
    OBVIOUS
  <1> USE DEF conv, loop, gate, count
  <1>1. CASE UNCHANGED vars
    BY <1>1 DEF vars, AloneInv, QueueAlone, SetupBound, KeptAlone, Bound, WakesIn
  <1>2. ASSUME NEW g \in Goal, Next, Start(g)  PROVE AloneInv'
    BY <1>2, AloneStart
  <1>3. ASSUME NEW w \in queue \cap Wake, Continue(w)  PROVE AloneInv'
    BY <1>3, AloneContinue
  <1>4. CASE SetupFails
    BY <1>4, AloneSetupFails
  <1>5. ASSUME NEW fate, Restart(fate)  PROVE AloneInv'
    BY <1>5, AloneRestart
  <1>6. CASE /\ Next /\ ~SetupFails /\ ~\E fate \in {"resumed", "parked", "gone"} : Restart(fate)
             /\ ~\E g \in Goal : Start(g)
             /\ ~\E w \in queue \cap Wake : Continue(w)
    <2> DEFINE Moves == /\ queue' \cap Wake \subseteq queue /\ kept' \cap Wake \subseteq kept
                        /\ \/ turn' = turn
                           \/ WakesIn(turn') = {}
                           \/ /\ turn'.batch = turn.batch /\ turn.stage \in {"setup", "running"}
                              /\ turn'.stage \in {"running", "over"}
    <2>1. \A m \in Said \cup Note \cup {Resumption} : m \notin Wake
      BY MessagesDiffer DEF Other
    <2>2. ASSUME \/ \E g \in Goal, p \in Said : SetGoal(g, p)
                 \/ \E m \in Said \cup Note : Arrive(m)
                 \/ Release
          PROVE  Moves
      BY <2>1, <2>2 DEF SetGoal, Arrive, Release
    <2>3. UNCHANGED conv => Moves
      OBVIOUS
    <2>4. ASSUME NEW batch \in Batches, Open(batch)  PROVE Moves
      <3>1. batch \cap Wake = {}
        BY MessagesDiffer DEF Batches, Other
      <3> QED  BY <2>4, <3>1 DEF Open, WakesIn
    <2>5. ASSUME Begin \/ \E failed, worked \in BOOLEAN : EndTurn(failed, worked)  PROVE Moves
      BY <2>5 DEF Begin, EndTurn, TypeInv, ConvType
    <2>6. ASSUME Ask \/ (\E p \in queue \cap Said : Steer(p)) \/ TurnFinished  PROVE Moves
      BY <2>6 DEF Ask, Steer, TurnFinished, NoTurn, WakesIn
    <2>7. ASSUME NEW k \in checking, CheckSetupFails(k)  PROVE Moves
      <3>1. WakeOf(k) \notin Wake
        BY WakeOfIs, CheckIsNoWake DEF TypeInv, GateType
      <3> QED  BY <2>7, <3>1 DEF CheckSetupFails
    <2>8. Moves
      BY <1>6, <2>2, <2>3, <2>4, <2>5, <2>6, <2>7
      DEF Next, Pause, Resume, Clear, Order, FireInVain, Account, Claim, Refuse, Accept,
          OpenCheck, CheckBegins, CheckSpeaks, CheckEnds, Judge
    <2> QED  BY <1>6, <2>8, AloneKept
  <1>7. \/ \E fate \in {"resumed", "parked", "gone"} : Restart(fate)
        \/ \E w \in queue \cap Wake : Continue(w)
        \/ SetupFails \/ (Next /\ \E g \in Goal : Start(g)) \/ UNCHANGED vars
        \/ /\ Next /\ ~SetupFails /\ ~\E fate \in {"resumed", "parked", "gone"} : Restart(fate)
           /\ ~\E g \in Goal : Start(g)
           /\ ~\E w \in queue \cap Wake : Continue(w)
    OBVIOUS
  <1> QED  BY <1>1, <1>2, <1>3, <1>4, <1>5, <1>6, <1>7

\* However timers, retries, resumes and replays fall, a goal has at most one
\* continuation queued or in a turn.
THEOREM GoalOneContinuation == Spec => []OneContinuation
  <1>1. Init => AloneInv
    BY DEF Init, AloneInv, QueueAlone, SetupBound, KeptAlone, NoTurn
  <1>2. TypeInv /\ AloneInv => OneContinuation
    <2> SUFFICES ASSUME TypeInv, AloneInv, NEW g \in Goal
                 PROVE  Cardinality({w \in queue \cup turn.batch : w \in Wake /\ w.goal = g}) <= 1
      BY DEF OneContinuation
    <2> DEFINE S == {w \in queue \cup turn.batch : w \in Wake /\ w.goal = g}
    <2>1. \A v, w \in S : v = w
      BY DEF AloneInv, QueueAlone, TypeInv, ConvType, WakesIn
    <2> HIDE DEF S
    <2>2. CASE S = {}
      BY <2>2, FS_EmptySet DEF S
    <2>3. CASE S # {}
      <3>1. PICK w : S = {w}
        BY <2>1, <2>3
      <3> QED  BY <3>1, FS_Singleton DEF S
    <2> QED  BY <2>2, <2>3
  <1> QED  BY <1>1, <1>2, TypeInit, TypeStep, AloneStep, PTL DEF Spec

----------------------------------------------------------------------------
(* No active goal is forgotten.                                            *)

\* A goal counts as running only while its continuation's turn lasts, or until the
\* next start once that turn could not be set up.
RunningIs ==
  \A g \in running :
    \/ turn.stage \in {"setup", "running"} /\ \E w \in WakesIn(turn) : w.goal = g
    \/ \E w \in kept \cap Wake : w.goal = g

LEMMA RunningStep == TypeInv /\ RunningIs /\ [Next]_vars => RunningIs'
  <1> SUFFICES ASSUME TypeInv, RunningIs, [Next]_vars PROVE RunningIs'
    OBVIOUS
  <1> USE DEF conv, loop, gate, count
  <1>1. CASE running' = running /\ kept \subseteq kept'
             /\ (turn' = turn \/ turn.stage \notin {"setup", "running"})
    BY <1>1 DEF RunningIs, WakesIn
  <1>2. ASSUME NEW w \in queue \cap Wake, Continue(w)  PROVE RunningIs'
    <2>1. turn.stage = "none" /\ kept' = kept
      BY <1>2 DEF Continue, NoTurn
    <2>2. \A g \in running : \E v \in kept' \cap Wake : v.goal = g
      BY <2>1 DEF RunningIs
    <2>3. CASE StillWanted(w)
      <3>1. turn'.stage = "setup" /\ w \in WakesIn(turn') /\ running' = running \cup {w.goal}
        BY <1>2, <2>3 DEF Continue, WakesIn
      <3> QED  BY <2>2, <3>1 DEF RunningIs, WakesIn
    <2>4. CASE ~StillWanted(w)
      <3>1. running' = running
        BY <1>2, <2>4 DEF Continue
      <3> QED  BY <2>2, <3>1 DEF RunningIs
    <2> QED  BY <2>3, <2>4
  <1>3. CASE Begin
    <2>1. turn'.batch = turn.batch /\ turn'.stage = "running"
          /\ running' = running /\ kept' = kept
      BY <1>3 DEF Begin, TypeInv, ConvType
    <2> QED  BY <2>1 DEF RunningIs, WakesIn
  <1>4. CASE SetupFails
    <2>1. running' = running /\ kept' = kept \cup turn.batch
      BY <1>4 DEF SetupFails
    <2> QED  BY <2>1 DEF RunningIs, WakesIn
  <1>5. ASSUME NEW failed \in BOOLEAN, NEW worked \in BOOLEAN, EndTurn(failed, worked)
        PROVE  RunningIs'
    <2>1. running' = running \ {w.goal : w \in WakesIn(turn)} /\ kept' = kept
      BY <1>5 DEF EndTurn
    <2> QED  BY <2>1 DEF RunningIs
  <1>6. ASSUME NEW fate, Restart(fate)  PROVE RunningIs'
    BY <1>6 DEF Restart, RunningIs
  <1> DEFINE Same == /\ running' = running /\ kept \subseteq kept'
                     /\ turn' = turn \/ turn.stage \notin {"setup", "running"}
  <1>7. UNCHANGED <<running, kept, turn>> => Same
    OBVIOUS
  <1>8. /\ \A batch \in Batches : Open(batch) => Same
        /\ TurnFinished => Same
        /\ \A k \in checking : CheckSetupFails(k) => Same
    <2>1. \A batch \in Batches : Open(batch) => Same
      BY DEF Open, NoTurn
    <2>2. TurnFinished => Same
      BY DEF TurnFinished
    <2>3. \A k \in checking : CheckSetupFails(k) => Same
      BY DEF CheckSetupFails
    <2> QED  BY <2>1, <2>2, <2>3
  <1>9. ASSUME Next PROVE \/ Same
                          \/ \E w \in queue \cap Wake : Continue(w)
                          \/ Begin \/ SetupFails
                          \/ \E failed, worked \in BOOLEAN : EndTurn(failed, worked)
                          \/ \E fate \in {"resumed", "parked", "gone"} : Restart(fate)
    BY ZenonT(60), <1>7, <1>8, <1>9
    DEF Next, SetGoal, Pause, Resume, Clear, Order, Arrive, Release, FireInVain, Start, Steer, Ask,
        Account, Claim, Refuse, Accept, OpenCheck, CheckBegins, CheckSpeaks, CheckEnds, Judge
  <1>10. CASE UNCHANGED vars
    BY <1>1, <1>7, <1>10 DEF vars
  <1> QED  BY <1>1, <1>2, <1>3, <1>4, <1>5, <1>6, <1>9, <1>10

\* What will look at the goal again, other than its timer.
Awaited(g) ==
  \/ queue # {} \/ turn # NoTurn \/ held
  \/ \E c \in closing : c.goal = g
  \/ \E w \in kept \cap Wake : w.goal = g

\* A change of the board: the goal it is about is armed, or awaited.
LEMMA WriteAttends ==
  ASSUME TypeInv, RunningIs, Attended, NEW g \in Goal, NEW b,
         \A h \in Goal : h # g => b[h] = board[h],
         Write(g, b, armed, running),
         queue' = queue, turn' = turn, held' = held, kept' = kept,
         \A c \in closing : c.goal # g => c \in closing'
  PROVE  Attended'
  <1> DEFINE arm == Changed(g, b, armed, running, Quiet(turn, queue, held))
  <1>1. armed \in [Goal -> Pending] /\ people \in Nat /\ board' = b
        /\ armed' = arm /\ left' = {h \in left : ~arm[h].set}
    BY DEF TypeInv, ConvType, LoopType, Write, Arm
  <1>2. \A h \in Goal : h # g => armed'[h] = armed[h]
    BY <1>1, ChangedElsewhere
  <1>3. ASSUME b[g].st = "active"
        PROVE  armed'[g].set \/ queue' # {} \/ turn' # NoTurn \/ held'
               \/ \E w \in kept' \cap Wake : w.goal = g
    <2>1. CASE armed[g].set \/ (g \notin running /\ Quiet(turn, queue, held))
      BY <1>1, <1>3, <2>1, ChangedArms
    <2>2. CASE ~Quiet(turn, queue, held)
      BY <2>2 DEF Quiet
    <2>3. CASE g \in running
      BY <2>3 DEF RunningIs, NoTurn
    <2> QED  BY <2>1, <2>2, <2>3
  <1> HIDE DEF arm
  <1>4. ASSUME NEW h \in Goal, h # g, b[h].st = "active", h \notin left'
        PROVE  armed'[h].set \/ queue' # {} \/ turn' # NoTurn \/ held'
               \/ (\E c \in closing' : c.goal = h) \/ \E w \in kept' \cap Wake : w.goal = h
    <2>1. board[h].st = "active" /\ (h \notin left \/ armed'[h].set)
      BY <1>1, <1>4
    <2> QED  BY <1>2, <1>4, <2>1 DEF Attended
  <1> QED  BY <1>1, <1>3, <1>4 DEF Attended

\* A look at all goals: each is armed, or awaited.
LEMMA ConsideredAttends ==
  ASSUME NEW b, NEW arm \in [Goal -> Pending], NEW run, NEW spoken \in Nat,
         board' = b, armed' = Considered(Goal, b, arm, run, spoken, Quiet(turn', queue', held')),
         \A g \in run : turn' # NoTurn \/ \E w \in kept' \cap Wake : w.goal = g
  PROVE  Attended'
  <1> SUFFICES ASSUME NEW g \in Goal, b[g].st = "active"
               PROVE  armed'[g].set \/ queue' # {} \/ turn' # NoTurn \/ held'
                      \/ \E w \in kept' \cap Wake : w.goal = g
    BY DEF Attended
  <1>1. CASE arm[g].set
    BY <1>1, ConsideredSame
  <1>2. CASE g \notin run /\ Quiet(turn', queue', held')
    BY <1>2, ConsideredArms
  <1>3. CASE ~Quiet(turn', queue', held')
    BY <1>3 DEF Quiet
  <1>4. CASE g \in run
    BY <1>4
  <1> QED  BY <1>1, <1>2, <1>3, <1>4

LEMMA AfterCheckAttends ==
  ASSUME TypeInv, RunningIs, NEW g \in Goal, NEW b, AfterCheck(g, b),
         queue' = queue, turn' = turn, held' = held, kept \subseteq kept'
  PROVE  Attended'
  <1> DEFINE arm == Changed(g, b, armed, running, Quiet(turn, queue, held))
  <1>1. armed \in [Goal -> Pending] /\ people \in Nat /\ board' = b
        /\ armed' = Considered(Goal, b, arm, running, people, Quiet(turn', queue', held'))
    BY DEF TypeInv, ConvType, LoopType, AfterCheck, Arm
  <1>2. arm \in [Goal -> Pending]
    BY <1>1, ChangedType
  <1>3. \A h \in running : turn' # NoTurn \/ \E w \in kept' \cap Wake : w.goal = h
    BY DEF RunningIs, NoTurn
  <1> HIDE DEF arm
  <1> QED  BY <1>1, <1>2, <1>3, ConsideredAttends

LEMMA AttendedStep == TypeInv /\ RunningIs /\ Attended /\ [Next]_vars => Attended'
  <1> SUFFICES ASSUME TypeInv, RunningIs, Attended, [Next]_vars PROVE Attended'
    OBVIOUS
  <1> USE DEF conv, loop, gate, count
  <1>1. /\ board \in [Goal -> Pursuit] /\ armed \in [Goal -> Pending]
        /\ turn = [batch |-> turn.batch, stage |-> turn.stage] /\ people \in Nat
    BY DEF TypeInv, ConvType, LoopType
  <1>2. ASSUME UNCHANGED <<board, queue, kept, turn, held, armed, closing, left>>
        PROVE  Attended'
    BY <1>2 DEF Attended
  <1>3. CASE queue' # {} \/ turn' # NoTurn
    BY <1>3 DEF Attended
  <1>4. ASSUME NEW g \in Goal, Pause(g) \/ Resume(g) \/ Clear(g)  PROVE Attended'
    <2>1. PICK to : Write(g, [board EXCEPT ![g].st = to], armed, running)
                    /\ UNCHANGED <<queue, kept, turn, held, closing>>
      BY <1>4 DEF Pause, Resume, Clear, Order
    <2>2. \A h \in Goal : h # g => [board EXCEPT ![g].st = to][h] = board[h]
      BY <1>1
    <2> QED  BY <2>1, <2>2, WriteAttends
  <1>5. ASSUME NEW g \in Goal, FireInVain(g)  PROVE Attended'
    <2> DEFINE arm == [armed EXCEPT ![g] = NoTimer]
               let_go == IF board[g].st = "active" /\ Quiet(turn, queue, held) THEN {g} ELSE {}
    <2>1. /\ armed' = arm /\ left' = {h \in left \cup let_go : ~arm[h].set}
          /\ UNCHANGED <<board, queue, kept, turn, held, closing>>
      BY <1>5 DEF FireInVain, Arm
    <2>2. ASSUME NEW h \in Goal, h # g, board[h].st = "active", h \notin left'
          PROVE  armed'[h].set \/ Awaited(h)
      <3>1. armed'[h] = armed[h] /\ (h \notin left \/ armed[h].set)
        BY <1>1, <2>1, <2>2
      <3> QED  BY <2>2, <3>1 DEF Attended, Awaited
    <2>3. ASSUME board[g].st = "active", g \notin left'
          PROVE  Awaited(g)
      <3>1. ~arm[g].set
        BY <1>1 DEF NoTimer
      <3>2. ~Quiet(turn, queue, held)
        BY <2>1, <2>3, <3>1
      <3> QED  BY <3>2 DEF Quiet, Awaited
    <2> QED  BY <2>1, <2>2, <2>3 DEF Attended, Awaited
  <1>6. ASSUME NEW g \in Goal, Start(g)  PROVE queue' # {}
    BY <1>6 DEF Start
  <1>7. ASSUME \/ \E g \in Goal, p \in Said : SetGoal(g, p)
               \/ \E m \in Said \cup Note : Arrive(m)
               \/ Release
        PROVE  queue' # {}
    BY <1>7 DEF SetGoal, Arrive, Release
  <1>8. ASSUME NEW batch \in Batches, Open(batch)  PROVE turn' # NoTurn
    BY <1>8 DEF Open, NoTurn
  <1>9. ASSUME NEW w \in queue \cap Wake, Continue(w)  PROVE turn' # NoTurn
    BY <1>9 DEF Continue, NoTurn
  <1>10. ASSUME \/ Begin \/ SetupFails \/ Ask
                \/ \E p \in queue \cap Said : Steer(p)
                \/ \E failed, worked \in BOOLEAN : EndTurn(failed, worked)
                \/ \E g \in Goal : Claim(g)
         PROVE  turn' # NoTurn
    <2>1. turn.stage \in {"setup", "running"}
          /\ (turn' = turn \/ turn' = [turn EXCEPT !.stage = "running"]
                           \/ turn' = [turn EXCEPT !.stage = "over"])
      BY <1>10 DEF Begin, SetupFails, Ask, Steer, EndTurn, Claim
    <2> QED  BY <1>1, <2>1 DEF NoTurn
  <1>11. CASE TurnFinished
    <2>1. /\ board' = board
          /\ armed' = Considered(Goal, board, armed, running, people, Quiet(turn', queue', held'))
      BY <1>11 DEF TurnFinished, Arm, QuietAfter
    <2>2. \A g \in running : \E w \in kept' \cap Wake : w.goal = g
      BY <1>11 DEF TurnFinished, RunningIs
    <2> QED  BY <1>1, <2>1, <2>2, ConsideredAttends
  <1>12. ASSUME NEW c \in closing, NEW repeats \in BOOLEAN, Account(c, repeats)  PROVE Attended'
    <2> DEFINE b == [board EXCEPT ![c.goal].idle = c.idle, ![c.goal].errors = 0,
                                  ![c.goal].st = IF c.idle >= AntiSpin \/ repeats
                                                   THEN "paused" ELSE @]
    <2>1. c.goal \in Goal
      BY DEF TypeInv, LoopType
    <2>2. Write(c.goal, b, armed, running) /\ closing' = closing \ {c}
          /\ UNCHANGED <<queue, kept, turn, held>>
      BY <1>12 DEF Account
    <2>3. \A h \in Goal : h # c.goal => b[h] = board[h]
      BY <1>1
    <2> HIDE DEF b
    <2> QED  BY <2>1, <2>2, <2>3, WriteAttends
  <1>13. ASSUME NEW c \in claiming, Refuse(c) \/ Accept(c)  PROVE Attended'
    <2>1. c.goal \in Goal
      BY DEF TypeInv, GateType
    <2> DEFINE b == Rejected(c.goal, board, FALSE)
               d == [board EXCEPT ![c.goal].st = "verifying", ![c.goal].claim = c.claim,
                                  ![c.goal].att = 1]
    <2>2. /\ Write(c.goal, b, armed, running) \/ Write(c.goal, d, armed, running)
          /\ UNCHANGED <<queue, kept, turn, held, closing>>
      BY <1>13 DEF Refuse, Accept
    <2>3. \A h \in Goal : h # c.goal => b[h] = board[h]
      BY <1>1, <2>1, RejectedIs
    <2>4. \A h \in Goal : h # c.goal => d[h] = board[h]
      BY <1>1
    <2> HIDE DEF b, d
    <2>5. CASE Write(c.goal, b, armed, running)
      BY <2>1, <2>2, <2>3, <2>5, WriteAttends
    <2>6. CASE Write(c.goal, d, armed, running)
      BY <2>1, <2>2, <2>4, <2>6, WriteAttends
    <2> QED  BY <2>2, <2>5, <2>6
  <1>14. ASSUME NEW j \in judging, NEW disturbed \in BOOLEAN, Judge(j, disturbed)  PROVE Attended'
    <2>1. j.goal \in Goal
      BY DEF TypeInv, GateType
    <2> DEFINE b == Rejected(j.goal, board, FALSE)
               d == [board EXCEPT ![j.goal].st = "complete", ![j.goal].att = 0]
    <2>2. /\ Write(j.goal, b, armed, running) \/ Write(j.goal, d, armed, running)
          /\ UNCHANGED <<queue, kept, turn, held, closing>>
      BY <1>14 DEF Judge
    <2>3. \A h \in Goal : h # j.goal => b[h] = board[h]
      BY <1>1, <2>1, RejectedIs
    <2>4. \A h \in Goal : h # j.goal => d[h] = board[h]
      BY <1>1
    <2> HIDE DEF b, d
    <2>5. CASE Write(j.goal, b, armed, running)
      BY <2>1, <2>2, <2>3, <2>5, WriteAttends
    <2>6. CASE Write(j.goal, d, armed, running)
      BY <2>1, <2>2, <2>4, <2>6, WriteAttends
    <2> QED  BY <2>2, <2>5, <2>6
  <1>15. ASSUME NEW c \in checks, OpenCheck(c)  PROVE Attended'
    <2>1. c.goal \in Goal
      BY DEF TypeInv, GateType, Check
    <2> QED  BY <1>2, <1>15, <2>1, AfterCheckAttends DEF OpenCheck
  <1>16. ASSUME NEW k \in checking, NEW done \in BOOLEAN, CheckSetupFails(k) \/ CheckEnds(k, done)
         PROVE  Attended'
    <2>1. k.goal \in Goal
      BY DEF TypeInv, GateType, CheckTurn
    <2>2. UNCHANGED <<queue, turn, held>> /\ kept \subseteq kept' /\ \E b : AfterCheck(k.goal, b)
      BY <1>16 DEF CheckSetupFails, CheckEnds, NoVerdict, TryAgain
    <2> QED  BY <2>1, <2>2, AfterCheckAttends
  <1>17. ASSUME NEW fate, Restart(fate)  PROVE Attended'
    <2>1. [g \in Goal |-> NoTimer] \in [Goal -> Pending]
      BY DEF NoTimer, Pending
    <2>2. armed' = Considered(Goal, board', [g \in Goal |-> NoTimer], {}, 0, Quiet(turn', queue', held'))
      BY <1>17 DEF Restart
    <2> QED  BY <2>1, <2>2, ConsideredAttends
  <1>18. CASE UNCHANGED vars
    BY <1>2, <1>18 DEF vars
  <1>19. ASSUME NEW k \in checking, NEW verdict, CheckBegins(k) \/ CheckSpeaks(k, verdict)
         PROVE  Attended'
    BY <1>2, <1>19 DEF CheckBegins, CheckSpeaks
  <1> QED
    BY <1>3, <1>4, <1>5, <1>6, <1>7, <1>8, <1>9, <1>10, <1>11, <1>12, <1>13, <1>14, <1>15, <1>16,
       <1>17, <1>18, <1>19 DEF Next

\* An active goal has a timer, or something whose end looks at it again.
THEOREM GoalAttended == Spec => []Attended
  <1>1. Init => RunningIs /\ Attended
    BY DEF Init, RunningIs, Attended
  <1> QED  BY <1>1, TypeInit, TypeStep, RunningStep, AttendedStep, PTL DEF Spec

----------------------------------------------------------------------------
(* Verdicts.                                                               *)

\* What a step may do to where a goal stands: a goal comes under verification with
\* a verifier's wake, and is completed by a verdict that passed it.
GoalMoves(h) ==
  \/ board'[h].st = board[h].st /\ board'[h].att = board[h].att
  \/ board'[h].st \in {"active", "paused", "cleared"}
  \/ board'[h].st = "complete" /\ \E j \in judging : j.goal = h /\ j.verdict = "pass"
  \/ board'[h].st = "verifying" /\ \E c \in checks' : c.goal = h /\ c.att = board'[h].att

LEMMA BoardMoves ==
  ASSUME TypeInv, [Next]_vars, NEW h \in Goal
  PROVE  GoalMoves(h)
  <1>1. board \in [Goal -> Pursuit]
    BY DEF TypeInv
  <1>2. ASSUME UNCHANGED board  PROVE GoalMoves(h)
    BY <1>2 DEF GoalMoves
  <1>3. ASSUME NEW g \in Goal, NEW p \in Said, SetGoal(g, p)  PROVE GoalMoves(h)
    BY <1>1, <1>3 DEF SetGoal, GoalMoves, Pursuit
  <1>4. ASSUME NEW g \in Goal, Pause(g) \/ Resume(g) \/ Clear(g)  PROVE GoalMoves(h)
    <2>1. PICK to \in {"active", "paused", "cleared"} : board' = [board EXCEPT ![g].st = to]
      BY <1>4 DEF Pause, Resume, Clear, Order, Write
    <2> QED  BY <1>1, <2>1 DEF GoalMoves, Pursuit
  <1>5. ASSUME NEW g \in Goal, Start(g)  PROVE GoalMoves(h)
    BY <1>1, <1>5 DEF Start, Write, GoalMoves, Pursuit
  <1>6. ASSUME NEW failed, NEW worked, EndTurn(failed, worked)  PROVE GoalMoves(h)
    <2>1. \A w \in WakesIn(turn) : w.goal \in Goal
      BY DEF WakesIn, Wake
    <2>2. ASSUME NEW w \in WakesIn(turn), FinishOnly(w.goal)  PROVE GoalMoves(h)
      BY <1>1, <2>1, <2>2 DEF FinishOnly, Write, GoalMoves, Pursuit
    <2>3. ASSUME NEW w \in WakesIn(turn), Failed(w.goal)  PROVE GoalMoves(h)
      <3>1. \/ board' = [board EXCEPT ![w.goal].errors = Retries + 1, ![w.goal].st = "paused"]
            \/ board' = [board EXCEPT ![w.goal].errors = board[w.goal].errors + 1]
        BY <2>3 DEF Failed, Write
      <3> QED  BY <1>1, <2>1, <3>1 DEF GoalMoves, Pursuit
    <2> QED  BY <1>2, <1>6, <2>2, <2>3 DEF EndTurn, Succeeded
  <1>7. ASSUME NEW c \in closing, NEW repeats, Account(c, repeats)  PROVE GoalMoves(h)
    <2>1. c.goal \in Goal
      BY DEF TypeInv, LoopType
    <2>2. PICK st : /\ board' = [board EXCEPT ![c.goal].idle = c.idle, ![c.goal].errors = 0,
                                              ![c.goal].st = st]
                    /\ st = "paused" \/ st = board[c.goal].st
      BY <1>7 DEF Account, Write
    <2> QED  BY <1>1, <2>1, <2>2 DEF GoalMoves, Pursuit
  <1>8. ASSUME NEW g \in Goal, NEW forced \in BOOLEAN, board' = Rejected(g, board, forced)
        PROVE  GoalMoves(h)
    BY <1>1, <1>8, RejectedIs DEF GoalMoves
  <1>9. ASSUME NEW c \in claiming, Refuse(c)  PROVE GoalMoves(h)
    BY <1>8, <1>9 DEF Refuse, Write, TypeInv, GateType
  <1>10. ASSUME NEW c \in claiming, Accept(c)  PROVE GoalMoves(h)
    <2>1. c.goal \in Goal
      BY DEF TypeInv, GateType
    <2>2. /\ board' = [board EXCEPT ![c.goal].st = "verifying", ![c.goal].claim = c.claim,
                                    ![c.goal].att = 1]
          /\ [goal |-> c.goal, claim |-> c.claim, att |-> 1] \in checks'
      BY <1>10 DEF Accept, Write
    <2> QED  BY <1>1, <2>1, <2>2 DEF GoalMoves, Pursuit
  <1>11. ASSUME NEW c \in checks, OpenCheck(c)  PROVE GoalMoves(h)
    BY <1>2, <1>11 DEF OpenCheck, AfterCheck
  <1>12. ASSUME NEW k \in checking, CheckSetupFails(k)  PROVE GoalMoves(h)
    BY <1>2, <1>12 DEF CheckSetupFails, AfterCheck
  <1>13. ASSUME NEW k \in checking, NEW done, CheckEnds(k, done)  PROVE GoalMoves(h)
    <2>1. k \in CheckTurn /\ k.goal \in Goal
      BY DEF TypeInv, GateType, CheckTurn
    <2>2. CASE Wanted(k) /\ TryAgain(k)
      <3>1. board' = [board EXCEPT ![k.goal].att = k.att + 1]
            /\ [WakeOf(k) EXCEPT !.att = k.att + 1] \in checks'
        BY <2>2 DEF TryAgain, AfterCheck
      <3>2. [WakeOf(k) EXCEPT !.att = k.att + 1].goal = k.goal
            /\ [WakeOf(k) EXCEPT !.att = k.att + 1].att = k.att + 1
        BY DEF WakeOf
      <3>3. board'[k.goal].st = "verifying" /\ board'[k.goal].att = k.att + 1
        BY <1>1, <2>1, <2>2, <3>1 DEF Wanted, Pursuit
      <3>4. h # k.goal => board'[h] = board[h]
        BY <1>1, <3>1
      <3> QED  BY <3>1, <3>2, <3>3, <3>4 DEF GoalMoves
    <2> QED
      BY <1>2, <1>8, <1>13, <2>1, <2>2 DEF CheckEnds, NoVerdict, AfterCheck
  <1>14. ASSUME NEW j \in judging, NEW disturbed, Judge(j, disturbed)  PROVE GoalMoves(h)
    <2>1. j.goal \in Goal
      BY DEF TypeInv, GateType
    <2>2. CASE j.verdict = "pass" /\ board' = [board EXCEPT ![j.goal].st = "complete", ![j.goal].att = 0]
      BY <1>1, <2>1, <2>2 DEF GoalMoves, Pursuit
    <2> QED  BY <1>8, <1>14, <2>1, <2>2 DEF Judge, Write
  <1>15. ASSUME NEW fate, Restart(fate)  PROVE GoalMoves(h)
    BY <1>15, RestartBoard DEF GoalMoves
  <1> QED
    BY <1>2, <1>3, <1>4, <1>5, <1>6, <1>7, <1>9, <1>10, <1>11, <1>12, <1>13, <1>14, <1>15
    DEF Next, vars, Arrive, Release, FireInVain, Open, Continue, Begin, SetupFails, Ask,
        TurnFinished, Steer, Claim, CheckBegins, CheckSpeaks

\* A pass anywhere on its way was said by a verifier.
PassIsSaid ==
  /\ \A g \in Goal : words[g] = "pass" => g \in passed
  /\ \A k \in checking : k.said = "pass" => k.goal \in passed
  /\ \A j \in judging : j.verdict = "pass" => j.goal \in passed

LEMMA PassIsSaidStep == TypeInv /\ PassIsSaid /\ [Next]_vars => PassIsSaid' /\ passed \subseteq passed'
  <1> SUFFICES ASSUME TypeInv, PassIsSaid, [Next]_vars
               PROVE  PassIsSaid' /\ passed \subseteq passed'
    OBVIOUS
  <1> USE DEF conv, loop, gate, count
  <1>1. ASSUME words' = words, checking' \subseteq checking, judging' \subseteq judging, passed' = passed
        PROVE  PassIsSaid' /\ passed \subseteq passed'
    BY <1>1 DEF PassIsSaid
  <1>2. ASSUME NEW c \in claiming, Accept(c)  PROVE PassIsSaid' /\ passed \subseteq passed'
    BY <1>2 DEF Accept, PassIsSaid, TypeInv, GateType
  <1>3. ASSUME NEW c \in checks, OpenCheck(c)  PROVE PassIsSaid' /\ passed \subseteq passed'
    BY <1>3 DEF OpenCheck, PassIsSaid
  <1>4. ASSUME NEW k \in checking, CheckBegins(k)  PROVE PassIsSaid' /\ passed \subseteq passed'
    <2>1. [k EXCEPT !.stage = "running"].said = k.said /\ [k EXCEPT !.stage = "running"].goal = k.goal
      BY DEF TypeInv, GateType, CheckTurn
    <2> QED  BY <1>4, <2>1 DEF CheckBegins, PassIsSaid
  <1>5. ASSUME NEW k \in checking, NEW verdict \in Verdict, CheckSpeaks(k, verdict)
        PROVE  PassIsSaid' /\ passed \subseteq passed'
    <2>1. [k EXCEPT !.said = verdict].said = verdict /\ [k EXCEPT !.said = verdict].goal = k.goal
      BY DEF TypeInv, GateType, CheckTurn
    <2>2. passed' = (IF verdict = "pass" THEN passed \cup {k.goal} ELSE passed) /\ judging' = judging
          /\ checking' = (checking \ {k}) \cup {[k EXCEPT !.said = verdict]}
      BY <1>5 DEF CheckSpeaks
    <2>3. \A g \in Goal : words'[g] = words[g] \/ (g = k.goal /\ words'[g] = verdict)
      BY <1>5 DEF CheckSpeaks, TypeInv, GateType
    <2> QED  BY <2>1, <2>2, <2>3 DEF PassIsSaid
  <1>6. ASSUME NEW k \in checking, NEW done, CheckEnds(k, done)
        PROVE  PassIsSaid' /\ passed \subseteq passed'
    <2>1. /\ words' = words /\ passed' = passed /\ checking' \subseteq checking
          /\ judging' \subseteq judging \cup {[goal |-> k.goal, verdict |-> k.said]}
      BY <1>6 DEF CheckEnds
    <2> QED  BY <2>1 DEF PassIsSaid
  <1>7. ASSUME NEW fate, Restart(fate)  PROVE PassIsSaid' /\ passed \subseteq passed'
    <2>1. /\ words' = words /\ passed' = passed /\ checking' = {}
          /\ \A j \in judging' : j.goal \in Goal /\ j.verdict = words[j.goal]
      BY <1>7 DEF Restart
    <2> QED  BY <2>1 DEF PassIsSaid
  <1>8. ASSUME NEW j \in judging, NEW disturbed, Judge(j, disturbed)
        PROVE  PassIsSaid' /\ passed \subseteq passed'
    BY <1>1, <1>8 DEF Judge
  <1>9. ASSUME NEW k \in checking, CheckSetupFails(k)  PROVE PassIsSaid' /\ passed \subseteq passed'
    BY <1>1, <1>9 DEF CheckSetupFails
  <1> QED
    BY <1>1, <1>2, <1>3, <1>4, <1>5, <1>6, <1>7, <1>8, <1>9
    DEF Next, vars, SetGoal, Pause, Resume, Clear, Order, Arrive, Release, FireInVain, Start, Open,
        Continue, Begin, SetupFails, Steer, Ask, EndTurn, TurnFinished, Account, Claim, Refuse

\* A goal is complete only if a verifier has passed a claim of it.
THEOREM GoalFailsClosed == Spec => []FailsClosed
  <1>1. Init => PassIsSaid /\ FailsClosed
    BY DEF Init, PassIsSaid, FailsClosed
  <1>2. TypeInv /\ PassIsSaid /\ FailsClosed /\ [Next]_vars => FailsClosed'
    <2> SUFFICES ASSUME TypeInv, PassIsSaid, FailsClosed, [Next]_vars,
                        NEW g \in Goal, board'[g].st = "complete"
                 PROVE  g \in passed'
      BY DEF FailsClosed
    <2>1. board[g].st = "complete" \/ \E j \in judging : j.goal = g /\ j.verdict = "pass"
      BY BoardMoves DEF GoalMoves
    <2>2. g \in passed
      BY <2>1 DEF FailsClosed, PassIsSaid
    <2> QED  BY <2>2, PassIsSaidStep
  <1> QED  BY <1>1, <1>2, TypeInit, TypeStep, PassIsSaidStep, PTL DEF Spec

\* The wakes of verifiers: in the inbox, left in its file, and in their turns.
Wakes == checks \cup (kept \cap Check) \cup {WakeOf(k) : k \in checking}

\* A wanted wake stays on its way until its verdict is judged or its goal moves on.
LEMMA WakesStay ==
  ASSUME TypeInv, [Next]_vars, NEW g \in Goal, board[g].st = "verifying",
         board'[g].st = board[g].st, board'[g].att = board[g].att,
         NEW c \in Wakes, c.goal = g, Wanted(c)
  PROVE  c \in Wakes' \/ \E j \in judging' : j.goal = g
  <1> USE DEF conv, loop, gate, count
  <1>1. board \in [Goal -> Pursuit]
    BY DEF TypeInv
  <1>2. ASSUME checks \subseteq checks', kept \subseteq kept', checking' = checking
        PROVE  c \in Wakes'
    BY <1>2 DEF Wakes, WakeOf
  <1>3. ASSUME NEW d \in claiming, Accept(d)  PROVE c \in Wakes'
    BY <1>2, <1>3 DEF Accept
  <1>4. ASSUME NEW d \in checks, OpenCheck(d)  PROVE c \in Wakes'
    <2>1. d \in Check
      BY DEF TypeInv, GateType
    <2>2. CASE Wanted(d)
      <3> DEFINE k == [goal |-> d.goal, claim |-> d.claim, att |-> d.att,
                       stage |-> "setup", said |-> "none"]
      <3>1. checking' = checking \cup {k} /\ checks' = checks \ {d} /\ kept' = kept
        BY <1>4, <2>2 DEF OpenCheck
      <3>2. WakeOf(k) = d
        BY <2>1 DEF WakeOf, Check
      <3> HIDE DEF k
      <3>3. d \in Wakes' /\ \A e \in Wakes : e # d => e \in Wakes'
        BY <3>1, <3>2 DEF Wakes, WakeOf
      <3> QED  BY <3>3
    <2>3. CASE ~Wanted(d)
      <3>1. c # d /\ checking' = checking /\ checks' = checks \ {d} /\ kept' = kept
        BY <1>4, <2>3 DEF OpenCheck
      <3> QED  BY <3>1 DEF Wakes, WakeOf
    <2> QED  BY <2>2, <2>3
  <1>5. ASSUME NEW k \in checking, NEW l, checking' = (checking \ {k}) \cup {l}, WakeOf(l) = WakeOf(k),
               checks' = checks, kept' = kept
        PROVE  c \in Wakes'
    BY <1>5 DEF Wakes, WakeOf
  <1>6. ASSUME NEW k \in checking, CheckBegins(k)  PROVE c \in Wakes'
    <2>1. WakeOf([k EXCEPT !.stage = "running"]) = WakeOf(k)
      BY DEF WakeOf, TypeInv, GateType, CheckTurn
    <2> QED  BY <1>5, <1>6, <2>1 DEF CheckBegins
  <1>7. ASSUME NEW k \in checking, NEW verdict, CheckSpeaks(k, verdict)  PROVE c \in Wakes'
    <2>1. WakeOf([k EXCEPT !.said = verdict]) = WakeOf(k)
      BY DEF WakeOf, TypeInv, GateType, CheckTurn
    <2> QED  BY <1>5, <1>7, <2>1 DEF CheckSpeaks
  <1>8. ASSUME NEW k \in checking, CheckSetupFails(k)  PROVE c \in Wakes'
    <2>1. WakeOf(k) \in Check
      BY WakeOfIs DEF TypeInv, GateType
    <2> QED  BY <1>8, <2>1 DEF CheckSetupFails, Wakes, WakeOf
  <1>9. ASSUME NEW k \in checking, NEW done, CheckEnds(k, done)
        PROVE  c \in Wakes' \/ \E j \in judging' : j.goal = g
    <2>1. k \in CheckTurn /\ k.goal \in Goal /\ k.att \in Nat
      BY GoalAssumption DEF GoalAssumption, TypeInv, GateType, CheckTurn
    <2>2. checking' = checking \ {k} /\ kept' = kept /\ checks \subseteq checks'
      BY <1>9 DEF CheckEnds, NoVerdict, TryAgain
    <2>3. CASE c # WakeOf(k)
      BY <2>2, <2>3 DEF Wakes, WakeOf
    <2>4. CASE c = WakeOf(k)
      <3>1. k.goal = g /\ Wanted(k)
        BY <2>1, <2>4, WakeOfIs DEF Wanted
      <3>2. CASE judging' = judging \cup {[goal |-> k.goal, verdict |-> k.said]}
        <4>1. [goal |-> k.goal, verdict |-> k.said].goal = g
          BY <3>1
        <4>2. \E j \in judging' : j.goal = g
          BY <3>2, <4>1
        <4> QED  BY <4>2
      <3>3. CASE NoVerdict(k)
        <4>1. CASE k.att < Attempts
          <5>1. board' = [board EXCEPT ![k.goal].att = k.att + 1]
            BY <3>3, <4>1 DEF NoVerdict, TryAgain, AfterCheck
          <5>2. board'[g].att = k.att + 1 /\ board[g].att = k.att
            BY <1>1, <3>1, <5>1 DEF Pursuit, Wanted
          <5>3. k.att + 1 # k.att
            BY <2>1
          <5> QED  BY <5>2, <5>3
        <4>2. CASE ~(k.att < Attempts)
          <5>1. board' = Rejected(k.goal, board, TRUE)
            BY <3>3, <4>2 DEF NoVerdict, AfterCheck
          <5> QED  BY <1>1, <3>1, <5>1, RejectedIs
        <4> QED  BY <4>1, <4>2
      <3> QED  BY <1>9, <3>1, <3>2, <3>3 DEF CheckEnds
    <2> QED  BY <2>3, <2>4
  <1>10. ASSUME NEW fate, Restart(fate)  PROVE \E j \in judging' : j.goal = g
    <2>1. g \notin Interrupted
      BY <1>10, RestartBoard
    <2>2. [goal |-> g, verdict |-> words[g]] \in judging'
      BY <1>10, <2>1 DEF Restart, Interrupted
    <2> QED  BY <2>2
  <1>11. CASE UNCHANGED vars
    BY <1>2, <1>11 DEF vars
  <1>12. ASSUME NEW j \in judging, NEW disturbed, Judge(j, disturbed)  PROVE c \in Wakes'
    BY <1>2, <1>12 DEF Judge
  <1>13. CASE SetupFails
    BY <1>2, <1>13 DEF SetupFails
  <1>14. CASE UNCHANGED <<checks, kept, checking>>
    BY <1>2, <1>14
  <1> QED
    BY <1>3, <1>4, <1>6, <1>7, <1>8, <1>9, <1>10, <1>11, <1>12, <1>13, <1>14
    DEF Next, SetGoal, Pause, Resume, Clear, Order, Arrive, Release, FireInVain, Start, Open,
        Continue, Begin, Steer, Ask, EndTurn, TurnFinished, Account, Claim, Refuse

\* A verdict about to be written is written for its goal, or the process dies first.
LEMMA JudgingStays ==
  ASSUME TypeInv, [Next]_vars, NEW g \in Goal, board[g].st = "verifying",
         board'[g].st = board[g].st, NEW j \in judging, j.goal = g
  PROVE  \E i \in judging' : i.goal = g
  <1> USE DEF conv, loop, gate, count
  <1>1. board \in [Goal -> Pursuit]
    BY DEF TypeInv
  <1>2. ASSUME judging \subseteq judging'  PROVE \E i \in judging' : i.goal = g
    BY <1>2
  <1>3. ASSUME NEW i \in judging, NEW disturbed, Judge(i, disturbed)
        PROVE  \E l \in judging' : l.goal = g
    <2>1. CASE i = j
      <3>1. \/ board' = [board EXCEPT ![g].st = "complete", ![g].att = 0]
            \/ board' = Rejected(g, board, FALSE)
        BY <1>3, <2>1 DEF Judge, Write
      <3>2. [board EXCEPT ![g].st = "complete", ![g].att = 0][g].st = "complete"
        BY <1>1 DEF Pursuit
      <3>3. Rejected(g, board, FALSE)[g].st \in {"active", "paused"}
        BY <1>1, RejectedIs
      <3> QED  BY <3>1, <3>2, <3>3
    <2>2. CASE i # j
      BY <1>3, <2>2 DEF Judge
    <2> QED  BY <2>1, <2>2
  <1>4. ASSUME NEW fate, Restart(fate)  PROVE \E i \in judging' : i.goal = g
    <2>1. g \notin Interrupted
      BY <1>4, RestartBoard
    <2>2. [goal |-> g, verdict |-> words[g]] \in judging'
      BY <1>4, <2>1 DEF Restart, Interrupted
    <2> QED  BY <2>2
  <1>5. ASSUME NEW k \in checking, NEW done, CheckEnds(k, done)  PROVE \E i \in judging' : i.goal = g
    BY <1>2, <1>5 DEF CheckEnds
  <1> QED
    BY <1>2, <1>3, <1>4, <1>5
    DEF Next, vars, SetGoal, Pause, Resume, Clear, Order, Arrive, Release, FireInVain, Start, Open,
        Continue, Begin, SetupFails, Steer, Ask, EndTurn, TurnFinished, Account, Claim, Refuse,
        Accept, OpenCheck, CheckBegins, CheckSetupFails, CheckSpeaks

\* Whatever earlier attempts, other claims and restarts left about, a goal under
\* verification has a verifier on its way whose report is taken, or a verdict about
\* to be written.
THEOREM GoalVerdictIsAwaited == Spec => []VerdictIsAwaited
  <1>1. Init => VerdictIsAwaited
    BY DEF Init, VerdictIsAwaited
  <1>2. TypeInv /\ VerdictIsAwaited /\ [Next]_vars => VerdictIsAwaited'
    <2> SUFFICES ASSUME TypeInv, VerdictIsAwaited, [Next]_vars,
                        NEW g \in Goal, board'[g].st = "verifying"
                 PROVE  \/ \E c \in Wakes' : c.goal = g /\ Wanted(c)'
                        \/ \E j \in judging' : j.goal = g
      BY DEF VerdictIsAwaited, Wakes, Wanted, WakeOf
    <2>1. CASE board'[g].st = board[g].st /\ board'[g].att = board[g].att
      <3>1. \/ \E c \in Wakes : c.goal = g /\ Wanted(c)
            \/ \E j \in judging : j.goal = g
        BY <2>1 DEF VerdictIsAwaited, Wakes
      <3>2. ASSUME NEW c \in Wakes, c.goal = g, Wanted(c)
            PROVE  (c \in Wakes' /\ Wanted(c)') \/ \E j \in judging' : j.goal = g
        <4>1. Wanted(c)'
          BY <2>1, <3>2 DEF Wanted
        <4> QED  BY <2>1, <3>2, <4>1, WakesStay
      <3>3. ASSUME NEW j \in judging, j.goal = g  PROVE \E i \in judging' : i.goal = g
        BY <2>1, <3>3, JudgingStays
      <3> QED  BY <3>1, <3>2, <3>3
    <2>2. CASE \E c \in checks' : c.goal = g /\ c.att = board'[g].att
      BY <2>2 DEF Wakes, Wanted
    <2> QED  BY <2>1, <2>2, BoardMoves DEF GoalMoves
  <1> QED  BY <1>1, <1>2, TypeInit, TypeStep, PTL DEF Spec

=============================================================================
