---------------------------- MODULE TurnSteps_proofs ----------------------------
(***************************************************************************)
(* Proofs about TurnSteps, for every set of turns, calls and approvals,    *)
(* any number of crashes and of appends that fail, and every MaxResumes:   *)
(* what must not be repeated is run once, the model is told the truth      *)
(* about it, and consent for one run covers one run.                       *)
(***************************************************************************)
EXTENDS TurnSteps, FiniteSetTheorems, TLAPS

----------------------------------------------------------------------------
(* The invariant.                                                          *)

\* A call that is being worked on is of the batch of a turn that runs or
\* replays, and a turn that thinks or sets up has no unanswered call.
CallsInBatch ==
    \A c \in Call :
        /\ doing[c] # "idle" =>
               answer[c] = "asked" /\ phase[Owner[c]] \in {"running", "replaying"}
        /\ answer[c] = "asked" =>
               /\ phase[Owner[c]] \notin {"thinking", "setup"}
               /\ log[Owner[c]].how # "none"
        /\ answer[c] = "unasked" => ran[c] = 0 /\ waits[c] = None

\* A turn in its rounds has begun, nothing runs before the sweep is over, and a
\* replay holds steps of its own turn.
TurnsBegun ==
    /\ \A t \in Turn : phase[t] \in {"thinking", "running"} => log[t].how # "none"
    /\ life # "up" => \A t \in Turn : phase[t] = "idle"
    /\ \A t \in Turn : snap[t].open \subseteq Calls(t)

\* A call that must not be repeated has not run before it is dispatched, is
\* dispatched with its record, and is not touched by a replay.
RunOnce ==
    \A c \in Call \ Replayable :
        /\ ran[c] <= 1
        /\ doing[c] \in {"todo", "checking", "running", "held", "failed"} => ran[c] = 0
        /\ doing[c] \in {"checking", "running", "ran"} => step[c] = "open"
        /\ phase[Owner[c]] = "replaying" => doing[c] = "idle"

\* Until a call that ran is answered, its record says that it was dispatched.
RunIsOpen ==
    \A c \in Call \ Replayable :
        ran[c] > 0 /\ answer[c] = "asked" =>
            /\ step[c] = "open"
            /\ phase[Owner[c]] = "replaying" => c \in snap[Owner[c]].open

\* What is said not to have run has not, nor what a person was asked about.
ClaimsHold ==
    \A c \in Call \ Replayable :
        /\ answer[c] \in NotRun => ran[c] = 0
        /\ waits[c] # None => ran[c] = 0 /\ doing[c] \in {"idle", "held"}
        /\ told[c] # "none" => waits[c] # None

\* An approval that was used is neither waiting nor a grant for one run, in
\* the gate and in what a restart reads.
ConsentUsed ==
    \A a \in Approval :
        /\ spent[a] <= 1
        /\ spent[a] > 0 => /\ about[a] # None
                           /\ gate[a] \in {"none", "gone", "always"}
                           /\ row[a] \in {"always", "answered"}

StepsInv ==
    TypeOK /\ CallsInBatch /\ TurnsBegun /\ RunOnce /\ RunIsOpen /\ ClaimsHold /\ ConsentUsed

----------------------------------------------------------------------------
(* Type correctness.                                                       *)

\* The initial state is well-typed.
LEMMA TypeInit == Init => TypeOK
  BY StepConstants DEF StepConstants, Init, TypeOK, Nothing, Blank, Endings, Answers, Rows,
     Doing, Phases

\* Losing n appends keeps the count within its bound.
LEMMA LoseType ==
  ASSUME lost \in 0..MaxLost, NEW n \in Nat, LoseAppends(n)
  PROVE  lost' \in 0..MaxLost
  BY StepConstants DEF LoseAppends, StepConstants

\* As many appends as there are calls to settle can be counted.
LEMMA CountCalls ==
  ASSUME NEW S \in SUBSET Call
  PROVE  Cardinality(S) \in Nat
  BY StepConstants, FS_Subset, FS_CardinalityType DEF StepConstants

\* The records of turns.jsonl, and of continuations.
LogRecord == [how : Endings, attempt : Nat, closed : BOOLEAN]
Continuation == [turn : BOOLEAN, approval : Approval \cup {None},
                 how : {"allowed", "refused", "gone"}, attempt : Nat]

\* A record of the ledger is a record of the ledger after any append.
LEMMA LogType ==
  ASSUME log \in [Turn -> LogRecord], NEW t \in Turn
  PROVE  /\ \A n \in Nat : /\ Begun(t, n) \in [Turn -> LogRecord]
                          /\ Begun(t, n)[t].how = "open"
         /\ \A h \in Endings, r \in BOOLEAN, x \in BOOLEAN :
              /\ Ended(t, h, r, x) \in [Turn -> LogRecord]
              /\ Ended(t, h, r, x)[t].how = IF r THEN h ELSE log[t].how
  <1>1. /\ log[t].how \in Endings /\ log[t].attempt \in Nat /\ log[t].closed \in BOOLEAN
        /\ "open" \in Endings
    BY DEF LogRecord, Endings
  <1>2. ASSUME NEW n \in Nat
        PROVE  Begun(t, n) \in [Turn -> LogRecord] /\ Begun(t, n)[t].how = "open"
    <2> DEFINE r == [how |-> "open", attempt |-> n, closed |-> log[t].closed]
    <2>1. r \in LogRecord /\ r.how = "open"
      BY <1>1 DEF LogRecord
    <2>2. Begun(t, n) = [log EXCEPT ![t] = r]
      BY DEF Begun
    <2> HIDE DEF r
    <2> QED  BY <2>1, <2>2
  <1>3. ASSUME NEW h \in Endings, NEW r \in BOOLEAN, NEW x \in BOOLEAN
        PROVE  /\ Ended(t, h, r, x) \in [Turn -> LogRecord]
               /\ Ended(t, h, r, x)[t].how = IF r THEN h ELSE log[t].how
    <2> DEFINE how == IF r THEN h ELSE log[t].how
               e == [how |-> how, attempt |-> log[t].attempt, closed |-> log[t].closed \/ x]
    <2>1. how \in Endings /\ (log[t].closed \/ x) \in BOOLEAN
      BY <1>1
    <2>2. e.how = how
      OBVIOUS
    <2>3. Ended(t, h, r, x) = [log EXCEPT ![t] = e]
      BY DEF Ended
    <2>4. e \in LogRecord
      <3> HIDE DEF how
      <3> QED  BY <1>1, <2>1 DEF LogRecord
    <2> HIDE DEF e
    <2>5. Ended(t, h, r, x) \in [Turn -> LogRecord] /\ Ended(t, h, r, x)[t] = e
      BY <2>3, <2>4
    <2> QED  BY <2>2, <2>5
  <1> QED  BY <1>2, <1>3

\* A continuation that is admitted keeps the ledgers well-typed.
LEMMA ContinueType ==
  ASSUME TypeOK, NEW t \in Turn, NEW a \in Approval \cup {None},
         NEW how \in {"allowed", "refused", "gone"}, NEW ok \in BOOLEAN, Continue(t, a, how, ok)
  PROVE  log' \in [Turn -> LogRecord] /\ kept' \in [Turn -> Continuation]
  <1>1. log \in [Turn -> LogRecord] /\ kept \in [Turn -> Continuation]
    BY DEF TypeOK, LogRecord, Continuation
  <1>2. log[t].attempt + 1 \in Nat
    BY <1>1 DEF LogRecord
  <1>3. log' \in [Turn -> LogRecord]
    BY <1>1, LogType DEF Continue, Endings
  <1> DEFINE k == [turn |-> TRUE, approval |-> a, how |-> how, attempt |-> log[t].attempt + 1]
  <1>4. k \in Continuation
    BY <1>2 DEF Continuation
  <1>5. kept' = [kept EXCEPT ![t] = k]
    BY DEF Continue
  <1> HIDE DEF k
  <1>6. kept' \in [Turn -> Continuation]
    BY <1>1, <1>4, <1>5
  <1> QED  BY <1>3, <1>6

\* What a person does keeps every type.
LEMMA PersonType ==
  ASSUME TypeOK, NEW a \in Approval, PersonStep(a)
  PROVE  TypeOK'
  <1>1. ASSUME NEW to \in {"gone", "once", "session", "always"},
               NEW how \in {"allowed", "refused"}, NEW w \in BOOLEAN, NEW ok \in BOOLEAN,
               Decide(a, to, how, w, ok)
        PROVE  /\ row' \in [Approval -> Rows] /\ lost' \in 0..MaxLost
               /\ step' \in [Call -> {"absent", "open", "settled"}]
               /\ parked' \in [Approval -> Turn \cup {None}]
               /\ log' \in [Turn -> [how : Endings, attempt : Nat, closed : BOOLEAN]]
               /\ kept' \in [Turn -> [turn : BOOLEAN, approval : Approval \cup {None},
                                      how : {"allowed", "refused", "gone"}, attempt : Nat]]
    <2>1. lost' \in 0..MaxLost
      BY <1>1, LoseType DEF Decide, TypeOK
    <2>2. row' \in [Approval -> Rows]
      BY <1>1 DEF Decide, TypeOK, Rows
    <2>3. Settled(a, how, ok)
      BY <1>1 DEF Decide
    <2>4. CASE parked[a] # None
      <3>1. parked[a] \in Turn
        BY <2>4 DEF TypeOK
      <3>2. \/ Continue(parked[a], a, how, ok)
            \/ UNCHANGED <<kept, log>>
        BY <2>3, <2>4 DEF Settled
      <3>3. log' \in [Turn -> LogRecord] /\ kept' \in [Turn -> Continuation]
        BY <3>1, <3>2, ContinueType DEF TypeOK, LogRecord, Continuation
      <3> QED  BY <2>1, <2>2, <2>3, <2>4, <3>3 DEF Settled, TypeOK, LogRecord, Continuation
    <2>5. CASE parked[a] = None
      BY <2>1, <2>2, <2>3, <2>5 DEF Settled, SettleSteps, TypeOK
    <2> QED  BY <2>4, <2>5
  <1>2. ASSUME NEW s \in {"once", "session", "always"}, NEW w \in BOOLEAN, NEW ok \in BOOLEAN,
               Grant(a, s, w, ok)
        PROVE  TypeOK'
    <2>1. Decide(a, s, "allowed", w, ok)
      BY <1>2 DEF Grant
    <2>2. gate' \in [Approval -> {"none", "awaiting", "once", "session", "always", "gone"}]
      BY <1>2 DEF Grant, TypeOK
    <2> QED  BY <1>1, <2>1, <2>2 DEF Decide, TypeOK, record, history, process
  <1>3. ASSUME NEW w \in BOOLEAN, NEW ok \in BOOLEAN, Deny(a, w, ok)
        PROVE  TypeOK'
    <2>1. Decide(a, "gone", "refused", w, ok)
      BY <1>3 DEF Deny
    <2>2. gate' \in [Approval -> {"none", "awaiting", "once", "session", "always", "gone"}]
      BY <1>3 DEF Deny, TypeOK
    <2> QED  BY <1>1, <2>1, <2>2 DEF Decide, TypeOK, record, history, process
  <1>4. ASSUME NEW w \in BOOLEAN, RevokeStanding(a, w)
        PROVE  TypeOK'
    BY <1>4, LoseType DEF RevokeStanding, Lossy, TypeOK, Rows, ledgers, record, memory,
       history, process
  <1> QED  BY <1>2, <1>3, <1>4 DEF PersonStep

\* Every step of one call keeps every type.
LEMMA CallType ==
  ASSUME TypeOK, NEW c \in Call, CallStep(c)
  PROVE  TypeOK'
  <1>1. ASSUME NEW ok \in BOOLEAN, Start(c, ok) PROVE TypeOK'
    BY <1>1, LoseType DEF Start, Lossy, TypeOK, Doing, record, consent, history, process
  <1>2. CASE Pass(c)
    BY <1>2 DEF Pass, TypeOK, Doing, ledgers, record, consent, history, process
  <1>3. ASSUME NEW a \in Approval, NEW ok \in BOOLEAN, UseGrant(c, a, ok) PROVE TypeOK'
    BY <1>3, LoseType DEF UseGrant, Lossy, TypeOK, Doing, Rows, ledgers, record, process
  <1>4. ASSUME NEW a \in Approval, NEW r \in BOOLEAN, NEW k \in BOOLEAN, HandToPerson(c, a, r, k)
        PROVE  TypeOK'
    <2>1. lost' \in 0..MaxLost
      BY <1>4, LoseType DEF HandToPerson, TypeOK
    <2>2. row' \in [Approval -> Rows]
      BY <1>4 DEF HandToPerson, TypeOK, Rows
    <2>3. ActionOf[c] \in Action
      BY StepConstants DEF StepConstants
    <2> QED  BY <1>4, <2>1, <2>2, <2>3 DEF HandToPerson, TypeOK, Doing, record, history, process
  <1>5. CASE Return(c)
    BY <1>5 DEF Return, TypeOK, Doing, ledgers, record, consent, process
  <1> QED  BY <1>1, <1>2, <1>3, <1>4, <1>5 DEF CallStep

\* Every step of one turn keeps every type.
LEMMA TurnType ==
  ASSUME TypeOK, CallsInBatch, TurnsBegun, NEW t \in Turn, TurnStep(t)
  PROVE  TypeOK'
  <1> USE DEF ledgers, record, consent, memory, history, process
  <1>a. /\ log \in [Turn -> LogRecord] /\ kept \in [Turn -> Continuation]
        /\ step \in [Call -> {"absent", "open", "settled"}] /\ answer \in [Call -> Answers]
        /\ parked \in [Approval -> Turn \cup {None}] /\ lost \in 0..MaxLost
    BY DEF TypeOK, LogRecord, Continuation
  <1>b. \A S \in SUBSET Calls(t) : Cardinality(S) \in Nat
    BY CountCalls DEF Calls
  <1>c. ASSUME NEW S \in SUBSET Call, SettleSteps(S)
        PROVE  step' \in [Call -> {"absent", "open", "settled"}]
    BY <1>a, <1>c DEF SettleSteps
  <1>d. {"unasked", "asked", "ran", "replayed", "outcome_unknown", "unrecorded", "held", "failed",
         "not_started", "allowed", "refused", "gone", "pending"} = Answers
    BY DEF Answers, NotRun
  <1>1. CASE BeginFresh(t)
    <2>1. log' \in [Turn -> LogRecord]
      BY <1>1, <1>a, LogType DEF BeginFresh
    <2> QED  BY <1>1, <2>1 DEF BeginFresh, TypeOK, Phases, LogRecord
  <1>2. ASSUME NEW B \in SUBSET Calls(t), Ask(t, B) PROVE TypeOK'
    BY <1>2, <1>d DEF Ask, TypeOK, Doing, Phases
  <1>3. ASSUME NEW miss \in SUBSET Calls(t), RecordResults(t, miss) PROVE TypeOK'
    <2>1. lost' \in 0..MaxLost
      BY <1>3, <1>a, <1>b, LoseType DEF RecordResults
    <2>2. step' \in [Call -> {"absent", "open", "settled"}]
      BY <1>3, <1>c DEF RecordResults, Batch, Calls
    <2>3. answer' \in [Call -> Answers]
      BY <1>3, <1>a, <1>d DEF RecordResults
    <2> QED  BY <1>3, <2>1, <2>2, <2>3 DEF RecordResults, TypeOK, Doing, Phases
  <1>4. ASSUME NEW miss \in SUBSET Calls(t), ReplayEnd(t, miss) PROVE TypeOK'
    <2>0. /\ snap[t].open \subseteq Call /\ kept[t].how \in {"allowed", "refused", "gone"}
      BY <1>a DEF TypeOK, Continuation
    <2>1. lost' \in 0..MaxLost
      BY <1>4, <1>a, <1>b, LoseType DEF ReplayEnd
    <2>2. step' \in [Call -> {"absent", "open", "settled"}]
      BY <1>4, <1>c, <2>0 DEF ReplayEnd
    <2>3. \A c \in Call : ApprovalHow(t, c) \in {"allowed", "refused", "gone", "pending"}
      BY <2>0 DEF ApprovalHow
    <2>4. \A c \in Call : ReplayAnswer(t, c) \in Answers
      BY <2>3, <1>d DEF ReplayAnswer
    <2>5. /\ told' \in [Call -> {"none", "allowed", "refused", "gone", "pending"}]
          /\ answer' \in [Call -> Answers]
      BY <1>4, <1>a, <2>3, <2>4 DEF ReplayEnd, TypeOK
    <2>6. snap' \in [Turn -> [open : SUBSET Call, pending : SUBSET Approval]]
      <3>1. Blank \in [open : SUBSET Call, pending : SUBSET Approval]
        BY DEF Blank
      <3> QED  BY <1>4, <3>1 DEF ReplayEnd, TypeOK
    <2> QED  BY <1>4, <2>1, <2>2, <2>5, <2>6 DEF ReplayEnd, TypeOK, Doing, Phases
  <1>5. ASSUME NEW e \in BOOLEAN, NEW x \in BOOLEAN, Conclude(t, e, x) PROVE TypeOK'
    <2>1. lost' \in 0..MaxLost
      BY <1>5, <1>a, LoseType DEF Conclude
    <2>2. step' \in [Call -> {"absent", "open", "settled"}]
      BY <1>5, <1>a, <1>c DEF Conclude, OpenSteps, Calls
    <2>3. log' \in [Turn -> LogRecord]
      BY <1>5, <1>a, LogType DEF Conclude, Endings
    <2> QED  BY <1>5, <2>1, <2>2, <2>3 DEF Conclude, TypeOK, Phases, LogRecord
  <1>6. CASE Overtake(t)
    BY <1>6, <1>d DEF Overtake, TypeOK
  <1>7. CASE ReplayStart(t)
    <2>1. snap' \in [Turn -> [open : SUBSET Call, pending : SUBSET Approval]]
      <3> DEFINE r == [open |-> OpenSteps(t), pending |-> Awaiting]
      <3>1. r \in [open : SUBSET Call, pending : SUBSET Approval]
        BY DEF OpenSteps, Calls, Awaiting
      <3>2. snap' = [snap EXCEPT ![t] = r]
        BY <1>7 DEF ReplayStart
      <3> HIDE DEF r
      <3> QED  BY <3>1, <3>2 DEF TypeOK
    <2> QED  BY <1>7, <2>1 DEF ReplayStart, TypeOK, Doing, Phases
  <1>8. CASE BeginContinued(t)
    <2>1. kept[t].attempt \in Nat
      BY <1>a DEF Continuation
    <2>2. log' \in [Turn -> LogRecord]
      BY <1>8, <1>a, <2>1, LogType DEF BeginContinued
    <2>3. Nothing \in Continuation
      BY DEF Nothing, Continuation
    <2>4. kept' \in [Turn -> Continuation]
      BY <1>8, <1>a, <2>3 DEF BeginContinued
    <2> QED  BY <1>8, <2>2, <2>4 DEF BeginContinued, TypeOK, Phases, LogRecord, Continuation
  <1>9. ASSUME NEW ok \in BOOLEAN, Sweep(t, ok) PROVE TypeOK'
    <2>1. lost' \in 0..MaxLost /\ sweep' \subseteq Turn
      BY <1>9, <1>a, LoseType DEF Sweep, Lossy, TypeOK
    <2>2. /\ log' \in [Turn -> LogRecord] /\ kept' \in [Turn -> Continuation]
          /\ step' \in [Call -> {"absent", "open", "settled"}]
          /\ parked' \in [Approval -> Turn \cup {None}]
      <3>1. CASE UNCHANGED <<log, kept, step, parked>>
        BY <3>1, <1>a
      <3>2. CASE /\ log' = Ended(t, "given-up", ok, TRUE)
                 /\ SettleSteps(OpenSteps(t)) /\ UNCHANGED <<kept, parked>>
        <4>1. step' \in [Call -> {"absent", "open", "settled"}]
          BY <3>2, <1>c DEF OpenSteps, Calls
        <4> QED  BY <3>2, <1>a, <4>1, LogType DEF Endings
      <3>3. CASE /\ \E c \in OpenSteps(t) : waits[c] \in Awaiting
                                            /\ parked' = [parked EXCEPT ![waits[c]] = t]
                 /\ UNCHANGED <<log, kept, step>>
        BY <3>3, <1>a
      <3>4. CASE Continue(t, None, "gone", ok) /\ UNCHANGED <<step, parked>>
        BY <3>4, <1>a, ContinueType
      <3>5. CASE log' = Ended(t, "resumed", TRUE, FALSE) /\ UNCHANGED <<kept, step, parked>>
        BY <3>5, <1>a, LogType DEF Endings
      <3> QED  BY <1>9, <3>1, <3>2, <3>3, <3>4, <3>5 DEF Sweep
    <2>3. answer' \in [Call -> Answers]
      BY <1>9, <1>a, <1>d DEF Sweep
    <2> QED  BY <1>9, <2>1, <2>2, <2>3 DEF Sweep, TypeOK, LogRecord, Continuation
  <1> QED  BY <1>1, <1>2, <1>3, <1>4, <1>5, <1>6, <1>7, <1>8, <1>9 DEF TurnStep

\* A crash and a start keep every type.
LEMMA ProcessType ==
  ASSUME TypeOK, Crash \/ Restart \/ Serve
  PROVE  TypeOK'
  <1> USE DEF ledgers, record, consent, memory, history, process
  <1>1. CASE Crash
    <2>1. Blank \in [open : SUBSET Call, pending : SUBSET Approval]
      BY DEF Blank
    <2>2. crashes' \in 0..MaxCrashes
      BY <1>1, StepConstants DEF Crash, TypeOK, StepConstants
    <2> QED  BY <1>1, <2>1, <2>2 DEF Crash, TypeOK, Phases, Doing
  <1>2. CASE Restart
    <2>1. \A a \in Approval :
            Replayed(a) \in {"none", "awaiting", "once", "session", "always", "gone"}
      BY DEF Replayed
    <2> QED  BY <1>2, <2>1 DEF Restart, TypeOK
  <1>3. CASE Serve
    BY <1>3 DEF Serve, TypeOK
  <1> QED  BY <1>1, <1>2, <1>3

----------------------------------------------------------------------------
(* What the model is told.                                                 *)

CallsInv == CallsInBatch /\ TurnsBegun /\ RunOnce /\ RunIsOpen /\ ClaimsHold

\* It holds initially: nothing was asked.
LEMMA CallsInit == Init => CallsInv
  BY StepConstants
  DEF StepConstants, Init, CallsInv, CallsInBatch, TurnsBegun, RunOnce, RunIsOpen, ClaimsHold, NotRun,
      Blank

\* What a person does settles only steps that waited for them.
LEMMA PersonCalls ==
  ASSUME TypeOK, CallsInv, NEW a \in Approval, PersonStep(a)
  PROVE  CallsInv'
  <1> USE DEF ledgers, record, consent, memory, history, process
  <1>1. a # None
    BY StepConstants DEF StepConstants
  <1>2. log \in [Turn -> LogRecord]
    BY DEF TypeOK, LogRecord
  <1>3. ASSUME NEW to \in {"gone", "once", "session", "always"},
               NEW how \in {"allowed", "refused"}, NEW w \in BOOLEAN, NEW ok \in BOOLEAN,
               Decide(a, to, how, w, ok)
        PROVE  CallsInv'
    <2>1. UNCHANGED <<answer, told, phase, doing, snap, ran, waits, life>>
      BY <1>3 DEF Decide
    <2>2. \A c \in Call : step'[c] = step[c] \/ waits[c] = a
      BY <1>3 DEF Decide, Settled, SettleSteps, TypeOK
    <2>3. \A t \in Turn : log[t].how # "none" => log'[t].how # "none"
      <3>1. CASE UNCHANGED log
        BY <3>1
      <3>2. CASE Continue(parked[a], a, how, ok) /\ parked[a] # None
        <4>1. parked[a] \in Turn
          BY <3>2 DEF TypeOK
        <4>2. log' = Ended(parked[a], "continued", ok, FALSE)
          BY <3>2 DEF Continue
        <4>3. /\ log'[parked[a]].how = IF ok THEN "continued" ELSE log[parked[a]].how
              /\ \A t \in Turn \ {parked[a]} : log'[t] = log[t]
          BY <1>2, <4>1, <4>2, LogType DEF Endings, Ended
        <4> QED  BY <4>3
      <3> QED  BY <1>3, <3>1, <3>2 DEF Decide, Settled
    <2>4. Owner \in [Call -> Turn]
      BY StepConstants DEF StepConstants
    <2> QED
      BY <1>1, <2>1, <2>2, <2>3, <2>4
      DEF CallsInv, CallsInBatch, TurnsBegun, RunOnce, RunIsOpen, ClaimsHold, Calls
  <1>4. ASSUME NEW w \in BOOLEAN, RevokeStanding(a, w) PROVE CallsInv'
    BY <1>4 DEF RevokeStanding, CallsInv, CallsInBatch, TurnsBegun, RunOnce, RunIsOpen,
       ClaimsHold, Calls
  <1> QED  BY <1>3, <1>4 DEF PersonStep, Grant, Deny

\* A call goes from its record to its effect once.
LEMMA CallCalls ==
  ASSUME TypeOK, CallsInv, NEW c \in Call, CallStep(c)
  PROVE  CallsInv'
  <1> USE DEF ledgers, record, consent, memory, history, process
  <1> USE DEF CallsInv, CallsInBatch, TurnsBegun, RunOnce, RunIsOpen, ClaimsHold, Calls, TypeOK
  <1>1. ASSUME NEW ok \in BOOLEAN, Start(c, ok) PROVE CallsInv'
    BY <1>1 DEF Start, Dispatched
  <1>2. CASE Pass(c)
    BY <1>2 DEF Pass, Checking
  <1>3. ASSUME NEW a \in Approval, NEW ok \in BOOLEAN, UseGrant(c, a, ok) PROVE CallsInv'
    BY <1>3 DEF UseGrant, Checking, ActedOn
  <1>4. ASSUME NEW a \in Approval, NEW r \in BOOLEAN, NEW k \in BOOLEAN, HandToPerson(c, a, r, k)
        PROVE  CallsInv'
    BY <1>4 DEF HandToPerson, Checking
  <1>5. CASE Return(c)
    BY <1>5 DEF Return, NotRun
  <1> QED  BY <1>1, <1>2, <1>3, <1>4, <1>5 DEF CallStep

\* Results are recorded for calls that ran, and for calls that did not.
LEMMA ResultsCalls ==
  ASSUME TypeOK, CallsInv, NEW t \in Turn, NEW miss \in SUBSET Calls(t), RecordResults(t, miss)
  PROVE  CallsInv'
  <1>1. /\ UNCHANGED <<log, waits, told, life, snap, ran>>
        /\ \A u \in Turn : phase'[u] = IF u = t THEN "thinking" ELSE phase[u]
        /\ phase[t] = "running"
        /\ \A c \in Call : doing'[c] = IF c \in Batch(t) THEN "idle" ELSE doing[c]
        /\ \A c \in Call : answer'[c] = IF c \in Batch(t) THEN doing[c] ELSE answer[c]
        /\ \A c \in Batch(t) : doing[c] \in {"ran", "held", "failed"}
    BY DEF RecordResults, TypeOK, record, consent, history, process
  <1>2. \A c \in Call : step'[c] = step[c] \/ c \in Batch(t)
    BY DEF RecordResults, SettleSteps, TypeOK
  <1>3. Owner \in [Call -> Turn]
    BY StepConstants DEF StepConstants
  <1>4. \A c \in Call : c \in Batch(t) <=> Owner[c] = t /\ answer[c] = "asked"
    BY DEF Batch, Calls
  <1>5. CallsInBatch'
    BY <1>1, <1>3, <1>4 DEF CallsInv, CallsInBatch
  <1>6. TurnsBegun'
    BY <1>1 DEF CallsInv, TurnsBegun, Calls, RecordResults
  <1>7. RunOnce' /\ RunIsOpen'
    BY <1>1, <1>2, <1>3, <1>4 DEF CallsInv, CallsInBatch, RunOnce, RunIsOpen
  <1>8. ClaimsHold'
    BY <1>1, <1>4 DEF CallsInv, RunOnce, ClaimsHold, NotRun
  <1> QED  BY <1>5, <1>6, <1>7, <1>8 DEF CallsInv

\* A replay does not say of a call that ran that it did not.
LEMMA ReplayIsHonest ==
  ASSUME TypeOK, CallsInv, NEW t \in Turn, phase[t] = "replaying", NEW c \in Batch(t)
  PROVE  /\ ReplayAnswer(t, c) \notin {"asked", "unasked"}
         /\ c \notin Replayable /\ ReplayAnswer(t, c) \in NotRun => ran[c] = 0
  <1>1. c \in Call /\ Owner[c] = t /\ answer[c] = "asked"
    BY DEF Batch, Calls
  <1>2. kept[t].how \in {"allowed", "refused", "gone"} /\ doing[c] \in Doing /\ ran[c] \in Nat
    BY <1>1 DEF TypeOK
  <1>3. ApprovalHow(t, c) \in {"allowed", "refused", "gone", "pending"}
    BY <1>2 DEF ApprovalHow
  <1>4. ReplayAnswer(t, c) \notin {"asked", "unasked"}
    BY <1>2, <1>3 DEF ReplayAnswer, Doing
  <1>5. ASSUME c \notin Replayable, ran[c] # 0 PROVE ReplayAnswer(t, c) = "outcome_unknown"
    <2>1. doing[c] = "idle"
      BY <1>1, <1>5 DEF CallsInv, RunOnce
    <2>2. c \in snap[t].open
      BY <1>1, <1>2, <1>5 DEF CallsInv, RunIsOpen
    <2>3. waits[c] = None
      BY <1>1, <1>5 DEF CallsInv, ClaimsHold
    <2> QED  BY <2>1, <2>2, <2>3 DEF ReplayAnswer
  <1> QED  BY <1>4, <1>5 DEF NotRun

\* A replay answers the whole batch.
LEMMA ReplayCalls ==
  ASSUME TypeOK, CallsInv, NEW t \in Turn, NEW miss \in SUBSET Calls(t), ReplayEnd(t, miss)
  PROVE  CallsInv'
  <1>1. /\ UNCHANGED <<log, life, ran, waits>>
        /\ \A u \in Turn : phase'[u] = IF u = t THEN "setup" ELSE phase[u]
        /\ \A c \in Call : doing'[c] = IF c \in Batch(t) THEN "idle" ELSE doing[c]
        /\ \A c \in Call : answer'[c] = IF c \in Batch(t) THEN ReplayAnswer(t, c) ELSE answer[c]
        /\ phase[t] = "replaying" /\ life = "up"
    BY DEF ReplayEnd, TypeOK, consent, history, process
  <1>2. \A u \in Turn : snap'[u] = IF u = t THEN Blank ELSE snap[u]
    BY DEF ReplayEnd, TypeOK
  <1>3. \A c \in Call : told'[c] = told[c] \/ waits[c] # None
    BY DEF ReplayEnd, TypeOK
  <1>4. \A c \in Call : step'[c] = step[c] \/ Owner[c] = t
    BY DEF ReplayEnd, SettleSteps, TypeOK, CallsInv, TurnsBegun, Calls
  <1>5. Owner \in [Call -> Turn]
    BY StepConstants DEF StepConstants
  <1>6. \A c \in Call : c \in Batch(t) <=> Owner[c] = t /\ answer[c] = "asked"
    BY DEF Batch, Calls
  <1>7. \A c \in Call : Owner[c] = t => doing'[c] = "idle" /\ answer'[c] # "asked"
    BY <1>1, <1>6, ReplayIsHonest DEF CallsInv, CallsInBatch
  <1>8. CallsInBatch'
    <2>1. ASSUME NEW c \in Call, Owner[c] # t
          PROVE  answer'[c] = answer[c] /\ doing'[c] = doing[c] /\ phase'[Owner[c]] = phase[Owner[c]]
      BY <1>1, <1>5, <1>6, <2>1
    <2>2. \A c \in Call : answer'[c] = "unasked" => answer[c] = "unasked"
      BY <1>1, ReplayIsHonest
    <2> QED  BY <1>1, <1>5, <1>7, <2>1, <2>2 DEF CallsInv, CallsInBatch
  <1>9. TurnsBegun'
    <2>1. Blank.open = {}
      BY DEF Blank
    <2> QED  BY <1>1, <1>2, <2>1 DEF CallsInv, TurnsBegun, Calls
  <1>10. RunOnce' /\ RunIsOpen'
    BY <1>1, <1>2, <1>4, <1>5, <1>6, <1>7 DEF CallsInv, CallsInBatch, RunOnce, RunIsOpen
  <1>11. ClaimsHold'
    <2>1. \A c \in Call \ Replayable : answer'[c] \in NotRun => ran[c] = 0
      BY <1>1, ReplayIsHonest DEF CallsInv, ClaimsHold
    <2> QED  BY <1>1, <1>3, <2>1 DEF CallsInv, ClaimsHold
  <1> QED  BY <1>8, <1>9, <1>10, <1>11 DEF CallsInv

\* The sweep hides a batch when it closes its steps.
LEMMA SweepCalls ==
  ASSUME TypeOK, CallsInv, NEW t \in Turn, NEW ok \in BOOLEAN, Sweep(t, ok)
  PROVE  CallsInv'
  <1>1. /\ UNCHANGED <<waits, told, ran, life, phase, doing, snap>>
        /\ life # "up" /\ \A u \in Turn : phase[u] = "idle"
    BY DEF Sweep, consent, history, CallsInv, TurnsBegun
  <1>2. \A u \in Turn : log[u].how # "none" => log'[u].how # "none"
    <2>1. log \in [Turn -> LogRecord]
      BY DEF TypeOK, LogRecord
    <2>2. \/ UNCHANGED log
          \/ log' = Ended(t, "given-up", ok, TRUE)
          \/ log' = Ended(t, "continued", ok, FALSE)
          \/ log' = Ended(t, "resumed", TRUE, FALSE)
      BY DEF Sweep, Continue
    <2>3. ASSUME NEW h \in Endings \ {"none"}, NEW r \in BOOLEAN, NEW x \in BOOLEAN,
                 log' = Ended(t, h, r, x)
          PROVE  \A u \in Turn : log[u].how # "none" => log'[u].how # "none"
      BY <2>1, <2>3, LogType DEF Ended
    <2>4. CASE log' = Ended(t, "given-up", ok, TRUE)
      BY <2>3, <2>4 DEF Endings
    <2>5. CASE log' = Ended(t, "continued", ok, FALSE)
      BY <2>3, <2>5 DEF Endings
    <2>6. CASE log' = Ended(t, "resumed", TRUE, FALSE)
      BY <2>3, <2>6 DEF Endings
    <2> QED  BY <2>2, <2>4, <2>5, <2>6
  <1>3. \A c \in Call :
          \/ answer'[c] = answer[c] /\ step'[c] = step[c]
          \/ answer'[c] = answer[c] /\ answer[c] # "asked"
          \/ answer'[c] = "unrecorded" /\ answer[c] = "asked"
    <2>1. CASE UNCHANGED <<answer, step>>
      BY <2>1
    <2>2. CASE /\ answer' = [c \in Call |-> IF c \in Batch(t) THEN "unrecorded" ELSE answer[c]]
               /\ UNCHANGED step \/ SettleSteps(OpenSteps(t))
      BY <2>2 DEF SettleSteps, OpenSteps, Batch, Calls, TypeOK
    <2> QED  BY <2>1, <2>2 DEF Sweep
  <1>4. Owner \in [Call -> Turn]
    BY StepConstants DEF StepConstants
  <1> QED  BY <1>1, <1>2, <1>3, <1>4
           DEF NotRun, CallsInv, CallsInBatch, TurnsBegun, RunOnce, RunIsOpen, ClaimsHold, Calls

\* A round asks what was not asked before; a result closes what was answered;
\* a replay answers from the records of what it was inside of.
LEMMA TurnCalls ==
  ASSUME TypeOK, CallsInv, NEW t \in Turn, TurnStep(t)
  PROVE  CallsInv'
  <1> USE DEF ledgers, record, consent, memory, history, process
  <1>a. log \in [Turn -> LogRecord] /\ Owner \in [Call -> Turn]
    BY StepConstants DEF TypeOK, LogRecord, StepConstants
  <1>b. ASSUME NEW h \in Endings \ {"none"}, NEW r \in BOOLEAN, NEW x \in BOOLEAN,
               log' = Ended(t, h, r, x)
        PROVE  \A u \in Turn : log[u].how # "none" => log'[u].how # "none"
    BY <1>a, <1>b, LogType DEF Ended
  <1>c. ASSUME NEW n \in Nat, log' = Begun(t, n)
        PROVE  /\ \A u \in Turn : log[u].how # "none" => log'[u].how # "none"
               /\ log'[t].how # "none"
    BY <1>a, <1>c, LogType DEF Begun
  <1> USE DEF CallsInv, CallsInBatch, TurnsBegun, RunOnce, RunIsOpen, ClaimsHold, Calls
  <1>1. CASE BeginFresh(t)
    BY <1>1, <1>a, <1>c DEF BeginFresh, TypeOK
  <1>2. ASSUME NEW B \in SUBSET Calls(t), Ask(t, B) PROVE CallsInv'
    BY <1>2, <1>a DEF Ask, TypeOK, NotRun
  <1>3. ASSUME NEW miss \in SUBSET Calls(t), RecordResults(t, miss) PROVE CallsInv'
    BY <1>3, ResultsCalls
  <1>4. ASSUME NEW miss \in SUBSET Calls(t), ReplayEnd(t, miss) PROVE CallsInv'
    BY <1>4, ReplayCalls
  <1>5. ASSUME NEW e \in BOOLEAN, NEW x \in BOOLEAN, Conclude(t, e, x) PROVE CallsInv'
    <2>1. \A u \in Turn : log[u].how # "none" => log'[u].how # "none"
      BY <1>5, <1>b DEF Conclude, Endings
    <2>2. \A c \in Call : step'[c] = step[c] \/ Owner[c] = t
      BY <1>5 DEF Conclude, SettleSteps, OpenSteps, TypeOK
    <2> QED  BY <1>5, <1>a, <2>1, <2>2 DEF Conclude, TypeOK
  <1>6. CASE Overtake(t)
    BY <1>6, <1>a DEF Overtake, Batch, TypeOK, NotRun
  <1>7. CASE ReplayStart(t)
    <2>1. snap'[t].open = OpenSteps(t) /\ \A u \in Turn \ {t} : snap'[u] = snap[u]
      BY <1>7 DEF ReplayStart, TypeOK
    <2> QED  BY <1>7, <1>a, <2>1 DEF ReplayStart, OpenSteps, Batch, ReRun, TypeOK
  <1>8. CASE BeginContinued(t)
    <2>1. kept[t].attempt \in Nat
      BY DEF TypeOK
    <2> QED  BY <1>8, <1>a, <1>c, <2>1 DEF BeginContinued, TypeOK
  <1>9. ASSUME NEW ok \in BOOLEAN, Sweep(t, ok) PROVE CallsInv'
    BY <1>9, SweepCalls
  <1> QED  BY <1>1, <1>2, <1>3, <1>4, <1>5, <1>6, <1>7, <1>8, <1>9 DEF TurnStep

\* A crash forgets what was being worked on and nothing that was answered.
LEMMA ProcessCalls ==
  ASSUME TypeOK, CallsInv, Crash \/ Restart \/ Serve
  PROVE  CallsInv'
  BY StepConstants
  DEF Crash, Restart, Serve, CallsInv, CallsInBatch, TurnsBegun, RunOnce, RunIsOpen, ClaimsHold,
      Calls, Blank, TypeOK, StepConstants, ledgers, record, consent, memory, history, process

----------------------------------------------------------------------------
(* Consent.                                                                *)

\* Nothing was used initially.
LEMMA ConsentInit == Init => ConsentUsed
  BY DEF Init, ConsentUsed

\* A grant is used when its use is recorded; an answer takes an approval that
\* waits, and no used one waits.
LEMMA ConsentStep ==
  ASSUME TypeOK, ConsentUsed, [Next]_vars
  PROVE  ConsentUsed'
  <1> USE DEF ledgers, record, consent, memory, history, process
  <1>1. ASSUME NEW c \in Call, CallStep(c) PROVE ConsentUsed'
    <2>1. ASSUME NEW a \in Approval, NEW ok \in BOOLEAN, UseGrant(c, a, ok) PROVE ConsentUsed'
      <3>1. about[a] # None
        <4>1. about[a] = ActionOf[c] /\ ActionOf[c] \in Action
          BY <2>1, StepConstants DEF UseGrant, Covering, StepConstants
        <4> QED  BY <4>1, StepConstants DEF StepConstants
      <3>2. spent[a] \in Nat /\ (gate[a] = "once" => spent[a] = 0)
        <4>1. spent[a] \in Nat
          BY DEF TypeOK
        <4> QED  BY <4>1 DEF ConsentUsed
      <3>3. gate[a] \in {"always", "session", "once"}
        BY <2>1 DEF UseGrant, Covering
      <3> QED  BY <2>1, <3>1, <3>2, <3>3 DEF UseGrant, ActedOn, ConsentUsed, TypeOK
    <2>2. ASSUME NEW a \in Approval, NEW r \in BOOLEAN, NEW k \in BOOLEAN, HandToPerson(c, a, r, k)
          PROVE  ConsentUsed'
      <3>1. spent[a] = 0
        <4>1. gate[a] = "awaiting" \/ about[a] = None
          BY <2>2 DEF HandToPerson, Awaiting, Unused
        <4> QED  BY <4>1 DEF ConsentUsed, TypeOK
      <3>2. UNCHANGED spent /\ \A b \in Approval \ {a} : /\ about'[b] = about[b]
                                                          /\ row'[b] = row[b] /\ gate'[b] = gate[b]
        BY <2>2 DEF HandToPerson, TypeOK
      <3> QED  BY <3>1, <3>2 DEF ConsentUsed
    <2>3. CASE UNCHANGED <<consent, spent>>
      BY <2>3 DEF ConsentUsed
    <2> QED  BY <1>1, <2>1, <2>2, <2>3 DEF CallStep, Start, Pass, Return
  <1>2. ASSUME NEW a \in Approval, PersonStep(a) PROVE ConsentUsed'
    <2>1. ASSUME NEW to \in {"gone", "once", "session", "always"},
                 NEW how \in {"allowed", "refused"}, NEW w \in BOOLEAN, NEW ok \in BOOLEAN,
                 Decide(a, to, how, w, ok)
          PROVE  /\ UNCHANGED <<about, spent>> /\ spent[a] = 0
                 /\ \A b \in Approval \ {a} : row'[b] = row[b]
      <3>1. spent[a] \in Nat /\ row \in [Approval -> Rows]
        BY DEF TypeOK
      <3>2. UNCHANGED <<about, spent>> /\ gate[a] = "awaiting"
        BY <2>1 DEF Decide, Awaiting
      <3>3. \A b \in Approval \ {a} : row'[b] = row[b]
        BY <2>1, <3>1 DEF Decide
      <3> QED  BY <3>1, <3>2, <3>3 DEF ConsentUsed
    <2>2. ASSUME NEW s \in {"once", "session", "always"}, NEW w \in BOOLEAN, NEW ok \in BOOLEAN,
                 Grant(a, s, w, ok)
          PROVE  ConsentUsed'
      BY <2>1, <2>2 DEF Grant, ConsentUsed
    <2>3. ASSUME NEW w \in BOOLEAN, NEW ok \in BOOLEAN, Deny(a, w, ok) PROVE ConsentUsed'
      BY <2>1, <2>3 DEF Deny, ConsentUsed, TypeOK
    <2>4. ASSUME NEW w \in BOOLEAN, RevokeStanding(a, w) PROVE ConsentUsed'
      BY <2>4 DEF RevokeStanding, ConsentUsed, TypeOK
    <2> QED  BY <1>2, <2>2, <2>3, <2>4 DEF PersonStep
  <1>3. ASSUME NEW t \in Turn, TurnStep(t) PROVE ConsentUsed'
    <2>1. UNCHANGED <<consent, spent>>
      BY <1>3 DEF TurnStep, BeginFresh, Ask, RecordResults, ReplayEnd, Conclude, Overtake,
                  ReplayStart, BeginContinued, Sweep
    <2> QED  BY <2>1 DEF ConsentUsed
  <1>4. CASE Crash
    BY <1>4 DEF Crash, ConsentUsed
  <1>5. CASE Restart
    <2>1. \A a \in Approval : row[a] \in {"always", "answered"} =>
                                Replayed(a) \in {"none", "gone", "always"}
      BY DEF Replayed
    <2> QED  BY <1>5, <2>1 DEF Restart, ConsentUsed
  <1>6. CASE Serve
    BY <1>6 DEF Serve, ConsentUsed
  <1>7. CASE UNCHANGED vars
    BY <1>7 DEF vars, ConsentUsed
  <1> QED  BY <1>1, <1>2, <1>3, <1>4, <1>5, <1>6, <1>7 DEF Next

----------------------------------------------------------------------------
(* The theorems.                                                           *)

\* Every step keeps the types and what is known of the calls.
LEMMA CallsStep ==
  ASSUME TypeOK, CallsInv, [Next]_vars
  PROVE  TypeOK' /\ CallsInv'
  <1>1. ASSUME NEW t \in Turn, TurnStep(t) PROVE TypeOK' /\ CallsInv'
    BY <1>1, TurnType, TurnCalls DEF CallsInv
  <1>2. ASSUME NEW c \in Call, CallStep(c) PROVE TypeOK' /\ CallsInv'
    BY <1>2, CallType, CallCalls
  <1>3. ASSUME NEW a \in Approval, PersonStep(a) PROVE TypeOK' /\ CallsInv'
    BY <1>3, PersonType, PersonCalls
  <1>4. CASE Crash \/ Restart \/ Serve
    BY <1>4, ProcessType, ProcessCalls
  <1>5. CASE UNCHANGED vars
    BY <1>5
    DEF vars, ledgers, record, consent, memory, history, process, TypeOK,
        CallsInv, CallsInBatch, TurnsBegun, RunOnce, RunIsOpen, ClaimsHold, Calls
  <1> QED  BY <1>1, <1>2, <1>3, <1>4, <1>5 DEF Next

\* The invariant of turns, calls and approvals holds however often the host dies
\* and whichever appends fail.
THEOREM StepsInvariant == Spec => []StepsInv
  <1>1. Init => StepsInv
    BY TypeInit, CallsInit, ConsentInit DEF StepsInv, CallsInv
  <1>2. StepsInv /\ [Next]_vars => StepsInv'
    BY CallsStep, ConsentStep DEF StepsInv, CallsInv
  <1> QED  BY <1>1, <1>2, PTL DEF Spec

\* The ledgers, the transcript, the approvals and the memory keep their shapes.
THEOREM StepsTypeCorrect == Spec => []TypeOK
  BY StepsInvariant, PTL DEF StepsInv

\* A call that must not be repeated takes effect at most once, however often its
\* turn is continued.  (The replay in runTurn.)
THEOREM CallsRunOnce == Spec => []NeverTwice
  <1>1. StepsInv => NeverTwice
    BY DEF StepsInv, RunOnce, NeverTwice
  <1> QED  BY <1>1, StepsInvariant, PTL

\* The model is told that such a call did not run only when it did not.
\* (notStartedResult, approvalOutcomeResult.)
THEOREM AnswersAreHonest == Spec => []HonestAnswer
  <1>1. StepsInv => HonestAnswer
    BY DEF StepsInv, ClaimsHold, HonestAnswer
  <1> QED  BY <1>1, StepsInvariant, PTL

\* An approval for one run covers one run, also when its log cannot be written.
\* (PolicyGate.check, approval-used.)
THEOREM ConsentIsForOneRun == Spec => []ConsentOnce
  <1>1. StepsInv => ConsentOnce
    BY DEF StepsInv, ConsentUsed, ConsentOnce
  <1> QED  BY <1>1, StepsInvariant, PTL

----------------------------------------------------------------------------
(* A turn that is open is held.  Two turns that wait for the same action   *)
(* share its approval, and only one of them can be parked on it: so this   *)
(* is of calls whose turns ask a person for different actions.             *)

ApartActions == \A c, d \in Gated : ActionOf[c] = ActionOf[d] => Owner[c] = Owner[d]

\* A step waits for an approval of its own action,
WaitsOwn == \A c \in Call : waits[c] # None => about[waits[c]] = ActionOf[c] /\ c \in Gated

\* a turn is parked on an approval of one of its actions,
ParkedOwn ==
    \A a \in Approval :
        parked[a] # None => \E c \in Gated : Owner[c] = parked[a] /\ about[a] = ActionOf[c]

\* and what the startup has not come to yet is held by that.
Held(t) == phase[t] # "idle" \/ kept[t].turn \/ \E a \in Awaiting : parked[a] = t
SweptOrHeld ==
    lost = 0 /\ life # "down" =>
        \A t \in Turn : log[t].how = "open" => Held(t) \/ (life = "starting" /\ t \in sweep)

\* An approval that is about an action stays about it.
LEMMA AboutStays ==
  ASSUME TypeOK, NEW b \in Approval, about[b] # None, [Next]_vars
  PROVE  about'[b] = about[b]
  <1> USE DEF ledgers, record, consent, memory, history, process
  <1>1. ASSUME NEW c \in Call, CallStep(c) PROVE about'[b] = about[b]
    <2>1. ASSUME NEW a \in Approval, NEW r \in BOOLEAN, NEW k \in BOOLEAN, HandToPerson(c, a, r, k)
          PROVE  about'[b] = about[b]
      BY <2>1 DEF HandToPerson, Unused, Awaiting, TypeOK
    <2> QED  BY <1>1, <2>1 DEF CallStep, Start, Pass, UseGrant, Return
  <1>2. ASSUME NEW a \in Approval, PersonStep(a) PROVE about'[b] = about[b]
    BY <1>2 DEF PersonStep, Grant, Deny, Decide, RevokeStanding
  <1>3. ASSUME NEW t \in Turn, TurnStep(t) PROVE about'[b] = about[b]
    BY <1>3 DEF TurnStep, BeginFresh, Ask, RecordResults, ReplayEnd, Conclude, Overtake,
                ReplayStart, BeginContinued, Sweep
  <1>4. CASE Crash \/ Restart \/ Serve \/ UNCHANGED vars
    BY <1>4 DEF Crash, Restart, Serve, vars
  <1> QED  BY <1>1, <1>2, <1>3, <1>4 DEF Next

\* What a step waits for was asked about the step's own action.
LEMMA WaitsStep ==
  ASSUME TypeOK, WaitsOwn, [Next]_vars
  PROVE  WaitsOwn'
  <1> USE DEF ledgers, record, consent, memory, history, process
  <1>0. \A c \in Call : ActionOf[c] # None
    BY StepConstants DEF StepConstants
  <1>1. ASSUME NEW d \in Call, waits'[d] = waits[d]
        PROVE  waits'[d] # None => about'[waits'[d]] = ActionOf[d] /\ d \in Gated
    <2>1. waits[d] # None => waits[d] \in Approval /\ about[waits[d]] # None
      BY <1>0 DEF TypeOK, WaitsOwn
    <2> QED  BY <1>1, <2>1, AboutStays DEF WaitsOwn
  <1>2. ASSUME NEW c \in Call, CallStep(c) PROVE WaitsOwn'
    <2>1. ASSUME NEW a \in Approval, NEW r \in BOOLEAN, NEW k \in BOOLEAN, HandToPerson(c, a, r, k)
          PROVE  WaitsOwn'
      <3>1. c \in Gated /\ about'[a] = ActionOf[c] /\ \A d \in Call : waits'[d] = waits[d] \/ (d = c /\ waits'[d] = a)
        BY <2>1 DEF HandToPerson, TypeOK
      <3> QED  BY <1>1, <3>1 DEF WaitsOwn
    <2>2. CASE waits' = waits
      BY <1>1, <2>2 DEF WaitsOwn
    <2> QED  BY <1>2, <2>1, <2>2 DEF CallStep, Start, Pass, UseGrant, Return
  <1>3. ASSUME NEW a \in Approval, PersonStep(a) PROVE waits' = waits
    BY <1>3 DEF PersonStep, Grant, Deny, Decide, RevokeStanding
  <1>4. ASSUME NEW t \in Turn, TurnStep(t) PROVE waits' = waits
    BY <1>4 DEF TurnStep, BeginFresh, Ask, RecordResults, ReplayEnd, Conclude, Overtake,
                ReplayStart, BeginContinued, Sweep
  <1>5. CASE Crash \/ Restart \/ Serve \/ UNCHANGED vars
    BY <1>1, <1>5 DEF Crash, Restart, Serve, vars, WaitsOwn
  <1> QED  BY <1>1, <1>2, <1>3, <1>4, <1>5 DEF Next, WaitsOwn

\* A turn is parked on an approval of its own.
LEMMA ParkedStep ==
  ASSUME TypeOK, WaitsOwn, ParkedOwn, [Next]_vars
  PROVE  ParkedOwn'
  <1> USE DEF ledgers, record, consent, memory, history, process
  <1>0. \A c \in Call : ActionOf[c] # None
    BY StepConstants DEF StepConstants
  <1>1. ASSUME NEW a \in Approval, parked'[a] = parked[a] \/ parked'[a] = None
        PROVE  parked'[a] # None => \E c \in Gated : Owner[c] = parked'[a] /\ about'[a] = ActionOf[c]
    <2>1. SUFFICES ASSUME parked'[a] = parked[a], parked[a] # None
                   PROVE  \E c \in Gated : Owner[c] = parked[a] /\ about'[a] = ActionOf[c]
      BY <1>1
    <2>2. PICK c \in Gated : Owner[c] = parked[a] /\ about[a] = ActionOf[c]
      BY <2>1 DEF ParkedOwn
    <2>3. about[a] # None
      BY <1>0, <2>2, StepConstants DEF StepConstants
    <2> QED  BY <2>2, <2>3, AboutStays
  <1>2. ASSUME NEW c \in Call, CallStep(c) PROVE parked' = parked
    BY <1>2 DEF CallStep, Start, Pass, UseGrant, HandToPerson, Return
  <1>3. ASSUME NEW b \in Approval, PersonStep(b)
        PROVE  \A a \in Approval : parked'[a] = parked[a] \/ parked'[a] = None
    BY <1>3 DEF PersonStep, Grant, Deny, Decide, RevokeStanding, Settled, TypeOK
  <1>4. ASSUME NEW t \in Turn, NEW ok \in BOOLEAN, Sweep(t, ok) PROVE ParkedOwn'
    <2>1. about' = about /\ (parked' = parked \/ \E c \in OpenSteps(t) : waits[c] \in Awaiting /\ parked' = [parked EXCEPT ![waits[c]] = t])
      BY <1>4 DEF Sweep
    <2>2. ASSUME NEW c \in OpenSteps(t), waits[c] \in Awaiting, parked' = [parked EXCEPT ![waits[c]] = t]
          PROVE  ParkedOwn'
      <3>1. c \in Call /\ Owner[c] = t /\ waits[c] # None /\ waits[c] \in Approval
        BY <2>2, StepConstants DEF OpenSteps, Calls, Awaiting, StepConstants
      <3>2. c \in Gated /\ about[waits[c]] = ActionOf[c]
        BY <3>1 DEF WaitsOwn
      <3>3. \A a \in Approval : parked'[a] = IF a = waits[c] THEN t ELSE parked[a]
        BY <2>2 DEF TypeOK
      <3> QED  BY <2>1, <3>1, <3>2, <3>3 DEF ParkedOwn
    <2>3. CASE parked' = parked
      BY <1>1, <2>3 DEF ParkedOwn
    <2> QED  BY <2>1, <2>2, <2>3
  <1>5. ASSUME NEW t \in Turn, TurnStep(t) PROVE ParkedOwn'
    <2>1. CASE parked' = parked
      BY <1>1, <2>1 DEF ParkedOwn
    <2> QED
      BY <1>4, <1>5, <2>1 DEF TurnStep, BeginFresh, Ask, RecordResults, ReplayEnd, Conclude,
         Overtake,
                ReplayStart, BeginContinued
  <1>6. CASE Crash \/ Restart \/ Serve \/ UNCHANGED vars
    <2>1. \A a \in Approval : parked'[a] = parked[a] \/ parked'[a] = None
      BY <1>6 DEF Crash, Restart, Serve, vars
    <2> QED  BY <1>1, <2>1 DEF ParkedOwn
  <1> QED  BY <1>1, <1>2, <1>3, <1>5, <1>6 DEF Next, ParkedOwn

\* Appends are lost for good.
LEMMA LostBefore ==
  ASSUME TypeOK, [Next]_vars, lost' = 0
  PROVE  lost = 0
  <1> USE DEF ledgers, record, consent, memory, history, process
  <1>0. lost \in Nat /\ \A n \in Nat : LoseAppends(n) => lost = 0 /\ n = 0
    BY DEF TypeOK, LoseAppends
  <1>1. ASSUME NEW c \in Call, CallStep(c) PROVE lost = 0
    BY <1>0, <1>1 DEF CallStep, Start, Pass, UseGrant, HandToPerson, Return, Lossy
  <1>2. ASSUME NEW a \in Approval, PersonStep(a) PROVE lost = 0
    BY <1>0, <1>2 DEF PersonStep, Grant, Deny, Decide, RevokeStanding, Lossy
  <1>3. ASSUME NEW t \in Turn, TurnStep(t) PROVE lost = 0
    <2>1. ASSUME NEW miss \in SUBSET Calls(t), RecordResults(t, miss) \/ ReplayEnd(t, miss)
          PROVE lost = 0
      BY <1>0, <2>1, CountCalls DEF RecordResults, ReplayEnd, Calls
    <2>2. ASSUME NEW e \in BOOLEAN, NEW x \in BOOLEAN, Conclude(t, e, x) PROVE lost = 0
      BY <1>0, <2>2 DEF Conclude
    <2>3. ASSUME NEW ok \in BOOLEAN, Sweep(t, ok) PROVE lost = 0
      BY <1>0, <2>3 DEF Sweep, Lossy
    <2> QED
      BY <1>0, <1>3, <2>1, <2>2, <2>3 DEF TurnStep, BeginFresh, Ask, Overtake, ReplayStart,
         BeginContinued
  <1>4. CASE Crash \/ Restart \/ Serve \/ UNCHANGED vars
    BY <1>4 DEF Crash, Restart, Serve, vars
  <1> QED  BY <1>1, <1>2, <1>3, <1>4 DEF Next

\* Another turn's records do not change.
LEMMA HeldSame ==
  ASSUME NEW u \in Turn, Held(u), phase'[u] = phase[u], kept'[u].turn = kept[u].turn,
         \A a \in Awaiting : parked[a] = u => a \in Awaiting' /\ parked'[a] = u
  PROVE  Held(u)'
  BY DEF Held

\* A person's answer hands over the turn that was parked on it.
LEMMA PersonHeld ==
  ASSUME TypeOK, NEW a \in Approval, PersonStep(a), lost = 0, lost' = 0, NEW u \in Turn,
         log'[u].how = "open", log[u].how = "open" => Held(u)
  PROVE  Held(u)'
  <1> USE DEF ledgers, record, consent, memory, history, process
  <1>l. log \in [Turn -> LogRecord] /\ kept \in [Turn -> Continuation] /\ parked \in [Approval -> Turn \cup {None}]
    BY DEF TypeOK, LogRecord, Continuation
  <1>e. ASSUME NEW v \in Turn PROVE Ended(v, "continued", TRUE, FALSE)[v].how = "continued"
    BY <1>l, LogType DEF Endings
  <1>1. CASE \E w \in BOOLEAN : RevokeStanding(a, w)
    <2>1. log[u].how = "open" /\ phase' = phase /\ kept' = kept /\ parked' = parked
      BY <1>1 DEF RevokeStanding
    <2>2. \A b \in Awaiting : b \in Awaiting'
      BY <1>1 DEF RevokeStanding, Awaiting, TypeOK
    <2> QED  BY <2>1, <2>2, HeldSame
  <1>2. ASSUME NEW to \in {"gone", "once", "session", "always"},
               NEW how \in {"allowed", "refused"}, NEW w \in BOOLEAN, NEW ok \in BOOLEAN,
               Decide(a, to, how, w, ok), \A b \in Awaiting : b # a => b \in Awaiting'
        PROVE  Held(u)'
    <2>1. Settled(a, how, ok) /\ phase' = phase /\ a \in Awaiting /\ ok
      BY <1>2 DEF Decide, LoseAppends
    <2>2. CASE parked[a] = None
      <3>1. log' = log /\ kept' = kept /\ parked' = parked
        BY <2>1, <2>2 DEF Settled
      <3>2. \A b \in Awaiting : parked[b] = u => b # a
        BY <2>2, StepConstants DEF StepConstants
      <3> QED  BY <1>2, <2>1, <3>1, <3>2, HeldSame
    <2>3. CASE parked[a] # None
      <3>1. parked[a] \in Turn /\ Continue(parked[a], a, how, ok) /\ parked' = [parked EXCEPT ![a] = None]
        BY <1>l, <2>1, <2>3 DEF Settled
      <3>2. log'[parked[a]].how = "continued"
        <4>1. log' = Ended(parked[a], "continued", TRUE, FALSE)
          BY <2>1, <3>1 DEF Continue
        <4> QED  BY <1>e, <3>1, <4>1
      <3>3. u # parked[a]
        BY <3>2
      <3>4. log'[u] = log[u] /\ kept'[u] = kept[u]
        BY <1>l, <3>1, <3>3 DEF Continue, Ended
      <3>5. \A b \in Awaiting : parked[b] = u => b \in Awaiting' /\ parked'[b] = u
        BY <1>l, <1>2, <3>1, <3>3 DEF Awaiting
      <3> QED  BY <2>1, <3>4, <3>5, HeldSame
    <2> QED  BY <2>2, <2>3
  <1>3. ASSUME NEW s \in {"once", "session", "always"}, NEW w \in BOOLEAN, NEW ok \in BOOLEAN,
               Grant(a, s, w, ok)
        PROVE  Held(u)'
    <2>1. Decide(a, s, "allowed", w, ok) /\ \A b \in Awaiting : b # a => b \in Awaiting'
      BY <1>3 DEF Grant, Awaiting
    <2> QED  BY <1>2, <2>1
  <1>4. ASSUME NEW w \in BOOLEAN, NEW ok \in BOOLEAN, Deny(a, w, ok) PROVE Held(u)'
    <2>1. Decide(a, "gone", "refused", w, ok) /\ \A b \in Awaiting : b # a => b \in Awaiting'
      BY <1>4 DEF Deny, Awaiting, TypeOK
    <2> QED  BY <1>2, <2>1
  <1> QED  BY <1>1, <1>3, <1>4 DEF PersonStep

\* What the startup comes to is ended, continued or parked, and parks no other turn's
\* approval away.
LEMMA SweepHeld ==
  ASSUME ApartActions, TypeOK, WaitsOwn, ParkedOwn, NEW t \in Turn, NEW ok \in BOOLEAN, Sweep(t, ok),
         lost = 0, lost' = 0, NEW u \in Turn, log'[u].how = "open",
         log[u].how = "open" => Held(u) \/ u \in sweep
  PROVE  Held(u)' \/ u \in sweep'
  <1>l. /\ log \in [Turn -> LogRecord] /\ kept \in [Turn -> Continuation]
        /\ parked \in [Approval -> Turn \cup {None}]
    BY DEF TypeOK, LogRecord, Continuation
  <1>e. ASSUME NEW h \in {"given-up", "continued", "resumed"}, NEW x \in BOOLEAN
        PROVE  Ended(t, h, TRUE, x)[t].how = h
    <2>1. log \in [Turn -> LogRecord] /\ log[t] \in LogRecord
      BY <1>l
    <2> QED  BY <2>1 DEF Ended, LogRecord
  <1> USE DEF ledgers, record, consent, memory, history, process
  <1>1. ok /\ t \in sweep /\ sweep' = sweep \ {t} /\ phase' = phase /\ gate' = gate
    BY DEF Sweep, Lossy, LoseAppends
  <1>2. CASE u # t
    <2>1. log'[u] = log[u] /\ kept'[u] = kept[u]
      BY <1>l, <1>2 DEF Sweep, Ended, Continue
    <2>2. CASE u \in sweep
      BY <1>1, <1>2, <2>2
    <2>3. CASE u \notin sweep
      <3>1. \A b \in Awaiting : parked[b] = u => parked'[b] = u
        <4>1. CASE parked' = parked
          BY <4>1
        <4>2. ASSUME NEW c \in OpenSteps(t), waits[c] \in Awaiting, parked' = [parked EXCEPT ![waits[c]] = t]
              PROVE  parked[waits[c]] # u
          <5>1. c \in Call /\ Owner[c] = t /\ waits[c] # None /\ waits[c] \in Approval
            BY <4>2, StepConstants DEF OpenSteps, Calls, Awaiting, StepConstants
          <5>2. c \in Gated /\ about[waits[c]] = ActionOf[c]
            BY <5>1 DEF WaitsOwn
          <5>3. ASSUME parked[waits[c]] = u PROVE FALSE
            <6>1. u # None
              BY StepConstants DEF StepConstants
            <6>2. PICK d \in Gated : Owner[d] = u /\ about[waits[c]] = ActionOf[d]
              BY <5>1, <5>3, <6>1 DEF ParkedOwn
            <6> QED  BY <1>2, <5>1, <5>2, <6>2 DEF ApartActions
          <5> QED  BY <5>3
        <4>3. parked' = parked \/ \E c \in OpenSteps(t) : waits[c] \in Awaiting /\ parked' = [parked EXCEPT ![waits[c]] = t]
          BY DEF Sweep
        <4> QED  BY <1>l, <4>1, <4>2, <4>3 DEF Awaiting
      <3>2. \A b \in Awaiting : b \in Awaiting'
        BY <1>1 DEF Awaiting
      <3> QED  BY <1>1, <2>1, <2>3, <3>1, <3>2, HeldSame
    <2> QED  BY <2>2, <2>3
  <1>3. CASE u = t
    <2>1. CASE kept[t].turn /\ kept' = kept
      BY <1>3, <2>1 DEF Held
    <2>2. CASE log' = Ended(t, "given-up", ok, TRUE) \/ log' = Ended(t, "resumed", TRUE, FALSE)
      BY <1>1, <1>3, <1>e, <2>2
    <2>3. CASE \E c \in OpenSteps(t) : waits[c] \in Awaiting /\ parked' = [parked EXCEPT ![waits[c]] = t]
      <3>1. PICK a \in Awaiting : parked' = [parked EXCEPT ![a] = t]
        BY <2>3
      <3>2. a \in Awaiting' /\ parked'[a] = t
        BY <1>l, <1>1, <3>1 DEF Awaiting
      <3> QED  BY <1>3, <3>2 DEF Held
    <2>4. CASE Continue(t, None, "gone", ok)
      BY <1>3, <1>l, <2>4 DEF Continue, Held
    <2> QED  BY <2>1, <2>2, <2>3, <2>4 DEF Sweep
  <1> QED  BY <1>2, <1>3

\* Every other step of a turn leaves it running, or ends it.
LEMMA TurnHeld ==
  ASSUME TypeOK, NEW t \in Turn, TurnStep(t), life = "up", lost = 0, lost' = 0, NEW u \in Turn,
         log'[u].how = "open", log[u].how = "open" => Held(u)
  PROVE  Held(u)'
  <1> USE DEF ledgers, record, consent, memory, history, process
  <1>l. log \in [Turn -> LogRecord] /\ kept \in [Turn -> Continuation] /\ phase \in [Turn -> Phases]
    BY DEF TypeOK, LogRecord, Continuation
  <1>1. gate' = gate /\ parked' = parked
    BY DEF TurnStep, BeginFresh, Ask, RecordResults, ReplayEnd, Conclude, Overtake,
           ReplayStart, BeginContinued, Sweep
  <1>2. \A b \in Awaiting : parked[b] = u => b \in Awaiting' /\ parked'[b] = u
    BY <1>1 DEF Awaiting
  <1>3. CASE u # t
    <2>1. log'[u] = log[u] /\ kept'[u] = kept[u] /\ phase'[u] = phase[u]
      BY <1>l, <1>3 DEF TurnStep, BeginFresh, Ask, RecordResults, ReplayEnd, Conclude, Overtake,
           ReplayStart, BeginContinued, Sweep, Begun, Ended
    <2> QED  BY <1>2, <2>1, HeldSame
  <1>4. CASE u = t
    <2>1. ASSUME NEW e \in BOOLEAN, NEW x \in BOOLEAN, Conclude(t, e, x) PROVE FALSE
      <3>1. log' = Ended(t, "done", e, x)
        BY <2>1 DEF Conclude
      <3>2. e
        BY <2>1 DEF Conclude, LoseAppends
      <3>3. Ended(t, "done", e, x)[t].how = IF e THEN "done" ELSE log[t].how
        BY <1>l, LogType DEF Endings
      <3> QED  BY <1>4, <3>1, <3>2, <3>3
    <2>2. CASE Overtake(t)
      BY <1>2, <2>2, HeldSame DEF Overtake
    <2>3. CASE phase'[t] # "idle"
      BY <1>4, <2>3 DEF Held
    <2> QED
      BY <1>l, <2>1, <2>2, <2>3
      DEF TurnStep, BeginFresh, Ask, RecordResults, ReplayEnd, ReplayStart, BeginContinued, Sweep
  <1> QED  BY <1>3, <1>4

\* No step leaves an open turn to nobody.
LEMMA HeldStep ==
  ASSUME ApartActions, TypeOK, WaitsOwn, ParkedOwn, SweptOrHeld, [Next]_vars
  PROVE  SweptOrHeld'
  <1> USE DEF ledgers, record, consent, memory, history, process
  <1> SUFFICES ASSUME lost' = 0, life' # "down", NEW u \in Turn, log'[u].how = "open"
               PROVE  Held(u)' \/ (life' = "starting" /\ u \in sweep')
    BY DEF SweptOrHeld
  <1>0. lost = 0
    BY LostBefore
  <1>1. ASSUME NEW c \in Call, CallStep(c) PROVE Held(u)'
    <2>1. life = "up" /\ log' = log /\ phase' = phase /\ kept' = kept /\ parked' = parked
      BY <1>1 DEF CallStep, Start, Pass, UseGrant, HandToPerson, Return, Checking
    <2>2. \A b \in Awaiting : b \in Awaiting'
      BY <1>1 DEF CallStep, Start, Pass, UseGrant, HandToPerson, Return, Covering, Awaiting, TypeOK
    <2> QED  BY <1>0, <2>1, <2>2, HeldSame DEF SweptOrHeld
  <1>2. ASSUME NEW a \in Approval, PersonStep(a) PROVE Held(u)'
    <2>1. life = "up"
      BY <1>2 DEF PersonStep, Grant, Deny, Decide, RevokeStanding
    <2> QED  BY <1>0, <1>2, <2>1, PersonHeld DEF SweptOrHeld
  <1>3. ASSUME NEW t \in Turn, NEW ok \in BOOLEAN, Sweep(t, ok)
        PROVE  Held(u)' \/ (life' = "starting" /\ u \in sweep')
    <2>1. life = "starting" /\ life' = "starting"
      BY <1>3 DEF Sweep
    <2> QED  BY <1>0, <1>3, <2>1, SweepHeld DEF SweptOrHeld
  <1>4. ASSUME NEW t \in Turn, TurnStep(t), ~\E ok \in BOOLEAN : Sweep(t, ok) PROVE Held(u)'
    <2>1. life = "up"
      BY <1>4 DEF TurnStep, BeginFresh, Ask, RecordResults, ReplayEnd, Conclude, Overtake,
           ReplayStart, BeginContinued
    <2> QED  BY <1>0, <1>4, <2>1, TurnHeld DEF SweptOrHeld
  <1>5. CASE Crash
    BY <1>5 DEF Crash
  <1>6. CASE Restart
    BY <1>6 DEF Restart
  <1>7. CASE Serve \/ UNCHANGED vars
    <2>1. /\ log' = log /\ phase' = phase /\ kept' = kept /\ parked' = parked /\ gate' = gate /\ sweep' = sweep
          /\ life # "down" /\ (life' = life \/ sweep = {})
      BY <1>7 DEF Serve, vars
    <2>2. Held(u) \/ (life = "starting" /\ u \in sweep)
      BY <1>0, <2>1 DEF SweptOrHeld
    <2> QED  BY <2>1, <2>2, HeldSame DEF Awaiting
  <1> QED  BY <1>1, <1>2, <1>3, <1>4, <1>5, <1>6, <1>7 DEF Next

\* While the host is up and every append has succeeded, an open turn is running, has its
\* continuation in the inbox or waits for an answer a person can still give, whatever the
\* number of turns, if no two of them ask for the same action.  (resumeInterrupted,
\* onApprovalSettled; steps_shared shows what happens when two do.)
THEOREM OpenTurnsAreHeld == ASSUME ApartActions PROVE Spec => []OpenTurnIsHeld
  <1>1. Init => WaitsOwn /\ ParkedOwn /\ SweptOrHeld
    BY DEF Init, WaitsOwn, ParkedOwn, SweptOrHeld
  <1>2. ASSUME StepsInv, WaitsOwn /\ ParkedOwn /\ SweptOrHeld, [Next]_vars
        PROVE  WaitsOwn' /\ ParkedOwn' /\ SweptOrHeld'
    BY <1>2, WaitsStep, ParkedStep, HeldStep DEF StepsInv
  <1>3. SweptOrHeld => OpenTurnIsHeld
    BY DEF SweptOrHeld, Held, OpenTurnIsHeld
  <1> QED  BY <1>1, <1>2, <1>3, StepsInvariant, PTL DEF Spec
=============================================================================
