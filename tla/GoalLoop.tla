------------------------------ MODULE GoalLoop ------------------------------
(***************************************************************************)
(* Goal mode (host/goal-loop.ts, host/goal-gate.ts and their wiring in     *)
(* host/orchestrator.ts): the goals of one conversation of one agent.      *)
(* While a goal is active and its conversation quiet, a timer sends it a   *)
(* continuation, a message to itself; a turn may claim that the goal is    *)
(* done, and a verifier, in a conversation of its own, judges the claim.   *)
(*                                                                         *)
(* The board and the inbox survive a restart, the rest is the memory of    *)
(* the process.  A queued message may wait for any time: the agent may be  *)
(* paused, or a failed turn may have stopped its loop (AgentBus).          *)
(***************************************************************************)
EXTENDS Naturals, FiniteSets

CONSTANTS
  Goal,         \* the goals a person sets in this conversation, one at a time
  Said,         \* messages of people
  Note,         \* messages of teammates and of the host
  Resumption,   \* the host's message with which an interrupted turn goes on
  Limit,        \* limits.continuations
  AntiSpin,     \* ANTI_SPIN_LIMIT
  Retries,      \* MAX_CONTINUATION_RETRIES
  Rejections,   \* MAX_VERIFY_REJECTIONS
  Attempts,     \* MAX_VERIFY_ATTEMPTS
  MaxWakes,     \* bound: continuations sent for one goal
  MaxEvents     \* bound: messages that arrive, orders and answers of people,
                \* claims, failed setups and restarts, together

ASSUME GoalAssumption ==
  /\ {Limit, AntiSpin, Retries, Rejections, Attempts, MaxWakes} \subseteq Nat \ {0}
  /\ MaxEvents \in Nat

VARIABLES
  board,     \* the pursuit of each goal: status, continuations, idle ones in a row,
             \* failed ones in a row, rejections, claim being verified and attempt
  queue,     \* the conversation's queue in the bus
  kept,      \* what only the inbox file still has: its turn's setup failed
  armed,     \* GoalLoop.pending: the timer of each goal
  running,   \* GoalLoop.running: goals whose continuation is taken to run
  people,    \* GoalLoop.personSeq: turns opened by people
  turn,      \* the turn in flight in this conversation
  claiming,  \* a claim whose host checks are awaited
  closing,   \* turnEnded calls that wait for the state hash and the judge
  checks,    \* verifiers' wakes in the inbox
  checking,  \* verifiers' turns in flight
  judging,   \* verifierEnded calls that wait for the manifest
  words,     \* the last words in the conversation of the verifier of a goal's claim
  held,      \* an approval or a question is open, or a turn is parked
  stale,     \* history: queued wakes of this process that a person's turn overtook
  passed,    \* history: goals of which a verifier has passed a claim
  left,      \* history: goals that goal mode itself let go of
  arrived,   \* history: messages that have arrived
  crashes,   \* restarts
  events     \* what has happened, against MaxEvents

conv == <<queue, kept, people, turn, held, stale, arrived>>
loop == <<armed, running, closing, left>>
gate == <<claiming, checks, checking, judging, words, passed>>
count == <<crashes, events>>
vars == <<board, conv, loop, gate, count>>

Status == {"absent", "active", "verifying", "paused", "complete", "cleared"}

\* What a verifier's last words amount to.
Verdict == {"none", "fail", "pass"}

\* A continuation as it is queued; which process sent it (born) is history.
Wake == [goal : Goal, nth : 1 .. MaxWakes, person : Nat, last : BOOLEAN, born : 0 .. MaxEvents]
Other == Said \cup Note \cup {Resumption}
Message == Other \cup Wake

ASSUME MessagesDiffer == Other \cap Wake = {}

NoTimer == [set |-> FALSE, person |-> 0, last |-> FALSE]
Timer(person, last) == [set |-> TRUE, person |-> person, last |-> last]

NoTurn == [batch |-> {}, stage |-> "none"]

\* The continuation a turn was opened with: none, or one.
WakesIn(t) == t.batch \cap Wake

\* What a verifier is woken for, and its turn.
Check == [goal : Goal, claim : Nat, att : 1 .. Attempts]
CheckTurn == [goal : Goal, claim : Nat, att : 1 .. Attempts,
              stage : {"setup", "running"}, said : Verdict]

\* What the board keeps of a goal, and what the loop does.
Pursuit == [st : Status, cont : 0 .. MaxWakes, idle : Nat, errors : 0 .. Retries + 1,
            rejs : Nat, claim : Nat, att : 0 .. Attempts]
Pending == [set : BOOLEAN, person : Nat, last : BOOLEAN]

\* The shape of the board's pursuits, the queue and the memory of loop and gate; a
\* turn has at most one continuation, no goal counts past the bounds of its retries,
\* and no verifier is woken past MAX_VERIFY_ATTEMPTS.
TypeOK ==
  /\ board \in [Goal -> Pursuit]
  /\ queue \subseteq Message /\ kept \subseteq Message \cup Check
  /\ armed \in [Goal -> Pending]
  /\ running \subseteq Goal /\ people \in Nat
  /\ turn.batch \subseteq Message
  /\ turn = [batch |-> turn.batch, stage |-> turn.stage]
  /\ turn.stage \in {"none", "setup", "running", "over"}
  /\ Cardinality(WakesIn(turn)) <= 1
  /\ claiming \subseteq [goal : Goal, claim : Nat]
  /\ closing \subseteq [goal : Goal, nth : Nat, idle : Nat]
  /\ checks \subseteq Check /\ checking \subseteq CheckTurn
  /\ judging \subseteq [goal : Goal, verdict : Verdict]
  /\ words \in [Goal -> Verdict]
  /\ held \in BOOLEAN /\ stale \subseteq Wake /\ arrived \subseteq Said \cup Note
  /\ left \subseteq Goal /\ passed \subseteq Goal
  /\ events \in 0 .. MaxEvents /\ crashes \in 0 .. events

Init ==
  /\ board = [g \in Goal |-> [st |-> "absent", cont |-> 0, idle |-> 0, errors |-> 0,
                              rejs |-> 0, claim |-> 0, att |-> 0]]
  /\ queue = {} /\ kept = {}
  /\ armed = [g \in Goal |-> NoTimer]
  /\ running = {} /\ people = 0
  /\ turn = NoTurn
  /\ claiming = {} /\ closing = {} /\ checks = {} /\ checking = {} /\ judging = {}
  /\ words = [g \in Goal |-> "none"]
  /\ held = FALSE
  /\ stale = {} /\ passed = {} /\ left = {}
  /\ arrived = {}
  /\ crashes = 0 /\ events = 0

-----------------------------------------------------------------------------
\* What the loop looks at

\* Nothing in the conversation: no turn, no queued message, nothing that waits
\* for a person.
Quiet(t, q, h) == t = NoTurn /\ q = {} /\ ~h

\* The timers after these goals have been considered.
Considered(goals, b, arm, run, spoken, quiet) ==
  [g \in Goal |->
     IF g \in goals /\ b[g].st = "active" /\ ~arm[g].set /\ g \notin run /\ quiet
       THEN Timer(spoken, b[g].cont >= Limit)
       ELSE arm[g]]

\* The timers after the board changed a goal.
Changed(g, b, arm, run, quiet) ==
  IF b[g].st = "active" THEN Considered({g}, b, arm, run, people, quiet) ELSE [arm EXCEPT ![g] = NoTimer]

\* A goal that has a timer again is not let go of any more.
Arm(arm, let_go) ==
  /\ armed' = arm
  /\ left' = {g \in left \cup let_go : ~arm[g].set}

\* A change of the board, with the loop listening.
Write(g, b, arm, run) ==
  /\ board' = b
  /\ Arm(Changed(g, b, arm, run, Quiet(turn, queue, held)), {})

-----------------------------------------------------------------------------
\* People and teammates

\* A person sets a goal; its first turn drafts the checklist.
SetGoal(g, p) ==
  /\ board[g].st = "absent"
  /\ \A h \in Goal : board[h].st \notin {"active", "verifying", "paused"}
  /\ Quiet(turn, queue, held) /\ kept = {}
  /\ p \notin arrived
  /\ arrived' = arrived \cup {p}
  /\ board' = [board EXCEPT ![g].st = "active"]
  /\ queue' = queue \cup {p}
  /\ UNCHANGED <<kept, people, turn, held, stale, loop, gate, count>>

\* /goal pause, resume and clear: control actions, outside any turn.
Order(g, from, to) ==
  /\ events < MaxEvents
  /\ board[g].st \in from
  /\ events' = events + 1
  /\ Write(g, [board EXCEPT ![g].st = to], armed, running)
  /\ UNCHANGED <<conv, running, closing, gate, crashes>>

Pause(g) == Order(g, {"active"}, "paused")
Resume(g) == Order(g, {"paused"}, "active")
Clear(g) == Order(g, {"active", "verifying", "paused"}, "cleared")

\* A message arrives; its id was minted for it.
Arrive(m) ==
  /\ m \notin arrived /\ events < MaxEvents
  /\ events' = events + 1
  /\ arrived' = arrived \cup {m}
  /\ queue' = queue \cup {m}
  /\ UNCHANGED <<board, kept, people, turn, held, stale, loop, gate, crashes>>

\* What waited for a person is answered: the agent is told, or its parked turn
\* goes on.
Release ==
  /\ held /\ events < MaxEvents
  /\ events' = events + 1
  /\ held' = FALSE
  /\ queue' = queue \cup {Resumption}
  /\ UNCHANGED <<board, kept, people, turn, stale, arrived, loop, gate, crashes>>

-----------------------------------------------------------------------------
\* The loop

\* Variant: what has come to the conversation during the delay is not asked again.
MayStartAnyway(g) == board[g].st = "active" /\ people = armed[g].person

\* start looks again: a person may have spoken, or a turn begun.
MayStart(g) ==
  /\ board[g].st = "active"
  /\ people = armed[g].person
  /\ Quiet(turn, queue, held)

\* A timer fires and nothing is sent: the goal stopped, a person spoke or the
\* conversation is taken; or the mandate or the wake gate says no.
FireInVain(g) ==
  /\ armed[g].set
  /\ Arm([armed EXCEPT ![g] = NoTimer],
         IF board[g].st = "active" /\ Quiet(turn, queue, held) THEN {g} ELSE {})
  /\ UNCHANGED <<board, conv, running, closing, gate, count>>

\* start: the count goes up on the board, which the loop itself hears of, and
\* then the continuation is sent.
Start(g) ==
  LET nth == board[g].cont + 1 IN
  /\ armed[g].set /\ MayStart(g)
  /\ nth <= MaxWakes
  /\ Write(g, [board EXCEPT ![g].cont = nth], [armed EXCEPT ![g] = NoTimer], running)
  /\ queue' = queue \cup {[goal |-> g, nth |-> nth, person |-> armed[g].person,
                               last |-> armed[g].last, born |-> crashes]}
  /\ UNCHANGED <<kept, people, turn, held, stale, arrived, running, closing, gate,
                 count>>

\* A turn for what is no continuation: people's messages, or others'.
Batches ==
  {batch \in SUBSET queue : batch # {} /\ (batch \subseteq Said \/ batch \cap (Said \cup Wake) = {})}

Open(batch) ==
  LET spoke == batch \subseteq Said IN
  /\ turn = NoTurn
  /\ turn' = [batch |-> batch, stage |-> "setup"]
  /\ queue' = queue \ batch
  /\ people' = IF spoke THEN people + 1 ELSE people
  /\ Arm([g \in Goal |-> IF spoke /\ board[g].st = "active" THEN NoTimer ELSE armed[g]], {})
  /\ stale' = IF spoke THEN stale \cup {w \in queue \cap Wake : w.born = crashes} ELSE stale
  /\ UNCHANGED <<board, kept, held, arrived, running, closing, gate, count>>

\* turnStarting for a continuation, which is alone in its turn.
StillWanted(w) ==
  /\ board[w.goal].st = "active"
  /\ people = w.person
  /\ ~armed[w.goal].set /\ w.goal \notin running

Continue(w) ==
  /\ turn = NoTurn
  /\ queue' = queue \ {w}
  /\ IF StillWanted(w)
       THEN /\ turn' = [batch |-> {w}, stage |-> "setup"]
            /\ running' = running \cup {w.goal}
       ELSE /\ turn' = [batch |-> {w}, stage |-> "over"]
            /\ UNCHANGED running
  /\ UNCHANGED <<board, kept, people, held, stale, arrived, armed, closing, left,
                 gate, count>>

\* The turn is set up, and its messages acknowledged.
Begin ==
  /\ turn.stage = "setup"
  /\ turn' = [turn EXCEPT !.stage = "running"]
  /\ UNCHANGED <<board, queue, kept, people, held, stale, arrived, loop, gate, count>>

\* Its setup fails: no report, and its messages are left to the next start.
SetupFails ==
  /\ turn.stage = "setup" /\ events < MaxEvents
  /\ events' = events + 1
  /\ turn' = [turn EXCEPT !.stage = "over"]
  /\ kept' = kept \cup turn.batch
  /\ UNCHANGED <<board, queue, people, held, stale, arrived, loop, gate, crashes>>

\* A running turn takes in what a person says meanwhile.
Steer(p) ==
  /\ turn.stage = "running"
  /\ queue' = queue \ {p}
  /\ UNCHANGED <<board, kept, people, turn, held, stale, arrived, loop, gate, count>>

\* A running turn leaves something for a person to decide.
Ask ==
  /\ turn.stage = "running" /\ ~held
  /\ held' = TRUE
  /\ UNCHANGED <<board, queue, kept, people, turn, stale, arrived, loop, gate, count>>

-----------------------------------------------------------------------------
\* The end of a turn

\* turnEnded as far as its first await.  The turn is still in flight, so the
\* loop, which hears of the change, arms nothing.
FinishOnly(g) ==
  /\ Write(g, [board EXCEPT ![g].st = "paused"], armed, running \ {g})
  /\ UNCHANGED closing

Failed(g) ==
  LET errors == board[g].errors + 1 IN
  /\ IF errors > Retries
       THEN Write(g, [board EXCEPT ![g].errors = Retries + 1, ![g].st = "paused"], armed, running \ {g})
       ELSE /\ board' = [board EXCEPT ![g].errors = errors]
            /\ Arm([armed EXCEPT ![g] = Timer(people, FALSE)], {})
  /\ UNCHANGED closing

Succeeded(g, worked) ==
  /\ closing' = closing \cup {[goal |-> g, nth |-> board[g].cont,
                              idle |-> IF worked THEN 0 ELSE board[g].idle + 1]}
  /\ UNCHANGED <<board, armed, left>>

\* runTurn ends and reports, if it was a continuation.
EndTurn(failed, worked) ==
  /\ turn.stage = "running" /\ claiming = {}
  /\ turn' = [turn EXCEPT !.stage = "over"]
  /\ running' = running \ {w.goal : w \in WakesIn(turn)}
  /\ IF WakesIn(turn) = {}
       THEN UNCHANGED <<board, armed, left, closing>>
       ELSE \E w \in WakesIn(turn) :
              IF w.last THEN FinishOnly(w.goal)
              ELSE IF failed THEN Failed(w.goal)
              ELSE Succeeded(w.goal, worked)
  /\ UNCHANGED <<queue, kept, people, held, stale, arrived, gate, count>>

\* Variant: turn_finished comes while the conversation still counts as active.
QuietBefore == Quiet(turn, queue, held)

QuietAfter == Quiet(NoTurn, queue, held)

\* The bus lets go of the conversation, and then says turn_finished.
TurnFinished ==
  /\ turn.stage = "over"
  /\ turn' = NoTurn
  /\ stale' = stale \cap queue
  /\ Arm(Considered(Goal, board, armed, running, people, QuietAfter), {})
  /\ UNCHANGED <<board, queue, kept, people, held, arrived, running, closing, gate,
                 count>>

\* The rest of turnEnded, once the state hash and the judge have answered;
\* repeats is their word that the work stands still.
Account(c, repeats) ==
  LET stop == c.idle >= AntiSpin \/ repeats IN
  /\ closing' = closing \ {c}
  /\ Write(c.goal, [board EXCEPT ![c.goal].idle = c.idle, ![c.goal].errors = 0,
                                 ![c.goal].st = IF stop THEN "paused" ELSE @], armed, running)
  /\ UNCHANGED <<conv, running, gate, count>>

-----------------------------------------------------------------------------
\* The gate

\* A turn claims that the goal is done; the host's own checks begin.
Claim(g) ==
  /\ turn.stage = "running" /\ claiming = {}
  /\ \A w \in WakesIn(turn) : ~w.last
  /\ board[g].st = "active" /\ events < MaxEvents
  /\ events' = events + 1
  /\ claiming' = {[goal |-> g, claim |-> board[g].rejs + 1]}
  /\ UNCHANGED <<board, conv, loop, checks, checking, judging, words, passed, crashes>>

\* reject: back to active, or to the person.
Rejected(g, b, forced) ==
  LET rejs == b[g].rejs + 1 IN
  [b EXCEPT ![g].st = IF forced \/ rejs >= Rejections THEN "paused" ELSE "active",
            ![g].rejs = rejs, ![g].att = 0, ![g].idle = 0]

\* The host's checks refuse the claim, or it is written down and a verifier woken.
Refuse(c) ==
  /\ claiming' = {}
  /\ Write(c.goal, Rejected(c.goal, board, FALSE), armed, running)
  /\ UNCHANGED <<conv, running, closing, checks, checking, judging, words, passed,
                 count>>

Accept(c) ==
  /\ claiming' = {}
  /\ Write(c.goal, [board EXCEPT ![c.goal].st = "verifying", ![c.goal].claim = c.claim,
                                 ![c.goal].att = 1], armed, running)
  /\ words' = [words EXCEPT ![c.goal] = "none"]
  /\ checks' = checks \cup {[goal |-> c.goal, claim |-> c.claim, att |-> 1]}
  /\ UNCHANGED <<conv, running, closing, checking, judging, passed, count>>

-----------------------------------------------------------------------------
\* The verifier

\* The gate still wants this attempt.
Wanted(k) == board[k.goal].st = "verifying" /\ board[k.goal].att = k.att

\* A verifier's turn is over: the agent's goals are considered, all of them.
AfterCheck(g, b) ==
  LET quiet == Quiet(turn, queue, held) IN
  /\ board' = b
  /\ Arm(Considered(Goal, b, Changed(g, b, armed, running, quiet), running, people, quiet), {})

\* The wake a verifier's turn was opened with.
WakeOf(k) == [goal |-> k.goal, claim |-> k.claim, att |-> k.att]

\* A verifier's wake is taken from the queue of its conversation.
OpenCheck(c) ==
  /\ \A k \in checking : <<k.goal, k.claim>> # <<c.goal, c.claim>>
  /\ checks' = checks \ {c}
  /\ IF Wanted(c)
       THEN /\ checking' = checking \cup {[goal |-> c.goal, claim |-> c.claim, att |-> c.att,
                                           stage |-> "setup", said |-> "none"]}
            /\ UNCHANGED <<board, armed, left>>
       ELSE /\ AfterCheck(c.goal, board)
            /\ UNCHANGED checking
  /\ UNCHANGED <<conv, running, closing, claiming, judging, words, passed, count>>

CheckBegins(k) ==
  /\ k.stage = "setup"
  /\ checking' = (checking \ {k}) \cup {[k EXCEPT !.stage = "running"]}
  /\ UNCHANGED <<board, conv, loop, claiming, checks, judging, words, passed, count>>

CheckSetupFails(k) ==
  /\ k.stage = "setup" /\ events < MaxEvents
  /\ events' = events + 1
  /\ checking' = checking \ {k}
  /\ kept' = kept \cup {WakeOf(k)}
  /\ AfterCheck(k.goal, board)
  /\ UNCHANGED <<queue, people, turn, held, stale, arrived, running, closing,
                 claiming, checks, judging, words, passed, crashes>>

\* What it says goes into the transcript of its conversation, round by round.
CheckSpeaks(k, verdict) ==
  /\ k.stage = "running" /\ k.said # verdict
  /\ checking' = (checking \ {k}) \cup {[k EXCEPT !.said = verdict]}
  /\ words' = IF k.claim = board[k.goal].claim THEN [words EXCEPT ![k.goal] = verdict] ELSE words
  /\ passed' = IF verdict = "pass" THEN passed \cup {k.goal} ELSE passed
  /\ UNCHANGED <<board, conv, loop, claiming, checks, judging, count>>

TryAgain(k) ==
  /\ AfterCheck(k.goal, [board EXCEPT ![k.goal].att = k.att + 1])
  /\ checks' = checks \cup {[WakeOf(k) EXCEPT !.att = k.att + 1]}

\* Variant: one attempt too many.
NoVerdictOnceMore(k) == TryAgain(k)

\* Variant: a last attempt without a verdict passes the claim.
NoVerdictPasses(k) ==
  IF k.att < Attempts
    THEN TryAgain(k)
    ELSE AfterCheck(k.goal, [board EXCEPT ![k.goal].st = "complete"]) /\ UNCHANGED checks

\* noVerdict: once more, and then the person decides.
NoVerdict(k) ==
  IF k.att < Attempts
    THEN TryAgain(k)
    ELSE AfterCheck(k.goal, Rejected(k.goal, board, TRUE)) /\ UNCHANGED checks

\* verifierEnded up to its first await.
CheckEnds(k, done) ==
  /\ k.stage = "running"
  /\ checking' = checking \ {k}
  /\ IF Wanted(k) /\ (~done \/ k.said = "none")
       THEN NoVerdict(k) /\ UNCHANGED judging
       ELSE /\ AfterCheck(k.goal, board)
            /\ judging' = IF Wanted(k) THEN judging \cup {[goal |-> k.goal, verdict |-> k.said]} ELSE judging
            /\ UNCHANGED checks
  /\ UNCHANGED <<conv, running, closing, claiming, words, passed, count>>

\* The rest of verifierEnded, once the manifest has come; the status is not
\* looked at again.
Judge(j, disturbed) ==
  /\ judging' = judging \ {j}
  /\ Write(j.goal,
           IF j.verdict = "pass" /\ ~disturbed
             THEN [board EXCEPT ![j.goal].st = "complete", ![j.goal].att = 0]
             ELSE Rejected(j.goal, board, FALSE),
           armed, running)
  /\ UNCHANGED <<conv, running, closing, claiming, checks, checking, words, passed,
                 count>>

-----------------------------------------------------------------------------
\* The process dies and is started again

\* The gate's rearm: a verdict in the transcript is applied, anything less fails
\* the verification.
Found(g) == words[g] # "none"
\* Variant: a start does not look at goals under verification.
NoneInterrupted == {}
Interrupted == {g \in Goal : board[g].st = "verifying" /\ ~Found(g)}

\* recover, resumeInterrupted and rearmGoals, in one piece.  A turn that had
\* begun goes on without its marker, waits parked, or is given up.
Restart(fate) ==
  LET again == IF turn.stage = "setup" THEN turn.batch ELSE {}
      q == queue \cup (kept \cap Message) \cup again \cup (IF fate = "resumed" THEN {Resumption} ELSE {})
      h == held \/ fate = "parked"
      b == [g \in Goal |-> IF g \in Interrupted THEN Rejected(g, board, FALSE)[g] ELSE board[g]]
  IN
  /\ events < MaxEvents
  /\ turn.stage # "running" => fate = "gone"
  /\ crashes' = crashes + 1 /\ events' = events + 1
  /\ board' = b
  /\ queue' = q /\ kept' = {}
  /\ held' = h
  /\ checks' = checks \cup (kept \cap Check)
                     \cup {WakeOf(k) : k \in {k \in checking : k.stage = "setup"}}
  /\ judging' = {[goal |-> g, verdict |-> words[g]] :
                   g \in {g \in Goal : board[g].st = "verifying" /\ Found(g)}}
  /\ armed' = Considered(Goal, b, [g \in Goal |-> NoTimer], {}, 0, Quiet(NoTurn, q, h))
  /\ running' = {} /\ people' = 0 /\ turn' = NoTurn
  /\ claiming' = {} /\ closing' = {} /\ checking' = {}
  /\ stale' = {} /\ left' = {}
  /\ UNCHANGED <<words, passed, arrived>>

-----------------------------------------------------------------------------
Next ==
  \/ \E g \in Goal :
       \/ \E p \in Said : SetGoal(g, p)
       \/ Pause(g) \/ Resume(g) \/ Clear(g)
       \/ FireInVain(g) \/ Start(g)
       \/ Claim(g)
  \/ \E m \in Said \cup Note : Arrive(m)
  \/ Release
  \/ \E batch \in Batches : Open(batch)
  \/ \E w \in queue \cap Wake : Continue(w)
  \/ Begin \/ SetupFails \/ Ask \/ TurnFinished
  \/ \E p \in queue \cap Said : Steer(p)
  \/ \E failed, worked \in BOOLEAN : EndTurn(failed, worked)
  \/ \E c \in closing, repeats \in BOOLEAN : Account(c, repeats)
  \/ \E c \in claiming : Refuse(c) \/ Accept(c)
  \/ \E c \in checks : OpenCheck(c)
  \/ \E k \in checking :
       \/ CheckBegins(k) \/ CheckSetupFails(k)
       \/ \E verdict \in Verdict : CheckSpeaks(k, verdict)
       \/ \E done \in BOOLEAN : CheckEnds(k, done)
  \/ \E j \in judging, disturbed \in BOOLEAN : Judge(j, disturbed)
  \/ \E fate \in {"resumed", "parked", "gone"} : Restart(fate)

Spec == Init /\ [][Next]_vars

-----------------------------------------------------------------------------
\* A goal has at most one continuation, queued or in a turn, however timers,
\* retries, resumes and replays fall.  (goal-loop.ts: "never more than one at a
\* time"; consider, start.)
OneContinuation ==
  \A g \in Goal : Cardinality({w \in queue \cup turn.batch : w \in Wake /\ w.goal = g}) <= 1

\* An active goal is not forgotten: it has a timer, or something whose end looks
\* at it again.  Not so for one whose timer fired in a quiet conversation in
\* vain, and one whose continuation could not be set up.  (goal-loop.ts: "A
\* pursuit that is `active` is kept moving by the host".)
Attended ==
  \A g \in Goal : board[g].st = "active" /\ g \notin left =>
    \/ armed[g].set
    \/ queue # {} \/ turn # NoTurn \/ held
    \/ \E c \in closing : c.goal = g
    \/ \E w \in kept \cap Wake : w.goal = g

\* A goal under verification has a verifier on its way whose report the gate will
\* take, a wake whose setup failed, or a verdict about to be written, also when
\* earlier attempts, other claims and restarts left theirs about.  (claim,
\* noVerdict, rearm.)
VerdictIsAwaited ==
  \A g \in Goal : board[g].st = "verifying" =>
    \/ \E c \in checks \cup (kept \cap Check) \cup {WakeOf(k) : k \in checking} :
         c.goal = g /\ Wanted(c)
    \/ \E j \in judging : j.goal = g

\* A goal is complete only if a verifier has passed a claim of it: silence, a
\* failed turn and a restart never pass one.  (goal-gate.ts: "It fails closed".)
FailsClosed == \A g \in Goal : board[g].st = "complete" => g \in passed

\* A continuation this process sent is turned away only if a person's turn
\* overtook it or its goal stopped.  (orchestrator.ts: "A continuation that a
\* person's message overtook, or whose goal stopped meanwhile, is not run".)
TurnedAwayForCause ==
  [][\A w \in queue \cap Wake :
       w \notin queue' /\ turn'.stage = "over" =>
         board[w.goal].st # "active" \/ w \in stale \/ w.born < crashes]_vars

=============================================================================
