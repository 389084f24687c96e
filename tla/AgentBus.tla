------------------------------- MODULE AgentBus -------------------------------
(***************************************************************************)
(* How the bus schedules turns, in one life of the process: doors that     *)
(* queue a message and wake a worker or queue it and run a turn, one run   *)
(* at a time per worker, worker loops that drain a queue, lanes and        *)
(* principals that decide what a turn takes, steering, priority            *)
(* interrupts, pauses and turns that fail.                                 *)
(*                                                                         *)
(* A worker is one conversation of one agent.  Between two actions other   *)
(* microtasks may run: where the code awaits, the model has two actions.   *)
(* What survives a crash is in TurnCustody.                                *)
(***************************************************************************)
EXTENDS Naturals, Sequences, FiniteSets

CONSTANTS
    Worker,       \* (agent, conversation) pairs, the keys of workerKey()
    Agent,        \* agents, the keys of the bus's pending map
    AgentOf,      \* AgentOf[w]: the agent of worker w
    Message,      \* messages; an id may come again once its turn is over
    About,        \* About[m]: the fields of m, a MessageFields
    NoticeOf,     \* NoticeOf[m]: what notifySenders() makes of a peer's m
    NoPrincipal,  \* an absent principalId
    BatchItems,   \* AGENTBOX_TURN_BATCH_ITEMS
    Pausable,     \* the agents a person may pause
    MaxRuns,      \* bound: runExclusive() calls of a worker not yet returned
    Fails,        \* a turn may fail
    Starves       \* a message may wait longer than STARVATION_MS

\* "door" is how a message is sent: enqueue and wake() for a teammate's mail,
\* a notice or a resume; enqueue and runExclusive() for what a person prompts
\* (userDriven) and for a run the host waits on.  A sender is an agent, or
\* "user" for what a person types and what the host types in a person's shape,
\* or "system".
MessageFields ==
    [to : Worker, from : Agent \cup {"user", "system"}, person : BOOLEAN,
     lane : {"user", "agent", "background"}, principal : {NoPrincipal, "p", "q"},
     steerable : BOOLEAN, priority : BOOLEAN,
     door : {"wake", "prompt", "direct", "notice", "resumed"}]

ASSUME ConstantsAssumption ==
    /\ AgentOf \in [Worker -> Agent]
    /\ About \in [Message -> MessageFields]
    /\ NoticeOf \in [Message -> Message]
    /\ \A m \in Message : About[m].from \in Agent =>
         AgentOf[About[NoticeOf[m]].to] = About[m].from
    /\ {"user", "system"} \cap Agent = {}
    /\ BatchItems \in Nat \ {0}
    /\ Pausable \subseteq Agent
    /\ MaxRuns \in Nat \ {0}
    /\ Fails \in BOOLEAN /\ Starves \in BOOLEAN

VARIABLES
    queued,    \* pending: the messages queued
    before,    \* their order in the queue: <<m, n>>, m was queued first
    stale,     \* the queued messages older than STARVATION_MS
    chain,     \* per worker: who called each run that has not ended, in order
    turn,      \* active: per worker, the turn in flight
    loop,      \* per worker: where its worker loop is (wakeScheduled)
    tails,     \* per worker: runExclusive() calls whose run ended, not returned
    pausedAt,  \* the agents with a pause file
    owed,      \* agents resumed whose wake() is still to come
    stalled    \* history: workers whose loop a failure stopped over a queue

vars == <<queued, before, stale, chain, turn, loop, tails, pausedAt, owed,
          stalled>>

Caller == {"loop", "prompt", "direct"}
NoTurn == [running |-> FALSE, inbound |-> {}, steered |-> {},
           principal |-> NoPrincipal, userDriven |-> FALSE, aborted |-> FALSE]

\* A message a running turn may absorb at a round boundary.
IsSteering(m) == About[m].from = "user" /\ About[m].steerable
IsKickoff(m) == ~About[m].steerable

WaitingIn(q, w) == {m \in q : About[m].to = w}
Waiting(w) == WaitingIn(queued, w)
Taken(w) == turn[w].inbound \cup turn[w].steered
Busy == queued \cup UNION {Taken(w) : w \in Worker}

----------------------------------------------------------------------------
(* Waking: one loop per worker, started only where something waits.        *)

\* Variant: a wake that does not look at wakeScheduled.
WakesAgain(A, q, l, w) == AgentOf[w] \in A \ pausedAt /\ WaitingIn(q, w) # {}

Wakes(A, q, l, w) ==
    /\ AgentOf[w] \in A \ pausedAt
    /\ WaitingIn(q, w) # {}
    /\ l[w] = "off"

\* wake() of every agent of A: the loop checks its queue and calls
\* runExclusive() before anything else can run.
LoopsWoken(A, q, l) ==
    [w \in Worker |-> IF Wakes(A, q, l, w) THEN "running" ELSE l[w]]
ChainsWoken(A, q, l, c) ==
    [w \in Worker |-> IF Wakes(A, q, l, w) THEN Append(c[w], "loop") ELSE c[w]]
StalledAfterWake(A, q, l) == {w \in stalled : ~Wakes(A, q, l, w)}

Wake(A, q, l, c) ==
    /\ loop' = LoopsWoken(A, q, l)
    /\ chain' = ChainsWoken(A, q, l, c)
    /\ stalled' = StalledAfterWake(A, q, l)

NoWake == UNCHANGED <<loop, stalled>>

----------------------------------------------------------------------------
(* Sending.                                                                *)

\* enqueue(): the set M joins the queue of its agents, behind what is there.
Enqueue(M) ==
    /\ queued' = queued \cup M
    /\ before' = before \cup (queued \X M)

\* enqueue() of a priority message: the turn of its worker is aborted, unless
\* it runs for a person.
Interrupt(m) ==
    LET w == About[m].to
    IN  turn' = IF About[m].priority /\ turn[w].running /\ ~turn[w].userDriven
                THEN [turn EXCEPT ![w].aborted = TRUE] ELSE turn

SendAndWake(m) ==
    /\ About[m].door = "wake" /\ m \notin Busy
    /\ Enqueue({m})
    /\ Interrupt(m)
    /\ Wake({AgentOf[About[m].to]}, queued', loop, chain)
    /\ UNCHANGED <<stale, tails, pausedAt, owed>>

\* runExclusive(): the run joins the chain of its worker.
Prompt(m, door) ==
    LET w == About[m].to
    IN  /\ About[m].door = door /\ m \notin Busy
        /\ Enqueue({m})
        /\ Len(chain[w]) + tails[w] < MaxRuns
        /\ chain' = [chain EXCEPT ![w] = Append(@, IF door = "direct"
                                                   THEN "direct" ELSE "prompt")]
        /\ NoWake

SendAndRun(m) ==
    /\ \E door \in {"prompt", "direct"} : Prompt(m, door)
    /\ UNCHANGED <<stale, turn, tails, pausedAt, owed>>

----------------------------------------------------------------------------
(* What a turn takes.                                                      *)

First(S) == CHOOSE m \in S : \A n \in S \ {m} : <<n, m>> \notin before

\* chooseLane: the highest lane present, or the highest with a stale message.
Present(w) == {About[m].lane : m \in Waiting(w)}
Starved(w) == {About[m].lane : m \in Waiting(w) \cap stale}
Highest(L) == IF "user" \in L THEN "user"
              ELSE IF "agent" \in L THEN "agent" ELSE "background"
\* Variant: strict priority.
ChosenLaneStrictly(w) == Highest(Present(w))

ChosenLane(w) == Highest(IF Starved(w) # {} THEN Starved(w) ELSE Present(w))

InLane(w) == LET lane == ChosenLane(w)
             IN  {m \in Waiting(w) : About[m].lane = lane}

\* Up to the first message of another principal.
SamePrincipal(L) ==
    LET head == First(L)
        Other(n) == About[n].principal # About[head].principal
    IN  {m \in L : ~Other(m) /\ \A n \in L : Other(n) => <<m, n>> \in before}

\* Variant: a kickoff is taken wherever it stands.
RequestKickoffFirst(P) ==
    LET kickoffs == {m \in P : IsKickoff(m)}
    IN  IF kickoffs = {} THEN P ELSE {First(kickoffs)}

\* A kickoff at the head alone, otherwise what is ahead of the first kickoff.
Request(P) ==
    LET head == First(P)
    IN  IF IsKickoff(head) THEN {head}
        ELSE {m \in P : \A n \in P : IsKickoff(n) => <<m, n>> \in before}

\* boundBatch: a prefix, never empty and of so many items; how many bytes a
\* message is, and so where the prefix ends before that, is left open.
Batches(R) ==
    {S \in (SUBSET R) \ {{}} :
        /\ \A m \in S, n \in R : <<n, m>> \in before => n \in S
        /\ Cardinality(S) <= BatchItems}

Drained(w) == Batches(Request(SamePrincipal(InLane(w))))

Remove(S) ==
    /\ queued' = queued \ S
    /\ before' = {p \in before : p[1] \notin S /\ p[2] \notin S}
    /\ stale' = stale \ S

----------------------------------------------------------------------------
(* A run: the head of its worker's chain, once the one before has ended.   *)

\* The promise of the run at the head settles: its caller is told.
Settle(w, how) ==
    LET caller == Head(chain[w])
    IN  /\ loop' = [loop EXCEPT ![w] =
                     IF caller # "loop" THEN @
                     ELSE IF how = "ok" THEN "after" ELSE "failed"]
        /\ tails' = [tails EXCEPT ![w] =
                      IF caller # "loop" /\ how = "ok" THEN @ + 1 ELSE @]

CanStart(w) == chain[w] # <<>> /\ ~turn[w].running

\* A paused agent, or nothing left to say: the run returns.
SkipRun(w) ==
    /\ CanStart(w)
    /\ AgentOf[w] \in pausedAt \/ Waiting(w) = {}
    /\ chain' = [chain EXCEPT ![w] = Tail(@)]
    /\ Settle(w, "ok")
    /\ UNCHANGED <<queued, before, stale, turn, pausedAt, owed, stalled>>

OpenTurn(w) ==
    /\ CanStart(w)
    /\ AgentOf[w] \notin pausedAt /\ Waiting(w) # {}
    /\ \E S \in Drained(w) :
          /\ Remove(S)
          /\ turn' = [turn EXCEPT ![w] =
                       [running |-> TRUE, inbound |-> S, steered |-> {},
                        principal |-> About[First(S)].principal,
                        userDriven |-> Head(chain[w]) = "prompt",
                        aborted |-> FALSE]]
    /\ UNCHANGED <<chain, loop, tails, pausedAt, owed, stalled>>

\* Variant: whoever types steers.
SteerableByAnyone(w) == {m \in Waiting(w) : IsSteering(m)}

\* takeSteering(), at a round boundary of a turn that goes on.
Steerable(w) == {m \in Waiting(w) : IsSteering(m)
                                    /\ About[m].principal = turn[w].principal}

Steer(w) ==
    /\ turn[w].running /\ ~turn[w].aborted
    /\ Steerable(w) # {}
    /\ Remove(Steerable(w))
    /\ turn' = [turn EXCEPT ![w].steered = @ \cup Steerable(w)]
    /\ UNCHANGED <<chain, loop, tails, pausedAt, owed, stalled>>

\* The turn is over; an aborted one ends the same way.
TurnEnds(w) ==
    /\ turn[w].running
    /\ turn' = [turn EXCEPT ![w] = NoTurn]
    /\ chain' = [chain EXCEPT ![w] = Tail(@)]
    /\ Settle(w, "ok")
    /\ UNCHANGED <<queued, before, stale, pausedAt, owed, stalled>>

\* The turn throws.  Each teammate with a message in the batch is sent one
\* notice and woken before the run settles.
TurnFails(w) ==
    LET peers == {About[m].from : m \in turn[w].inbound} \cap Agent
        Notice(a) == NoticeOf[CHOOSE m \in turn[w].inbound : About[m].from = a]
        settled == [loop EXCEPT ![w] =
                     IF Head(chain[w]) = "loop" THEN "failed" ELSE @]
    IN  /\ Fails
        /\ turn[w].running /\ ~turn[w].aborted
        /\ {Notice(a) : a \in peers} \cap Busy = {}
        /\ Enqueue({Notice(a) : a \in peers})
        /\ turn' = [turn EXCEPT ![w] = NoTurn]
        /\ Wake(peers, queued', settled, [chain EXCEPT ![w] = Tail(@)])
        /\ UNCHANGED <<stale, tails, pausedAt, owed>>

----------------------------------------------------------------------------
(* What the callers of a run do next.                                      *)

\* The tail of runExclusive(): whatever landed meanwhile is woken, and with it
\* every other conversation of the agent.
WakeIfWaiting(w) ==
    IF Waiting(w) # {} THEN {AgentOf[w]} ELSE {}

RunReturns(w) ==
    /\ tails[w] > 0
    /\ tails' = [tails EXCEPT ![w] = @ - 1]
    /\ Wake(WakeIfWaiting(w), queued, loop, chain)
    /\ UNCHANGED <<queued, before, stale, turn, pausedAt, owed>>

\* The same, of the loop's own call; its wake() finds this loop scheduled.
RunReturnsToLoop(w) ==
    /\ loop[w] = "after"
    /\ Wake(WakeIfWaiting(w), queued, [loop EXCEPT ![w] = "check"], chain)
    /\ UNCHANGED <<queued, before, stale, turn, tails, pausedAt, owed>>

\* The condition of the loop: again, or wakeScheduled is cleared.
LoopChecks(w) ==
    /\ loop[w] = "check"
    /\ IF Waiting(w) # {} /\ AgentOf[w] \notin pausedAt
       THEN /\ loop' = [loop EXCEPT ![w] = "running"]
            /\ chain' = [chain EXCEPT ![w] = Append(@, "loop")]
       ELSE /\ loop' = [loop EXCEPT ![w] = "off"]
            /\ chain' = chain
    /\ UNCHANGED <<queued, before, stale, turn, tails, pausedAt, owed, stalled>>

\* The loop's catch: it stops, and keeps its queue.
LoopStops(w) ==
    /\ loop[w] = "failed"
    /\ loop' = [loop EXCEPT ![w] = "off"]
    /\ stalled' = IF Waiting(w) # {} THEN stalled \cup {w} ELSE stalled
    /\ UNCHANGED <<queued, before, stale, chain, turn, tails, pausedAt, owed>>

----------------------------------------------------------------------------
(* Pausing an agent, and time.                                             *)

\* AgentPauses.pause: the record first, then the turns in flight are ended.
Pause(a) ==
    /\ a \in Pausable \ pausedAt
    /\ pausedAt' = pausedAt \cup {a}
    /\ turn' = [w \in Worker |-> IF AgentOf[w] = a /\ turn[w].running
                                 THEN [turn[w] EXCEPT !.aborted = TRUE]
                                 ELSE turn[w]]
    /\ UNCHANGED <<queued, before, stale, chain, loop, tails, owed, stalled>>

\* AgentPauses.resume: the record goes, the note m is prompted, and the wake
\* comes after the await.
Resume(a, m) ==
    /\ a \in pausedAt /\ AgentOf[About[m].to] = a
    /\ pausedAt' = pausedAt \ {a}
    /\ Prompt(m, "resumed")
    /\ owed' = owed \cup {a}
    /\ UNCHANGED <<stale, turn, tails>>

\* Variant: the note's own run is trusted to take what waited.
WakeResumedNobody(a) ==
    /\ a \in owed
    /\ owed' = owed \ {a}
    /\ UNCHANGED <<queued, before, stale, chain, turn, loop, tails, pausedAt,
                   stalled>>

WakeResumed(a) ==
    /\ a \in owed
    /\ owed' = owed \ {a}
    /\ Wake({a}, queued, loop, chain)
    /\ UNCHANGED <<queued, before, stale, turn, tails, pausedAt>>

\* STARVATION_MS pass for m, and for all that was queued before it.
Starve(m) ==
    /\ Starves
    /\ m \in queued \ stale
    /\ stale' = stale \cup {m} \cup {n \in queued : <<n, m>> \in before}
    /\ UNCHANGED <<queued, before, chain, turn, loop, tails, pausedAt, owed,
                   stalled>>

----------------------------------------------------------------------------

Init ==
    /\ queued = {} /\ before = {} /\ stale = {}
    /\ chain = [w \in Worker |-> <<>>]
    /\ turn = [w \in Worker |-> NoTurn]
    /\ loop = [w \in Worker |-> "off"]
    /\ tails = [w \in Worker |-> 0]
    /\ pausedAt = {} /\ owed = {} /\ stalled = {}

TurnStep(w) ==
    \/ SkipRun(w)
    \/ OpenTurn(w)
    \/ Steer(w)
    \/ TurnEnds(w)
    \/ TurnFails(w)

CallerStep(w) ==
    RunReturns(w) \/ RunReturnsToLoop(w) \/ LoopChecks(w) \/ LoopStops(w)

Next ==
    \/ \E m \in Message : SendAndWake(m) \/ SendAndRun(m) \/ Starve(m)
    \/ \E w \in Worker : TurnStep(w) \/ CallerStep(w)
    \/ \E a \in Agent : \/ Pause(a) \/ WakeResumed(a)
                        \/ \E m \in Message : Resume(a, m)

Spec == Init /\ [][Next]_vars

\* A promise that may settle does, a turn ends (its rounds and every request
\* of a round are bounded), time passes.  Nobody has to send, pause or resume.
RunStep(w) == SkipRun(w) \/ OpenTurn(w) \/ TurnEnds(w) \/ TurnFails(w)
LoopStep(w) == RunReturnsToLoop(w) \/ LoopChecks(w) \/ LoopStops(w)
Fairness ==
    /\ \A w \in Worker : /\ WF_vars(RunStep(w))
                         /\ WF_vars(RunReturns(w))
                         /\ WF_vars(LoopStep(w))
    /\ WF_vars(\E a \in Agent : WakeResumed(a))
    /\ \A m \in Message : WF_vars(Starve(m))

FairSpec == Spec /\ Fairness
----------------------------------------------------------------------------
(* Properties.                                                             *)

TurnRecord ==
    [running : BOOLEAN, inbound : SUBSET Message, steered : SUBSET Message,
     principal : {NoPrincipal, "p", "q"}, userDriven : BOOLEAN,
     aborted : BOOLEAN]

\* The shape of the bus's maps.
TypeOK ==
    /\ queued \subseteq Message /\ stale \subseteq queued
    /\ before \subseteq queued \X queued
    /\ chain \in [Worker -> Seq(Caller)]
    /\ turn \in [Worker -> TurnRecord]
    /\ loop \in [Worker -> {"off", "running", "after", "check", "failed"}]
    /\ tails \in [Worker -> Nat]
    /\ pausedAt \subseteq Agent /\ owed \subseteq Agent
    /\ stalled \subseteq Worker

\* A turn is one request of one authority: all it was opened or steered with
\* came from one principal, the batch from one lane, and a kickoff is alone.
\* (drain and takeSteering: "Different principals must never share the
\* authority of a batched turn".)
OneRequestPerTurn ==
    \A w \in Worker :
        /\ \A m \in Taken(w) : About[m].principal = turn[w].principal
        /\ \A m, n \in turn[w].inbound :
              /\ About[m].lane = About[n].lane
              /\ IsKickoff(m) => m = n
        /\ \A m \in turn[w].steered : IsSteering(m)

\* A burst collapses into one run of the loop, and the loop always knows of
\* it: it has exactly one run in the chain while it waits for one, else none.
OneLoopRun ==
    \A w \in Worker :
        Cardinality({i \in 1..Len(chain[w]) : chain[w][i] = "loop"})
            = IF loop[w] = "running" THEN 1 ELSE 0

\* Nothing waits unattended: some loop, run or wake that is still to come will
\* look at the queue, unless a person paused the agent or a failed turn
\* stopped the loop.  (enqueue and wake against the end of a loop, the wake of
\* runExclusive's tail and of a resume against a pause.)
NoLostWakeup ==
    \A w \in Worker : Waiting(w) # {} =>
        \/ AgentOf[w] \in pausedAt \cup owed
        \/ chain[w] # <<>> \/ tails[w] > 0
        \/ loop[w] # "off"
        \/ w \in stalled

\* Within a lane of a conversation a message is overtaken only by a person
\* steering the turn in flight.
TakenInOrder ==
    [][\A m, n \in queued :
          /\ <<m, n>> \in before /\ m \in queued' /\ n \notin queued'
          /\ About[m].to = About[n].to /\ About[m].lane = About[n].lane
          => n \in turn'[About[n].to].steered]_vars

\* A stale message of a higher lane is ahead of m in its conversation.
Behind(m) ==
    \E n \in stale : /\ About[n].to = About[m].to
                    /\ About[n].lane # About[m].lane
                    /\ Highest({About[n].lane, About[m].lane}) = About[n].lane

\* Whatever waits is taken, however much keeps arriving, unless its agent is
\* paused, its loop was stopped by a failure, or time and again a higher lane
\* of its conversation is behind as well.  (The starvation window: "a stream of
\* fresh questions arriving while an audit waits".)
WaitingIsTaken ==
    \A m \in Message :
        <>[](m \in queued) => []<>(\/ AgentOf[About[m].to] \in pausedAt
                                  \/ About[m].to \in stalled
                                  \/ Behind(m))

=============================================================================
