# Lumenbox: a TLA+ model of the custody of messages, calls, work, answers and goals

Lumenbox hosts a team of agents. People and agents send each other messages,
the host runs *turns* (a batch of messages, rounds of a model, tool calls in a
box), and it promises a good deal about them: a message it acknowledged is
written down and will be acted on, an interrupted turn is picked up, nothing
runs twice, what the model is told of a call is true, delegated work is heard of,
an answer reaches the chat, a goal is pursued until a verifier passes it,
different people's authority does not mix, nobody waits forever. The host is one Node process over append-only JSONL files, and it
may die between any two appends. This directory models the parts that keep those
promises, checks them with TLC and proves the central invariants with TLAPS.

All definitions are translated from the source; `PROJECT.json` maps each to its
lines. Paths below are relative to `src/src/`.

## 1. The system

| Component | State it keeps | Operations | What is hard |
|---|---|---|---|
| **Inbox** `agents/inbox.ts` | `inbox.jsonl`: admitted / started / dropped records, and the set of pending sequences | admit, start (one append per message), drop, pending, compact | a throw or a crash between two appends of one `start` |
| **Agent bus** `agents/bus.ts`, `agents/turn-batch.ts` | in memory: `pending` queues, `chains`, `active`, `wakeScheduled` | send, sendFromUser, deliverSystem, enqueue, drain, takeSteering, runExclusive, wake, recover, interruptAgents | async functions interleave at every `await`; queues are lost on a restart and rebuilt |
| **Turn ledger, step ledger** `host/resume.ts` | `turns.jsonl` (begin, end, clean), `turn-steps.jsonl` (pending, settled, awaiting_approval, closed) | begin, end, markClean, interrupted, stepsOf, settleApproval | several records of one id; what a reader concludes from a cut-off file |
| **Turn execution** `host/turn.ts` | the transcript, and local state of one turn | setup, opening entry, begin, rounds, steering at a round boundary, tool calls, end | custody moves between three files in a fixed order |
| **Orchestrator** `host/orchestrator.ts` | `parked` turns | constructor (reconcile), executeContextTurn, resumeInterrupted, continueTurn, onApprovalSettled, contextBlockers, noteCleanShutdown | startup order; a pickup that is itself interrupted |
| **Pauses** `agents/pause.ts`, `host/agent-pause.ts` | a pause file per agent | pause, resume | an `await` between the two halves of a resume |
| **Context epochs** `agents/context-epoch.ts`, `host/context-recovery.ts` | `state.json` per conversation: epoch, operations, a prepared switch | advance, current, previousOperation, newContext | a switch is five writes, under one operation id |
| **Registry** `agents/registry.ts` | the roster, transcripts, profiles | add, remove, appendTranscript | removal under recovery |
| **Web server** `web/server.ts` | - | startup sequence, routes | sweeps before replay |
| **Fork ledger** `host/pending-work.ts` | four events per fork | prepare, admit, commit, drop, sweep | a child's findings against the parent's transcript |
| **Goal mode** `host/goal-loop.ts`, `host/goal-gate.ts`, `host/goal-mode.ts` | the pursuit of each goal on the board; in memory timers, running continuations, a count of people's turns | consider, start, turnStarting, turnEnded, claim, verifierEnded, rearm; `/goal` orders | a continuation is decided three times, each time on other state; never two, never ahead of a person, never nobody |
| **Effects, plans** `host/effects.ts`, `host/orchestrate.ts` | effect and plan records | confirm, background, reminder; fan-out and reduce | recovery before the inbox replays |
| **Policy** `host/policy.ts` | approvals, stop switches | check, allow, refuse | an answer racing a restart |
| **Outbound** `host/outbox.ts`, `host/deliveries.ts`, `channels/outbox-sender.ts` | receipts under stable ids, a chain per chat | record, sent, failed, resend | a timeout after a send that succeeded |
| **Doors** `channels/*` | ingress ledger, card ledger, leases | receive, dedupe, reply | at-least-once webhooks |
| **Board, schedules** `host/tasks.ts`, `host/schedule.ts` | `tasks.jsonl`, run times | create, move, accept | missed and repeated runs |
| **Budgets** `host/spend-limits.ts`, `host/push-budget.ts`, `relay/ceiling.ts` | counters per agent or tenant | charge, pause, resume | limits at their boundary |
| **Boxes, boxd, computer use, control plane, relay, egress, watchdogs** | containers, displays, a SQL store | lifecycle, jobs, polling | external processes |

How they interact: a door, a person's prompt or a teammate's `SendToAgent`
calls the bus, which writes the inbox, queues in memory and either runs a turn
(`runExclusive`) or wakes worker loops (`wake`). A run drains a batch and calls
`executeContextTurn`, which sets the turn up and calls `runTurn`; that writes
the opening transcript entry, the `begin` record, acknowledges the batch through
a callback into the bus, and then loops over rounds, taking steering messages
from the bus. At startup the constructor of the orchestrator reconciles inbox
and ledger, sweeps deliver what forks, effects and plans left, `bus.recover()`
re-queues pending messages, and `resumeInterrupted()` decides about every turn
that began and did not end.

What makes each part correct is listed as hazards in `PROJECT.json`, at the line
where it bites, with the property that would catch it going wrong or the reason
no property covers it yet.

## 2. The modules

| Module | What it models |
|---|---|
| `Custody` | The abstract promise of a message: accepted, then held by work on record, then settled; or a goal's wake is declined. |
| `TurnCustody` | Inbox, turn ledger, transcript custody, startup and recovery, across crashes. Implements `Custody`. |
| `AgentBus` | Scheduling in one life of the process: queues, lanes, chains, worker loops, steering, interrupts, pauses, failures. |
| `TurnSteps` | Inside a turn: the batch of tool calls, the step ledger, the policy gate and its approvals, the replay of a continued turn, parking. |
| `SwitchLog` | The abstract promise of a context store: the switches made, each by a command of its own. |
| `ContextEpoch` | `/new` one durable write at a time: prepare, migrate, fence, install, publish, and the note for the next context. Implements `SwitchLog`. |
| `PendingWork` | Forks, delegated jobs, confirmations, background jobs and plans: what is handed out, what is recorded of it, and what the agent hears. |
| `Outbound` | What is sent into a chat: receipts and their chain, owed answers and the sweep, drafts and their consent. |
| `GoalLoop` | Goal mode in one conversation: continuations and their timers, people and teammates in between, claims and verifiers, failures, restarts. |
| `MC*` | The instances of each for TLC. |
| `TurnCustody_proofs`, `TurnPickup_proofs`, `TurnSteps_proofs`, `ContextEpoch_proofs`, `AgentBus_proofs`, `PendingWork_proofs`, `Outbound_proofs`, `GoalLoop_proofs` | TLAPS proofs, section 4. `TurnPickup_proofs` is the second half of the proofs about `TurnCustody`. |

How they meet:

* `TurnCustody` and `AgentBus` at the drain. `TurnCustody` lets a drain take any
  batch its lane and kind allow (an over-approximation of `AgentBus`, so what
  holds there holds under any scheduling), and knows what a batch leaves on disk.
  `AgentBus` knows exactly which batch is taken, when and by whom, and forgets
  the disk.
* `TurnCustody` and `TurnSteps` at `begin`. `TurnCustody` knows whether the step
  ledger has a turn and whether one of its calls waits for a person (`stepped`,
  `asking`), and has every order of messages, pickups and clean exits.
  `TurnSteps` knows the calls and the approvals one by one, and takes the
  messages for granted: its turns begin after the startup sweep.
* `TurnCustody` and `ContextEpoch` at the switch. The first says when a switch is
  refused, the second what a switch that is allowed does to the disk.
* `PendingWork` uses the inbox, the turns and the approvals as the others model
  them: a note once admitted is the agent's to read, a turn ends, an answer to a
  confirmation is on disk once it is given.
* `GoalLoop` looks at the same queue and turns as `AgentBus` from the side of one
  conversation: any order between a person's messages, others' and continuations
  is allowed there, and a queued message may wait for any time. Of `TurnCustody` it
  keeps what decides about a continuation: a turn whose setup fails leaves its
  messages to the next start, and what a turn that had begun becomes at a start
  (continued, parked, given up).
* `Outbound` leaves the survival of the turn that writes an answer to
  `TurnCustody`: its turn runs, then ended with an answer or silent.

### TurnCustody

| Variable | In the code |
|---|---|
| `inbox`, `msg` | `inbox.jsonl`: per message absent, pending or started, and the record admitted |
| `turn` | `turns.jsonl` as `interrupted()` reads it: how each id stands, its `causedBy`, `attempt`, `cleanExit`, `workId`, epoch, and the ids it resumed |
| `opening`, `steered` | `causedBy` of the transcript entries of a turn |
| `stepped`, `asking` | turns the step ledger knows; turns with a call waiting for a person |
| `noted` | give-up notes in transcripts |
| `alive`, `epoch` | the roster; context epochs |
| `phase` | down, reconcile (constructor), starting (sweeps), resume (`recover` to the end of `resumeInterrupted`), up |
| `queue` | the bus's `pending`; a copy is `<<message, door>>`, so that the same message can be queued twice, once live and once by the replay |
| `act` | what each worker is in the middle of |
| `parked`, `sweep`, `handing` | `Orchestrator.parked`; the interrupted turns not looked at yet; the second half of a two-append step |
| `declined` | history: goal wakes that `turnStarting` turned away |

A **worker** is one conversation of one agent, as `workerKey()` says. Every
append is an action, so `Crash` can come between any two: a turn goes through
*setup* (drained), *recorded* (opening entry), *acking* (begun, and
`Inbox.start` closing the batch one append at a time), *running*, *steering*.
`Synchronous` is JavaScript's run-to-completion: while a block of synchronous
appends is under way no other action of this process happens, only its death.
Appends that the code guards (`inbox.start`, `markClean`) may also fail. A torn
last line is a line that was not written, since every reader skips it. The mark
of a clean shutdown is written for any subset of the open turns.

`resumeInterrupted` is one action per branch, chosen by `Disposition` in the
order of the code's early exits: skip (a continuation already queued), agent
gone, context superseded, given up, parked, picked up. A pickup is two appends:
the continuation is admitted, then the old turn is ended.

### AgentBus

| Variable | In the code |
|---|---|
| `queued`, `before` | the `pending` arrays, as a set and the order in it |
| `stale` | which of them are older than `STARVATION_MS` |
| `chain` | the promise chain of a worker: who called each run that has not settled |
| `turn` | `active`: batch, steering, principal, `userDriven`, aborted |
| `loop` | a worker loop: off, waiting for its run, in the tail of `runExclusive` (*after*), about to test its condition (*check*), in its `catch` (*failed*) |
| `tails` | other `runExclusive` calls whose run settled and that have not gone on |
| `pausedAt`, `owed` | pause files; resumes that have not reached their `wake()` |
| `stalled` | history: workers whose loop a failed turn stopped over a queue |

Between two actions other microtasks may run; where the code awaits, the model
has two actions, and where it does not it has one. `Wake` runs the loops of all
conversations of an agent up to their first `await`, which puts a run at the end
of each chain. `Drained` is `chooseLane`, then the lane, then the prefix of one
principal, then the kickoff rule, then a bounded prefix; how many bytes a
message has is left open, so any shorter non-empty prefix is allowed.

Left out of `AgentBus`: the refusal of repeats and the hop budget in `send()`,
steering listeners, `newerFromPerson`, `dropAdmissionsWhere`, removal of agents,
`idle()`.

### TurnSteps

| Variable | In the code |
|---|---|
| `log` | `turns.jsonl`: how a turn stands, its attempt; and whether `turn-steps.jsonl` has it closed |
| `kept` | the continuation of a turn in the inbox, with the approval and the answer it carries |
| `step`, `waits` | `turn-steps.jsonl` per call: absent, open (pending), settled; the approval it waits for |
| `answer`, `told` | the result of a call in the transcript; the line about an approval whose slot was taken |
| `about`, `row`, `gate` | an approval's fingerprint; its rows in the policy log; the same in `PolicyGate`'s maps |
| `phase`, `doing`, `snap` | where `runTurn` is; where `runOne` is; what the replay read before it started |
| `parked` | `Orchestrator.parked`, a map with one turn per approval |
| `ran`, `spent` | history: how often a call took effect; how often a one-run approval was used |

A round is `Ask` (the blocks entry), then each call by itself: `Start` (the
pending record, required), the gate (`Pass`, `UseGrant`, `HandToPerson`),
`Return` (it took effect), then `RecordResults` (the results entry, then the
settled records, any of which may fail). `InOrder` is the rule of `runOne`:
reads side by side, everything else alone. A restart replays the policy log
(`Replayed`), then sweeps the open turns: continued, parked, given up, or handed
to a turn of another id. A continued turn first answers what it was inside of
(`ReplayStart` to `ReplayEnd`): a call with no record is `not_started`, one that
may be repeated is run again through the gate, one with a decided approval is
told the decision, and every other is `outcome_unknown`.

What an answer *claims* is the data here: `NotRun` is the set of answers that say
the call had no effect. Which action a call performs is its fingerprint
(`ActionOf`); what may be repeated (`safeToReplay`, `replaysToSameState`) and what
the policy gates are constants. Left out: reuse of a call's answer, the taint of
a turn, compaction of the two logs.

### ContextEpoch and SwitchLog

| Variable | In the code |
|---|---|
| `ops`, `prepared` | `state.json`: the switches made (their number is the epoch), and the one under way |
| `legacy`, `archived`, `fence` | the files of context 0 at their old place and in the archive; the directory put where the transcript was |
| `staged`, `first` | `staging/<op>`; the opening entry of each context |
| `draft`, `captured` | `drafts/<epoch>` with the snapshot it is labelled with and the one it was written from; the snapshot held while the model writes |
| `entries` | what has been said in the current context |
| `serving`, `told` | the command being served; history: what each was answered |

`commit()` is five kinds of write (`Migrate` per file, `Fence`, `Install`,
`Publish`, and the removal of the staged note inside it), and any read of the
state by a later process finishes it (`Committing` does not ask who prepared).
`OlderProgram` is the case the fence is for: a version of the program from before
contexts that runs while this one is down. `WriteDraft` stores what was captured,
or nothing when the context moved on.

`SwitchLog` is a sequence of switches that only grows, each id once. Under the
mapping `made` a switch is in it from its durable *prepare* on, so the refinement
says that nothing read later, before or after any crash, takes it back.

### PendingWork

| Variable | In the code |
|---|---|
| `rec` | `pending-work.jsonl` as it is folded: none, open (prepared), admitted, closed (committed or dropped) |
| `ask`, `result`, `answers` | the confirmation of a pause or plan; the durable note of a follow-up; the kept answers of a plan's items |
| `child` | a fork's message and turn, in the inbox and the turn ledger |
| `said`, `queued` | what the agent was told; whether a tagged note is still in the inbox |
| `doing`, `runs`, `taken` | memory: where the code is with a piece; a plan's active runs; how often a run took an item |
| `life`, `todo` | where a start is: down, `sweep()`, `recover()` of effects and plans, up |
| `ending` | memory: where the settling of a delegated job is: set out because the end was seen or a kill sent (*settling*) or because the box did not list the job (*unlisted*), committed and still to be told (*telling*) |
| `job` | the box's job as the box lists it, or the extension's; *killed* is still listed as running, *other* runs under an id of the box's own, which nothing here names |

One module for five kinds, because one ledger, one sweep and one rule (*told,
then closed*) serve them all. Every append is one the code either requires (it
throws, and the rest is not reached) or goes on without; the boolean parameters of
an action are which of its appends succeeded, and `MaxLost` bounds the failures.
Forks of one call are prepared together and joined together; a person's new
instruction cuts the join short (`JoinEnds` with some still *waiting*), and the
late ones report by themselves. An agent that is paused returns from
`runExclusive` without a turn: a fork's message stays queued, an item of a plan
counts as done.

A delegated job's start is two steps: the box takes the job (`BoxStarts`), and the
call ends (`DelegateStart`), as an answer, as a failure whatever the box did, or with
another id; a request takes effect before its call ends or never. Who sees the end is
independent of that call, because the route is bound to the job id before the box has
the job (`tools.ts:3305`): `Observe` is the lease renewal, the timer beside it or the
Jobs tool, and includes the renewal that asked the box before it had the job; what it
saw is acted on later (`Settle`). `Kill` sends the signal; the Jobs tool settles
without the end (at most 3 s later), a pause of the agent does not settle at all.
*Running* is what the box's list says: a job whose processes outlive a restart of the
daemon is *interrupted* here, and what a *killed* job's processes still do before the
signal takes them is not followed.

### Outbound

| Variable | In the code |
|---|---|
| `log`, `receipt`, `fails` | `outbox.jsonl`: order, status and failed tries per id |
| `issue` | the exception list's open failure, whose *Retry* a person may press |
| `chain`, `calling`, `retries` | memory: the chat's promise chain, its head; what a *Retry* still has to try |
| `settled` | receipts settled since the last compaction, which forgets all that are not pending |
| `owed`, `turn`, `live`, `handed` | `deliveries.jsonl`; the turn that writes an answer; the request that waits for it; what the sweep has handed over and not yet noted |
| `draft`, `consent`, `hand` | `outbox-drafts.jsonl`; the approval of a draft; where the code is with it |
| `door` | whether the channel is configured: a restart may change it |
| `went`, `first` | history: how often the words reached the chat; the first answer on a draft |

A try ends as *sent* (the receipt marked), *dropped* (the door says never),
*missed*, *late* (it reached the chat and an error came back) or *unwritten* (it
reached the chat and the mark failed). Until the last attempt a failure stays at
the head of its chain. The ids are digests of the words and the turn, so the same
words are the same message. One chat is modelled: chains of two share only the
file and its compaction. What is read out of the log in its order (`Outbox.pending`)
is `Only(log, S)`: `SelectSeq`, written with the places it keeps so that proofs can
expand it; `MCOutbound` has TLC compare the two. Left out: a channel replaced under the same key, drafts
without a chat, files that follow a text.

### GoalLoop

| Variable | In the code |
|---|---|
| `board` | `tasks.jsonl`: each goal's status, `continuations`, `idleStreak`, `errorStreak`, `rejections`, and `verifying` (which claim, which attempt) |
| `queue`, `turn` | the conversation's queue in the bus and its turn: *setup*, *running*, *over* (`runTurn` has returned, `turn_finished` has not been said) |
| `kept` | what only the inbox file still has, because the setup of its turn failed |
| `armed`, `running`, `people` | `GoalLoop.pending`, `GoalLoop.running`, `GoalLoop.personSeq` |
| `claiming`, `closing`, `judging` | the calls of `claim`, `turnEnded` and `verifierEnded` that stand at an `await` |
| `checks`, `checking`, `words` | verifiers' wakes, their turns, and the last words in the transcript of a verifier's conversation |
| `held` | an approval or a question is open, or a turn is parked: what `busy` says |
| `stale`, `passed`, `left`, `crashes` | history |

`Write` is `setPursuit`: it changes the board and calls the listeners in the same
step, one of which is the loop's `onTaskChanged`. That is why `Start`, `Account`,
`Judge` and the orders all go through it. `Considered` is `consider`: it arms a
timer only if there is none, no continuation is taken to run, and the conversation
is quiet. The timer itself fires as `Start`, or as `FireInVain` when one of its
guards, the mandate or the wake gate says no. Which messages a turn takes is a
person's batch or anybody else's (`Batches`); a continuation is always alone.

Left out of `GoalLoop`: the budget and the deadline (they act where the count
does), the stall and repeat counters (their word is `repeats`), a failure of
`onReady`, the checklist, and further goals of the same conversation in other
states. A verifier's turn that is continued after a restart has lost its marker
and reports to nobody, so it is not followed further. The steps of `rearm` for
several goals run one after another; here they are one.

## 3. What the runs check

### Runs that pass

| Run | Instance | States | Properties |
|---|---|---|---|
| `custody_solo` | one conversation, 3 messages, 2 turns, symmetric | 210 k | `Accounted`, `LineageUnbroken`, `UniqueOwner`, `OneLivePickup`, the refinement `KeepsPromise` |
| `custody_context` | main and private conversation of one agent and another agent that may be removed; startup notes; 2 messages, 1 turn, 1 switch | 337 k | `AccountedInv` (the invariant of the proof), `ContextKept` |
| `bus_team` | three conversations of two agents; two principals, a teammate, the host and a kickoff; pause, resume, failures, a priority message | 722 k | `OneRequestPerTurn`, `OneLoopRun`, `NoLostWakeup`, `TakenInOrder` |
| `bus_live` | the same conversations, mail, a brief and a digest that keep coming, failures, the starvation window | 24 k | `WaitingIsTaken` |
| `steps_solo` | a read and two gated calls, one of them repeatable, two approvals, 2 crashes, 1 failed append | 1.1 M | `NeverTwice`, `HonestAnswer`, `ConsentOnce`, `OpenTurnIsHeld` |
| `steps_live` | two turns, a gated call, two reads side by side, 2 crashes | 325 k | `TurnsEnd` |
| `context` | two commands, two files, two entries, 2 crashes | 102 k | `HistoryKept`, `OpeningIsCurrent`, `AnswerIsTrue`, `SwitchesOnce`, `SwitchFinishes` |
| `pending_work` | two pieces in five pairings of kinds, two items, 2 crashes, 1 failed append, 1 pause | 243 k | `TypeOK`, `ClosedMeansTold`, `RunningStaysOpen`, `ForksEndWithTheProcess`, `NothingRanIsTrue`, `AnsweredStaysAnswered`, `EventuallyTold` |
| `outbound` | a notice next to a draft, and an owed answer; 1 crash, 1 failed append, 1 late answer, 1 *Retry* | 426 k | `TypeOK`, `OncePerReceipt`, `FirstAnswerStands`, `InOrder`, `Settles`, `BookClears` |
| `goal` | one goal, two messages of people and one of a teammate; any 3 of: messages, orders, claims, answers, failed setups, restarts | 1.0 M | `TypeOK`, `OneContinuation`, `Attended`, `VerdictIsAwaited`, `FailsClosed` |

What the properties say:

* **Accounted**: a message the inbox no longer replays is in the `causedBy` of
  a turn that began, in its transcript, or was a declined goal wake. This is what
  the deferred acknowledgement is for: the message leaves the queue at the drain
  and the inbox only after `begin`.
* **LineageUnbroken**: a turn ended as *continued* or *resumed* has an heir on
  disk, either the pending continuation or a turn that began with it.
* **UniqueOwner**: two turns answer for one message only when one of them was
  steered with it and failed before the inbox could say so. (Without startup
  notes; see the disagreements.)
* **OneLivePickup**: of one piece of work at most one turn is open and at most
  one continuation waits, and they are of the same turn, however often a pickup
  is itself interrupted.
* **ContextKept**: an open turn is of the epoch its conversation is in, even when
  nothing runs, as for a turn parked on an approval.
* **KeepsPromise**: the ledgers implement `Custody`. `custodyOf` reads the state
  of each message off the disk; a message is *settled* when no turn of the work
  that holds it is open and no continuation of it waits.
* **OneRequestPerTurn**, **TakenInOrder**: authority does not mix in a turn, a
  kickoff is alone, and inside a lane only a steering message overtakes.
* **OneLoopRun**, **NoLostWakeup**: a burst is one loop with one run in the
  chain; a queued message always has a loop, a run, a returning call or an
  announced wake that will look at it, or a person paused the agent, or a failed
  turn stopped the loop.
* **WaitingIsTaken**: under fairness a message does not wait forever unless the
  agent is paused, a failure stopped its loop, or a higher lane of the same
  conversation is itself behind again and again.
* **NeverTwice**, **HonestAnswer**: a call that must not be repeated takes effect
  at most once, and when the model is told that a call did not run, it did not,
  wherever the crashes fell between request, effect, answer and record.
* **ConsentOnce**: an approval for one run covers one run, through restarts and
  failed appends.
* **OpenTurnIsHeld**, **TurnsEnd**: an open turn is running, has a continuation, or
  is parked under an approval somebody can still answer; and it ends.
* **HistoryKept**, **OpeningIsCurrent**, **AnswerIsTrue**, **SwitchFinishes**: no
  file of the old conversation is lost, a note opens a context only when it is
  about what was left, a command and its redeliveries are answered alike and
  truly, and a prepared switch is finished. **SwitchesOnce**: the store implements
  `SwitchLog`.
* **ClosedMeansTold**, **EventuallyTold**: a record of work that began is closed
  only when the agent has heard, and it hears. **RunningStaysOpen**: while the box
  runs a job that nobody killed, its record is closed in two ways only, a start call
  that failed and a renewal that looked before the box had the job; so a box that
  does not answer at a start does not lose a running job. **ForksEndWithTheProcess**,
  **NothingRanIsTrue**, **AnsweredStaysAnswered**: no fork survives its process, an
  agent told that nothing of a plan ran is told the truth, and an item whose
  answer is kept is not begun again.
* **InOrder**, **OncePerReceipt**, **Settles**: inside a chat no message overtakes
  an earlier one, overlapping callers do not send a receipt twice while the
  process lives and doors tell the truth, and each receipt comes to an end.
  **FirstAnswerStands**: words go out only if the first answer on their draft was
  yes. **BookClears**: the debt of an answer that was written is closed.
* **OneContinuation**: a goal never has two continuations, queued or in a turn,
  however timers, retries, orders and replays fall. **Attended**: an active goal has
  a timer, or something in its conversation whose end makes the loop look again;
  the exceptions are a timer that fired in a quiet conversation in vain (the wake
  gate or the mandate said no) and a continuation whose setup failed.
  **VerdictIsAwaited**: a claim being verified has a verifier on its way whose
  report the gate will take, or a verdict about to be written.
  **FailsClosed**: a goal is complete only if a verifier passed a claim of it.
* **TypeOK** of `PendingWork`, `Outbound` and `GoalLoop` says more than shapes where
  it bounds: one run of a plan in a process, no receipt tried past its limit, no
  verifier woken past its attempts. Those of the other modules are proved (section 4).

Each property of a passing run has a mutant in `PROJECT.json`: an operator marked
*Variant* in the module that changes one definition as a plausible bug would (the
acknowledgement at the drain, a `begin` that leaves the resumed turn open, every
open call run again, consent acted on when its use could not be recorded, a box's
silence taken for an end). TLC finds the property violated with each.

### Runs that find a disagreement

Each checks one sentence of a comment, and fails on what the code does.

| Run | Sentence | What happens |
|---|---|---|
| `steps_shared` | "One parked on a person's approval waits for the answer, however long" (`orchestrator.ts:2085`) | two turns that ask for the same action wait on one approval; after a restart both are parked under it in a map with one place per approval, and the first is never continued |
| `goal_turned_away` | "A continuation that a person's message overtook, or whose goal stopped meanwhile, is not run" (`orchestrator.ts:1853`) | the count that goes up on the board arms the next timer before the continuation is sent; `turnStarting` then finds a timer and turns the continuation away as superseded, though nobody overtook it and the goal is active |

### Disagreements met while modelling

The models contain these behaviours; no run of its own checks them.

* "re-queueing it cannot duplicate a side effect" (`bus.ts:294`): the startup
  sweeps queue and wake first, `recover()` queues their messages again, and two
  turns are opened with one message. `UniqueOwner` and `KeepsPromise` are
  violated with `StartupNotes = TRUE`; `OneLivePickup` is not (section 4).
* "How many times an interrupted turn may be picked up again. Two"
  (`resume.ts:40`): attempts count from 1 and the test is `>=`, so one pickup.
* The note of a turn that was given up is "Reported into the conversation"
  (`orchestrator.ts:2073`), and goes to the agent's main conversation.
* A turn of an older epoch is "not replayed" (`docs/05-data.md:166`): a continuation
  whose setup threw is pending only in the inbox file, `/new` is allowed, and a
  restart continues it in the new context.
* A wake "never interrupts the user's own turn" (`bus.ts:491`): a person's message
  drained by a worker loop's run is not protected.
* "it is written down and it will be delivered" (`bus.ts:421`): what arrives during
  a failing turn stays queued without a loop until other traffic or a restart.
* `pending-work.ts:2`: work is settled only once its findings are in the parent's
  hands. `settleDelegate` (`engine-report.ts:332`) commits first and its caller
  tells the agent afterwards; a crash in between loses the result. Hence
  `ClosedMeansTold` leaves delegated jobs out.
* A delegated job "running stays open" in the ledger (`docs/32-coordination-protocol.md:127`).
  The code leaves a running job without an open record in these ways, all in the
  model; the first two are the exceptions `RunningStaysOpen` names:
  - any exception of `startJob` drops the record (`tools.ts:3370`), also a timeout or
    a lost answer after the box took the job;
  - `Delegate` binds the route to the job id it claims before it writes the engine's
    config and starts the job (`tools.ts:3305`, `3309`, `3360`). A renewal in between,
    or one whose list of jobs is older than the start, finds a bound route whose job
    the box does not list: it revokes the route and settles the record
    (`mcp-face.ts:252`), the agent is told the job ended, and then it runs, without a
    record and without its tools. "A route with no job yet (the start is in flight)
    keeps its first lease untouched" (`mcp-face.ts:229`) holds only before the binding;
  - an answer with another id drops the record (`tools.ts:3378`), although "the ledger
    then follows the box's" (`tools.ts:3373`); that job, *other* here, is never in the
    ledger;
  - `Jobs kill` waits at most 3 s for the end and then settles "either way"
    (`tools.ts:3439`). The code says so; *killed* is a state of its own for this reason.
* A follow-up's durable note and the close of its pause are two appends
  (`effects.ts:229`): after a crash between them the agent is told both that it did
  not run and what it said.
* A plan whose agent is paused keeps "(said nothing)" as an item's answer, for good
  (`orchestrate.ts:328`).
* "The sweep now repeats until the book is clear" (`server.ts`): the debt of a turn
  that wrote nothing is closed only by its request; after a crash it stays open
  and blocks `/new` in that conversation (`server.ts:1062`). `BookClears` excludes
  it by name.
* "so nobody hands it over twice" (`deliveries.ts:92`): the request waits for the
  whole team to be idle (`server.ts:1576`, `bus.ts:948`), the sweep only for the
  answer's own turn; the sweep hands it over meanwhile and the request replies again.
* Compaction of the outbox forgets the ids of what was sent (`outbox.ts`), so a
  repeat after it is sent again; `OncePerReceipt` counts one push.

* A goal that is cleared or paused comes back: `turnEnded` and `verifierEnded`
  write a status after an `await` (or after the turn) without looking again, and
  `claim` and `reject` overwrite whatever the person ordered meanwhile
  (`goal-loop.ts:274`, `goal-gate.ts:146`, `211`, `251`).
* The report of a verifier is matched by status and attempt (`goal-gate.ts:191`),
  not by claim: the late verifier of an earlier claim settles a later one.
* A turn that fails between `turnStarting` and `runTurn` makes no report: `running`
  keeps the goal (`goal-loop.ts:178`), or the goal stays under verification, until
  the next start. So does a goal whose wake was refused by the wake gate or the
  mandate: no timer is left, and the next turn or order is what looks at it.
* "whose goal was overtaken by a person" is decided by `personSeq`, which starts at 0
  in every process: a continuation left by an earlier one is compared with a new count.
* A retry after a failed continuation is started with no limit
  (`goal-loop.ts:294`), so the count of continuations may pass its limit by one per
  retry; and the end of a slow success (`errorStreak: 0` after its awaits) may
  clear the failure that came after it.
* A continuation, or a verifier's turn, continued after a restart carries no marker:
  its end is accounted to nobody, and the verifier's tool scope is not restored.

### Bounds

* `Message`, `Turn`: ids are minted once (UUIDs), so a finite set bounds a
  behaviour's length. Two turns are what every hazard of `TurnCustody` needs (a
  turn and its heir, or two owners of a message); three messages allow a request
  and two continuations, so a pickup that is itself picked up. In `AgentBus` a
  message may be sent again once its turn is over, so behaviours do not end.
* `MaxResumes` is the code's 2, and 3 in `steps_solo`, so that a turn can be picked
  up twice there (the code's 2 allows one pickup). A clean exit does not spend an
  attempt, so it does not bound the number of pickups; the message ids do.
* `MaxEpoch` = 1: a switch before or after everything else.
* `MaxRuns` bounds how many `runExclusive` calls of one worker a person's prompts
  may pile up; 2 is a run in flight and one behind it.
* `BatchItems` = 2 makes both the limit and a batch below it happen.
* `MaxCrashes` = 2 where a crash inside a recovery matters (`TurnSteps`,
  `ContextEpoch`, `PendingWork`), 1 in `Outbound`, whose start is one step.
* `MaxLost` = 1: one failed append anywhere, next to every crash. Properties that
  are promised only with every append made say so (`lost = 0`); they are checked
  on the same instance.
* `Call`: three calls are two of one fingerprint, so a grant of one can be used by
  the other, next to one of another. `Approval`: two, so one can replace another.
* `Op`, `File`, `MaxEntries` = 2: a second switch that no longer migrates, a
  migration with something between its files, a draft that is out of date.
* `Work` = 2 in the pairings of `Pairs`: two forks share a call and its join, each
  other kind meets one whose recovery step is different.
* `MaxAttempts` = 2 (the code's 3): a first failure and a last one.
  `CompactAt` = 2 (the code's 500): a compaction with something pending.
  `MaxPushes` = 2: the same notice pushed again. `MaxRetries` = `MaxLate` = 1.
* `MaxEvents` = 3 in `goal`: any three disturbances together, in any order. Without
  one the loop goes on by itself. Instances with 4 events (5.8 M states), with
  `Limit` = 2 and three continuations (5.2 M) and with two claims that meet mail
  (15.7 M) hold as well; they take longer than a run should. `MaxWakes` = 2,
  `Limit` = 1: a continuation and the finish-only turn after it. `AntiSpin` = 2,
  `Retries` = 1, `Rejections` = 2 are the smallest that have a step before the last
  (the code's 3, 2, 3); `Attempts` is the code's 2. `goal_turned_away` has no event:
  a goal alone is enough.
* `Fails`, `Starves`, `StartupNotes` switch a feature off where a run is about
  something else. Crashes and failing setups are always on in `TurnCustody`.
* Symmetry over messages and turns (`TurnCustody`) and over the messages of people
  (`GoalLoop`) is used only for invariants and for the action property of the
  refinement, whose definitions treat ids alike; runs with a liveness property use
  none.
* Deadlock is checked for `TurnCustody`, where a restart is always possible. It is
  off elsewhere: in one life of the process every message may be queued behind a
  paused agent (`AgentBus`), and in the others all commands may be served, all
  work done, everything sent and the bounded crashes spent; a goal ends paused,
  cleared or complete.

### Fairness

All of it is weak: each of these steps stays possible until it is taken. Nothing
assumes that anybody sends, types, pauses, resumes, approves or presses a button.

* `AgentBus!FairSpec`: a run that can proceed does (`await previous` settles, a turn
  ends: its rounds, its continuations and each request are bounded by limits and
  timeouts), a settled run's caller goes on, a worker loop takes its next step:
  these are microtasks of one event loop. Time passes (`Starve`, per message) and
  a resume reaches its `wake()`.
* `TurnSteps!LiveSpec`: the code goes on by itself, tool calls return (each has a
  timeout), the process manager starts the host again, and an approval nobody
  answers is refused by the minute timer after a day.
* `ContextEpoch!LiveSpec`: a start follows a crash, and the code of a switch does
  not pause.
* `PendingWork!LiveSpec`: code that has begun goes on, turns and callbacks come back,
  a confirmation nobody answers is refused after a day. Boxes are not assumed to
  answer, jobs are not assumed to end.
* `Outbound!LiveSpec`: the door answers or times out, turns end, the sweep is a
  timer, the host is started again. That the request itself returns is not
  assumed.
* `GoalLoop` assumes none. That something will look at a goal or a claim is stated
  as what is there to do it (`Attended`, `VerdictIsAwaited`).

## 4. What is proved

Each theorem holds for every value of the constants its module's `ASSUME` allows
(TLC evaluates it on every run). Where a theorem needs more of the constants, it says
so as an `ASSUME` of its own: no startup notes in `OneOwner` and `PromiseIsKept`, no
action shared by two turns in `OpenTurnsAreHeld`. Both are cases in which TLC finds
the properties false of the code (section 3), so neither can be left out. The proofs
rest on inductive invariants, conjunctions of named parts: the properties hold
because of what earlier steps left, so few of them are inductive alone.

### Custody: `TurnCustody_proofs`

For every set of workers, messages and turns, every `MaxResumes` above zero and
every `MaxEpoch`, with and without startup notes: `CustodyInvariant`
(`Spec => []AccountedInv`), `TypeCorrect` (of which the bound on attempts is the part
that needs an argument) and `MessagesAccounted` (`Spec => []Accounted`).

`AccountedInv` adds to `Accounted`

* `QueuedIsAdmitted`, `BatchIsAdmitted`: nothing is queued or held that was not
  admitted, so an id cannot be admitted again while it is in flight;
* `BatchIsUniform`: a batch is of one kind, hence a continuation never rides with
  a request. Without it `begin` could put a request under the old turn's id with
  no opening entry, and the next `begin` of that id would forget it;
* `StageIsOnDisk`: what a turn has written by each stage, in particular that
  whatever is still to be acknowledged is already held;
* `OpeningOutlivesBegin`: a later `begin` of the same id replaces `causedBy`, but
  what it forgets is a continuation or still in the opening entry;
* `PointersAreBegun`: markers, the sweep, parked turns and half-done startup
  steps point at turns that began.

The proof is laid out by what a step does to the ledgers rather than by action:
`QuietStep` (nothing is admitted or acknowledged), `EnqueueStep`, `StartedStep`
(something held is acknowledged) and `LedgerStep` (what is attributed to a turn
grows) are each proved once, and every action is one of the four.

`LineageIsUnbroken` adds what a pickup leaves between its two appends
(`LineageInv`): a turn about to be handed over has its continuation in the inbox
(`HandedOver`), a turn that began with a continuation names the turns it resumed
(`LineageKept`), and steering never brings one (`SteeredAreChats`), so an heir is
never lost to a later `begin`. `ContextIsKept` needs only what `AccountedInv` says of
pointers: a switch is refused while anything of the conversation is open.

### Picking up: `TurnPickup_proofs`

With the same constants, and whatever the startup sweeps deliver before `recover()`:
`ContinuationInvariant` and `OnePickup` (`OneLivePickup`). The sweeps' messages may be
in two places, and a turn one of them began may be running while `resumeInterrupted`
takes it for interrupted: it continues or parks a turn that runs on, and that may be
over before its approval is answered. That the work has one pickup all the same is
`ContinuationInv`: `LineageInv`, and

* `WorkInv`, of the files: what a marker says of its turn stays true
  (`MarkersAreTrue`), a turn that ended or waits for its continuation owes the inbox
  none (`EndedIsPaid`, `WaitingIsPaid`), and the property itself without its
  cardinalities (`OneOpen`, `OneWaiting`, `WaitingIsOpen`);
* `HoldInv`, of the process: before `recover()` nothing but startup notes is about
  (`LifeInv`); a continuation that may still be given to a turn is in one place, and no
  open turn has it (`PickupOnce`, `PickupIsLoose`); whoever is in an open turn is the
  only one to continue its work, apart from a pickup that is half done
  (`CarriedAlone`); the work of a parked turn has neither another open turn nor a
  continuation (`ParkedStands`); when `resumeInterrupted` looks, every continuation
  that waits has been queued (`PickupsReplayed`).

Continuations are what counts here: a note can be replayed while it is queued, but a
continuation is written by `resumeInterrupted` and by an answered approval alone,
after the replay.

Without startup notes: `PickupInvariant`, `OneOwner` (`UniqueOwner`),
`PromiseInvariant` and `PromiseIsKept` (`KeepsPromise`). `PickupInv` is `LineageInv`
with what the files keep and what the process holds:

* `LedgerInv`: what waits for a turn waits at the turn's conversation and under its
  work; a turn whose continuation waits owes the inbox nothing; what the inbox would
  replay of a turn that ended was steered into it as it failed; and the properties
  themselves;
* `ProcessInv`: a message that may still be given to a turn is in one place, the queue
  or one batch (`LooseOnce`), and no turn has it (`LooseIsFree`); a running turn has no
  pickup of its work about (`RunningIsOpen`), nor has one that is parked
  (`ParkedIsOpen`); when `resumeInterrupted` looks, the replay has been queued
  (`Replayed`).

The refinement then goes step by step: `PromiseIsKept` maps the initial state of the
ledgers to that of `Custody`, and each action to one of its steps or to a stutter. An
append that admits is `Custody`'s acceptance, an acknowledgement takes a message up,
the end of the last open turn of a piece of work settles it. That this happens for the
messages of one piece of work only, and never back from *settled*, is `PickupInv` with
`ContinuesOwnWork`.

### Inside a turn: `TurnSteps_proofs`

For every set of turns, approvals and actions, every finite set of calls, any
number of crashes and failed appends: `StepsInvariant`, and from it
`StepsTypeCorrect`, `CallsRunOnce` (`NeverTwice`), `AnswersAreHonest`
(`HonestAnswer`) and `ConsentIsForOneRun` (`ConsentOnce`). `StepsInv` is

* `CallsInBatch`, `TurnsBegun`: a call that is worked on belongs to a turn that
  runs or replays; nothing runs before the sweep of the start is over;
* `RunOnce`, `RunIsOpen`: a call that must not be repeated is dispatched with its
  record, and until it is answered the record says so, also in what a replay read;
* `ClaimsHold`: what is said not to have run has not, nor what a person was asked
  about;
* `ConsentUsed`: an approval that was used is no grant any more, neither in the
  gate's memory nor in what the next start will read of the log.

The last two are the point: the disk, the memory and the transcript each hold a
part of the truth, and a crash takes one of them away.

`OpenTurnsAreHeld` (`OpenTurnIsHeld`) assumes `ApartActions`: gated calls of one
action belong to one turn. The map of parked turns has one place per approval and an
approval belongs to an action, so two turns that ask for one share a place;
`steps_shared` is that case. With it, a turn is parked on an approval of its own
action (`WaitsOwn`, `ParkedOwn`), so nothing is parked over it (`SweptOrHeld`).

### Context switches: `ContextEpoch_proofs`

For every set of files, every finite set of commands, any number of entries and
crashes: `ContextInvariant`, `ContextTypeCorrect`, `HistoryIsKept`,
`NotesAreCurrent`, `AnswersAreTrue`, the action property `OpeningsStay` (once a
context has its opening note, no step replaces it), and `SwitchesAreOnce`: the
initial states map to those of `SwitchLog`, and every step to one of its steps or
a stutter. `ContextInv` says where each file is at each stage (`FilesInv`), that the
prepared command has made no switch yet (`SwitchInv`), that the state names the
openings there are (`OpeningInv`), and that a note is labelled with what it was
written from (`NoteInv`). A switch made is found again by the number of ids: as many
ids as switches, so there is always room for one more context (`RoomForOne`).

### The bus: `AgentBus_proofs`

For any agents, conversations and messages, any limit on a batch and any length
of the queues and chains: `BusInvariant`, `BusTypeCorrect`, `TurnsAreOneRequest`,
`LoopsRunOnce`, `WakeupsAreKept` and `LanesAreInOrder` (the properties of
`bus_team`). Assumed of the constants: each message has one conversation, a notice
about a message goes to its sender, batches hold at least one. `BusInv` is

* `Ordered`: a queue is totally ordered and has no endless descent, so that what
  waits has a first one, also in an infinite set of messages;
* `Requests`: what `OneRequestPerTurn` says of each turn;
* `LoopKnown`, `TurnHeld`: a chain holds one run of the loop exactly while the loop
  waits for one, and the turn in flight is its head;
* `Attended`: where nobody else will look (no loop, no returning call, no pause,
  no announced wake), every waiting message has a run of its own still to come,
  not counting the one in flight: the messages that wait and the turn are at most
  as many as the chain is long. This is why a lost wake-up cannot happen: each
  prompt of a person adds one message and one run, and a run that takes nothing
  found nothing.

### Pending work: `PendingWork_proofs`

For any finite set of pieces of work in any mix of kinds, any items, any number of crashes, pauses
and failed appends: `PendingInvariant`, `PendingTypeCorrect` (`TypeOK`),
`ClosedWorkIsTold` (`ClosedMeansTold`), the action property `RunningJobsStayOpen`
(`RunningStaysOpen`), `ForksAreOfThisProcess` (`ForksEndWithTheProcess`), `NothingRanIsTold`
(`NothingRanIsTrue`) and the action property `AnsweredItemsStay`
(`AnsweredStaysAnswered`). `PendingInv` speaks of each piece by itself, beside the types:

* `Placed`: what the code may be doing with a piece of each kind, and which of the
  files may know it;
* `Unbegun`, `Heard`: nothing begins before its record, and the record of what began
  is closed only when the agent was told, or is still to be told a follow-up's note,
  whichever of the two appends is lost;
* `Watched`: what sets out to settle a job's record saw its end, or the job was
  killed. With `WhoCloses`, which goes through every step that could close the record
  of a delegated job (the end of the start call, a settling, a start's sweep), it gives
  `RunningStaysOpen`;
* `OfThisProcess`, `Listed`: the sweep of a start goes through every fork before
  anything is served;
* `Asked`: a confirmation that waits is of a plan of which nothing began. Only this
  one needs that every append is made: a lost record of the answer is what would
  make the host ask again about a plan that runs.

### What is sent: `Outbound_proofs`

For any finite set of messages, any mix of their kinds, any limits, any number of
crashes, failed appends, late answers and *Retries*: `OutboundInvariant`,
`OutboundTypeCorrect` (`TypeOK`), `TheFirstAnswerStands` (`FirstAnswerStands`),
`OncePerReceiptHolds` (`OncePerReceipt`) and the action property `MessagesGoInOrder`
(`InOrder`). They begin with lemmas about `Only` (what it keeps, once each and in its
order), the one operator a compaction, a restart and a *Retry* share.

* `OutboundInv` says that log and receipts are of the same messages (`StoreOK`), that
  a process which is down has nothing in memory (`Down`), and of each message that
  what brought it into the chain fits what it is (`ChainKind`, `BookKind`), that a
  draft, its consent and its first answer agree at every stage (`DraftOK`), and that
  the words of a draft are on their way only after a yes (`WordsOK`);
* `OnceInv`, for `OncePerReceipt`: in a quiet life of the process each message is at
  most once in the chain, its words have gone only if it is the head being sent, and
  the side that opened it has *spent* what would let it open it again (`Spent`: the
  push is made, the debt is noted, the consent is read). This last part is needed
  because a compaction forgets the receipts of what went;
* `LineOK`, for `InOrder`: while no append fails and nobody presses *Retry* the chain
  is the log without what is settled or given up, in its order. A failure leaves
  the head where it is, a compaction keeps the order of what it keeps, and `resume()`
  reads the line back from the log.

### Goals: `GoalLoop_proofs`

For any goals and messages, any limits and any number of continuations and
disturbances: `GoalTypeCorrect` (`TypeOK`), `GoalOneContinuation`, `GoalAttended`,
`GoalFailsClosed` and `GoalVerdictIsAwaited`, all the properties of the run `goal`.
Assumed of the constants: the limits are above zero, and no message of another
kind is a continuation. Beside the types the invariants are

* `AloneInv`: continuations in the queue are of different goals, and of others than
  the one in the turn; a goal whose continuation is being set up, or was left in the
  inbox file by a failed setup, is *bound* (`running`, and no timer), and what was
  left is alone. A bound goal gets no timer (`BoundStays`), so nothing can be sent
  for it, and a restart, which brings all three back into the queue, brings one;
* `RunningIs`: a goal is in `running` only while the turn of its continuation lasts
  or that continuation is left in the inbox file. Without it the loop could believe
  for ever that a turn is still going, and `Attended` would fail;
* `PassIsSaid`: a pass on its way (in a turn, in a transcript, at the gate) was said;
* `BoardMoves` is the lemma that splits the board from the actions: a step leaves
  where a goal stands, makes it active, paused or cleared, completes it on a
  passed verdict, or puts it under verification with a wake. `FailsClosed` and
  `VerdictIsAwaited` follow from it, the latter with `WakesStay` and `JudgingStays`.

### Only model-checked

Liveness under fairness, which is out of the prover's reach: `WaitingIsTaken`,
`TurnsEnd`, `SwitchFinishes`, `EventuallyTold`, `Settles`, `BookClears`. Every
invariant and action property of a passing run is proved.

## 5. Plan

Done: `Custody`, `TurnCustody`, `AgentBus`, `TurnSteps`, `SwitchLog`, `ContextEpoch`,
`PendingWork`, `Outbound` and `GoalLoop`, each with the proofs of all its safety
properties, and of the two refinements.

Left, most important first:

1. What the theorems with an assumption say without it: of startup notes, that a
   message has at most the two owners the replay gives it; of shared actions, that
   a turn that is not held waits for an approval under which another is parked.
2. The lemmas the liveness properties rest on as invariants: in each state that is
   not yet the goal, which action is enabled and brings it nearer.
3. Modules for the ingress and card ledgers of the chat doors, the relay's ceiling,
   the actor queue, and usage collection of the control plane.
4. Pure parts against reference definitions: `drain` on sequences, `boundBatch`.

## 6. Not modelled, and why

Prompt assembly, memory selection, compaction of a conversation and providers decide
what a model reads; their correctness is not a matter of states. Chat doors, boxes,
boxd, computer use, egress and the watchdogs are mostly I/O against vendors,
containers and other processes; what is sent through a door is `Outbound`'s. The
task board, schedules and budgets are state machines over single files with one
writer, of which `GoalLoop` has the part that calls back (`setPursuit`). Most of the
web server and the command line is routes and arguments over the components above.

File compaction rewrites a ledger in one rename and keeps what readers need; it is
taken as invisible, except in the outbox, where it forgets. Failures of appends are
modelled where the code reacts to them. Several hosts over one state directory are
excluded by the code's own assumption (`resume.ts`, `interrupted`).
