------------------------------- MODULE TurnSteps -------------------------------
(***************************************************************************)
(* What the model is told about its tool calls, and what was really run,   *)
(* when the host dies inside a turn.                                       *)
(*                                                                         *)
(* A turn asks for a batch of calls.  The batch is in the transcript       *)
(* before any call runs; a call is pending in the step ledger before it is *)
(* dispatched and settled after its result is in the transcript.  The      *)
(* policy gate may hand a call to a person.  A restart continues a turn    *)
(* the step ledger knows: it answers the calls the turn was inside of from *)
(* these records, before the model is asked anything.  A turn with a call  *)
(* a person has not decided is parked until they have.                     *)
(*                                                                         *)
(* A crash loses the memory.  An append may fail where the code goes on    *)
(* without it (LoseAppends); that is also what a crash between two appends *)
(* leaves.  TurnCustody has the clean exits and the turns begun before the *)
(* sweep is over; here the sweep ends before a turn begins.  Compaction of *)
(* the two logs is left out.                                               *)
(***************************************************************************)
EXTENDS Naturals, FiniteSets

CONSTANTS
    Turn, Call,    \* turn ids and tool_use ids
    Approval,      \* approval ids, numbered in the order they are requested
    Action,        \* what a fingerprint names: a subject and an action's text
    None,
    Owner,         \* the turn a call belongs to
    Place,         \* the place of a call in what its turn asks
    ActionOf,      \* the fingerprint of a call
    Replayable,    \* safeToReplay or replaysToSameState: reads, keyed writes
    Parallel,      \* PARALLEL_SAFE_TOOLS
    Gated,         \* calls a person has to allow
    MaxResumes,    \* MAX_RESUMES
    MaxCrashes,    \* bound: crashes
    MaxLost        \* bound: appends that fail

ASSUME StepConstants ==
    /\ IsFiniteSet(Call)
    /\ Owner \in [Call -> Turn]
    /\ Place \in [Call -> Nat]
    /\ ActionOf \in [Call -> Action]
    /\ Replayable \subseteq Call /\ Parallel \subseteq Call /\ Gated \subseteq Call
    /\ Approval \subseteq Nat
    /\ None \notin Turn \cup Approval \cup Action
    /\ MaxResumes \in Nat /\ MaxCrashes \in Nat /\ MaxLost \in Nat

VARIABLES
    log,       \* disk: turns.jsonl, and whether steps were closed
    kept,      \* disk: the continuation of a turn in the inbox
    step,      \* disk: turn-steps.jsonl: absent, open or settled
    waits,     \* disk: the approval a step waits for
    answer,    \* disk: the transcript's result of a call
    told,      \* disk: what a line of the host says of a call, later
    about,     \* the action an approval is about
    row,       \* disk: the policy log, per approval
    gate,      \* memory: the same in the gate
    life,      \* memory: down, starting or up
    sweep,     \* memory: interrupted turns the startup has left
    phase,     \* memory: where runTurn is
    doing,     \* memory: where runOne is
    snap,      \* memory: what the replay read as it began
    parked,    \* memory: the turn waiting for an approval
    ran,       \* history: how often a call took effect
    spent,     \* history: runs an approval for one run covered
    lost,      \* history: appends lost
    crashes    \* history: crashes

ledgers == <<log, kept, step, waits>>
record == <<answer, told>>
consent == <<about, row, gate>>
memory == <<phase, doing, snap, parked>>
history == <<ran, spent>>
process == <<life, sweep, crashes>>
vars == <<ledgers, record, consent, memory, history, process, lost>>

Calls(t) == {c \in Call : Owner[c] = t}
Batch(t) == {c \in Calls(t) : answer[c] = "asked"}
OpenSteps(t) == {c \in Calls(t) : step[c] = "open"}
Known(t) == log[t].closed \/ \E c \in Calls(t) : step[c] # "absent"
Awaiting == {a \in Approval : gate[a] = "awaiting"}

\* What each answer claims about the call.
NotRun == {"held", "failed", "not_started", "allowed", "refused", "gone", "pending"}
Answers == {"unasked", "asked", "ran", "replayed", "outcome_unknown", "unrecorded"}
             \cup NotRun
Doing == {"idle", "todo", "checking", "running", "ran", "held", "failed"}
Phases == {"idle", "thinking", "running", "replaying", "setup"}
Endings == {"none", "open", "continued", "resumed", "given-up", "done"}
Rows == {"none", "awaiting", "once", "session", "always", "answered"}
Nothing == [turn |-> FALSE, approval |-> None, how |-> "gone", attempt |-> 0]
Blank == [open |-> {}, pending |-> {}]

LoseAppends(n) == lost + n <= MaxLost /\ lost' = lost + n
Lossy(ok) == LoseAppends(IF ok THEN 0 ELSE 1)

Init ==
    /\ log = [t \in Turn |-> [how |-> "none", attempt |-> 0, closed |-> FALSE]]
    /\ kept = [t \in Turn |-> Nothing]
    /\ step = [c \in Call |-> "absent"] /\ waits = [c \in Call |-> None]
    /\ answer = [c \in Call |-> "unasked"] /\ told = [c \in Call |-> "none"]
    /\ about = [a \in Approval |-> None]
    /\ row = [a \in Approval |-> "none"] /\ gate = [a \in Approval |-> "none"]
    /\ life = "up" /\ sweep = {}
    /\ phase = [t \in Turn |-> "idle"] /\ doing = [c \in Call |-> "idle"]
    /\ snap = [t \in Turn |-> Blank]
    /\ parked = [a \in Approval |-> None]
    /\ ran = [c \in Call |-> 0] /\ spent = [a \in Approval |-> 0]
    /\ lost = 0 /\ crashes = 0

----------------------------------------------------------------------------
(* A turn and its rounds.                                                  *)

\* turns.jsonl after a begin record, and after an end record and the closing of
\* the steps, either of which may be missing.
Begun(t, attempt) ==
    [log EXCEPT ![t] = [how |-> "open", attempt |-> attempt, closed |-> log[t].closed]]
Ended(t, how, recorded, closed) ==
    [log EXCEPT ![t] = [how |-> IF recorded THEN how ELSE log[t].how,
                        attempt |-> log[t].attempt, closed |-> log[t].closed \/ closed]]

BeginFresh(t) ==
    /\ life = "up" /\ log[t].how = "none" /\ phase[t] = "idle"
    /\ log' = Begun(t, 1)
    /\ phase' = [phase EXCEPT ![t] = "thinking"]
    /\ UNCHANGED <<kept, step, waits, record, consent, doing, snap, parked,
                   history, process, lost>>

\* The blocks entry is appended before any of its calls runs.
Ask(t, B) ==
    /\ life = "up" /\ phase[t] = "thinking"
    /\ B # {} /\ \A c \in B : answer[c] = "unasked"
    /\ answer' = [c \in Call |-> IF c \in B THEN "asked" ELSE answer[c]]
    /\ doing' = [c \in Call |-> IF c \in B THEN "todo" ELSE doing[c]]
    /\ phase' = [phase EXCEPT ![t] = "running"]
    /\ UNCHANGED <<ledgers, told, consent, snap, parked, history, process, lost>>

\* Reads side by side, everything else alone, in the order of the model.
InOrder(c) ==
    \A d \in Batch(Owner[c]) :
        Place[d] < Place[c] =>
            \/ doing[d] \in {"idle", "ran", "held", "failed"}
            \/ {e \in Batch(Owner[c]) : Place[d] <= Place[e] /\ Place[e] <= Place[c]}
                 \subseteq Parallel

\* The pending record is required: without it the call is not dispatched.
\* Variant: it is dispatched all the same.
DispatchedAnyway(recorded) == TRUE

Dispatched(recorded) == recorded

Start(c, ok) ==
    /\ life = "up" /\ phase[Owner[c]] = "running"
    /\ doing[c] = "todo" /\ InOrder(c)
    /\ Lossy(ok)
    /\ step' = IF ok THEN [step EXCEPT ![c] = "open"] ELSE step
    /\ doing' = [doing EXCEPT ![c] = IF Dispatched(ok) THEN "checking" ELSE "failed"]
    /\ UNCHANGED <<log, kept, waits, record, consent, phase, snap, parked,
                   history, process>>

----------------------------------------------------------------------------
(* The policy gate, on a first run and on a re-run.                        *)

Checking(c) == life = "up" /\ doing[c] = "checking" /\ InOrder(c)

\* A standing grant, a session's, or one that is used up by this run.
Covering(c) ==
    LET Of(g) == {a \in Approval : about[a] = ActionOf[c] /\ gate[a] = g}
    IN IF c \notin Gated THEN {}
       ELSE IF Of("always") # {} THEN Of("always")
       ELSE IF Of("session") # {} THEN Of("session") ELSE Of("once")

Pass(c) ==
    /\ Checking(c) /\ c \notin Gated
    /\ doing' = [doing EXCEPT ![c] = "running"]
    /\ UNCHANGED <<ledgers, record, consent, phase, snap, parked, history, process, lost>>

\* Variant: consent is acted on, recorded or not.
AlwaysActedOn(recorded) == TRUE

\* Consent that cannot be recorded as used is not acted on.
ActedOn(recorded) == recorded

UseGrant(c, a, ok) ==
    /\ Checking(c) /\ a \in Covering(c)
    /\ Lossy(ok)
    /\ gate' = IF gate[a] = "once" THEN [gate EXCEPT ![a] = "gone"] ELSE gate
    /\ row' = IF ok /\ row[a] # "always" THEN [row EXCEPT ![a] = "answered"] ELSE row
    /\ doing' = [doing EXCEPT ![c] = IF ActedOn(ok) THEN "running" ELSE "failed"]
    /\ spent' = IF ActedOn(ok) /\ gate[a] = "once" THEN [spent EXCEPT ![a] = @ + 1] ELSE spent
    /\ UNCHANGED <<ledgers, record, about, phase, snap, parked, ran, process>>

Unused(a) == about[a] = None /\ \A b \in Approval : b < a => about[b] # None

\* Nothing covers it: the approval already waiting for this action, or a new
\* one, which awaitingApproval() then records with the step.
HandToPerson(c, a, requested, marked) ==
    /\ Checking(c) /\ c \in Gated /\ Covering(c) = {}
    /\ LET same == {b \in Awaiting : about[b] = ActionOf[c]}
       IN IF same # {} THEN a \in same /\ requested /\ UNCHANGED row
          ELSE /\ Unused(a)
               /\ row' = IF requested THEN [row EXCEPT ![a] = "awaiting"] ELSE row
    /\ LoseAppends((IF requested THEN 0 ELSE 1) + (IF marked THEN 0 ELSE 1))
    /\ about' = [about EXCEPT ![a] = ActionOf[c]]
    /\ gate' = [gate EXCEPT ![a] = "awaiting"]
    /\ waits' = IF marked THEN [waits EXCEPT ![c] = a] ELSE waits
    /\ doing' = [doing EXCEPT ![c] = "held"]
    /\ UNCHANGED <<log, kept, step, record, phase, snap, parked, history, process>>

\* The call took effect and its answer is in memory.
Return(c) ==
    /\ life = "up" /\ doing[c] = "running"
    /\ doing' = [doing EXCEPT ![c] = "ran"]
    /\ ran' = [ran EXCEPT ![c] = @ + 1]
    /\ UNCHANGED <<ledgers, record, consent, phase, snap, parked, spent, process, lost>>

SettleSteps(S) == step' = [c \in Call |-> IF c \in S THEN "settled" ELSE step[c]]

\* The results entry, and then the settled records, one by one; a call that
\* waits for a person is left open.
RecordResults(t, miss) ==
    /\ life = "up" /\ phase[t] = "running"
    /\ \A c \in Batch(t) : doing[c] \in {"ran", "held", "failed"}
    /\ LET over == {c \in Batch(t) : doing[c] # "held"} \cap OpenSteps(t)
       IN /\ miss \subseteq over
          /\ LoseAppends(Cardinality(miss))
          /\ SettleSteps(over \ miss)
    /\ answer' = [c \in Call |-> IF c \in Batch(t) THEN doing[c] ELSE answer[c]]
    /\ doing' = [c \in Call |-> IF c \in Batch(t) THEN "idle" ELSE doing[c]]
    /\ phase' = [phase EXCEPT ![t] = "thinking"]
    /\ UNCHANGED <<log, kept, waits, told, consent, snap, parked, history, process>>

\* finish(): the end record, then closed, which ends every step of the turn.
Conclude(t, ended, closed) ==
    /\ life = "up" /\ phase[t] = "thinking"
    /\ LoseAppends((IF ended THEN 0 ELSE 1) + (IF closed THEN 0 ELSE 1))
    /\ log' = Ended(t, "done", ended, closed)
    /\ IF closed THEN SettleSteps(OpenSteps(t)) ELSE UNCHANGED step
    /\ phase' = [phase EXCEPT ![t] = "idle"]
    /\ UNCHANGED <<kept, waits, record, consent, doing, snap, parked, history, process>>

\* Another turn of the conversation writes after a batch with no results: the
\* request the model sees now answers its calls UNRECORDED_RESULT (repairPairs).
Overtake(t) ==
    /\ life = "up" /\ phase[t] = "idle" /\ Batch(t) # {}
    /\ answer' = [c \in Call |-> IF c \in Batch(t) THEN "unrecorded" ELSE answer[c]]
    /\ UNCHANGED <<ledgers, told, consent, memory, history, process, lost>>

----------------------------------------------------------------------------
(* What a person does, and what follows from it.                           *)

\* continueTurn(): the continuation is admitted, then the turn is handed over.
Continue(t, a, how, ended) ==
    /\ kept' = [kept EXCEPT ![t] = [turn |-> TRUE, approval |-> a, how |-> how,
                                    attempt |-> log[t].attempt + 1]]
    /\ log' = Ended(t, "continued", ended, FALSE)

\* Variant: the answer closes a step and forgets the turn parked on it.
OnlyStepsSettled(a, how, ok) ==
    /\ LET waiting == {c \in Call : step[c] = "open" /\ waits[c] = a}
       IN IF waiting = {} THEN UNCHANGED step ELSE \E c \in waiting : SettleSteps({c})
    /\ UNCHANGED <<kept, log, parked>>

\* onApprovalSettled: a parked turn continues (the gate swallows a failure of
\* it); otherwise the first step waiting for this approval closes.
Settled(a, how, ok) ==
    IF parked[a] # None
    THEN /\ parked' = [parked EXCEPT ![a] = None]
         /\ UNCHANGED step
         /\ \/ Continue(parked[a], a, how, ok)
            \/ ~ok /\ UNCHANGED <<kept, log>>
    ELSE /\ LET waiting == {c \in Call : step[c] = "open" /\ waits[c] = a}
            IN IF waiting = {} \/ ~ok THEN UNCHANGED step
               ELSE \E c \in waiting : SettleSteps({c})
         /\ UNCHANGED <<kept, log, parked>>

Decide(a, to, how, written, ok) ==
    /\ life = "up" /\ a \in Awaiting
    /\ LoseAppends((IF written THEN 0 ELSE 1) + (IF ok THEN 0 ELSE 1))
    /\ row' = IF written THEN [row EXCEPT ![a] = IF to = "gone" THEN "answered" ELSE to]
              ELSE row
    /\ Settled(a, how, ok)
    /\ UNCHANGED <<waits, record, about, phase, doing, snap, history, process>>

\* A second grant of the same action replaces one nobody used.
Grant(a, scope, written, ok) ==
    /\ Decide(a, scope, "allowed", written, ok)
    /\ gate' = [b \in Approval |->
                  IF b = a THEN scope
                  ELSE IF scope = "once" /\ gate[b] = "once" /\ about[b] = about[a]
                  THEN "gone" ELSE gate[b]]

\* A person refuses, or the minute timer finds the approval a day old or that
\* no open turn waits for it.
Deny(a, written, ok) ==
    /\ Decide(a, "gone", "refused", written, ok)
    /\ gate' = [gate EXCEPT ![a] = "gone"]

RevokeStanding(a, written) ==
    /\ life = "up" /\ gate[a] = "always"
    /\ Lossy(written)
    /\ gate' = [gate EXCEPT ![a] = "gone"]
    /\ row' = IF written THEN [row EXCEPT ![a] = "answered"] ELSE row
    /\ UNCHANGED <<ledgers, record, about, memory, history, process>>

----------------------------------------------------------------------------
(* A crash, and the start after it.                                        *)

Crash ==
    /\ life # "down" /\ crashes < MaxCrashes
    /\ life' = "down" /\ crashes' = crashes + 1 /\ sweep' = {}
    /\ phase' = [t \in Turn |-> "idle"] /\ doing' = [c \in Call |-> "idle"]
    /\ snap' = [t \in Turn |-> Blank]
    /\ parked' = [a \in Approval |-> None]
    /\ gate' = [a \in Approval |-> "none"]
    /\ UNCHANGED <<ledgers, record, about, row, history, lost>>

\* replay(): the log read in order, keyed by the action.  A grant for the
\* session belonged to the process that ended.
Replayed(a) ==
    LET later(S) == \E b \in Approval : b > a /\ about[b] = about[a] /\ row[b] \in S
    IN IF \/ row[a] = "awaiting" /\ ~later(Rows \ {"none"})
          \/ row[a] = "once" /\ ~later({"once", "answered"})
          \/ row[a] = "always"
       THEN row[a] ELSE IF about[a] = None THEN "none" ELSE "gone"

Restart ==
    /\ life = "down"
    /\ life' = "starting"
    /\ gate' = [a \in Approval |-> Replayed(a)]
    /\ sweep' = {t \in Turn : log[t].how = "open"}
    /\ UNCHANGED <<ledgers, record, about, row, memory, history, lost, crashes>>

\* resumeInterrupted(): the inbox has its continuation, it is given up, parked,
\* continued, or (unknown to the step ledger) handed to a turn of another id.
Sweep(t, ended) ==
    /\ life = "starting" /\ t \in sweep
    /\ sweep' = sweep \ {t}
    /\ Lossy(ended)
    /\ LET waiting == {c \in OpenSteps(t) : waits[c] \in Awaiting}
           Hide == answer' = [c \in Call |-> IF c \in Batch(t) THEN "unrecorded" ELSE answer[c]]
       IN \/ /\ kept[t].turn /\ ended
             /\ UNCHANGED <<log, kept, step, answer, parked>>
          \/ /\ ~kept[t].turn /\ log[t].attempt >= MaxResumes
             /\ log' = Ended(t, "given-up", ended, TRUE)
             /\ SettleSteps(OpenSteps(t)) /\ Hide
             /\ UNCHANGED <<kept, parked>>
          \/ /\ ~kept[t].turn /\ log[t].attempt < MaxResumes /\ Known(t) /\ waiting # {} /\ ended
             /\ \E c \in waiting : parked' = [parked EXCEPT ![waits[c]] = t]
             /\ UNCHANGED <<log, kept, step, answer>>
          \/ /\ ~kept[t].turn /\ log[t].attempt < MaxResumes /\ Known(t) /\ waiting = {}
             /\ Continue(t, None, "gone", ended)
             /\ UNCHANGED <<step, answer, parked>>
          \/ /\ ~kept[t].turn /\ log[t].attempt < MaxResumes /\ ~Known(t)
             /\ log' = Ended(t, "resumed", TRUE, FALSE)
             /\ ended /\ Hide
             /\ UNCHANGED <<kept, step, parked>>
    /\ UNCHANGED <<waits, told, consent, life, phase, doing, snap, history, crashes>>

Serve ==
    /\ life = "starting" /\ sweep = {}
    /\ life' = "up"
    /\ UNCHANGED <<ledgers, record, consent, memory, history, sweep, crashes, lost>>

----------------------------------------------------------------------------
(* A continued turn answers the calls it was inside of.                    *)

\* Variant: every call that was open is run again.
ReRunOpen(t) == {c \in Batch(t) \cap OpenSteps(t) : waits[c] = None}

\* Only what may be repeated is run again, and nothing a person was asked about.
ReRun(t) == {c \in Batch(t) \cap OpenSteps(t) \cap Replayable : waits[c] = None}

\* The open steps and the waiting approvals are read once, before any re-run.
ReplayStart(t) ==
    /\ life = "up" /\ kept[t].turn /\ phase[t] = "idle"
    /\ phase' = [phase EXCEPT ![t] = "replaying"]
    /\ snap' = [snap EXCEPT ![t] = [open |-> OpenSteps(t), pending |-> Awaiting]]
    /\ doing' = [c \in Call |->
                   IF c \in ReRun(t) THEN "checking" ELSE doing[c]]
    /\ UNCHANGED <<ledgers, record, consent, parked, history, process, lost>>

\* approvalHow(): the answer the continuation carries, still waiting, or gone.
ApprovalHow(t, c) ==
    IF waits[c] = kept[t].approval THEN kept[t].how
    ELSE IF waits[c] \in snap[t].pending THEN "pending" ELSE "gone"

ReplayAnswer(t, c) ==
    IF doing[c] = "ran" THEN "replayed"
    ELSE IF doing[c] \in {"held", "failed"} THEN doing[c]
    ELSE IF c \notin snap[t].open THEN "not_started"
    ELSE IF waits[c] # None THEN ApprovalHow(t, c)
    ELSE "outcome_unknown"

StillWaiting(t) ==
    {c \in snap[t].open : \/ doing[c] = "held"
                          \/ waits[c] # None /\ ApprovalHow(t, c) = "pending"}

\* The results entry, the line for approvals whose slot was taken, and the
\* settled records of what is over.
ReplayEnd(t, miss) ==
    /\ life = "up" /\ phase[t] = "replaying"
    /\ \A c \in Batch(t) : doing[c] \in {"idle", "ran", "held", "failed"}
    /\ LET over == snap[t].open \ StillWaiting(t)
       IN /\ miss \subseteq over
          /\ LoseAppends(Cardinality(miss))
          /\ SettleSteps(over \ miss)
          /\ told' = [c \in Call |->
                        IF c \in over \ Batch(t) /\ waits[c] # None
                        THEN ApprovalHow(t, c) ELSE told[c]]
    /\ answer' = [c \in Call |-> IF c \in Batch(t) THEN ReplayAnswer(t, c) ELSE answer[c]]
    /\ doing' = [c \in Call |-> IF c \in Batch(t) THEN "idle" ELSE doing[c]]
    /\ snap' = [snap EXCEPT ![t] = Blank]
    /\ phase' = [phase EXCEPT ![t] = "setup"]
    /\ UNCHANGED <<log, kept, waits, consent, parked, history, process>>

\* turns.begin under the same id, and the continuation leaves the inbox.
BeginContinued(t) ==
    /\ life = "up" /\ phase[t] = "setup"
    /\ log' = Begun(t, kept[t].attempt)
    /\ kept' = [kept EXCEPT ![t] = Nothing]
    /\ phase' = [phase EXCEPT ![t] = "thinking"]
    /\ UNCHANGED <<step, waits, record, consent, doing, snap, parked, history, process, lost>>

----------------------------------------------------------------------------
TurnStep(t) ==
    \/ BeginFresh(t)
    \/ \E B \in SUBSET Calls(t) : Ask(t, B)
    \/ \E miss \in SUBSET Calls(t) : RecordResults(t, miss) \/ ReplayEnd(t, miss)
    \/ \E e, x \in BOOLEAN : Conclude(t, e, x)
    \/ Overtake(t)
    \/ ReplayStart(t)
    \/ BeginContinued(t)
    \/ \E ok \in BOOLEAN : Sweep(t, ok)

CallStep(c) ==
    \/ \E ok \in BOOLEAN : Start(c, ok)
    \/ Pass(c)
    \/ \E a \in Approval, ok \in BOOLEAN : UseGrant(c, a, ok)
    \/ \E a \in Approval, r, m \in BOOLEAN : HandToPerson(c, a, r, m)
    \/ Return(c)

PersonStep(a) ==
    \/ \E s \in {"once", "session", "always"}, w, ok \in BOOLEAN : Grant(a, s, w, ok)
    \/ \E w, ok \in BOOLEAN : Deny(a, w, ok)
    \/ \E w \in BOOLEAN : RevokeStanding(a, w)

Next ==
    \/ \E t \in Turn : TurnStep(t)
    \/ \E c \in Call : CallStep(c)
    \/ \E a \in Approval : PersonStep(a)
    \/ Crash \/ Restart \/ Serve

Spec == Init /\ [][Next]_vars

\* The code goes on by itself: its timers, its process manager and the model
\* requests come back.  A person may never answer, but the minute timer refuses
\* what has waited for a day.
Fairness ==
    /\ \A t \in Turn :
         /\ WF_vars(Conclude(t, TRUE, TRUE)) /\ WF_vars(RecordResults(t, {}))
         /\ WF_vars(ReplayStart(t)) /\ WF_vars(ReplayEnd(t, {}))
         /\ WF_vars(BeginContinued(t)) /\ WF_vars(Sweep(t, TRUE))
    /\ \A c \in Call : WF_vars(CallStep(c))
    /\ \A a \in Approval : WF_vars(Deny(a, TRUE, TRUE))
    /\ WF_vars(Restart) /\ WF_vars(Serve)
LiveSpec == Spec /\ Fairness

----------------------------------------------------------------------------
\* The shape of the step ledger, the answers, the policy log and a turn's memory.
TypeOK ==
    /\ log \in [Turn -> [how : Endings, attempt : Nat, closed : BOOLEAN]]
    /\ kept \in [Turn -> [turn : BOOLEAN, approval : Approval \cup {None},
                          how : {"allowed", "refused", "gone"}, attempt : Nat]]
    /\ step \in [Call -> {"absent", "open", "settled"}]
    /\ waits \in [Call -> Approval \cup {None}]
    /\ answer \in [Call -> Answers]
    /\ told \in [Call -> {"none", "allowed", "refused", "gone", "pending"}]
    /\ about \in [Approval -> Action \cup {None}]
    /\ row \in [Approval -> Rows]
    /\ gate \in [Approval -> {"none", "awaiting", "once", "session", "always", "gone"}]
    /\ life \in {"down", "starting", "up"} /\ sweep \subseteq Turn
    /\ phase \in [Turn -> Phases] /\ doing \in [Call -> Doing]
    /\ snap \in [Turn -> [open : SUBSET Call, pending : SUBSET Approval]]
    /\ parked \in [Approval -> Turn \cup {None}]
    /\ ran \in [Call -> Nat] /\ spent \in [Approval -> Nat]
    /\ lost \in 0..MaxLost /\ crashes \in 0..MaxCrashes

\* A call that may not be repeated takes effect at most once, however often
\* the host dies and continues its turn.  (The replay in runTurn.)
NeverTwice == \A c \in Call \ Replayable : ran[c] <= 1

\* The model is told that a call did not run (not started, held, allowed or
\* refused) only when it did not: what must not be repeated is not said to be
\* safe to call again.  (notStartedResult, approvalOutcomeResult.)
HonestAnswer ==
    \A c \in Call \ Replayable :
        answer[c] \in NotRun \/ told[c] # "none" => ran[c] = 0

\* An approval given for one run covers one run, also when the host dies around
\* it or the log cannot be written.  (PolicyGate.check, approval-used.)
ConsentOnce == \A a \in Approval : spent[a] <= 1

\* While the host is up and every append has succeeded, a turn whose record is
\* open is running, has its continuation in the inbox, or waits for an approval
\* a person can still answer.  (resumeInterrupted, onApprovalSettled.)
OpenTurnIsHeld ==
    life = "up" /\ lost = 0 =>
        \A t \in Turn : log[t].how = "open" =>
            \/ phase[t] # "idle" \/ kept[t].turn
            \/ \E a \in Awaiting : parked[a] = t

\* A turn that began comes to its end: it is not left open by a crash, an
\* approval nobody answers or a continuation nobody takes.
TurnsEnd ==
    \A t \in Turn : log[t].how = "open" ~> log[t].how \in {"done", "given-up", "resumed"}

=============================================================================
