----------------------------- MODULE TurnCustody -----------------------------
(***************************************************************************)
(* Who answers for a message, from the moment the host says "written down" *)
(* to the end of the turn that acted on it, across crashes and restarts.   *)
(*                                                                         *)
(* Three append-only files share the custody.  The inbox (inbox.jsonl)     *)
(* holds a message until a turn takes it.  The turn ledger (turns.jsonl)   *)
(* says which turns began and which ended.  The transcript names, in       *)
(* causedBy, the messages each turn was opened or steered with.  The bus   *)
(* keeps its queues in memory only, and a restart rebuilds them:           *)
(* reconcile, startup notes, recover(), resumeInterrupted().               *)
(*                                                                         *)
(* A worker is one conversation of one agent.  The order inside a queue is *)
(* left out (a drain takes any batch its lane and kind allow).             *)
(***************************************************************************)
EXTENDS Naturals, FiniteSets

CONSTANTS
    Worker,        \* (agent, conversation) pairs, the keys of workerKey()
    Main,          \* Main[w]: the main conversation of the agent of w
    Message,       \* message ids, each used once (randomUUID)
    Turn,          \* turn ids, each minted once (randomUUID)
    None,          \* no turn
    MaxResumes,    \* MAX_RESUMES of resume.ts
    MaxEpoch,      \* bound: context switches per conversation
    StartupNotes   \* the startup sweeps have something to deliver

ASSUME ConstantsAssumption ==
    /\ Main \in [Worker -> Worker]
    /\ \A w \in Worker : Main[Main[w]] = Main[w]
    /\ None \notin Turn
    /\ MaxResumes \in Nat \ {0}
    /\ MaxEpoch \in Nat
    /\ StartupNotes \in BOOLEAN

VARIABLES
    inbox,     \* durable: absent, pending or started, per message
    msg,       \* durable: what was admitted
    turn,      \* durable: the turn ledger, per turn
    opening,   \* durable: causedBy of the transcript entry that opened a turn
    steered,   \* durable: causedBy of the entries that steered it
    stepped,   \* durable: turns the step ledger knows
    asking,    \* durable: turns with a call waiting for a person's approval
    noted,     \* durable: <<turn, worker>>, a give-up note in a transcript
    alive,     \* durable: agents on the roster, by main conversation
    epoch,     \* durable: context epoch per conversation
    phase,     \* where the process is in its life
    queue,     \* volatile: the bus's pending map, as <<message, door>>
    act,       \* volatile: what each worker is doing
    parked,    \* volatile: <<turn, attempt of its pickup>>, waiting for a person
    sweep,     \* volatile: interrupted turns resumeInterrupted() has left
    handing,   \* volatile: the second half of a two-append startup step
    declined   \* history: goal wakes consumed without a turn

durable == <<inbox, msg, turn, opening, steered, stepped, asking, noted,
             alive, epoch>>
volatile == <<phase, queue, act, parked, sweep, handing>>
vars == <<durable, volatile, declined>>

Agent == {Main[w] : w \in Worker}
Kind == {"chat", "mail", "kickoff", "resume"}
HostEnd == {"agent-gone", "context-superseded", "given-up"}
\* How a turn ends itself; "done" stands for incomplete and aborted too.
TurnEnd == {"done", "failed"}
How == {"none", "open", "continued", "resumed"} \cup HostEnd \cup TurnEnd

\* A resumeOf marker: the interrupted turn, the attempt its pickup will be,
\* its work, and whether it is continued under its own id.
NoMarker == [turn |-> None, attempt |-> 0, work |-> None, continues |-> FALSE]
NoTurn == [how |-> "none", worker |-> None, causedBy |-> {}, attempt |-> 0,
           clean |-> FALSE, work |-> None, epoch |-> 0, resumeOf |-> {}]

\* What a worker is doing: the stage of its turn, the messages it drained and
\* those whose inbox record it still owes.
Doing(stage, t, batch, todo) ==
    [stage |-> stage, turn |-> t, batch |-> batch, todo |-> todo]
Idle == Doing("idle", None, {}, {})

----------------------------------------------------------------------------
(* Reading the ledgers.                                                    *)

Begun(t) == turn[t].how # "none"
Open == {t \in Turn : turn[t].how = "open"}
Fresh == {t \in Turn : turn[t].how = "none" /\ opening[t] = {}}

\* What the transcript and the ledger say turn t was given.
Held(t) == turn[t].causedBy \cup opening[t] \cup steered[t]

\* Variant: the reconcile reads the turn ledger and not the transcript.
OwnedByCauses(t) == turn[t].causedBy

\* The constructor of Orchestrator: an open turn owns its causedBy, and the
\* causedBy of its transcript entries while its agent still has a transcript.
OwnedBy(t) ==
    turn[t].causedBy \cup (IF Main[turn[t].worker] \in alive
                           THEN opening[t] \cup steered[t] ELSE {})
Reconcilable ==
    {m \in Message : inbox[m] = "pending" /\ \E t \in Open : m \in OwnedBy(t)}

\* TurnLedger.end: the last end record of a turn says how it ended.
EndRecord(t, how) ==
    [u \in Turn |-> IF u = t THEN [turn[u] EXCEPT !.how = how] ELSE turn[u]]

QueueOf(w) == {c \in queue : msg[c[1]].to = w}
MarkerOf(batch) ==
    IF \E m \in batch : msg[m].kind = "resume"
    THEN msg[CHOOSE m \in batch : msg[m].kind = "resume"].marker
    ELSE NoMarker

\* A block of synchronous appends is running: nothing else of this process
\* can interleave with it, only its death.
Synchronous == \/ handing.kind # "none"
               \/ \E w \in Worker : act[w].stage \in {"acking", "steering"}
Serving == phase \in {"starting", "up"} /\ ~Synchronous

----------------------------------------------------------------------------
(* Accepting a message: Inbox.admit before the in-memory queue.            *)

Admitted(w, kind, marker) == [to |-> w, kind |-> kind, marker |-> marker]

Enqueue(m, w, kind, marker) ==
    /\ inbox[m] = "absent"
    /\ inbox' = [inbox EXCEPT ![m] = "pending"]
    /\ msg' = [msg EXCEPT ![m] = Admitted(w, kind, marker)]
    /\ queue' = queue \cup {<<m, "live">>}

\* send() and sendFromUser(): a teammate's mail, a person's chat, a kickoff.
Admit(m, w, kind) ==
    /\ phase = "up" /\ ~Synchronous
    /\ Main[w] \in alive
    /\ kind # "resume"
    /\ Enqueue(m, w, kind, NoMarker)
    /\ UNCHANGED <<turn, opening, steered, stepped, asking, noted, alive,
                   epoch, phase, act, parked, sweep, handing, declined>>

\* sweepPendingWork(), recoverEffects() and recoverOrchestrations() deliver
\* notes and plan items, and wake their workers, before recover() runs.
StartupNote(m, w, kind) ==
    /\ StartupNotes
    /\ phase = "starting" /\ ~Synchronous
    /\ Main[w] \in alive
    /\ kind \in {"mail", "kickoff"}
    /\ Enqueue(m, w, kind, NoMarker)
    /\ UNCHANGED <<turn, opening, steered, stepped, asking, noted, alive,
                   epoch, phase, act, parked, sweep, handing, declined>>

----------------------------------------------------------------------------
(* A turn: drain, setup, begin, acknowledge, rounds, end.                  *)

\* Variant: a continuation rides with whatever else is queued.
MayBatchAny(S) ==
    \/ \E c \in S : S = {c} /\ msg[c[1]].kind = "kickoff"
    \/ \A c \in S : msg[c[1]].kind # "kickoff"

\* AgentBus.drain: a kickoff or a resume alone, otherwise messages of a lane.
MayBatch(S) ==
    \/ \E c \in S : S = {c} /\ msg[c[1]].kind \in {"kickoff", "resume"}
    \/ \E kind \in {"chat", "mail"} : \A c \in S : msg[c[1]].kind = kind

\* Variant: a message is acknowledged as it leaves the queue.
DrainAcknowledges(w, S) ==
    /\ Serving
    /\ Main[w] \in alive
    /\ act[w].stage = "idle"
    /\ S # {} /\ S \subseteq QueueOf(w) /\ MayBatch(S)
    /\ inbox' = [m \in Message |-> IF \E c \in S : c[1] = m THEN "started"
                                                          ELSE inbox[m]]
    /\ queue' = queue \ S
    /\ act' = [act EXCEPT ![w] = Doing("setup", None, {c[1] : c \in S}, {})]
    /\ UNCHANGED <<msg, turn, opening, steered, stepped, asking, noted, alive,
                   epoch, phase, parked, sweep, handing, declined>>

Drain(w, S) ==
    /\ Serving
    /\ Main[w] \in alive
    /\ act[w].stage = "idle"
    /\ S # {} /\ S \subseteq QueueOf(w) /\ MayBatch(S)
    /\ queue' = queue \ S
    /\ act' = [act EXCEPT ![w] = Doing("setup", None, {c[1] : c \in S}, {})]
    /\ UNCHANGED <<durable, phase, parked, sweep, handing, declined>>

\* GoalLoop.turnStarting says no: the runner returns without a turn and the
\* bus acknowledges the wake anyway.
Decline(w) ==
    /\ Serving
    /\ act[w].stage = "setup"
    /\ \A m \in act[w].batch : msg[m].kind = "kickoff"
    /\ inbox' = [m \in Message |-> IF m \in act[w].batch THEN "started"
                                                         ELSE inbox[m]]
    /\ declined' = declined \cup act[w].batch
    /\ act' = [act EXCEPT ![w] = Idle]
    /\ UNCHANGED <<msg, turn, opening, steered, stepped, asking, noted, alive,
                   epoch, phase, queue, parked, sweep, handing>>

\* The entry that opens the turn, written before turns.begin.
RecordOpening(w, t) ==
    /\ Serving
    /\ act[w].stage = "setup"
    /\ ~MarkerOf(act[w].batch).continues
    /\ t \in Fresh
    /\ opening' = [opening EXCEPT ![t] = act[w].batch]
    /\ act' = [act EXCEPT ![w] = Doing("recorded", t, act[w].batch, {})]
    /\ UNCHANGED <<inbox, msg, turn, steered, stepped, asking, noted, alive,
                   epoch, phase, queue, parked, sweep, handing, declined>>

\* Anything setup does can throw.  The batch is out of the queue and still
\* pending in the inbox, where only a restart finds it.
SetupFails(w) ==
    /\ Serving
    /\ act[w].stage \in {"setup", "recorded"}
    /\ act' = [act EXCEPT ![w] = Idle]
    /\ UNCHANGED <<durable, phase, queue, parked, sweep, handing, declined>>

\* Variant: a begin forgets what its turn resumed before.
BeginRecordForgets(w, t) ==
    LET marker == MarkerOf(act[w].batch)
        pickup == marker.turn # None
    IN  [u \in Turn |->
           IF u = t
           THEN [how |-> "open", worker |-> w, causedBy |-> act[w].batch,
                 attempt |-> IF pickup THEN marker.attempt ELSE 1,
                 clean |-> FALSE,
                 work |-> IF pickup THEN marker.work ELSE t,
                 epoch |-> epoch[w], resumeOf |-> {marker.turn} \ {None}]
           ELSE IF u = marker.turn /\ turn[u].how = "open"
           THEN [turn[u] EXCEPT !.how = "resumed"]
           ELSE turn[u]]

\* Variant: a begin does not close the turn it resumes.
BeginRecordLeavesOpen(w, t) ==
    LET marker == MarkerOf(act[w].batch)
        pickup == marker.turn # None
    IN  [turn EXCEPT ![t] =
           [how |-> "open", worker |-> w, causedBy |-> act[w].batch,
            attempt |-> IF pickup THEN marker.attempt ELSE 1,
            clean |-> FALSE,
            work |-> IF pickup THEN marker.work ELSE t,
            epoch |-> epoch[w],
            resumeOf |-> turn[t].resumeOf \cup ({marker.turn} \ {None})]]

\* TurnLedger.begin as interrupted() reads it: the turn is open again under
\* its id, and the turn it resumes is closed unless it is the same one.  The
\* record gathers the resumeOf of every begin written for the id.
BeginRecord(w, t) ==
    LET marker == MarkerOf(act[w].batch)
        pickup == marker.turn # None
    IN  [u \in Turn |->
           IF u = t
           THEN [how |-> "open", worker |-> w, causedBy |-> act[w].batch,
                 attempt |-> IF pickup THEN marker.attempt ELSE 1,
                 clean |-> FALSE,
                 work |-> IF pickup THEN marker.work ELSE t,
                 epoch |-> epoch[w],
                 resumeOf |-> turn[t].resumeOf \cup ({marker.turn} \ {None})]
           ELSE IF u = marker.turn /\ turn[u].how = "open"
           THEN [turn[u] EXCEPT !.how = "resumed"]
           ELSE turn[u]]

Begin(w) ==
    LET marker == MarkerOf(act[w].batch)
        t == IF marker.continues THEN marker.turn ELSE act[w].turn
    IN  /\ Serving
        /\ act[w].stage = IF marker.continues THEN "setup" ELSE "recorded"
        /\ turn' = BeginRecord(w, t)
        /\ act' = [act EXCEPT ![w] = Doing("acking", t, act[w].batch,
                                           act[w].batch)]
        /\ UNCHANGED <<inbox, msg, opening, steered, stepped, asking, noted,
                       alive, epoch, phase, queue, parked, sweep, handing,
                       declined>>

\* Inbox.start, one append per message; the rounds go on after the last.
Acknowledge(w, m) ==
    LET left == act[w].todo \ {m}
    IN  /\ act[w].stage \in {"acking", "steering"}
        /\ m \in act[w].todo
        /\ inbox' = [inbox EXCEPT ![m] = "started"]
        /\ act' = [act EXCEPT ![w] =
                    Doing(IF left = {} THEN "running" ELSE act[w].stage,
                          act[w].turn, act[w].batch, left)]
        /\ UNCHANGED <<msg, turn, opening, steered, stepped, asking, noted,
                       alive, epoch, phase, queue, parked, sweep, handing,
                       declined>>

EndTurn(w, how) ==
    /\ turn' = EndRecord(act[w].turn, how)
    /\ asking' = asking \ {act[w].turn}
    /\ act' = [act EXCEPT ![w] = Idle]

\* An append of Inbox.start throws.  In onReady the turn is left open for
\* recovery; in takeSteering the throw ends the turn as failed.
OnReadyFails(w) ==
    /\ act[w].stage = "acking"
    /\ act' = [act EXCEPT ![w] = Idle]
    /\ UNCHANGED <<durable, phase, queue, parked, sweep, handing, declined>>

SteeringFails(w) ==
    /\ act[w].stage = "steering"
    /\ EndTurn(w, "failed")
    /\ UNCHANGED <<inbox, msg, opening, steered, stepped, noted, alive, epoch,
                   phase, queue, parked, sweep, handing, declined>>

\* Variant: the messages are taken, and no transcript entry names them.
SteerUnrecorded(w, S) ==
    /\ Serving
    /\ act[w].stage = "running"
    /\ S # {} /\ S \subseteq QueueOf(w)
    /\ \A c \in S : msg[c[1]].kind = "chat"
    /\ queue' = queue \ S
    /\ act' = [act EXCEPT ![w] = Doing("steering", act[w].turn, act[w].batch,
                                       {c[1] : c \in S})]
    /\ UNCHANGED <<inbox, msg, turn, opening, steered, stepped, asking, noted,
                   alive, epoch, phase, parked, sweep, handing, declined>>

\* takeSteering at a round boundary: the transcript names the messages, then
\* they leave the queue, then the inbox marks them started.
Steer(w, S) ==
    /\ Serving
    /\ act[w].stage = "running"
    /\ S # {} /\ S \subseteq QueueOf(w)
    /\ \A c \in S : msg[c[1]].kind = "chat"
    /\ steered' = [steered EXCEPT ![act[w].turn] = @ \cup {c[1] : c \in S}]
    /\ queue' = queue \ S
    /\ act' = [act EXCEPT ![w] = Doing("steering", act[w].turn, act[w].batch,
                                       {c[1] : c \in S})]
    /\ UNCHANGED <<inbox, msg, turn, opening, stepped, asking, noted, alive,
                   epoch, phase, parked, sweep, handing, declined>>

\* A tool call reaches the step ledger, and perhaps a person's approval.
ToolCall(w, asks) ==
    /\ Serving
    /\ act[w].stage = "running"
    /\ stepped' = stepped \cup {act[w].turn}
    /\ asking' = IF asks THEN asking \cup {act[w].turn} ELSE asking
    /\ <<stepped', asking'>> # <<stepped, asking>>
    /\ UNCHANGED <<inbox, msg, turn, opening, steered, noted, alive, epoch,
                   phase, queue, act, parked, sweep, handing, declined>>

Finish(w, how) ==
    /\ Serving
    /\ act[w].stage = "running"
    /\ EndTurn(w, how)
    /\ UNCHANGED <<inbox, msg, opening, steered, stepped, noted, alive, epoch,
                   phase, queue, parked, sweep, handing, declined>>

----------------------------------------------------------------------------
(* The process dies, is stopped, starts again.                             *)

Crash ==
    /\ phase # "down"
    /\ phase' = "down"
    /\ queue' = {} /\ parked' = {} /\ sweep' = {}
    /\ act' = [w \in Worker |-> Idle]
    /\ handing' = [kind |-> "none", turn |-> None]
    /\ UNCHANGED <<durable, declined>>

\* noteCleanShutdown in the signal handler.  An append that fails is only
\* warned about, so any of the open turns may go without its mark.
NoteCleanShutdown(S) ==
    /\ phase = "up" /\ ~Synchronous
    /\ S # {} /\ S \subseteq {t \in Open : ~turn[t].clean}
    /\ turn' = [t \in Turn |-> IF t \in S THEN [turn[t] EXCEPT !.clean = TRUE]
                                          ELSE turn[t]]
    /\ UNCHANGED <<inbox, msg, opening, steered, stepped, asking, noted, alive,
                   epoch, volatile, declined>>

Boot ==
    /\ phase = "down"
    /\ phase' = "reconcile"
    /\ UNCHANGED <<durable, queue, act, parked, sweep, handing, declined>>

\* The constructor closes the inbox copy of every message an open turn owns.
Reconcile(m) ==
    /\ phase = "reconcile"
    /\ m \in Reconcilable
    /\ inbox' = [inbox EXCEPT ![m] = "started"]
    /\ UNCHANGED <<msg, turn, opening, steered, stepped, asking, noted, alive,
                   epoch, volatile, declined>>

Reconciled ==
    /\ phase = "reconcile" /\ Reconcilable = {}
    /\ phase' = "starting"
    /\ UNCHANGED <<durable, queue, act, parked, sweep, handing, declined>>

\* Variant: the replay does not skip the messages a turn has taken.
RecoverAll ==
    /\ phase = "starting" /\ ~Synchronous
    /\ queue' = queue \cup
         {<<m, "replay">> : m \in {n \in Message : /\ inbox[n] # "absent"
                                                   /\ Main[msg[n].to] \in alive}}
    /\ sweep' = Open
    /\ phase' = "resume"
    /\ UNCHANGED <<durable, act, parked, handing, declined>>

\* AgentBus.recover: every pending message of an agent that still exists is
\* queued, and resumeInterrupted() follows without giving up the thread.
Recover ==
    /\ phase = "starting" /\ ~Synchronous
    /\ queue' = queue \cup
         {<<m, "replay">> : m \in {n \in Message : /\ inbox[n] = "pending"
                                                   /\ Main[msg[n].to] \in alive}}
    /\ sweep' = Open
    /\ phase' = "resume"
    /\ UNCHANGED <<durable, act, parked, handing, declined>>

\* Variant: nobody looks whether a continuation already waits.
NeverPendingResume(t) == FALSE

HasPendingResume(t) ==
    \E c \in queue : msg[c[1]].kind = "resume" /\ msg[c[1]].marker.turn = t

\* resumeInterrupted(), the branch one interrupted turn takes.
Disposition(t) ==
    CASE HasPendingResume(t) -> "skip"
      [] ~HasPendingResume(t) /\ Main[turn[t].worker] \notin alive ->
           "agent-gone"
      [] OTHER ->
           IF turn[t].epoch # epoch[turn[t].worker] THEN "context-superseded"
           ELSE IF ~turn[t].clean /\ turn[t].attempt >= MaxResumes
           THEN "given-up"
           ELSE IF t \in stepped \cap asking THEN "park" ELSE "pick-up"

ResumeNext(t) == phase = "resume" /\ ~Synchronous /\ t \in sweep

SkipTurn(t) ==
    /\ ResumeNext(t) /\ Disposition(t) = "skip"
    /\ sweep' = sweep \ {t}
    /\ UNCHANGED <<durable, phase, queue, act, parked, handing, declined>>

\* End the turn without a pickup; a given-up one still owes its note.
Abandon(t) ==
    /\ ResumeNext(t) /\ Disposition(t) \in HostEnd
    /\ turn' = EndRecord(t, Disposition(t))
    /\ asking' = IF Disposition(t) = "given-up" THEN asking \ {t} ELSE asking
    /\ sweep' = sweep \ {t}
    /\ handing' = IF Disposition(t) = "given-up"
                  THEN [kind |-> "note", turn |-> t] ELSE handing
    /\ UNCHANGED <<inbox, msg, opening, steered, stepped, noted, alive, epoch,
                   phase, queue, act, parked, declined>>

\* appendTranscript with no conversation: the agent's main one.
GiveUpNote ==
    /\ handing.kind = "note"
    /\ noted' = noted \cup {<<handing.turn, Main[turn[handing.turn].worker]>>}
    /\ handing' = [kind |-> "none", turn |-> None]
    /\ UNCHANGED <<inbox, msg, turn, opening, steered, stepped, asking, alive,
                   epoch, phase, queue, act, parked, sweep, declined>>

\* A clean exit does not spend an attempt.
NextAttempt(t) ==
    IF turn[t].clean THEN turn[t].attempt ELSE turn[t].attempt + 1

Park(t) ==
    /\ ResumeNext(t) /\ Disposition(t) = "park"
    /\ parked' = parked \cup {<<t, NextAttempt(t)>>}
    /\ sweep' = sweep \ {t}
    /\ UNCHANGED <<durable, phase, queue, act, handing, declined>>

\* The durable continuation first; only then is the old owner relinquished.
PickUp(t, m, attempt) ==
    /\ Enqueue(m, turn[t].worker, "resume",
               [turn |-> t, attempt |-> attempt, work |-> turn[t].work,
                continues |-> t \in stepped])
    /\ handing' = [kind |-> "continue", turn |-> t]

ResumeTurn(t, m) ==
    /\ ResumeNext(t) /\ Disposition(t) = "pick-up"
    /\ PickUp(t, m, NextAttempt(t))
    /\ sweep' = sweep \ {t}
    /\ UNCHANGED <<turn, opening, steered, stepped, asking, noted, alive,
                   epoch, phase, act, parked, declined>>

Relinquish ==
    /\ handing.kind = "continue"
    /\ turn' = EndRecord(handing.turn, IF handing.turn \in stepped
                                      THEN "continued" ELSE "resumed")
    /\ handing' = [kind |-> "none", turn |-> None]
    /\ UNCHANGED <<inbox, msg, opening, steered, stepped, asking, noted, alive,
                   epoch, phase, queue, act, parked, sweep, declined>>

Started ==
    /\ phase = "resume" /\ ~Synchronous /\ sweep = {}
    /\ phase' = "up"
    /\ UNCHANGED <<durable, queue, act, parked, sweep, handing, declined>>

----------------------------------------------------------------------------
(* What people do meanwhile.                                               *)

\* onApprovalSettled: a parked turn is picked up, another's step is settled.
AnswerApproval(t, m) ==
    /\ phase = "up" /\ ~Synchronous
    /\ t \in asking
    /\ asking' = asking \ {t}
    /\ \/ \E p \in parked : /\ p[1] = t /\ PickUp(t, m, p[2])
                           /\ parked' = parked \ {p}
       \/ /\ \A p \in parked : p[1] # t
          /\ UNCHANGED <<inbox, msg, queue, handing, parked>>
    /\ UNCHANGED <<turn, opening, steered, stepped, noted, alive, epoch,
                   phase, act, sweep, declined>>

\* POST /api/agents/delete: refused mid-turn and for the last agent.
RemoveAgent(a) ==
    /\ phase = "up" /\ ~Synchronous
    /\ a \in alive /\ alive # {a}
    /\ \A w \in Worker : Main[w] = a => act[w].stage = "idle"
    /\ alive' = alive \ {a}
    /\ UNCHANGED <<inbox, msg, turn, opening, steered, stepped, asking, noted,
                   epoch, volatile, declined>>

\* Variant: only what runs or waits blocks a switch, not an open turn.
ContextBusy(w) == act[w].stage # "idle" \/ QueueOf(w) # {}

\* newContext: only an idle private conversation, by contextBlockers.
ContextBlocked(w) ==
    \/ act[w].stage # "idle"
    \/ \E t \in Open : turn[t].worker = w
    \/ QueueOf(w) # {}

SwitchContext(w) ==
    /\ phase = "up" /\ ~Synchronous
    /\ Main[w] # w /\ Main[w] \in alive
    /\ ~ContextBlocked(w)
    /\ epoch[w] < MaxEpoch
    /\ epoch' = [epoch EXCEPT ![w] = @ + 1]
    /\ UNCHANGED <<inbox, msg, turn, opening, steered, stepped, asking, noted,
                   alive, volatile, declined>>

----------------------------------------------------------------------------

Init ==
    /\ inbox = [m \in Message |-> "absent"]
    /\ msg = [m \in Message |-> Admitted(None, "chat", NoMarker)]
    /\ turn = [t \in Turn |-> NoTurn]
    /\ opening = [t \in Turn |-> {}] /\ steered = [t \in Turn |-> {}]
    /\ stepped = {} /\ asking = {} /\ noted = {}
    /\ alive = Agent
    /\ epoch = [w \in Worker |-> 0]
    /\ phase = "up"
    /\ queue = {} /\ parked = {} /\ sweep = {}
    /\ act = [w \in Worker |-> Idle]
    /\ handing = [kind |-> "none", turn |-> None]
    /\ declined = {}

TurnStep(w) ==
    \/ \E S \in SUBSET queue : Drain(w, S) \/ Steer(w, S)
    \/ Decline(w)
    \/ \E t \in Turn : RecordOpening(w, t)
    \/ SetupFails(w)
    \/ Begin(w)
    \/ \E m \in Message : Acknowledge(w, m)
    \/ OnReadyFails(w)
    \/ SteeringFails(w)
    \/ \E asks \in BOOLEAN : ToolCall(w, asks)
    \/ \E how \in TurnEnd : Finish(w, how)

ResumeStep(t) ==
    \/ SkipTurn(t)
    \/ Abandon(t)
    \/ Park(t)
    \/ \E m \in Message : ResumeTurn(t, m) \/ AnswerApproval(t, m)

Next ==
    \/ \E m \in Message, w \in Worker, kind \in Kind :
          Admit(m, w, kind) \/ StartupNote(m, w, kind)
    \/ \E w \in Worker : TurnStep(w) \/ SwitchContext(w)
    \/ \E t \in Turn : ResumeStep(t)
    \/ \E S \in SUBSET Turn : NoteCleanShutdown(S)
    \/ \E m \in Message : Reconcile(m)
    \/ \E a \in Agent : RemoveAgent(a)
    \/ GiveUpNote \/ Relinquish
    \/ Crash \/ Boot \/ Reconciled \/ Recover \/ Started

Spec == Init /\ [][Next]_vars
----------------------------------------------------------------------------
(* Properties.                                                             *)

Marker == [turn : Turn \cup {None}, attempt : 0..MaxResumes,
           work : Turn \cup {None}, continues : BOOLEAN]

MessageRecord == [to : Worker \cup {None}, kind : Kind, marker : Marker]
TurnRecord == [how : How, worker : Worker \cup {None},
               causedBy : SUBSET Message, attempt : 0..MaxResumes,
               clean : BOOLEAN, work : Turn \cup {None},
               epoch : 0..MaxEpoch, resumeOf : SUBSET Turn]
Activity == [stage : {"idle", "setup", "recorded", "acking", "running",
                      "steering"},
             turn : Turn \cup {None}, batch : SUBSET Message,
             todo : SUBSET Message]
Handing == [kind : {"none", "continue", "note"}, turn : Turn \cup {None}]

\* The shape of every record the three ledgers and the bus keep.
TypeOK ==
    /\ inbox \in [Message -> {"absent", "pending", "started"}]
    /\ msg \in [Message -> MessageRecord]
    /\ turn \in [Turn -> TurnRecord]
    /\ opening \in [Turn -> SUBSET Message]
    /\ steered \in [Turn -> SUBSET Message]
    /\ stepped \subseteq Turn /\ asking \subseteq Turn
    /\ noted \subseteq Turn \X Worker
    /\ alive \subseteq Agent
    /\ epoch \in [Worker -> 0..MaxEpoch]
    /\ phase \in {"down", "reconcile", "starting", "resume", "up"}
    /\ queue \subseteq Message \X {"live", "replay"}
    /\ act \in [Worker -> Activity]
    /\ parked \subseteq Turn \X (0..MaxResumes)
    /\ sweep \subseteq Turn
    /\ handing \in Handing
    /\ declined \subseteq Message

\* No message is acknowledged into nothing.  One the inbox no longer replays
\* is answered for by a turn that began with it, was steered with it or was
\* reconciled as its owner, or is a goal wake that was turned away.  (The
\* deferred acknowledge of bus.ts, turns.begin and the reconcile of the
\* Orchestrator's constructor.)
Accounted ==
    \A m \in Message :
        inbox[m] = "started" /\ msg[m].kind # "resume" =>
            \/ m \in declined
            \/ \E t \in Turn : Begun(t) /\ m \in Held(t)

\* An interrupted turn that was relinquished has an heir on disk: its
\* continuation still waits in the inbox, or a turn that resumes it began.
\* (resumeInterrupted admits before it ends; recover() before it resumes.)
LineageUnbroken ==
    \A t \in Turn : turn[t].how \in {"continued", "resumed"} =>
        \/ \E m \in Message : /\ inbox[m] = "pending" /\ msg[m].kind = "resume"
                              /\ msg[m].marker.turn = t
        \/ \E u \in Turn : Begun(u) /\ t \in turn[u].resumeOf

\* Two turns answer for the same message only if one of them was steered
\* with it and failed before the inbox could record that.  (recover()
\* re-queues only what no turn began with: the comment at bus.ts:290.)
UniqueOwner ==
    \A t, u \in Turn, m \in Message :
        /\ t # u /\ Begun(t) /\ Begun(u)
        /\ m \in Held(t) \cap Held(u)
        => \E v \in {t, u} : turn[v].how = "failed" /\ m \in steered[v]

\* A continuation that no open turn has begun with yet.
Unclaimed(m) ==
    /\ inbox[m] = "pending" /\ msg[m].kind = "resume"
    /\ \A t \in Open : m \notin turn[t].causedBy

\* One piece of work is picked up once: at most one continuation waits, at
\* most one of its turns is open, and when both exist the continuation is of
\* that turn.  (hasPendingResume and the resumeOf of interrupted().)
OneLivePickup ==
    \A k \in Turn :
        LET live == {t \in Open : turn[t].work = k}
            waiting == {m \in Message : Unclaimed(m) /\ msg[m].marker.work = k}
        IN  /\ Cardinality(waiting) <= 1
            /\ Cardinality(live \cup {msg[m].marker.turn : m \in waiting}) <= 1

\* A turn still open is in the context its conversation is in: the switch is
\* refused around it even when nothing runs, as for a parked turn.
\* (contextBlockers; it makes context-superseded a second line of defence.)
ContextKept == \A t \in Open : turn[t].epoch = epoch[turn[t].worker]

----------------------------------------------------------------------------
(* Why Accounted holds: the inductive invariant, in named parts.           *)

\* Whatever the bus queues or a worker holds has been admitted.
QueuedIsAdmitted == \A c \in queue : inbox[c[1]] # "absent"
BatchIsAdmitted ==
    \A w \in Worker : \A m \in act[w].batch \cup act[w].todo :
        inbox[m] # "absent"

\* A batch is of one kind, so a continuation never rides with a request.
BatchIsUniform ==
    \A w \in Worker : \A m, n \in act[w].batch : msg[m].kind = msg[n].kind

\* What is on disk by each stage of a turn.
StageOf(w) ==
    /\ act[w].stage \in {"setup", "recorded"} => act[w].batch # {}
    /\ act[w].stage = "recorded" =>
         act[w].turn \in Turn /\ opening[act[w].turn] = act[w].batch
    /\ act[w].stage \in {"acking", "running", "steering"} =>
         act[w].turn \in Turn /\ Begun(act[w].turn)
    /\ act[w].stage \in {"acking", "steering"} =>
         act[w].todo \subseteq Held(act[w].turn)
StageIsOnDisk == \A w \in Worker : StageOf(w)

\* A begin may replace a turn's causedBy only by a continuation: the
\* transcript still names what the turn was opened with.
OpeningOutlivesBegin ==
    \A t \in Turn :
        /\ \A m \in Held(t) : inbox[m] # "absent"
        /\ \A m \in turn[t].causedBy : m \in opening[t] \/ msg[m].kind = "resume"

\* Every turn the ledgers point at began, and says for which worker.
PointersAreBegun ==
    /\ \A t \in Turn : Begun(t) => turn[t].worker \in Worker
    /\ \A m \in Message : msg[m].kind = "resume" =>
         msg[m].marker.turn \in Turn /\ Begun(msg[m].marker.turn)
    /\ \A t \in sweep : Begun(t)
    /\ \A p \in parked : Begun(p[1])
    /\ handing.kind # "none" => handing.turn \in Turn /\ Begun(handing.turn)

AccountedInv ==
    /\ TypeOK
    /\ QueuedIsAdmitted
    /\ BatchIsAdmitted
    /\ BatchIsUniform
    /\ StageIsOnDisk
    /\ OpeningOutlivesBegin
    /\ PointersAreBegun
    /\ Accounted

----------------------------------------------------------------------------
(* The promise of Custody, read from the ledgers.                          *)

WorkLive(k) ==
    \/ \E t \in Open : turn[t].work = k
    \/ \E m \in Message : /\ inbox[m] = "pending" /\ msg[m].kind = "resume"
                          /\ msg[m].marker.work = k

custodyOf ==
    [m \in Message |->
       IF inbox[m] = "absent" \/ msg[m].kind = "resume" THEN "unsent"
       ELSE IF inbox[m] = "pending" THEN "accepted"
       ELSE IF m \in declined THEN "declined"
       ELSE IF \E t \in Turn : Begun(t) /\ m \in Held(t) /\ WorkLive(turn[t].work)
       THEN "held" ELSE "settled"]

Promise == INSTANCE Custody WITH custody <- custodyOf

\* Every behaviour of the ledgers keeps the promise: accepted, held, settled,
\* in this order, once.
KeepsPromise == Promise!CSpec

=============================================================================
