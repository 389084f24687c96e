------------------------------ MODULE PendingWork ------------------------------
(***************************************************************************)
(* Work an agent hands to others and what it hears back: the pending-work  *)
(* ledger and the code that stands on it.                                  *)
(*                                                                         *)
(*   fork      a child conversation of the same agent (the Fork tool);     *)
(*   delegate  a job of another engine in the box (the Delegate tool);     *)
(*   pause     an extension's confirmation and its follow-up (effects.ts); *)
(*   job       an extension's background job (effects.ts);                 *)
(*   plan      a fan-out of items (orchestrate.ts).                        *)
(*                                                                         *)
(* A piece is prepared before it starts, durably or not at all; later      *)
(* records are appended if they can be.  It is settled when the agent has  *)
(* heard: by a tool result in its transcript or a note in its inbox.  A    *)
(* crash loses the memory; a start goes through what is open.              *)
(*                                                                         *)
(* All pieces belong to one conversation of one agent.  The inbox and the  *)
(* turns are AgentBus's and TurnCustody's, the approvals TurnSteps': an    *)
(* answer is on disk here once given, and is given while the server        *)
(* listens, which is after the recovery.                                   *)
(***************************************************************************)
EXTENDS Naturals, FiniteSets

CONSTANTS
    Work,          \* ids of the ledger
    Mixes,         \* what the pieces may be: a set of functions of Work
    Item,          \* the items of a plan
    MaxCrashes,    \* bound: crashes
    MaxLost,       \* bound: appends that fail
    MaxPauses      \* bound: times a person pauses or resumes the agent

ASSUME PendingConstants ==
    /\ IsFiniteSet(Work)
    /\ Mixes \subseteq [Work -> {"fork", "delegate", "pause", "job", "plan"}]
    /\ MaxCrashes \in Nat /\ MaxLost \in Nat /\ MaxPauses \in Nat

VARIABLES
    kind,      \* what a piece is
    rec,       \* disk: pending-work.jsonl
    ask,       \* disk: the confirmation of a pause or a plan
    answers,   \* disk: the items of a plan with a kept answer
    result,    \* disk: the record of what a pause's follow-up said
    child,     \* disk: a fork's message and turn
    said,      \* disk: what the agent has been told
    queued,    \* disk: a tagged note waits unstarted in the inbox
    doing,     \* memory: where the code is with a piece
    ending,    \* memory: where the settling of a delegated job is
    runs,      \* memory: active runs of a plan
    taken,     \* memory: how often a run took an item
    life,      \* memory: down, sweeping, recovering or up
    todo,      \* memory: records the start has left
    job,       \* the box's job as the box lists it, or the extension's
    ran,       \* history: items whose turn ran
    born,      \* history: the crashes before a fork's message was admitted
    paused, lost, crashes, pauses

disk == <<rec, ask, answers, result, child, said, queued>>
memory == <<doing, ending, runs, taken>>
start == <<life, todo>>
rest == <<kind, crashes, paused, pauses>>
vars == <<disk, memory, start, job, ran, born, lost, rest>>

Of(k) == {w \in Work : kind[w] = k}
IsOpen(w) == rec[w] \in {"open", "admitted"}
Serving == life # "down"
LoseAppends(n) == lost + n <= MaxLost /\ lost' = lost + n
Missed(ok) == IF ok THEN 0 ELSE 1
Put(f, w, v) == [f EXCEPT ![w] = v]

Init ==
    /\ kind \in Mixes
    /\ rec = [w \in Work |-> "none"] /\ ask = [w \in Work |-> "none"]
    /\ answers = [w \in Work |-> {}] /\ result = [w \in Work |-> "none"]
    /\ child = [w \in Work |-> "none"]
    /\ said = [w \in Work |-> {}] /\ queued = [w \in Work |-> FALSE]
    /\ doing = [w \in Work |-> "idle"] /\ ending = [w \in Work |-> "no"]
    /\ runs = [w \in Work |-> 0]
    /\ taken = [w \in Work |-> [i \in Item |-> 0]]
    /\ life = "up" /\ todo = {}
    /\ job = [w \in Work |-> "none"] /\ ran = [w \in Work |-> {}]
    /\ born = [w \in Work |-> 0]
    /\ lost = 0 /\ crashes = 0 /\ paused = FALSE /\ pauses = 0

\* Variant: the record is closed whether or not the note was admitted.
ClosesAnyway(delivered, written) == written

\* A note that was not admitted leaves the record open.
Closes(delivered, written) == delivered /\ written

\* A note to the agent, and then the record's end.
Deliver(w, what, delivered, written) ==
    /\ LoseAppends(Missed(delivered) + Missed(written))
    /\ said' = IF delivered THEN [said EXCEPT ![w] = @ \cup {what}] ELSE said
    /\ rec' = IF Closes(delivered, written) THEN Put(rec, w, "closed") ELSE rec

Admitted(w, noted) == rec' = IF noted THEN Put(rec, w, "admitted") ELSE Put(rec, w, "open")

----------------------------------------------------------------------------
(* Forks.                                                                  *)

InCall == {w \in Of("fork") : doing[w] \in {"waiting", "landed"}}
NonePrepared == \A w \in Of("fork") : doing[w] # "prepared"

\* Every fork of a call is prepared before any message is sent.
ForkPrepare(B) ==
    /\ Serving /\ InCall = {} /\ NonePrepared
    /\ B # {} /\ \A w \in B : rec[w] = "none"
    /\ rec' = [w \in Work |-> IF w \in B THEN "open" ELSE rec[w]]
    /\ doing' = [w \in Work |-> IF w \in B THEN "prepared" ELSE doing[w]]
    /\ UNCHANGED <<ask, answers, result, child, said, queued, ending, runs, taken, start, job,
                   ran, born, lost, rest>>

\* One of them cannot be recorded: those before it are dropped, none starts.
ForkRefused(B, miss) ==
    /\ Serving /\ InCall = {} /\ NonePrepared
    /\ \A w \in B : rec[w] = "none"
    /\ miss \subseteq B /\ LoseAppends(1 + Cardinality(miss))
    /\ rec' = [w \in Work |-> IF w \notin B THEN rec[w]
                              ELSE IF w \in miss THEN "open" ELSE "closed"]
    /\ UNCHANGED <<ask, answers, result, child, said, queued, memory, start, job, ran, born, rest>>

Admit(w, sent, noted) ==
    /\ doing[w] = "prepared" /\ kind[w] = "fork"
    /\ LoseAppends(Missed(sent) + Missed(noted))
    /\ IF sent THEN /\ child' = Put(child, w, "queued")
                    /\ born' = Put(born, w, crashes)
                    /\ Admitted(w, noted)
                    /\ doing' = Put(doing, w, "waiting")
       ELSE doing' = Put(doing, w, "landed") /\ UNCHANGED <<child, rec, born>>
    /\ UNCHANGED <<ask, answers, result, said, queued, ending, runs, taken, start, job, ran, rest>>

Landing(w) == Put(doing, w, CASE doing[w] = "waiting" -> "landed"
                              [] doing[w] = "late" -> "reporting"
                              [] OTHER -> doing[w])

ChildBegin(w) ==
    /\ Serving /\ child[w] = "queued" /\ ~paused
    /\ child' = Put(child, w, "running")
    /\ UNCHANGED <<rec, ask, answers, result, said, queued, memory, start, job, ran, born, lost, rest>>

ChildEnd(w) ==
    /\ Serving /\ child[w] = "running"
    /\ child' = Put(child, w, "ended")
    /\ doing' = Landing(w)
    /\ UNCHANGED <<rec, ask, answers, result, said, queued, ending, runs, taken, start, job,
                   ran, born, lost, rest>>

\* runExclusive returns at once for a paused agent and keeps the message.
ChildPutOff(w) ==
    /\ child[w] = "queued" /\ paused /\ doing[w] \in {"waiting", "late"}
    /\ doing' = Landing(w)
    /\ UNCHANGED <<disk, ending, runs, taken, start, job, ran, born, lost, rest>>

\* In the background, no join: each reports as it lands.
Detach ==
    /\ InCall # {} /\ NonePrepared
    /\ doing' = [w \in Work |->
                   IF w \notin InCall THEN doing[w]
                   ELSE IF doing[w] = "landed" THEN "reporting" ELSE "late"]
    /\ UNCHANGED <<disk, ending, runs, taken, start, job, ran, born, lost, rest>>

\* The join ends, all landed or cut short by a new instruction; the engine
\* appends the results and commits those in them.
JoinEnds(miss) ==
    /\ InCall # {} /\ NonePrepared
    /\ LET F == {w \in InCall : doing[w] = "landed"}
       IN /\ miss \subseteq F /\ LoseAppends(Cardinality(miss))
          /\ said' = [w \in Work |-> said[w] \cup (IF w \in F THEN {"findings"} ELSE {})]
          /\ rec' = [w \in Work |-> IF w \in F \ miss THEN "closed" ELSE rec[w]]
          /\ doing' = [w \in Work |-> IF w \in F THEN "idle"
                                      ELSE IF w \in InCall THEN "late" ELSE doing[w]]
    /\ UNCHANGED <<ask, answers, result, child, queued, ending, runs, taken, start, job, ran, born, rest>>

LateReport(w, delivered, written) ==
    /\ doing[w] = "reporting"
    /\ Deliver(w, "findings", delivered, written)
    /\ queued' = Put(queued, w, queued[w] \/ delivered)
    /\ doing' = Put(doing, w, "idle")
    /\ UNCHANGED <<ask, answers, result, child, ending, runs, taken, start, job, ran, born, rest>>

\* A turn of the agent takes the note from the inbox.
ReadNote(w) ==
    /\ Serving /\ queued[w]
    /\ queued' = Put(queued, w, FALSE)
    /\ UNCHANGED <<rec, ask, answers, result, child, said, memory, start, job, ran, born, lost, rest>>

----------------------------------------------------------------------------
(* Confirmations: a pause and its follow-up, a plan above the limit.       *)

\* requestConfirmation(), then prepare(), which may throw.
Confirm(w, recorded) ==
    /\ Serving /\ kind[w] \in {"pause", "plan"} /\ ask[w] = "none" /\ rec[w] = "none"
    /\ LoseAppends(Missed(recorded))
    /\ ask' = Put(ask, w, "waiting")
    /\ rec' = IF recorded THEN Put(rec, w, "open") ELSE rec
    /\ UNCHANGED <<answers, result, child, said, queued, memory, start, job, ran, born, rest>>

AnswerPause(w) ==
    /\ life = "up" /\ kind[w] = "pause" /\ ask[w] = "waiting"
    /\ ask' = Put(ask, w, "answered")
    /\ doing' = IF IsOpen(w) THEN Put(doing, w, "calling") ELSE doing
    /\ UNCHANGED <<rec, answers, result, child, said, queued, ending, runs, taken, start, job,
                   ran, born, lost, rest>>

Callback(w) ==
    /\ doing[w] = "calling"
    /\ doing' = Put(doing, w, "called")
    /\ UNCHANGED <<disk, ending, runs, taken, start, job, ran, born, lost, rest>>

\* What it said is recorded, durably or the rest is not reached.
FollowUp(w, recorded, written) ==
    /\ doing[w] = "called"
    /\ LoseAppends(Missed(recorded) + Missed(written))
    /\ IF recorded THEN /\ result' = Put(result, w, "open")
                        /\ rec' = IF written THEN Put(rec, w, "closed") ELSE rec
       ELSE UNCHANGED <<rec, result>>
    /\ doing' = Put(doing, w, "idle")
    /\ UNCHANGED <<ask, answers, child, said, queued, ending, runs, taken, start, job, ran, born, rest>>

\* deliverDue(), after the follow-up and every minute.
DeliverDue(w, delivered, written) ==
    /\ Serving /\ result[w] = "open"
    /\ LoseAppends(Missed(delivered) + Missed(written))
    /\ said' = IF delivered THEN [said EXCEPT ![w] = @ \cup {"result"}] ELSE said
    /\ result' = IF Closes(delivered, written) THEN Put(result, w, "closed") ELSE result
    /\ UNCHANGED <<rec, ask, answers, child, queued, memory, start, job, ran, born, rest>>

----------------------------------------------------------------------------
(* Plans.                                                                  *)

\* Variant: a plan that is running is started once more.
StartedAgain(w) == Put(runs, w, runs[w] + 1)

\* A plan that runs in this process is not started a second time.
Started(w) == IF runs[w] > 0 THEN runs ELSE Put(runs, w, 1)

Submit(w, noted) ==
    /\ Serving /\ kind[w] = "plan" /\ ask[w] = "none" /\ rec[w] = "none"
    /\ LoseAppends(Missed(noted))
    /\ Admitted(w, noted)
    /\ runs' = Started(w)
    /\ UNCHANGED <<ask, answers, result, child, said, queued, doing, ending, taken, start, job,
                   ran, born, rest>>

AnswerPlan(w, allowed, delivered, written) ==
    /\ life = "up" /\ kind[w] = "plan" /\ ask[w] = "waiting"
    /\ ask' = Put(ask, w, "answered")
    /\ IF allowed /\ rec[w] = "open"
       THEN delivered /\ LoseAppends(Missed(written)) /\ Admitted(w, written)
            /\ runs' = Started(w) /\ UNCHANGED said
       ELSE /\ IF rec[w] = "open" THEN Deliver(w, "nothing ran", delivered, written)
               ELSE UNCHANGED <<said, rec, lost>>
            /\ UNCHANGED runs
    /\ UNCHANGED <<answers, result, child, queued, doing, ending, taken, start, job, ran, born, rest>>

\* Variant: every item is run, answered or not.
EveryItem(w) == Item

\* A run takes the items without an answer, each once.
Missing(w) == Item \ answers[w]

\* A run failed on one item; its other workers go on.
WorkersGoOn(w) == runs[w] = 0 /\ \E i \in Item : taken[w][i] > 0

TakeItem(w, i) ==
    /\ i \in Missing(w)
    /\ taken[w][i] < runs[w] \/ (taken[w][i] = 0 /\ WorkersGoOn(w))
    /\ taken' = [taken EXCEPT ![w][i] = @ + 1]
    /\ ran' = IF paused THEN ran ELSE [ran EXCEPT ![w] = @ \cup {i}]
    /\ UNCHANGED <<disk, doing, ending, runs, start, job, born, lost, rest>>

\* The answer is kept, durably or the run fails.
KeepAnswer(w, i, kept) ==
    /\ taken[w][i] > 0 /\ i \notin answers[w]
    /\ LoseAppends(Missed(kept))
    /\ answers' = IF kept THEN [answers EXCEPT ![w] = @ \cup {i}] ELSE answers
    /\ runs' = IF kept THEN runs ELSE Put(runs, w, 0)
    /\ UNCHANGED <<rec, ask, result, child, said, queued, doing, ending, taken, start, job, ran, born, rest>>

PlanDone(w, delivered, written) ==
    /\ runs[w] > 0 /\ answers[w] = Item /\ IsOpen(w)
    /\ Deliver(w, "result", delivered, written)
    /\ runs' = Put(runs, w, 0)
    /\ UNCHANGED <<ask, answers, result, child, queued, doing, ending, taken, start, job, ran, born, rest>>

----------------------------------------------------------------------------
(* An extension's jobs, and delegated jobs.                                *)

JobStart(w) ==
    /\ Serving /\ kind[w] = "job" /\ rec[w] = "none"
    /\ rec' = Put(rec, w, "open") /\ job' = Put(job, w, "running")
    /\ UNCHANGED <<ask, answers, result, child, said, queued, memory, start, ran, born, lost, rest>>

JobDone(w, delivered, written) ==
    /\ Serving /\ kind[w] = "job" /\ job[w] = "running" /\ IsOpen(w)
    /\ Deliver(w, "result", delivered, written)
    /\ job' = Put(job, w, "exited")
    /\ UNCHANGED <<ask, answers, result, child, queued, memory, start, ran, born, rest>>

DelegatePrepare(w) ==
    /\ Serving /\ kind[w] = "delegate" /\ rec[w] = "none"
    /\ rec' = Put(rec, w, "open") /\ doing' = Put(doing, w, "prepared")
    /\ UNCHANGED <<ask, answers, result, child, said, queued, ending, runs, taken, start, job,
                   ran, born, lost, rest>>

\* The start reaches the box, whose answer is still to come.  A box of an older
\* release runs the job under an id of its own, which no record names.
BoxStarts(w) ==
    /\ doing[w] = "prepared" /\ kind[w] = "delegate" /\ job[w] = "none"
    /\ \E id \in {"running", "other"} : job' = Put(job, w, id)
    /\ UNCHANGED <<disk, memory, start, ran, born, lost, rest>>

\* The call ends: answered with the job's id; or it failed somewhere, or the
\* answer names another job, and the record is dropped whatever the box runs;
\* or the engine's config cannot be written, and the record is left.
DelegateStart(w, written) ==
    /\ doing[w] = "prepared" /\ kind[w] = "delegate"
    /\ LoseAppends(Missed(written))
    /\ \/ job[w] \notin {"none", "other"}
          /\ IF IsOpen(w) THEN Admitted(w, written) ELSE UNCHANGED rec
       \/ rec' = IF written THEN Put(rec, w, "closed") ELSE rec
       \/ job[w] = "none" /\ written /\ UNCHANGED rec
    /\ doing' = Put(doing, w, "idle")
    /\ UNCHANGED <<ask, answers, result, child, said, queued, ending, runs, taken, start, job,
                   ran, born, rest>>

\* The box's job exits, or the daemon restarts under it.
JobEnds(w, how) ==
    /\ kind[w] = "delegate" /\ job[w] \in {"running", "killed"}
    /\ how \in {"exited", "interrupted"}
    /\ job' = Put(job, w, how)
    /\ UNCHANGED <<disk, memory, start, ran, born, lost, rest>>

\* The job's processes are sent the signal.  The Jobs tool then settles the record
\* without waiting for the end; a pause of the agent, or a lost answer, does not.
Kill(w) ==
    /\ Serving /\ kind[w] = "delegate" /\ job[w] = "running"
    /\ job' = Put(job, w, "killed")
    /\ \/ IsOpen(w) /\ ending[w] = "no" /\ ending' = Put(ending, w, "settling")
       \/ UNCHANGED ending
    /\ UNCHANGED <<disk, doing, runs, taken, start, ran, born, lost, rest>>

\* The lease renewal, a timer or the Jobs tool sees the end and reads the log.
\* The renewal also ends what the box does not list: the id is bound before the
\* box has the job.
Observe(w) ==
    /\ life = "up" /\ kind[w] = "delegate" /\ IsOpen(w) /\ ending[w] = "no"
    /\ \/ job[w] \in {"exited", "interrupted"} /\ ending' = Put(ending, w, "settling")
       \/ doing[w] = "prepared" /\ job[w] \in {"none", "other"}
          /\ ending' = Put(ending, w, "unlisted")
    /\ UNCHANGED <<disk, doing, runs, taken, start, job, ran, born, lost, rest>>

\* settleDelegate() commits what is still open; its caller then tells the agent.
Settle(w, written) ==
    /\ ending[w] \in {"settling", "unlisted"}
    /\ LoseAppends(Missed(written))
    /\ rec' = IF IsOpen(w) /\ written THEN Put(rec, w, "closed") ELSE rec
    /\ ending' = Put(ending, w, IF IsOpen(w) THEN "telling" ELSE "no")
    /\ UNCHANGED <<ask, answers, result, child, said, queued, doing, runs, taken, start, job,
                   ran, born, rest>>

TellEnded(w, delivered) ==
    /\ ending[w] = "telling"
    /\ LoseAppends(Missed(delivered))
    /\ said' = IF delivered THEN [said EXCEPT ![w] = @ \cup {"result"}] ELSE said
    /\ ending' = Put(ending, w, "no")
    /\ UNCHANGED <<rec, ask, answers, result, child, queued, doing, runs, taken, start, job,
                   ran, born, rest>>

----------------------------------------------------------------------------
(* A person pauses the agent or lets it go on.                             *)

SetPause ==
    /\ life = "up" /\ pauses < MaxPauses
    /\ paused' = ~paused /\ pauses' = pauses + 1
    /\ UNCHANGED <<disk, memory, start, job, ran, born, lost, kind, crashes>>

----------------------------------------------------------------------------
(* A crash, and the start after it.                                        *)

Crash ==
    /\ Serving /\ crashes < MaxCrashes
    /\ crashes' = crashes + 1 /\ life' = "down" /\ todo' = {}
    /\ doing' = [w \in Work |-> "idle"] /\ ending' = [w \in Work |-> "no"]
    /\ runs' = [w \in Work |-> 0]
    /\ taken' = [w \in Work |-> [i \in Item |-> 0]]
    /\ job' = [w \in Work |-> IF kind[w] = "job" /\ job[w] = "running" THEN "stopped" ELSE job[w]]
    /\ UNCHANGED <<disk, ran, born, lost, kind, paused, pauses>>

\* Variant: the turns of forks are ended, their messages are left in the inbox.
OnlyTurns == [w \in Work |-> IF child[w] = "running" THEN "ended" ELSE child[w]]

\* Every message and turn of a fork ends with the process, recorded or not.
Cancelled == [w \in Work |-> IF child[w] \in {"queued", "running"} THEN "ended" ELSE child[w]]

\* Variant: only records that reached the inbox are swept.
SweptAdmitted == {w \in Of("fork") \cup Of("delegate") : rec[w] = "admitted"}

Swept == {w \in Of("fork") \cup Of("delegate") : IsOpen(w)}

Restart ==
    /\ life = "down"
    /\ life' = "sweeping" /\ todo' = Swept
    /\ child' = Cancelled
    /\ UNCHANGED <<rec, ask, answers, result, said, queued, memory, job, ran, born, lost, rest>>

\* A note with the fork's tag still queued is delivered work; otherwise the
\* agent is told that the fork was dropped.
SweepFork(w, delivered, written) ==
    /\ life = "sweeping" /\ w \in todo /\ kind[w] = "fork"
    /\ IF queued[w]
       THEN /\ delivered /\ LoseAppends(Missed(written))
            /\ rec' = IF written THEN Put(rec, w, "closed") ELSE rec
            /\ UNCHANGED <<said, queued>>
       ELSE /\ Deliver(w, "dropped", delivered, written)
            /\ queued' = Put(queued, w, delivered)
    /\ todo' = todo \ {w}
    /\ UNCHANGED <<ask, answers, result, child, memory, life, job, ran, born, rest>>

\* Variant: a box that cannot be asked has no such job.
GoneIfSilent(w) == TRUE

Gone(w) == job[w] \in {"none", "other", "interrupted"}

\* A job the box lists as running, or a box that cannot be asked, leaves the
\* record; an exit is settled as ever; a job the box does not know or lost is
\* reported.
SweepDelegate(w, delivered, written) ==
    /\ life = "sweeping" /\ w \in todo /\ kind[w] = "delegate"
    /\ \/ /\ delivered /\ written
          /\ job[w] = "exited" /\ ending[w] = "no" /\ ending' = Put(ending, w, "settling")
          /\ UNCHANGED <<rec, said, lost>>
       \/ /\ delivered /\ written
          /\ UNCHANGED <<rec, said, lost, ending>>
       \/ /\ Gone(w)
          /\ Deliver(w, "dropped", delivered, written)
          /\ UNCHANGED ending
    /\ todo' = todo \ {w}
    /\ UNCHANGED <<ask, answers, result, child, queued, doing, runs, taken, life, job,
                   ran, born, rest>>

SweepDone ==
    /\ life = "sweeping" /\ todo = {}
    /\ life' = "recovering"
    /\ todo' = {w \in Of("pause") \cup Of("job") \cup Of("plan") : IsOpen(w)}
    /\ UNCHANGED <<disk, memory, job, ran, born, lost, rest>>

Recovering(w, k) == life = "recovering" /\ w \in todo /\ kind[w] = k

\* The extension picks its job up again, or the agent is told it was lost.
RecoverJob(w, delivered, written) ==
    /\ Recovering(w, "job")
    /\ \/ /\ delivered /\ written
          /\ job' = IF job[w] = "stopped" THEN Put(job, w, "running") ELSE job
          /\ UNCHANGED <<rec, said, lost>>
       \/ Deliver(w, "lost", delivered, written) /\ UNCHANGED job
    /\ todo' = todo \ {w}
    /\ UNCHANGED <<ask, answers, result, child, queued, memory, life, ran, born, rest>>

\* A confirmation no longer waiting is reported and closed.
RecoverPause(w, delivered, written) ==
    /\ Recovering(w, "pause")
    /\ IF ask[w] = "waiting" THEN delivered /\ written /\ UNCHANGED <<rec, said, lost>>
       ELSE Deliver(w, "did not run", delivered, written)
    /\ todo' = todo \ {w}
    /\ UNCHANGED <<ask, answers, result, child, queued, memory, life, job, ran, born, rest>>

\* Variant: a plan counts as started only when it needed no confirmation.
UnaskedPlan(w) == ask[w] = "none"

StartedPlan(w) == rec[w] = "admitted" \/ ask[w] = "none"

\* A started plan goes on with what is missing.
RecoverPlan(w, delivered, written) ==
    /\ Recovering(w, "plan")
    /\ \/ /\ StartedPlan(w) /\ delivered /\ written
          /\ runs' = Started(w) /\ UNCHANGED <<rec, said, lost>>
       \/ /\ ~StartedPlan(w) /\ ask[w] = "waiting" /\ delivered /\ written
          /\ UNCHANGED <<runs, rec, said, lost>>
       \/ /\ ~StartedPlan(w) /\ ask[w] # "waiting"
          /\ Deliver(w, "nothing ran", delivered, written) /\ UNCHANGED runs
    /\ todo' = todo \ {w}
    /\ UNCHANGED <<ask, answers, result, child, queued, doing, ending, taken, life, job, ran, born, rest>>

RecoverDone ==
    /\ life = "recovering" /\ todo = {}
    /\ life' = "up"
    /\ UNCHANGED <<disk, memory, todo, job, ran, born, lost, rest>>

----------------------------------------------------------------------------
ForkStep(w) ==
    \/ \E s, n \in BOOLEAN : Admit(w, s, n)
    \/ ChildBegin(w) \/ ChildEnd(w) \/ ChildPutOff(w)
    \/ \E d, x \in BOOLEAN : LateReport(w, d, x)
    \/ ReadNote(w)

PauseStep(w) ==
    \/ \E r \in BOOLEAN : Confirm(w, r)
    \/ AnswerPause(w) \/ Callback(w)
    \/ \E r, x \in BOOLEAN : FollowUp(w, r, x)
    \/ \E d, x \in BOOLEAN : DeliverDue(w, d, x)

PlanStep(w) ==
    \/ \E n \in BOOLEAN : Submit(w, n)
    \/ \E a, d, x \in BOOLEAN : AnswerPlan(w, a, d, x)
    \/ \E i \in Item : TakeItem(w, i)
    \/ \E i \in Item, k \in BOOLEAN : KeepAnswer(w, i, k)
    \/ \E d, x \in BOOLEAN : PlanDone(w, d, x)

JobStep(w) ==
    \/ JobStart(w)
    \/ \E d, x \in BOOLEAN : JobDone(w, d, x)

DelegateStep(w) ==
    \/ DelegatePrepare(w)
    \/ BoxStarts(w) \/ Kill(w)
    \/ \E n \in BOOLEAN : DelegateStart(w, n)
    \/ \E how \in {"exited", "interrupted"} : JobEnds(w, how)
    \/ Observe(w)
    \/ \E x \in BOOLEAN : Settle(w, x)
    \/ \E d \in BOOLEAN : TellEnded(w, d)

StartStep(w, d, x) ==
    \/ SweepFork(w, d, x) \/ SweepDelegate(w, d, x)
    \/ RecoverJob(w, d, x) \/ RecoverPause(w, d, x) \/ RecoverPlan(w, d, x)

Next ==
    \/ \E B \in SUBSET Of("fork") : ForkPrepare(B) \/ \E miss \in SUBSET B : ForkRefused(B, miss)
    \/ \E miss \in SUBSET Work : JoinEnds(miss)
    \/ Detach
    \/ \E w \in Work :
         \/ ForkStep(w) \/ PauseStep(w) \/ PlanStep(w) \/ JobStep(w) \/ DelegateStep(w)
         \/ \E d, x \in BOOLEAN : StartStep(w, d, x)
    \/ SetPause
    \/ Crash \/ Restart \/ SweepDone \/ RecoverDone

Spec == Init /\ [][Next]_vars

\* Code that has begun goes on, turns and callbacks come back, and a
\* confirmation nobody answers is refused after a day.
Fairness ==
    /\ WF_vars(\E miss \in SUBSET Work : JoinEnds(miss))
    /\ \A w \in Work :
         /\ WF_vars(\E s, n \in BOOLEAN : Admit(w, s, n))
         /\ WF_vars(ChildBegin(w)) /\ WF_vars(ChildEnd(w)) /\ WF_vars(ChildPutOff(w))
         /\ WF_vars(\E d, x \in BOOLEAN : LateReport(w, d, x))
         /\ WF_vars(AnswerPause(w)) /\ WF_vars(Callback(w))
         /\ WF_vars(\E r, x \in BOOLEAN : FollowUp(w, r, x))
         /\ WF_vars(\E d, x \in BOOLEAN : DeliverDue(w, d, x))
         /\ WF_vars(\E d, x \in BOOLEAN : AnswerPlan(w, FALSE, d, x))
         /\ WF_vars(\E i \in Item : TakeItem(w, i) \/ KeepAnswer(w, i, TRUE))
         /\ WF_vars(\E d, x \in BOOLEAN : PlanDone(w, d, x))
         /\ WF_vars(\E d, x \in BOOLEAN : StartStep(w, d, x))
    /\ WF_vars(Restart) /\ WF_vars(SweepDone) /\ WF_vars(RecoverDone)
LiveSpec == Spec /\ Fairness

----------------------------------------------------------------------------
\* The shape of the ledger, the notes and the answers; a plan has at most one run
\* in a process, and no item is taken twice in it.
TypeOK ==
    /\ kind \in Mixes
    /\ rec \in [Work -> {"none", "open", "admitted", "closed"}]
    /\ ask \in [Work -> {"none", "waiting", "answered"}]
    /\ answers \in [Work -> SUBSET Item] /\ ran \in [Work -> SUBSET Item]
    /\ result \in [Work -> {"none", "open", "closed"}]
    /\ child \in [Work -> {"none", "queued", "running", "ended"}]
    /\ born \in [Work -> 0..MaxCrashes]
    /\ said \in [Work -> SUBSET {"findings", "result", "dropped", "lost", "did not run",
                                 "nothing ran"}]
    /\ queued \in [Work -> BOOLEAN]
    /\ doing \in [Work -> {"idle", "prepared", "waiting", "landed", "late", "reporting",
                           "calling", "called"}]
    /\ ending \in [Work -> {"no", "unlisted", "settling", "telling"}]
    /\ runs \in [Work -> 0..1] /\ taken \in [Work -> [Item -> 0..1]]
    /\ life \in {"down", "sweeping", "recovering", "up"} /\ todo \subseteq Work
    /\ job \in [Work -> {"none", "running", "other", "killed", "stopped", "exited",
                         "interrupted"}]
    /\ paused \in BOOLEAN /\ pauses \in 0..MaxPauses
    /\ lost \in 0..MaxLost /\ crashes \in 0..MaxCrashes

\* Work that began: something of it may have taken effect.
Began(w) ==
    child[w] # "none" \/ ran[w] # {} \/ job[w] # "none" \/ result[w] # "none"

\* A record of work that began is settled only when the agent has heard of it,
\* or what it is to hear is on disk.  (pending-work.ts: "settled only once its
\* findings are durably in the parent's hands".)
ClosedMeansTold ==
    \A w \in Work :
        rec[w] = "closed" /\ Began(w) /\ kind[w] # "delegate" =>
            said[w] # {} \/ result[w] = "open"

\* A fork never resumes across a restart: once the host serves, a fork's message
\* or turn is one this process admitted.  (sweep().)
ForksEndWithTheProcess ==
    Serving => \A w \in Work : child[w] \in {"queued", "running"} => born[w] = crashes

\* With every append made, an agent told that nothing of its plan ran has a plan
\* of which nothing ran.  (AnswerPlan's refusal, recover().)
NothingRanIsTrue ==
    lost = 0 => \A w \in Work : "nothing ran" \in said[w] => ran[w] = {}

\* A plan's item is not begun again once its answer is kept, whatever restarts
\* and confirmations start its plan again.  (run(), results().)
AnsweredStaysAnswered ==
    [][\A w \in Work : \A i \in answers[w] : taken'[w][i] <= taken[w][i]]_vars

\* The record of a delegated job is not closed while the box runs the job and nobody
\* killed it, also by a start at which the box could not be asked.  Two places close
\* it all the same: the end of a start call that failed after the box had taken the
\* job, and a renewal that looked before the box had it.  (docs/32: "running stays
\* open"; sweep(), settleDelegate().)
RunningStaysOpen ==
    [][\A w \in Of("delegate") :
          IsOpen(w) /\ job[w] = "running" /\ ~IsOpen(w)'
              => doing[w] = "prepared" \/ ending[w] = "unlisted"]_vars

\* With every append made, the agent hears of every fork, confirmation and plan
\* that was recorded, however often the host dies.
EventuallyTold ==
    \A w \in Work :
        IsOpen(w) /\ kind[w] \in {"fork", "pause", "plan"} ~> said[w] # {} \/ lost > 0

=============================================================================
