----------------------------- MODULE ContextEpoch -----------------------------
(***************************************************************************)
(* Switching a conversation to a new context (/new, /new --clean, /retry,  *)
(* /recover), one durable write at a time.                                 *)
(*                                                                         *)
(* state.json says which context is current, by which commands it came to  *)
(* be, and which switch is prepared.  A prepared switch is finished by     *)
(* whoever reads the state next: the history of context 0 moves into the   *)
(* archive, a fence stands where an older program would write, the opening *)
(* goes to the head of the new transcript, and the state is published.     *)
(*                                                                         *)
(* A note for the next context is drafted while the conversation is idle,  *)
(* from what was read before the model was asked for it.                   *)
(*                                                                         *)
(* A command may come again (the chat redelivers it).  A crash can come    *)
(* between any two writes; it may take a staged note with it; while the    *)
(* host is down, a program older than contexts may run.                    *)
(***************************************************************************)
EXTENDS Naturals, Sequences, FiniteSets

CONSTANTS
    Op,          \* operation ids: one per command message
    File,        \* the files of context 0 that exist
    Transcript,  \* the one of them the fence stands for
    None,
    MaxEntries,  \* bound: entries written to a context
    MaxCrashes   \* bound: crashes

ASSUME ContextConstants ==
    /\ Transcript \in File
    /\ IsFiniteSet(Op) /\ None \notin Op \cup Nat
    /\ MaxEntries \in Nat /\ MaxCrashes \in Nat

VARIABLES
    ops,       \* state.json: the switches made; their number is the epoch
    prepared,  \* state.json: the switch under way
    legacy,    \* the file at its place of before contexts: none, old or new
    archived,  \* the file of context 0 in the archive
    fence,     \* a directory stands where the transcript was
    staged,    \* staging/<op>: the note, or None
    first,     \* the opening of a context: none, handoff or placeholder
    draft,     \* drafts/<epoch>: the snapshot it is labelled with and the one
               \* the note was really written from
    entries,   \* entries of the current context
    captured,  \* memory: the snapshot a note is being written from
    serving,   \* memory: the command being served
    up,        \* memory: the host runs
    told,      \* history: what a command was answered with
    left,      \* history: per switch with a note, what it left and what was noted
    crashes    \* history: crashes

store == <<ops, prepared, legacy, archived, fence, staged, first>>
notes == <<draft, entries, captured>>
vars == <<store, notes, serving, up, told, left, crashes>>

Epoch == Len(ops)
Mode == {"normal", "clean", "recover"}
Current == IF ops = <<>> THEN "normal" ELSE ops[Epoch].mode
Made == {ops[i].id : i \in DOMAIN ops}
EpochOf(op) == CHOOSE i \in DOMAIN ops : ops[i].id = op
Unprepared == [id |-> None, mode |-> "normal", note |-> FALSE]
NoDraft == [snapshot |-> None, about |-> 0]
NoNote == [entries |-> 0, noted |-> 0]
Untold == [epoch |-> 0, opening |-> "none"]
Opening == {"none", "handoff", "placeholder"}

Init ==
    /\ ops = <<>> /\ prepared = Unprepared
    /\ legacy = [f \in File |-> "old"] /\ archived = [f \in File |-> "none"]
    /\ fence = FALSE
    /\ staged = [o \in Op |-> FALSE]
    /\ first = [e \in 0..Cardinality(Op) |-> "none"]
    /\ draft = [e \in 0..Cardinality(Op) |-> NoDraft]
    /\ entries = 0 /\ captured = None
    /\ serving = None /\ up = TRUE
    /\ told = [o \in Op |-> Untold] /\ left = [o \in Op |-> NoNote]
    /\ crashes = 0

\* Every read of the state finishes a prepared switch first, so whatever looks
\* at the context finds none.
Readable == up /\ prepared = Unprepared

----------------------------------------------------------------------------
(* The conversation and the note about it.                                 *)

Append1 ==
    /\ Readable /\ serving = None /\ entries < MaxEntries
    /\ entries' = entries + 1
    /\ UNCHANGED <<store, draft, captured, serving, up, told, left, crashes>>

\* Variant: a draft of this context is good, whatever was said since.
DraftOfContext == draft[Epoch] # NoDraft

\* readHandoffDraft(): valid when it was written from exactly this context.
DraftIsValid == draft[Epoch].snapshot = entries

\* look(): the snapshot is taken before the model is asked.
Capture ==
    /\ Readable /\ serving = None /\ captured = None /\ Current = "normal"
    /\ ~DraftIsValid
    /\ captured' = [epoch |-> Epoch, entries |-> entries]
    /\ UNCHANGED <<store, draft, entries, serving, up, told, left, crashes>>

\* Variant: the draft is stored as a note about the context as it is now.
Refreshed(snapshot) == [epoch |-> Epoch, entries |-> entries]

\* writeHandoffDraft(): what is stored is the snapshot that was captured.
Described(snapshot) == snapshot

\* Refused when the context moved on since; then nothing is stored.
WriteDraft ==
    /\ Readable /\ serving = None /\ captured # None
    /\ LET snapshot == Described(captured)
       IN draft' = IF snapshot = [epoch |-> Epoch, entries |-> entries]
                   THEN [draft EXCEPT ![Epoch] = [snapshot |-> snapshot.entries,
                                              about |-> captured.entries]] ELSE draft
    /\ captured' = None
    /\ UNCHANGED <<store, entries, serving, up, told, left, crashes>>

----------------------------------------------------------------------------
(* A command.                                                              *)

\* Variant: the answer names the context after the one it made.
AnsweredNext(op) == [epoch |-> EpochOf(op) + 1, opening |-> ops[EpochOf(op)].opening]

\* The command was served before: its answer is read back.
Answered(op) == [epoch |-> EpochOf(op), opening |-> ops[EpochOf(op)].opening]

Repeat(op) ==
    /\ Readable /\ serving = None /\ op \in Made
    /\ told' = [told EXCEPT ![op] = Answered(op)]
    /\ UNCHANGED <<store, notes, serving, up, left, crashes>>

\* Variant: a command is known by the switch that was asked for last.
KnownAsLast(op) == ops # <<>> /\ ops[Epoch].id = op

Known(op) == op \in Made

\* newContext(), retryLastAnswer(), recoverTask(), and advance() up to the
\* durable prepare.  A note rides a normal switch out of a normal context, and
\* only when it could be staged.
Prepare(op, mode, canStage) ==
    /\ Readable /\ serving = None /\ ~Known(op)
    /\ LET rides == mode = "normal" /\ Current = "normal" /\ DraftIsValid /\ canStage
       IN /\ prepared' = [id |-> op, mode |-> mode, note |-> rides]
          /\ staged' = IF rides THEN [staged EXCEPT ![op] = TRUE] ELSE staged
          /\ left' = IF rides THEN [left EXCEPT ![op] = [entries |-> entries, noted |-> draft[Epoch].about]]
                     ELSE left
    /\ serving' = op
    /\ UNCHANGED <<ops, legacy, archived, fence, first, notes, up, told, crashes>>

----------------------------------------------------------------------------
(* commit(): run by advance(), and by the first read after a crash.        *)

\* Variant: only the command that prepared a switch finishes it.
CommittingForCaller == up /\ prepared # Unprepared /\ serving = prepared.id

Committing == up /\ prepared # Unprepared
\* Two copies of a file of context 0: refused, so that none is overwritten.
Collision(f) == legacy[f] # "none" /\ archived[f] # "none"
Stuck == Committing /\ Epoch = 0 /\ ~fence /\ \E f \in File : Collision(f)

\* Variant: a file moves whatever is in the archive.
MoveAlways(f) == TRUE

MayMove(f) == ~Collision(f)

Migrate(f) ==
    /\ Committing /\ Epoch = 0 /\ legacy[f] # "none" /\ MayMove(f)
    /\ ~(f = Transcript /\ fence)
    /\ archived' = [archived EXCEPT ![f] = legacy[f]]
    /\ legacy' = [legacy EXCEPT ![f] = "none"]
    /\ UNCHANGED <<ops, prepared, fence, staged, first, notes, serving, up, told, left, crashes>>

Migrated == Epoch > 0 \/ \A f \in File : legacy[f] = "none"

Fence ==
    /\ Committing /\ Epoch = 0 /\ Migrated /\ ~fence
    /\ fence' = TRUE
    /\ UNCHANGED <<ops, prepared, legacy, archived, staged, first, notes, serving, up, told,
                   left, crashes>>

\* installOpening(): the note that is there and intact stays; else the staged
\* one; else the placeholder.
OpeningFor(e) ==
    IF first[e] = "handoff" \/ staged[prepared.id] THEN "handoff" ELSE "placeholder"

Install ==
    /\ Committing /\ prepared.note /\ Migrated /\ (Epoch = 0 => fence)
    /\ first' = [first EXCEPT ![Epoch + 1] = OpeningFor(Epoch + 1)]
    /\ first' # first
    /\ UNCHANGED <<ops, prepared, legacy, archived, fence, staged, notes, serving, up, told,
                   left, crashes>>

\* The new state replaces the old one in one rename, and says what the opening
\* is; then the staged note is removed, unless a crash comes first.
Publish(removed) ==
    /\ Committing /\ Migrated /\ (Epoch = 0 => fence)
    /\ LET opening == IF prepared.note THEN OpeningFor(Epoch + 1) ELSE "none"
       IN /\ first[Epoch + 1] = opening
          /\ ops' = Append(ops, [id |-> prepared.id, mode |-> prepared.mode, opening |-> opening])
    /\ prepared' = Unprepared
    /\ staged' = IF removed THEN [staged EXCEPT ![prepared.id] = FALSE] ELSE staged
    /\ entries' = 0
    /\ UNCHANGED <<legacy, archived, fence, first, draft, captured, serving, up, told, left, crashes>>

Reply ==
    /\ Readable /\ serving # None
    /\ told' = [told EXCEPT ![serving] = Answered(serving)]
    /\ serving' = None
    /\ UNCHANGED <<store, notes, up, left, crashes>>

----------------------------------------------------------------------------
(* Crashes, and what happens to the files meanwhile.                       *)

Crash(kept) ==
    /\ up /\ crashes < MaxCrashes
    /\ up' = FALSE /\ crashes' = crashes + 1
    /\ captured' = None /\ serving' = None
    /\ staged' = [o \in Op |-> staged[o] /\ kept]
    /\ UNCHANGED <<ops, prepared, legacy, archived, fence, first, draft, entries, told, left>>

\* A program of before contexts writes where it always did, unless the fence
\* makes it fail.
OlderProgram(f) ==
    /\ ~up /\ ~fence /\ legacy[f] = "none"
    /\ legacy' = [legacy EXCEPT ![f] = "new"]
    /\ UNCHANGED <<ops, prepared, archived, fence, staged, first, notes, serving, up, told, left,
                   crashes>>

Start ==
    /\ ~up /\ up' = TRUE
    /\ UNCHANGED <<store, notes, serving, told, left, crashes>>

CommitStep == \/ \E f \in File : Migrate(f)
              \/ Fence \/ Install
              \/ \E removed \in BOOLEAN : Publish(removed)

Next ==
    \/ Append1 \/ Capture \/ WriteDraft
    \/ \E op \in Op : Repeat(op) \/ \E m \in Mode, s \in BOOLEAN : Prepare(op, m, s)
    \/ CommitStep \/ Reply
    \/ \E kept \in BOOLEAN : Crash(kept)
    \/ \E f \in File : OlderProgram(f)
    \/ Start

Spec == Init /\ [][Next]_vars

\* A start follows a crash, and the code of a switch does not pause.
LiveSpec == Spec /\ WF_vars(Start) /\ WF_vars(CommitStep) /\ WF_vars(Reply)

----------------------------------------------------------------------------
\* The shape of the state file, the files it moves, the notes and the answers.
TypeOK ==
    /\ ops \in Seq([id : Op, mode : Mode, opening : Opening])
    /\ Len(ops) <= Cardinality(Op)
    /\ prepared \in [id : Op \cup {None}, mode : Mode, note : BOOLEAN]
    /\ legacy \in [File -> {"none", "old", "new"}]
    /\ archived \in [File -> {"none", "old", "new"}]
    /\ fence \in BOOLEAN /\ staged \in [Op -> BOOLEAN]
    /\ first \in [0..Cardinality(Op) -> Opening]
    /\ draft \in [0..Cardinality(Op) -> [snapshot : 0..MaxEntries \cup {None},
                                         about : 0..MaxEntries]]
    /\ entries \in 0..MaxEntries
    /\ captured \in [epoch : 0..Cardinality(Op), entries : 0..MaxEntries] \cup {None}
    /\ serving \in Op \cup {None} /\ up \in BOOLEAN
    /\ told \in [Op -> [epoch : 0..Cardinality(Op), opening : Opening]]
    /\ left \in [Op -> [entries : 0..MaxEntries, noted : 0..MaxEntries]]
    /\ crashes \in 0..MaxCrashes

\* No file of the old conversation is lost or overwritten, and a reader of
\* context 0 finds it.  (commit(), the migration and its fence.)
HistoryKept ==
    \A f \in File :
        /\ legacy[f] = "old" \/ archived[f] = "old"
        /\ Readable /\ Epoch > 0 => archived[f] = "old"

\* A note opens a context only if it describes exactly what was left: nothing
\* was said between the snapshot it was written from and the switch.
\* (snapshotOf, writeHandoffDraft, readHandoffDraft.)
OpeningIsCurrent ==
    \A i \in DOMAIN ops : ops[i].opening = "handoff" =>
        left[ops[i].id].entries = left[ops[i].id].noted

\* The answer to a command, the first one and those to its repeats, names the
\* context this command made and the opening that is really in it.
\* (newContext, previousOperation, openingLine.)
AnswerIsTrue ==
    \A op \in Op : told[op] # Untold =>
        /\ told[op].epoch \in DOMAIN ops /\ ops[told[op].epoch].id = op
        /\ told[op].opening = first[told[op].epoch]

\* A note that opens a context stays, whatever is gone from staging when the
\* switch is finished after a crash.  (installOpening.)
OpeningStays ==
    [][\A e \in DOMAIN first : first[e] = "handoff" => first'[e] = "handoff"]_vars

\* The store keeps the promise of SwitchLog, where a switch is there from its
\* durable prepare on: nothing read later says it was not made.
made ==
    [i \in DOMAIN ops |-> [id |-> ops[i].id, mode |-> ops[i].mode]]
      \o (IF prepared = Unprepared THEN <<>>
          ELSE <<[id |-> prepared.id, mode |-> prepared.mode]>>)
Log == INSTANCE SwitchLog WITH switches <- made
SwitchesOnce == Log!LSpec

\* A prepared switch is finished, however often the host dies on the way,
\* unless the archive already has a file of that name.
SwitchFinishes == prepared # Unprepared ~> prepared = Unprepared \/ Stuck
================================================================================
