--------------------------- MODULE ContextEpoch_proofs ---------------------------
(***************************************************************************)
(* Proofs about ContextEpoch, for every set of commands and of files, any  *)
(* number of entries and of crashes: no history is lost, a note that opens *)
(* a context is about what was left, answers are true, and the store       *)
(* implements SwitchLog.                                                   *)
(***************************************************************************)
EXTENDS ContextEpoch, FiniteSetTheorems, SequenceTheorems, TLAPS

----------------------------------------------------------------------------
(* The invariant.                                                          *)

\* The old file of a name is at its old place or in the archive, and in the
\* archive once a switch was published.
FilesInv ==
    \A f \in File : /\ legacy[f] = "old" \/ archived[f] = "old"
                    /\ ops # <<>> => archived[f] = "old"

\* Every command made one switch, and the one that is prepared made none yet.
SwitchInv ==
    /\ Cardinality(Made) = Len(ops)
    /\ \A i, j \in DOMAIN ops : ops[i].id = ops[j].id => i = j
    /\ prepared # Unprepared => prepared.id \in Op \ Made
    /\ serving # None => serving \in Made \/ (prepared # Unprepared /\ prepared.id = serving)

\* The state says of each context what really opens it.
OpeningInv == \A i \in DOMAIN ops : ops[i].opening = first[i]

\* A draft is labelled with the snapshot it was written from, and so is the note
\* a switch takes along.
NoteInv ==
    /\ \A e \in 0..Cardinality(Op) : draft[e] # NoDraft => draft[e].snapshot = draft[e].about
    /\ prepared # Unprepared /\ prepared.note =>
           left[prepared.id].entries = left[prepared.id].noted

ContextInv ==
    TypeOK /\ FilesInv /\ SwitchInv /\ OpeningInv /\ NoteInv /\ OpeningIsCurrent /\ AnswerIsTrue

----------------------------------------------------------------------------
(* Types.                                                                  *)

Switched == [id : Op, mode : Mode, opening : Opening]

\* A switch is prepared when it names a command.
LEMMA PreparedIs ==
  ASSUME NEW r \in [id : Op \cup {None}, mode : Mode, note : BOOLEAN], r.id \in Op
  PROVE  r # Unprepared
  BY ContextConstants DEF ContextConstants, Unprepared

\* What there is to know of the sequence of switches.
LEMMA OpsAre ==
  ASSUME TypeOK
  PROVE  /\ ops \in Seq(Switched) /\ Len(ops) \in Nat /\ DOMAIN ops = 1..Len(ops)
         /\ \A i \in DOMAIN ops : ops[i] \in Switched /\ ops[i].id \in Op
         /\ Made \subseteq Op
         /\ Cardinality(Op) \in Nat /\ IsFiniteSet(Op)
  <1>1. ops \in Seq(Switched)
    BY DEF TypeOK, Switched
  <1>2. Len(ops) \in Nat /\ DOMAIN ops = 1..Len(ops) /\ \A i \in DOMAIN ops : ops[i] \in Switched
    BY <1>1
  <1>3. \A r \in Switched : r.id \in Op
    BY DEF Switched
  <1>4. IsFiniteSet(Op) /\ Cardinality(Op) \in Nat
    BY ContextConstants, FS_CardinalityType DEF ContextConstants
  <1> QED  BY <1>1, <1>2, <1>3, <1>4 DEF Made

\* A prepared switch leaves room for its context.
LEMMA RoomForOne ==
  ASSUME TypeOK, SwitchInv, prepared # Unprepared
  PROVE  /\ Len(ops) + 1 \in 0..Cardinality(Op)
         /\ Cardinality(Made \cup {prepared.id}) = Len(ops) + 1
  <1>1. prepared.id \in Op /\ prepared.id \notin Made
    BY DEF SwitchInv
  <1>2. IsFiniteSet(Made)
    BY OpsAre, FS_Subset
  <1>3. Cardinality(Made \cup {prepared.id}) = Len(ops) + 1
    BY <1>1, <1>2, FS_AddElement DEF SwitchInv
  <1>4. Cardinality(Made \cup {prepared.id}) <= Cardinality(Op)
    <2>1. Made \cup {prepared.id} \subseteq Op
      BY <1>1, OpsAre
    <2> QED  BY <2>1, OpsAre, FS_Subset
  <1> QED  BY <1>3, <1>4, OpsAre

\* The initial state is well-typed.
LEMMA TypeInit == Init => TypeOK
  <1> SUFFICES ASSUME Init PROVE TypeOK
    OBVIOUS
  <1>1. IsFiniteSet(Op) /\ Cardinality(Op) \in Nat
    BY ContextConstants, FS_CardinalityType DEF ContextConstants
  <1>2. /\ NoDraft \in [snapshot : 0..MaxEntries \cup {None}, about : 0..MaxEntries]
        /\ NoNote \in [entries : 0..MaxEntries, noted : 0..MaxEntries]
        /\ Untold \in [epoch : 0..Cardinality(Op), opening : Opening]
        /\ Unprepared \in [id : Op \cup {None}, mode : Mode, note : BOOLEAN]
    BY <1>1, ContextConstants
    DEF ContextConstants, NoDraft, NoNote, Untold, Unprepared, Opening, Mode
  <1>3. ops \in Seq([id : Op, mode : Mode, opening : Opening]) /\ Len(ops) <= Cardinality(Op)
    BY <1>1 DEF Init
  <1>4. /\ legacy \in [File -> {"none", "old", "new"}]
        /\ archived \in [File -> {"none", "old", "new"}]
        /\ fence \in BOOLEAN /\ staged \in [Op -> BOOLEAN]
        /\ first \in [0..Cardinality(Op) -> Opening]
    BY DEF Init, Opening
  <1>5. /\ draft \in [0..Cardinality(Op) -> [snapshot : 0..MaxEntries \cup {None},
                                             about : 0..MaxEntries]]
        /\ told \in [Op -> [epoch : 0..Cardinality(Op), opening : Opening]]
        /\ left \in [Op -> [entries : 0..MaxEntries, noted : 0..MaxEntries]]
        /\ prepared \in [id : Op \cup {None}, mode : Mode, note : BOOLEAN]
    BY <1>2 DEF Init
  <1>6. /\ entries \in 0..MaxEntries /\ crashes \in 0..MaxCrashes
        /\ captured \in [epoch : 0..Cardinality(Op), entries : 0..MaxEntries] \cup {None}
        /\ serving \in Op \cup {None} /\ up \in BOOLEAN
    BY ContextConstants DEF Init, ContextConstants
  <1> QED  BY <1>3, <1>4, <1>5, <1>6 DEF TypeOK

\* Every step keeps the types.
LEMMA TypeStep ==
  ASSUME TypeOK, SwitchInv, [Next]_vars
  PROVE  TypeOK'
  <1>0. /\ MaxEntries \in Nat /\ MaxCrashes \in Nat /\ Cardinality(Op) \in Nat
        /\ Len(ops) \in Nat /\ Epoch \in 0..Cardinality(Op)
    BY ContextConstants, OpsAre DEF ContextConstants, TypeOK, Epoch
  <1>1. ASSUME Append1 PROVE TypeOK'
    BY <1>0, <1>1 DEF Append1, TypeOK, store, Readable
  <1>2. ASSUME Capture PROVE TypeOK'
    <2>1. captured' \in [epoch : 0..Cardinality(Op), entries : 0..MaxEntries]
      BY <1>0, <1>2 DEF Capture, TypeOK
    <2> QED  BY <1>2, <2>1 DEF Capture, TypeOK, store
  <1>3. ASSUME WriteDraft PROVE TypeOK'
    <2>1. captured \in [epoch : 0..Cardinality(Op), entries : 0..MaxEntries]
      BY <1>3 DEF WriteDraft, TypeOK
    <2>2. [snapshot |-> captured.entries, about |-> captured.entries]
            \in [snapshot : 0..MaxEntries \cup {None}, about : 0..MaxEntries]
      BY <2>1
    <2>3. draft' \in [0..Cardinality(Op) -> [snapshot : 0..MaxEntries \cup {None},
                                             about : 0..MaxEntries]]
      BY <1>0, <1>3, <2>2 DEF WriteDraft, Described, TypeOK
    <2> QED  BY <1>3, <2>3 DEF WriteDraft, TypeOK, store
  <1>4. ASSUME NEW op \in Op, Repeat(op) \/ (Reply /\ serving = op /\ op \in Made)
        PROVE  told' \in [Op -> [epoch : 0..Cardinality(Op), opening : Opening]]
    <2>1. EpochOf(op) \in DOMAIN ops
      BY <1>4 DEF Repeat, Made, EpochOf
    <2>2. EpochOf(op) \in 0..Cardinality(Op) /\ ops[EpochOf(op)].opening \in Opening
      <3>1. ops[EpochOf(op)] \in Switched
        BY <2>1, OpsAre
      <3>2. ops[EpochOf(op)].opening \in Opening
        BY <3>1 DEF Switched
      <3>3. EpochOf(op) \in 1..Len(ops) /\ Len(ops) <= Cardinality(Op)
        BY <2>1, OpsAre DEF TypeOK
      <3> QED  BY <1>0, <3>2, <3>3
    <2>3. Answered(op) \in [epoch : 0..Cardinality(Op), opening : Opening]
      BY <2>2 DEF Answered
    <2>4. told' = [told EXCEPT ![op] = Answered(op)]
      BY <1>4 DEF Repeat, Reply
    <2> QED  BY <2>3, <2>4 DEF TypeOK
  <1>5. ASSUME NEW op \in Op, Repeat(op) PROVE TypeOK'
    BY <1>4, <1>5 DEF Repeat, TypeOK, store, notes
  <1>6. ASSUME Reply PROVE TypeOK'
    <2>1. serving \in Op /\ serving \in Made
      BY <1>6 DEF Reply, Readable, SwitchInv, TypeOK
    <2> QED  BY <1>4, <1>6, <2>1 DEF Reply, TypeOK, store, notes
  <1>7. ASSUME NEW op \in Op, NEW m \in Mode, NEW s \in BOOLEAN, Prepare(op, m, s) PROVE TypeOK'
    <2>1. prepared' \in [id : Op \cup {None}, mode : Mode, note : BOOLEAN]
      BY <1>7 DEF Prepare, DraftIsValid
    <2>2. [entries |-> entries, noted |-> draft[Epoch].about]
            \in [entries : 0..MaxEntries, noted : 0..MaxEntries]
      BY <1>0 DEF TypeOK
    <2>3. left' \in [Op -> [entries : 0..MaxEntries, noted : 0..MaxEntries]]
      BY <1>7, <2>2 DEF Prepare, TypeOK
    <2>4. staged' \in [Op -> BOOLEAN]
      BY <1>7 DEF Prepare, TypeOK
    <2> QED  BY <1>7, <2>1, <2>3, <2>4 DEF Prepare, TypeOK, notes
  <1>8. ASSUME NEW f \in File, Migrate(f) PROVE TypeOK'
    BY <1>8 DEF Migrate, TypeOK, notes
  <1>9. ASSUME Fence PROVE TypeOK'
    BY <1>9 DEF Fence, TypeOK, notes
  <1>10. ASSUME Install PROVE TypeOK'
    <2>1. OpeningFor(Epoch + 1) \in Opening
      BY DEF OpeningFor, Opening
    <2> QED  BY <1>10, <2>1 DEF Install, TypeOK, notes
  <1>11. ASSUME NEW removed \in BOOLEAN, Publish(removed) PROVE TypeOK'
    <2>1. prepared # Unprepared /\ prepared.id \in Op /\ prepared.mode \in Mode
      BY <1>11 DEF Publish, Committing, SwitchInv, TypeOK
    <2>2. PICK op \in Opening : ops' = Append(ops, [id |-> prepared.id, mode |-> prepared.mode,
                                                    opening |-> op])
      BY <1>11 DEF Publish, OpeningFor, Opening
    <2>3. ops' \in Seq([id : Op, mode : Mode, opening : Opening]) /\ Len(ops') = Len(ops) + 1
      BY <2>1, <2>2 DEF TypeOK
    <2>4. Len(ops') <= Cardinality(Op)
      BY <1>0, <2>1, <2>3, RoomForOne
    <2>5. prepared' \in [id : Op \cup {None}, mode : Mode, note : BOOLEAN]
      BY <1>11 DEF Publish, Unprepared, Mode
    <2>6. staged' \in [Op -> BOOLEAN] /\ entries' \in 0..MaxEntries
      <3>1. staged \in [Op -> BOOLEAN]
        BY DEF TypeOK
      <3>2. staged' = staged \/ staged' = [staged EXCEPT ![prepared.id] = FALSE]
        BY <1>11 DEF Publish
      <3>3. entries' = 0
        BY <1>11 DEF Publish
      <3>4. [staged EXCEPT ![prepared.id] = FALSE] \in [Op -> BOOLEAN]
        BY <3>1
      <3>5. staged' \in [Op -> BOOLEAN]
        BY <3>1, <3>2, <3>4, Zenon
      <3> QED  BY <1>0, <3>3, <3>5
    <2>7. UNCHANGED <<legacy, archived, fence, first, draft, captured, serving, up, told, left, crashes>>
      BY <1>11 DEF Publish
    <2> QED  BY <2>3, <2>4, <2>5, <2>6, <2>7 DEF TypeOK
  <1>12. ASSUME NEW kept \in BOOLEAN, Crash(kept) PROVE TypeOK'
    <2>1. staged' \in [Op -> BOOLEAN]
      BY <1>12 DEF Crash, TypeOK
    <2>2. crashes' \in 0..MaxCrashes
      BY <1>0, <1>12 DEF Crash, TypeOK
    <2> QED  BY <1>12, <2>1, <2>2 DEF Crash, TypeOK
  <1>13. ASSUME NEW f \in File, OlderProgram(f) PROVE TypeOK'
    BY <1>13 DEF OlderProgram, TypeOK, notes
  <1>14. ASSUME Start PROVE TypeOK'
    BY <1>14 DEF Start, TypeOK, store, notes
  <1>15. ASSUME UNCHANGED vars PROVE TypeOK'
    BY <1>15 DEF vars, TypeOK, store, notes
  <1> QED
    BY <1>1, <1>2, <1>3, <1>5, <1>6, <1>7, <1>8, <1>9, <1>10, <1>11, <1>12, <1>13, <1>14, <1>15
    DEF Next, CommitStep

----------------------------------------------------------------------------
(* The invariant is kept.                                                  *)

LEMMA FilesStep ==
  ASSUME TypeOK, FilesInv, [Next]_vars
  PROVE  FilesInv'
  <1>0. Len(ops) \in Nat /\ (Epoch = 0 <=> ops = <<>>)
    BY OpsAre DEF Epoch
  <1> SUFFICES ASSUME NEW f \in File
               PROVE  /\ legacy'[f] = "old" \/ archived'[f] = "old"
                      /\ ops' # <<>> => archived'[f] = "old"
    BY DEF FilesInv
  <1>f. /\ legacy[f] = "old" \/ archived[f] = "old"
        /\ ops # <<>> => archived[f] = "old"
    BY DEF FilesInv
  <1>1. CASE UNCHANGED <<ops, legacy, archived>>
    BY <1>1, <1>f
  <1>2. ASSUME NEW g \in File, Migrate(g)
        PROVE  /\ legacy'[f] = "old" \/ archived'[f] = "old"
               /\ ops' # <<>> => archived'[f] = "old"
    <2>1. /\ ops' = ops /\ ops = <<>> /\ legacy[g] # "none"
          /\ ~(legacy[g] # "none" /\ archived[g] # "none")
          /\ archived' = [archived EXCEPT ![g] = legacy[g]]
          /\ legacy' = [legacy EXCEPT ![g] = "none"]
      BY <1>0, <1>2 DEF Migrate, MayMove, Collision
    <2>2. legacy \in [File -> {"none", "old", "new"}] /\ archived \in [File -> {"none", "old", "new"}]
      BY DEF TypeOK
    <2> QED  BY <1>f, <2>1, <2>2
  <1>3. ASSUME NEW removed \in BOOLEAN, Publish(removed)
        PROVE  /\ legacy'[f] = "old" \/ archived'[f] = "old"
               /\ ops' # <<>> => archived'[f] = "old"
    <2>1. UNCHANGED <<legacy, archived>> /\ (ops # <<>> \/ legacy[f] = "none")
      BY <1>0, <1>3 DEF Publish, Migrated
    <2> QED  BY <1>f, <2>1
  <1>4. ASSUME NEW g \in File, OlderProgram(g)
        PROVE  /\ legacy'[f] = "old" \/ archived'[f] = "old"
               /\ ops' # <<>> => archived'[f] = "old"
    <2>1. UNCHANGED <<ops, archived>> /\ legacy[g] = "none" /\ legacy' = [legacy EXCEPT ![g] = "new"]
      BY <1>4 DEF OlderProgram
    <2>2. legacy \in [File -> {"none", "old", "new"}]
      BY DEF TypeOK
    <2> QED  BY <1>f, <2>1, <2>2
  <1>5. \/ UNCHANGED <<ops, legacy, archived>>
        \/ \E g \in File : Migrate(g) \/ OlderProgram(g)
        \/ \E removed \in BOOLEAN : Publish(removed)
    BY DEF Next, CommitStep, vars, store, Append1, Capture, WriteDraft, Repeat, Prepare, Fence, Install,
           Reply, Crash, Start
  <1> QED  BY <1>1, <1>2, <1>3, <1>4, <1>5

\* What a published switch adds to the list of them.
LEMMA Published ==
  ASSUME TypeOK, SwitchInv, NEW removed \in BOOLEAN, Publish(removed)
  PROVE  /\ prepared # Unprepared /\ prepared.id \in Op \ Made /\ prepared' = Unprepared
         /\ Len(ops') = Len(ops) + 1 /\ DOMAIN ops' = 1..(Len(ops) + 1)
         /\ \A i \in DOMAIN ops : ops'[i] = ops[i] /\ i # Len(ops) + 1
         /\ ops'[Len(ops) + 1].id = prepared.id
         /\ ops'[Len(ops) + 1].mode = prepared.mode
         /\ ops'[Len(ops) + 1].opening = first[Len(ops) + 1]
         /\ ops'[Len(ops) + 1].opening = "handoff" => prepared.note
         /\ Made' = Made \cup {prepared.id}
  <1>1. prepared # Unprepared /\ prepared.id \in Op \ Made /\ prepared' = Unprepared
    BY DEF Publish, Committing, SwitchInv
  <1>2. PICK op : /\ ops' = Append(ops, [id |-> prepared.id, mode |-> prepared.mode, opening |-> op])
                  /\ first[Epoch + 1] = op /\ (op = "handoff" => prepared.note)
    BY DEF Publish
  <1>3. /\ Len(ops') = Len(ops) + 1 /\ DOMAIN ops' = 1..(Len(ops) + 1)
        /\ \A i \in DOMAIN ops : ops'[i] = ops[i] /\ i # Len(ops) + 1
        /\ ops'[Len(ops) + 1] = [id |-> prepared.id, mode |-> prepared.mode, opening |-> op]
    BY <1>2, OpsAre
  <1>4. DOMAIN ops' = DOMAIN ops \cup {Len(ops) + 1}
    BY <1>3, OpsAre
  <1>5. Made' = Made \cup {prepared.id}
    <2>1. \A i \in DOMAIN ops : ops'[i].id = ops[i].id
      BY <1>3
    <2>2. ops'[Len(ops) + 1].id = prepared.id
      BY <1>3
    <2> QED  BY <1>4, <2>1, <2>2 DEF Made
  <1> QED  BY <1>1, <1>2, <1>3, <1>5 DEF Epoch

LEMMA SwitchStep ==
  ASSUME TypeOK, SwitchInv, [Next]_vars
  PROVE  SwitchInv'
  <1>1. CASE UNCHANGED <<ops, prepared>> /\ (serving' = serving \/ serving' = None)
    BY <1>1 DEF SwitchInv, Made
  <1>2. ASSUME NEW op \in Op, NEW m \in Mode, NEW s \in BOOLEAN, Prepare(op, m, s)
        PROVE  SwitchInv'
    <2>1. ops' = ops /\ op \notin Made /\ prepared'.id = op /\ serving' = op
      BY <1>2 DEF Prepare, Known
    <2>2. prepared' # Unprepared
      BY <2>1, ContextConstants DEF Unprepared, ContextConstants
    <2> QED  BY <2>1, <2>2 DEF SwitchInv, Made
  <1>3. ASSUME NEW removed \in BOOLEAN, Publish(removed) PROVE SwitchInv'
    <2>1. Cardinality(Made') = Len(ops')
      BY <1>3, Published, RoomForOne
    <2>2. \A i, j \in DOMAIN ops' : ops'[i].id = ops'[j].id => i = j
      <3>1. \A i \in DOMAIN ops' : i \in DOMAIN ops \/ i = Len(ops) + 1
        BY <1>3, Published, OpsAre
      <3>2. \A i \in DOMAIN ops : ops'[i].id = ops[i].id /\ ops[i].id # prepared.id
        BY <1>3, Published DEF Made
      <3> QED  BY <1>3, Published, <3>1, <3>2 DEF SwitchInv
    <2>3. serving' = serving
      BY <1>3 DEF Publish
    <2> QED  BY <1>3, Published, <2>1, <2>2, <2>3 DEF SwitchInv
  <1>4. \/ UNCHANGED <<ops, prepared>> /\ (serving' = serving \/ serving' = None)
        \/ \E op \in Op, m \in Mode, s \in BOOLEAN : Prepare(op, m, s)
        \/ \E removed \in BOOLEAN : Publish(removed)
    BY DEF Next, CommitStep, vars, store, Append1, Capture, WriteDraft, Repeat, Fence, Install,
           Reply, Crash, Start, Migrate, OlderProgram
  <1> QED  BY <1>1, <1>2, <1>3, <1>4

\* An opening is installed in the context to come, so those there are stay.
LEMMA Installed ==
  ASSUME TypeOK, Install
  PROVE  ops' = ops /\ \A i \in DOMAIN ops : first'[i] = first[i]
  <1>1. ops' = ops /\ first' = [first EXCEPT ![Epoch + 1] = OpeningFor(Epoch + 1)]
    BY DEF Install
  <1>2. first \in [0..Cardinality(Op) -> Opening] /\ Len(ops) <= Cardinality(Op)
    BY DEF TypeOK
  <1>3. ASSUME NEW i \in DOMAIN ops PROVE i \in DOMAIN first /\ i # Epoch + 1
    BY <1>2, OpsAre DEF Epoch
  <1> QED  BY <1>1, <1>3

LEMMA OpeningStep ==
  ASSUME TypeOK, SwitchInv, OpeningInv, [Next]_vars
  PROVE  OpeningInv'
  <1>1. CASE UNCHANGED <<ops, first>>
    BY <1>1 DEF OpeningInv
  <1>2. CASE Install
    BY <1>2, Installed DEF OpeningInv
  <1>3. ASSUME NEW removed \in BOOLEAN, Publish(removed) PROVE OpeningInv'
    <2>1. first' = first
      BY <1>3 DEF Publish
    <2>2. \A i \in DOMAIN ops' : i \in DOMAIN ops \/ i = Len(ops) + 1
      BY <1>3, Published, OpsAre
    <2> QED  BY <1>3, Published, <2>1, <2>2 DEF OpeningInv
  <1>4. UNCHANGED <<ops, first>> \/ Install \/ \E removed \in BOOLEAN : Publish(removed)
    BY DEF Next, CommitStep, vars, store, Append1, Capture, WriteDraft, Repeat, Prepare, Fence,
           Reply, Crash, Start, Migrate, OlderProgram
  <1> QED  BY <1>1, <1>2, <1>3, <1>4

LEMMA NoteStep ==
  ASSUME TypeOK, SwitchInv, NoteInv, OpeningIsCurrent, [Next]_vars
  PROVE  NoteInv' /\ OpeningIsCurrent'
  <1>0. Epoch \in 0..Cardinality(Op)
    BY OpsAre DEF TypeOK, Epoch
  <1>1. CASE UNCHANGED <<ops, prepared, draft, left>>
    BY <1>1 DEF NoteInv, OpeningIsCurrent
  <1>2. CASE WriteDraft
    <2>1. UNCHANGED <<ops, prepared, left>>
      BY <1>2 DEF WriteDraft, store
    <2>2. \/ draft' = draft
          \/ draft' = [draft EXCEPT ![Epoch] = [snapshot |-> captured.entries,
                                                about |-> captured.entries]]
      BY <1>2 DEF WriteDraft, Described
    <2>3. \A e \in 0..Cardinality(Op) : draft'[e] # NoDraft => draft'[e].snapshot = draft'[e].about
      <3>1. draft \in [0..Cardinality(Op) -> [snapshot : 0..MaxEntries \cup {None},
                                              about : 0..MaxEntries]]
        BY DEF TypeOK
      <3>2. \A e \in 0..Cardinality(Op) : draft[e] # NoDraft => draft[e].snapshot = draft[e].about
        BY DEF NoteInv
      <3>3. ASSUME NEW e \in 0..Cardinality(Op)
            PROVE  draft'[e] = draft[e] \/ draft'[e].snapshot = draft'[e].about
        <4> DEFINE written == [snapshot |-> captured.entries, about |-> captured.entries]
        <4>1. written.snapshot = written.about
          OBVIOUS
        <4>2. draft' = draft \/ draft' = [draft EXCEPT ![Epoch] = written]
          BY <2>2
        <4> HIDE DEF written
        <4> QED  BY <3>1, <4>1, <4>2
      <3> QED  BY <3>2, <3>3
    <2> QED  BY <2>1, <2>3 DEF NoteInv, OpeningIsCurrent
  <1>3. ASSUME NEW op \in Op, NEW m \in Mode, NEW s \in BOOLEAN, Prepare(op, m, s)
        PROVE  NoteInv' /\ OpeningIsCurrent'
    <2>1. /\ UNCHANGED <<ops, draft>> /\ op \notin Made /\ prepared'.id = op
          /\ prepared'.note => DraftIsValid
          /\ \/ left' = left /\ ~prepared'.note
             \/ left' = [left EXCEPT ![op] = [entries |-> entries, noted |-> draft[Epoch].about]]
      BY <1>3 DEF Prepare, Known, notes
    <2>2. DraftIsValid => draft[Epoch].about = entries
      <3>1. entries # None
        BY ContextConstants DEF TypeOK, ContextConstants
      <3> QED  BY <1>0, <3>1 DEF DraftIsValid, NoteInv, NoDraft
    <2>3. left \in [Op -> [entries : 0..MaxEntries, noted : 0..MaxEntries]]
      BY DEF TypeOK
    <2>4. \A i \in DOMAIN ops : ops[i].id \in Op /\ ops[i].id # op
      BY <2>1, OpsAre DEF Made
    <2>5. OpeningIsCurrent'
      BY <2>1, <2>3, <2>4 DEF OpeningIsCurrent
    <2>6. prepared'.note => left'[op].entries = left'[op].noted
      BY <2>1, <2>2, <2>3
    <2> QED  BY <2>1, <2>5, <2>6 DEF NoteInv
  <1>4. ASSUME NEW removed \in BOOLEAN, Publish(removed)
        PROVE  NoteInv' /\ OpeningIsCurrent'
    <2>1. UNCHANGED <<draft, left>> /\ prepared' = Unprepared
      BY <1>4 DEF Publish
    <2>2. \A i \in DOMAIN ops' : i \in DOMAIN ops \/ i = Len(ops) + 1
      BY <1>4, Published, OpsAre
    <2>3. \A i \in DOMAIN ops : ops'[i] = ops[i]
      BY <1>4, Published
    <2>4. ops'[Len(ops) + 1].opening = "handoff" =>
            left[ops'[Len(ops) + 1].id].entries = left[ops'[Len(ops) + 1].id].noted
      BY <1>4, Published DEF NoteInv
    <2> QED  BY <2>1, <2>2, <2>3, <2>4 DEF NoteInv, OpeningIsCurrent
  <1>5. \/ UNCHANGED <<ops, prepared, draft, left>> \/ WriteDraft
        \/ \E op \in Op, m \in Mode, s \in BOOLEAN : Prepare(op, m, s)
        \/ \E removed \in BOOLEAN : Publish(removed)
    BY DEF Next, CommitStep, vars, store, notes, Append1, Capture, Repeat, Fence, Install,
           Reply, Crash, Start, Migrate, OlderProgram
  <1> QED  BY <1>1, <1>2, <1>3, <1>4, <1>5

LEMMA AnswerStep ==
  ASSUME TypeOK, SwitchInv, OpeningInv, AnswerIsTrue, [Next]_vars
  PROVE  AnswerIsTrue'
  <1> SUFFICES ASSUME NEW op \in Op, told'[op] # Untold
               PROVE  /\ told'[op].epoch \in DOMAIN ops' /\ ops'[told'[op].epoch].id = op
                      /\ told'[op].opening = first'[told'[op].epoch]
    BY DEF AnswerIsTrue
  <1>t. told \in [Op -> [epoch : 0..Cardinality(Op), opening : Opening]]
    BY DEF TypeOK
  <1>1. CASE UNCHANGED told
    <2>1. /\ told[op].epoch \in DOMAIN ops /\ ops[told[op].epoch].id = op
          /\ told[op].opening = first[told[op].epoch]
      BY <1>1 DEF AnswerIsTrue
    <2>2. \A i \in DOMAIN ops : i \in DOMAIN ops' /\ ops'[i].id = ops[i].id /\ first'[i] = first[i]
      <3>1. CASE UNCHANGED <<ops, first>>
        BY <3>1
      <3>2. CASE Install
        BY <3>2, Installed
      <3>3. ASSUME NEW removed \in BOOLEAN, Publish(removed)
            PROVE  \A i \in DOMAIN ops :
                     i \in DOMAIN ops' /\ ops'[i].id = ops[i].id /\ first'[i] = first[i]
        BY <3>3, Published, OpsAre DEF Publish
      <3>4. UNCHANGED <<ops, first>> \/ Install \/ \E removed \in BOOLEAN : Publish(removed)
        BY DEF Next, CommitStep, vars, store, Append1, Capture, WriteDraft, Repeat, Prepare, Fence,
               Reply, Crash, Start, Migrate, OlderProgram
      <3> QED  BY <3>1, <3>2, <3>3, <3>4
    <2> QED  BY <1>1, <2>1, <2>2
  <1>2. ASSUME NEW o \in Op, o \in Made, UNCHANGED store, told' = [told EXCEPT ![o] = Answered(o)]
        PROVE  /\ told'[op].epoch \in DOMAIN ops' /\ ops'[told'[op].epoch].id = op
               /\ told'[op].opening = first'[told'[op].epoch]
    <2>1. EpochOf(o) \in DOMAIN ops /\ ops[EpochOf(o)].id = o
      BY <1>2 DEF Made, EpochOf
    <2>2. ops[EpochOf(o)].opening = first[EpochOf(o)]
      BY <2>1 DEF OpeningInv
    <2>3. ops' = ops /\ first' = first
      BY <1>2 DEF store
    <2>4. CASE op = o
      BY <1>2, <1>t, <2>1, <2>2, <2>3, <2>4 DEF Answered
    <2>5. CASE op # o
      BY <1>2, <1>t, <2>3, <2>5 DEF AnswerIsTrue
    <2> QED  BY <2>4, <2>5
  <1>3. \/ UNCHANGED told
        \/ \E o \in Op : /\ o \in Made /\ UNCHANGED store
                         /\ told' = [told EXCEPT ![o] = Answered(o)]
    <2>1. ASSUME Reply
          PROVE  /\ serving \in Op /\ serving \in Made /\ UNCHANGED store
                 /\ told' = [told EXCEPT ![serving] = Answered(serving)]
      BY <2>1 DEF Reply, Readable, SwitchInv, TypeOK
    <2>2. ASSUME NEW o \in Op, Repeat(o)
          PROVE  o \in Made /\ UNCHANGED store /\ told' = [told EXCEPT ![o] = Answered(o)]
      BY <2>2 DEF Repeat
    <2>3. UNCHANGED told \/ Reply \/ \E o \in Op : Repeat(o)
      BY DEF Next, CommitStep, vars, Append1, Capture, WriteDraft, Prepare, Fence, Install, Publish,
             Crash, Start, Migrate, OlderProgram
    <2> QED  BY <2>1, <2>2, <2>3
  <1> QED  BY <1>1, <1>2, <1>3

LEMMA ContextInit == Init => ContextInv
  <1> SUFFICES ASSUME Init PROVE ContextInv
    OBVIOUS
  <1>1. TypeOK
    BY TypeInit
  <1>2. ops = <<>> /\ DOMAIN ops = {} /\ Made = {} /\ Len(ops) = 0 /\ prepared = Unprepared /\ serving = None
    BY DEF Init, Made
  <1>3. Cardinality(Made) = Len(ops)
    BY <1>2, FS_EmptySet
  <1>4. FilesInv
    BY <1>2 DEF Init, FilesInv
  <1>5. NoteInv
    BY <1>2 DEF Init, NoteInv
  <1>6. AnswerIsTrue
    BY DEF Init, AnswerIsTrue
  <1> QED  BY <1>1, <1>2, <1>3, <1>4, <1>5, <1>6 DEF ContextInv, SwitchInv, OpeningInv, OpeningIsCurrent

LEMMA ContextStep ==
  ASSUME ContextInv, [Next]_vars
  PROVE  ContextInv'
  BY TypeStep, FilesStep, SwitchStep, OpeningStep, NoteStep, AnswerStep DEF ContextInv

----------------------------------------------------------------------------
(* What follows from it.                                                   *)

\* The invariant holds for every set of commands and of files, and any number
\* of crashes.
THEOREM ContextInvariant == Spec => []ContextInv
  <1>1. Init => ContextInv
    BY ContextInit
  <1>2. ContextInv /\ [Next]_vars => ContextInv'
    BY ContextStep
  <1> QED  BY <1>1, <1>2, PTL DEF Spec

\* The state file, the files and the memory of the host keep their shapes: a
\* conversation has at most one context per command.
THEOREM ContextTypeCorrect == Spec => []TypeOK
  <1>1. ContextInv => TypeOK
    BY DEF ContextInv
  <1> QED  BY <1>1, ContextInvariant, PTL

\* No file of the old conversation is lost or overwritten, and it is in the
\* archive as soon as a context after it can be read.  (commit(), its migration
\* and fence.)
THEOREM HistoryIsKept == Spec => []HistoryKept
  <1>1. ContextInv => HistoryKept
    <2> SUFFICES ASSUME ContextInv, NEW f \in File
                 PROVE  /\ legacy[f] = "old" \/ archived[f] = "old"
                        /\ Readable /\ Epoch > 0 => archived[f] = "old"
      BY DEF HistoryKept
    <2>1. Epoch > 0 => ops # <<>>
      BY DEF Epoch
    <2> QED  BY <2>1 DEF ContextInv, FilesInv
  <1> QED  BY <1>1, ContextInvariant, PTL

\* A note that opens a context describes exactly the context that was left.
\* (snapshotOf, writeHandoffDraft, readHandoffDraft.)
THEOREM NotesAreCurrent == Spec => []OpeningIsCurrent
  <1>1. ContextInv => OpeningIsCurrent
    BY DEF ContextInv
  <1> QED  BY <1>1, ContextInvariant, PTL

\* The answer to a command, and to each repeat of it, names the context it made
\* and the opening that is in it.  (previousOperation, openingLine.)
THEOREM AnswersAreTrue == Spec => []AnswerIsTrue
  <1>1. ContextInv => AnswerIsTrue
    BY DEF ContextInv
  <1> QED  BY <1>1, ContextInvariant, PTL

\* A note that opens a context is never replaced, whatever is left of staging.
\* (installOpening().)
THEOREM OpeningsStay == Spec => OpeningStays
  <1>1. ASSUME TypeOK, [Next]_vars
        PROVE  \A e \in DOMAIN first : first[e] = "handoff" => first'[e] = "handoff"
    <2>1. CASE Install
      <3>1. /\ first' = [first EXCEPT ![Epoch + 1] = OpeningFor(Epoch + 1)]
            /\ first[Epoch + 1] = "handoff" => OpeningFor(Epoch + 1) = "handoff"
        BY <2>1 DEF Install, OpeningFor
      <3> QED  BY <3>1 DEF TypeOK
    <2>2. first' = first \/ Install
      BY <1>1 DEF Next, CommitStep, vars, store, Append1, Capture, WriteDraft, Repeat, Prepare, Fence,
             Publish, Reply, Crash, Start, Migrate, OlderProgram
    <2> QED  BY <2>1, <2>2
  <1>2. [Next]_vars /\ TypeOK =>
          [\A e \in DOMAIN first : first[e] = "handoff" => first'[e] = "handoff"]_vars
    BY <1>1
  <1> QED  BY <1>2, ContextTypeCorrect, PTL DEF Spec, OpeningStays

----------------------------------------------------------------------------
(* The store implements SwitchLog.                                         *)

\* A switch as SwitchLog lists it, and the published ones so listed.
Entry(id, mode) == [id |-> id, mode |-> mode]
Listed == [i \in DOMAIN ops |-> Entry(ops[i].id, ops[i].mode)]

LEMMA PublishedIs ==
  ASSUME TypeOK
  PROVE  /\ Listed \in Seq([id : Op, mode : Mode]) /\ Len(Listed) = Len(ops)
         /\ made = Listed \o (IF prepared = Unprepared THEN <<>>
                                  ELSE <<Entry(prepared.id, prepared.mode)>>)
  <1>1. \A i \in 1..Len(ops) : Entry(ops[i].id, ops[i].mode) \in [id : Op, mode : Mode]
    <2> SUFFICES ASSUME NEW i \in 1..Len(ops)
                 PROVE  Entry(ops[i].id, ops[i].mode) \in [id : Op, mode : Mode]
      OBVIOUS
    <2>1. ops[i] \in Switched
      BY OpsAre
    <2> QED  BY <2>1 DEF Switched, Entry
  <1>2. Listed = [i \in 1..Len(ops) |-> Entry(ops[i].id, ops[i].mode)]
    BY OpsAre DEF Listed
  <1>3. Listed \in Seq([id : Op, mode : Mode]) /\ Len(Listed) = Len(ops)
    <2> DEFINE entry(i) == Entry(ops[i].id, ops[i].mode)
    <2>1. \A i \in 1..Len(ops) : entry(i) \in [id : Op, mode : Mode]
      BY <1>1
    <2>2. Listed = [i \in 1..Len(ops) |-> entry(i)]
      BY <1>2
    <2> HIDE DEF entry
    <2> QED  BY <2>1, <2>2, OpsAre
  <1> QED  BY <1>3 DEF made, Listed, Entry

\* Every step adds one switch to the list, or none.
LEMMA SwitchedOnce ==
  ASSUME TypeOK, SwitchInv, TypeOK', [Next]_vars
  PROVE  [Log!LNext]_made
  <1>1. CASE UNCHANGED <<ops, prepared>>
    BY <1>1 DEF made
  <1>2. ASSUME NEW op \in Op, NEW m \in Mode, NEW s \in BOOLEAN, Prepare(op, m, s)
        PROVE  Log!LNext
    <2>1. /\ ops' = ops /\ op \notin Made /\ prepared = Unprepared
          /\ prepared'.id = op /\ prepared'.mode = m
      BY <1>2 DEF Prepare, Known, Readable
    <2>2. prepared' # Unprepared
      BY <2>1, ContextConstants DEF Unprepared, ContextConstants
    <2>3. made = Listed
      BY <2>1, PublishedIs
    <2>4. made' = Append(made, [id |-> op, mode |-> m])
      <3>1. Listed' = Listed
        BY <2>1 DEF Listed
      <3>2. made' = Listed' \o <<Entry(op, m)>>
        BY <2>1, <2>2 DEF made, Listed, Entry
      <3> QED  BY <2>3, <3>1, <3>2, PublishedIs DEF Entry
    <2>5. op \notin Log!Made
      <3> SUFFICES ASSUME NEW i \in DOMAIN made PROVE made[i].id # op
        BY DEF Log!Made
      <3>1. i \in DOMAIN ops /\ made[i].id = ops[i].id
        BY <2>3 DEF Listed, Entry
      <3> QED  BY <2>1, <3>1 DEF Made
    <2> QED  BY <2>4, <2>5 DEF Log!LNext, Log!Switch
  <1>3. ASSUME NEW removed \in BOOLEAN, Publish(removed) PROVE made' = made
    <2>1. made = Listed \o <<Entry(prepared.id, prepared.mode)>>
      BY <1>3, Published, PublishedIs
    <2>2. made' = Listed' \o <<>>
      BY <1>3, Published DEF made, Listed, Entry
    <2>3. Listed' = [i \in 1..(Len(ops) + 1) |-> Entry(ops'[i].id, ops'[i].mode)]
      BY <1>3, Published DEF Listed
    <2>4. ASSUME NEW i \in DOMAIN ops PROVE ops'[i] = ops[i] /\ Listed[i] = Entry(ops[i].id, ops[i].mode)
      BY <1>3, <2>4, Published DEF Listed
    <2>5. ops'[Len(ops) + 1].id = prepared.id /\ ops'[Len(ops) + 1].mode = prepared.mode
      BY <1>3, Published
    <2>6. Listed' \in Seq([id : Op, mode : Mode])
      <3>1. \A i \in 1..(Len(ops) + 1) : Entry(ops'[i].id, ops'[i].mode) \in [id : Op, mode : Mode]
        <4>1. ASSUME NEW i \in DOMAIN ops PROVE Entry(ops'[i].id, ops'[i].mode) \in [id : Op, mode : Mode]
          <5>1. ops[i] \in Switched
            BY OpsAre
          <5> QED  BY <2>4, <5>1 DEF Switched, Entry
        <4>2. Entry(prepared.id, prepared.mode) \in [id : Op, mode : Mode]
          BY <1>3, Published DEF TypeOK, Entry
        <4>3. \A i \in 1..(Len(ops) + 1) : i \in DOMAIN ops \/ i = Len(ops) + 1
          BY OpsAre
        <4> QED  BY <2>5, <4>1, <4>2, <4>3
      <3> DEFINE entry(i) == Entry(ops'[i].id, ops'[i].mode)
      <3>2. \A i \in 1..(Len(ops) + 1) : entry(i) \in [id : Op, mode : Mode]
        BY <3>1
      <3>3. Listed' = [i \in 1..(Len(ops) + 1) |-> entry(i)]
        BY <2>3
      <3> HIDE DEF entry
      <3> QED  BY <3>2, <3>3, OpsAre
    <2>7. Listed' = Append(Listed, Entry(prepared.id, prepared.mode))
      <3> DEFINE last == Entry(prepared.id, prepared.mode)
      <3>1. \A i \in 1..Len(ops) : Listed'[i] = Listed[i]
        BY <2>3, <2>4, OpsAre
      <3>2. Listed'[Len(ops) + 1] = last
        BY <2>3, <2>5, OpsAre
      <3>3. Len(Listed') = Len(ops) + 1 /\ Len(Listed) = Len(ops)
        BY <2>3, <2>6, OpsAre, PublishedIs
      <3>4. last \in [id : Op, mode : Mode]
        BY <1>3, Published DEF TypeOK, Entry
      <3> HIDE DEF last
      <3>5. Listed' = Append(Listed, last)
        <4>1. Len(Append(Listed, last)) = Len(ops) + 1
          BY <3>3, PublishedIs, OpsAre
        <4>2. \A i \in 1..Len(ops) : Append(Listed, last)[i] = Listed[i]
          BY <3>3, PublishedIs, OpsAre
        <4>3. Append(Listed, last)[Len(ops) + 1] = last
          BY <3>3, PublishedIs, OpsAre
        <4>4. ASSUME NEW i \in 1..(Len(ops) + 1)
              PROVE  Listed'[i] = Append(Listed, last)[i]
          <5>1. i \in 1..Len(ops) \/ i = Len(ops) + 1
            BY OpsAre
          <5> QED  BY <3>1, <3>2, <4>2, <4>3, <5>1
        <4>5. Append(Listed, last) \in Seq([id : Op, mode : Mode])
          BY <3>4, PublishedIs
        <4> QED  BY <2>6, <3>3, <4>1, <4>4, <4>5, SeqEqual
      <3> QED  BY <3>5 DEF last
    <2> QED  BY <2>1, <2>2, <2>6, <2>7, PublishedIs
  <1>4. \/ UNCHANGED <<ops, prepared>>
        \/ \E op \in Op, m \in Mode, s \in BOOLEAN : Prepare(op, m, s)
        \/ \E removed \in BOOLEAN : Publish(removed)
    BY DEF Next, CommitStep, vars, store, Append1, Capture, WriteDraft, Repeat, Fence, Install,
           Reply, Crash, Start, Migrate, OlderProgram
  <1> QED  BY <1>1, <1>2, <1>3, <1>4

\* The state file with its prepared switch implements the list of switches that
\* SwitchLog describes: from its durable prepare on a switch is there, once, and
\* publishing it changes nothing.  (newContext, advance, commit, readState.)
THEOREM SwitchesAreOnce == Spec => SwitchesOnce
  <1>1. Init => Log!LInit
    BY DEF Init, Log!LInit, made
  <1>2. ContextInv /\ ContextInv' /\ [Next]_vars => [Log!LNext]_made
    BY SwitchedOnce DEF ContextInv
  <1> QED  BY <1>1, <1>2, ContextInvariant, PTL DEF Spec, SwitchesOnce, Log!LSpec

=============================================================================
