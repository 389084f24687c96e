-------------------------- MODULE TurnCustody_proofs --------------------------
(***************************************************************************)
(* Proofs about TurnCustody, for every set of workers, messages and turns  *)
(* and every MaxResumes, with and without startup notes.                   *)
(***************************************************************************)
EXTENDS TurnCustody, TLAPS

----------------------------------------------------------------------------
(* The records.                                                            *)

\* The activity of a worker, and its fields.
LEMMA DoingType ==
  ASSUME NEW stage \in {"idle", "setup", "recorded", "acking", "running",
                        "steering"},
         NEW t \in Turn \cup {None}, NEW batch \in SUBSET Message,
         NEW todo \in SUBSET Message
  PROVE  /\ Doing(stage, t, batch, todo) \in Activity
         /\ Doing(stage, t, batch, todo).stage = stage
         /\ Doing(stage, t, batch, todo).turn = t
         /\ Doing(stage, t, batch, todo).batch = batch
         /\ Doing(stage, t, batch, todo).todo = todo
  BY DEF Doing, Activity

\* An idle worker holds nothing.
LEMMA IdleType ==
  /\ Idle \in Activity
  /\ Idle.stage = "idle" /\ Idle.batch = {} /\ Idle.todo = {}
  BY DoingType DEF Idle

\* The fields of any activity are of their types.
LEMMA ActivityFields ==
  ASSUME NEW a \in Activity
  PROVE  /\ a.stage \in {"idle", "setup", "recorded", "acking", "running",
                         "steering"}
         /\ a.turn \in Turn \cup {None}
         /\ a.batch \in SUBSET Message /\ a.todo \in SUBSET Message
  BY DEF Activity

\* What an admission writes, and its fields.
LEMMA AdmittedType ==
  ASSUME NEW w \in Worker \cup {None}, NEW kind \in Kind, NEW k \in Marker
  PROVE  /\ Admitted(w, kind, k) \in MessageRecord
         /\ Admitted(w, kind, k).to = w
         /\ Admitted(w, kind, k).kind = kind
         /\ Admitted(w, kind, k).marker = k
  BY DEF Admitted, MessageRecord

\* The absent marker is a marker.
LEMMA NoMarkerType == NoMarker \in Marker
  BY ConstantsAssumption DEF NoMarker, Marker, ConstantsAssumption

\* An end record changes how a turn ended and nothing else of any turn.
LEMMA EndRecordType ==
  ASSUME TypeOK, NEW t, NEW how \in How
  PROVE  /\ EndRecord(t, how) \in [Turn -> TurnRecord]
         /\ \A u \in Turn :
              /\ EndRecord(t, how)[u].how = IF u = t THEN how ELSE turn[u].how
              /\ EndRecord(t, how)[u].worker = turn[u].worker
              /\ EndRecord(t, how)[u].causedBy = turn[u].causedBy
              /\ EndRecord(t, how)[u].resumeOf = turn[u].resumeOf
              /\ EndRecord(t, how)[u].work = turn[u].work
              /\ EndRecord(t, how)[u].epoch = turn[u].epoch
  <1>1. ASSUME NEW u \in Turn
        PROVE  LET r == [turn[u] EXCEPT !.how = how]
               IN  /\ r \in TurnRecord
                   /\ r.how = how
                   /\ r.worker = turn[u].worker
                   /\ r.causedBy = turn[u].causedBy
                   /\ r.resumeOf = turn[u].resumeOf
                   /\ r.work = turn[u].work
                   /\ r.epoch = turn[u].epoch
    <2>1. turn[u] \in TurnRecord
      BY DEF TypeOK
    <2> QED  BY <2>1 DEF TurnRecord
  <1>2. \A u \in Turn : turn[u] \in TurnRecord
    BY DEF TypeOK
  <1> QED  BY <1>1, <1>2 DEF EndRecord

----------------------------------------------------------------------------
(* Type correctness.                                                       *)

\* The initial ledgers are well-typed.
LEMMA TypeInit == Init => TypeOK
  <1>1. [t \in Turn |-> NoTurn] \in [Turn -> TurnRecord]
    BY ConstantsAssumption DEF NoTurn, TurnRecord, How, ConstantsAssumption
  <1>2. [m \in Message |-> Admitted(None, "chat", NoMarker)]
          \in [Message -> MessageRecord]
    BY AdmittedType, NoMarkerType DEF Kind
  <1> QED  BY <1>1, <1>2, IdleType, ConstantsAssumption
           DEF Init, TypeOK, Handing, ConstantsAssumption

\* Admitting a message keeps the inbox and the queue well-typed.
LEMMA EnqueueType ==
  ASSUME TypeOK, NEW m \in Message, NEW w \in Worker \cup {None},
         NEW kind \in Kind, NEW k \in Marker, Enqueue(m, w, kind, k)
  PROVE  /\ inbox' \in [Message -> {"absent", "pending", "started"}]
         /\ msg' \in [Message -> MessageRecord]
         /\ queue' \subseteq Message \X {"live", "replay"}
  <1>1. Admitted(w, kind, k) \in MessageRecord
    BY AdmittedType
  <1>2. <<m, "live">> \in Message \X {"live", "replay"}
    OBVIOUS
  <1> QED  BY <1>1, <1>2 DEF TypeOK, Enqueue

\* A message from a sender or a startup sweep keeps every type.
LEMMA AdmitType ==
  ASSUME TypeOK, NEW m \in Message, NEW w \in Worker, NEW kind \in Kind,
         Admit(m, w, kind) \/ StartupNote(m, w, kind)
  PROVE  TypeOK'
  <1>1. Enqueue(m, w, kind, NoMarker)
    BY DEF Admit, StartupNote
  <1>2. UNCHANGED <<turn, opening, steered, stepped, asking, noted, alive,
                    epoch, phase, act, parked, sweep, handing, declined>>
    BY DEF Admit, StartupNote
  <1> QED  BY <1>1, <1>2, EnqueueType, NoMarkerType DEF TypeOK

\* What a begin leaves in the turn ledger is well-typed.
LEMMA BeginRecordType ==
  ASSUME TypeOK, NEW w \in Worker, NEW t, MarkerOf(act[w].batch) \in Marker
  PROVE  BeginRecord(w, t) \in [Turn -> TurnRecord]
  <1> DEFINE k == MarkerOf(act[w].batch)
             begun == [how |-> "open", worker |-> w, causedBy |-> act[w].batch,
                       attempt |-> IF k.turn # None THEN k.attempt ELSE 1,
                       clean |-> FALSE,
                       work |-> IF k.turn # None THEN k.work ELSE t,
                       epoch |-> epoch[w],
                       resumeOf |-> turn[t].resumeOf \cup ({k.turn} \ {None})]
  <1>1. /\ k.turn \in Turn \cup {None} /\ k.work \in Turn \cup {None}
        /\ k.attempt \in 0..MaxResumes
    BY DEF Marker
  <1>2. act[w].batch \in SUBSET Message /\ epoch[w] \in 0..MaxEpoch
    BY ActivityFields DEF TypeOK
  <1>3. 1 \in 0..MaxResumes
    BY ConstantsAssumption DEF ConstantsAssumption
  <1>4. ASSUME t \in Turn PROVE begun \in TurnRecord
    <2>1. turn[t].resumeOf \in SUBSET Turn
      BY <1>4 DEF TypeOK, TurnRecord
    <2>2. turn[t].resumeOf \cup ({k.turn} \ {None}) \in SUBSET Turn
      BY <1>1, <2>1
    <2>3. /\ (IF k.turn # None THEN k.attempt ELSE 1) \in 0..MaxResumes
          /\ (IF k.turn # None THEN k.work ELSE t) \in Turn \cup {None}
      BY <1>1, <1>3, <1>4
    <2> HIDE DEF k
    <2> QED  BY <1>2, <2>2, <2>3 DEF TurnRecord, How
  <1>5. ASSUME NEW u \in Turn
        PROVE  turn[u] \in TurnRecord
               /\ [turn[u] EXCEPT !.how = "resumed"] \in TurnRecord
    <2>1. turn[u] \in TurnRecord
      BY DEF TypeOK
    <2> QED  BY <2>1 DEF TurnRecord, How
  <1>6. \A u \in Turn :
          BeginRecord(w, t)[u] \in
            {begun, turn[u], [turn[u] EXCEPT !.how = "resumed"]}
          /\ (BeginRecord(w, t)[u] = begun => u = t \/ begun \in TurnRecord)
    <2> HIDE DEF k
    <2> QED  BY <1>5 DEF BeginRecord, k
  <1>7. BeginRecord(w, t) = [u \in Turn |-> BeginRecord(w, t)[u]]
    BY DEF BeginRecord
  <1> HIDE DEF begun
  <1> QED  BY <1>4, <1>5, <1>6, <1>7

\* Every step of a turn keeps every type.
LEMMA TurnType ==
  ASSUME TypeOK, StageIsOnDisk, NEW w \in Worker, TurnStep(w)
  PROVE  TypeOK'
  <1>1. act[w] \in Activity
    BY DEF TypeOK
  <1>2. ASSUME NEW S \in SUBSET queue, Drain(w, S) PROVE TypeOK'
    <2>1. {c[1] : c \in S} \in SUBSET Message
      BY <1>2 DEF TypeOK
    <2>2. Doing("setup", None, {c[1] : c \in S}, {}) \in Activity
      BY <2>1, DoingType
    <2> QED  BY <1>2, <2>2 DEF TypeOK, Drain, durable
  <1>3. ASSUME NEW S \in SUBSET queue, Steer(w, S) PROVE TypeOK'
    <2>1. {c[1] : c \in S} \in SUBSET Message
      BY <1>3 DEF TypeOK
    <2>2. Doing("steering", act[w].turn, act[w].batch, {c[1] : c \in S})
            \in Activity
      BY <1>1, <2>1, DoingType, ActivityFields
    <2>3. steered' \in [Turn -> SUBSET Message]
      BY <1>3, <2>1 DEF TypeOK, Steer
    <2> QED  BY <1>3, <2>2, <2>3 DEF TypeOK, Steer
  <1>4. CASE Decline(w)
    BY <1>1, <1>4, IdleType, ActivityFields DEF TypeOK, Decline
  <1>5. ASSUME NEW t \in Turn, RecordOpening(w, t) PROVE TypeOK'
    <2>1. Doing("recorded", t, act[w].batch, {}) \in Activity
      BY <1>1, DoingType, ActivityFields
    <2> QED  BY <1>1, <1>5, <2>1, ActivityFields DEF TypeOK, RecordOpening
  <1>6. CASE SetupFails(w)
    BY <1>6, IdleType DEF TypeOK, SetupFails, durable
  <1>7. CASE Begin(w)
    <2>1. MarkerOf(act[w].batch) \in Marker
      <3>1. \A m \in Message : msg[m].marker \in Marker
        BY DEF TypeOK, MessageRecord
      <3> QED  BY <1>1, <3>1, NoMarkerType, ActivityFields DEF MarkerOf
    <2> DEFINE k == MarkerOf(act[w].batch)
               t == IF k.continues THEN k.turn ELSE act[w].turn
    <2>2. BeginRecord(w, t) \in [Turn -> TurnRecord]
      BY <2>1, BeginRecordType
    <2>3. t \in Turn \cup {None}
      BY <1>1, <2>1, ActivityFields DEF Marker
    <2>4. Doing("acking", t, act[w].batch, act[w].batch) \in Activity
      BY <1>1, <2>3, DoingType, ActivityFields
    <2> QED  BY <1>7, <2>2, <2>4 DEF TypeOK, Begin
  <1>8. ASSUME NEW m \in Message, Acknowledge(w, m) PROVE TypeOK'
    <2> DEFINE left == act[w].todo \ {m}
    <2>1. Doing(IF left = {} THEN "running" ELSE act[w].stage,
                act[w].turn, act[w].batch, left) \in Activity
      BY <1>1, DoingType, ActivityFields
    <2> QED  BY <1>8, <2>1 DEF TypeOK, Acknowledge
  <1>9. CASE OnReadyFails(w)
    BY <1>9, IdleType DEF TypeOK, OnReadyFails, durable
  <1>10. CASE SteeringFails(w)
    BY <1>10, IdleType, EndRecordType
    DEF TypeOK, SteeringFails, EndTurn, How, TurnEnd
  <1>11. ASSUME NEW asks \in BOOLEAN, ToolCall(w, asks) PROVE TypeOK'
    <2>1. act[w].turn \in Turn
      BY <1>11 DEF StageIsOnDisk, StageOf, ToolCall
    <2> QED  BY <1>1, <1>11, <2>1 DEF TypeOK, ToolCall
  <1>12. ASSUME NEW how \in TurnEnd, Finish(w, how) PROVE TypeOK'
    BY <1>12, IdleType, EndRecordType DEF TypeOK, Finish, EndTurn, How
  <1> QED  BY <1>2, <1>3, <1>4, <1>5, <1>6, <1>7, <1>8, <1>9, <1>10, <1>11,
              <1>12 DEF TurnStep

\* A continuation is well-typed when its attempt is within the limit.
LEMMA PickUpType ==
  ASSUME TypeOK, NEW t \in Turn, NEW m \in Message, NEW a \in 0..MaxResumes,
         PickUp(t, m, a)
  PROVE  /\ inbox' \in [Message -> {"absent", "pending", "started"}]
         /\ msg' \in [Message -> MessageRecord]
         /\ queue' \subseteq Message \X {"live", "replay"}
         /\ handing' \in Handing
  <1> DEFINE k == [turn |-> t, attempt |-> a, work |-> turn[t].work,
                   continues |-> t \in stepped]
  <1>1. turn[t] \in TurnRecord
    BY DEF TypeOK
  <1>2. k \in Marker
    BY <1>1 DEF Marker, TurnRecord
  <1>3. turn[t].worker \in Worker \cup {None}
    BY <1>1 DEF TurnRecord
  <1> QED  BY <1>2, <1>3, EnqueueType DEF PickUp, Handing, Kind

\* A turn that is not given up has an attempt left, or does not spend one.
LEMMA NextAttemptType ==
  ASSUME TypeOK, NEW t \in Turn,
         turn[t].clean \/ turn[t].attempt < MaxResumes
  PROVE  NextAttempt(t) \in 0..MaxResumes
  <1>1. turn[t] \in TurnRecord
    BY DEF TypeOK
  <1> QED  BY <1>1, ConstantsAssumption
           DEF TurnRecord, NextAttempt, ConstantsAssumption

\* What the branches of resumeInterrupted() say of the turn they take.
LEMMA DispositionMeans ==
  ASSUME TypeOK, NEW t \in Turn
  PROVE  /\ Disposition(t) \in {"pick-up", "park"} =>
              turn[t].clean \/ turn[t].attempt < MaxResumes
         /\ Disposition(t) \in {"skip", "park", "pick-up"} \cup HostEnd
  <1>1. turn[t] \in TurnRecord
    BY DEF TypeOK
  <1>2. turn[t].attempt \in Nat /\ turn[t].clean \in BOOLEAN
    BY <1>1 DEF TurnRecord
  <1>3. HasPendingResume(t) \in BOOLEAN
    BY DEF HasPendingResume
  <1> QED  BY <1>2, <1>3, ConstantsAssumption
           DEF Disposition, HostEnd, ConstantsAssumption

\* Every step of resumeInterrupted() and of an approval keeps every type.
LEMMA ResumeType ==
  ASSUME TypeOK, NEW t \in Turn, ResumeStep(t)
  PROVE  TypeOK'
  <1>1. CASE SkipTurn(t)
    BY <1>1 DEF TypeOK, SkipTurn, durable
  <1>2. CASE Abandon(t)
    <2>1. handing' \in Handing
      BY <1>2 DEF TypeOK, Abandon, Handing
    <2>2. Disposition(t) \in How
      BY <1>2 DEF Abandon, How
    <2> QED  BY <1>2, <2>1, <2>2, EndRecordType DEF TypeOK, Abandon
  <1>3. CASE Park(t)
    <2>1. NextAttempt(t) \in 0..MaxResumes
      BY <1>3, NextAttemptType, DispositionMeans DEF Park
    <2>2. <<t, NextAttempt(t)>> \in Turn \X (0..MaxResumes)
      BY <2>1
    <2> QED  BY <1>3, <2>2 DEF TypeOK, Park, durable
  <1>4. ASSUME NEW m \in Message, ResumeTurn(t, m) PROVE TypeOK'
    <2>1. NextAttempt(t) \in 0..MaxResumes
      BY <1>4, NextAttemptType, DispositionMeans DEF ResumeTurn
    <2> QED  BY <1>4, <2>1, PickUpType DEF TypeOK, ResumeTurn
  <1>5. ASSUME NEW m \in Message, AnswerApproval(t, m) PROVE TypeOK'
    <2>1. CASE \A p \in parked : p[1] # t
      BY <1>5, <2>1 DEF TypeOK, AnswerApproval
    <2>2. ASSUME NEW p \in parked, p[1] = t, PickUp(t, m, p[2]),
                 parked' = parked \ {p}
          PROVE TypeOK'
      <3>1. p[2] \in 0..MaxResumes
        BY DEF TypeOK
      <3> QED  BY <1>5, <2>2, <3>1, PickUpType DEF TypeOK, AnswerApproval
    <2> QED  BY <1>5, <2>1, <2>2 DEF AnswerApproval
  <1> QED  BY <1>1, <1>2, <1>3, <1>4, <1>5 DEF ResumeStep

\* The marks of a clean shutdown keep the turn ledger well-typed.
LEMMA CleanType ==
  ASSUME TypeOK, NEW S \in SUBSET Turn, NoteCleanShutdown(S)
  PROVE  /\ turn' \in [Turn -> TurnRecord]
         /\ \A t \in Turn : /\ turn'[t].how = turn[t].how
                            /\ turn'[t].worker = turn[t].worker
                            /\ turn'[t].causedBy = turn[t].causedBy
                            /\ turn'[t].resumeOf = turn[t].resumeOf
  <1>1. ASSUME NEW t \in Turn
        PROVE  LET r == [turn[t] EXCEPT !.clean = TRUE]
               IN  /\ r \in TurnRecord /\ r.how = turn[t].how
                   /\ r.worker = turn[t].worker
                   /\ r.causedBy = turn[t].causedBy
                   /\ r.resumeOf = turn[t].resumeOf
    <2>1. turn[t] \in TurnRecord
      BY DEF TypeOK
    <2> QED  BY <2>1 DEF TurnRecord
  <1>2. \A t \in Turn : turn[t] \in TurnRecord
    BY DEF TypeOK
  <1> QED  BY <1>1, <1>2 DEF NoteCleanShutdown

\* Every step keeps every type.
LEMMA TypeStep ==
  ASSUME TypeOK, StageIsOnDisk, PointersAreBegun, [Next]_vars
  PROVE  TypeOK'
  <1>1. ASSUME NEW m \in Message, NEW w \in Worker, NEW kind \in Kind,
               Admit(m, w, kind) \/ StartupNote(m, w, kind)
        PROVE TypeOK'
    BY <1>1, AdmitType
  <1>2. ASSUME NEW w \in Worker, TurnStep(w) PROVE TypeOK'
    BY <1>2, TurnType
  <1>3. ASSUME NEW w \in Worker, SwitchContext(w) PROVE TypeOK'
    BY <1>3, ConstantsAssumption
    DEF TypeOK, SwitchContext, volatile, ConstantsAssumption
  <1>4. ASSUME NEW t \in Turn, ResumeStep(t) PROVE TypeOK'
    BY <1>4, ResumeType
  <1>5. ASSUME NEW S \in SUBSET Turn, NoteCleanShutdown(S) PROVE TypeOK'
    <2>1. turn' \in [Turn -> TurnRecord]
      BY <1>5, CleanType
    <2>2. UNCHANGED <<inbox, msg, opening, steered, stepped, asking, noted,
                      alive, epoch, volatile, declined>>
      BY <1>5 DEF NoteCleanShutdown
    <2> QED  BY <2>1, <2>2 DEF TypeOK, volatile
  <1>6. ASSUME NEW m \in Message, Reconcile(m) PROVE TypeOK'
    BY <1>6 DEF TypeOK, Reconcile, volatile
  <1>7. ASSUME NEW a \in Agent, RemoveAgent(a) PROVE TypeOK'
    BY <1>7 DEF TypeOK, RemoveAgent, volatile
  <1>8. CASE GiveUpNote
    <2>1. Main[turn[handing.turn].worker] \in Worker /\ handing.turn \in Turn
      BY <1>8, ConstantsAssumption
      DEF PointersAreBegun, GiveUpNote, ConstantsAssumption
    <2>2. [kind |-> "none", turn |-> None] \in Handing
      BY DEF Handing
    <2> QED  BY <1>8, <2>1, <2>2 DEF TypeOK, GiveUpNote
  <1>9. CASE Relinquish
    <2>1. [kind |-> "none", turn |-> None] \in Handing
      BY DEF Handing
    <2> QED  BY <1>9, <2>1, EndRecordType DEF TypeOK, Relinquish, How
  <1>10. CASE Crash
    BY <1>10, IdleType DEF TypeOK, Crash, durable, Handing
  <1>11. CASE Boot \/ Reconciled \/ Started
    BY <1>11 DEF TypeOK, Boot, Reconciled, Started, durable
  <1>12. CASE Recover
    BY <1>12 DEF TypeOK, Recover, Open, durable
  <1>13. CASE UNCHANGED vars
    BY <1>13 DEF TypeOK, vars, durable, volatile
  <1> QED  BY <1>1, <1>2, <1>3, <1>4, <1>5, <1>6, <1>7, <1>8, <1>9, <1>10,
              <1>11, <1>12, <1>13 DEF Next

----------------------------------------------------------------------------
(* Accounted.                                                              *)

\* The invariant holds of empty ledgers.
LEMMA AccountedInit == Init => AccountedInv
  <1> SUFFICES ASSUME Init PROVE AccountedInv
    OBVIOUS
  <1>1. TypeOK
    BY TypeInit
  <1>2. \A w \in Worker : /\ act[w].batch = {} /\ act[w].todo = {}
                         /\ act[w].stage = "idle"
    BY IdleType DEF Init
  <1>3. \A m \in Message : msg[m].kind = "chat"
    BY DEF Init, Admitted
  <1>4. \A t \in Turn : ~Begun(t) /\ (Held(t) = {}) /\ turn[t].causedBy = {}
    <2>1. NoTurn.how = "none" /\ NoTurn.causedBy = {}
      BY DEF NoTurn
    <2> QED  BY <2>1 DEF Init, Begun, Held
  <1> QED  BY <1>1, <1>2, <1>3, <1>4
           DEF Init, AccountedInv, QueuedIsAdmitted, BatchIsAdmitted,
               BatchIsUniform, StageIsOnDisk, StageOf, OpeningOutlivesBegin,
               PointersAreBegun, Accounted

\* A step that admits and acknowledges nothing, and only forgets what the
\* process was doing or adds to what a turn's record says besides its causes.
LEMMA QuietStep ==
  ASSUME AccountedInv, TypeOK',
         UNCHANGED <<inbox, msg, opening, steered, declined>>,
         \A t \in Turn : /\ turn'[t].causedBy = turn[t].causedBy
                        /\ turn'[t].worker = turn[t].worker
                        /\ (turn'[t].how = "none" <=> turn[t].how = "none"),
         queue' \subseteq queue,
         sweep' \subseteq sweep \cup Open,
         \A p \in parked' : p \in parked \/ Begun(p[1]),
         handing'.kind # "none" =>
            handing'.turn \in Turn /\ Begun(handing'.turn),
         \A w \in Worker : act'[w] = act[w] \/ act'[w] = Idle
  PROVE  AccountedInv'
  <1> USE DEF AccountedInv
  <1>1. \A t \in Turn : (Begun(t)' <=> Begun(t)) /\ (Held(t)' = Held(t))
    BY DEF Begun, Held
  <1>2. QueuedIsAdmitted'
    BY DEF QueuedIsAdmitted
  <1>3. BatchIsAdmitted' /\ BatchIsUniform'
    BY IdleType DEF BatchIsAdmitted, BatchIsUniform
  <1>4. StageIsOnDisk'
    <2> SUFFICES ASSUME NEW w \in Worker
                 PROVE  StageOf(w)'
      BY DEF StageIsOnDisk, StageOf
    <2>1. CASE act'[w] = Idle
      BY <2>1, IdleType DEF StageOf
    <2>2. CASE act'[w] = act[w]
      BY <1>1, <2>2 DEF StageIsOnDisk, StageOf
    <2> QED  BY <2>1, <2>2
  <1>5. OpeningOutlivesBegin'
    BY <1>1 DEF OpeningOutlivesBegin
  <1>6. PointersAreBegun'
    <2>1. \A p \in parked' : p[1] \in Turn
      BY DEF TypeOK
    <2>2. \A t \in sweep' : t \in Turn /\ Begun(t)
      BY DEF PointersAreBegun, Open, Begun, TypeOK
    <2>3. \A p \in parked : p[1] \in Turn /\ Begun(p[1])
      BY DEF PointersAreBegun, TypeOK
    <2> QED  BY <1>1, <2>1, <2>2, <2>3 DEF PointersAreBegun, Begun
  <1>7. Accounted'
    BY <1>1 DEF Accounted
  <1> QED  BY <1>2, <1>3, <1>4, <1>5, <1>6, <1>7

\* Admitting a message that points at a turn that began keeps the invariant.
LEMMA EnqueueStep ==
  ASSUME AccountedInv, TypeOK',
         NEW m \in Message, NEW w \in Worker \cup {None}, NEW kind \in Kind,
         NEW k \in Marker, Enqueue(m, w, kind, k),
         kind = "resume" => k.turn \in Turn /\ Begun(k.turn),
         UNCHANGED <<turn, opening, steered, act, declined>>,
         sweep' \subseteq sweep, parked' \subseteq parked,
         handing'.kind # "none" =>
            handing'.turn \in Turn /\ Begun(handing'.turn)
  PROVE  AccountedInv'
  <1> USE DEF AccountedInv
  <1>1. \A n \in Message : n # m => inbox'[n] = inbox[n] /\ msg'[n] = msg[n]
    BY DEF Enqueue, TypeOK
  <1>2. /\ inbox[m] = "absent" /\ inbox'[m] = "pending"
        /\ msg'[m].kind = kind /\ msg'[m].marker = k
    <2>1. msg'[m] = Admitted(w, kind, k)
      BY DEF Enqueue, TypeOK
    <2>2. inbox[m] = "absent" /\ inbox'[m] = "pending"
      BY DEF Enqueue, TypeOK
    <2>3. Admitted(w, kind, k).kind = kind /\ Admitted(w, kind, k).marker = k
      BY AdmittedType
    <2> QED  BY <2>1, <2>2, <2>3
  <1>3. queue' = queue \cup {<<m, "live">>}
    BY DEF Enqueue
  <1>4. \A t \in Turn : Begun(t)' = Begun(t) /\ Held(t)' = Held(t)
    BY DEF Begun, Held
  <1>5. QueuedIsAdmitted'
    <2>1. \A c \in queue' : c \in Message \X {"live", "replay"}
      BY DEF TypeOK
    <2>2. \A c \in queue' : c \in queue \/ c[1] = m
      BY <1>3
    <2> QED  BY <1>1, <1>2, <2>1, <2>2 DEF QueuedIsAdmitted
  <1>6. \A v \in Worker : \A n \in act[v].batch \cup act[v].todo :
           n \in Message /\ n # m
    BY <1>2, ActivityFields DEF BatchIsAdmitted, TypeOK
  <1>7. BatchIsAdmitted' /\ BatchIsUniform'
    BY <1>1, <1>6 DEF BatchIsAdmitted, BatchIsUniform
  <1>8. StageIsOnDisk'
    BY DEF StageIsOnDisk, StageOf, Begun, Held
  <1>9. \A t \in Turn : turn[t].causedBy \subseteq Held(t) /\ Held(t) \subseteq Message
    BY DEF Held, TypeOK, TurnRecord
  <1>10. OpeningOutlivesBegin'
    BY <1>1, <1>2, <1>4, <1>9 DEF OpeningOutlivesBegin
  <1>11. PointersAreBegun'
    <2>1. \A n \in Message : msg'[n].kind = "resume" =>
             msg'[n].marker.turn \in Turn /\ Begun(msg'[n].marker.turn)
      BY <1>1, <1>2 DEF PointersAreBegun
    <2>2. \A t : Begun(t)' = Begun(t)
      BY DEF Begun
    <2> QED  BY <2>1, <2>2 DEF PointersAreBegun, Begun
  <1>12. Accounted'
    BY <1>1, <1>2, <1>4 DEF Accounted
  <1> QED  BY <1>5, <1>7, <1>8, <1>10, <1>11, <1>12

\* Acknowledging a message something answers for.
LEMMA StartedStep ==
  ASSUME AccountedInv, TypeOK', NEW M \in SUBSET Message,
         \A m \in M : inbox[m] # "absent",
         inbox' = [m \in Message |-> IF m \in M THEN "started" ELSE inbox[m]],
         \A m \in M : m \in declined' \/ \E t \in Turn : Begun(t) /\ m \in Held(t),
         declined \subseteq declined',
         UNCHANGED <<msg, turn, opening, steered, queue, parked, sweep, handing>>,
         \A w \in Worker :
            /\ act'[w].batch \in {act[w].batch, {}}
            /\ act'[w].todo \subseteq act[w].todo
            /\ act'[w].turn = act[w].turn \/ act'[w].stage = "idle"
            /\ act'[w].stage = act[w].stage \/ act'[w].stage = "idle" \/
                 (act[w].stage \in {"acking", "steering"} /\ act'[w].stage = "running")
            /\ act'[w].batch = act[w].batch \/ act'[w].stage = "idle"
  PROVE  AccountedInv'
  <1> USE DEF AccountedInv
  <1>1. \A m \in Message : /\ inbox[m] # "absent" => inbox'[m] # "absent"
                          /\ inbox'[m] = "started" => m \in M \/ inbox[m] = "started"
    OBVIOUS
  <1>2. \A t \in Turn : Begun(t)' = Begun(t) /\ Held(t)' = Held(t) /\ Held(t) \subseteq Message
    BY DEF Begun, Held, TypeOK, TurnRecord
  <1>3. \A w \in Worker : act[w].batch \cup act[w].todo \subseteq Message
    BY ActivityFields DEF TypeOK
  <1>4. QueuedIsAdmitted'
    BY <1>1 DEF QueuedIsAdmitted, TypeOK
  <1>5. BatchIsAdmitted'
    BY <1>1, <1>3 DEF BatchIsAdmitted
  <1>6. BatchIsUniform'
    BY DEF BatchIsUniform
  <1>7. StageIsOnDisk'
    <2> SUFFICES ASSUME NEW w \in Worker PROVE StageOf(w)'
      BY DEF StageIsOnDisk
    <2>1. StageOf(w)
      BY DEF StageIsOnDisk
    <2> QED  BY <2>1 DEF StageOf, Begun, Held
  <1>8. OpeningOutlivesBegin'
    BY <1>1, <1>2 DEF OpeningOutlivesBegin
  <1>9. PointersAreBegun'
    BY DEF PointersAreBegun, Begun
  <1>10. Accounted'
    BY <1>1, <1>2 DEF Accounted
  <1> QED  BY <1>4, <1>5, <1>6, <1>7, <1>8, <1>9, <1>10

\* A step of worker w in the middle of a turn, while nobody acknowledges:
\* what the ledgers attribute to a turn only grows, but for continuations.
LEMMA LedgerStep ==
  ASSUME AccountedInv, TypeOK', NEW w \in Worker, Serving,
         UNCHANGED <<inbox, msg, declined, parked, sweep, handing>>,
         queue' \subseteq queue,
         \A v \in Worker \ {w} : act'[v] = act[v],
         act'[w].batch \cup act'[w].todo \subseteq
            {m \in Message : inbox[m] # "absent"},
         \A m, n \in act'[w].batch : msg[m].kind = msg[n].kind,
         StageOf(w)',
         \A t \in Turn : (Begun(t) => Begun(t)'),
         \A t \in Turn : (Begun(t)' => turn'[t].worker \in Worker),
         \A t \in Turn : \A m \in Held(t) :
            m \in Held(t)' \/ msg[m].kind = "resume",
         \A t \in Turn : opening[t] # {} => opening'[t] = opening[t],
         OpeningOutlivesBegin'
  PROVE  AccountedInv'
  <1> USE DEF AccountedInv
  <1>1. QueuedIsAdmitted'
    BY DEF QueuedIsAdmitted
  <1>2. BatchIsAdmitted'
    BY DEF BatchIsAdmitted
  <1>3. BatchIsUniform'
    BY DEF BatchIsUniform
  <1>4. ASSUME NEW v \in Worker, v # w PROVE StageOf(v)'
    <2>1. StageOf(v) /\ act'[v] = act[v] /\ act[v].stage \notin {"acking", "steering"}
      BY <1>4 DEF StageIsOnDisk, Serving, Synchronous
    <2>2. act[v].stage = "recorded" =>
            opening'[act[v].turn] = opening[act[v].turn]
      BY <2>1 DEF StageOf
    <2>3. act[v].stage = "running" => Begun(act[v].turn)'
      BY <2>1 DEF StageOf
    <2> QED  BY <2>1, <2>2, <2>3 DEF StageOf
  <1>5. StageIsOnDisk'
    BY <1>4 DEF StageIsOnDisk
  <1>6. PointersAreBegun'
    <2>1. \A t \in sweep : t \in Turn /\ Begun(t)'
      BY DEF PointersAreBegun, TypeOK
    <2>2. \A p \in parked : p[1] \in Turn /\ Begun(p[1])'
      BY DEF PointersAreBegun, TypeOK
    <2>3. \A m \in Message : msg[m].kind = "resume" =>
             msg[m].marker.turn \in Turn /\ Begun(msg[m].marker.turn)'
      BY DEF PointersAreBegun
    <2>4. handing.kind # "none" => handing.turn \in Turn /\ Begun(handing.turn)'
      BY DEF PointersAreBegun
    <2> QED  BY <2>1, <2>2, <2>3, <2>4 DEF PointersAreBegun, Begun
  <1>7. Accounted'
    BY DEF Accounted
  <1> QED  BY <1>1, <1>2, <1>3, <1>5, <1>6, <1>7

\* A drained batch was admitted, is of one kind and is not empty.
LEMMA DrainStep ==
  ASSUME AccountedInv, TypeOK', NEW w \in Worker, NEW S \in SUBSET queue,
         Drain(w, S)
  PROVE  AccountedInv'
  <1> DEFINE M == {c[1] : c \in S}
  <1>1. M \in SUBSET Message /\ M # {}
    BY DEF AccountedInv, TypeOK, Drain
  <1>2. act' = [act EXCEPT ![w] = Doing("setup", None, M, {})]
    BY DEF Drain
  <1>3. /\ act'[w].stage = "setup" /\ act'[w].batch = M /\ act'[w].todo = {}
        /\ \A v \in Worker \ {w} : act'[v] = act[v]
    <2>1. act'[w] = Doing("setup", None, M, {})
      BY <1>2 DEF AccountedInv, TypeOK
    <2>2. \A v \in Worker \ {w} : act'[v] = act[v]
      BY <1>2 DEF AccountedInv, TypeOK
    <2> QED  BY <1>1, <2>1, <2>2, DoingType
  <1>4. \A m \in M : inbox[m] # "absent"
    BY DEF AccountedInv, QueuedIsAdmitted
  <1>5. \A m, n \in M : msg[m].kind = msg[n].kind
    <2>1. MayBatch(S)
      BY DEF Drain
    <2> QED  BY <2>1 DEF MayBatch
  <1>6. StageOf(w)'
    BY <1>1, <1>3 DEF StageOf
  <1>7. UNCHANGED <<inbox, msg, turn, opening, steered, declined, parked,
                    sweep, handing>> /\ queue' = queue \ S /\ Serving
    BY DEF Drain, durable
  <1>8. \A t \in Turn : Begun(t)' = Begun(t) /\ Held(t)' = Held(t)
    BY <1>7 DEF Begun, Held
  <1>9. OpeningOutlivesBegin'
    BY <1>7, <1>8 DEF AccountedInv, OpeningOutlivesBegin
  <1>10. \A t \in Turn : Begun(t)' => turn'[t].worker \in Worker
    BY <1>7, <1>8 DEF AccountedInv, PointersAreBegun
  <1> QED  BY <1>1, <1>3, <1>4, <1>5, <1>6, <1>7, <1>8, <1>9, <1>10, LedgerStep

\* The opening entry names exactly the batch.
LEMMA RecordOpeningStep ==
  ASSUME AccountedInv, TypeOK', NEW w \in Worker, NEW t \in Turn,
         RecordOpening(w, t)
  PROVE  AccountedInv'
  <1> DEFINE M == act[w].batch
  <1>1. act[w] \in Activity /\ M \in SUBSET Message
    BY ActivityFields DEF AccountedInv, TypeOK
  <1>2. act' = [act EXCEPT ![w] = Doing("recorded", t, M, {})]
    BY DEF RecordOpening
  <1>3. /\ act'[w].stage = "recorded" /\ act'[w].batch = M /\ act'[w].todo = {}
        /\ act'[w].turn = t
        /\ \A v \in Worker \ {w} : act'[v] = act[v]
    <2>1. act'[w] = Doing("recorded", t, M, {})
      BY <1>2 DEF AccountedInv, TypeOK
    <2>2. \A v \in Worker \ {w} : act'[v] = act[v]
      BY <1>2 DEF AccountedInv, TypeOK
    <2> QED  BY <1>1, <2>1, <2>2, DoingType
  <1>4. /\ M # {} /\ \A m \in M : inbox[m] # "absent"
        /\ \A m, n \in M : msg[m].kind = msg[n].kind
    BY DEF AccountedInv, BatchIsAdmitted, BatchIsUniform, StageIsOnDisk,
           StageOf, RecordOpening
  <1>5. /\ UNCHANGED <<inbox, msg, turn, steered, declined, parked, sweep,
                       handing, queue>>
        /\ Serving /\ opening[t] = {}
    BY DEF RecordOpening, Fresh
  <1>6. \A u \in Turn : opening'[u] = IF u = t THEN M ELSE opening[u]
    BY DEF RecordOpening, AccountedInv, TypeOK
  <1>7. StageOf(w)'
    BY <1>3, <1>4, <1>6 DEF StageOf
  <1>8. \A u \in Turn : /\ Begun(u)' = Begun(u)
                        /\ \A m \in Held(u) : m \in Held(u)'
                        /\ \A m \in Held(u)' : m \in Held(u) \/ m \in M
    BY <1>5, <1>6 DEF Begun, Held
  <1>9. OpeningOutlivesBegin'
    <2>1. \A u \in Turn : \A m \in Held(u)' : inbox'[m] # "absent"
      BY <1>4, <1>5, <1>8 DEF AccountedInv, OpeningOutlivesBegin
    <2>2. \A u \in Turn : \A m \in turn'[u].causedBy :
            m \in opening'[u] \/ msg'[m].kind = "resume"
      BY <1>5, <1>6 DEF AccountedInv, OpeningOutlivesBegin
    <2> QED  BY <2>1, <2>2 DEF OpeningOutlivesBegin
  <1>10. \A u \in Turn : Begun(u)' => turn'[u].worker \in Worker
    BY <1>5, <1>8 DEF AccountedInv, PointersAreBegun
  <1> QED  BY <1>1, <1>3, <1>4, <1>5, <1>6, <1>7, <1>8, <1>9, <1>10, LedgerStep

\* The transcript names what the inbox is about to close.
LEMMA SteerStep ==
  ASSUME AccountedInv, TypeOK', NEW w \in Worker, NEW S \in SUBSET queue,
         Steer(w, S)
  PROVE  AccountedInv'
  <1> DEFINE M == {c[1] : c \in S}
             t == act[w].turn
  <1>1. /\ act[w] \in Activity /\ act[w].batch \in SUBSET Message
        /\ M \in SUBSET Message
    BY ActivityFields DEF AccountedInv, TypeOK
  <1>2. t \in Turn /\ Begun(t)
    BY DEF Steer, AccountedInv, StageIsOnDisk, StageOf
  <1>3. act' = [act EXCEPT ![w] = Doing("steering", t, act[w].batch, M)]
    BY DEF Steer
  <1>4. /\ act'[w].stage = "steering" /\ act'[w].batch = act[w].batch
        /\ act'[w].todo = M /\ act'[w].turn = t
        /\ \A v \in Worker \ {w} : act'[v] = act[v]
    <2>1. act'[w] = Doing("steering", t, act[w].batch, M)
      BY <1>3 DEF AccountedInv, TypeOK
    <2>2. \A v \in Worker \ {w} : act'[v] = act[v]
      BY <1>3 DEF AccountedInv, TypeOK
    <2> QED  BY <1>1, <1>2, <2>1, <2>2, DoingType
  <1>5. /\ \A m \in M \cup act[w].batch : inbox[m] # "absent"
        /\ \A m, n \in act[w].batch : msg[m].kind = msg[n].kind
    BY DEF AccountedInv, BatchIsAdmitted, BatchIsUniform, QueuedIsAdmitted
  <1>6. /\ UNCHANGED <<inbox, msg, turn, opening, declined, parked, sweep,
                       handing>>
        /\ queue' = queue \ S /\ Serving
    BY DEF Steer
  <1>7. \A u \in Turn : steered'[u] = IF u = t THEN steered[u] \cup M
                                               ELSE steered[u]
    BY DEF Steer, AccountedInv, TypeOK
  <1>8. \A u \in Turn : /\ Begun(u)' = Begun(u)
                        /\ \A m \in Held(u) : m \in Held(u)'
                        /\ \A m \in Held(u)' : m \in Held(u) \/ m \in M
    BY <1>6, <1>7 DEF Begun, Held
  <1>9. StageOf(w)'
    <2>1. turn[t].how # "none" /\ turn' = turn
      BY <1>2, <1>6 DEF Begun
    <2>2. M \subseteq steered'[t]
      BY <1>2, <1>7
    <2> QED  BY <1>2, <1>4, <2>1, <2>2 DEF StageOf, Begun, Held
  <1>10. OpeningOutlivesBegin'
    <2>1. \A u \in Turn : \A m \in Held(u)' : inbox'[m] # "absent"
      BY <1>5, <1>6, <1>8 DEF AccountedInv, OpeningOutlivesBegin
    <2> QED  BY <1>6, <2>1 DEF AccountedInv, OpeningOutlivesBegin
  <1>11. \A u \in Turn : Begun(u)' => turn'[u].worker \in Worker
    BY <1>6, <1>8 DEF AccountedInv, PointersAreBegun
  <1> QED  BY <1>1, <1>4, <1>5, <1>6, <1>8, <1>9, <1>10, <1>11, LedgerStep

\* What begin makes of the ledger: only t is given a new cause, and the turn
\* it resumes is closed.
LEMMA BeginRecordMeans ==
  ASSUME TypeOK, NEW w \in Worker, NEW t \in Turn
  PROVE  \A u \in Turn :
           /\ u = t => (/\ BeginRecord(w, t)[u].how = "open"
                       /\ BeginRecord(w, t)[u].worker = w
                       /\ BeginRecord(w, t)[u].causedBy = act[w].batch)
           /\ u # t => (/\ BeginRecord(w, t)[u].worker = turn[u].worker
                       /\ BeginRecord(w, t)[u].causedBy = turn[u].causedBy
                       /\ (BeginRecord(w, t)[u].how # "none"
                             <=> turn[u].how # "none"))
  <1>1. ASSUME NEW u \in Turn
        PROVE  LET r == [turn[u] EXCEPT !.how = "resumed"]
               IN  /\ r.how = "resumed"
                   /\ r.worker = turn[u].worker
                   /\ r.causedBy = turn[u].causedBy
    <2>1. turn[u] \in TurnRecord
      BY DEF TypeOK
    <2> QED  BY <2>1 DEF TurnRecord
  <1> QED  BY <1>1 DEF BeginRecord

\* Begin takes custody of the batch before the first of it is acknowledged.
LEMMA BeginStep ==
  ASSUME AccountedInv, TypeOK', NEW w \in Worker, Begin(w)
  PROVE  AccountedInv'
  <1> DEFINE M == act[w].batch
             k == MarkerOf(M)
  <1>1. act[w] \in Activity /\ M \in SUBSET Message
    BY ActivityFields DEF AccountedInv, TypeOK
  <1>2. PICK t : t = IF k.continues THEN k.turn ELSE act[w].turn
    OBVIOUS
  <1>3. /\ turn' = BeginRecord(w, t)
        /\ act' = [act EXCEPT ![w] = Doing("acking", t, M, M)]
        /\ act[w].stage = IF k.continues THEN "setup" ELSE "recorded"
        /\ UNCHANGED <<inbox, msg, opening, steered, queue, parked, sweep,
                       handing, declined>>
        /\ Serving
    BY <1>2 DEF Begin
  <1>4. /\ M # {} /\ \A m \in M : inbox[m] # "absent"
        /\ \A m, n \in M : msg[m].kind = msg[n].kind
    BY <1>3 DEF AccountedInv, BatchIsAdmitted, BatchIsUniform, StageIsOnDisk,
           StageOf
  <1>5. ASSUME k.continues
        PROVE  t \in Turn /\ \A m \in M : msg[m].kind = "resume"
    <2>1. \E m \in M : msg[m].kind = "resume"
      BY <1>5 DEF MarkerOf, NoMarker
    <2>2. PICK n \in M : msg[n].kind = "resume" /\ k = msg[n].marker
      BY <2>1 DEF MarkerOf
    <2> QED  BY <1>1, <1>2, <1>4, <1>5, <2>2 DEF AccountedInv, PointersAreBegun
  <1>6. ASSUME ~k.continues
        PROVE  t \in Turn /\ opening[t] = M
    BY <1>2, <1>3, <1>6 DEF AccountedInv, StageIsOnDisk, StageOf
  <1>7. t \in Turn /\ \A m \in M : m \in opening[t] \/ msg[m].kind = "resume"
    BY <1>5, <1>6
  <1>8. /\ act'[w].stage = "acking" /\ act'[w].batch = M /\ act'[w].todo = M
        /\ act'[w].turn = t
        /\ \A v \in Worker \ {w} : act'[v] = act[v]
    <2>1. act'[w] = Doing("acking", t, M, M)
      BY <1>3 DEF AccountedInv, TypeOK
    <2>2. \A v \in Worker \ {w} : act'[v] = act[v]
      BY <1>3 DEF AccountedInv, TypeOK
    <2> QED  BY <1>1, <1>7, <2>1, <2>2, DoingType
  <1>9. \A u \in Turn :
           /\ u = t => (/\ turn'[u].how = "open" /\ turn'[u].worker = w
                       /\ turn'[u].causedBy = M)
           /\ u # t => (/\ turn'[u].worker = turn[u].worker
                       /\ turn'[u].causedBy = turn[u].causedBy
                       /\ (turn[u].how # "none" <=> turn'[u].how # "none"))
    BY <1>3, <1>7, BeginRecordMeans DEF AccountedInv
  <1>10. \A u \in Turn : Begun(u) => Begun(u)'
    BY <1>9 DEF Begun
  <1>11. \A u \in Turn : Begun(u)' => turn'[u].worker \in Worker
    BY <1>9 DEF Begun, AccountedInv, PointersAreBegun
  <1>12. \A u \in Turn : \A m \in Held(u) :
           m \in Held(u)' \/ msg[m].kind = "resume"
    BY <1>3, <1>9 DEF Held, AccountedInv, OpeningOutlivesBegin
  <1>13. OpeningOutlivesBegin'
    <2>1. \A u \in Turn : \A m \in Held(u)' : m \in Held(u) \/ m \in M
      BY <1>3, <1>9 DEF Held
    <2>2. \A u \in Turn : \A m \in Held(u)' : inbox'[m] # "absent"
      BY <1>3, <1>4, <2>1 DEF AccountedInv, OpeningOutlivesBegin
    <2>3. \A u \in Turn : \A m \in turn'[u].causedBy :
            m \in opening'[u] \/ msg'[m].kind = "resume"
      BY <1>3, <1>7, <1>9 DEF AccountedInv, OpeningOutlivesBegin
    <2> QED  BY <2>2, <2>3 DEF OpeningOutlivesBegin
  <1>14. StageOf(w)'
    BY <1>7, <1>8, <1>9 DEF StageOf, Begun, Held
  <1> QED  BY <1>1, <1>3, <1>4, <1>8, <1>10, <1>11, <1>12, <1>13, <1>14,
              LedgerStep

\* Acknowledging what a turn owes keeps the invariant.
LEMMA AcknowledgeStep ==
  ASSUME AccountedInv, TypeOK', NEW w \in Worker, NEW m \in Message,
         Acknowledge(w, m)
  PROVE  AccountedInv'
  <1> DEFINE left == act[w].todo \ {m}
             stage == IF left = {} THEN "running" ELSE act[w].stage
  <1>1. /\ act[w] \in Activity
        /\ m \in act[w].todo /\ act[w].stage \in {"acking", "steering"}
    BY DEF AccountedInv, TypeOK, Acknowledge
  <1>2. act' = [act EXCEPT ![w] = Doing(stage, act[w].turn, act[w].batch, left)]
    BY DEF Acknowledge
  <1>3. /\ act'[w].stage = stage /\ act'[w].batch = act[w].batch
        /\ act'[w].todo = left /\ act'[w].turn = act[w].turn
        /\ \A v \in Worker \ {w} : act'[v] = act[v]
    <2>1. act'[w] = Doing(stage, act[w].turn, act[w].batch, left)
      BY <1>2 DEF AccountedInv, TypeOK
    <2>2. \A v \in Worker \ {w} : act'[v] = act[v]
      BY <1>2 DEF AccountedInv, TypeOK
    <2> QED  BY <1>1, <2>1, <2>2, DoingType, ActivityFields
  <1>4. inbox[m] # "absent"
    BY <1>1 DEF AccountedInv, BatchIsAdmitted
  <1>5. \E t \in Turn : Begun(t) /\ m \in Held(t)
    BY <1>1 DEF AccountedInv, StageIsOnDisk, StageOf
  <1>6. PICK M \in SUBSET Message : M = {m}
    OBVIOUS
  <1>7. inbox' = [n \in Message |-> IF n \in M THEN "started" ELSE inbox[n]]
    BY <1>6 DEF Acknowledge, AccountedInv, TypeOK
  <1>8. \A n \in M : /\ inbox[n] # "absent"
                    /\ \E t \in Turn : Begun(t) /\ n \in Held(t)
    BY <1>4, <1>5, <1>6
  <1>9. UNCHANGED <<msg, turn, opening, steered, queue, parked, sweep, handing,
                    declined>>
    BY DEF Acknowledge
  <1>10. ASSUME NEW v \in Worker
        PROVE  /\ act'[v].batch = act[v].batch
               /\ act'[v].todo \subseteq act[v].todo
               /\ act'[v].turn = act[v].turn
               /\ (act'[v].stage = act[v].stage
                    \/ (act[v].stage \in {"acking", "steering"}
                        /\ act'[v].stage = "running"))
    BY <1>1, <1>3
  <1> QED  BY <1>9, <1>10, <1>7, <1>8, StartedStep

\* A declined wake is remembered as declined.
LEMMA DeclineStep ==
  ASSUME AccountedInv, TypeOK', NEW w \in Worker, Decline(w)
  PROVE  AccountedInv'
  <1>1. /\ \A v \in Worker : act'[v] = act[v] \/ act'[v] = Idle
        /\ act[w].batch \in SUBSET Message
    BY ActivityFields DEF AccountedInv, TypeOK, Decline
  <1>2. \A v \in Worker :
           /\ act'[v].batch = act[v].batch \/ act'[v].stage = "idle"
           /\ act'[v].batch \in {act[v].batch, {}}
           /\ act'[v].todo \subseteq act[v].todo
           /\ act'[v].turn = act[v].turn \/ act'[v].stage = "idle"
           /\ act'[v].stage = act[v].stage \/ act'[v].stage = "idle"
    BY <1>1, IdleType
  <1>3. \A m \in act[w].batch : inbox[m] # "absent"
    BY DEF AccountedInv, BatchIsAdmitted
  <1>4. /\ declined' = declined \cup act[w].batch
        /\ inbox' = [m \in Message |-> IF m \in act[w].batch THEN "started"
                                                             ELSE inbox[m]]
        /\ UNCHANGED <<msg, turn, opening, steered, queue, parked, sweep,
                       handing>>
    BY DEF Decline
  <1> QED  BY <1>1, <1>2, <1>3, <1>4, StartedStep

\* The reconcile acknowledges only what an open turn owns.
LEMMA ReconcileStep ==
  ASSUME AccountedInv, TypeOK', NEW m \in Message, Reconcile(m)
  PROVE  AccountedInv'
  <1>1. inbox[m] = "pending" /\ \E t \in Open : m \in OwnedBy(t)
    BY DEF Reconcile, Reconcilable
  <1>2. \E t \in Turn : Begun(t) /\ m \in Held(t)
    BY <1>1 DEF OwnedBy, Open, Begun, Held
  <1>3. PICK M \in SUBSET Message : M = {m}
    OBVIOUS
  <1>4. inbox' = [n \in Message |-> IF n \in M THEN "started" ELSE inbox[n]]
    BY <1>3 DEF Reconcile, AccountedInv, TypeOK
  <1>5. \A n \in M : /\ inbox[n] # "absent"
                    /\ \E t \in Turn : Begun(t) /\ n \in Held(t)
    BY <1>1, <1>2, <1>3
  <1>6. UNCHANGED <<msg, turn, opening, steered, queue, parked, sweep, handing,
                    declined, act>>
    BY DEF Reconcile, volatile
  <1> QED  BY <1>6, <1>4, <1>5, StartedStep

\* The replay queues what was admitted.
LEMMA RecoverStep ==
  ASSUME AccountedInv, TypeOK', Recover
  PROVE  AccountedInv'
  <1> USE DEF AccountedInv
  <1>1. UNCHANGED <<inbox, msg, turn, opening, steered, act, parked, handing,
                    declined>>
    BY DEF Recover, durable
  <1>2. QueuedIsAdmitted'
    BY DEF QueuedIsAdmitted, Recover, durable
  <1>3. \A t \in Turn : Begun(t)' = Begun(t) /\ Held(t)' = Held(t)
    BY <1>1 DEF Begun, Held
  <1>4. BatchIsAdmitted' /\ BatchIsUniform'
    BY <1>1 DEF BatchIsAdmitted, BatchIsUniform
  <1>5. StageIsOnDisk'
    BY <1>1 DEF StageIsOnDisk, StageOf, Begun, Held
  <1>6. OpeningOutlivesBegin'
    BY <1>1, <1>3 DEF OpeningOutlivesBegin
  <1>7. PointersAreBegun'
    BY <1>1 DEF PointersAreBegun, Begun, Recover, Open
  <1>8. Accounted'
    BY <1>1, <1>3 DEF Accounted
  <1> QED  BY <1>2, <1>4, <1>5, <1>6, <1>7, <1>8

\* What a turn ends with: its record keeps its causes.
LEMMA EndRecordIsQuiet ==
  ASSUME TypeOK, NEW t \in Turn, Begun(t), NEW how \in How \ {"none"},
         turn' = EndRecord(t, how)
  PROVE  \A u \in Turn : /\ turn'[u].causedBy = turn[u].causedBy
                        /\ turn'[u].worker = turn[u].worker
                        /\ (turn'[u].how = "none" <=> turn[u].how = "none")
  BY EndRecordType DEF Begun

\* Every step of a turn keeps the invariant.
LEMMA AccountedTurn ==
  ASSUME AccountedInv, TypeOK', NEW w \in Worker, TurnStep(w)
  PROVE  AccountedInv'
  <1>1. /\ TypeOK
        /\ handing.kind # "none" => handing.turn \in Turn /\ Begun(handing.turn)
    BY DEF AccountedInv, PointersAreBegun
  <1>2. ASSUME SetupFails(w) \/ OnReadyFails(w) PROVE AccountedInv'
    <2>1. /\ UNCHANGED <<inbox, msg, turn, opening, steered, declined, queue,
                         sweep, parked, handing>>
          /\ \A v \in Worker : act'[v] = act[v] \/ act'[v] = Idle
      BY <1>1, <1>2 DEF SetupFails, OnReadyFails, durable, TypeOK
    <2> QED  BY <1>1, <2>1, QuietStep
  <1>3. ASSUME NEW how \in TurnEnd, SteeringFails(w) \/ Finish(w, how)
        PROVE  AccountedInv'
    <2>1. act[w].turn \in Turn /\ Begun(act[w].turn)
      BY <1>3 DEF SteeringFails, Finish, AccountedInv, StageIsOnDisk, StageOf
    <2>2. PICK h \in TurnEnd : turn' = EndRecord(act[w].turn, h)
      BY <1>3 DEF SteeringFails, Finish, EndTurn, TurnEnd
    <2>3. /\ UNCHANGED <<inbox, msg, opening, steered, declined, queue, sweep,
                         parked, handing>>
          /\ \A v \in Worker : act'[v] = act[v] \/ act'[v] = Idle
      BY <1>1, <1>3 DEF SteeringFails, Finish, EndTurn, TypeOK
    <2>4. h \in How \ {"none"}
      BY DEF How, TurnEnd
    <2> QED  BY <1>1, <2>1, <2>2, <2>3, <2>4, EndRecordIsQuiet, QuietStep
  <1>4. ASSUME NEW asks \in BOOLEAN, ToolCall(w, asks) PROVE AccountedInv'
    <2>1. UNCHANGED <<inbox, msg, turn, opening, steered, declined, queue,
                      sweep, parked, handing, act>>
      BY <1>4 DEF ToolCall
    <2> QED  BY <1>1, <2>1, QuietStep
  <1> QED  BY <1>2, <1>3, <1>4, DrainStep, SteerStep, DeclineStep,
              RecordOpeningStep, BeginStep, AcknowledgeStep
           DEF TurnStep, TurnEnd

\* A pickup admits one continuation, which points at the turn it resumes.
LEMMA PickUpStep ==
  ASSUME AccountedInv, TypeOK', NEW t \in Turn, Begun(t), NEW m \in Message,
         NEW a \in 0..MaxResumes, PickUp(t, m, a),
         UNCHANGED <<turn, opening, steered, act, declined>>,
         sweep' \subseteq sweep, parked' \subseteq parked
  PROVE  AccountedInv'
  <1>1. PICK k : k = [turn |-> t, attempt |-> a, work |-> turn[t].work,
                      continues |-> t \in stepped]
    OBVIOUS
  <1>2. turn[t] \in TurnRecord
    BY DEF AccountedInv, TypeOK
  <1>3. k \in Marker /\ k.turn = t
    BY <1>1, <1>2 DEF Marker, TurnRecord
  <1>4. turn[t].worker \in Worker \cup {None}
    BY <1>2 DEF TurnRecord
  <1>5. /\ Enqueue(m, turn[t].worker, "resume", k)
        /\ handing'.kind # "none" => handing'.turn \in Turn /\ Begun(handing'.turn)
    BY <1>1 DEF PickUp
  <1>6. "resume" \in Kind
    BY DEF Kind
  <1> QED  BY <1>3, <1>4, <1>5, <1>6, EnqueueStep

\* Every step of resumeInterrupted() and of an approval keeps it.
LEMMA AccountedResume ==
  ASSUME AccountedInv, TypeOK', NEW t \in Turn, ResumeStep(t)
  PROVE  AccountedInv'
  <1>1. /\ TypeOK
        /\ handing.kind # "none" => handing.turn \in Turn /\ Begun(handing.turn)
        /\ t \in sweep => Begun(t)
        /\ \A p \in parked : Begun(p[1]) /\ p[2] \in 0..MaxResumes
    BY DEF AccountedInv, PointersAreBegun, TypeOK
  <1>2. CASE SkipTurn(t)
    BY <1>1, <1>2, QuietStep DEF SkipTurn, durable
  <1>3. CASE Abandon(t)
    <2>1. Begun(t) /\ Disposition(t) \in How \ {"none"}
      BY <1>1, <1>3 DEF Abandon, ResumeNext, HostEnd, How
    <2>2. /\ turn' = EndRecord(t, Disposition(t)) /\ sweep' \subseteq sweep
          /\ UNCHANGED <<inbox, msg, opening, steered, declined, queue, act,
                         parked>>
      BY <1>3 DEF Abandon
    <2>3. handing'.kind # "none" => handing'.turn \in Turn /\ Begun(handing'.turn)
      BY <1>1, <1>3, <2>1 DEF Abandon
    <2> QED  BY <1>1, <2>1, <2>2, <2>3, EndRecordIsQuiet, QuietStep
  <1>4. CASE Park(t)
    <2>1. \A p \in parked' : p \in parked \/ Begun(p[1])
      BY <1>1, <1>4 DEF Park, ResumeNext
    <2>2. /\ UNCHANGED <<inbox, msg, turn, opening, steered, declined, queue,
                         act, handing>>
          /\ sweep' \subseteq sweep
      BY <1>4 DEF Park, durable
    <2> QED  BY <1>1, <2>1, <2>2, QuietStep
  <1>5. ASSUME NEW m \in Message, ResumeTurn(t, m) PROVE AccountedInv'
    <2>1. NextAttempt(t) \in 0..MaxResumes /\ Begun(t)
      BY <1>1, <1>5, NextAttemptType, DispositionMeans DEF ResumeTurn, ResumeNext
    <2>2. /\ UNCHANGED <<turn, opening, steered, act, declined, parked>>
          /\ sweep' \subseteq sweep /\ PickUp(t, m, NextAttempt(t))
      BY <1>5 DEF ResumeTurn
    <2> QED  BY <2>1, <2>2, PickUpStep
  <1>6. ASSUME NEW m \in Message, AnswerApproval(t, m) PROVE AccountedInv'
    <2>1. UNCHANGED <<turn, opening, steered, act, declined, sweep>>
      BY <1>6 DEF AnswerApproval
    <2>2. ASSUME UNCHANGED <<inbox, msg, queue, handing, parked>>
          PROVE AccountedInv'
      BY <1>1, <2>1, <2>2, QuietStep
    <2>3. ASSUME NEW p \in parked, p[1] = t, PickUp(t, m, p[2]),
                 parked' = parked \ {p}
          PROVE AccountedInv'
      BY <1>1, <2>1, <2>3, PickUpStep
    <2> QED  BY <1>6, <2>2, <2>3 DEF AnswerApproval
  <1> QED  BY <1>2, <1>3, <1>4, <1>5, <1>6 DEF ResumeStep

\* Every step keeps the invariant.
LEMMA AccountedStep ==
  ASSUME AccountedInv, [Next]_vars
  PROVE  AccountedInv'
  <1>1. /\ TypeOK /\ StageIsOnDisk /\ PointersAreBegun
        /\ handing.kind # "none" => handing.turn \in Turn /\ Begun(handing.turn)
        /\ \A p \in parked : Begun(p[1])
    BY DEF AccountedInv, PointersAreBegun
  <1>2. TypeOK'
    BY <1>1, TypeStep
  <1>3. ASSUME NEW m \in Message, NEW w \in Worker, NEW kind \in Kind,
               Admit(m, w, kind) \/ StartupNote(m, w, kind)
        PROVE AccountedInv'
    <2>1. /\ Enqueue(m, w, kind, NoMarker) /\ kind # "resume"
          /\ UNCHANGED <<turn, opening, steered, act, declined, sweep, parked,
                         handing>>
      BY <1>3 DEF Admit, StartupNote
    <2> QED  BY <1>1, <1>2, <2>1, NoMarkerType, EnqueueStep
  <1>4. ASSUME NEW w \in Worker, TurnStep(w) PROVE AccountedInv'
    BY <1>2, <1>4, AccountedTurn
  <1>5. ASSUME NEW t \in Turn, ResumeStep(t) PROVE AccountedInv'
    BY <1>2, <1>5, AccountedResume
  <1>6. ASSUME NEW S \in SUBSET Turn, NoteCleanShutdown(S) PROVE AccountedInv'
    <2>1. UNCHANGED <<inbox, msg, opening, steered, declined, queue, sweep,
                      parked, handing, act>>
      BY <1>6 DEF NoteCleanShutdown, volatile
    <2> QED  BY <1>1, <1>2, <1>6, <2>1, CleanType, QuietStep
  <1>7. ASSUME NEW m \in Message, Reconcile(m) PROVE AccountedInv'
    BY <1>2, <1>7, ReconcileStep
  <1>8. ASSUME NEW w \in Worker, NEW a \in Agent, SwitchContext(w) \/ RemoveAgent(a)
        PROVE AccountedInv'
    <2>1. UNCHANGED <<inbox, msg, turn, opening, steered, declined, queue,
                      sweep, parked, handing, act>>
      BY <1>8 DEF SwitchContext, RemoveAgent, volatile
    <2> QED  BY <1>1, <1>2, <2>1, QuietStep
  <1>9. CASE GiveUpNote
    <2>1. /\ UNCHANGED <<inbox, msg, turn, opening, steered, declined, queue,
                         sweep, parked, act>>
          /\ handing'.kind = "none"
      BY <1>9 DEF GiveUpNote
    <2> QED  BY <1>1, <1>2, <2>1, QuietStep
  <1>10. CASE Relinquish
    <2>1. /\ UNCHANGED <<inbox, msg, opening, steered, declined, queue, sweep,
                         parked, act>>
          /\ handing'.kind = "none"
      BY <1>10 DEF Relinquish
    <2>2. PICK how \in {"continued", "resumed"} :
             turn' = EndRecord(handing.turn, how)
      BY <1>10 DEF Relinquish
    <2>3. handing.turn \in Turn /\ Begun(handing.turn)
      BY <1>1, <1>10 DEF Relinquish
    <2>4. how \in How \ {"none"}
      BY DEF How
    <2> QED  BY <1>1, <1>2, <2>1, <2>2, <2>3, <2>4, EndRecordIsQuiet, QuietStep
  <1>11. CASE Crash
    <2>1. /\ UNCHANGED <<inbox, msg, turn, opening, steered, declined>>
          /\ queue' = {} /\ parked' = {} /\ sweep' = {}
          /\ \A w \in Worker : act'[w] = Idle
          /\ handing'.kind = "none"
      BY <1>11 DEF Crash, durable
    <2> QED  BY <1>1, <1>2, <2>1, QuietStep
  <1>12. CASE Boot \/ Reconciled \/ Started \/ UNCHANGED vars
    <2>1. UNCHANGED <<inbox, msg, turn, opening, steered, declined, queue,
                      sweep, parked, handing, act>>
      BY <1>12 DEF Boot, Reconciled, Started, durable, volatile, vars
    <2> QED  BY <1>1, <1>2, <2>1, QuietStep
  <1>13. CASE Recover
    BY <1>2, <1>13, RecoverStep
  <1>14. ASSUME NEW w \in Worker, SwitchContext(w) PROVE AccountedInv'
    BY <1>8, <1>14, ConstantsAssumption DEF Agent
  <1>15. ASSUME NEW a \in Agent, RemoveAgent(a) PROVE AccountedInv'
    BY <1>8, <1>15 DEF Agent
  <1> QED  BY <1>3, <1>4, <1>5, <1>6, <1>7, <1>9, <1>10, <1>11, <1>12, <1>13,
              <1>14, <1>15 DEF Next

\* The invariant from which everything below follows holds of every state of
\* the ledgers, crashes included.
THEOREM CustodyInvariant == Spec => []AccountedInv
  <1>1. Init => AccountedInv
    BY AccountedInit
  <1>2. AccountedInv /\ [Next]_vars => AccountedInv'
    BY AccountedStep
  <1> QED  BY <1>1, <1>2, PTL DEF Spec

\* Every record of the ledgers and of the bus keeps its shape.
THEOREM TypeCorrect == Spec => []TypeOK
  <1>1. AccountedInv => TypeOK
    BY DEF AccountedInv
  <1> QED  BY <1>1, CustodyInvariant, PTL

\* No message is acknowledged into nothing: what the inbox no longer replays
\* some turn on record answers for, however often the process dies.
THEOREM MessagesAccounted == Spec => []Accounted
  <1>1. AccountedInv => Accounted
    BY DEF AccountedInv
  <1> QED  BY <1>1, CustodyInvariant, PTL

----------------------------------------------------------------------------
(* LineageUnbroken.                                                        *)

\* Message m is a continuation of turn t that the inbox still replays.
Continues(m, t) ==
    /\ inbox[m] = "pending" /\ msg[m].kind = "resume"
    /\ msg[m].marker.turn = t

\* Only a person's chat steers a turn.
SteeredAreChats == \A t \in Turn : \A m \in steered[t] : msg[m].kind = "chat"

\* A continuation is drained alone, so its marker is the one begin reads.
AloneInBatch ==
    \A w \in Worker : \A m \in act[w].batch :
        msg[m].kind = "resume" => act[w].batch = {m}

\* A turn that began with a continuation has recorded whom it resumes.
LineageKept ==
    \A t \in Turn : Begun(t) => \A m \in Held(t) :
        msg[m].kind = "resume" => msg[m].marker.turn \in turn[t].resumeOf

\* While a startup step is half done no turn acknowledges, and nothing is
\* half done before the process is up to starting anything.
OneBlock ==
    /\ handing.kind # "none" =>
         \A w \in Worker : act[w].stage \notin {"acking", "steering"}
    /\ phase \in {"down", "reconcile"} => handing.kind = "none"

\* The turn that is about to be relinquished has its continuation on disk.
HandedOver ==
    handing.kind = "continue" => \E m \in Message : Continues(m, handing.turn)

LineageInv ==
    /\ AccountedInv
    /\ SteeredAreChats
    /\ AloneInBatch
    /\ LineageKept
    /\ OneBlock
    /\ HandedOver
    /\ LineageUnbroken

\* Empty ledgers have no lineage to lose.
LEMMA LineageInit == Init => LineageInv
  <1> SUFFICES ASSUME Init PROVE LineageInv
    OBVIOUS
  <1>1. AccountedInv
    BY AccountedInit
  <1>2. \A w \in Worker : act[w].batch = {}
    BY IdleType DEF Init
  <1>3. \A t \in Turn : turn[t].how = "none"
    BY DEF Init, NoTurn
  <1>4. handing.kind = "none"
    BY DEF Init
  <1> QED  BY <1>1, <1>2, <1>3, <1>4
           DEF Init, LineageInv, SteeredAreChats, AloneInBatch, LineageKept,
               OneBlock, HandedOver, LineageUnbroken, Begun

\* What a turn holds, a worker's batch and the messages queued were admitted.
LEMMA InFlightIsAdmitted ==
  ASSUME AccountedInv
  PROVE  /\ \A t \in Turn : Held(t) \subseteq {m \in Message : inbox[m] # "absent"}
         /\ \A w \in Worker : act[w].batch \cup act[w].todo
                                \subseteq {m \in Message : inbox[m] # "absent"}
  <1>1. \A t \in Turn : Held(t) \subseteq Message
    BY DEF AccountedInv, TypeOK, Held, TurnRecord
  <1>2. \A w \in Worker : act[w].batch \cup act[w].todo \subseteq Message
    BY ActivityFields DEF AccountedInv, TypeOK
  <1> QED  BY <1>1, <1>2 DEF AccountedInv, OpeningOutlivesBegin, BatchIsAdmitted

\* A step that neither admits nor acknowledges, leaves the turn ledger's
\* endings and lineages alone, and at most forgets what a worker was doing.
LEMMA LineageQuiet ==
  ASSUME LineageInv, AccountedInv',
         UNCHANGED <<inbox, msg, opening, steered>>,
         \A t \in Turn : /\ turn'[t].how = turn[t].how
                        /\ turn'[t].causedBy = turn[t].causedBy
                        /\ turn'[t].resumeOf = turn[t].resumeOf,
         \A w \in Worker : act'[w] = act[w] \/ act'[w] = Idle,
         handing' = handing \/ handing'.kind = "none",
         phase' \in {"down", "reconcile"} => handing'.kind = "none"
  PROVE  LineageInv'
  <1> USE DEF LineageInv
  <1>1. \A t \in Turn : Begun(t)' = Begun(t) /\ Held(t)' = Held(t)
    BY DEF Begun, Held
  <1>2. SteeredAreChats'
    BY DEF SteeredAreChats
  <1>3. AloneInBatch'
    BY IdleType DEF AloneInBatch
  <1>4. LineageKept'
    BY <1>1 DEF LineageKept
  <1>5. OneBlock'
    BY IdleType DEF OneBlock
  <1>6. HandedOver'
    BY DEF HandedOver, Continues
  <1>7. LineageUnbroken'
    BY <1>1 DEF LineageUnbroken
  <1> QED  BY <1>2, <1>3, <1>4, <1>5, <1>6, <1>7

\* Admitting a message: a continuation is the one that is then handed over.
LEMMA LineageEnqueue ==
  ASSUME LineageInv, AccountedInv', ~Synchronous,
         phase' = phase, phase \notin {"down", "reconcile"},
         NEW m \in Message, NEW w \in Worker \cup {None}, NEW kind \in Kind,
         NEW k \in Marker, Enqueue(m, w, kind, k),
         handing'.kind = "continue" => kind = "resume" /\ k.turn = handing'.turn,
         UNCHANGED <<turn, opening, steered, act>>
  PROVE  LineageInv'
  <1> USE DEF LineageInv
  <1>1. /\ inbox[m] = "absent" /\ inbox'[m] = "pending"
        /\ \A n \in Message : n # m => inbox'[n] = inbox[n] /\ msg'[n] = msg[n]
    BY DEF Enqueue, AccountedInv, TypeOK
  <1>2. msg'[m].kind = kind /\ msg'[m].marker = k
    <2>1. msg'[m] = Admitted(w, kind, k)
      BY DEF Enqueue, AccountedInv, TypeOK
    <2>2. Admitted(w, kind, k).kind = kind /\ Admitted(w, kind, k).marker = k
      BY AdmittedType
    <2> QED  BY <2>1, <2>2
  <1>3. \A t \in Turn : \A n \in Held(t) : n \in Message /\ n # m
    BY <1>1, InFlightIsAdmitted
  <1>4. \A v \in Worker : \A n \in act[v].batch : n \in Message /\ n # m
    BY <1>1, InFlightIsAdmitted
  <1>5. \A t \in Turn : Begun(t)' = Begun(t) /\ Held(t)' = Held(t)
    BY DEF Begun, Held
  <1>6. SteeredAreChats'
    <2>1. \A t \in Turn : steered[t] \subseteq Held(t)
      BY DEF Held
    <2> QED  BY <1>1, <1>3, <2>1 DEF SteeredAreChats
  <1>7. AloneInBatch'
    BY <1>1, <1>4 DEF AloneInBatch
  <1>8. LineageKept'
    BY <1>1, <1>3, <1>5 DEF LineageKept
  <1>9. OneBlock'
    BY DEF OneBlock, Synchronous
  <1>10. HandedOver'
    BY <1>1, <1>2 DEF HandedOver, Continues
  <1>11. LineageUnbroken'
    BY <1>1, <1>5 DEF LineageUnbroken
  <1> QED  BY <1>6, <1>7, <1>8, <1>9, <1>10, <1>11

\* What is acknowledged is held by a turn, whose record keeps the lineage.
LEMMA LineageStarted ==
  ASSUME LineageInv, AccountedInv', NEW M \in SUBSET Message,
         inbox' = [m \in Message |-> IF m \in M THEN "started" ELSE inbox[m]],
         \A m \in M : \/ msg[m].kind # "resume"
                      \/ \E t \in Turn : Begun(t) /\ m \in Held(t),
         handing.kind = "none",
         UNCHANGED <<msg, turn, opening, steered, handing, phase>>,
         \A w \in Worker : act'[w].batch \in {act[w].batch, {}}
  PROVE  LineageInv'
  <1> USE DEF LineageInv
  <1>1. \A t \in Turn : Begun(t)' = Begun(t) /\ Held(t)' = Held(t)
    BY DEF Begun, Held
  <1>2. \A n \in Message : inbox'[n] = IF n \in M THEN "started" ELSE inbox[n]
    OBVIOUS
  <1>3. AloneInBatch'
    BY DEF AloneInBatch
  <1>4. LineageUnbroken'
    <2> SUFFICES ASSUME NEW t \in Turn, turn[t].how \in {"continued", "resumed"}
                 PROVE  \/ \E n \in Message : Continues(n, t)'
                        \/ \E u \in Turn : Begun(u) /\ t \in turn[u].resumeOf
      BY <1>1 DEF LineageUnbroken, Continues
    <2>1. \/ \E n \in Message : Continues(n, t)
          \/ \E u \in Turn : Begun(u) /\ t \in turn[u].resumeOf
      BY DEF LineageUnbroken, Continues
    <2>2. ASSUME NEW n \in Message, Continues(n, t), n \notin M
          PROVE  Continues(n, t)'
      BY <1>2, <2>2 DEF Continues
    <2>3. ASSUME NEW n \in M, Continues(n, t)
          PROVE  \E u \in Turn : Begun(u) /\ t \in turn[u].resumeOf
      BY <2>3 DEF Continues, LineageKept
    <2> QED  BY <2>1, <2>2, <2>3
  <1> QED  BY <1>1, <1>3, <1>4
           DEF SteeredAreChats, LineageKept, OneBlock, HandedOver

\* A turn ends: nothing is lost unless it ends as relinquished, and then the
\* continuation is on disk.
LEMMA LineageEnded ==
  ASSUME LineageInv, AccountedInv', NEW t \in Turn, Begun(t),
         NEW how \in How \ {"none"}, turn' = EndRecord(t, how),
         how \in {"continued", "resumed"} =>
            \E m \in Message : Continues(m, t),
         UNCHANGED <<inbox, msg, opening, steered, phase>>,
         \A w \in Worker : act'[w] = act[w] \/ act'[w] = Idle,
         handing'.kind # "none" =>
            \/ handing' = handing
            \/ handing'.kind # "continue" /\ ~Synchronous,
         phase \in {"down", "reconcile"} => handing'.kind = "none"
  PROVE  LineageInv'
  <1> USE DEF LineageInv
  <1>1. \A u \in Turn : /\ turn'[u].how = IF u = t THEN how ELSE turn[u].how
                       /\ turn'[u].causedBy = turn[u].causedBy
                       /\ turn'[u].resumeOf = turn[u].resumeOf
    BY EndRecordType DEF AccountedInv
  <1>2. \A u \in Turn : Begun(u)' = Begun(u) /\ Held(u)' = Held(u)
    BY <1>1 DEF Begun, Held
  <1>3. SteeredAreChats'
    BY DEF SteeredAreChats
  <1>4. AloneInBatch'
    BY IdleType DEF AloneInBatch
  <1>5. LineageKept'
    BY <1>1, <1>2 DEF LineageKept
  <1>6. OneBlock'
    BY IdleType DEF OneBlock, Synchronous
  <1>7. HandedOver'
    BY DEF HandedOver, Continues
  <1>8. LineageUnbroken'
    BY <1>1, <1>2 DEF LineageUnbroken, Continues
  <1> QED  BY <1>3, <1>4, <1>5, <1>6, <1>7, <1>8

\* A continuation is drained alone.
LEMMA LineageDrain ==
  ASSUME LineageInv, AccountedInv', NEW w \in Worker, NEW S \in SUBSET queue,
         Drain(w, S)
  PROVE  LineageInv'
  <1> USE DEF LineageInv
  <1> DEFINE M == {c[1] : c \in S}
  <1>1. UNCHANGED <<inbox, msg, turn, opening, steered, handing, phase>>
    BY DEF Drain, durable
  <1>2. act'[w] = Doing("setup", None, M, {})
        /\ \A v \in Worker \ {w} : act'[v] = act[v]
    BY DEF Drain, AccountedInv, TypeOK
  <1>3. M \in SUBSET Message
    BY DEF Drain, AccountedInv, TypeOK
  <1>4. act'[w].batch = M /\ act'[w].stage = "setup"
    BY <1>2, <1>3, DoingType
  <1>5. \A m \in M : msg[m].kind = "resume" => M = {m}
    <2>1. MayBatch(S)
      BY DEF Drain
    <2>2. CASE \E c \in S : S = {c}
      BY <2>2
    <2>3. CASE \E kind \in {"chat", "mail"} : \A c \in S : msg[c[1]].kind = kind
      BY <2>3
    <2> QED  BY <2>1, <2>2, <2>3 DEF MayBatch
  <1>6. AloneInBatch'
    BY <1>1, <1>2, <1>4, <1>5 DEF AloneInBatch
  <1>7. OneBlock'
    BY <1>1, <1>2, <1>4 DEF OneBlock
  <1>8. \A t \in Turn : Begun(t)' = Begun(t) /\ Held(t)' = Held(t)
    BY <1>1 DEF Begun, Held
  <1> QED  BY <1>1, <1>6, <1>7, <1>8
           DEF SteeredAreChats, LineageKept, HandedOver, LineageUnbroken,
               Continues

\* The entry that opens a turn says nothing of a turn that began.
LEMMA LineageOpening ==
  ASSUME LineageInv, AccountedInv', NEW w \in Worker, NEW t \in Turn,
         RecordOpening(w, t)
  PROVE  LineageInv'
  <1> USE DEF LineageInv
  <1>1. /\ UNCHANGED <<inbox, msg, turn, steered, handing, phase>>
        /\ ~Begun(t)
    BY DEF RecordOpening, Fresh, Begun
  <1>2. act'[w] = Doing("recorded", t, act[w].batch, {})
        /\ \A v \in Worker \ {w} : act'[v] = act[v]
    BY DEF RecordOpening, AccountedInv, TypeOK
  <1>3. act[w].batch \in SUBSET Message
    BY ActivityFields DEF AccountedInv, TypeOK
  <1>4. act'[w].batch = act[w].batch /\ act'[w].stage = "recorded"
    BY <1>2, <1>3, DoingType
  <1>5. \A u \in Turn : Begun(u)' = Begun(u) /\ (Begun(u) => Held(u)' = Held(u))
    BY <1>1 DEF Begun, Held, RecordOpening, AccountedInv, TypeOK
  <1>6. AloneInBatch'
    BY <1>1, <1>2, <1>4 DEF AloneInBatch
  <1>7. OneBlock'
    BY <1>1, <1>2, <1>4 DEF OneBlock
  <1> QED  BY <1>1, <1>5, <1>6, <1>7
           DEF SteeredAreChats, LineageKept, HandedOver, LineageUnbroken,
               Continues

\* What steers is a chat, whoever it steers.
LEMMA LineageSteer ==
  ASSUME LineageInv, AccountedInv', NEW w \in Worker, NEW S \in SUBSET queue,
         Steer(w, S)
  PROVE  LineageInv'
  <1> USE DEF LineageInv
  <1> DEFINE M == {c[1] : c \in S}
             t == act[w].turn
  <1>1. /\ UNCHANGED <<inbox, msg, turn, opening, handing, phase>>
        /\ handing.kind = "none"
        /\ \A m \in M : msg[m].kind = "chat"
    BY DEF Steer, Serving, Synchronous
  <1>2. act'[w] = Doing("steering", t, act[w].batch, M)
        /\ \A v \in Worker \ {w} : act'[v] = act[v]
    BY DEF Steer, AccountedInv, TypeOK
  <1>3. /\ M \in SUBSET Message /\ act[w].batch \in SUBSET Message
        /\ t \in Turn
    BY ActivityFields DEF AccountedInv, TypeOK, Steer, StageIsOnDisk, StageOf
  <1>4. act'[w].batch = act[w].batch
    BY <1>2, <1>3, DoingType
  <1>5. \A u \in Turn : steered'[u] = IF u = t THEN steered[u] \cup M
                                               ELSE steered[u]
    BY DEF Steer, AccountedInv, TypeOK
  <1>6. \A u \in Turn : /\ Begun(u)' = Begun(u)
                       /\ \A m \in Held(u)' : m \in Held(u) \/ m \in M
    BY <1>1, <1>5 DEF Begun, Held
  <1>7. SteeredAreChats'
    BY <1>1, <1>5 DEF SteeredAreChats
  <1>8. AloneInBatch'
    BY <1>1, <1>2, <1>4 DEF AloneInBatch
  <1>9. LineageKept'
    BY <1>1, <1>6 DEF LineageKept
  <1> QED  BY <1>1, <1>6, <1>7, <1>8, <1>9
           DEF OneBlock, HandedOver, LineageUnbroken, Continues

\* What a begin makes of the lineages: t also resumes the turn of its marker,
\* which is closed, and nobody forgets whom it resumed.
LEMMA BeginRecordLineage ==
  ASSUME TypeOK, NEW w \in Worker, NEW t \in Turn
  PROVE  \A u \in Turn :
           /\ BeginRecord(w, t)[u].resumeOf =
                IF u = t THEN turn[u].resumeOf
                                \cup ({MarkerOf(act[w].batch).turn} \ {None})
                         ELSE turn[u].resumeOf
           /\ u # t => BeginRecord(w, t)[u].how =
                IF u = MarkerOf(act[w].batch).turn /\ turn[u].how = "open"
                THEN "resumed" ELSE turn[u].how
  <1>1. ASSUME NEW u \in Turn
        PROVE  LET r == [turn[u] EXCEPT !.how = "resumed"]
               IN  r.how = "resumed" /\ r.resumeOf = turn[u].resumeOf
    <2>1. turn[u] \in TurnRecord
      BY DEF TypeOK
    <2> QED  BY <2>1 DEF TurnRecord
  <1> QED  BY <1>1 DEF BeginRecord

\* The marker begin reads is that of the continuation in the batch.
LEMMA MarkerOfAlone ==
  ASSUME NEW m, NEW M, M = {m}, msg[m].kind = "resume"
  PROVE  MarkerOf(M) = msg[m].marker
  BY DEF MarkerOf

\* A batch without a continuation has no marker.
LEMMA NoMarkerOf ==
  ASSUME NEW M, \A m \in M : msg[m].kind # "resume"
  PROVE  MarkerOf(M) = NoMarker
  BY DEF MarkerOf

\* A begin records the lineage of what it begins with.
LEMMA LineageBegin ==
  ASSUME LineageInv, AccountedInv', NEW w \in Worker, Begin(w)
  PROVE  LineageInv'
  <1> USE DEF LineageInv
  <1> DEFINE M == act[w].batch
             k == MarkerOf(M)
  <1>1. PICK t : t = IF k.continues THEN k.turn ELSE act[w].turn
    OBVIOUS
  <1>2. /\ turn' = BeginRecord(w, t)
        /\ act' = [act EXCEPT ![w] = Doing("acking", t, M, M)]
        /\ act[w].stage = IF k.continues THEN "setup" ELSE "recorded"
        /\ UNCHANGED <<inbox, msg, opening, steered, handing, phase>>
        /\ handing.kind = "none"
    BY <1>1 DEF Begin, Serving, Synchronous
  <1>3. M \in SUBSET Message
    BY ActivityFields DEF AccountedInv, TypeOK
  <1>4. ASSUME NEW m \in M, msg[m].kind = "resume"
        PROVE  M = {m} /\ k = msg[m].marker /\ k.turn \in Turn /\ Begun(k.turn)
    <2>1. M = {m}
      BY <1>4 DEF AloneInBatch
    <2>2. k = msg[m].marker
      BY <1>4, <2>1, MarkerOfAlone
    <2> QED  BY <1>3, <1>4, <2>1, <2>2 DEF AccountedInv, PointersAreBegun
  <1>5. t \in Turn
    <2>1. CASE k.continues
      <3>1. \E m \in M : msg[m].kind = "resume"
        BY <2>1, NoMarkerOf DEF NoMarker
      <3> QED  BY <1>1, <1>4, <2>1, <3>1
    <2>2. CASE ~k.continues
      BY <1>1, <1>2, <2>2 DEF AccountedInv, StageIsOnDisk, StageOf
    <2> QED  BY <2>1, <2>2
  <1>6. act'[w].batch = M /\ \A v \in Worker \ {w} : act'[v] = act[v]
    <2>1. act'[w] = Doing("acking", t, M, M)
          /\ \A v \in Worker \ {w} : act'[v] = act[v]
      BY <1>2 DEF AccountedInv, TypeOK
    <2> QED  BY <1>3, <1>5, <2>1, DoingType
  <1>7. \A u \in Turn :
           /\ u = t => turn'[u].how = "open" /\ turn'[u].causedBy = M
           /\ u # t => turn'[u].causedBy = turn[u].causedBy
    BY <1>2, <1>5, BeginRecordMeans DEF AccountedInv
  <1>8. \A u \in Turn :
           /\ turn'[u].resumeOf = IF u = t
                THEN turn[u].resumeOf \cup ({k.turn} \ {None})
                ELSE turn[u].resumeOf
           /\ u # t => turn'[u].how = IF u = k.turn /\ turn[u].how = "open"
                                      THEN "resumed" ELSE turn[u].how
    BY <1>2, <1>5, BeginRecordLineage DEF AccountedInv
  <1> HIDE DEF k
  <1>9. \A u \in Turn : Begun(u) => Begun(u)'
    BY <1>7, <1>8 DEF Begun
  <1>10. LineageKept'
    <2> SUFFICES ASSUME NEW u \in Turn, Begun(u)', NEW m \in Held(u)',
                        msg[m].kind = "resume"
                 PROVE  msg[m].marker.turn \in turn'[u].resumeOf
      BY <1>2 DEF LineageKept
    <2>1. CASE u # t
      <3>1. Begun(u) /\ m \in Held(u)
        BY <1>2, <1>7, <1>8, <2>1 DEF Begun, Held
      <3> QED  BY <1>8, <2>1, <3>1 DEF LineageKept
    <2>2. CASE u = t /\ m \in M
      BY ZenonT(60), <1>4, <1>8, <2>2, ConstantsAssumption DEF ConstantsAssumption
    <2>3. CASE u = t /\ m \notin M
      <3>1. m \in opening[t] \cup steered[t]
        BY <1>2, <1>7, <2>3 DEF Held
      <3>2. m \notin steered[t]
        BY <1>5 DEF SteeredAreChats
      <3>3. k.continues
        BY <1>1, <1>2, <2>3, <3>1, <3>2 DEF AccountedInv, StageIsOnDisk, StageOf
      <3>4. \E n \in M : msg[n].kind = "resume"
        BY <3>3, NoMarkerOf DEF NoMarker, k
      <3>5. Begun(t)
        BY <1>1, <1>4, <3>3, <3>4
      <3>6. m \in Held(t)
        BY <3>1 DEF Held
      <3> QED  BY <1>5, <1>8, <2>3, <3>5, <3>6 DEF LineageKept
    <2> QED  BY <2>1, <2>2, <2>3
  <1>11. LineageUnbroken'
    <2> SUFFICES ASSUME NEW u \in Turn, turn'[u].how \in {"continued", "resumed"}
                 PROVE  \/ \E m \in Message : Continues(m, u)
                        \/ \E v \in Turn : Begun(v)' /\ u \in turn'[v].resumeOf
      BY <1>2 DEF LineageUnbroken, Continues
    <2>1. u # t
      BY <1>7
    <2>2. CASE turn'[u].how = turn[u].how
      <3>1. \/ \E m \in Message : Continues(m, u)
            \/ \E v \in Turn : Begun(v) /\ u \in turn[v].resumeOf
        BY <2>2 DEF LineageUnbroken, Continues
      <3> QED  BY <1>8, <1>9, <3>1
    <2>3. CASE u = k.turn
      <3>1. Begun(t)' /\ u \in turn'[t].resumeOf
        BY <1>5, <1>7, <1>8, <2>3, ConstantsAssumption
        DEF Begun, ConstantsAssumption
      <3> QED  BY <1>5, <3>1
    <2> QED  BY <1>8, <2>1, <2>2, <2>3
  <1>12. AloneInBatch'
    BY <1>2, <1>6 DEF AloneInBatch
  <1> QED  BY <1>2, <1>10, <1>11, <1>12
           DEF SteeredAreChats, OneBlock, HandedOver

\* Every step of a turn keeps the lineage.
LEMMA LineageTurn ==
  ASSUME LineageInv, AccountedInv', NEW w \in Worker, TurnStep(w)
  PROVE  LineageInv'
  <1> USE DEF LineageInv
  <1>1. ASSUME SetupFails(w) \/ OnReadyFails(w) PROVE LineageInv'
    <2>1. /\ UNCHANGED <<inbox, msg, turn, opening, steered, handing, phase>>
          /\ \A v \in Worker : act'[v] = act[v] \/ act'[v] = Idle
      BY <1>1 DEF SetupFails, OnReadyFails, durable, AccountedInv, TypeOK
    <2> QED  BY <2>1, LineageQuiet DEF OneBlock
  <1>2. ASSUME NEW asks \in BOOLEAN, ToolCall(w, asks) PROVE LineageInv'
    <2>1. UNCHANGED <<inbox, msg, turn, opening, steered, handing, phase, act>>
      BY <1>2 DEF ToolCall
    <2> QED  BY <2>1, LineageQuiet DEF OneBlock
  <1>3. CASE Decline(w)
    <2>1. /\ act[w].batch \in SUBSET Message
          /\ \A m \in act[w].batch : msg[m].kind # "resume"
          /\ handing.kind = "none"
          /\ inbox' = [m \in Message |-> IF m \in act[w].batch THEN "started"
                                                               ELSE inbox[m]]
          /\ UNCHANGED <<msg, turn, opening, steered, handing, phase>>
      BY <1>3, ActivityFields
      DEF AccountedInv, TypeOK, Decline, Serving, Synchronous
    <2>2. \A v \in Worker : act'[v].batch \in {act[v].batch, {}}
      BY <1>3, IdleType DEF Decline, AccountedInv, TypeOK
    <2> QED  BY <2>1, <2>2, LineageStarted
  <1>4. ASSUME NEW m \in Message, Acknowledge(w, m) PROVE LineageInv'
    <2>1. /\ UNCHANGED <<msg, turn, opening, steered, handing, phase>>
          /\ handing.kind = "none"
      BY <1>4 DEF Acknowledge, OneBlock
    <2>2. PICK M \in SUBSET Message : M = {m}
      OBVIOUS
    <2>3. inbox' = [n \in Message |-> IF n \in M THEN "started" ELSE inbox[n]]
      BY <1>4, <2>2 DEF Acknowledge, AccountedInv, TypeOK
    <2>4. \E t \in Turn : Begun(t) /\ m \in Held(t)
      BY <1>4 DEF Acknowledge, AccountedInv, StageIsOnDisk, StageOf
    <2>5. \A v \in Worker : act'[v].batch \in {act[v].batch, {}}
      <3>1. act[w] \in Activity
        BY DEF AccountedInv, TypeOK
      <3>2. \A stage \in {"running", act[w].stage}, todo \in SUBSET Message :
              Doing(stage, act[w].turn, act[w].batch, todo).batch = act[w].batch
        BY <3>1, DoingType, ActivityFields
      <3>3. act[w].todo \ {m} \in SUBSET Message
        BY <3>1, ActivityFields
      <3>4. act'[w].batch = act[w].batch
        BY <1>4, <3>2, <3>3 DEF Acknowledge, AccountedInv, TypeOK
      <3>5. \A v \in Worker \ {w} : act'[v] = act[v]
        BY <1>4 DEF Acknowledge, AccountedInv, TypeOK
      <3> QED  BY <3>4, <3>5
    <2> QED  BY <2>1, <2>2, <2>3, <2>4, <2>5, LineageStarted
  <1>5. ASSUME NEW how \in TurnEnd, SteeringFails(w) \/ Finish(w, how)
        PROVE  LineageInv'
    <2>1. act[w].turn \in Turn /\ Begun(act[w].turn)
      BY <1>5 DEF SteeringFails, Finish, AccountedInv, StageIsOnDisk, StageOf
    <2>2. PICK h \in TurnEnd : turn' = EndRecord(act[w].turn, h)
      BY <1>5 DEF SteeringFails, Finish, EndTurn, TurnEnd
    <2>3. /\ UNCHANGED <<inbox, msg, opening, steered, handing, phase>>
          /\ \A v \in Worker : act'[v] = act[v] \/ act'[v] = Idle
      BY <1>5 DEF SteeringFails, Finish, EndTurn, AccountedInv, TypeOK
    <2>4. h \in How \ {"none"} /\ h \notin {"continued", "resumed"}
      BY DEF How, TurnEnd
    <2> QED  BY <2>1, <2>2, <2>3, <2>4, LineageEnded DEF OneBlock
  <1> QED  BY <1>1, <1>2, <1>3, <1>4, <1>5, LineageDrain, LineageSteer,
              LineageOpening, LineageBegin DEF TurnStep, TurnEnd

\* A pickup is durable before the old owner lets go.
LEMMA LineagePickUp ==
  ASSUME LineageInv, AccountedInv', NEW t \in Turn, NEW m \in Message,
         NEW a \in 0..MaxResumes, PickUp(t, m, a), ~Synchronous,
         phase \notin {"down", "reconcile"},
         UNCHANGED <<turn, opening, steered, act, phase>>
  PROVE  LineageInv'
  <1>1. PICK k : k = [turn |-> t, attempt |-> a, work |-> turn[t].work,
                      continues |-> t \in stepped]
    OBVIOUS
  <1>2. turn[t] \in TurnRecord
    BY DEF LineageInv, AccountedInv, TypeOK
  <1>3. k \in Marker /\ k.turn = t
    BY <1>1, <1>2 DEF Marker, TurnRecord
  <1>4. turn[t].worker \in Worker \cup {None}
    BY <1>2 DEF TurnRecord
  <1>5. Enqueue(m, turn[t].worker, "resume", k) /\ handing'.turn = t
    BY <1>1 DEF PickUp
  <1>6. "resume" \in Kind
    BY DEF Kind
  <1> QED  BY <1>3, <1>4, <1>5, <1>6, LineageEnqueue

\* Every step of resumeInterrupted() and of an approval keeps the lineage.
LEMMA LineageResume ==
  ASSUME LineageInv, AccountedInv', NEW t \in Turn, ResumeStep(t)
  PROVE  LineageInv'
  <1> USE DEF LineageInv
  <1>1. /\ TypeOK
        /\ t \in sweep => Begun(t)
        /\ \A p \in parked : p[2] \in 0..MaxResumes
    BY DEF AccountedInv, PointersAreBegun, TypeOK
  <1>2. CASE SkipTurn(t) \/ Park(t)
    <2>1. UNCHANGED <<inbox, msg, turn, opening, steered, handing, phase, act>>
      BY <1>2 DEF SkipTurn, Park, durable
    <2> QED  BY <2>1, LineageQuiet DEF OneBlock
  <1>3. CASE Abandon(t)
    <2>1. /\ Begun(t) /\ Disposition(t) \in How \ {"none"}
          /\ Disposition(t) \notin {"continued", "resumed"}
          /\ phase = "resume" /\ ~Synchronous
      BY <1>1, <1>3 DEF Abandon, ResumeNext, HostEnd, How
    <2>2. /\ turn' = EndRecord(t, Disposition(t))
          /\ UNCHANGED <<inbox, msg, opening, steered, phase, act>>
          /\ handing' = handing \/ handing'.kind = "note"
      BY <1>3 DEF Abandon
    <2> QED  BY <2>1, <2>2, LineageEnded
  <1>4. ASSUME NEW m \in Message, ResumeTurn(t, m) PROVE LineageInv'
    <2>1. NextAttempt(t) \in 0..MaxResumes
      BY <1>1, <1>4, NextAttemptType, DispositionMeans DEF ResumeTurn
    <2>2. /\ UNCHANGED <<turn, opening, steered, act, phase>>
          /\ phase = "resume" /\ ~Synchronous
          /\ PickUp(t, m, NextAttempt(t))
      BY <1>4 DEF ResumeTurn, ResumeNext
    <2> QED  BY <2>1, <2>2, LineagePickUp
  <1>5. ASSUME NEW m \in Message, AnswerApproval(t, m) PROVE LineageInv'
    <2>1. /\ UNCHANGED <<turn, opening, steered, act, phase>>
          /\ phase = "up" /\ ~Synchronous
      BY <1>5 DEF AnswerApproval
    <2>2. ASSUME UNCHANGED <<inbox, msg, handing>> PROVE LineageInv'
      BY <2>1, <2>2, LineageQuiet
    <2>3. ASSUME NEW p \in parked, PickUp(t, m, p[2]) PROVE LineageInv'
      BY <1>1, <2>1, <2>3, LineagePickUp
    <2> QED  BY <1>5, <2>2, <2>3 DEF AnswerApproval
  <1> QED  BY <1>2, <1>3, <1>4, <1>5 DEF ResumeStep

\* Every step keeps the lineage.
LEMMA LineageStep ==
  ASSUME LineageInv, [Next]_vars
  PROVE  LineageInv'
  <1>1. AccountedInv /\ OneBlock /\ HandedOver
    BY DEF LineageInv
  <1>2. AccountedInv' /\ TypeOK
    BY <1>1, AccountedStep DEF AccountedInv
  <1>3. ASSUME NEW m \in Message, NEW w \in Worker, NEW kind \in Kind,
               Admit(m, w, kind) \/ StartupNote(m, w, kind)
        PROVE LineageInv'
    <2>1. /\ Enqueue(m, w, kind, NoMarker) /\ ~Synchronous
          /\ phase \in {"up", "starting"}
          /\ UNCHANGED <<turn, opening, steered, act, phase, handing>>
      BY <1>3 DEF Admit, StartupNote
    <2>2. handing.kind = "none"
      BY <2>1 DEF Synchronous
    <2> QED  BY <1>2, <2>1, <2>2, NoMarkerType, LineageEnqueue
  <1>4. ASSUME NEW w \in Worker, TurnStep(w) PROVE LineageInv'
    BY <1>2, <1>4, LineageTurn
  <1>5. ASSUME NEW t \in Turn, ResumeStep(t) PROVE LineageInv'
    BY <1>2, <1>5, LineageResume
  <1>6. ASSUME NEW S \in SUBSET Turn, NoteCleanShutdown(S) PROVE LineageInv'
    <2>1. UNCHANGED <<inbox, msg, opening, steered, handing, phase, act>>
      BY <1>6 DEF NoteCleanShutdown, volatile
    <2> QED  BY <1>1, <1>2, <1>6, <2>1, CleanType, LineageQuiet DEF OneBlock
  <1>7. ASSUME NEW m \in Message, Reconcile(m) PROVE LineageInv'
    <2>1. m \in Reconcilable /\ phase = "reconcile"
          /\ UNCHANGED <<msg, turn, opening, steered, handing, phase, act>>
      BY <1>7 DEF Reconcile, volatile
    <2>2. \E t \in Turn : Begun(t) /\ m \in Held(t)
      BY <2>1 DEF Reconcilable, OwnedBy, Open, Begun, Held
    <2>3. PICK M \in SUBSET Message : M = {m}
      OBVIOUS
    <2>4. inbox' = [n \in Message |-> IF n \in M THEN "started" ELSE inbox[n]]
      BY <1>2, <1>7, <2>3 DEF Reconcile, TypeOK
    <2> QED  BY <1>1, <1>2, <2>1, <2>2, <2>3, <2>4, LineageStarted DEF OneBlock
  <1>8. CASE GiveUpNote
    <2>1. /\ UNCHANGED <<inbox, msg, turn, opening, steered, phase, act>>
          /\ handing'.kind = "none"
      BY <1>8 DEF GiveUpNote
    <2> QED  BY <1>2, <2>1, LineageQuiet
  <1>9. CASE Relinquish
    <2>1. /\ UNCHANGED <<inbox, msg, opening, steered, phase, act>>
          /\ handing'.kind = "none" /\ handing.kind = "continue"
      BY <1>9 DEF Relinquish
    <2>2. PICK how \in {"continued", "resumed"} :
             turn' = EndRecord(handing.turn, how)
      BY <1>9 DEF Relinquish
    <2>3. handing.turn \in Turn /\ Begun(handing.turn)
      BY <1>2, <2>1 DEF AccountedInv, PointersAreBegun, LineageInv
    <2>4. \E m \in Message : Continues(m, handing.turn)
      BY <1>1, <2>1 DEF HandedOver
    <2>5. how \in How \ {"none"}
      BY DEF How
    <2> QED  BY <1>2, <2>1, <2>2, <2>3, <2>4, <2>5, LineageEnded
  <1>10. CASE Crash
    <2>1. /\ UNCHANGED <<inbox, msg, turn, opening, steered>>
          /\ \A w \in Worker : act'[w] = Idle
          /\ handing'.kind = "none"
      BY <1>10 DEF Crash, durable
    <2> QED  BY <1>2, <2>1, LineageQuiet
  <1>11. CASE Boot
    <2>1. /\ UNCHANGED <<inbox, msg, turn, opening, steered, handing, act>>
          /\ phase = "down"
      BY <1>11 DEF Boot, durable
    <2> QED  BY <1>1, <1>2, <2>1, LineageQuiet DEF OneBlock
  <1>12. CASE Reconciled \/ Recover \/ Started
    <2>1. /\ UNCHANGED <<inbox, msg, turn, opening, steered, handing, act>>
          /\ phase' \notin {"down", "reconcile"}
      BY <1>12 DEF Reconciled, Recover, Started, durable
    <2> QED  BY <1>2, <2>1, LineageQuiet
  <1>13. ASSUME NEW w \in Worker, SwitchContext(w) PROVE LineageInv'
    <2>1. UNCHANGED <<inbox, msg, turn, opening, steered, handing, act, phase>>
      BY <1>13 DEF SwitchContext, volatile
    <2> QED  BY <1>1, <1>2, <2>1, LineageQuiet DEF OneBlock
  <1>14. ASSUME NEW a \in Agent, RemoveAgent(a) PROVE LineageInv'
    <2>1. UNCHANGED <<inbox, msg, turn, opening, steered, handing, act, phase>>
      BY <1>14 DEF RemoveAgent, volatile
    <2> QED  BY <1>1, <1>2, <2>1, LineageQuiet DEF OneBlock
  <1>15. CASE UNCHANGED vars
    <2>1. UNCHANGED <<inbox, msg, turn, opening, steered, handing, act, phase>>
      BY <1>15 DEF vars, durable, volatile
    <2> QED  BY <1>1, <1>2, <2>1, LineageQuiet DEF OneBlock
  <1> QED  BY <1>3, <1>4, <1>5, <1>6, <1>7, <1>8, <1>9, <1>10, <1>11, <1>12,
              <1>13, <1>14, <1>15 DEF Next

\* The invariant behind LineageUnbroken, crashes and startup notes included.
THEOREM LineageInvariant == Spec => []LineageInv
  <1>1. Init => LineageInv
    BY LineageInit
  <1>2. LineageInv /\ [Next]_vars => LineageInv'
    BY LineageStep
  <1> QED  BY <1>1, <1>2, PTL DEF Spec

\* An interrupted turn that was relinquished has an heir on disk, wherever
\* the process died between its continuation and its end record.
THEOREM LineageIsUnbroken == Spec => []LineageUnbroken
  <1>1. LineageInv => LineageUnbroken
    BY DEF LineageInv
  <1> QED  BY <1>1, LineageInvariant, PTL

----------------------------------------------------------------------------
(* ContextKept.                                                            *)

\* A step that opens no turn and moves no context.
LEMMA ContextQuiet ==
  ASSUME ContextKept, epoch' = epoch,
         \A t \in Turn : /\ turn'[t].how \in {turn[t].how} \cup (How \ {"open"})
                        /\ turn'[t].worker = turn[t].worker
                        /\ turn'[t].epoch = turn[t].epoch
  PROVE  ContextKept'
  BY DEF ContextKept, Open

\* A begin is in the context of its conversation, and opens no other turn.
LEMMA ContextBegin ==
  ASSUME AccountedInv, AccountedInv', ContextKept, NEW w \in Worker, Begin(w)
  PROVE  ContextKept'
  <1> DEFINE k == MarkerOf(act[w].batch)
  <1>1. PICK t : t = IF k.continues THEN k.turn ELSE act[w].turn
    OBVIOUS
  <1>2. turn' = BeginRecord(w, t) /\ epoch' = epoch
    BY <1>1 DEF Begin
  <1>3. \A u \in Turn : LET r == [turn[u] EXCEPT !.how = "resumed"]
                        IN  /\ r.how = "resumed" /\ r.worker = turn[u].worker
                            /\ r.epoch = turn[u].epoch
    BY DEF AccountedInv, TypeOK, TurnRecord
  <1>4. \A u \in Turn : \/ turn'[u].worker = w /\ turn'[u].epoch = epoch[w]
                       \/ turn'[u] = turn[u]
                       \/ turn'[u] = [turn[u] EXCEPT !.how = "resumed"]
    BY <1>2 DEF BeginRecord
  <1>5. \A u \in Turn : \/ turn'[u].worker = w /\ turn'[u].epoch = epoch[w]
                       \/ turn'[u] = turn[u]
                       \/ turn'[u].how # "open"
    BY <1>3, <1>4
  <1> QED  BY <1>2, <1>5 DEF ContextKept, Open

\* A conversation switches only when none of its turns is open.
LEMMA ContextStep ==
  ASSUME AccountedInv, ContextKept, [Next]_vars
  PROVE  ContextKept'
  <1>1. AccountedInv' /\ TypeOK
    BY AccountedStep DEF AccountedInv
  <1>2. ASSUME NEW t, NEW how \in How \ {"open"}, turn' = EndRecord(t, how),
               epoch' = epoch
        PROVE  ContextKept'
    BY <1>1, <1>2, EndRecordType, ContextQuiet
  <1>3. ASSUME UNCHANGED <<turn, epoch>> PROVE ContextKept'
    BY <1>3 DEF ContextKept, Open
  <1>4. ASSUME NEW w \in Worker, TurnStep(w) PROVE ContextKept'
    <2>1. CASE Begin(w)
      BY <1>1, <2>1, ContextBegin
    <2>2. ASSUME NEW how \in TurnEnd, SteeringFails(w) \/ Finish(w, how)
          PROVE  ContextKept'
      <3>1. PICK h \in TurnEnd : turn' = EndRecord(act[w].turn, h)
        BY <2>2 DEF SteeringFails, Finish, EndTurn, TurnEnd
      <3>2. epoch' = epoch /\ h \in How \ {"open"}
        BY <2>2 DEF SteeringFails, Finish, TurnEnd, How
      <3> QED  BY <1>2, <3>1, <3>2
    <2>3. ASSUME NEW S \in SUBSET queue, Drain(w, S) \/ Steer(w, S)
          PROVE  UNCHANGED <<turn, epoch>>
      BY <2>3 DEF Drain, Steer, durable
    <2>4. ASSUME NEW m \in Message, Acknowledge(w, m)
          PROVE  UNCHANGED <<turn, epoch>>
      BY <2>4 DEF Acknowledge
    <2>5. ASSUME NEW t \in Turn, RecordOpening(w, t)
          PROVE  UNCHANGED <<turn, epoch>>
      BY <2>5 DEF RecordOpening
    <2>6. ASSUME NEW asks \in BOOLEAN, ToolCall(w, asks)
          PROVE  UNCHANGED <<turn, epoch>>
      BY <2>6 DEF ToolCall
    <2>7. ASSUME Decline(w) \/ SetupFails(w) \/ OnReadyFails(w)
          PROVE  UNCHANGED <<turn, epoch>>
      BY <2>7 DEF Decline, SetupFails, OnReadyFails, durable
    <2> QED  BY <1>3, <1>4, <2>1, <2>2, <2>3, <2>4, <2>5, <2>6, <2>7
             DEF TurnStep, TurnEnd
  <1>5. ASSUME NEW t \in Turn, ResumeStep(t) PROVE ContextKept'
    <2>1. CASE Abandon(t)
      BY <1>2, <2>1 DEF Abandon, HostEnd, How
    <2>2. ASSUME ~Abandon(t) PROVE UNCHANGED <<turn, epoch>>
      BY <1>5, <2>2
      DEF ResumeStep, SkipTurn, Park, ResumeTurn, AnswerApproval, durable
    <2> QED  BY <1>3, <2>1, <2>2
  <1>6. ASSUME NEW S \in SUBSET Turn, NoteCleanShutdown(S) PROVE ContextKept'
    <2>1. \A t \in Turn : LET r == [turn[t] EXCEPT !.clean = TRUE]
                          IN  /\ r.how = turn[t].how
                              /\ r.worker = turn[t].worker
                              /\ r.epoch = turn[t].epoch
      BY <1>1 DEF TypeOK, TurnRecord
    <2>2. /\ epoch' = epoch
          /\ \A t \in Turn : turn'[t] \in {turn[t], [turn[t] EXCEPT !.clean = TRUE]}
      BY <1>6 DEF NoteCleanShutdown
    <2>3. \A t \in Turn : /\ turn'[t].how = turn[t].how
                         /\ turn'[t].worker = turn[t].worker
                         /\ turn'[t].epoch = turn[t].epoch
      BY <2>1, <2>2
    <2> QED  BY <2>2, <2>3 DEF ContextKept, Open
  <1>7. CASE Relinquish
    BY <1>2, <1>7 DEF Relinquish, How
  <1>8. ASSUME NEW w \in Worker, SwitchContext(w) PROVE ContextKept'
    <2>1. \A t \in Open : turn[t].worker # w
      BY <1>8 DEF SwitchContext, ContextBlocked
    <2>2. turn' = turn /\ \A v \in Worker \ {w} : epoch'[v] = epoch[v]
      BY <1>1, <1>8 DEF SwitchContext, TypeOK
    <2>3. \A t \in Open : turn[t].worker \in Worker
      BY DEF AccountedInv, PointersAreBegun, Open, Begun
    <2> QED  BY <2>1, <2>2, <2>3 DEF ContextKept, Open
  <1>9. ASSUME NEW m \in Message, NEW w \in Worker, NEW kind \in Kind,
               Admit(m, w, kind) \/ StartupNote(m, w, kind)
        PROVE  UNCHANGED <<turn, epoch>>
    BY <1>9 DEF Admit, StartupNote
  <1>10. ASSUME NEW m \in Message, Reconcile(m) PROVE UNCHANGED <<turn, epoch>>
    BY <1>10 DEF Reconcile
  <1>11. ASSUME NEW a \in Agent, RemoveAgent(a) PROVE UNCHANGED <<turn, epoch>>
    BY <1>11 DEF RemoveAgent
  <1>12. ASSUME \/ GiveUpNote \/ Crash \/ Boot \/ Reconciled \/ Recover
                \/ Started \/ UNCHANGED vars
         PROVE  UNCHANGED <<turn, epoch>>
    BY <1>12 DEF GiveUpNote, Crash, Boot, Reconciled, Recover, Started, vars,
                durable
  <1> QED  BY <1>3, <1>4, <1>5, <1>6, <1>7, <1>8, <1>9, <1>10, <1>11, <1>12
           DEF Next

\* An open turn is in the context its conversation is in, also one that is
\* parked on an approval or was interrupted by a crash.
THEOREM ContextIsKept == Spec => []ContextKept
  <1>1. Init => ContextKept
    BY DEF Init, ContextKept, Open, NoTurn
  <1>2. AccountedInv /\ ContextKept /\ [Next]_vars => ContextKept'
    BY ContextStep
  <1> QED  BY <1>1, <1>2, CustodyInvariant, PTL DEF Spec
=============================================================================
