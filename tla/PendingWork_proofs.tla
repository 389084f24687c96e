-------------------------- MODULE PendingWork_proofs --------------------------
(***************************************************************************)
(* Proofs about PendingWork, for any number of pieces of work and items,   *)
(* any mix of kinds, and any number of crashes, pauses and failed appends: *)
(* what is closed has been told, what runs is recorded, forks end with     *)
(* their process, and what is said of a plan is true.  The invariant       *)
(* speaks of one piece at a time, and each of its parts is proved by       *)
(* itself, action by action.                                               *)
(***************************************************************************)
EXTENDS PendingWork, FiniteSetTheorems, TLAPS

----------------------------------------------------------------------------
(* Types.                                                                  *)

Note == {"findings", "result", "dropped", "lost", "did not run", "nothing ran"}
Place == {"idle", "prepared", "waiting", "landed", "late", "reporting", "calling", "called"}
Ending == {"no", "unlisted", "settling", "telling"}
JobState == {"none", "running", "other", "killed", "stopped", "exited", "interrupted"}
RecState == {"none", "open", "admitted", "closed"}

LEMMA TypeInit == Init => TypeOK
<1>. SUFFICES ASSUME Init PROVE TypeOK
    OBVIOUS
<1>1. 0 \in 0..MaxCrashes /\ 0 \in 0..MaxLost /\ 0 \in 0..MaxPauses /\ 0 \in 0..1
    BY PendingConstants DEF PendingConstants
<1>2. born \in [Work -> 0..MaxCrashes] /\ runs \in [Work -> 0..1]
    BY <1>1 DEF Init
<1>3. taken \in [Work -> [Item -> 0..1]]
    BY <1>1 DEF Init
<1>. QED
    BY <1>1, <1>2, <1>3 DEF Init, TypeOK

\* An append that fails is counted, up to the bound.
LEMMA LostType ==
  ASSUME NEW n \in Nat, lost \in 0..MaxLost, LoseAppends(n)
  PROVE  lost' \in 0..MaxLost
<1>1. MaxLost \in Nat /\ lost \in Nat
    BY PendingConstants DEF PendingConstants
<1>. QED
    BY <1>1 DEF LoseAppends

LEMMA MissedType ==
  ASSUME NEW ok \in BOOLEAN
  PROVE  Missed(ok) \in Nat
  BY DEF Missed

LEMMA SaidType ==
  ASSUME said \in [Work -> SUBSET Note], NEW w \in Work, NEW what \in Note
  PROVE  [said EXCEPT ![w] = @ \cup {what}] \in [Work -> SUBSET Note]
  OBVIOUS

LEMMA DeliverLost ==
  ASSUME lost \in 0..MaxLost, NEW w, NEW what, NEW d \in BOOLEAN, NEW x \in BOOLEAN,
         Deliver(w, what, d, x)
  PROVE  lost' \in 0..MaxLost
  BY LostType, MissedType DEF Deliver

LEMMA DeliverSaid ==
  ASSUME said \in [Work -> SUBSET Note], NEW w \in Work, NEW what \in Note, NEW d, NEW x,
         Deliver(w, what, d, x)
  PROVE  said' \in [Work -> SUBSET Note]
  BY SaidType DEF Deliver

LEMMA DeliverRec ==
  ASSUME rec \in [Work -> RecState], NEW w \in Work, NEW what, NEW d, NEW x,
         Deliver(w, what, d, x)
  PROVE  rec' \in [Work -> RecState]
  BY DEF Deliver, Put, RecState

LEMMA StartedType ==
  ASSUME runs \in [Work -> 0..1], NEW w \in Work
  PROVE  Started(w) \in [Work -> 0..1]
  BY DEF Started, Put

LEMMA TypeNext == TypeOK /\ [Next]_vars => TypeOK'
<1>. SUFFICES ASSUME TypeOK, [Next]_vars PROVE TypeOK'
    OBVIOUS
<1>lost. lost \in 0..MaxLost
    BY DEF TypeOK
<1>said. said \in [Work -> SUBSET Note]
    BY DEF TypeOK, Note
<1>rec. rec \in [Work -> RecState]
    BY DEF TypeOK, RecState
<1>runs. runs \in [Work -> 0..1]
    BY DEF TypeOK
<1>taken. taken \in [Work -> [Item -> 0..1]]
    BY DEF TypeOK
<1>born. born \in [Work -> 0..MaxCrashes] /\ crashes \in 0..MaxCrashes
    BY DEF TypeOK
<1>ran. ran \in [Work -> SUBSET Item] /\ answers \in [Work -> SUBSET Item]
    BY DEF TypeOK
<1>pauses. pauses \in 0..MaxPauses
    BY DEF TypeOK
<1>doing. doing \in [Work -> Place]
    BY DEF TypeOK, Place
<1>job. job \in [Work -> JobState]
    BY DEF TypeOK, JobState
<1>ending. ending \in [Work -> Ending]
    BY DEF TypeOK, Ending
<1>1. ASSUME NEW B \in SUBSET Of("fork"), ForkPrepare(B) PROVE TypeOK'
    BY <1>1 DEF ForkPrepare, TypeOK, disk, memory, start, rest, Of
<1>2. ASSUME NEW B \in SUBSET Of("fork"), NEW miss \in SUBSET B, ForkRefused(B, miss) PROVE TypeOK'
  <2>0. IsFiniteSet(miss)
      BY PendingConstants, FS_Subset DEF PendingConstants, Of
  <2>1. rec' \in [Work -> RecState]
      BY <1>2, <1>rec DEF ForkRefused, Put, RecState
  <2>2. lost' \in 0..MaxLost
      BY <1>2, <1>lost, <2>0, FS_CardinalityType, LostType DEF ForkRefused
  <2>. QED
      BY <1>2, <2>1, <2>2 DEF ForkRefused, RecState, TypeOK, disk, memory,
         start, rest, Of
<1>3. ASSUME NEW miss \in SUBSET Work, JoinEnds(miss) PROVE TypeOK'
  <2>0. IsFiniteSet(miss)
      BY PendingConstants, FS_Subset DEF PendingConstants, Of
  <2>1. lost' \in 0..MaxLost
      BY <1>3, <1>lost, <2>0, FS_CardinalityType, LostType DEF JoinEnds
  <2>2. said' \in [Work -> SUBSET Note]
      BY <1>3, <1>said DEF JoinEnds, Note
  <2>3. rec' \in [Work -> RecState]
      BY <1>3, <1>rec DEF JoinEnds, Put, RecState, InCall
  <2>. QED
      BY <1>3, <2>1, <2>2, <2>3 DEF JoinEnds, InCall, Note, RecState,
         TypeOK, disk, memory, start, rest, Of
<1>4. CASE Detach
    BY <1>4 DEF Detach, InCall, TypeOK, disk, memory, start, rest, Of
<1>5. ASSUME NEW w \in Work, NEW s \in BOOLEAN, NEW n \in BOOLEAN, Admit(w, s, n) PROVE TypeOK'
  <2>1. lost' \in 0..MaxLost
      BY <1>5, <1>lost, LostType, MissedType DEF Admit
  <2>2. born' \in [Work -> 0..MaxCrashes]
      BY <1>5, <1>born, PendingConstants DEF Admit, PendingConstants, Put
  <2>3. rec' \in [Work -> RecState]
      BY <1>5, <1>rec DEF Admit, Put, RecState, Admitted
  <2>4. child' \in [Work -> {"none", "queued", "running", "ended"}]
      BY ZenonT(60), <1>5, TypeOK DEF Admit, TypeOK, Put, disk
  <2>5. doing' \in [Work -> Place]
      BY <1>5, <1>doing DEF Admit, Put, Place
  <2>. QED
      BY <1>5, <2>1, <2>2, <2>3, <2>4, <2>5 DEF Admit, RecState, Place,
         TypeOK, disk, memory, start, rest, Put
<1>6. ASSUME NEW w \in Work, ChildBegin(w) PROVE TypeOK'
    BY <1>6 DEF ChildBegin, TypeOK, disk, memory, start, rest, Put
<1>7. ASSUME NEW w \in Work, ChildEnd(w) PROVE TypeOK'
    BY <1>7 DEF ChildEnd, Landing, TypeOK, disk, memory, start, rest, Put
<1>8. ASSUME NEW w \in Work, ChildPutOff(w) PROVE TypeOK'
    BY <1>8 DEF ChildPutOff, Landing, TypeOK, disk, memory, start, rest, Put
<1>9. ASSUME NEW w \in Work, NEW d \in BOOLEAN, NEW x \in BOOLEAN, LateReport(w, d, x) PROVE TypeOK'
  <2>1. lost' \in 0..MaxLost
      BY <1>9, <1>lost, DeliverLost DEF LateReport
  <2>2. said' \in [Work -> SUBSET Note]
      BY <1>9, <1>said, DeliverSaid DEF LateReport, Note
  <2>3. rec' \in [Work -> RecState]
      BY <1>9, <1>rec, DeliverRec DEF LateReport
  <2>. QED
      BY <1>9, <2>1, <2>2, <2>3 DEF LateReport, Note, RecState, TypeOK,
         disk, memory, start, rest, Put
<1>10. ASSUME NEW w \in Work, ReadNote(w) PROVE TypeOK'
    BY <1>10 DEF ReadNote, TypeOK, disk, memory, start, rest, Put
<1>11. ASSUME NEW w \in Work, NEW r \in BOOLEAN, Confirm(w, r) PROVE TypeOK'
  <2>1. lost' \in 0..MaxLost
      BY <1>11, <1>lost, LostType, MissedType DEF Confirm
  <2>2. rec' \in [Work -> RecState]
      BY <1>11, <1>rec DEF Confirm, Put, RecState
  <2>. QED
      BY <1>11, <2>1, <2>2 DEF Confirm, RecState, TypeOK, disk, memory,
         start, rest, Put
<1>12. ASSUME NEW w \in Work, AnswerPause(w) PROVE TypeOK'
    BY <1>12 DEF AnswerPause, TypeOK, disk, memory, start, rest, Put
<1>13. ASSUME NEW w \in Work, Callback(w) PROVE TypeOK'
    BY <1>13 DEF Callback, TypeOK, disk, memory, start, rest, Put
<1>14. ASSUME NEW w \in Work, NEW r \in BOOLEAN, NEW x \in BOOLEAN, FollowUp(w, r, x) PROVE TypeOK'
  <2>1. lost' \in 0..MaxLost
      BY <1>14, <1>lost, LostType, MissedType DEF FollowUp
  <2>2. rec' \in [Work -> RecState]
      BY <1>14, <1>rec DEF FollowUp, Put, RecState
  <2>. QED
      BY ZenonT(60), <1>14, <2>1, <2>2 DEF FollowUp, RecState, TypeOK, disk, memory,
         start, rest, Put
<1>15. ASSUME NEW w \in Work, NEW d \in BOOLEAN, NEW x \in BOOLEAN, DeliverDue(w, d, x)
       PROVE TypeOK'
  <2>1. lost' \in 0..MaxLost
      BY <1>15, <1>lost, LostType, MissedType DEF DeliverDue
  <2>2. said' \in [Work -> SUBSET Note]
      BY <1>15, <1>said, SaidType DEF DeliverDue, Note
  <2>. QED
      BY <1>15, <2>1, <2>2 DEF DeliverDue, Note, TypeOK, disk, memory,
         start, rest, Put
<1>16. ASSUME NEW w \in Work, NEW n \in BOOLEAN, Submit(w, n) PROVE TypeOK'
  <2>1. lost' \in 0..MaxLost
      BY <1>16, <1>lost, LostType, MissedType DEF Submit
  <2>2. rec' \in [Work -> RecState]
      BY <1>16, <1>rec DEF Submit, Put, RecState, Admitted
  <2>3. runs' \in [Work -> 0..1]
      BY <1>16, <1>runs, StartedType DEF Submit
  <2>. QED
      BY <1>16, <2>1, <2>2, <2>3 DEF Submit, RecState, TypeOK, disk, memory,
         start, rest
<1>17. ASSUME NEW w \in Work, NEW a \in BOOLEAN, NEW d \in BOOLEAN, NEW x \in BOOLEAN, AnswerPlan(w, a, d, x)
       PROVE TypeOK'
  <2>1. lost' \in 0..MaxLost
      BY <1>17, <1>lost, DeliverLost, LostType, MissedType DEF AnswerPlan
  <2>2. said' \in [Work -> SUBSET Note]
      BY <1>17, <1>said, DeliverSaid DEF AnswerPlan, Note
  <2>3. rec' \in [Work -> RecState]
      BY <1>17, <1>rec, DeliverRec DEF AnswerPlan, Put, RecState, Admitted
  <2>4. runs' \in [Work -> 0..1]
      BY <1>17, <1>runs, StartedType DEF AnswerPlan
  <2>. QED
      BY <1>17, <2>1, <2>2, <2>3, <2>4 DEF AnswerPlan, Note, RecState,
         TypeOK, disk, memory, start, rest, Put
<1>18. ASSUME NEW w \in Work, NEW i \in Item, TakeItem(w, i) PROVE TypeOK'
  <2>1. taken' \in [Work -> [Item -> 0..1]]
    <3>1. taken[w][i] \in 0..1 /\ runs[w] \in 0..1
        BY <1>taken, <1>runs
    <3>2. taken[w][i] = 0
        BY <1>18, <3>1 DEF TakeItem
    <3>3. taken' = [taken EXCEPT ![w] = [taken[w] EXCEPT ![i] = 1]]
        BY <1>18, <3>2, <1>taken DEF TakeItem
    <3>. QED
        BY <3>3, <1>taken
  <2>2. ran' \in [Work -> SUBSET Item]
      BY <1>18, <1>ran DEF TakeItem, Missing, disk
  <2>. QED
      BY <1>18, <2>1, <2>2 DEF TakeItem, TypeOK, disk, memory, start, rest
<1>19. ASSUME NEW w \in Work, NEW i \in Item, NEW k \in BOOLEAN, KeepAnswer(w, i, k) PROVE TypeOK'
  <2>1. lost' \in 0..MaxLost
      BY <1>19, <1>lost, LostType, MissedType DEF KeepAnswer
  <2>2. answers' \in [Work -> SUBSET Item]
      BY <1>19, <1>ran DEF KeepAnswer
  <2>3. runs' \in [Work -> 0..1]
      BY <1>19, <1>runs DEF KeepAnswer, Put
  <2>. QED
      BY <1>19, <2>1, <2>2, <2>3 DEF KeepAnswer, TypeOK, disk, memory,
         start, rest
<1>20. ASSUME NEW w \in Work, NEW d \in BOOLEAN, NEW x \in BOOLEAN, PlanDone(w, d, x) PROVE TypeOK'
  <2>1. lost' \in 0..MaxLost
      BY <1>20, <1>lost, DeliverLost DEF PlanDone
  <2>2. said' \in [Work -> SUBSET Note]
      BY <1>20, <1>said, DeliverSaid DEF PlanDone, Note
  <2>3. rec' \in [Work -> RecState]
      BY <1>20, <1>rec, DeliverRec DEF PlanDone
  <2>4. runs' \in [Work -> 0..1]
      BY <1>20, <1>runs DEF PlanDone, Put
  <2>. QED
      BY <1>20, <2>1, <2>2, <2>3, <2>4 DEF PlanDone, Note, RecState, TypeOK,
         disk, memory, start, rest
<1>21. ASSUME NEW w \in Work, JobStart(w) PROVE TypeOK'
    BY <1>21 DEF JobStart, TypeOK, disk, memory, start, rest, Put
<1>22. ASSUME NEW w \in Work, NEW d \in BOOLEAN, NEW x \in BOOLEAN, JobDone(w, d, x) PROVE TypeOK'
  <2>1. lost' \in 0..MaxLost
      BY <1>22, <1>lost, DeliverLost DEF JobDone
  <2>2. said' \in [Work -> SUBSET Note]
      BY <1>22, <1>said, DeliverSaid DEF JobDone, Note
  <2>3. rec' \in [Work -> RecState]
      BY <1>22, <1>rec, DeliverRec DEF JobDone
  <2>. QED
      BY <1>22, <2>1, <2>2, <2>3 DEF JobDone, Note, RecState, TypeOK, disk,
         memory, start, rest, Put
<1>23. ASSUME NEW w \in Work, DelegatePrepare(w) PROVE TypeOK'
    BY <1>23 DEF DelegatePrepare, TypeOK, disk, memory, start, rest, Put
<1>24. ASSUME NEW w \in Work, NEW n \in BOOLEAN, DelegateStart(w, n) PROVE TypeOK'
  <2>1. lost' \in 0..MaxLost
      BY <1>24, <1>lost, LostType, MissedType DEF DelegateStart
  <2>2. rec' \in [Work -> RecState]
      BY <1>24, <1>rec DEF DelegateStart, Put, RecState, Admitted
  <2>. QED
      BY <1>24, <2>1, <2>2 DEF DelegateStart, RecState, TypeOK, disk,
         memory, start, rest, Put
<1>25. ASSUME NEW w \in Work, NEW how \in {"exited", "interrupted"}, JobEnds(w, how) PROVE TypeOK'
    BY <1>25 DEF JobEnds, TypeOK, disk, memory, start, rest, Put
<1>26. ASSUME NEW w \in Work, Observe(w) PROVE TypeOK'
    BY <1>26 DEF Observe, TypeOK, disk, memory, start, rest, Put
<1>27. ASSUME NEW w \in Work, NEW x \in BOOLEAN, Settle(w, x) PROVE TypeOK'
  <2>1. lost' \in 0..MaxLost
      BY <1>27, <1>lost, LostType, MissedType DEF Settle
  <2>2. rec' \in [Work -> RecState]
      BY <1>27, <1>rec DEF Settle, Put, RecState
  <2>. QED
      BY <1>27, <2>1, <2>2 DEF Settle, RecState, TypeOK, disk, memory,
         start, rest, Put
<1>28. ASSUME NEW w \in Work, NEW d \in BOOLEAN, TellEnded(w, d) PROVE TypeOK'
  <2>1. lost' \in 0..MaxLost
      BY <1>28, <1>lost, LostType, MissedType DEF TellEnded
  <2>2. said' \in [Work -> SUBSET Note]
      BY <1>28, <1>said, SaidType DEF TellEnded, Note
  <2>. QED
      BY <1>28, <2>1, <2>2 DEF TellEnded, Note, TypeOK, disk, memory, start,
         rest, Put
<1>29. ASSUME NEW w \in Work, NEW d \in BOOLEAN, NEW x \in BOOLEAN, SweepFork(w, d, x) PROVE TypeOK'
  <2>1. lost' \in 0..MaxLost
      BY <1>29, <1>lost, DeliverLost, LostType, MissedType DEF SweepFork
  <2>2. said' \in [Work -> SUBSET Note]
      BY <1>29, <1>said, DeliverSaid DEF SweepFork, Note
  <2>3. rec' \in [Work -> RecState]
      BY <1>29, <1>rec, DeliverRec DEF SweepFork, Put, RecState
  <2>4. queued' \in [Work -> BOOLEAN]
      BY ZenonT(60), <1>29, TypeOK DEF SweepFork, TypeOK, Put, disk
  <2>. QED
      BY <1>29, <2>1, <2>2, <2>3, <2>4 DEF SweepFork, Note, RecState,
         TypeOK, disk, memory, start, rest, Put
<1>30. ASSUME NEW w \in Work, NEW d \in BOOLEAN, NEW x \in BOOLEAN, SweepDelegate(w, d, x)
       PROVE TypeOK'
  <2>1. lost' \in 0..MaxLost
      BY <1>30, <1>lost, DeliverLost DEF SweepDelegate
  <2>2. said' \in [Work -> SUBSET Note]
      BY <1>30, <1>said, DeliverSaid DEF SweepDelegate, Note
  <2>3. rec' \in [Work -> RecState]
      BY <1>30, <1>rec, DeliverRec DEF SweepDelegate
  <2>4. ending' \in [Work -> Ending]
      BY <1>30, <1>ending DEF SweepDelegate, Put, Ending
  <2>. QED
      BY <1>30, <2>1, <2>2, <2>3, <2>4 DEF SweepDelegate, Note, RecState,
         Ending, TypeOK, disk, memory, start, rest, Put
<1>31. ASSUME NEW w \in Work, NEW d \in BOOLEAN, NEW x \in BOOLEAN, RecoverJob(w, d, x)
       PROVE TypeOK'
  <2>1. lost' \in 0..MaxLost
      BY <1>31, <1>lost, DeliverLost DEF RecoverJob, Recovering
  <2>2. said' \in [Work -> SUBSET Note]
      BY <1>31, <1>said, DeliverSaid DEF RecoverJob, Recovering, Note
  <2>3. rec' \in [Work -> RecState]
      BY <1>31, <1>rec, DeliverRec DEF RecoverJob, Recovering
  <2>4. job' \in [Work -> JobState]
      BY <1>31, <1>job DEF RecoverJob, Put, JobState
  <2>. QED
      BY <1>31, <2>1, <2>2, <2>3, <2>4 DEF RecoverJob, Recovering, Note,
         RecState, JobState, TypeOK, disk, memory, start, rest, Put
<1>32. ASSUME NEW w \in Work, NEW d \in BOOLEAN, NEW x \in BOOLEAN, RecoverPause(w, d, x)
       PROVE TypeOK'
  <2>1. lost' \in 0..MaxLost
      BY <1>32, <1>lost, DeliverLost DEF RecoverPause, Recovering
  <2>2. said' \in [Work -> SUBSET Note]
      BY <1>32, <1>said, DeliverSaid DEF RecoverPause, Recovering, Note
  <2>3. rec' \in [Work -> RecState]
      BY <1>32, <1>rec, DeliverRec DEF RecoverPause, Recovering
  <2>. QED
      BY <1>32, <2>1, <2>2, <2>3 DEF RecoverPause, Recovering, Note,
         RecState, TypeOK, disk, memory, start, rest
<1>33. ASSUME NEW w \in Work, NEW d \in BOOLEAN, NEW x \in BOOLEAN, RecoverPlan(w, d, x)
       PROVE TypeOK'
  <2>1. lost' \in 0..MaxLost
      BY <1>33, <1>lost, DeliverLost DEF RecoverPlan, Recovering
  <2>2. said' \in [Work -> SUBSET Note]
      BY <1>33, <1>said, DeliverSaid DEF RecoverPlan, Recovering, Note
  <2>3. rec' \in [Work -> RecState]
      BY <1>33, <1>rec, DeliverRec DEF RecoverPlan, Recovering
  <2>4. runs' \in [Work -> 0..1]
      BY <1>33, <1>runs, StartedType DEF RecoverPlan, Recovering
  <2>. QED
      BY <1>33, <2>1, <2>2, <2>3, <2>4 DEF RecoverPlan, Recovering, Note,
         RecState, TypeOK, disk, memory, start, rest
<1>34. CASE SetPause
  <2>1. pauses' \in 0..MaxPauses
      BY <1>34, <1>pauses, PendingConstants DEF SetPause, PendingConstants
  <2>. QED
      BY <1>34, <2>1 DEF SetPause, TypeOK, disk, memory, start, rest
<1>35. CASE Crash
  <2>1. crashes' \in 0..MaxCrashes
      BY <1>35, <1>born, PendingConstants DEF Crash, PendingConstants
  <2>2. runs' \in [Work -> 0..1]
      BY <1>35, <1>runs DEF Crash, Put
  <2>3. taken' \in [Work -> [Item -> 0..1]]
      BY <1>35, <1>taken DEF Crash
  <2>. QED
      BY <1>35, <2>1, <2>2, <2>3 DEF Crash, TypeOK, disk, memory, start,
         rest
<1>36. CASE Restart
    BY <1>36 DEF Restart, Cancelled, Swept, TypeOK, disk, memory, start,
       rest, Of
<1>37. CASE SweepDone
    BY <1>37 DEF SweepDone, TypeOK, disk, memory, start, rest, Of
<1>38. CASE RecoverDone
    BY <1>38 DEF RecoverDone, TypeOK, disk, memory, start, rest
<1>39. CASE UNCHANGED vars
    BY <1>39 DEF vars, disk, memory, start, rest, TypeOK
<1>40. ASSUME NEW w \in Work, BoxStarts(w) PROVE TypeOK'
  <2>1. job' \in [Work -> JobState]
      BY <1>40, <1>job DEF BoxStarts, Put, JobState
  <2>. QED
      BY <1>40, <2>1 DEF BoxStarts, JobState, TypeOK, disk, memory, start, rest
<1>41. ASSUME NEW w \in Work, Kill(w) PROVE TypeOK'
    BY <1>41 DEF Kill, TypeOK, disk, memory, start, rest, Put
<1>. QED
    BY <1>1, <1>2, <1>3, <1>4, <1>5, <1>6, <1>7, <1>8, <1>9, <1>10, <1>11, <1>12, <1>13,
       <1>14, <1>15, <1>16, <1>17, <1>18, <1>19, <1>20, <1>21, <1>22, <1>23, <1>24, <1>25,
       <1>26, <1>27, <1>28, <1>29, <1>30, <1>31, <1>32, <1>33, <1>34, <1>35, <1>36, <1>37,
       <1>38, <1>39, <1>40, <1>41 DEF Next, ForkStep, PauseStep, PlanStep, JobStep, DelegateStep,
       StartStep

----------------------------------------------------------------------------
(* Which piece a place in the code, a run or a job belongs to.             *)

Placed(w) ==
    /\ doing[w] \in {"prepared", "waiting", "landed", "late", "reporting"} =>
           kind[w] = "fork" \/ (kind[w] = "delegate" /\ doing[w] = "prepared")
    /\ doing[w] \in {"calling", "called"} => kind[w] = "pause"
    /\ ending[w] # "no" => kind[w] = "delegate"
    /\ runs[w] > 0 \/ ran[w] # {} \/ (\E i \in Item : taken[w][i] > 0) => kind[w] = "plan"
    /\ child[w] # "none" => kind[w] = "fork"
    /\ result[w] # "none" => kind[w] = "pause"
    /\ job[w] # "none" => kind[w] \in {"job", "delegate"}

LEMMA PlacedNext ==
  ASSUME TypeOK, NEW v \in Work, Placed(v), [Next]_vars
  PROVE  Placed(v)'
<1>t. /\ doing \in [Work -> Place] /\ runs \in [Work -> 0..1] /\ taken \in [Work -> [Item -> 0..1]]
     /\ ran \in [Work -> SUBSET Item]
     /\ child \in [Work -> {"none", "queued", "running", "ended"}]
     /\ result \in [Work -> {"none", "open", "closed"}]
     /\ job \in [Work -> JobState] /\ ending \in [Work -> Ending]
    BY DEF TypeOK, Place, JobState, Ending
<1>. USE DEF Placed, Put, Of, disk, memory, start, rest
<1>1. ASSUME NEW B \in SUBSET Of("fork"), ForkPrepare(B) PROVE Placed(v)'
    BY <1>1, <1>t DEF ForkPrepare
<1>2. ASSUME NEW B \in SUBSET Of("fork"), NEW miss \in SUBSET B, ForkRefused(B, miss)
      PROVE Placed(v)'
    BY <1>2, <1>t DEF ForkRefused
<1>3. ASSUME NEW miss \in SUBSET Work, JoinEnds(miss) PROVE Placed(v)'
    BY <1>3, <1>t DEF JoinEnds, InCall
<1>4. CASE Detach
    BY <1>4, <1>t DEF Detach, InCall
<1>5. ASSUME NEW w \in Work, NEW s \in BOOLEAN, NEW n \in BOOLEAN, Admit(w, s, n) PROVE Placed(v)'
    BY <1>5, <1>t DEF Admit
<1>6. ASSUME NEW w \in Work, ChildBegin(w) PROVE Placed(v)'
    BY <1>6, <1>t DEF ChildBegin
<1>7. ASSUME NEW w \in Work, ChildEnd(w) PROVE Placed(v)'
    BY <1>7, <1>t DEF ChildEnd, Landing
<1>8. ASSUME NEW w \in Work, ChildPutOff(w) PROVE Placed(v)'
    BY <1>8, <1>t DEF ChildPutOff, Landing
<1>9. ASSUME NEW w \in Work, NEW d \in BOOLEAN, NEW x \in BOOLEAN, LateReport(w, d, x)
      PROVE Placed(v)'
    BY <1>9, <1>t DEF LateReport
<1>10. ASSUME NEW w \in Work, ReadNote(w) PROVE Placed(v)'
    BY <1>10, <1>t DEF ReadNote
<1>11. ASSUME NEW w \in Work, NEW r \in BOOLEAN, Confirm(w, r) PROVE Placed(v)'
    BY <1>11, <1>t DEF Confirm
<1>12. ASSUME NEW w \in Work, AnswerPause(w) PROVE Placed(v)'
    BY <1>12, <1>t DEF AnswerPause
<1>13. ASSUME NEW w \in Work, Callback(w) PROVE Placed(v)'
    BY <1>13, <1>t DEF Callback
<1>14. ASSUME NEW w \in Work, NEW r \in BOOLEAN, NEW x \in BOOLEAN, FollowUp(w, r, x)
       PROVE Placed(v)'
    BY <1>14, <1>t DEF FollowUp
<1>15. ASSUME NEW w \in Work, NEW d \in BOOLEAN, NEW x \in BOOLEAN, DeliverDue(w, d, x)
       PROVE Placed(v)'
    BY <1>15, <1>t DEF DeliverDue
<1>16. ASSUME NEW w \in Work, NEW n \in BOOLEAN, Submit(w, n) PROVE Placed(v)'
    BY <1>16, <1>t DEF Submit, Started
<1>17. ASSUME NEW w \in Work, NEW a \in BOOLEAN, NEW d \in BOOLEAN, NEW x \in BOOLEAN, AnswerPlan(w, a, d, x)
       PROVE Placed(v)'
    BY <1>17, <1>t DEF AnswerPlan, Started
<1>18. ASSUME NEW w \in Work, NEW i \in Item, TakeItem(w, i) PROVE Placed(v)'
  <2>1. CASE v = w
    <3>1. taken[w][i] \in 0..1 /\ runs[w] \in 0..1
        BY <1>t
    <3>2. runs[w] > 0 \/ \E j \in Item : taken[w][j] > 0
        BY <1>18, <3>1 DEF TakeItem, WorkersGoOn
    <3>3. kind[v] = "plan"
        BY <2>1, <3>2
    <3>. QED
        BY <1>18, <3>3 DEF TakeItem
  <2>2. CASE v # w
    <3>1. taken'[v] = taken[v] /\ ran'[v] = ran[v]
        BY <1>18, <2>2, <1>t DEF TakeItem
    <3>. QED
        BY <1>18, <3>1 DEF TakeItem
  <2>. QED
      BY <2>1, <2>2
<1>19. ASSUME NEW w \in Work, NEW i \in Item, NEW k \in BOOLEAN, KeepAnswer(w, i, k)
       PROVE Placed(v)'
    BY <1>19, <1>t DEF KeepAnswer
<1>20. ASSUME NEW w \in Work, NEW d \in BOOLEAN, NEW x \in BOOLEAN, PlanDone(w, d, x)
       PROVE Placed(v)'
    BY <1>20, <1>t DEF PlanDone
<1>21. ASSUME NEW w \in Work, JobStart(w) PROVE Placed(v)'
    BY <1>21, <1>t DEF JobStart
<1>22. ASSUME NEW w \in Work, NEW d \in BOOLEAN, NEW x \in BOOLEAN, JobDone(w, d, x)
       PROVE Placed(v)'
    BY <1>22, <1>t DEF JobDone
<1>23. ASSUME NEW w \in Work, DelegatePrepare(w) PROVE Placed(v)'
    BY <1>23, <1>t DEF DelegatePrepare
<1>24. ASSUME NEW w \in Work, NEW n \in BOOLEAN, DelegateStart(w, n) PROVE Placed(v)'
    BY <1>24, <1>t DEF DelegateStart
<1>25. ASSUME NEW w \in Work, NEW how \in {"exited", "interrupted"}, JobEnds(w, how)
       PROVE Placed(v)'
    BY <1>25, <1>t DEF JobEnds
<1>26. ASSUME NEW w \in Work, Observe(w) PROVE Placed(v)'
    BY <1>26, <1>t DEF Observe
<1>27. ASSUME NEW w \in Work, NEW x \in BOOLEAN, Settle(w, x) PROVE Placed(v)'
    BY <1>27, <1>t DEF Settle
<1>28. ASSUME NEW w \in Work, NEW d \in BOOLEAN, TellEnded(w, d) PROVE Placed(v)'
    BY <1>28, <1>t DEF TellEnded
<1>29. ASSUME NEW w \in Work, NEW d \in BOOLEAN, NEW x \in BOOLEAN, SweepFork(w, d, x)
       PROVE Placed(v)'
    BY <1>29, <1>t DEF SweepFork
<1>30. ASSUME NEW w \in Work, NEW d \in BOOLEAN, NEW x \in BOOLEAN, SweepDelegate(w, d, x)
       PROVE Placed(v)'
    BY <1>30, <1>t DEF SweepDelegate, Gone
<1>31. ASSUME NEW w \in Work, NEW d \in BOOLEAN, NEW x \in BOOLEAN, RecoverJob(w, d, x)
       PROVE Placed(v)'
    BY <1>31, <1>t DEF RecoverJob, Recovering
<1>32. ASSUME NEW w \in Work, NEW d \in BOOLEAN, NEW x \in BOOLEAN, RecoverPause(w, d, x)
       PROVE Placed(v)'
    BY <1>32, <1>t DEF RecoverPause, Recovering
<1>33. ASSUME NEW w \in Work, NEW d \in BOOLEAN, NEW x \in BOOLEAN, RecoverPlan(w, d, x)
       PROVE Placed(v)'
    BY <1>33, <1>t DEF RecoverPlan, Recovering, StartedPlan, Started
<1>34. CASE SetPause
    BY <1>34, <1>t DEF SetPause
<1>35. CASE Crash
    BY <1>35, <1>t DEF Crash
<1>36. CASE Restart
    BY <1>36, <1>t DEF Restart, Cancelled, Swept
<1>37. CASE SweepDone
    BY <1>37, <1>t DEF SweepDone
<1>38. CASE RecoverDone
    BY <1>38, <1>t DEF RecoverDone
<1>39. CASE UNCHANGED vars
    BY <1>39 DEF vars
<1>40. ASSUME NEW w \in Work, BoxStarts(w) PROVE Placed(v)'
    BY <1>40, <1>t DEF BoxStarts
<1>41. ASSUME NEW w \in Work, Kill(w) PROVE Placed(v)'
    BY <1>41, <1>t DEF Kill
<1>. QED
    BY ZenonT(60), <1>1, <1>2, <1>3, <1>4, <1>5, <1>6, <1>7, <1>8, <1>9, <1>10, <1>11,
       <1>12, <1>13, <1>14, <1>15, <1>16, <1>17, <1>18, <1>19, <1>20, <1>21,
       <1>22, <1>23, <1>24, <1>25, <1>26, <1>27, <1>28, <1>29, <1>30, <1>31,
       <1>32, <1>33, <1>34, <1>35, <1>36, <1>37, <1>38, <1>39, <1>40, <1>41 DEF Next,
       ForkStep, PauseStep, PlanStep, JobStep, DelegateStep, StartStep

----------------------------------------------------------------------------
(* Nothing begins before its record, and no record of what began is closed *)
(* before the agent has heard, or will.                                    *)

Unbegun(w) ==
    rec[w] = "none" =>
        /\ child[w] = "none" /\ result[w] = "none" /\ job[w] = "none"
        /\ doing[w] \notin {"calling", "called", "prepared"} /\ w \notin todo
        /\ ran[w] = {} /\ runs[w] = 0 /\ \A i \in Item : taken[w][i] = 0

Heard(w) ==
    /\ queued[w] => said[w] # {}
    /\ result[w] = "closed" => said[w] # {}
    /\ rec[w] = "closed" =>
           \/ said[w] # {} \/ result[w] = "open"
           \/ kind[w] = "delegate" \/ (kind[w] = "fork" /\ child[w] = "none")

\* A note and the end of its record: a record it closes is one whose agent was told.
LEMMA DeliverTold ==
  ASSUME rec \in [Work -> RecState], said \in [Work -> SUBSET Note], NEW w \in Work, NEW what,
         NEW d, NEW x, Deliver(w, what, d, x), NEW v \in Work, rec'[v] = "closed"
  PROVE  said'[v] # {} \/ rec[v] = "closed"
  BY DEF Deliver, Closes, Put

LEMMA DeliverKeeps ==
  ASSUME said \in [Work -> SUBSET Note], NEW w \in Work, NEW what,
         NEW d, NEW x, Deliver(w, what, d, x), NEW v \in Work
  PROVE  said[v] # {} => said'[v] # {}
  BY DEF Deliver

LEMMA UnbegunNext ==
  ASSUME TypeOK, NEW v \in Work, Unbegun(v), Placed(v), [Next]_vars
  PROVE  Unbegun(v)'
<1>t. /\ rec \in [Work -> RecState]
     /\ child \in [Work -> {"none", "queued", "running", "ended"}]
     /\ result \in [Work -> {"none", "open", "closed"}]
     /\ job \in [Work -> JobState]
     /\ ran \in [Work -> SUBSET Item]
     /\ runs \in [Work -> 0..1]
     /\ taken \in [Work -> [Item -> 0..1]]
     /\ doing \in [Work -> Place]
    BY DEF TypeOK, Place, RecState, Note, JobState
<1>. USE DEF Unbegun, Placed, IsOpen, Put, Of, disk, memory, start, rest
<1>1. ASSUME NEW B \in SUBSET Of("fork"), ForkPrepare(B) PROVE Unbegun(v)'
    BY <1>1, <1>t DEF ForkPrepare
<1>2. ASSUME NEW B \in SUBSET Of("fork"), NEW miss \in SUBSET B, ForkRefused(B, miss)
      PROVE Unbegun(v)'
    BY <1>2, <1>t DEF ForkRefused
<1>3. ASSUME NEW miss \in SUBSET Work, JoinEnds(miss) PROVE Unbegun(v)'
    BY <1>3, <1>t DEF JoinEnds, InCall
<1>4. CASE Detach
    BY <1>4, <1>t DEF Detach, InCall
<1>5. ASSUME NEW w \in Work, NEW s \in BOOLEAN, NEW n \in BOOLEAN, Admit(w, s, n) PROVE Unbegun(v)'
    BY <1>5, <1>t DEF Admit, Admitted
<1>6. ASSUME NEW w \in Work, ChildBegin(w) PROVE Unbegun(v)'
    BY <1>6, <1>t DEF ChildBegin
<1>7. ASSUME NEW w \in Work, ChildEnd(w) PROVE Unbegun(v)'
    BY <1>7, <1>t DEF ChildEnd, Landing
<1>8. ASSUME NEW w \in Work, ChildPutOff(w) PROVE Unbegun(v)'
    BY <1>8, <1>t DEF ChildPutOff, Landing
<1>9. ASSUME NEW w \in Work, NEW d \in BOOLEAN, NEW x \in BOOLEAN, LateReport(w, d, x)
      PROVE Unbegun(v)'
    BY <1>9, <1>t DEF LateReport, Deliver, Closes
<1>10. ASSUME NEW w \in Work, ReadNote(w) PROVE Unbegun(v)'
    BY <1>10, <1>t DEF ReadNote
<1>11. ASSUME NEW w \in Work, NEW r \in BOOLEAN, Confirm(w, r) PROVE Unbegun(v)'
    BY <1>11, <1>t DEF Confirm
<1>12. ASSUME NEW w \in Work, AnswerPause(w) PROVE Unbegun(v)'
    BY <1>12, <1>t DEF AnswerPause
<1>13. ASSUME NEW w \in Work, Callback(w) PROVE Unbegun(v)'
    BY <1>13, <1>t DEF Callback
<1>14. ASSUME NEW w \in Work, NEW r \in BOOLEAN, NEW x \in BOOLEAN, FollowUp(w, r, x)
       PROVE Unbegun(v)'
    BY <1>14, <1>t DEF FollowUp
<1>15. ASSUME NEW w \in Work, NEW d \in BOOLEAN, NEW x \in BOOLEAN, DeliverDue(w, d, x)
       PROVE Unbegun(v)'
    BY <1>15, <1>t DEF DeliverDue, Closes
<1>16. ASSUME NEW w \in Work, NEW n \in BOOLEAN, Submit(w, n) PROVE Unbegun(v)'
    BY <1>16, <1>t DEF Submit, Admitted, Started
<1>17. ASSUME NEW w \in Work, NEW a \in BOOLEAN, NEW d \in BOOLEAN, NEW x \in BOOLEAN, AnswerPlan(w, a, d, x)
       PROVE Unbegun(v)'
    BY <1>17, <1>t DEF AnswerPlan, Admitted, Started, Deliver, Closes
<1>18. ASSUME NEW w \in Work, NEW i \in Item, TakeItem(w, i) PROVE Unbegun(v)'
  <2>1. CASE v = w
    <3>1. taken[w][i] \in 0..1 /\ runs[w] \in 0..1
        BY <1>t
    <3>2. runs[w] > 0 \/ \E j \in Item : taken[w][j] > 0
        BY <1>18, <3>1 DEF TakeItem, WorkersGoOn
    <3>3. rec[v] # "none"
        BY <2>1, <3>2
    <3>. QED
        BY <1>18, <3>3 DEF TakeItem
  <2>2. CASE v # w
    <3>1. taken'[v] = taken[v] /\ ran'[v] = ran[v]
        BY <1>18, <2>2, <1>t DEF TakeItem
    <3>. QED
        BY <1>18, <3>1 DEF TakeItem
  <2>. QED
      BY <2>1, <2>2
<1>19. ASSUME NEW w \in Work, NEW i \in Item, NEW k \in BOOLEAN, KeepAnswer(w, i, k)
       PROVE Unbegun(v)'
    BY <1>19, <1>t DEF KeepAnswer
<1>20. ASSUME NEW w \in Work, NEW d \in BOOLEAN, NEW x \in BOOLEAN, PlanDone(w, d, x)
       PROVE Unbegun(v)'
    BY <1>20, <1>t DEF PlanDone, Deliver, Closes
<1>21. ASSUME NEW w \in Work, JobStart(w) PROVE Unbegun(v)'
    BY <1>21, <1>t DEF JobStart
<1>22. ASSUME NEW w \in Work, NEW d \in BOOLEAN, NEW x \in BOOLEAN, JobDone(w, d, x)
       PROVE Unbegun(v)'
    BY <1>22, <1>t DEF JobDone, Deliver, Closes
<1>23. ASSUME NEW w \in Work, DelegatePrepare(w) PROVE Unbegun(v)'
    BY <1>23, <1>t DEF DelegatePrepare
<1>24. ASSUME NEW w \in Work, NEW n \in BOOLEAN, DelegateStart(w, n) PROVE Unbegun(v)'
    BY <1>24, <1>t DEF DelegateStart, Admitted
<1>25. ASSUME NEW w \in Work, NEW how \in {"exited", "interrupted"}, JobEnds(w, how)
       PROVE Unbegun(v)'
    BY <1>25, <1>t DEF JobEnds
<1>26. ASSUME NEW w \in Work, Observe(w) PROVE Unbegun(v)'
    BY <1>26, <1>t DEF Observe
<1>27. ASSUME NEW w \in Work, NEW x \in BOOLEAN, Settle(w, x) PROVE Unbegun(v)'
    BY <1>27, <1>t DEF Settle
<1>28. ASSUME NEW w \in Work, NEW d \in BOOLEAN, TellEnded(w, d) PROVE Unbegun(v)'
    BY <1>28, <1>t DEF TellEnded
<1>29. ASSUME NEW w \in Work, NEW d \in BOOLEAN, NEW x \in BOOLEAN, SweepFork(w, d, x)
       PROVE Unbegun(v)'
    BY <1>29, <1>t DEF SweepFork, Deliver, Closes
<1>30. ASSUME NEW w \in Work, NEW d \in BOOLEAN, NEW x \in BOOLEAN, SweepDelegate(w, d, x)
       PROVE Unbegun(v)'
    BY <1>30, <1>t DEF SweepDelegate, Gone, Deliver, Closes
<1>31. ASSUME NEW w \in Work, NEW d \in BOOLEAN, NEW x \in BOOLEAN, RecoverJob(w, d, x)
       PROVE Unbegun(v)'
    BY <1>31, <1>t DEF RecoverJob, Recovering, Deliver, Closes
<1>32. ASSUME NEW w \in Work, NEW d \in BOOLEAN, NEW x \in BOOLEAN, RecoverPause(w, d, x)
       PROVE Unbegun(v)'
    BY <1>32, <1>t DEF RecoverPause, Recovering, Deliver, Closes
<1>33. ASSUME NEW w \in Work, NEW d \in BOOLEAN, NEW x \in BOOLEAN, RecoverPlan(w, d, x)
       PROVE Unbegun(v)'
    BY <1>33, <1>t DEF RecoverPlan, Recovering, StartedPlan, Started,
       Deliver, Closes
<1>34. CASE SetPause
    BY <1>34, <1>t DEF SetPause
<1>35. CASE Crash
    BY <1>35, <1>t DEF Crash
<1>36. CASE Restart
    BY <1>36, <1>t DEF Restart, Cancelled, Swept
<1>37. CASE SweepDone
    BY <1>37, <1>t DEF SweepDone
<1>38. CASE RecoverDone
    BY <1>38, <1>t DEF RecoverDone
<1>39. CASE UNCHANGED vars
    BY <1>39 DEF vars
<1>40. ASSUME NEW w \in Work, BoxStarts(w) PROVE Unbegun(v)'
    BY <1>40, <1>t DEF BoxStarts
<1>41. ASSUME NEW w \in Work, Kill(w) PROVE Unbegun(v)'
    BY <1>41, <1>t DEF Kill
<1>. QED
    BY ZenonT(60), <1>1, <1>2, <1>3, <1>4, <1>5, <1>6, <1>7, <1>8, <1>9, <1>10, <1>11,
       <1>12, <1>13, <1>14, <1>15, <1>16, <1>17, <1>18, <1>19, <1>20, <1>21,
       <1>22, <1>23, <1>24, <1>25, <1>26, <1>27, <1>28, <1>29, <1>30, <1>31,
       <1>32, <1>33, <1>34, <1>35, <1>36, <1>37, <1>38, <1>39, <1>40, <1>41 DEF Next,
       ForkStep, PauseStep, PlanStep, JobStep, DelegateStep, StartStep

LEMMA HeardNext ==
  ASSUME TypeOK, NEW v \in Work, Heard(v), Placed(v), Unbegun(v), [Next]_vars
  PROVE  Heard(v)'
<1>t. /\ rec \in [Work -> RecState]
     /\ child \in [Work -> {"none", "queued", "running", "ended"}]
     /\ result \in [Work -> {"none", "open", "closed"}]
     /\ said \in [Work -> SUBSET Note]
     /\ queued \in [Work -> BOOLEAN]
    BY DEF TypeOK, Place, RecState, Note
<1>. USE DEF Heard, Unbegun, Placed, Put, Of, disk, memory, start, rest
<1>1. ASSUME NEW B \in SUBSET Of("fork"), ForkPrepare(B) PROVE Heard(v)'
    BY <1>1, <1>t DEF ForkPrepare
<1>2. ASSUME NEW B \in SUBSET Of("fork"), NEW miss \in SUBSET B, ForkRefused(B, miss)
      PROVE Heard(v)'
    BY <1>2, <1>t DEF ForkRefused
<1>3. ASSUME NEW miss \in SUBSET Work, JoinEnds(miss) PROVE Heard(v)'
    BY <1>3, <1>t DEF JoinEnds, InCall
<1>4. CASE Detach
    BY <1>4, <1>t DEF Detach, InCall
<1>5. ASSUME NEW w \in Work, NEW s \in BOOLEAN, NEW n \in BOOLEAN, Admit(w, s, n) PROVE Heard(v)'
    BY <1>5, <1>t DEF Admit, Admitted
<1>6. ASSUME NEW w \in Work, ChildBegin(w) PROVE Heard(v)'
    BY <1>6, <1>t DEF ChildBegin
<1>7. ASSUME NEW w \in Work, ChildEnd(w) PROVE Heard(v)'
    BY <1>7, <1>t DEF ChildEnd, Landing
<1>8. ASSUME NEW w \in Work, ChildPutOff(w) PROVE Heard(v)'
    BY <1>8, <1>t DEF ChildPutOff, Landing
<1>9. ASSUME NEW w \in Work, NEW d \in BOOLEAN, NEW x \in BOOLEAN, LateReport(w, d, x)
      PROVE Heard(v)'
    BY <1>9, <1>t DEF LateReport, Deliver, Closes
<1>10. ASSUME NEW w \in Work, ReadNote(w) PROVE Heard(v)'
    BY <1>10, <1>t DEF ReadNote
<1>11. ASSUME NEW w \in Work, NEW r \in BOOLEAN, Confirm(w, r) PROVE Heard(v)'
    BY <1>11, <1>t DEF Confirm
<1>12. ASSUME NEW w \in Work, AnswerPause(w) PROVE Heard(v)'
    BY <1>12, <1>t DEF AnswerPause
<1>13. ASSUME NEW w \in Work, Callback(w) PROVE Heard(v)'
    BY <1>13, <1>t DEF Callback
<1>14. ASSUME NEW w \in Work, NEW r \in BOOLEAN, NEW x \in BOOLEAN, FollowUp(w, r, x)
       PROVE Heard(v)'
    BY <1>14, <1>t DEF FollowUp
<1>15. ASSUME NEW w \in Work, NEW d \in BOOLEAN, NEW x \in BOOLEAN, DeliverDue(w, d, x)
       PROVE Heard(v)'
    BY <1>15, <1>t DEF DeliverDue, Closes
<1>16. ASSUME NEW w \in Work, NEW n \in BOOLEAN, Submit(w, n) PROVE Heard(v)'
    BY <1>16, <1>t DEF Submit, Admitted, Started
<1>17. ASSUME NEW w \in Work, NEW a \in BOOLEAN, NEW d \in BOOLEAN, NEW x \in BOOLEAN, AnswerPlan(w, a, d, x)
       PROVE Heard(v)'
  <2>1. rec'[v] = "closed" => said'[v] # {} \/ rec[v] = "closed"
      BY <1>17, <1>t, DeliverTold DEF AnswerPlan, disk, Admitted, Put
  <2>2. said[v] # {} => said'[v] # {}
      BY <1>17, <1>t, DeliverKeeps DEF AnswerPlan, disk, Admitted, Put
  <2>3. kind' = kind /\ child' = child /\ result' = result /\ queued' = queued
      BY <1>17 DEF AnswerPlan, disk, Admitted, Put
  <2>. QED
      BY <2>1, <2>2, <2>3
<1>18. ASSUME NEW w \in Work, NEW i \in Item, TakeItem(w, i) PROVE Heard(v)'
    BY <1>18, <1>t DEF TakeItem, WorkersGoOn, Missing
<1>19. ASSUME NEW w \in Work, NEW i \in Item, NEW k \in BOOLEAN, KeepAnswer(w, i, k) PROVE Heard(v)'
    BY <1>19, <1>t DEF KeepAnswer
<1>20. ASSUME NEW w \in Work, NEW d \in BOOLEAN, NEW x \in BOOLEAN, PlanDone(w, d, x)
       PROVE Heard(v)'
  <2>1. rec'[v] = "closed" => said'[v] # {} \/ rec[v] = "closed"
      BY <1>20, <1>t, DeliverTold DEF PlanDone, IsOpen, disk
  <2>2. said[v] # {} => said'[v] # {}
      BY <1>20, <1>t, DeliverKeeps DEF PlanDone, IsOpen, disk
  <2>3. kind' = kind /\ child' = child /\ result' = result /\ queued' = queued
      BY <1>20 DEF PlanDone, IsOpen, disk
  <2>. QED
      BY <2>1, <2>2, <2>3
<1>21. ASSUME NEW w \in Work, JobStart(w) PROVE Heard(v)'
    BY <1>21, <1>t DEF JobStart
<1>22. ASSUME NEW w \in Work, NEW d \in BOOLEAN, NEW x \in BOOLEAN, JobDone(w, d, x) PROVE Heard(v)'
  <2>1. rec'[v] = "closed" => said'[v] # {} \/ rec[v] = "closed"
      BY <1>22, <1>t, DeliverTold DEF JobDone, IsOpen, disk
  <2>2. said[v] # {} => said'[v] # {}
      BY <1>22, <1>t, DeliverKeeps DEF JobDone, IsOpen, disk
  <2>3. kind' = kind /\ child' = child /\ result' = result /\ queued' = queued
      BY <1>22 DEF JobDone, IsOpen, disk
  <2>. QED
      BY <2>1, <2>2, <2>3
<1>23. ASSUME NEW w \in Work, DelegatePrepare(w) PROVE Heard(v)'
    BY <1>23, <1>t DEF DelegatePrepare
<1>24. ASSUME NEW w \in Work, NEW n \in BOOLEAN, DelegateStart(w, n) PROVE Heard(v)'
    BY <1>24, <1>t DEF DelegateStart, Admitted
<1>25. ASSUME NEW w \in Work, NEW how \in {"exited", "interrupted"}, JobEnds(w, how) PROVE Heard(v)'
    BY <1>25, <1>t DEF JobEnds
<1>26. ASSUME NEW w \in Work, Observe(w) PROVE Heard(v)'
    BY <1>26, <1>t DEF Observe
<1>27. ASSUME NEW w \in Work, NEW x \in BOOLEAN, Settle(w, x) PROVE Heard(v)'
    BY <1>27, <1>t DEF Settle
<1>28. ASSUME NEW w \in Work, NEW d \in BOOLEAN, TellEnded(w, d) PROVE Heard(v)'
    BY <1>28, <1>t DEF TellEnded
<1>29. ASSUME NEW w \in Work, NEW d \in BOOLEAN, NEW x \in BOOLEAN, SweepFork(w, d, x)
       PROVE Heard(v)'
  <2>1. CASE queued[w]
      BY <1>29, <1>t, <2>1 DEF SweepFork
  <2>2. CASE ~queued[w]
    <3>1. rec'[v] = "closed" => said'[v] # {} \/ rec[v] = "closed"
        BY <1>29, <1>t, <2>2, DeliverTold DEF SweepFork, disk
    <3>2. said[v] # {} => said'[v] # {}
        BY <1>29, <1>t, <2>2, DeliverKeeps DEF SweepFork, disk
    <3>3. queued'[v] => queued[v] \/ said'[v] # {}
        BY <1>29, <1>t, <2>2 DEF SweepFork, Deliver
    <3>4. kind' = kind /\ child' = child /\ result' = result
        BY <1>29, <2>2 DEF SweepFork, disk
    <3>. QED
        BY <3>1, <3>2, <3>3, <3>4
  <2>. QED
      BY <2>1, <2>2
<1>30. ASSUME NEW w \in Work, NEW d \in BOOLEAN, NEW x \in BOOLEAN, SweepDelegate(w, d, x)
       PROVE Heard(v)'
  <2>1. rec'[v] = "closed" => said'[v] # {} \/ rec[v] = "closed"
      BY <1>30, <1>t, DeliverTold DEF SweepDelegate, Gone, disk
  <2>2. said[v] # {} => said'[v] # {}
      BY <1>30, <1>t, DeliverKeeps DEF SweepDelegate, Gone, disk
  <2>3. kind' = kind /\ child' = child /\ result' = result /\ queued' = queued
      BY <1>30 DEF SweepDelegate, Gone, disk
  <2>. QED
      BY <2>1, <2>2, <2>3
<1>31. ASSUME NEW w \in Work, NEW d \in BOOLEAN, NEW x \in BOOLEAN, RecoverJob(w, d, x)
       PROVE Heard(v)'
  <2>1. rec'[v] = "closed" => said'[v] # {} \/ rec[v] = "closed"
      BY <1>31, <1>t, DeliverTold DEF RecoverJob, Recovering, disk
  <2>2. said[v] # {} => said'[v] # {}
      BY <1>31, <1>t, DeliverKeeps DEF RecoverJob, Recovering, disk
  <2>3. kind' = kind /\ child' = child /\ result' = result /\ queued' = queued
      BY <1>31 DEF RecoverJob, Recovering, disk
  <2>. QED
      BY <2>1, <2>2, <2>3
<1>32. ASSUME NEW w \in Work, NEW d \in BOOLEAN, NEW x \in BOOLEAN, RecoverPause(w, d, x)
       PROVE Heard(v)'
  <2>1. rec'[v] = "closed" => said'[v] # {} \/ rec[v] = "closed"
      BY <1>32, <1>t, DeliverTold DEF RecoverPause, Recovering, disk
  <2>2. said[v] # {} => said'[v] # {}
      BY <1>32, <1>t, DeliverKeeps DEF RecoverPause, Recovering, disk
  <2>3. kind' = kind /\ child' = child /\ result' = result /\ queued' = queued
      BY <1>32 DEF RecoverPause, Recovering, disk
  <2>. QED
      BY <2>1, <2>2, <2>3
<1>33. ASSUME NEW w \in Work, NEW d \in BOOLEAN, NEW x \in BOOLEAN, RecoverPlan(w, d, x)
       PROVE Heard(v)'
  <2>1. rec'[v] = "closed" => said'[v] # {} \/ rec[v] = "closed"
      BY <1>33, <1>t, DeliverTold DEF RecoverPlan, Recovering, disk
  <2>2. said[v] # {} => said'[v] # {}
      BY <1>33, <1>t, DeliverKeeps DEF RecoverPlan, Recovering, disk
  <2>3. kind' = kind /\ child' = child /\ result' = result /\ queued' = queued
      BY <1>33 DEF RecoverPlan, Recovering, disk
  <2>. QED
      BY <2>1, <2>2, <2>3
<1>34. CASE SetPause
    BY <1>34, <1>t DEF SetPause
<1>35. CASE Crash
    BY <1>35, <1>t DEF Crash
<1>36. CASE Restart
    BY <1>36, <1>t DEF Restart, Cancelled, Swept
<1>37. CASE SweepDone
    BY <1>37, <1>t DEF SweepDone
<1>38. CASE RecoverDone
    BY <1>38, <1>t DEF RecoverDone
<1>39. CASE UNCHANGED vars
    BY <1>39 DEF vars
<1>40. ASSUME NEW w \in Work, BoxStarts(w) PROVE Heard(v)'
    BY <1>40, <1>t DEF BoxStarts
<1>41. ASSUME NEW w \in Work, Kill(w) PROVE Heard(v)'
    BY <1>41, <1>t DEF Kill
<1>. QED
    BY <1>1, <1>2, <1>3, <1>4, <1>5, <1>6, <1>7, <1>8, <1>9, <1>10, <1>11,
       <1>12, <1>13, <1>14, <1>15, <1>16, <1>17, <1>18, <1>19, <1>20, <1>21,
       <1>22, <1>23, <1>24, <1>25, <1>26, <1>27, <1>28, <1>29, <1>30, <1>31,
       <1>32, <1>33, <1>34, <1>35, <1>36, <1>37, <1>38, <1>39, <1>40, <1>41 DEF Next,
       ForkStep, PauseStep, PlanStep, JobStep, DelegateStep, StartStep

----------------------------------------------------------------------------
(* Delegated jobs and forks.                                               *)

\* What sets out to settle a job's record saw the end, or the job was killed.
Watched(w) == ending[w] = "settling" => job[w] \in {"killed", "exited", "interrupted"}

OfThisProcess(w) == Serving => (child[w] \in {"queued", "running"} => born[w] = crashes)

LEMMA WatchedNext ==
  ASSUME TypeOK, NEW v \in Work, Watched(v), Placed(v), [Next]_vars
  PROVE  Watched(v)'
<1>t. /\ rec \in [Work -> RecState]
     /\ child \in [Work -> {"none", "queued", "running", "ended"}]
     /\ job \in [Work -> JobState] /\ ending \in [Work -> Ending]
     /\ doing \in [Work -> Place]
    BY DEF TypeOK, Place, RecState, JobState, Ending
<1>. USE DEF Watched, Placed, IsOpen, Put, Of, disk, memory, start, rest
<1>1. ASSUME NEW B \in SUBSET Of("fork"), ForkPrepare(B) PROVE Watched(v)'
    BY <1>1, <1>t DEF ForkPrepare
<1>2. ASSUME NEW B \in SUBSET Of("fork"), NEW miss \in SUBSET B, ForkRefused(B, miss)
      PROVE Watched(v)'
    BY <1>2, <1>t DEF ForkRefused
<1>3. ASSUME NEW miss \in SUBSET Work, JoinEnds(miss) PROVE Watched(v)'
    BY <1>3, <1>t DEF JoinEnds, InCall
<1>4. CASE Detach
    BY <1>4, <1>t DEF Detach, InCall
<1>5. ASSUME NEW w \in Work, NEW s \in BOOLEAN, NEW n \in BOOLEAN, Admit(w, s, n) PROVE Watched(v)'
    BY <1>5, <1>t DEF Admit, Admitted
<1>6. ASSUME NEW w \in Work, ChildBegin(w) PROVE Watched(v)'
    BY <1>6, <1>t DEF ChildBegin
<1>7. ASSUME NEW w \in Work, ChildEnd(w) PROVE Watched(v)'
    BY <1>7, <1>t DEF ChildEnd, Landing
<1>8. ASSUME NEW w \in Work, ChildPutOff(w) PROVE Watched(v)'
    BY <1>8, <1>t DEF ChildPutOff, Landing
<1>9. ASSUME NEW w \in Work, NEW d \in BOOLEAN, NEW x \in BOOLEAN, LateReport(w, d, x)
      PROVE Watched(v)'
    BY <1>9, <1>t DEF LateReport, Deliver, Closes
<1>10. ASSUME NEW w \in Work, ReadNote(w) PROVE Watched(v)'
    BY <1>10, <1>t DEF ReadNote
<1>11. ASSUME NEW w \in Work, NEW r \in BOOLEAN, Confirm(w, r) PROVE Watched(v)'
    BY <1>11, <1>t DEF Confirm
<1>12. ASSUME NEW w \in Work, AnswerPause(w) PROVE Watched(v)'
    BY <1>12, <1>t DEF AnswerPause
<1>13. ASSUME NEW w \in Work, Callback(w) PROVE Watched(v)'
    BY <1>13, <1>t DEF Callback
<1>14. ASSUME NEW w \in Work, NEW r \in BOOLEAN, NEW x \in BOOLEAN, FollowUp(w, r, x)
       PROVE Watched(v)'
    BY <1>14, <1>t DEF FollowUp
<1>15. ASSUME NEW w \in Work, NEW d \in BOOLEAN, NEW x \in BOOLEAN, DeliverDue(w, d, x)
       PROVE Watched(v)'
    BY <1>15, <1>t DEF DeliverDue, Closes
<1>16. ASSUME NEW w \in Work, NEW n \in BOOLEAN, Submit(w, n) PROVE Watched(v)'
    BY <1>16, <1>t DEF Submit, Admitted, Started
<1>17. ASSUME NEW w \in Work, NEW a \in BOOLEAN, NEW d \in BOOLEAN, NEW x \in BOOLEAN, AnswerPlan(w, a, d, x)
       PROVE Watched(v)'
    BY <1>17, <1>t DEF AnswerPlan, Admitted, Started, Deliver, Closes
<1>18. ASSUME NEW w \in Work, NEW i \in Item, TakeItem(w, i) PROVE Watched(v)'
    BY <1>18, <1>t DEF TakeItem, WorkersGoOn, Missing
<1>19. ASSUME NEW w \in Work, NEW i \in Item, NEW k \in BOOLEAN, KeepAnswer(w, i, k)
       PROVE Watched(v)'
    BY <1>19, <1>t DEF KeepAnswer
<1>20. ASSUME NEW w \in Work, NEW d \in BOOLEAN, NEW x \in BOOLEAN, PlanDone(w, d, x)
       PROVE Watched(v)'
    BY <1>20, <1>t DEF PlanDone, Deliver, Closes
<1>21. ASSUME NEW w \in Work, JobStart(w) PROVE Watched(v)'
    BY <1>21, <1>t DEF JobStart
<1>22. ASSUME NEW w \in Work, NEW d \in BOOLEAN, NEW x \in BOOLEAN, JobDone(w, d, x)
       PROVE Watched(v)'
    BY <1>22, <1>t DEF JobDone, Deliver, Closes
<1>23. ASSUME NEW w \in Work, DelegatePrepare(w) PROVE Watched(v)'
    BY <1>23, <1>t DEF DelegatePrepare
<1>24. ASSUME NEW w \in Work, NEW n \in BOOLEAN, DelegateStart(w, n) PROVE Watched(v)'
    BY <1>24, <1>t DEF DelegateStart, Admitted
<1>25. ASSUME NEW w \in Work, NEW how \in {"exited", "interrupted"}, JobEnds(w, how)
       PROVE Watched(v)'
    BY <1>25, <1>t DEF JobEnds
<1>26. ASSUME NEW w \in Work, Observe(w) PROVE Watched(v)'
    BY <1>26, <1>t DEF Observe
<1>27. ASSUME NEW w \in Work, NEW x \in BOOLEAN, Settle(w, x) PROVE Watched(v)'
    BY <1>27, <1>t DEF Settle
<1>28. ASSUME NEW w \in Work, NEW d \in BOOLEAN, TellEnded(w, d) PROVE Watched(v)'
    BY <1>28, <1>t DEF TellEnded
<1>29. ASSUME NEW w \in Work, NEW d \in BOOLEAN, NEW x \in BOOLEAN, SweepFork(w, d, x)
       PROVE Watched(v)'
    BY <1>29, <1>t DEF SweepFork, Deliver, Closes
<1>30. ASSUME NEW w \in Work, NEW d \in BOOLEAN, NEW x \in BOOLEAN, SweepDelegate(w, d, x)
       PROVE Watched(v)'
    BY <1>30, <1>t DEF SweepDelegate, Gone, Deliver, Closes
<1>31. ASSUME NEW w \in Work, NEW d \in BOOLEAN, NEW x \in BOOLEAN, RecoverJob(w, d, x)
       PROVE Watched(v)'
    BY <1>31, <1>t DEF RecoverJob, Recovering, Deliver, Closes
<1>32. ASSUME NEW w \in Work, NEW d \in BOOLEAN, NEW x \in BOOLEAN, RecoverPause(w, d, x)
       PROVE Watched(v)'
    BY <1>32, <1>t DEF RecoverPause, Recovering, Deliver, Closes
<1>33. ASSUME NEW w \in Work, NEW d \in BOOLEAN, NEW x \in BOOLEAN, RecoverPlan(w, d, x)
       PROVE Watched(v)'
    BY <1>33, <1>t DEF RecoverPlan, Recovering, StartedPlan, Started,
       Deliver, Closes
<1>34. CASE SetPause
    BY <1>34, <1>t DEF SetPause
<1>35. CASE Crash
    BY <1>35, <1>t DEF Crash
<1>36. CASE Restart
    BY <1>36, <1>t DEF Restart, Cancelled, Swept
<1>37. CASE SweepDone
    BY <1>37, <1>t DEF SweepDone
<1>38. CASE RecoverDone
    BY <1>38, <1>t DEF RecoverDone
<1>39. CASE UNCHANGED vars
    BY <1>39 DEF vars
<1>40. ASSUME NEW w \in Work, BoxStarts(w) PROVE Watched(v)'
    BY <1>40, <1>t DEF BoxStarts
<1>41. ASSUME NEW w \in Work, Kill(w) PROVE Watched(v)'
    BY <1>41, <1>t DEF Kill
<1>. QED
    BY <1>1, <1>2, <1>3, <1>4, <1>5, <1>6, <1>7, <1>8, <1>9, <1>10, <1>11,
       <1>12, <1>13, <1>14, <1>15, <1>16, <1>17, <1>18, <1>19, <1>20, <1>21,
       <1>22, <1>23, <1>24, <1>25, <1>26, <1>27, <1>28, <1>29, <1>30, <1>31,
       <1>32, <1>33, <1>34, <1>35, <1>36, <1>37, <1>38, <1>39, <1>40, <1>41 DEF Next,
       ForkStep, PauseStep, PlanStep, JobStep, DelegateStep, StartStep

LEMMA OfThisProcessNext ==
  ASSUME TypeOK, NEW v \in Work, OfThisProcess(v), [Next]_vars
  PROVE  OfThisProcess(v)'
<1>t. /\ child \in [Work -> {"none", "queued", "running", "ended"}]
     /\ born \in [Work -> 0..MaxCrashes]
    BY DEF TypeOK
<1>. USE DEF OfThisProcess, Serving, Put, Of, disk, memory, start, rest
<1>1. ASSUME NEW B \in SUBSET Of("fork"), ForkPrepare(B) PROVE OfThisProcess(v)'
    BY <1>1, <1>t DEF ForkPrepare
<1>2. ASSUME NEW B \in SUBSET Of("fork"), NEW miss \in SUBSET B, ForkRefused(B, miss)
      PROVE OfThisProcess(v)'
    BY <1>2, <1>t DEF ForkRefused
<1>3. ASSUME NEW miss \in SUBSET Work, JoinEnds(miss) PROVE OfThisProcess(v)'
    BY <1>3, <1>t DEF JoinEnds, InCall
<1>4. CASE Detach
    BY <1>4, <1>t DEF Detach, InCall
<1>5. ASSUME NEW w \in Work, NEW s \in BOOLEAN, NEW n \in BOOLEAN, Admit(w, s, n)
      PROVE OfThisProcess(v)'
    BY <1>5, <1>t DEF Admit
<1>6. ASSUME NEW w \in Work, ChildBegin(w) PROVE OfThisProcess(v)'
    BY <1>6, <1>t DEF ChildBegin
<1>7. ASSUME NEW w \in Work, ChildEnd(w) PROVE OfThisProcess(v)'
    BY <1>7, <1>t DEF ChildEnd, Landing
<1>8. ASSUME NEW w \in Work, ChildPutOff(w) PROVE OfThisProcess(v)'
    BY <1>8, <1>t DEF ChildPutOff, Landing
<1>9. ASSUME NEW w \in Work, NEW d \in BOOLEAN, NEW x \in BOOLEAN, LateReport(w, d, x)
      PROVE OfThisProcess(v)'
    BY <1>9, <1>t DEF LateReport
<1>10. ASSUME NEW w \in Work, ReadNote(w) PROVE OfThisProcess(v)'
    BY <1>10, <1>t DEF ReadNote
<1>11. ASSUME NEW w \in Work, NEW r \in BOOLEAN, Confirm(w, r) PROVE OfThisProcess(v)'
    BY <1>11, <1>t DEF Confirm
<1>12. ASSUME NEW w \in Work, AnswerPause(w) PROVE OfThisProcess(v)'
    BY <1>12, <1>t DEF AnswerPause
<1>13. ASSUME NEW w \in Work, Callback(w) PROVE OfThisProcess(v)'
    BY <1>13, <1>t DEF Callback
<1>14. ASSUME NEW w \in Work, NEW r \in BOOLEAN, NEW x \in BOOLEAN, FollowUp(w, r, x)
       PROVE OfThisProcess(v)'
    BY <1>14, <1>t DEF FollowUp
<1>15. ASSUME NEW w \in Work, NEW d \in BOOLEAN, NEW x \in BOOLEAN, DeliverDue(w, d, x)
       PROVE OfThisProcess(v)'
    BY <1>15, <1>t DEF DeliverDue
<1>16. ASSUME NEW w \in Work, NEW n \in BOOLEAN, Submit(w, n) PROVE OfThisProcess(v)'
    BY <1>16, <1>t DEF Submit
<1>17. ASSUME NEW w \in Work, NEW a \in BOOLEAN, NEW d \in BOOLEAN, NEW x \in BOOLEAN, AnswerPlan(w, a, d, x)
       PROVE OfThisProcess(v)'
    BY <1>17, <1>t DEF AnswerPlan
<1>18. ASSUME NEW w \in Work, NEW i \in Item, TakeItem(w, i) PROVE OfThisProcess(v)'
    BY <1>18, <1>t DEF TakeItem
<1>19. ASSUME NEW w \in Work, NEW i \in Item, NEW k \in BOOLEAN, KeepAnswer(w, i, k)
       PROVE OfThisProcess(v)'
    BY <1>19, <1>t DEF KeepAnswer
<1>20. ASSUME NEW w \in Work, NEW d \in BOOLEAN, NEW x \in BOOLEAN, PlanDone(w, d, x)
       PROVE OfThisProcess(v)'
    BY <1>20, <1>t DEF PlanDone
<1>21. ASSUME NEW w \in Work, JobStart(w) PROVE OfThisProcess(v)'
    BY <1>21, <1>t DEF JobStart
<1>22. ASSUME NEW w \in Work, NEW d \in BOOLEAN, NEW x \in BOOLEAN, JobDone(w, d, x)
       PROVE OfThisProcess(v)'
    BY <1>22, <1>t DEF JobDone
<1>23. ASSUME NEW w \in Work, DelegatePrepare(w) PROVE OfThisProcess(v)'
    BY <1>23, <1>t DEF DelegatePrepare
<1>24. ASSUME NEW w \in Work, NEW n \in BOOLEAN, DelegateStart(w, n) PROVE OfThisProcess(v)'
    BY <1>24, <1>t DEF DelegateStart
<1>25. ASSUME NEW w \in Work, NEW how \in {"exited", "interrupted"}, JobEnds(w, how)
       PROVE OfThisProcess(v)'
    BY <1>25, <1>t DEF JobEnds
<1>26. ASSUME NEW w \in Work, Observe(w) PROVE OfThisProcess(v)'
    BY <1>26, <1>t DEF Observe
<1>27. ASSUME NEW w \in Work, NEW x \in BOOLEAN, Settle(w, x) PROVE OfThisProcess(v)'
    BY <1>27, <1>t DEF Settle
<1>28. ASSUME NEW w \in Work, NEW d \in BOOLEAN, TellEnded(w, d) PROVE OfThisProcess(v)'
    BY <1>28, <1>t DEF TellEnded
<1>29. ASSUME NEW w \in Work, NEW d \in BOOLEAN, NEW x \in BOOLEAN, SweepFork(w, d, x)
       PROVE OfThisProcess(v)'
    BY <1>29, <1>t DEF SweepFork
<1>30. ASSUME NEW w \in Work, NEW d \in BOOLEAN, NEW x \in BOOLEAN, SweepDelegate(w, d, x)
       PROVE OfThisProcess(v)'
    BY <1>30, <1>t DEF SweepDelegate, Gone
<1>31. ASSUME NEW w \in Work, NEW d \in BOOLEAN, NEW x \in BOOLEAN, RecoverJob(w, d, x)
       PROVE OfThisProcess(v)'
    BY <1>31, <1>t DEF RecoverJob, Recovering
<1>32. ASSUME NEW w \in Work, NEW d \in BOOLEAN, NEW x \in BOOLEAN, RecoverPause(w, d, x)
       PROVE OfThisProcess(v)'
    BY <1>32, <1>t DEF RecoverPause, Recovering
<1>33. ASSUME NEW w \in Work, NEW d \in BOOLEAN, NEW x \in BOOLEAN, RecoverPlan(w, d, x)
       PROVE OfThisProcess(v)'
    BY <1>33, <1>t DEF RecoverPlan, Recovering
<1>34. CASE SetPause
    BY <1>34, <1>t DEF SetPause
<1>35. CASE Crash
    BY <1>35, <1>t DEF Crash
<1>36. CASE Restart
    BY <1>36, <1>t DEF Restart, Cancelled, Swept
<1>37. CASE SweepDone
    BY <1>37, <1>t DEF SweepDone
<1>38. CASE RecoverDone
    BY <1>38, <1>t DEF RecoverDone
<1>39. CASE UNCHANGED vars
    BY <1>39 DEF vars
<1>40. ASSUME NEW w \in Work, BoxStarts(w) PROVE OfThisProcess(v)'
    BY <1>40, <1>t DEF BoxStarts
<1>41. ASSUME NEW w \in Work, Kill(w) PROVE OfThisProcess(v)'
    BY <1>41, <1>t DEF Kill
<1>. QED
    BY <1>1, <1>2, <1>3, <1>4, <1>5, <1>6, <1>7, <1>8, <1>9, <1>10, <1>11,
       <1>12, <1>13, <1>14, <1>15, <1>16, <1>17, <1>18, <1>19, <1>20, <1>21,
       <1>22, <1>23, <1>24, <1>25, <1>26, <1>27, <1>28, <1>29, <1>30, <1>31,
       <1>32, <1>33, <1>34, <1>35, <1>36, <1>37, <1>38, <1>39, <1>40, <1>41 DEF Next,
       ForkStep, PauseStep, PlanStep, JobStep, DelegateStep, StartStep

----------------------------------------------------------------------------
(* What an agent told that nothing of its plan ran may rely on.            *)

Fresh(w) == ran[w] = {} /\ runs[w] = 0 /\ \A i \in Item : taken[w][i] = 0

\* Where a start finds a piece of work.
Listed(w) ==
    w \in todo =>
        /\ life \in {"sweeping", "recovering"}
        /\ life = "sweeping" => kind[w] \in {"fork", "delegate"}

AskedNow(w) ==
    /\ ask[w] # "none" /\ life \in {"down", "sweeping"} => runs[w] = 0
    /\ ask[w] # "none" /\ w \in todo => IsOpen(w) /\ runs[w] = 0

ToldTrue(w) ==
    /\ ask[w] = "waiting" => rec[w] = "open" /\ Fresh(w)
    /\ ask[w] = "answered" => rec[w] \in {"admitted", "closed"}
    /\ "nothing ran" \in said[w] => rec[w] = "closed" /\ ask[w] # "none" /\ Fresh(w)

Asked(w) == kind[w] = "plan" => AskedNow(w) /\ (lost = 0 => ToldTrue(w))

\* No append failed: none failed before, and none does now.
LEMMA NothingLost ==
  ASSUME lost \in 0..MaxLost, NEW n \in Nat, LoseAppends(n), lost' = 0
  PROVE  lost = 0
<1>1. lost \in Nat
    BY PendingConstants DEF PendingConstants
<1>. QED
    BY <1>1 DEF LoseAppends

LEMMA NothingMissed ==
  ASSUME lost \in 0..MaxLost, NEW n \in Nat, LoseAppends(n), lost' = 0
  PROVE  n = 0
<1>1. lost \in Nat
    BY PendingConstants DEF PendingConstants
<1>. QED
    BY <1>1 DEF LoseAppends

\* A piece of work stays what it is.
LEMMA KindNext == [Next]_vars => kind' = kind
<1>. SUFFICES ASSUME [Next]_vars PROVE kind' = kind
    OBVIOUS
<1>. USE DEF rest
<1>1. ASSUME NEW w \in Work, ForkStep(w) PROVE kind' = kind
    BY <1>1 DEF ForkStep, Admit, ChildBegin, ChildEnd, ChildPutOff,
       LateReport, ReadNote
<1>2. ASSUME NEW w \in Work, PauseStep(w) PROVE kind' = kind
    BY <1>2 DEF PauseStep, Confirm, AnswerPause, Callback, FollowUp,
       DeliverDue
<1>3. ASSUME NEW w \in Work, PlanStep(w) PROVE kind' = kind
    BY <1>3 DEF PlanStep, Submit, AnswerPlan, TakeItem, KeepAnswer, PlanDone
<1>4. ASSUME NEW w \in Work, JobStep(w) PROVE kind' = kind
    BY <1>4 DEF JobStep, JobStart, JobDone
<1>5. ASSUME NEW w \in Work, DelegateStep(w) PROVE kind' = kind
    BY <1>5 DEF DelegateStep, DelegatePrepare, BoxStarts, DelegateStart, JobEnds,
       Kill, Observe, Settle, TellEnded
<1>6. ASSUME NEW w \in Work, NEW d \in BOOLEAN, NEW x \in BOOLEAN, StartStep(w, d, x)
      PROVE kind' = kind
    BY <1>6 DEF StartStep, SweepFork, SweepDelegate, RecoverJob,
       RecoverPause, RecoverPlan
<1>7. CASE \/ Detach \/ SetPause \/ Crash \/ Restart \/ SweepDone \/ RecoverDone
         \/ UNCHANGED vars
    BY <1>7 DEF Detach, SetPause, Crash, Restart, SweepDone, RecoverDone, vars
<1>8. ASSUME NEW miss \in SUBSET Work, JoinEnds(miss) PROVE kind' = kind
    BY <1>8 DEF JoinEnds
<1>9. ASSUME NEW B, NEW miss, ForkRefused(B, miss) PROVE kind' = kind
    BY <1>9 DEF ForkRefused
<1>10. ASSUME NEW B, ForkPrepare(B) PROVE kind' = kind
    BY <1>10 DEF ForkPrepare
<1>. QED
    BY <1>1, <1>2, <1>3, <1>4, <1>5, <1>6, <1>7, <1>8, <1>9, <1>10 DEF Next

LEMMA MadeAll ==
  ASSUME NEW d \in BOOLEAN, NEW x \in BOOLEAN, Missed(d) + Missed(x) = 0
  PROVE  d /\ x
  BY DEF Missed

LEMMA DeliverNothingLost ==
  ASSUME lost \in 0..MaxLost, NEW w, NEW what, NEW d \in BOOLEAN, NEW x \in BOOLEAN,
         Deliver(w, what, d, x), lost' = 0
  PROVE  lost = 0
<1>1. Missed(d) + Missed(x) \in Nat
    BY MissedType
<1>. QED
    BY <1>1, NothingLost DEF Deliver

LEMMA DeliverMissedNone ==
  ASSUME lost \in 0..MaxLost, NEW w, NEW what, NEW d \in BOOLEAN, NEW x \in BOOLEAN,
         Deliver(w, what, d, x), lost' = 0
  PROVE  d /\ x
<1>1. Missed(d) + Missed(x) \in Nat
    BY MissedType
<1>2. Missed(d) + Missed(x) = 0
    BY <1>1, NothingMissed DEF Deliver
<1>. QED
    BY <1>2, MadeAll

\* A step that is none of this plan's.
LEMMA AskedRests ==
  ASSUME NEW v \in Work, Asked(v), lost' = 0 => lost = 0,
         kind'[v] = kind[v], ask'[v] = ask[v], rec'[v] = rec[v], said'[v] = said[v],
         ran'[v] = ran[v], runs'[v] = runs[v], taken'[v] = taken[v],
         life' \in {"down", "sweeping"} => life \in {"down", "sweeping"},
         v \in todo' => v \in todo
  PROVE  Asked(v)'
  BY DEF Asked, AskedNow, ToldTrue, Fresh, IsOpen

LEMMA ListedNext ==
  ASSUME TypeOK, NEW v \in Work, Listed(v), [Next]_vars
  PROVE  Listed(v)'
<1>t. todo \subseteq Work
    BY DEF TypeOK
<1>. USE DEF Listed, Serving, Put, Of, disk, memory, start, rest
<1>1. ASSUME NEW B \in SUBSET Of("fork"), ForkPrepare(B) PROVE Listed(v)'
    BY <1>1, <1>t DEF ForkPrepare
<1>2. ASSUME NEW B \in SUBSET Of("fork"), NEW miss \in SUBSET B, ForkRefused(B, miss)
      PROVE Listed(v)'
    BY <1>2, <1>t DEF ForkRefused
<1>3. ASSUME NEW miss \in SUBSET Work, JoinEnds(miss) PROVE Listed(v)'
    BY <1>3, <1>t DEF JoinEnds
<1>4. CASE Detach
    BY <1>4, <1>t DEF Detach
<1>5. ASSUME NEW w \in Work, NEW s \in BOOLEAN, NEW n \in BOOLEAN, Admit(w, s, n) PROVE Listed(v)'
    BY <1>5, <1>t DEF Admit
<1>6. ASSUME NEW w \in Work, ChildBegin(w) PROVE Listed(v)'
    BY <1>6, <1>t DEF ChildBegin
<1>7. ASSUME NEW w \in Work, ChildEnd(w) PROVE Listed(v)'
    BY <1>7, <1>t DEF ChildEnd
<1>8. ASSUME NEW w \in Work, ChildPutOff(w) PROVE Listed(v)'
    BY <1>8, <1>t DEF ChildPutOff
<1>9. ASSUME NEW w \in Work, NEW d \in BOOLEAN, NEW x \in BOOLEAN, LateReport(w, d, x)
      PROVE Listed(v)'
    BY <1>9, <1>t DEF LateReport
<1>10. ASSUME NEW w \in Work, ReadNote(w) PROVE Listed(v)'
    BY <1>10, <1>t DEF ReadNote
<1>11. ASSUME NEW w \in Work, NEW r \in BOOLEAN, Confirm(w, r) PROVE Listed(v)'
    BY <1>11, <1>t DEF Confirm
<1>12. ASSUME NEW w \in Work, AnswerPause(w) PROVE Listed(v)'
    BY <1>12, <1>t DEF AnswerPause
<1>13. ASSUME NEW w \in Work, Callback(w) PROVE Listed(v)'
    BY <1>13, <1>t DEF Callback
<1>14. ASSUME NEW w \in Work, NEW r \in BOOLEAN, NEW x \in BOOLEAN, FollowUp(w, r, x)
       PROVE Listed(v)'
    BY <1>14, <1>t DEF FollowUp
<1>15. ASSUME NEW w \in Work, NEW d \in BOOLEAN, NEW x \in BOOLEAN, DeliverDue(w, d, x)
       PROVE Listed(v)'
    BY <1>15, <1>t DEF DeliverDue
<1>16. ASSUME NEW w \in Work, NEW n \in BOOLEAN, Submit(w, n) PROVE Listed(v)'
    BY <1>16, <1>t DEF Submit
<1>17. ASSUME NEW w \in Work, NEW a \in BOOLEAN, NEW d \in BOOLEAN, NEW x \in BOOLEAN, AnswerPlan(w, a, d, x)
       PROVE Listed(v)'
    BY <1>17, <1>t DEF AnswerPlan
<1>18. ASSUME NEW w \in Work, NEW i \in Item, TakeItem(w, i) PROVE Listed(v)'
    BY <1>18, <1>t DEF TakeItem
<1>19. ASSUME NEW w \in Work, NEW i \in Item, NEW k \in BOOLEAN, KeepAnswer(w, i, k)
       PROVE Listed(v)'
    BY <1>19, <1>t DEF KeepAnswer
<1>20. ASSUME NEW w \in Work, NEW d \in BOOLEAN, NEW x \in BOOLEAN, PlanDone(w, d, x)
       PROVE Listed(v)'
    BY <1>20, <1>t DEF PlanDone
<1>21. ASSUME NEW w \in Work, JobStart(w) PROVE Listed(v)'
    BY <1>21, <1>t DEF JobStart
<1>22. ASSUME NEW w \in Work, NEW d \in BOOLEAN, NEW x \in BOOLEAN, JobDone(w, d, x)
       PROVE Listed(v)'
    BY <1>22, <1>t DEF JobDone
<1>23. ASSUME NEW w \in Work, DelegatePrepare(w) PROVE Listed(v)'
    BY <1>23, <1>t DEF DelegatePrepare
<1>24. ASSUME NEW w \in Work, NEW n \in BOOLEAN, DelegateStart(w, n) PROVE Listed(v)'
    BY <1>24, <1>t DEF DelegateStart
<1>25. ASSUME NEW w \in Work, NEW how \in {"exited", "interrupted"}, JobEnds(w, how)
       PROVE Listed(v)'
    BY <1>25, <1>t DEF JobEnds
<1>26. ASSUME NEW w \in Work, Observe(w) PROVE Listed(v)'
    BY <1>26, <1>t DEF Observe
<1>27. ASSUME NEW w \in Work, NEW x \in BOOLEAN, Settle(w, x) PROVE Listed(v)'
    BY <1>27, <1>t DEF Settle
<1>28. ASSUME NEW w \in Work, NEW d \in BOOLEAN, TellEnded(w, d) PROVE Listed(v)'
    BY <1>28, <1>t DEF TellEnded
<1>29. ASSUME NEW w \in Work, NEW d \in BOOLEAN, NEW x \in BOOLEAN, SweepFork(w, d, x)
       PROVE Listed(v)'
    BY <1>29, <1>t DEF SweepFork
<1>30. ASSUME NEW w \in Work, NEW d \in BOOLEAN, NEW x \in BOOLEAN, SweepDelegate(w, d, x)
       PROVE Listed(v)'
    BY <1>30, <1>t DEF SweepDelegate
<1>31. ASSUME NEW w \in Work, NEW d \in BOOLEAN, NEW x \in BOOLEAN, RecoverJob(w, d, x)
       PROVE Listed(v)'
    BY <1>31, <1>t DEF RecoverJob, Recovering
<1>32. ASSUME NEW w \in Work, NEW d \in BOOLEAN, NEW x \in BOOLEAN, RecoverPause(w, d, x)
       PROVE Listed(v)'
    BY <1>32, <1>t DEF RecoverPause, Recovering
<1>33. ASSUME NEW w \in Work, NEW d \in BOOLEAN, NEW x \in BOOLEAN, RecoverPlan(w, d, x)
       PROVE Listed(v)'
    BY <1>33, <1>t DEF RecoverPlan, Recovering
<1>34. CASE SetPause
    BY <1>34, <1>t DEF SetPause
<1>35. CASE Crash
    BY <1>35, <1>t DEF Crash
<1>36. CASE Restart
    BY <1>36, <1>t DEF Restart, Cancelled, Swept
<1>37. CASE SweepDone
    BY <1>37, <1>t DEF SweepDone
<1>38. CASE RecoverDone
    BY <1>38, <1>t DEF RecoverDone
<1>39. CASE UNCHANGED vars
    BY <1>39 DEF vars
<1>40. ASSUME NEW w \in Work, BoxStarts(w) PROVE Listed(v)'
    BY <1>40, <1>t DEF BoxStarts
<1>41. ASSUME NEW w \in Work, Kill(w) PROVE Listed(v)'
    BY <1>41, <1>t DEF Kill
<1>. QED
    BY <1>1, <1>2, <1>3, <1>4, <1>5, <1>6, <1>7, <1>8, <1>9, <1>10, <1>11,
       <1>12, <1>13, <1>14, <1>15, <1>16, <1>17, <1>18, <1>19, <1>20, <1>21,
       <1>22, <1>23, <1>24, <1>25, <1>26, <1>27, <1>28, <1>29, <1>30, <1>31,
       <1>32, <1>33, <1>34, <1>35, <1>36, <1>37, <1>38, <1>39, <1>40, <1>41 DEF Next,
       ForkStep, PauseStep, PlanStep, JobStep, DelegateStep, StartStep

LEMMA AskedNext ==
  ASSUME TypeOK, NEW v \in Work, Asked(v), Placed(v), Unbegun(v), Listed(v), [Next]_vars
  PROVE  Asked(v)'
<1>. SUFFICES ASSUME kind[v] = "plan" PROVE Asked(v)'
    BY KindNext DEF Asked
<1>p. kind[v] = "plan"
    OBVIOUS
<1>l. lost \in 0..MaxLost
    BY DEF TypeOK
<1>t. /\ rec \in [Work -> RecState] /\ ask \in [Work -> {"none", "waiting", "answered"}]
     /\ runs \in [Work -> 0..1] /\ taken \in [Work -> [Item -> 0..1]]
     /\ ran \in [Work -> SUBSET Item] /\ said \in [Work -> SUBSET Note]
    BY DEF TypeOK, RecState, Note
<1>. USE DEF IsOpen
<1>1. ASSUME NEW B \in SUBSET Of("fork"), ForkPrepare(B) PROVE Asked(v)'
  <2>1. lost' = 0 => lost = 0
      BY <1>1 DEF ForkPrepare, rest
  <2>2. /\ rec'[v] = rec[v] /\ ask'[v] = ask[v] /\ said'[v] = said[v] /\ kind'[v] = kind[v]
        /\ ran'[v] = ran[v] /\ runs'[v] = runs[v] /\ taken'[v] = taken[v]
      BY <1>1, <1>t, <1>p DEF ForkPrepare, Placed, Put, Of, disk, memory,
         rest
  <2>3. /\ life' \in {"down", "sweeping"} => life \in {"down", "sweeping"}
        /\ v \in todo' => v \in todo
      BY <1>1 DEF ForkPrepare, start
  <2>. QED
      BY <2>1, <2>2, <2>3, AskedRests
<1>2. ASSUME NEW B \in SUBSET Of("fork"), NEW miss \in SUBSET B, ForkRefused(B, miss)
      PROVE Asked(v)'
  <2>0. IsFiniteSet(miss)
      BY PendingConstants, FS_Subset DEF PendingConstants, Of
  <2>1. lost' = 0 => lost = 0
      BY <1>2, <1>l, <2>0, NothingLost, FS_CardinalityType DEF ForkRefused
  <2>2. /\ rec'[v] = rec[v] /\ ask'[v] = ask[v] /\ said'[v] = said[v] /\ kind'[v] = kind[v]
        /\ ran'[v] = ran[v] /\ runs'[v] = runs[v] /\ taken'[v] = taken[v]
      BY <1>2, <1>t, <1>p DEF ForkRefused, Placed, Put, Of, disk, memory,
         rest
  <2>3. /\ life' \in {"down", "sweeping"} => life \in {"down", "sweeping"}
        /\ v \in todo' => v \in todo
      BY <1>2 DEF ForkRefused, start
  <2>. QED
      BY <2>1, <2>2, <2>3, AskedRests
<1>3. ASSUME NEW miss \in SUBSET Work, JoinEnds(miss) PROVE Asked(v)'
  <2>0. IsFiniteSet(miss)
      BY PendingConstants, FS_Subset DEF PendingConstants, Of
  <2>1. lost' = 0 => lost = 0
      BY <1>3, <1>l, <2>0, NothingLost, FS_CardinalityType DEF JoinEnds
  <2>2. /\ rec'[v] = rec[v] /\ ask'[v] = ask[v] /\ said'[v] = said[v] /\ kind'[v] = kind[v]
        /\ ran'[v] = ran[v] /\ runs'[v] = runs[v] /\ taken'[v] = taken[v]
      BY <1>3, <1>t, <1>p DEF JoinEnds, InCall, Placed, Put, Of, disk,
         memory, rest
  <2>3. /\ life' \in {"down", "sweeping"} => life \in {"down", "sweeping"}
        /\ v \in todo' => v \in todo
      BY <1>3 DEF JoinEnds, start
  <2>. QED
      BY <2>1, <2>2, <2>3, AskedRests
<1>4. CASE Detach
  <2>1. lost' = 0 => lost = 0
      BY <1>4 DEF Detach, rest
  <2>2. /\ rec'[v] = rec[v] /\ ask'[v] = ask[v] /\ said'[v] = said[v] /\ kind'[v] = kind[v]
        /\ ran'[v] = ran[v] /\ runs'[v] = runs[v] /\ taken'[v] = taken[v]
      BY <1>4, <1>t, <1>p DEF Detach, InCall, Placed, Put, Of, disk,
         memory, rest
  <2>3. /\ life' \in {"down", "sweeping"} => life \in {"down", "sweeping"}
        /\ v \in todo' => v \in todo
      BY <1>4 DEF Detach, start
  <2>. QED
      BY <2>1, <2>2, <2>3, AskedRests
<1>5. ASSUME NEW w \in Work, NEW s \in BOOLEAN, NEW n \in BOOLEAN, Admit(w, s, n) PROVE Asked(v)'
  <2>1. lost' = 0 => lost = 0
      BY <1>5, <1>l, NothingLost, MissedType DEF Admit
  <2>2. /\ rec'[v] = rec[v] /\ ask'[v] = ask[v] /\ said'[v] = said[v] /\ kind'[v] = kind[v]
        /\ ran'[v] = ran[v] /\ runs'[v] = runs[v] /\ taken'[v] = taken[v]
      BY <1>5, <1>t, <1>p DEF Admit, Admitted, Placed, Put, Of, disk,
         memory, rest
  <2>3. /\ life' \in {"down", "sweeping"} => life \in {"down", "sweeping"}
        /\ v \in todo' => v \in todo
      BY <1>5 DEF Admit, start
  <2>. QED
      BY <2>1, <2>2, <2>3, AskedRests
<1>6. ASSUME NEW w \in Work, ChildBegin(w) PROVE Asked(v)'
  <2>1. lost' = 0 => lost = 0
      BY <1>6 DEF ChildBegin, rest
  <2>2. /\ rec'[v] = rec[v] /\ ask'[v] = ask[v] /\ said'[v] = said[v] /\ kind'[v] = kind[v]
        /\ ran'[v] = ran[v] /\ runs'[v] = runs[v] /\ taken'[v] = taken[v]
      BY <1>6, <1>t, <1>p DEF ChildBegin, Placed, Put, Of, disk, memory,
         rest
  <2>3. /\ life' \in {"down", "sweeping"} => life \in {"down", "sweeping"}
        /\ v \in todo' => v \in todo
      BY <1>6 DEF ChildBegin, start
  <2>. QED
      BY <2>1, <2>2, <2>3, AskedRests
<1>7. ASSUME NEW w \in Work, ChildEnd(w) PROVE Asked(v)'
  <2>1. lost' = 0 => lost = 0
      BY <1>7 DEF ChildEnd, rest
  <2>2. /\ rec'[v] = rec[v] /\ ask'[v] = ask[v] /\ said'[v] = said[v] /\ kind'[v] = kind[v]
        /\ ran'[v] = ran[v] /\ runs'[v] = runs[v] /\ taken'[v] = taken[v]
      BY <1>7, <1>t, <1>p DEF ChildEnd, Landing, Placed, Put, Of, disk,
         memory, rest
  <2>3. /\ life' \in {"down", "sweeping"} => life \in {"down", "sweeping"}
        /\ v \in todo' => v \in todo
      BY <1>7 DEF ChildEnd, start
  <2>. QED
      BY <2>1, <2>2, <2>3, AskedRests
<1>8. ASSUME NEW w \in Work, ChildPutOff(w) PROVE Asked(v)'
  <2>1. lost' = 0 => lost = 0
      BY <1>8 DEF ChildPutOff, rest
  <2>2. /\ rec'[v] = rec[v] /\ ask'[v] = ask[v] /\ said'[v] = said[v] /\ kind'[v] = kind[v]
        /\ ran'[v] = ran[v] /\ runs'[v] = runs[v] /\ taken'[v] = taken[v]
      BY <1>8, <1>t, <1>p DEF ChildPutOff, Landing, Placed, Put, Of, disk,
         memory, rest
  <2>3. /\ life' \in {"down", "sweeping"} => life \in {"down", "sweeping"}
        /\ v \in todo' => v \in todo
      BY <1>8 DEF ChildPutOff, start
  <2>. QED
      BY <2>1, <2>2, <2>3, AskedRests
<1>9. ASSUME NEW w \in Work, NEW d \in BOOLEAN, NEW x \in BOOLEAN, LateReport(w, d, x)
      PROVE Asked(v)'
  <2>1. lost' = 0 => lost = 0
      BY <1>9, <1>l, NothingLost, MissedType DEF LateReport, Deliver
  <2>2. /\ rec'[v] = rec[v] /\ ask'[v] = ask[v] /\ said'[v] = said[v] /\ kind'[v] = kind[v]
        /\ ran'[v] = ran[v] /\ runs'[v] = runs[v] /\ taken'[v] = taken[v]
      BY <1>9, <1>t, <1>p DEF LateReport, Deliver, Placed, Put, Of, disk,
         memory, rest
  <2>3. /\ life' \in {"down", "sweeping"} => life \in {"down", "sweeping"}
        /\ v \in todo' => v \in todo
      BY <1>9 DEF LateReport, start
  <2>. QED
      BY <2>1, <2>2, <2>3, AskedRests
<1>10. ASSUME NEW w \in Work, ReadNote(w) PROVE Asked(v)'
  <2>1. lost' = 0 => lost = 0
      BY <1>10 DEF ReadNote, rest
  <2>2. /\ rec'[v] = rec[v] /\ ask'[v] = ask[v] /\ said'[v] = said[v] /\ kind'[v] = kind[v]
        /\ ran'[v] = ran[v] /\ runs'[v] = runs[v] /\ taken'[v] = taken[v]
      BY <1>10, <1>t, <1>p DEF ReadNote, Placed, Put, Of, disk, memory, rest
  <2>3. /\ life' \in {"down", "sweeping"} => life \in {"down", "sweeping"}
        /\ v \in todo' => v \in todo
      BY <1>10 DEF ReadNote, start
  <2>. QED
      BY <2>1, <2>2, <2>3, AskedRests
<1>11. ASSUME NEW w \in Work, NEW r \in BOOLEAN, Confirm(w, r) PROVE Asked(v)'
  <2>0. lost' = 0 => lost = 0
      BY <1>11, <1>l, NothingLost, MissedType DEF Confirm
  <2>1. ASSUME w # v PROVE Asked(v)'
    <3>1. /\ rec'[v] = rec[v] /\ ask'[v] = ask[v] /\ said'[v] = said[v] /\ kind'[v] = kind[v]
          /\ ran'[v] = ran[v] /\ runs'[v] = runs[v] /\ taken'[v] = taken[v]
        BY <1>11, <1>t, <2>1 DEF Confirm, Put, disk, memory, rest
    <3>2. life' = life /\ (v \in todo' => v \in todo)
        BY <1>11 DEF Confirm, start
    <3>. QED
        BY <2>0, <3>1, <3>2, AskedRests
  <2>2. ASSUME w = v PROVE Asked(v)'
    <3>1. rec[v] = "none" /\ ask[v] = "none" /\ ask'[v] = "waiting"
        BY <1>11, <2>2, <1>t DEF Confirm, Put
    <3>2. Fresh(v) /\ v \notin todo
        BY <3>1 DEF Unbegun, Fresh
    <3>3. Fresh(v)' /\ v \notin todo' /\ said' = said /\ runs'[v] = 0
        BY <1>11, <3>2 DEF Confirm, Fresh, memory, start
    <3>4. lost' = 0 => rec'[v] = "open"
      <4>1. lost' = 0 => r
          BY <1>11, <1>l, NothingMissed, MissedType DEF Confirm, Missed
      <4>. QED
          BY <4>1, <1>11, <2>2, <1>t DEF Confirm, Put
    <3>5. AskedNow(v)'
        BY <3>3 DEF AskedNow
    <3>6. lost' = 0 => ToldTrue(v)'
        BY <2>0, <1>p, <3>1, <3>3, <3>4 DEF Asked, ToldTrue
    <3>. QED
        BY <3>5, <3>6 DEF Asked
  <2>. QED
      BY <2>1, <2>2
<1>12. ASSUME NEW w \in Work, AnswerPause(w) PROVE Asked(v)'
  <2>1. lost' = 0 => lost = 0
      BY <1>12 DEF AnswerPause, rest
  <2>2. /\ rec'[v] = rec[v] /\ ask'[v] = ask[v] /\ said'[v] = said[v] /\ kind'[v] = kind[v]
        /\ ran'[v] = ran[v] /\ runs'[v] = runs[v] /\ taken'[v] = taken[v]
      BY <1>12, <1>t, <1>p DEF AnswerPause, Placed, Put, Of, disk, memory,
         rest
  <2>3. /\ life' \in {"down", "sweeping"} => life \in {"down", "sweeping"}
        /\ v \in todo' => v \in todo
      BY <1>12 DEF AnswerPause, start
  <2>. QED
      BY <2>1, <2>2, <2>3, AskedRests
<1>13. ASSUME NEW w \in Work, Callback(w) PROVE Asked(v)'
  <2>1. lost' = 0 => lost = 0
      BY <1>13 DEF Callback, rest
  <2>2. /\ rec'[v] = rec[v] /\ ask'[v] = ask[v] /\ said'[v] = said[v] /\ kind'[v] = kind[v]
        /\ ran'[v] = ran[v] /\ runs'[v] = runs[v] /\ taken'[v] = taken[v]
      BY <1>13, <1>t, <1>p DEF Callback, Placed, Put, Of, disk, memory, rest
  <2>3. /\ life' \in {"down", "sweeping"} => life \in {"down", "sweeping"}
        /\ v \in todo' => v \in todo
      BY <1>13 DEF Callback, start
  <2>. QED
      BY <2>1, <2>2, <2>3, AskedRests
<1>14. ASSUME NEW w \in Work, NEW r \in BOOLEAN, NEW x \in BOOLEAN, FollowUp(w, r, x)
       PROVE Asked(v)'
  <2>1. lost' = 0 => lost = 0
      BY <1>14, <1>l, NothingLost, MissedType DEF FollowUp
  <2>2. /\ rec'[v] = rec[v] /\ ask'[v] = ask[v] /\ said'[v] = said[v] /\ kind'[v] = kind[v]
        /\ ran'[v] = ran[v] /\ runs'[v] = runs[v] /\ taken'[v] = taken[v]
      BY <1>14, <1>t, <1>p DEF FollowUp, Placed, Put, Of, disk, memory, rest
  <2>3. /\ life' \in {"down", "sweeping"} => life \in {"down", "sweeping"}
        /\ v \in todo' => v \in todo
      BY <1>14 DEF FollowUp, start
  <2>. QED
      BY <2>1, <2>2, <2>3, AskedRests
<1>15. ASSUME NEW w \in Work, NEW d \in BOOLEAN, NEW x \in BOOLEAN, DeliverDue(w, d, x)
       PROVE Asked(v)'
  <2>1. lost' = 0 => lost = 0
      BY <1>15, <1>l, NothingLost, MissedType DEF DeliverDue
  <2>2. /\ rec'[v] = rec[v] /\ ask'[v] = ask[v] /\ said'[v] = said[v] /\ kind'[v] = kind[v]
        /\ ran'[v] = ran[v] /\ runs'[v] = runs[v] /\ taken'[v] = taken[v]
      BY <1>15, <1>t, <1>p DEF DeliverDue, Placed, Put, Of, disk, memory,
         rest
  <2>3. /\ life' \in {"down", "sweeping"} => life \in {"down", "sweeping"}
        /\ v \in todo' => v \in todo
      BY <1>15 DEF DeliverDue, start
  <2>. QED
      BY <2>1, <2>2, <2>3, AskedRests
<1>16. ASSUME NEW w \in Work, NEW n \in BOOLEAN, Submit(w, n) PROVE Asked(v)'
  <2>0. lost' = 0 => lost = 0
      BY <1>16, <1>l, NothingLost, MissedType DEF Submit
  <2>1. ASSUME w # v PROVE Asked(v)'
    <3>1. /\ rec'[v] = rec[v] /\ ask'[v] = ask[v] /\ said'[v] = said[v] /\ kind'[v] = kind[v]
          /\ ran'[v] = ran[v] /\ runs'[v] = runs[v] /\ taken'[v] = taken[v]
        BY <1>16, <1>t, <2>1 DEF Submit, Admitted, Started, Put, disk, memory, rest
    <3>2. life' = life /\ (v \in todo' => v \in todo)
        BY <1>16 DEF Submit, start
    <3>. QED
        BY <2>0, <3>1, <3>2, AskedRests
  <2>2. ASSUME w = v PROVE Asked(v)'
    <3>1. ask[v] = "none" /\ ask'[v] = "none" /\ said' = said
        BY <1>16, <2>2 DEF Submit
    <3>2. AskedNow(v)'
        BY <3>1 DEF AskedNow
    <3>3. lost' = 0 => ToldTrue(v)'
        BY <2>0, <1>p, <3>1 DEF Asked, ToldTrue
    <3>. QED
        BY <3>2, <3>3 DEF Asked
  <2>. QED
      BY <2>1, <2>2
<1>17. ASSUME NEW w \in Work, NEW a \in BOOLEAN, NEW d \in BOOLEAN, NEW x \in BOOLEAN, AnswerPlan(w, a, d, x)
       PROVE Asked(v)'
  <2>0. lost' = 0 => lost = 0
    <3>1. \/ lost' = lost \/ LoseAppends(Missed(x)) \/ Deliver(w, "nothing ran", d, x)
        BY <1>17 DEF AnswerPlan
    <3>. QED
        BY <3>1, <1>l, NothingLost, MissedType, DeliverNothingLost
  <2>1. ASSUME w # v PROVE Asked(v)'
    <3>1. /\ rec'[v] = rec[v] /\ ask'[v] = ask[v] /\ said'[v] = said[v] /\ kind'[v] = kind[v]
          /\ ran'[v] = ran[v] /\ runs'[v] = runs[v] /\ taken'[v] = taken[v]
        BY <1>17, <1>t, <2>1 DEF AnswerPlan, Admitted, Started, Deliver, Put, disk, memory, rest
    <3>2. life' = life /\ (v \in todo' => v \in todo)
        BY <1>17 DEF AnswerPlan, start
    <3>. QED
        BY <2>0, <3>1, <3>2, AskedRests
  <2>2. ASSUME w = v PROVE Asked(v)'
    <3>1. ask[v] = "waiting" /\ ask'[v] = "answered" /\ life' = "up" /\ v \notin todo'
        BY <1>17, <2>2, <1>t DEF AnswerPlan, Put, start, Listed
    <3>2. AskedNow(v)'
        BY <3>1 DEF AskedNow
    <3>3. ASSUME lost' = 0 PROVE ToldTrue(v)'
      <4>1. rec[v] = "open" /\ Fresh(v) /\ "nothing ran" \notin said[v]
          BY <2>0, <1>p, <3>1, <3>3 DEF Asked, ToldTrue
      <4>2. CASE a
        <5>1. LoseAppends(Missed(x)) /\ Admitted(w, x) /\ said' = said
            BY <1>17, <2>2, <4>1, <4>2 DEF AnswerPlan
        <5>2. x
            BY <5>1, <3>3, <1>l, NothingMissed, MissedType DEF Missed
        <5>3. rec'[v] = "admitted"
            BY <5>1, <5>2, <2>2, <1>t DEF Admitted, Put
        <5>. QED
            BY <5>1, <5>3, <3>1, <4>1 DEF ToldTrue
      <4>3. CASE ~a
        <5>1. Deliver(w, "nothing ran", d, x) /\ runs' = runs
            BY <1>17, <2>2, <4>1, <4>3 DEF AnswerPlan
        <5>3. d /\ x
            BY <5>1, <3>3, <1>l, DeliverMissedNone
        <5>4. rec'[v] = "closed"
            BY <5>1, <5>3, <2>2, <1>t DEF Deliver, Closes, Put
        <5>5. Fresh(v)'
            BY <1>17, <5>1, <4>1 DEF AnswerPlan, Fresh
        <5>. QED
            BY <5>4, <5>5, <3>1 DEF ToldTrue
      <4>. QED
          BY <4>2, <4>3
    <3>. QED
        BY <3>2, <3>3 DEF Asked
  <2>. QED
      BY <2>1, <2>2
<1>18. ASSUME NEW w \in Work, NEW i \in Item, TakeItem(w, i) PROVE Asked(v)'
  <2>0. lost' = lost
      BY <1>18 DEF TakeItem
  <2>1. ASSUME w # v PROVE Asked(v)'
    <3>1. /\ rec'[v] = rec[v] /\ ask'[v] = ask[v] /\ said'[v] = said[v] /\ kind'[v] = kind[v]
          /\ ran'[v] = ran[v] /\ runs'[v] = runs[v] /\ taken'[v] = taken[v]
        BY <1>18, <1>t, <2>1 DEF TakeItem, Put, disk, memory, rest
    <3>2. life' = life /\ (v \in todo' => v \in todo)
        BY <1>18 DEF TakeItem, start
    <3>. QED
        BY <2>0, <3>1, <3>2, AskedRests
  <2>2. ASSUME w = v PROVE Asked(v)'
    <3>0. runs[w] > 0 \/ \E j \in Item : taken[w][j] > 0
      <4>1. taken[w][i] \in 0..1 /\ runs[w] \in 0..1
          BY <1>t
      <4>. QED
          BY <4>1, <1>18 DEF TakeItem, WorkersGoOn
    <3>1. ~Fresh(v)
        BY <3>0, <2>2 DEF Fresh
    <3>2. lost = 0 => ask[v] # "waiting" /\ "nothing ran" \notin said[v]
        BY <1>p, <3>1 DEF Asked, ToldTrue
    <3>3. ask' = ask /\ rec' = rec /\ said' = said /\ runs' = runs /\ life' = life /\ todo' = todo
        BY <1>18 DEF TakeItem, disk, start
    <3>4. AskedNow(v)'
        BY <1>p, <3>3 DEF Asked, AskedNow, IsOpen
    <3>5. lost' = 0 => ToldTrue(v)'
        BY <1>p, <2>0, <3>2, <3>3 DEF Asked, ToldTrue
    <3>. QED
        BY <3>4, <3>5 DEF Asked
  <2>. QED
      BY <2>1, <2>2
<1>19. ASSUME NEW w \in Work, NEW i \in Item, NEW k \in BOOLEAN, KeepAnswer(w, i, k) PROVE Asked(v)'
  <2>0. lost' = 0 => lost = 0
      BY <1>19, <1>l, NothingLost, MissedType DEF KeepAnswer
  <2>1. ASSUME w # v PROVE Asked(v)'
    <3>1. /\ rec'[v] = rec[v] /\ ask'[v] = ask[v] /\ said'[v] = said[v] /\ kind'[v] = kind[v]
          /\ ran'[v] = ran[v] /\ runs'[v] = runs[v] /\ taken'[v] = taken[v]
        BY <1>19, <1>t, <2>1 DEF KeepAnswer, Put, disk, memory, rest
    <3>2. life' = life /\ (v \in todo' => v \in todo)
        BY <1>19 DEF KeepAnswer, start
    <3>. QED
        BY <2>0, <3>1, <3>2, AskedRests
  <2>2. ASSUME w = v PROVE Asked(v)'
    <3>1. ~Fresh(v)
        BY <1>19, <2>2, <1>t DEF KeepAnswer, Fresh
    <3>2. lost = 0 => ask[v] # "waiting" /\ "nothing ran" \notin said[v]
        BY <1>p, <3>1 DEF Asked, ToldTrue
    <3>3. ask' = ask /\ rec' = rec /\ said' = said /\ life' = life /\ todo' = todo
        BY <1>19 DEF KeepAnswer, start
    <3>4. runs'[v] = runs[v] \/ runs'[v] = 0
        BY <1>19, <2>2, <1>t DEF KeepAnswer, Put
    <3>5. AskedNow(v)'
        BY <1>p, <3>3, <3>4 DEF Asked, AskedNow, IsOpen
    <3>6. lost' = 0 => ToldTrue(v)'
        BY <1>p, <2>0, <3>2, <3>3 DEF Asked, ToldTrue
    <3>. QED
        BY <3>5, <3>6 DEF Asked
  <2>. QED
      BY <2>1, <2>2
<1>20. ASSUME NEW w \in Work, NEW d \in BOOLEAN, NEW x \in BOOLEAN, PlanDone(w, d, x)
       PROVE Asked(v)'
  <2>0. lost' = 0 => lost = 0
      BY <1>20, <1>l, NothingLost, MissedType DEF PlanDone, Deliver
  <2>1. ASSUME w # v PROVE Asked(v)'
    <3>1. /\ rec'[v] = rec[v] /\ ask'[v] = ask[v] /\ said'[v] = said[v] /\ kind'[v] = kind[v]
          /\ ran'[v] = ran[v] /\ runs'[v] = runs[v] /\ taken'[v] = taken[v]
        BY <1>20, <1>t, <2>1 DEF PlanDone, Deliver, Put, disk, memory, rest
    <3>2. life' = life /\ (v \in todo' => v \in todo)
        BY <1>20 DEF PlanDone, start
    <3>. QED
        BY <2>0, <3>1, <3>2, AskedRests
  <2>2. ASSUME w = v PROVE Asked(v)'
    <3>1. runs[v] # 0 /\ ~Fresh(v)
        BY <1>20, <2>2, <1>t DEF PlanDone, Fresh
    <3>2. lost = 0 => ask[v] # "waiting" /\ "nothing ran" \notin said[v]
        BY <1>p, <3>1 DEF Asked, ToldTrue
    <3>3. ask[v] # "none" => life \notin {"down", "sweeping"} /\ v \notin todo
        BY <1>p, <3>1 DEF Asked, AskedNow
    <3>4. ask' = ask /\ life' = life /\ todo' = todo /\ Deliver(w, "result", d, x)
        BY <1>20 DEF PlanDone, start
    <3>5. "nothing ran" \in said'[v] => "nothing ran" \in said[v]
        BY <3>4, <2>2, <1>t DEF Deliver
    <3>6. rec'[v] = rec[v] \/ rec'[v] = "closed"
        BY <3>4, <2>2, <1>t DEF Deliver, Put
    <3>7. AskedNow(v)'
        BY <3>3, <3>4 DEF AskedNow
    <3>8. lost' = 0 => ToldTrue(v)'
        BY <1>p, <2>0, <3>2, <3>4, <3>5, <3>6 DEF Asked, ToldTrue
    <3>. QED
        BY <3>7, <3>8 DEF Asked
  <2>. QED
      BY <2>1, <2>2
<1>21. ASSUME NEW w \in Work, JobStart(w) PROVE Asked(v)'
  <2>1. lost' = 0 => lost = 0
      BY <1>21 DEF JobStart, rest
  <2>2. /\ rec'[v] = rec[v] /\ ask'[v] = ask[v] /\ said'[v] = said[v] /\ kind'[v] = kind[v]
        /\ ran'[v] = ran[v] /\ runs'[v] = runs[v] /\ taken'[v] = taken[v]
      BY <1>21, <1>t, <1>p DEF JobStart, Placed, Put, Of, disk, memory, rest
  <2>3. /\ life' \in {"down", "sweeping"} => life \in {"down", "sweeping"}
        /\ v \in todo' => v \in todo
      BY <1>21 DEF JobStart, start
  <2>. QED
      BY <2>1, <2>2, <2>3, AskedRests
<1>22. ASSUME NEW w \in Work, NEW d \in BOOLEAN, NEW x \in BOOLEAN, JobDone(w, d, x) PROVE Asked(v)'
  <2>1. lost' = 0 => lost = 0
      BY <1>22, <1>l, NothingLost, MissedType DEF JobDone, Deliver
  <2>2. /\ rec'[v] = rec[v] /\ ask'[v] = ask[v] /\ said'[v] = said[v] /\ kind'[v] = kind[v]
        /\ ran'[v] = ran[v] /\ runs'[v] = runs[v] /\ taken'[v] = taken[v]
      BY <1>22, <1>t, <1>p DEF JobDone, Deliver, Placed, Put, Of, disk,
         memory, rest
  <2>3. /\ life' \in {"down", "sweeping"} => life \in {"down", "sweeping"}
        /\ v \in todo' => v \in todo
      BY <1>22 DEF JobDone, start
  <2>. QED
      BY <2>1, <2>2, <2>3, AskedRests
<1>23. ASSUME NEW w \in Work, DelegatePrepare(w) PROVE Asked(v)'
  <2>1. lost' = 0 => lost = 0
      BY <1>23 DEF DelegatePrepare, rest
  <2>2. /\ rec'[v] = rec[v] /\ ask'[v] = ask[v] /\ said'[v] = said[v] /\ kind'[v] = kind[v]
        /\ ran'[v] = ran[v] /\ runs'[v] = runs[v] /\ taken'[v] = taken[v]
      BY <1>23, <1>t, <1>p DEF DelegatePrepare, Placed, Put, Of, disk,
         memory, rest
  <2>3. /\ life' \in {"down", "sweeping"} => life \in {"down", "sweeping"}
        /\ v \in todo' => v \in todo
      BY <1>23 DEF DelegatePrepare, start
  <2>. QED
      BY <2>1, <2>2, <2>3, AskedRests
<1>24. ASSUME NEW w \in Work, NEW n \in BOOLEAN, DelegateStart(w, n) PROVE Asked(v)'
  <2>1. lost' = 0 => lost = 0
      BY <1>24, <1>l, NothingLost, MissedType DEF DelegateStart
  <2>2. /\ rec'[v] = rec[v] /\ ask'[v] = ask[v] /\ said'[v] = said[v] /\ kind'[v] = kind[v]
        /\ ran'[v] = ran[v] /\ runs'[v] = runs[v] /\ taken'[v] = taken[v]
      BY <1>24, <1>t, <1>p DEF DelegateStart, Admitted, Placed, Put, Of,
         disk, memory, rest
  <2>3. /\ life' \in {"down", "sweeping"} => life \in {"down", "sweeping"}
        /\ v \in todo' => v \in todo
      BY <1>24 DEF DelegateStart, start
  <2>. QED
      BY <2>1, <2>2, <2>3, AskedRests
<1>25. ASSUME NEW w \in Work, NEW how \in {"exited", "interrupted"}, JobEnds(w, how) PROVE Asked(v)'
  <2>1. lost' = 0 => lost = 0
      BY <1>25 DEF JobEnds, rest
  <2>2. /\ rec'[v] = rec[v] /\ ask'[v] = ask[v] /\ said'[v] = said[v] /\ kind'[v] = kind[v]
        /\ ran'[v] = ran[v] /\ runs'[v] = runs[v] /\ taken'[v] = taken[v]
      BY <1>25, <1>t, <1>p DEF JobEnds, Placed, Put, Of, disk, memory, rest
  <2>3. /\ life' \in {"down", "sweeping"} => life \in {"down", "sweeping"}
        /\ v \in todo' => v \in todo
      BY <1>25 DEF JobEnds, start
  <2>. QED
      BY <2>1, <2>2, <2>3, AskedRests
<1>26. ASSUME NEW w \in Work, Observe(w) PROVE Asked(v)'
  <2>1. lost' = 0 => lost = 0
      BY <1>26 DEF Observe, rest
  <2>2. /\ rec'[v] = rec[v] /\ ask'[v] = ask[v] /\ said'[v] = said[v] /\ kind'[v] = kind[v]
        /\ ran'[v] = ran[v] /\ runs'[v] = runs[v] /\ taken'[v] = taken[v]
      BY <1>26, <1>t, <1>p DEF Observe, Placed, Put, Of, disk, memory, rest
  <2>3. /\ life' \in {"down", "sweeping"} => life \in {"down", "sweeping"}
        /\ v \in todo' => v \in todo
      BY <1>26 DEF Observe, start
  <2>. QED
      BY <2>1, <2>2, <2>3, AskedRests
<1>27. ASSUME NEW w \in Work, NEW x \in BOOLEAN, Settle(w, x) PROVE Asked(v)'
  <2>1. lost' = 0 => lost = 0
      BY <1>27, <1>l, NothingLost, MissedType DEF Settle
  <2>2. /\ rec'[v] = rec[v] /\ ask'[v] = ask[v] /\ said'[v] = said[v] /\ kind'[v] = kind[v]
        /\ ran'[v] = ran[v] /\ runs'[v] = runs[v] /\ taken'[v] = taken[v]
      BY <1>27, <1>t, <1>p DEF Settle, Placed, Put, Of, disk, memory, rest
  <2>3. /\ life' \in {"down", "sweeping"} => life \in {"down", "sweeping"}
        /\ v \in todo' => v \in todo
      BY <1>27 DEF Settle, start
  <2>. QED
      BY <2>1, <2>2, <2>3, AskedRests
<1>28. ASSUME NEW w \in Work, NEW d \in BOOLEAN, TellEnded(w, d) PROVE Asked(v)'
  <2>1. lost' = 0 => lost = 0
      BY <1>28, <1>l, NothingLost, MissedType DEF TellEnded
  <2>2. /\ rec'[v] = rec[v] /\ ask'[v] = ask[v] /\ said'[v] = said[v] /\ kind'[v] = kind[v]
        /\ ran'[v] = ran[v] /\ runs'[v] = runs[v] /\ taken'[v] = taken[v]
      BY <1>28, <1>t, <1>p DEF TellEnded, Placed, Put, Of, disk, memory,
         rest
  <2>3. /\ life' \in {"down", "sweeping"} => life \in {"down", "sweeping"}
        /\ v \in todo' => v \in todo
      BY <1>28 DEF TellEnded, start
  <2>. QED
      BY <2>1, <2>2, <2>3, AskedRests
<1>29. ASSUME NEW w \in Work, NEW d \in BOOLEAN, NEW x \in BOOLEAN, SweepFork(w, d, x)
       PROVE Asked(v)'
  <2>1. lost' = 0 => lost = 0
      BY <1>29, <1>l, NothingLost, MissedType DEF SweepFork, Deliver
  <2>2. /\ rec'[v] = rec[v] /\ ask'[v] = ask[v] /\ said'[v] = said[v] /\ kind'[v] = kind[v]
        /\ ran'[v] = ran[v] /\ runs'[v] = runs[v] /\ taken'[v] = taken[v]
      BY <1>29, <1>t, <1>p DEF SweepFork, Deliver, Placed, Put, Of, disk,
         memory, rest
  <2>3. /\ life' \in {"down", "sweeping"} => life \in {"down", "sweeping"}
        /\ v \in todo' => v \in todo
      BY <1>29 DEF SweepFork, start
  <2>. QED
      BY <2>1, <2>2, <2>3, AskedRests
<1>30. ASSUME NEW w \in Work, NEW d \in BOOLEAN, NEW x \in BOOLEAN, SweepDelegate(w, d, x)
       PROVE Asked(v)'
  <2>1. lost' = 0 => lost = 0
      BY <1>30, <1>l, NothingLost, MissedType DEF SweepDelegate, Deliver
  <2>2. /\ rec'[v] = rec[v] /\ ask'[v] = ask[v] /\ said'[v] = said[v] /\ kind'[v] = kind[v]
        /\ ran'[v] = ran[v] /\ runs'[v] = runs[v] /\ taken'[v] = taken[v]
      BY <1>30, <1>t, <1>p DEF SweepDelegate, Deliver, Placed, Put, Of,
         disk, memory, rest
  <2>3. /\ life' \in {"down", "sweeping"} => life \in {"down", "sweeping"}
        /\ v \in todo' => v \in todo
      BY <1>30 DEF SweepDelegate, start
  <2>. QED
      BY <2>1, <2>2, <2>3, AskedRests
<1>31. ASSUME NEW w \in Work, NEW d \in BOOLEAN, NEW x \in BOOLEAN, RecoverJob(w, d, x)
       PROVE Asked(v)'
  <2>1. lost' = 0 => lost = 0
      BY <1>31, <1>l, NothingLost, MissedType DEF RecoverJob, Deliver
  <2>2. /\ rec'[v] = rec[v] /\ ask'[v] = ask[v] /\ said'[v] = said[v] /\ kind'[v] = kind[v]
        /\ ran'[v] = ran[v] /\ runs'[v] = runs[v] /\ taken'[v] = taken[v]
      BY <1>31, <1>t, <1>p DEF RecoverJob, Recovering, Deliver, Placed, Put,
         Of, disk, memory, rest
  <2>3. /\ life' \in {"down", "sweeping"} => life \in {"down", "sweeping"}
        /\ v \in todo' => v \in todo
      BY <1>31 DEF RecoverJob, start, Recovering
  <2>. QED
      BY <2>1, <2>2, <2>3, AskedRests
<1>32. ASSUME NEW w \in Work, NEW d \in BOOLEAN, NEW x \in BOOLEAN, RecoverPause(w, d, x)
       PROVE Asked(v)'
  <2>1. lost' = 0 => lost = 0
    <3>1. lost' = lost \/ Deliver(w, "did not run", d, x)
        BY <1>32 DEF RecoverPause
    <3>. QED
        BY <3>1, <1>l, NothingLost, MissedType, DeliverNothingLost
  <2>2. /\ rec'[v] = rec[v] /\ ask'[v] = ask[v] /\ said'[v] = said[v] /\ kind'[v] = kind[v]
        /\ ran'[v] = ran[v] /\ runs'[v] = runs[v] /\ taken'[v] = taken[v]
      BY <1>32, <1>t, <1>p DEF RecoverPause, Recovering, Deliver, Placed,
         Put, Of, disk, memory, rest
  <2>3. /\ life' \in {"down", "sweeping"} => life \in {"down", "sweeping"}
        /\ v \in todo' => v \in todo
      BY <1>32 DEF RecoverPause, start, Recovering
  <2>. QED
      BY <2>1, <2>2, <2>3, AskedRests
<1>33. ASSUME NEW w \in Work, NEW d \in BOOLEAN, NEW x \in BOOLEAN, RecoverPlan(w, d, x)
       PROVE Asked(v)'
  <2>0. lost' = 0 => lost = 0
    <3>1. lost' = lost \/ Deliver(w, "nothing ran", d, x)
        BY <1>33 DEF RecoverPlan
    <3>. QED
        BY <3>1, <1>l, NothingLost, MissedType, DeliverNothingLost
  <2>1. ASSUME w # v PROVE Asked(v)'
    <3>1. /\ rec'[v] = rec[v] /\ ask'[v] = ask[v] /\ said'[v] = said[v] /\ kind'[v] = kind[v]
          /\ ran'[v] = ran[v] /\ runs'[v] = runs[v] /\ taken'[v] = taken[v]
        BY <1>33, <1>t, <2>1 DEF RecoverPlan, Started, Deliver, Put, disk, memory, rest
    <3>2. life' = life /\ (v \in todo' => v \in todo)
        BY <1>33 DEF RecoverPlan, start
    <3>. QED
        BY <2>0, <3>1, <3>2, AskedRests
  <2>2. ASSUME w = v PROVE Asked(v)'
    <3>1. v \in todo /\ v \notin todo' /\ life' = "recovering" /\ ask' = ask
        BY <1>33, <2>2 DEF RecoverPlan, Recovering
    <3>2. AskedNow(v)'
        BY <3>1 DEF AskedNow
    <3>3. ask[v] # "none" => IsOpen(v) /\ runs[v] = 0
        BY <1>p, <3>1 DEF Asked, AskedNow
    <3>4. ASSUME lost' = 0 PROVE ToldTrue(v)'
      <4>1. lost = 0 /\ ToldTrue(v)
          BY <3>4, <2>0, <1>p DEF Asked
      <4>2. CASE StartedPlan(w) /\ runs' = Started(w) /\ rec' = rec /\ said' = said
        <5>1. ask[v] # "waiting" /\ "nothing ran" \notin said[v]
            BY <4>1, <4>2, <3>3, <2>2 DEF StartedPlan, ToldTrue
        <5>. QED
            BY <5>1, <4>1, <4>2, <3>1 DEF ToldTrue
      <4>3. CASE runs' = runs /\ rec' = rec /\ said' = said
        <5>1. Fresh(v) => Fresh(v)'
            BY <1>33, <4>3 DEF RecoverPlan, Fresh
        <5>. QED
            BY <5>1, <4>1, <4>3, <3>1 DEF ToldTrue
      <4>4. CASE ~StartedPlan(w) /\ ask[w] # "waiting"
        <5>1. ask[v] = "answered"
            BY <4>4, <2>2, <1>t DEF StartedPlan
        <5>2. rec[v] = "closed"
            BY <5>1, <4>1, <4>4, <2>2 DEF ToldTrue, StartedPlan
        <5>. QED
            BY <5>1, <5>2, <3>3
      <4>. QED
          BY <1>33, <4>2, <4>3, <4>4 DEF RecoverPlan
    <3>. QED
        BY <3>2, <3>4 DEF Asked
  <2>. QED
      BY <2>1, <2>2
<1>34. CASE SetPause
  <2>1. lost' = 0 => lost = 0
      BY <1>34 DEF SetPause, rest
  <2>2. /\ rec'[v] = rec[v] /\ ask'[v] = ask[v] /\ said'[v] = said[v] /\ kind'[v] = kind[v]
        /\ ran'[v] = ran[v] /\ runs'[v] = runs[v] /\ taken'[v] = taken[v]
      BY <1>34, <1>t, <1>p DEF SetPause, Placed, Put, Of, disk, memory, rest
  <2>3. /\ life' \in {"down", "sweeping"} => life \in {"down", "sweeping"}
        /\ v \in todo' => v \in todo
      BY <1>34 DEF SetPause, start
  <2>. QED
      BY <2>1, <2>2, <2>3, AskedRests
<1>35. CASE Crash
  <2>1. lost' = lost /\ ask' = ask /\ rec' = rec /\ said' = said /\ ran' = ran
      BY <1>35 DEF Crash, disk
  <2>2. runs'[v] = 0 /\ v \notin todo' /\ taken'[v] = [i \in Item |-> 0]
      BY <1>35 DEF Crash
  <2>3. Fresh(v) => Fresh(v)'
      BY <2>1, <2>2 DEF Fresh
  <2>4. AskedNow(v)'
      BY <2>2 DEF AskedNow
  <2>5. lost' = 0 => ToldTrue(v)'
      BY <1>p, <2>1, <2>3 DEF Asked, ToldTrue
  <2>. QED
      BY <2>4, <2>5 DEF Asked
<1>36. CASE Restart
  <2>1. /\ lost' = lost /\ ask' = ask /\ rec' = rec /\ said' = said /\ ran' = ran
        /\ runs' = runs /\ taken' = taken
      BY <1>36 DEF Restart, disk, memory
  <2>2. life = "down" /\ v \notin todo'
      BY <1>36, <1>p DEF Restart, Swept, Of
  <2>3. Fresh(v) => Fresh(v)'
      BY <2>1 DEF Fresh
  <2>4. AskedNow(v)'
      BY <1>p, <2>1, <2>2 DEF Asked, AskedNow, IsOpen
  <2>5. lost' = 0 => ToldTrue(v)'
      BY <1>p, <2>1, <2>3 DEF Asked, ToldTrue
  <2>. QED
      BY <2>4, <2>5 DEF Asked
<1>37. CASE SweepDone
  <2>1. /\ lost' = lost /\ ask' = ask /\ rec' = rec /\ said' = said /\ ran' = ran
        /\ runs' = runs /\ taken' = taken
      BY <1>37 DEF SweepDone, disk, memory
  <2>2. life = "sweeping" /\ life' = "recovering" /\ (v \in todo' => IsOpen(v))
      BY <1>37, <1>p DEF SweepDone
  <2>3. Fresh(v) => Fresh(v)'
      BY <2>1 DEF Fresh
  <2>4. AskedNow(v)'
      BY <1>p, <2>1, <2>2 DEF Asked, AskedNow, IsOpen
  <2>5. lost' = 0 => ToldTrue(v)'
      BY <1>p, <2>1, <2>3 DEF Asked, ToldTrue
  <2>. QED
      BY <2>4, <2>5 DEF Asked
<1>38. CASE RecoverDone
  <2>1. lost' = 0 => lost = 0
      BY <1>38 DEF RecoverDone, rest
  <2>2. /\ rec'[v] = rec[v] /\ ask'[v] = ask[v] /\ said'[v] = said[v] /\ kind'[v] = kind[v]
        /\ ran'[v] = ran[v] /\ runs'[v] = runs[v] /\ taken'[v] = taken[v]
      BY <1>38, <1>t, <1>p DEF RecoverDone, Placed, Put, Of, disk, memory,
         rest
  <2>3. /\ life' \in {"down", "sweeping"} => life \in {"down", "sweeping"}
        /\ v \in todo' => v \in todo
      BY <1>38 DEF RecoverDone, start
  <2>. QED
      BY <2>1, <2>2, <2>3, AskedRests
<1>39. CASE UNCHANGED vars
    BY <1>39 DEF vars, disk, memory, start, rest, Asked, AskedNow, ToldTrue, Fresh
<1>40. ASSUME NEW w \in Work, BoxStarts(w) PROVE Asked(v)'
  <2>1. lost' = 0 => lost = 0
      BY <1>40 DEF BoxStarts, rest
  <2>2. /\ rec'[v] = rec[v] /\ ask'[v] = ask[v] /\ said'[v] = said[v] /\ kind'[v] = kind[v]
        /\ ran'[v] = ran[v] /\ runs'[v] = runs[v] /\ taken'[v] = taken[v]
      BY <1>40 DEF BoxStarts, disk, memory, rest
  <2>3. /\ life' \in {"down", "sweeping"} => life \in {"down", "sweeping"}
        /\ v \in todo' => v \in todo
      BY <1>40 DEF BoxStarts, start
  <2>. QED
      BY <2>1, <2>2, <2>3, AskedRests
<1>41. ASSUME NEW w \in Work, Kill(w) PROVE Asked(v)'
  <2>1. lost' = 0 => lost = 0
      BY <1>41 DEF Kill, rest
  <2>2. /\ rec'[v] = rec[v] /\ ask'[v] = ask[v] /\ said'[v] = said[v] /\ kind'[v] = kind[v]
        /\ ran'[v] = ran[v] /\ runs'[v] = runs[v] /\ taken'[v] = taken[v]
      BY <1>41 DEF Kill, disk, memory, rest
  <2>3. /\ life' \in {"down", "sweeping"} => life \in {"down", "sweeping"}
        /\ v \in todo' => v \in todo
      BY <1>41 DEF Kill, start
  <2>. QED
      BY <2>1, <2>2, <2>3, AskedRests
<1>. QED
    BY <1>1, <1>2, <1>3, <1>4, <1>5, <1>6, <1>7, <1>8, <1>9, <1>10, <1>11,
       <1>12, <1>13, <1>14, <1>15, <1>16, <1>17, <1>18, <1>19, <1>20, <1>21,
       <1>22, <1>23, <1>24, <1>25, <1>26, <1>27, <1>28, <1>29, <1>30, <1>31,
       <1>32, <1>33, <1>34, <1>35, <1>36, <1>37, <1>38, <1>39, <1>40, <1>41 DEF Next,
       ForkStep, PauseStep, PlanStep, JobStep, DelegateStep, StartStep

----------------------------------------------------------------------------
(* The invariant.                                                          *)

PendingInv ==
    /\ TypeOK
    /\ \A w \in Work : /\ Placed(w) /\ Unbegun(w) /\ Heard(w) /\ Watched(w)
                       /\ OfThisProcess(w) /\ Listed(w) /\ Asked(w)

LEMMA PendingInit == Init => PendingInv
<1>. SUFFICES ASSUME Init PROVE PendingInv
    OBVIOUS
<1>1. TypeOK
    BY TypeInit
<1>. SUFFICES ASSUME NEW w \in Work
              PROVE  /\ Placed(w) /\ Unbegun(w) /\ Heard(w) /\ Watched(w)
                     /\ OfThisProcess(w) /\ Listed(w) /\ Asked(w)
    BY <1>1 DEF PendingInv
<1>2. Fresh(w)
    BY DEF Init, Fresh
<1>3. Placed(w) /\ Unbegun(w)
    BY DEF Init, Placed, Unbegun
<1>4. Heard(w) /\ Watched(w) /\ OfThisProcess(w) /\ Listed(w)
    BY DEF Init, Heard, Watched, OfThisProcess, Listed
<1>5. Asked(w)
    BY DEF Init, Asked, AskedNow, ToldTrue
<1>. QED
    BY <1>3, <1>4, <1>5

LEMMA PendingNext == PendingInv /\ [Next]_vars => PendingInv'
<1>. SUFFICES ASSUME PendingInv, [Next]_vars PROVE PendingInv'
    OBVIOUS
<1>1. TypeOK
    BY DEF PendingInv
<1>2. TypeOK'
    BY <1>1, TypeNext
<1>3. ASSUME NEW w \in Work
      PROVE  /\ Placed(w)' /\ Unbegun(w)' /\ Heard(w)' /\ Watched(w)'
             /\ OfThisProcess(w)' /\ Listed(w)' /\ Asked(w)'
  <2>1. /\ Placed(w) /\ Unbegun(w) /\ Heard(w) /\ Watched(w)
        /\ OfThisProcess(w) /\ Listed(w) /\ Asked(w)
      BY DEF PendingInv
  <2>2. Placed(w)'
      BY <1>1, <2>1, PlacedNext
  <2>3. Unbegun(w)'
      BY <1>1, <2>1, UnbegunNext
  <2>4. Heard(w)'
      BY <1>1, <2>1, HeardNext
  <2>5. Watched(w)'
      BY <1>1, <2>1, WatchedNext
  <2>6. OfThisProcess(w)'
      BY <1>1, <2>1, OfThisProcessNext
  <2>7. Listed(w)'
      BY <1>1, <2>1, ListedNext
  <2>8. Asked(w)'
      BY <1>1, <2>1, AskedNext
  <2>. QED
      BY <2>2, <2>3, <2>4, <2>5, <2>6, <2>7, <2>8
<1>. QED
    BY <1>2, <1>3 DEF PendingInv

----------------------------------------------------------------------------
(* The theorems.                                                           *)

\* What the ledger, the inbox, the box and the code know of a piece of work
\* fits together in every reachable state.
THEOREM PendingInvariant == Spec => []PendingInv
<1>1. Init => PendingInv
    BY PendingInit
<1>2. PendingInv /\ [Next]_vars => PendingInv'
    BY PendingNext
<1>. QED
    BY <1>1, <1>2, PTL DEF Spec

\* The ledger, the notes and the answers keep their shape: a plan has at most
\* one run in a process, and no item is taken twice in it.
THEOREM PendingTypeCorrect == Spec => []TypeOK
<1>1. PendingInv => TypeOK
    BY DEF PendingInv
<1>. QED
    BY <1>1, PendingInvariant, PTL

\* A record of work that began is settled only when the agent has heard of it,
\* or what it is to hear is on disk.  (commit() after the note, sweep(), recover().)
THEOREM ClosedWorkIsTold == Spec => []ClosedMeansTold
<1>1. PendingInv => ClosedMeansTold
  <2>. SUFFICES ASSUME PendingInv, NEW w \in Work,
                       rec[w] = "closed", Began(w), kind[w] # "delegate"
                PROVE  said[w] # {} \/ result[w] = "open"
      BY DEF ClosedMeansTold
  <2>1. Heard(w) /\ Placed(w)
      BY DEF PendingInv
  <2>2. CASE kind[w] = "fork" /\ child[w] = "none"
      BY <2>1, <2>2 DEF Placed, Began
  <2>. QED
      BY <2>1, <2>2 DEF Heard
<1>. QED
    BY <1>1, PendingInvariant, PTL

\* Which steps close the record of a delegated job.
LEMMA WhoCloses ==
  ASSUME TypeOK, NEW v \in Work, Placed(v), kind[v] = "delegate", IsOpen(v), [Next]_vars,
         ~IsOpen(v)'
  PROVE  \E d, x \in BOOLEAN : DelegateStart(v, x) \/ Settle(v, x) \/ SweepDelegate(v, d, x)
<1>. DEFINE Closer == \E d, x \in BOOLEAN :
                         DelegateStart(v, x) \/ Settle(v, x) \/ SweepDelegate(v, d, x)
<1>t. rec \in [Work -> RecState]
    BY DEF TypeOK, RecState
<1>. USE DEF IsOpen, Put, disk
<1>1. ASSUME NEW w \in Work, ForkStep(w) PROVE FALSE
    BY <1>1, <1>t DEF ForkStep, Admit, Admitted, ChildBegin, ChildEnd, ChildPutOff, LateReport,
       Deliver, Closes, ReadNote, Placed
<1>2. ASSUME NEW w \in Work, PauseStep(w) PROVE FALSE
    BY <1>2, <1>t DEF PauseStep, Confirm, AnswerPause, Callback, FollowUp, DeliverDue, Placed
<1>3. ASSUME NEW w \in Work, PlanStep(w) PROVE FALSE
    BY <1>3, <1>t DEF PlanStep, Submit, AnswerPlan, TakeItem, KeepAnswer, PlanDone, Deliver,
       Closes, Admitted, Placed
<1>4. ASSUME NEW w \in Work, JobStep(w) PROVE FALSE
    BY <1>4, <1>t DEF JobStep, JobStart, JobDone, Deliver, Closes
<1>5. ASSUME NEW w \in Work, DelegateStep(w) PROVE Closer
  <2>1. ASSUME NEW x \in BOOLEAN, DelegateStart(w, x) \/ Settle(w, x) PROVE Closer
    <3>1. w = v
        BY <2>1, <1>t DEF DelegateStart, Admitted, Settle
    <3>. QED
        BY <2>1, <3>1
  <2>2. ASSUME \/ DelegatePrepare(w) \/ BoxStarts(w) \/ Kill(w) \/ Observe(w)
               \/ \E how \in {"exited", "interrupted"} : JobEnds(w, how)
               \/ \E d \in BOOLEAN : TellEnded(w, d)
        PROVE  FALSE
      BY <2>2, <1>t DEF DelegatePrepare, BoxStarts, Kill, Observe, JobEnds, TellEnded
  <2>. QED
      BY <1>5, <2>1, <2>2 DEF DelegateStep
<1>6. ASSUME NEW w \in Work, NEW d \in BOOLEAN, NEW x \in BOOLEAN, StartStep(w, d, x) PROVE Closer
    BY <1>6, <1>t DEF StartStep, SweepFork, SweepDelegate, RecoverJob, RecoverPause, RecoverPlan,
       Recovering, Deliver, Closes
<1>7. CASE \/ Detach \/ SetPause \/ Crash \/ Restart \/ SweepDone \/ RecoverDone \/ UNCHANGED vars
    BY <1>7 DEF Detach, SetPause, Crash, Restart, SweepDone, RecoverDone, vars
<1>8. ASSUME NEW miss \in SUBSET Work, JoinEnds(miss) PROVE FALSE
    BY <1>8, <1>t DEF JoinEnds, InCall, Of
<1>9. ASSUME NEW B \in SUBSET Of("fork"), NEW miss \in SUBSET B, ForkRefused(B, miss) PROVE FALSE
    BY <1>9, <1>t DEF ForkRefused, Of
<1>10. ASSUME NEW B \in SUBSET Of("fork"), ForkPrepare(B) PROVE FALSE
    BY <1>10, <1>t DEF ForkPrepare
<1>. QED
    BY <1>1, <1>2, <1>3, <1>4, <1>5, <1>6, <1>7, <1>8, <1>9, <1>10 DEF Next

\* A record is not closed while the box runs its job and nobody killed it, whatever
\* starts and answers of the box come between, except by a start call that failed and
\* by a renewal that looked before the box had the job.  (sweep(), settleDelegate().)
THEOREM RunningJobsStayOpen == Spec => RunningStaysOpen
<1>1. ASSUME PendingInv, [Next]_vars, NEW w \in Of("delegate"),
             IsOpen(w), job[w] = "running", ~IsOpen(w)'
      PROVE  doing[w] = "prepared" \/ ending[w] = "unlisted"
  <2>1. w \in Work /\ kind[w] = "delegate"
      BY DEF Of
  <2>2. TypeOK /\ Placed(w) /\ Watched(w)
      BY <1>1, <2>1 DEF PendingInv
  <2>3. PICK d, x \in BOOLEAN : DelegateStart(w, x) \/ Settle(w, x) \/ SweepDelegate(w, d, x)
      BY <1>1, <2>1, <2>2, WhoCloses
  <2>4. CASE DelegateStart(w, x)
      BY <2>4 DEF DelegateStart
  <2>5. CASE Settle(w, x)
      BY <1>1, <2>2, <2>5 DEF Settle, Watched
  <2>6. CASE SweepDelegate(w, d, x)
      BY <1>1, <2>6 DEF SweepDelegate, Gone, IsOpen
  <2>. QED
      BY <2>3, <2>4, <2>5, <2>6
<1>2. PendingInv /\ [Next]_vars =>
        [\A w \in Of("delegate") :
            IsOpen(w) /\ job[w] = "running" /\ ~IsOpen(w)'
                => doing[w] = "prepared" \/ ending[w] = "unlisted"]_vars
    BY <1>1
<1>. QED
    BY <1>2, PendingInvariant, PTL DEF Spec, RunningStaysOpen

\* Once the host serves, a fork's message or turn is one this process admitted.
\* (sweep(), before the server listens.)
THEOREM ForksAreOfThisProcess == Spec => []ForksEndWithTheProcess
<1>1. PendingInv => ForksEndWithTheProcess
    BY DEF PendingInv, ForksEndWithTheProcess, OfThisProcess
<1>. QED
    BY <1>1, PendingInvariant, PTL

\* With every append made, an agent told that nothing of its plan ran has a plan of
\* which nothing ran.  (The refusal of a plan, recover().)
THEOREM NothingRanIsTold == Spec => []NothingRanIsTrue
<1>1. PendingInv => NothingRanIsTrue
  <2>. SUFFICES ASSUME PendingInv, lost = 0, NEW w \in Work, "nothing ran" \in said[w],
                       ran[w] # {}
                PROVE  FALSE
      BY DEF NothingRanIsTrue
  <2>1. Placed(w) /\ Asked(w)
      BY DEF PendingInv
  <2>2. kind[w] = "plan"
      BY <2>1 DEF Placed
  <2>. QED
      BY <2>1, <2>2 DEF Asked, ToldTrue, Fresh
<1>. QED
    BY <1>1, PendingInvariant, PTL

\* Which steps begin an item, or forget that it was begun.
LEMMA TakenNext ==
  ASSUME [Next]_vars
  PROVE  taken' = taken \/ Crash \/ \E w \in Work, i \in Item : TakeItem(w, i)
<1>. DEFINE Moved == taken' = taken \/ Crash \/ \E w \in Work, i \in Item : TakeItem(w, i)
<1>. USE DEF memory
<1>1. ASSUME NEW w \in Work, ForkStep(w) PROVE Moved
    BY <1>1 DEF ForkStep, Admit, ChildBegin, ChildEnd, ChildPutOff, LateReport, ReadNote
<1>2. ASSUME NEW w \in Work, PauseStep(w) PROVE Moved
    BY <1>2 DEF PauseStep, Confirm, AnswerPause, Callback, FollowUp, DeliverDue
<1>3. ASSUME NEW w \in Work, PlanStep(w) PROVE Moved
    BY <1>3 DEF PlanStep, Submit, AnswerPlan, KeepAnswer, PlanDone
<1>4. ASSUME NEW w \in Work, JobStep(w) PROVE Moved
    BY <1>4 DEF JobStep, JobStart, JobDone
<1>5. ASSUME NEW w \in Work, DelegateStep(w) PROVE Moved
    BY <1>5 DEF DelegateStep, DelegatePrepare, BoxStarts, DelegateStart, JobEnds, Kill, Observe,
       Settle, TellEnded
<1>6. ASSUME NEW w \in Work, NEW d \in BOOLEAN, NEW x \in BOOLEAN, StartStep(w, d, x) PROVE Moved
    BY <1>6 DEF StartStep, SweepFork, SweepDelegate, RecoverJob, RecoverPause, RecoverPlan
<1>7. CASE \/ Detach \/ SetPause \/ Restart \/ SweepDone \/ RecoverDone \/ UNCHANGED vars
    BY <1>7 DEF Detach, SetPause, Restart, SweepDone, RecoverDone, vars
<1>8. ASSUME NEW miss \in SUBSET Work, JoinEnds(miss) PROVE Moved
    BY <1>8 DEF JoinEnds
<1>9. ASSUME NEW B, NEW miss, ForkRefused(B, miss) PROVE Moved
    BY <1>9 DEF ForkRefused
<1>10. ASSUME NEW B, ForkPrepare(B) PROVE Moved
    BY <1>10 DEF ForkPrepare
<1>11. CASE Crash
    BY <1>11
<1>. QED
    BY <1>1, <1>2, <1>3, <1>4, <1>5, <1>6, <1>7, <1>8, <1>9, <1>10, <1>11 DEF Next

\* No step begins an item whose answer is kept, whichever submission, answered
\* confirmation or recovery started the run.  (run(), results().)
THEOREM AnsweredItemsStay == Spec => AnsweredStaysAnswered
<1>1. ASSUME TypeOK, [Next]_vars, NEW w \in Work, NEW i \in answers[w]
      PROVE  taken'[w][i] <= taken[w][i]
  <2>1. taken \in [Work -> [Item -> 0..1]] /\ i \in Item
      BY <1>1 DEF TypeOK
  <2>2. taken[w][i] \in 0..1
      BY <2>1
  <2>3. CASE taken' = taken
      BY <2>2, <2>3
  <2>4. CASE Crash
    <3>1. taken'[w][i] = 0
        BY <2>1, <2>4 DEF Crash
    <3>. QED
        BY <2>2, <3>1
  <2>5. ASSUME NEW u \in Work, NEW j \in Item, TakeItem(u, j) PROVE taken'[w][i] <= taken[w][i]
    <3>1. u # w \/ j # i
        BY <2>5, <1>1 DEF TakeItem, Missing
    <3>2. taken' = [taken EXCEPT ![u][j] = @ + 1]
        BY <2>5 DEF TakeItem
    <3>3. taken'[w][i] = taken[w][i]
        BY <2>1, <3>1, <3>2
    <3>. QED
        BY <2>2, <3>3
  <2>. QED
      BY <1>1, <2>3, <2>4, <2>5, TakenNext
<1>2. TypeOK /\ [Next]_vars =>
        [\A w \in Work : \A i \in answers[w] : taken'[w][i] <= taken[w][i]]_vars
    BY <1>1
<1>. QED
    BY <1>2, PendingTypeCorrect, PTL DEF Spec, AnsweredStaysAnswered

=============================================================================
