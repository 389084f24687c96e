--------------------------- MODULE TurnPickup_proofs ---------------------------
(***************************************************************************)
(* Proofs about what TurnCustody promises of interrupted work: one piece   *)
(* of work has one live pickup, one message has one owner, and the ledgers *)
(* keep the promise of Custody.                                            *)
(*                                                                         *)
(* The first holds whatever the startup sweeps deliver.  The other two hold*)
(* when they deliver nothing before recover() (~StartupNotes): with        *)
(* something delivered, recover() queues it a second time and              *)
(* resumeInterrupted() sweeps up turns that are running.                   *)
(***************************************************************************)
EXTENDS TurnCustody_proofs, FiniteSetTheorems

----------------------------------------------------------------------------
(* The inductive invariant.  Some words first.                             *)

\* A worker holds a batch that no turn has begun with.
Staged(w) == act[w].stage \in {"setup", "recorded"}

\* A worker is in a turn that began.
InTurn(w) == act[w].stage \in {"acking", "running", "steering"}

\* Message m may still be given to a turn in this life of the process.
Loose(m) ==
    \/ \E c \in queue : c[1] = m
    \/ \E w \in Worker : Staged(w) /\ m \in act[w].batch

\* The inbox would replay nothing that turn t was given.
AllStarted(t) == \A m \in Held(t) : inbox[m] # "pending"

\* No continuation of the work of turn t waits to be claimed.
NoPickupOf(t) ==
    \A m \in Message : Unclaimed(m) => msg[m].marker.work # turn[t].work

\* Messages go to the conversation of the turn that takes them, and what a
\* marker says of its turn stays true.
Addressed ==
    /\ \A t \in Turn : Begun(t) =>
         \A m \in Held(t) : msg[m].to = turn[t].worker
    /\ \A m \in Message : msg[m].kind = "resume" =>
         /\ msg[m].to = turn[msg[m].marker.turn].worker
         /\ msg[m].marker.work = turn[msg[m].marker.turn].work

\* Work is named after the turn that began it.  A turn that has not begun
\* has been given nothing but, perhaps, its opening entry.
WorkIsBegun ==
    \A t \in Turn :
        /\ Begun(t) => turn[t].work \in Turn /\ Begun(turn[t].work)
        /\ ~Begun(t) => steered[t] = {}

\* The turn of a continuation that waits owes the inbox nothing, and did not
\* fail: what steered a failed turn may be taken by another.
PickupIsClean ==
    \A m \in Message : Unclaimed(m) =>
        /\ AllStarted(msg[m].marker.turn)
        /\ turn[msg[m].marker.turn].how # "failed"

\* What the inbox replays of a turn that ended steered it as it failed, or
\* its agent is gone.
EndedIsStarted ==
    \A t \in Turn : Begun(t) /\ t \notin Open =>
        \A m \in Held(t) : inbox[m] = "pending" =>
            \/ turn[t].how = "failed" /\ m \in steered[t]
            \/ Main[turn[t].worker] \notin alive

\* OneLivePickup without its cardinalities.
OneOpen == \A t, u \in Open : turn[t].work = turn[u].work => t = u
OneWaiting ==
    \A m, n \in Message :
        /\ Unclaimed(m) /\ Unclaimed(n)
        /\ msg[m].marker.work = msg[n].marker.work
        => m = n
WaitingIsOpen ==
    \A t \in Open, m \in Message :
        Unclaimed(m) /\ msg[m].marker.work = turn[t].work =>
            msg[m].marker.turn = t

\* What the files alone keep.
LedgerInv ==
    /\ Addressed
    /\ WorkIsBegun
    /\ PickupIsClean
    /\ EndedIsStarted
    /\ OneOpen
    /\ OneWaiting
    /\ WaitingIsOpen
    /\ UniqueOwner

\* What the process holds in each phase of its life.
Phases ==
    /\ phase \in {"down", "reconcile", "starting"} =>
         queue = {} /\ parked = {} /\ handing.kind = "none"
    /\ phase # "up" => \A w \in Worker : act[w].stage = "idle"
    /\ phase # "resume" => sweep = {}
    /\ phase = "starting" => Reconcilable = {}

\* When the interrupted turns are gone through, everything that waits for an
\* agent that still exists is in the queue.
Replayed ==
    phase = "resume" =>
        \A m \in Message :
            inbox[m] = "pending" /\ Main[msg[m].to] \in alive =>
                \E c \in queue : c[1] = m

\* A message is queued once, or in the one batch of its conversation.
LooseOnce ==
    /\ \A c, d \in queue : c[1] = d[1] => c = d
    /\ \A w \in Worker : Staged(w) =>
         \A m \in act[w].batch : msg[m].to = w /\ \A c \in queue : c[1] # m

\* What may still be given to a turn is pending, and no turn was given it
\* but one that failed as it was steered with it.
LooseIsFree ==
    /\ \A m \in Message : Loose(m) => inbox[m] = "pending"
    /\ \A m \in Message, t \in Turn :
         Loose(m) /\ Begun(t) /\ m \in Held(t) =>
            turn[t].how = "failed" /\ m \in steered[t]

\* A recorded opening is of a turn that has not begun.
RecordedIsNew ==
    \A w \in Worker : act[w].stage = "recorded" => ~Begun(act[w].turn)

\* Worker w may be in turn t: it is open and its own, nothing waits to pick
\* its work up, and what it still owes the inbox is about to be acknowledged.
Runs(w, t) ==
    /\ t \in Open
    /\ turn[t].worker = w
    /\ NoPickupOf(t)
    /\ \A m \in Held(t) : inbox[m] = "pending" => m \in act[w].todo
    /\ act[w].stage = "running" => act[w].todo = {}
    /\ act[w].stage = "steering" => act[w].todo \subseteq steered[t]
RunningIsOpen == \A w \in Worker : InTurn(w) => Runs(w, act[w].turn)

\* A turn resumeInterrupted() has left is open and was reconciled.
SweptIsOpen ==
    \A t \in sweep : t \in Open /\ \A m \in OwnedBy(t) : inbox[m] # "pending"

\* Turn t may be parked: it is open, and nothing else is about to continue it.
MayPark(t) ==
    /\ t \in Open /\ t \notin sweep
    /\ AllStarted(t)
    /\ NoPickupOf(t)
    /\ \A w \in Worker : InTurn(w) => act[w].turn # t
ParkedIsOpen ==
    /\ \A p \in parked : MayPark(p[1])
    /\ \A p, q \in parked : p[1] = q[1] => p = q

\* A half-done pickup: the turn is open still, its continuation unclaimed.
HandedIsOpen ==
    handing.kind = "continue" =>
        /\ handing.turn \in Open /\ handing.turn \notin sweep
        /\ \E m \in Message : Unclaimed(m) /\ msg[m].marker.turn = handing.turn

ProcessInv ==
    /\ Phases
    /\ Replayed
    /\ LooseOnce
    /\ LooseIsFree
    /\ RecordedIsNew
    /\ RunningIsOpen
    /\ SweptIsOpen
    /\ ParkedIsOpen
    /\ HandedIsOpen

PickupInv ==
    /\ LineageInv
    /\ LedgerInv
    /\ ProcessInv

----------------------------------------------------------------------------
(* What the files keep.                                                    *)

\* Of which sets things are.
LEMMA PickupTypes ==
  ASSUME AccountedInv
  PROVE  /\ \A t \in Turn : Held(t) \subseteq Message
         /\ \A t \in Turn : turn[t].causedBy \subseteq Held(t)
                            /\ opening[t] \subseteq Held(t)
                            /\ steered[t] \subseteq Held(t)
         /\ \A t \in Turn : Begun(t) => turn[t].worker \in Worker
         /\ \A m \in Message : msg[m].kind = "resume" =>
              msg[m].marker.turn \in Turn /\ Begun(msg[m].marker.turn)
         /\ \A t \in Open : t \in Turn /\ Begun(t)
         /\ \A c \in queue : c[1] \in Message
         /\ \A w \in Worker : /\ act[w] \in Activity
                              /\ act[w].batch \subseteq Message
                              /\ act[w].todo \subseteq Message
         /\ \A p \in parked : p[1] \in Turn
         /\ \A t \in sweep : t \in Turn
  <1> USE DEF AccountedInv
  <1>1. \A t \in Turn : Held(t) \subseteq Message
    BY DEF TypeOK, TurnRecord, Held
  <1>2. \A t \in Open : t \in Turn /\ Begun(t)
    BY DEF Open, Begun
  <1>3. \A w \in Worker : /\ act[w] \in Activity
                         /\ act[w].batch \subseteq Message
                         /\ act[w].todo \subseteq Message
    BY ActivityFields DEF TypeOK
  <1>4. \A c \in queue : c[1] \in Message
    BY DEF TypeOK
  <1>5. \A p \in parked : p[1] \in Turn
    BY DEF TypeOK
  <1>6. \A t \in sweep : t \in Turn
    BY DEF TypeOK
  <1>7. /\ \A t \in Turn : Begun(t) => turn[t].worker \in Worker
        /\ \A m \in Message : msg[m].kind = "resume" =>
             msg[m].marker.turn \in Turn /\ Begun(msg[m].marker.turn)
    BY DEF PointersAreBegun
  <1>8. \A t \in Turn : turn[t].causedBy \subseteq Held(t)
                       /\ opening[t] \subseteq Held(t)
                       /\ steered[t] \subseteq Held(t)
    BY DEF Held
  <1> QED  BY <1>1, <1>2, <1>3, <1>4, <1>5, <1>6, <1>7, <1>8

\* A step that leaves what the properties read of the files as it is, but
\* that agents may be removed.
LEMMA LedgerQuiet ==
  ASSUME AccountedInv, LedgerInv,
         UNCHANGED <<inbox, msg, opening, steered>>, alive' \subseteq alive,
         \A t \in Turn : /\ turn'[t].how = turn[t].how
                        /\ turn'[t].causedBy = turn[t].causedBy
                        /\ turn'[t].worker = turn[t].worker
                        /\ turn'[t].work = turn[t].work
  PROVE  LedgerInv'
  <1> USE DEF LedgerInv
  <1>1. \A t \in Turn : /\ Begun(t)' = Begun(t) /\ Held(t)' = Held(t)
                       /\ AllStarted(t)' = AllStarted(t)
    BY DEF Begun, Held, AllStarted
  <1>2. Open' = Open
    BY DEF Open
  <1>3. \A m \in Message : Unclaimed(m)' = Unclaimed(m)
    BY <1>2, PickupTypes DEF Unclaimed
  <1>4. Addressed'
    BY <1>1, PickupTypes DEF Addressed
  <1>5. WorkIsBegun'
    BY <1>1 DEF WorkIsBegun
  <1>6. PickupIsClean'
    <2>1. \A m \in Message : Unclaimed(m) => msg[m].marker.turn \in Turn
      BY PickupTypes DEF Unclaimed
    <2> QED  BY <1>1, <1>3, <2>1 DEF PickupIsClean
  <1>7. EndedIsStarted'
    BY <1>1, <1>2 DEF EndedIsStarted
  <1>8. OneOpen' /\ OneWaiting' /\ WaitingIsOpen'
    BY <1>2, <1>3, PickupTypes DEF OneOpen, OneWaiting, WaitingIsOpen
  <1>9. UniqueOwner'
    BY <1>1 DEF UniqueOwner
  <1> QED  BY <1>4, <1>5, <1>6, <1>7, <1>8, <1>9

\* Marking pending messages started takes nothing away from the files.
LEMMA LedgerStarted ==
  ASSUME AccountedInv, LedgerInv, NEW M \in SUBSET Message,
         inbox' = [m \in Message |-> IF m \in M THEN "started" ELSE inbox[m]],
         UNCHANGED <<msg, turn, opening, steered, alive>>
  PROVE  /\ LedgerInv'
         /\ \A m \in Message : Unclaimed(m)' => Unclaimed(m)
  <1> USE DEF LedgerInv
  <1>1. \A m \in Message : inbox'[m] = "pending" => inbox[m] = "pending"
    OBVIOUS
  <1>2. Open' = Open /\ \A t \in Turn : Begun(t)' = Begun(t) /\ Held(t)' = Held(t)
    BY DEF Open, Begun, Held
  <1>3. \A t \in Turn : AllStarted(t) => AllStarted(t)'
    BY <1>1, <1>2, PickupTypes DEF AllStarted
  <1>4. \A m \in Message : Unclaimed(m)' => Unclaimed(m)
    BY <1>1, <1>2 DEF Unclaimed
  <1>5. Addressed' /\ WorkIsBegun'
    BY <1>2 DEF Addressed, WorkIsBegun
  <1>6. PickupIsClean'
    <2>1. \A m \in Message : Unclaimed(m) => msg[m].marker.turn \in Turn
      BY PickupTypes DEF Unclaimed
    <2> QED  BY <1>3, <1>4, <2>1 DEF PickupIsClean
  <1>7. EndedIsStarted'
    BY <1>1, <1>2, PickupTypes DEF EndedIsStarted
  <1>8. OneOpen' /\ OneWaiting' /\ WaitingIsOpen'
    BY <1>2, <1>4 DEF OneOpen, OneWaiting, WaitingIsOpen
  <1>9. UniqueOwner'
    BY <1>2 DEF UniqueOwner
  <1> QED  BY <1>4, <1>5, <1>6, <1>7, <1>8, <1>9

\* Nobody loses custody where nothing is queued, taken or handed over.
LEMMA ProcessQuiet ==
  ASSUME AccountedInv, ProcessInv,
         UNCHANGED <<inbox, msg, opening, steered, phase, queue>>,
         alive' = alive \/ (phase = "up" /\ alive' \subseteq alive),
         \A t \in Turn : /\ turn'[t].how = turn[t].how
                        /\ turn'[t].causedBy = turn[t].causedBy
                        /\ turn'[t].worker = turn[t].worker
                        /\ turn'[t].work = turn[t].work,
         \A w \in Worker : act'[w] = act[w] \/ act'[w] = Idle,
         sweep' \subseteq sweep, parked' \subseteq parked,
         handing' = handing \/ handing'.kind = "none"
  PROVE  ProcessInv'
  <1> USE DEF ProcessInv
  <1>1. \A t \in Turn : /\ Begun(t)' = Begun(t) /\ Held(t)' = Held(t)
                       /\ AllStarted(t)' = AllStarted(t)
    BY DEF Begun, Held, AllStarted
  <1>2. Open' = Open
    BY DEF Open
  <1>3. \A m \in Message : Unclaimed(m)' = Unclaimed(m)
    BY <1>2, PickupTypes DEF Unclaimed
  <1>4. \A t \in Turn : NoPickupOf(t) => NoPickupOf(t)'
    BY <1>3 DEF NoPickupOf
  <1>5. \A w \in Worker :
          /\ Staged(w)' => Staged(w) /\ act'[w] = act[w]
          /\ InTurn(w)' => InTurn(w) /\ act'[w] = act[w]
          /\ act'[w].stage = "recorded" => act'[w] = act[w]
          /\ act[w].stage = "idle" => act'[w].stage = "idle"
    BY IdleType DEF Staged, InTurn
  <1>6. \A m \in Message : Loose(m)' => Loose(m)
    BY <1>5 DEF Loose
  <1>7. Phases'
    <2>1. phase = "starting" => Reconcilable' = Reconcilable
      BY <1>2, PickupTypes DEF Reconcilable, OwnedBy
    <2> QED  BY <1>5, <2>1 DEF Phases
  <1>8. Replayed'
    BY DEF Replayed
  <1>9. LooseOnce'
    BY <1>5 DEF LooseOnce
  <1>10. LooseIsFree'
    BY <1>1, <1>6 DEF LooseIsFree
  <1>11. RecordedIsNew'
    <2>1. \A w \in Worker : act[w].stage = "recorded" => act[w].turn \in Turn
      BY DEF AccountedInv, StageIsOnDisk, StageOf
    <2> QED  BY <1>1, <1>5, <2>1 DEF RecordedIsNew
  <1>12. RunningIsOpen'
    <2> SUFFICES ASSUME NEW w \in Worker, InTurn(w)'
                 PROVE  Runs(w, act[w].turn)'
      BY DEF RunningIsOpen
    <2>1. InTurn(w) /\ act'[w] = act[w]
      BY <1>5
    <2>2. Runs(w, act[w].turn)
      BY <2>1 DEF RunningIsOpen
    <2>3. act[w].turn \in Turn
      BY <2>2, PickupTypes DEF Runs
    <2> QED  BY <1>1, <1>2, <1>4, <2>1, <2>2, <2>3 DEF Runs
  <1>13. SweptIsOpen'
    <2>1. \A t \in Open : OwnedBy(t)' \subseteq OwnedBy(t)
      BY PickupTypes DEF OwnedBy
    <2> QED  BY <1>2, <2>1 DEF SweptIsOpen
  <1>14. ParkedIsOpen'
    <2>1. ASSUME NEW p \in parked' PROVE MayPark(p[1])'
      <3>1. p[1] \in Turn /\ MayPark(p[1])
        BY PickupTypes DEF ParkedIsOpen
      <3> QED  BY <1>1, <1>2, <1>4, <1>5, <3>1 DEF MayPark
    <2> QED  BY <2>1 DEF ParkedIsOpen
  <1>15. HandedIsOpen'
    BY <1>2, <1>3 DEF HandedIsOpen
  <1> QED  BY <1>7, <1>8, <1>9, <1>10, <1>11, <1>12, <1>13, <1>14, <1>15

----------------------------------------------------------------------------
(* Admitting a message.                                                    *)

\* A new message is in nobody's hands yet; nothing else changes its mind.
LEMMA EnqueueMeans ==
  ASSUME AccountedInv, NEW m \in Message, NEW w \in Worker \cup {None},
         NEW kind \in Kind, NEW k \in Marker, Enqueue(m, w, kind, k),
         UNCHANGED <<turn, opening, steered, alive, act>>
  PROVE  /\ inbox[m] = "absent" /\ inbox'[m] = "pending"
         /\ msg'[m].kind = kind /\ msg'[m].marker = k /\ msg'[m].to = w
         /\ \A n \in Message : n # m => inbox'[n] = inbox[n] /\ msg'[n] = msg[n]
         /\ \A c \in queue : c[1] # m
         /\ queue' = queue \cup {<<m, "live">>}
         /\ \A t \in Turn : /\ Begun(t)' = Begun(t) /\ Held(t)' = Held(t)
                           /\ AllStarted(t)' = AllStarted(t)
                           /\ m \notin Held(t)
         /\ \A v \in Worker : /\ m \notin act[v].batch
                              /\ Staged(v)' = Staged(v) /\ InTurn(v)' = InTurn(v)
         /\ Open' = Open
         /\ \A n \in Message : n # m => Unclaimed(n)' = Unclaimed(n)
         /\ ~Unclaimed(m)
         /\ \A n \in Message : Loose(n)' => n = m \/ Loose(n)
  <1>1. /\ inbox[m] = "absent" /\ inbox'[m] = "pending"
        /\ \A n \in Message : n # m => inbox'[n] = inbox[n] /\ msg'[n] = msg[n]
        /\ queue' = queue \cup {<<m, "live">>}
    BY DEF Enqueue, AccountedInv, TypeOK
  <1>2. msg'[m].kind = kind /\ msg'[m].marker = k /\ msg'[m].to = w
    <2>1. msg'[m] = Admitted(w, kind, k)
      BY DEF Enqueue, AccountedInv, TypeOK
    <2> QED  BY <2>1, AdmittedType
  <1>3. \A c \in queue : c[1] # m
    BY <1>1 DEF AccountedInv, QueuedIsAdmitted
  <1>4. \A t \in Turn : m \notin Held(t) /\ Begun(t)' = Begun(t) /\ Held(t)' = Held(t)
    BY <1>1, InFlightIsAdmitted DEF Begun, Held
  <1>5. \A t \in Turn : AllStarted(t)' = AllStarted(t)
    BY <1>1, <1>4, PickupTypes DEF AllStarted
  <1>6. \A v \in Worker : /\ m \notin act[v].batch
                         /\ Staged(v)' = Staged(v) /\ InTurn(v)' = InTurn(v)
    BY <1>1, InFlightIsAdmitted DEF Staged, InTurn
  <1>7. Open' = Open
    BY DEF Open
  <1>8. ~Unclaimed(m) /\ \A n \in Message : n # m => Unclaimed(n)' = Unclaimed(n)
    BY <1>1, <1>7 DEF Unclaimed
  <1>9. \A n \in Message : Loose(n)' => n = m \/ Loose(n)
    BY <1>1, <1>6 DEF Loose
  <1> QED  BY <1>1, <1>2, <1>3, <1>4, <1>5, <1>6, <1>7, <1>8, <1>9

\* What an admission keeps whatever it admits.
LEMMA EnqueueKeeps ==
  ASSUME AccountedInv, LedgerInv, ProcessInv, NEW m \in Message,
         NEW w \in Worker \cup {None}, NEW kind \in Kind, NEW k \in Marker,
         Enqueue(m, w, kind, k), phase \in {"resume", "up"}, phase' = phase,
         kind = "resume" => /\ k.turn \in Turn /\ w = turn[k.turn].worker
                            /\ k.work = turn[k.turn].work,
         UNCHANGED <<turn, opening, steered, alive, act>>, sweep' \subseteq sweep
  PROVE  /\ Addressed' /\ WorkIsBegun' /\ EndedIsStarted' /\ OneOpen'
         /\ UniqueOwner'
         /\ Phases' /\ Replayed' /\ LooseOnce' /\ LooseIsFree'
         /\ RecordedIsNew' /\ SweptIsOpen'
  <1> USE DEF LedgerInv, ProcessInv
  <1>1. /\ inbox[m] = "absent" /\ inbox'[m] = "pending"
        /\ msg'[m].kind = kind /\ msg'[m].marker = k /\ msg'[m].to = w
        /\ \A n \in Message : n # m => inbox'[n] = inbox[n] /\ msg'[n] = msg[n]
        /\ \A c \in queue : c[1] # m
        /\ queue' = queue \cup {<<m, "live">>}
    BY EnqueueMeans
  <1>2. \A t \in Turn : /\ Begun(t)' = Begun(t) /\ Held(t)' = Held(t)
                       /\ m \notin Held(t) /\ Held(t) \subseteq Message
    BY EnqueueMeans, PickupTypes
  <1>3. \A v \in Worker : /\ m \notin act[v].batch /\ act[v].batch \subseteq Message
                         /\ Staged(v)' = Staged(v)
    BY EnqueueMeans, PickupTypes
  <1>4. Open' = Open /\ \A n \in Message : Loose(n)' => n = m \/ Loose(n)
    BY EnqueueMeans
  <1>5. Addressed'
    <2>1. \A t \in Turn : Begun(t)' => \A n \in Held(t)' : msg'[n].to = turn'[t].worker
      BY <1>1, <1>2 DEF Addressed
    <2>2. \A n \in Message : msg'[n].kind = "resume" =>
            /\ msg'[n].to = turn'[msg'[n].marker.turn].worker
            /\ msg'[n].marker.work = turn'[msg'[n].marker.turn].work
      BY <1>1 DEF Addressed
    <2> QED  BY <2>1, <2>2 DEF Addressed
  <1>6. WorkIsBegun'
    BY <1>2 DEF WorkIsBegun
  <1>7. EndedIsStarted'
    BY <1>1, <1>2, <1>4 DEF EndedIsStarted
  <1>8. OneOpen' /\ UniqueOwner'
    BY <1>2, <1>4 DEF OneOpen, UniqueOwner
  <1>9. Phases'
    BY DEF Phases
  <1>10. Replayed'
    <2> SUFFICES ASSUME phase = "resume", NEW n \in Message,
                        inbox'[n] = "pending", Main[msg'[n].to] \in alive
                 PROVE  \E c \in queue' : c[1] = n
      BY DEF Replayed
    <2>1. CASE n = m
      <3>1. <<m, "live">> \in queue'
        BY <1>1
      <3> QED  BY <2>1, <3>1
    <2>2. CASE n # m
      <3>1. \E c \in queue : c[1] = n
        BY <1>1, <2>2 DEF Replayed
      <3> QED  BY <1>1, <3>1
    <2> QED  BY <2>1, <2>2
  <1>11. LooseOnce'
    <2>1. \A c, d \in queue' : c[1] = d[1] => c = d
      BY <1>1 DEF LooseOnce
    <2> QED  BY <1>1, <1>3, <2>1 DEF LooseOnce
  <1>12. LooseIsFree'
    BY <1>1, <1>2, <1>4 DEF LooseIsFree
  <1>13. RecordedIsNew'
    <2>1. \A v \in Worker : act[v].stage = "recorded" => act[v].turn \in Turn
      BY DEF AccountedInv, StageIsOnDisk, StageOf
    <2> QED  BY <1>2, <2>1 DEF RecordedIsNew
  <1>14. SweptIsOpen'
    <2>1. \A t \in Open : /\ OwnedBy(t)' = OwnedBy(t)
                         /\ OwnedBy(t) \subseteq Held(t)
      BY PickupTypes DEF OwnedBy, Held
    <2> QED  BY <1>1, <1>2, <1>4, <2>1, PickupTypes DEF SweptIsOpen
  <1> QED  BY <1>5, <1>6, <1>7, <1>8, <1>9, <1>10, <1>11, <1>12, <1>13, <1>14

\* Mail, a chat or a kickoff is no pickup.
LEMMA PickupAdmit ==
  ASSUME AccountedInv, LedgerInv, ProcessInv, NEW m \in Message,
         NEW w \in Worker, NEW kind \in Kind, Admit(m, w, kind)
  PROVE  LedgerInv' /\ ProcessInv'
  <1>1. /\ Enqueue(m, w, kind, NoMarker) /\ kind # "resume" /\ phase = "up"
        /\ UNCHANGED <<turn, opening, steered, alive, act, sweep, parked,
                       handing, phase>>
        /\ w \in Worker \cup {None} /\ NoMarker \in Marker
    BY NoMarkerType DEF Admit
  <1>2. /\ \A n \in Message : n # m => inbox'[n] = inbox[n] /\ msg'[n] = msg[n]
        /\ \A t \in Turn : /\ AllStarted(t)' = AllStarted(t)
                           /\ Held(t)' = Held(t)
                           /\ m \notin Held(t) /\ Held(t) \subseteq Message
        /\ \A v \in Worker : InTurn(v)' = InTurn(v)
        /\ Open' = Open /\ \A t \in Open : t \in Turn
        /\ msg'[m].kind = kind
        /\ ~Unclaimed(m)
        /\ \A n \in Message : n # m => Unclaimed(n)' = Unclaimed(n)
    BY <1>1, EnqueueMeans, PickupTypes
  <1>3. ~Unclaimed(m)'
    BY <1>1, <1>2 DEF Unclaimed
  <1>4. \A n \in Message : Unclaimed(n)' =>
          Unclaimed(n) /\ msg'[n] = msg[n] /\ msg[n].marker.turn \in Turn
    <2>1. \A n \in Message : Unclaimed(n) => msg[n].marker.turn \in Turn
      BY PickupTypes DEF Unclaimed
    <2> QED  BY <1>2, <1>3, <2>1
  <1>5. PickupIsClean'
    BY <1>1, <1>2, <1>4 DEF LedgerInv, PickupIsClean
  <1>6. OneWaiting'
    BY <1>4 DEF LedgerInv, OneWaiting
  <1>7. WaitingIsOpen'
    BY <1>1, <1>2, <1>4 DEF LedgerInv, WaitingIsOpen
  <1>8. turn' = turn
    BY <1>1
  <1>9. \A t \in Turn : NoPickupOf(t) => NoPickupOf(t)'
    BY <1>4, <1>8 DEF NoPickupOf
  <1>10. RunningIsOpen'
    <2> SUFFICES ASSUME NEW v \in Worker, InTurn(v)
                 PROVE  Runs(v, act[v].turn)'
      BY <1>1, <1>2 DEF RunningIsOpen
    <2>1. Runs(v, act[v].turn) /\ act[v].turn \in Turn
      BY <1>2 DEF ProcessInv, RunningIsOpen, Runs
    <2> QED  BY <1>1, <1>2, <1>9, <2>1 DEF Runs
  <1>11. ParkedIsOpen'
    <2>1. ASSUME NEW p \in parked PROVE MayPark(p[1])'
      BY <1>1, <1>2, <1>9 DEF ProcessInv, ParkedIsOpen, MayPark
    <2> QED  BY <1>1, <2>1 DEF ParkedIsOpen, ProcessInv
  <1>12. HandedIsOpen'
    BY <1>1, <1>2 DEF ProcessInv, HandedIsOpen, Unclaimed
  <1> QED  BY <1>1, <1>5, <1>6, <1>7, <1>10, <1>11, <1>12, EnqueueKeeps DEF LedgerInv, ProcessInv

\* The pickup of a turn that is open, reconciled and waited for by nothing is
\* the only one of its work.
LEMMA PickupPickUp ==
  ASSUME AccountedInv, LedgerInv, ProcessInv, NEW t \in Open, NEW m \in Message,
         NEW a \in 0..MaxResumes, PickUp(t, m, a), ~Synchronous,
         phase \in {"resume", "up"}, AllStarted(t), NoPickupOf(t),
         \A w \in Worker : InTurn(w) => act[w].turn # t,
         \A p \in parked' : p \in parked /\ p[1] # t,
         sweep' \subseteq sweep, t \notin sweep',
         UNCHANGED <<turn, opening, steered, alive, act, phase>>
  PROVE  LedgerInv' /\ ProcessInv'
  <1>1. t \in Turn /\ Begun(t) /\ turn[t] \in TurnRecord
    BY PickupTypes DEF AccountedInv, TypeOK
  <1>2. PICK k : k = [turn |-> t, attempt |-> a, work |-> turn[t].work,
                      continues |-> t \in stepped]
    OBVIOUS
  <1>3. k \in Marker /\ k.turn = t /\ k.work = turn[t].work
    BY <1>1, <1>2 DEF Marker, TurnRecord
  <1>4. PICK w \in Worker \cup {None} : w = turn[t].worker
    BY <1>1 DEF TurnRecord
  <1>5. PICK kind \in Kind : kind = "resume"
    BY DEF Kind
  <1>6. /\ Enqueue(m, w, kind, k)
        /\ handing'.kind = "continue" /\ handing'.turn = t
    BY <1>2, <1>4, <1>5 DEF PickUp
  <1>7. /\ msg'[m].marker = k /\ msg'[m].kind = "resume" /\ inbox'[m] = "pending"
        /\ \A n \in Message : n # m => inbox'[n] = inbox[n] /\ msg'[n] = msg[n]
        /\ \A u \in Turn : /\ AllStarted(u)' = AllStarted(u)
                           /\ Held(u)' = Held(u)
                           /\ m \notin Held(u) /\ Held(u) \subseteq Message
        /\ \A v \in Worker : InTurn(v)' = InTurn(v)
        /\ Open' = Open /\ \A u \in Open : u \in Turn
        /\ ~Unclaimed(m)
        /\ \A n \in Message : n # m => Unclaimed(n)' = Unclaimed(n)
    <2>1. /\ msg'[m].marker = k /\ msg'[m].kind = kind /\ inbox'[m] = "pending"
          /\ \A n \in Message : n # m => inbox'[n] = inbox[n] /\ msg'[n] = msg[n]
          /\ \A u \in Turn : /\ AllStarted(u)' = AllStarted(u)
                             /\ Held(u)' = Held(u) /\ m \notin Held(u)
          /\ \A v \in Worker : InTurn(v)' = InTurn(v)
          /\ Open' = Open /\ ~Unclaimed(m)
          /\ \A n \in Message : n # m => Unclaimed(n)' = Unclaimed(n)
      BY <1>3, <1>6, EnqueueMeans
    <2>2. /\ \A u \in Turn : Held(u) \subseteq Message
          /\ \A u \in Open : u \in Turn
      BY PickupTypes
    <2> QED  BY <1>5, <2>1, <2>2
  <1>8. \A n \in Message : Unclaimed(n)' =>
          \/ n = m
          \/ /\ n # m /\ Unclaimed(n) /\ msg'[n] = msg[n]
             /\ msg[n].marker.turn \in Turn
             /\ msg[n].marker.work # turn[t].work
    <2>1. \A n \in Message : Unclaimed(n) => msg[n].marker.turn \in Turn
      BY PickupTypes DEF Unclaimed
    <2> QED  BY <1>7, <2>1 DEF NoPickupOf
  <1>9. PickupIsClean'
    BY <1>1, <1>3, <1>7, <1>8 DEF LedgerInv, PickupIsClean, Open
  <1>10. OneWaiting' /\ WaitingIsOpen'
    BY <1>1, <1>3, <1>7, <1>8 DEF LedgerInv, OneWaiting, WaitingIsOpen, OneOpen
  <1>11. \A u \in Open : u # t /\ NoPickupOf(u) => NoPickupOf(u)'
    <2>1. \A u \in Open : u # t => turn[u].work # turn[t].work
      BY DEF LedgerInv, OneOpen
    <2> QED  BY <1>3, <1>7, <1>8, <2>1 DEF NoPickupOf
  <1>12. RunningIsOpen'
    <2> SUFFICES ASSUME NEW v \in Worker, InTurn(v)
                 PROVE  Runs(v, act[v].turn)'
      BY <1>7 DEF RunningIsOpen
    <2>1. Runs(v, act[v].turn) /\ act[v].turn \in Open /\ act[v].turn # t
      BY DEF ProcessInv, RunningIsOpen, Runs
    <2> QED  BY <1>7, <1>11, <2>1 DEF Runs
  <1>13. ParkedIsOpen'
    <2>1. ASSUME NEW p \in parked' PROVE MayPark(p[1])'
      <3>1. p \in parked /\ p[1] # t /\ MayPark(p[1]) /\ p[1] \in Open
        BY DEF ProcessInv, ParkedIsOpen, MayPark
      <3> QED  BY <1>7, <1>11, <3>1 DEF MayPark
    <2> QED  BY <2>1 DEF ParkedIsOpen, ProcessInv
  <1>14. HandedIsOpen'
    <2>1. Unclaimed(m)'
      <3>1. \A u \in Open : m \notin turn[u].causedBy
        BY <1>7, PickupTypes
      <3> QED  BY <1>7, <3>1 DEF Unclaimed
    <2> QED  BY <1>3, <1>6, <1>7, <2>1 DEF HandedIsOpen
  <1> QED  BY <1>1, <1>3, <1>4, <1>6, <1>9, <1>10, <1>12, <1>13, <1>14,
              EnqueueKeeps DEF LedgerInv, ProcessInv

----------------------------------------------------------------------------
(* Acknowledging.                                                          *)

\* Worker v still knows what it owes.
Owes(v) ==
    /\ \A m \in Held(act[v].turn) : inbox[m] = "pending" => m \in act[v].todo
    /\ act[v].stage = "running" => act[v].todo = {}
    /\ act[v].stage = "steering" => act[v].todo \subseteq steered[act[v].turn]

\* Marking messages started that may not be given to a turn any more.
LEMMA ProcessStarted ==
  ASSUME AccountedInv, LedgerInv, ProcessInv, NEW M \in SUBSET Message,
         inbox' = [m \in Message |-> IF m \in M THEN "started" ELSE inbox[m]],
         UNCHANGED <<msg, turn, opening, steered, alive, queue, parked, sweep,
                     handing, phase>>,
         handing.kind = "none",
         \A m \in M : ~Loose(m)',
         \A v \in Worker :
            \/ act'[v] = act[v]
            \/ act'[v] = Idle
            \/ /\ InTurn(v) /\ InTurn(v)' /\ act'[v].turn = act[v].turn
               /\ Owes(v)',
         \A v \in Worker : InTurn(v) /\ act'[v] = act[v] =>
            \A m \in M : m \in act[v].todo => m \notin Held(act[v].turn)
  PROVE  ProcessInv'
  <1> USE DEF ProcessInv
  <1>1. \A m \in Message : inbox'[m] = "pending" => inbox[m] = "pending" /\ m \notin M
    OBVIOUS
  <1>2. /\ Open' = Open /\ turn' = turn
        /\ \A t \in Turn : Begun(t)' = Begun(t) /\ Held(t)' = Held(t)
    BY DEF Open, Begun, Held
  <1>3. \A t \in Turn : AllStarted(t) => AllStarted(t)'
    BY <1>1, <1>2, PickupTypes DEF AllStarted
  <1>4. \A m \in Message : Unclaimed(m)' => Unclaimed(m)
    BY LedgerStarted
  <1>5. \A t \in Turn : NoPickupOf(t) => NoPickupOf(t)'
    BY <1>2, <1>4 DEF NoPickupOf
  <1>6. \A v \in Worker :
          /\ Staged(v)' => Staged(v) /\ act'[v] = act[v]
          /\ InTurn(v)' => InTurn(v) /\ act'[v].turn = act[v].turn
          /\ act'[v].stage = "recorded" => act'[v] = act[v]
          /\ act[v].stage = "idle" => act'[v].stage = "idle"
    BY IdleType DEF Staged, InTurn
  <1>7. \A m \in Message : Loose(m)' => Loose(m)
    BY <1>6 DEF Loose
  <1>8. Phases'
    <2>1. phase = "starting" => Reconcilable' \subseteq Reconcilable
      BY <1>1, <1>2 DEF Reconcilable, OwnedBy
    <2> QED  BY <1>6, <2>1 DEF Phases
  <1>9. Replayed'
    BY <1>1 DEF Replayed
  <1>10. LooseOnce'
    BY <1>6 DEF LooseOnce
  <1>11. LooseIsFree'
    <2>1. \A m \in Message : Loose(m)' => inbox'[m] = "pending"
      BY <1>7 DEF LooseIsFree
    <2>2. \A m \in Message, t \in Turn :
            Loose(m)' /\ Begun(t)' /\ m \in Held(t)' =>
               turn'[t].how = "failed" /\ m \in steered'[t]
      BY <1>2, <1>7 DEF LooseIsFree
    <2> QED  BY <2>1, <2>2 DEF LooseIsFree
  <1>12. RecordedIsNew'
    <2>1. \A w \in Worker : act[w].stage = "recorded" => act[w].turn \in Turn
      BY DEF AccountedInv, StageIsOnDisk, StageOf
    <2> QED  BY <1>2, <1>6, <2>1 DEF RecordedIsNew
  <1>13. RunningIsOpen'
    <2> SUFFICES ASSUME NEW v \in Worker, InTurn(v)'
                 PROVE  Runs(v, act[v].turn)'
      BY DEF RunningIsOpen
    <2>1. InTurn(v) /\ act'[v].turn = act[v].turn
      BY <1>6
    <2>2. Runs(v, act[v].turn) /\ act[v].turn \in Turn
      BY <2>1, PickupTypes DEF RunningIsOpen, Runs
    <2>3. Owes(v)'
      <3>1. CASE act'[v] = act[v]
        <4>1. \A m \in Held(act[v].turn) : inbox'[m] = "pending" => m \in act[v].todo
          BY <1>1, <2>2, PickupTypes DEF Runs
        <4> QED  BY <1>2, <2>2, <3>1, <4>1 DEF Runs, Owes
      <3>2. CASE act'[v] = Idle
        BY <3>2, IdleType DEF InTurn
      <3> QED  BY <3>1, <3>2
    <2> QED  BY <1>2, <1>5, <2>1, <2>2, <2>3 DEF Runs, Owes
  <1>14. SweptIsOpen'
    <2>1. \A t \in Open : OwnedBy(t)' = OwnedBy(t) /\ OwnedBy(t) \subseteq Message
      BY PickupTypes DEF OwnedBy
    <2> QED  BY <1>1, <1>2, <2>1 DEF SweptIsOpen
  <1>15. ParkedIsOpen'
    <2>1. ASSUME NEW p \in parked PROVE MayPark(p[1])'
      <3>1. p[1] \in Turn /\ MayPark(p[1])
        BY PickupTypes DEF ParkedIsOpen
      <3> QED  BY <1>2, <1>3, <1>5, <1>6, <3>1 DEF MayPark
    <2> QED  BY <2>1 DEF ParkedIsOpen
  <1>16. HandedIsOpen'
    BY DEF HandedIsOpen
  <1> QED  BY <1>8, <1>9, <1>10, <1>11, <1>12, <1>13, <1>14, <1>15, <1>16

\* Empty ledgers, and a process that holds nothing.
LEMMA PickupInit == Init => LedgerInv /\ ProcessInv
  <1> SUFFICES ASSUME Init PROVE LedgerInv /\ ProcessInv
    OBVIOUS
  <1>1. /\ \A t \in Turn : turn[t].how = "none" /\ steered[t] = {}
        /\ \A m \in Message : inbox[m] = "absent" /\ msg[m].kind = "chat"
        /\ \A w \in Worker : act[w].stage = "idle"
        /\ queue = {} /\ parked = {} /\ sweep = {}
        /\ handing.kind = "none" /\ phase = "up"
    BY IdleType DEF Init, NoTurn, Admitted
  <1>2. /\ \A t \in Turn : ~Begun(t)
        /\ Open = {}
        /\ \A m \in Message : ~Unclaimed(m)
        /\ \A w \in Worker : ~Staged(w) /\ ~InTurn(w)
    BY <1>1 DEF Begun, Open, Unclaimed, Staged, InTurn
  <1>3. \A m \in Message : ~Loose(m)
    BY <1>1, <1>2 DEF Loose
  <1>4. LedgerInv
    BY <1>1, <1>2 DEF LedgerInv, Addressed, WorkIsBegun, PickupIsClean,
       EndedIsStarted, OneOpen, OneWaiting, WaitingIsOpen, UniqueOwner
  <1>5. ProcessInv
    BY <1>1, <1>2, <1>3 DEF ProcessInv, Phases, Replayed, LooseOnce,
       LooseIsFree, RecordedIsNew, RunningIsOpen, SweptIsOpen, ParkedIsOpen,
       HandedIsOpen
  <1> QED  BY <1>4, <1>5

\* A goal wake that is turned away was in nobody else's hands.
LEMMA PickupDecline ==
  ASSUME LineageInv, LedgerInv, ProcessInv, NEW w \in Worker, Decline(w)
  PROVE  LedgerInv' /\ ProcessInv'
  <1> AccountedInv
    BY DEF LineageInv
  <1>1. PICK M \in SUBSET Message : M = act[w].batch
    BY PickupTypes
  <1>2. /\ inbox' = [m \in Message |-> IF m \in M THEN "started" ELSE inbox[m]]
        /\ UNCHANGED <<msg, turn, opening, steered, alive, queue, parked, sweep,
                       handing, phase>>
        /\ act[w].stage = "setup"
        /\ handing.kind = "none"
        /\ act'[w] = Idle /\ \A v \in Worker \ {w} : act'[v] = act[v]
    BY <1>1 DEF Decline, Serving, Synchronous, AccountedInv, TypeOK
  <1>3. \A m \in M : Loose(m)
    BY <1>1, <1>2 DEF Loose, Staged
  <1>4. \A m \in M : ~Loose(m)'
    <2>1. \A m \in M : msg[m].to = w /\ \A c \in queue : c[1] # m
      BY <1>1, <1>2 DEF ProcessInv, LooseOnce, Staged
    <2>2. \A v \in Worker : Staged(v)' => Staged(v) /\ act'[v] = act[v] /\ v # w
      BY <1>2, IdleType DEF Staged
    <2>3. \A v \in Worker : Staged(v) => \A m \in act[v].batch : msg[m].to = v
      BY DEF ProcessInv, LooseOnce
    <2> QED  BY <1>2, <2>1, <2>2, <2>3 DEF Loose
  <1>5. \A v \in Worker : InTurn(v) =>
          \A m \in M : m \in act[v].todo => m \notin Held(act[v].turn)
    <2> SUFFICES ASSUME NEW v \in Worker, InTurn(v), NEW m \in M
                 PROVE  m \notin Held(act[v].turn)
      OBVIOUS
    <2>1. act[v].turn \in Turn /\ turn[act[v].turn].how = "open"
      BY DEF ProcessInv, RunningIsOpen, Runs, Open
    <2> QED  BY <1>3, <2>1 DEF ProcessInv, LooseIsFree, Begun
  <1> QED  BY <1>2, <1>4, <1>5, LedgerStarted, ProcessStarted

\* What a turn acknowledges, no queue and no other turn has.
LEMMA PickupAcknowledge ==
  ASSUME LineageInv, LedgerInv, ProcessInv, NEW w \in Worker,
         NEW m \in Message, Acknowledge(w, m)
  PROVE  LedgerInv' /\ ProcessInv'
  <1> AccountedInv
    BY DEF LineageInv
  <1>1. PICK M \in SUBSET Message : M = {m}
    OBVIOUS
  <1>2. /\ inbox' = [n \in Message |-> IF n \in M THEN "started" ELSE inbox[n]]
        /\ UNCHANGED <<msg, turn, opening, steered, alive, queue, parked, sweep,
                       handing, phase>>
        /\ act[w].stage \in {"acking", "steering"} /\ m \in act[w].todo
        /\ \A v \in Worker \ {w} : act'[v] = act[v]
    BY <1>1 DEF Acknowledge, AccountedInv, TypeOK
  <1>3. /\ act'[w].stage = IF act[w].todo \ {m} = {} THEN "running" ELSE act[w].stage
        /\ act'[w].turn = act[w].turn /\ act'[w].todo = act[w].todo \ {m}
    <2>1. act[w] \in Activity
      BY PickupTypes
    <2>2. PICK left \in SUBSET Message : left = act[w].todo \ {m}
      BY <2>1, ActivityFields
    <2>3. \A stage \in {"running", act[w].stage} :
            /\ Doing(stage, act[w].turn, act[w].batch, left).stage = stage
            /\ Doing(stage, act[w].turn, act[w].batch, left).turn = act[w].turn
            /\ Doing(stage, act[w].turn, act[w].batch, left).todo = left
      BY <2>1, <2>2, DoingType, ActivityFields
    <2>4. act'[w] = Doing(IF left = {} THEN "running" ELSE act[w].stage,
                          act[w].turn, act[w].batch, left)
      BY <2>2 DEF Acknowledge, AccountedInv, TypeOK
    <2> QED  BY <2>2, <2>3, <2>4
  <1>4. InTurn(w) /\ InTurn(w)' /\ Runs(w, act[w].turn)
    BY <1>2, <1>3 DEF InTurn, ProcessInv, RunningIsOpen
  <1>5. /\ act[w].turn \in Turn /\ turn[act[w].turn].how = "open"
        /\ m \in Held(act[w].turn)
    BY <1>2, <1>4 DEF Runs, Open, AccountedInv, StageIsOnDisk, StageOf
  <1>6. ~Loose(m)'
    <2>1. ~Loose(m)
      BY <1>5 DEF ProcessInv, LooseIsFree, Begun
    <2>2. \A v \in Worker : Staged(v)' => Staged(v) /\ act'[v] = act[v]
      BY <1>2, <1>4 DEF Staged, InTurn
    <2> QED  BY <1>2, <2>1, <2>2 DEF Loose
  <1>7. ASSUME NEW v \in Worker, InTurn(v), v # w
        PROVE  m \notin Held(act[v].turn)
    <2>1. /\ act[v].turn \in Turn /\ turn[act[v].turn].how = "open"
          /\ turn[act[v].turn].worker = v
      BY <1>7 DEF ProcessInv, RunningIsOpen, Runs, Open
    <2>2. act[v].turn # act[w].turn
      BY <1>4, <1>7, <2>1 DEF Runs
    <2> QED  BY <1>5, <2>1, <2>2 DEF LedgerInv, UniqueOwner, Begun
  <1>8. act'[w] # act[w]
    BY <1>2, <1>3
  <1>9. Owes(w)'
    <2>1. \A n \in Held(act[w].turn) : inbox'[n] = "pending" =>
            n \in act[w].todo \ {m}
      BY <1>1, <1>2, <1>4, <1>5, PickupTypes DEF Runs
    <2>2. Held(act[w].turn)' = Held(act[w].turn)
      BY <1>2, <1>3 DEF Held
    <2>3. act'[w].stage = "running" => act'[w].todo = {}
      BY <1>2, <1>3
    <2>4. act'[w].stage = "steering" => act'[w].todo \subseteq steered[act[w].turn]
      BY <1>2, <1>3, <1>4 DEF Runs
    <2> QED  BY <1>2, <1>3, <2>1, <2>2, <2>3, <2>4 DEF Owes
  <1>10. handing.kind = "none"
    BY <1>2 DEF LineageInv, OneBlock
  <1>11. LedgerInv'
    BY <1>2, LedgerStarted
  <1>12. \A n \in M : ~Loose(n)'
    BY <1>1, <1>6
  <1>13. \A v \in Worker :
            \/ act'[v] = act[v]
            \/ act'[v] = Idle
            \/ /\ InTurn(v) /\ InTurn(v)' /\ act'[v].turn = act[v].turn
               /\ Owes(v)'
    BY <1>2, <1>3, <1>4, <1>9
  <1>14. \A v \in Worker : InTurn(v) /\ act'[v] = act[v] =>
            \A n \in M : n \in act[v].todo => n \notin Held(act[v].turn)
    BY <1>1, <1>7, <1>8
  <1> QED  BY <1>2, <1>10, <1>11, <1>12, <1>13, <1>14, ProcessStarted

\* The reconcile runs before anything is queued.
LEMMA PickupReconcile ==
  ASSUME AccountedInv, LedgerInv, ProcessInv, NEW m \in Message, Reconcile(m)
  PROVE  LedgerInv' /\ ProcessInv'
  <1>1. PICK M \in SUBSET Message : M = {m}
    OBVIOUS
  <1>2. /\ inbox' = [n \in Message |-> IF n \in M THEN "started" ELSE inbox[n]]
        /\ UNCHANGED <<msg, turn, opening, steered, alive, queue, act, parked,
                       sweep, handing, phase>>
        /\ phase = "reconcile"
    BY <1>1 DEF Reconcile, volatile, AccountedInv, TypeOK
  <1>3. /\ queue = {} /\ handing.kind = "none"
        /\ \A w \in Worker : act[w].stage = "idle"
    BY <1>2 DEF ProcessInv, Phases
  <1>4. \A n \in M : ~Loose(n)'
    BY <1>2, <1>3 DEF Loose, Staged
  <1>5. \A w \in Worker : ~InTurn(w)
    BY <1>3 DEF InTurn
  <1> QED  BY <1>2, <1>3, <1>4, <1>5, LedgerStarted, ProcessStarted

----------------------------------------------------------------------------
(* Ending a turn.                                                          *)

\* What the end of turn t leaves behind, if nobody is in it any more and the
\* inbox replays nothing of it but what steered it as it failed.
LEMMA PickupEnded ==
  ASSUME AccountedInv, LedgerInv, ProcessInv, NEW t \in Open,
         NEW how \in How \ {"none", "open"}, turn' = EndRecord(t, how),
         UNCHANGED <<inbox, msg, opening, steered, alive, queue, phase, parked>>,
         sweep' \subseteq sweep, t \notin sweep',
         \A p \in parked : p[1] # t,
         handing'.kind = "continue" => handing' = handing /\ handing.turn # t,
         \A w \in Worker : act'[w] = act[w] \/ act'[w] = Idle,
         \A w \in Worker : InTurn(w)' => act[w].turn # t,
         \A m \in Held(t) : inbox[m] = "pending" =>
            \/ how = "failed" /\ m \in steered[t]
            \/ Main[turn[t].worker] \notin alive,
         \A m \in turn[t].causedBy : inbox[m] = "pending" =>
            msg[m].kind # "resume",
         how = "failed" => NoPickupOf(t),
         phase \in {"resume", "up"}
  PROVE  LedgerInv' /\ ProcessInv'
  <1> USE DEF LedgerInv, ProcessInv
  <1>1. t \in Turn /\ Begun(t) /\ turn[t].how = "open" /\ TypeOK
        /\ \A u \in Open : u \in Turn /\ Begun(u)
    BY PickupTypes DEF AccountedInv, Open
  <1>2. \A u \in Turn : /\ turn'[u].how = IF u = t THEN how ELSE turn[u].how
                       /\ turn'[u].worker = turn[u].worker
                       /\ turn'[u].causedBy = turn[u].causedBy
                       /\ turn'[u].work = turn[u].work
    BY <1>1, EndRecordType
  <1>3. \A u \in Turn : /\ Begun(u)' = Begun(u) /\ Held(u)' = Held(u)
                       /\ AllStarted(u)' = AllStarted(u)
    BY <1>1, <1>2 DEF Begun, Held, AllStarted
  <1>4. Open' = Open \ {t}
    BY <1>1, <1>2 DEF Open
  <1>5. \A m \in Message : Unclaimed(m)' = Unclaimed(m)
    <2> SUFFICES ASSUME NEW m \in Message, inbox[m] = "pending",
                        msg[m].kind = "resume"
                 PROVE  (\A u \in Open' : m \notin turn'[u].causedBy)
                          <=> (\A u \in Open : m \notin turn[u].causedBy)
      BY DEF Unclaimed
    <2>1. m \notin turn[t].causedBy
      BY <1>1, PickupTypes
    <2> QED  BY <1>1, <1>2, <1>4, <2>1
  <1>6. \A m \in Message : Unclaimed(m) => msg[m].marker.turn \in Turn
                                          /\ msg[m].kind = "resume"
    BY PickupTypes DEF Unclaimed
  <1>7. \A u \in Turn : NoPickupOf(u) => NoPickupOf(u)'
    BY <1>2, <1>5 DEF NoPickupOf
  <1>8. Addressed'
    <2>1. \A u \in Turn : Begun(u)' =>
            \A m \in Held(u)' : msg'[m].to = turn'[u].worker
      BY <1>2, <1>3 DEF Addressed
    <2>2. \A m \in Message : msg'[m].kind = "resume" =>
            /\ msg'[m].to = turn'[msg'[m].marker.turn].worker
            /\ msg'[m].marker.work = turn'[msg'[m].marker.turn].work
      BY <1>2, PickupTypes DEF Addressed
    <2> QED  BY <2>1, <2>2 DEF Addressed
  <1>9. WorkIsBegun'
    BY <1>2, <1>3 DEF WorkIsBegun
  <1>10. PickupIsClean'
    <2>1. ASSUME NEW m \in Message, Unclaimed(m), msg[m].marker.turn = t
          PROVE  how # "failed"
      BY <1>6, <2>1 DEF NoPickupOf, Addressed
    <2> QED  BY <1>2, <1>3, <1>5, <1>6, <2>1 DEF PickupIsClean
  <1>11. EndedIsStarted'
    BY <1>1, <1>2, <1>3, <1>4 DEF EndedIsStarted
  <1>12. OneOpen' /\ OneWaiting' /\ WaitingIsOpen'
    BY <1>1, <1>2, <1>4, <1>5 DEF OneOpen, OneWaiting, WaitingIsOpen
  <1>13. UniqueOwner'
    <2> SUFFICES ASSUME NEW u \in Turn, NEW v \in Turn, NEW m \in Message,
                        u # v, Begun(u), Begun(v), m \in Held(u) \cap Held(v)
                 PROVE  \E x \in {u, v} : turn'[x].how = "failed" /\ m \in steered[x]
      BY <1>3 DEF UniqueOwner
    <2>1. \E x \in {u, v} : turn[x].how = "failed" /\ m \in steered[x]
      BY DEF UniqueOwner
    <2> QED  BY <1>1, <1>2, <2>1
  <1>14. \A w \in Worker :
          /\ Staged(w)' => Staged(w) /\ act'[w] = act[w]
          /\ InTurn(w)' => InTurn(w) /\ act'[w] = act[w]
          /\ act'[w].stage = "recorded" => act'[w] = act[w]
          /\ act[w].stage = "idle" => act'[w].stage = "idle"
    BY IdleType DEF Staged, InTurn
  <1>15. \A m \in Message : Loose(m)' => Loose(m)
    BY <1>14 DEF Loose
  <1>16. Phases'
    <2>1. Reconcilable' \subseteq Reconcilable
      BY <1>1, <1>2, <1>4 DEF Reconcilable, OwnedBy
    <2> QED  BY <1>14, <2>1 DEF Phases
  <1>17. Replayed' /\ LooseOnce'
    BY <1>14 DEF Replayed, LooseOnce
  <1>18. LooseIsFree'
    <2>1. \A m \in Message, u \in Turn : Loose(m)' /\ Begun(u) /\ m \in Held(u) =>
             u # t /\ turn[u].how = "failed" /\ m \in steered[u]
      BY <1>1, <1>15 DEF LooseIsFree
    <2> QED  BY <1>2, <1>3, <1>15, <2>1 DEF LooseIsFree
  <1>19. RecordedIsNew'
    <2>1. \A w \in Worker : act[w].stage = "recorded" => act[w].turn \in Turn
      BY DEF AccountedInv, StageIsOnDisk, StageOf
    <2> QED  BY <1>3, <1>14, <2>1 DEF RecordedIsNew
  <1>20. RunningIsOpen'
    <2> SUFFICES ASSUME NEW w \in Worker, InTurn(w)'
                 PROVE  Runs(w, act[w].turn)'
      BY DEF RunningIsOpen
    <2>1. InTurn(w) /\ act'[w] = act[w] /\ act[w].turn # t
      BY <1>14
    <2>2. Runs(w, act[w].turn)
      BY <2>1 DEF RunningIsOpen
    <2>3. act[w].turn \in Turn
      BY <1>1, <2>2 DEF Runs
    <2> QED  BY <1>2, <1>3, <1>4, <1>7, <2>1, <2>2, <2>3 DEF Runs
  <1>21. SweptIsOpen'
    <2>1. \A u \in Open : OwnedBy(u)' = OwnedBy(u)
      BY <1>1, <1>2 DEF OwnedBy
    <2> QED  BY <1>4, <2>1 DEF SweptIsOpen
  <1>22. ParkedIsOpen'
    <2>1. ASSUME NEW p \in parked PROVE MayPark(p[1])'
      <3>1. p[1] \in Turn /\ MayPark(p[1]) /\ p[1] # t
        BY PickupTypes DEF ParkedIsOpen
      <3> QED  BY <1>3, <1>4, <1>7, <1>14, <3>1 DEF MayPark
    <2> QED  BY <2>1 DEF ParkedIsOpen
  <1>23. HandedIsOpen'
    BY <1>4, <1>5 DEF HandedIsOpen
  <1> QED  BY <1>8, <1>9, <1>10, <1>11, <1>12, <1>13, <1>16, <1>17, <1>18,
              <1>19, <1>20, <1>21, <1>22, <1>23

\* A turn that ends by itself has acknowledged what it took, but for what
\* steered it as it failed.
LEMMA PickupFinish ==
  ASSUME LineageInv, LedgerInv, ProcessInv, NEW w \in Worker,
         NEW how \in TurnEnd, SteeringFails(w) \/ Finish(w, how)
  PROVE  LedgerInv' /\ ProcessInv'
  <1> AccountedInv
    BY DEF LineageInv
  <1>1. PICK t : t = act[w].turn
    OBVIOUS
  <1>2. PICK h \in TurnEnd :
          /\ EndTurn(w, h)
          /\ SteeringFails(w) => h = "failed" /\ act[w].stage = "steering"
          /\ ~SteeringFails(w) => act[w].stage = "running"
    BY DEF SteeringFails, Finish, TurnEnd
  <1>3. /\ turn' = EndRecord(t, h)
        /\ UNCHANGED <<inbox, msg, opening, steered, alive, queue, phase,
                       parked, sweep, handing>>
        /\ act'[w] = Idle /\ \A v \in Worker \ {w} : act'[v] = act[v]
    BY <1>1, <1>2 DEF SteeringFails, Finish, EndTurn, AccountedInv, TypeOK
  <1>4. h \in How \ {"none", "open"}
    BY DEF How, TurnEnd
  <1>5. InTurn(w) /\ Runs(w, t) /\ t \in Open /\ t \in Turn
    BY <1>1, <1>2, PickupTypes DEF InTurn, ProcessInv, RunningIsOpen, Runs
  <1>6. phase = "up" /\ sweep = {} /\ handing.kind = "none"
    <2>1. phase = "up" /\ sweep = {}
      BY <1>5 DEF ProcessInv, Phases, InTurn
    <2>2. CASE Finish(w, how)
      BY <2>1, <2>2 DEF Finish, Serving, Synchronous
    <2>3. CASE SteeringFails(w)
      BY <2>1, <2>3 DEF SteeringFails, LineageInv, OneBlock
    <2> QED  BY <2>1, <2>2, <2>3
  <1>7. \A p \in parked : p[1] # t
    BY <1>1, <1>5 DEF ProcessInv, ParkedIsOpen, MayPark
  <1>8. \A v \in Worker : InTurn(v)' => act[v].turn # t
    <2>1. \A v \in Worker : InTurn(v)' => v # w /\ InTurn(v)
      BY <1>3, IdleType DEF InTurn
    <2> QED  BY <1>5, <2>1 DEF ProcessInv, RunningIsOpen, Runs
  <1>9. ASSUME NEW m \in Held(t), inbox[m] = "pending"
        PROVE  h = "failed" /\ m \in steered[t] /\ msg[m].kind # "resume"
    <2>1. m \in act[w].todo
      BY <1>1, <1>5, <1>9 DEF Runs
    <2>2. h = "failed" /\ act[w].stage = "steering"
      BY <1>2, <1>1, <1>5, <2>1 DEF Runs
    <2>3. m \in steered[t]
      BY <1>1, <1>5, <2>1, <2>2 DEF Runs
    <2> QED  BY <1>5, <2>2, <2>3 DEF LineageInv, SteeredAreChats
  <1>10. NoPickupOf(t)
    BY <1>5 DEF Runs
  <1>11. \A v \in Worker : act'[v] = act[v] \/ act'[v] = Idle
    BY <1>3
  <1>12. \A m \in turn[t].causedBy : inbox[m] = "pending" =>
            msg[m].kind # "resume"
    BY <1>5, <1>9, PickupTypes
  <1> QED  BY <1>3, <1>4, <1>5, <1>6, <1>7, <1>8, <1>9, <1>10, <1>11, <1>12,
              PickupEnded

\* A turn the host ends was reconciled, and nothing runs yet.
LEMMA PickupAbandon ==
  ASSUME LineageInv, LedgerInv, ProcessInv, NEW t \in Turn, Abandon(t)
  PROVE  LedgerInv' /\ ProcessInv'
  <1> AccountedInv
    BY DEF LineageInv
  <1>1. PICK how \in HostEnd : how = Disposition(t)
    BY DEF Abandon
  <1>2. /\ turn' = EndRecord(t, how)
        /\ UNCHANGED <<inbox, msg, opening, steered, alive, queue, phase, act,
                       parked>>
        /\ t \in sweep /\ sweep' = sweep \ {t}
        /\ phase = "resume" /\ handing.kind = "none"
        /\ handing' = handing \/ handing'.kind = "note"
    BY <1>1 DEF Abandon, ResumeNext, Synchronous
  <1>3. how \in How \ {"none", "open"} /\ how # "failed"
    BY DEF How, HostEnd
  <1>4. t \in Open /\ \A m \in OwnedBy(t) : inbox[m] # "pending"
    BY <1>2 DEF ProcessInv, SweptIsOpen
  <1>5. \A p \in parked : p[1] # t
    BY <1>2 DEF ProcessInv, ParkedIsOpen, MayPark
  <1>6. \A w \in Worker : ~InTurn(w)'
    BY <1>2 DEF ProcessInv, Phases, InTurn
  <1>7. \A m \in Held(t) : inbox[m] = "pending" =>
          Main[turn[t].worker] \notin alive
    BY <1>4 DEF OwnedBy, Held
  <1>8. \A m \in turn[t].causedBy : inbox[m] # "pending"
    BY <1>4 DEF OwnedBy
  <1> QED  BY <1>2, <1>3, <1>4, <1>5, <1>6, <1>7, <1>8, PickupEnded

\* A turn is relinquished to a continuation that waits, and that found it
\* with nothing left to acknowledge.
LEMMA PickupRelinquish ==
  ASSUME LineageInv, LedgerInv, ProcessInv, Relinquish
  PROVE  LedgerInv' /\ ProcessInv'
  <1> AccountedInv
    BY DEF LineageInv
  <1>1. PICK t : t = handing.turn
    OBVIOUS
  <1>2. PICK how \in {"continued", "resumed"} : turn' = EndRecord(t, how)
    BY <1>1 DEF Relinquish
  <1>3. /\ UNCHANGED <<inbox, msg, opening, steered, alive, queue, phase, act,
                       parked, sweep>>
        /\ handing.kind = "continue" /\ handing'.kind = "none"
    BY DEF Relinquish
  <1>4. how \in How \ {"none", "open"} /\ how # "failed"
    BY DEF How
  <1>5. t \in Open /\ t \in Turn /\ t \notin sweep
    BY <1>1, <1>3, PickupTypes DEF ProcessInv, HandedIsOpen
  <1>6. PICK n \in Message : Unclaimed(n) /\ msg[n].marker.turn = t
    BY <1>1, <1>3 DEF ProcessInv, HandedIsOpen
  <1>7. msg[n].marker.work = turn[t].work
    BY <1>6 DEF LedgerInv, Addressed, Unclaimed
  <1>8. AllStarted(t)
    BY <1>6 DEF LedgerInv, PickupIsClean
  <1>9. ~NoPickupOf(t)
    BY <1>6, <1>7 DEF NoPickupOf
  <1>10. \A p \in parked : p[1] # t
    BY <1>9 DEF ProcessInv, ParkedIsOpen, MayPark
  <1>11. \A w \in Worker : InTurn(w)' => act[w].turn # t
    BY <1>3, <1>9 DEF ProcessInv, RunningIsOpen, Runs, InTurn
  <1>12. phase \in {"resume", "up"}
    BY <1>3 DEF ProcessInv, Phases, AccountedInv, TypeOK
  <1>13. \A m \in Held(t) : inbox[m] # "pending"
    BY <1>8 DEF AllStarted
  <1>14. \A m \in turn[t].causedBy : inbox[m] # "pending"
    BY <1>5, <1>13, PickupTypes
  <1> QED  BY <1>2, <1>3, <1>4, <1>5, <1>10, <1>11, <1>12, <1>13, <1>14,
              PickupEnded

----------------------------------------------------------------------------
(* Taking messages from the queue.                                         *)

\* A drained batch is in one place only.
LEMMA PickupDrain ==
  ASSUME LineageInv, LedgerInv, ProcessInv, NEW w \in Worker,
         NEW S \in SUBSET queue, Drain(w, S)
  PROVE  LedgerInv' /\ ProcessInv'
  <1> AccountedInv
    BY DEF LineageInv
  <1> USE DEF ProcessInv
  <1>1. PICK X \in SUBSET Message : X = {c[1] : c \in S}
    BY PickupTypes
  <1>2. /\ UNCHANGED <<inbox, msg, turn, opening, steered, alive, phase, parked,
                       sweep, handing>>
        /\ queue' = queue \ S /\ S \subseteq QueueOf(w) /\ S # {}
        /\ \A v \in Worker \ {w} : act'[v] = act[v]
        /\ act[w].stage = "idle" /\ act'[w] = Doing("setup", None, X, {})
    BY <1>1 DEF Drain, durable, AccountedInv, TypeOK
  <1>3. act'[w].stage = "setup" /\ act'[w].batch = X
    BY <1>2, DoingType
  <1>4. LedgerInv'
    BY <1>2, LedgerQuiet
  <1>5. phase = "up"
    BY <1>2 DEF Drain, Serving, Phases
  <1>6. /\ \A v \in Worker : InTurn(v)' => InTurn(v) /\ act'[v] = act[v]
        /\ \A v \in Worker : v # w /\ Staged(v)' => Staged(v) /\ act'[v] = act[v]
        /\ \A t \in Turn : /\ Begun(t)' = Begun(t) /\ Held(t)' = Held(t)
                           /\ AllStarted(t)' = AllStarted(t)
                           /\ NoPickupOf(t)' = NoPickupOf(t)
        /\ Open' = Open
        /\ \A m \in Message : Unclaimed(m)' = Unclaimed(m)
    BY <1>2, <1>3 DEF InTurn, Staged, Begun, Held, AllStarted, Open, Unclaimed,
                      NoPickupOf
  <1>7. \A m \in X : msg[m].to = w /\ \E c \in queue : c \in S /\ c[1] = m
    BY <1>1, <1>2 DEF QueueOf
  <1>8. \A m \in Message : Loose(m)' => Loose(m)
    <2> SUFFICES ASSUME NEW m \in Message, Loose(m)' PROVE Loose(m)
      OBVIOUS
    <2>1. CASE \E c \in queue' : c[1] = m
      BY <1>2, <2>1 DEF Loose
    <2>2. ASSUME NEW v \in Worker, Staged(v)', m \in act'[v].batch PROVE Loose(m)
      <3>1. CASE v = w
        BY <1>3, <1>7, <2>2, <3>1 DEF Loose
      <3>2. CASE v # w
        BY <1>6, <2>2, <3>2 DEF Loose
      <3> QED  BY <3>1, <3>2
    <2> QED  BY <2>1, <2>2 DEF Loose
  <1>9. Phases' /\ Replayed'
    BY <1>2, <1>5 DEF Phases, Replayed
  <1>10. LooseOnce'
    <2>1. \A c, d \in queue' : c[1] = d[1] => c = d
      BY <1>2 DEF LooseOnce
    <2>2. ASSUME NEW v \in Worker, Staged(v)', NEW m \in act'[v].batch
          PROVE  msg'[m].to = v /\ \A c \in queue' : c[1] # m
      <3>1. CASE v = w
        BY <1>2, <1>3, <1>7, <3>1 DEF LooseOnce
      <3>2. CASE v # w
        BY <1>2, <1>6, <2>2, <3>2 DEF LooseOnce
      <3> QED  BY <3>1, <3>2
    <2> QED  BY <2>1, <2>2 DEF LooseOnce
  <1>11. LooseIsFree'
    BY <1>2, <1>6, <1>8 DEF LooseIsFree
  <1>12. RecordedIsNew'
    BY <1>2, <1>3, <1>6 DEF RecordedIsNew, Begun
  <1>13. RunningIsOpen'
    BY <1>2, <1>6, PickupTypes DEF RunningIsOpen, Runs
  <1>14. SweptIsOpen' /\ HandedIsOpen'
    BY <1>2, <1>6 DEF SweptIsOpen, HandedIsOpen, OwnedBy
  <1>15. ParkedIsOpen'
    BY <1>2, <1>6, PickupTypes DEF ParkedIsOpen, MayPark
  <1> QED  BY <1>4, <1>9, <1>10, <1>11, <1>12, <1>13, <1>14, <1>15

\* An opening entry is of a turn that no ledger knows yet.
LEMMA PickupOpening ==
  ASSUME LineageInv, LedgerInv, ProcessInv, NEW w \in Worker, NEW t \in Turn,
         RecordOpening(w, t)
  PROVE  LedgerInv' /\ ProcessInv'
  <1> AccountedInv
    BY DEF LineageInv
  <1> USE DEF ProcessInv, LedgerInv
  <1>1. PICK X \in SUBSET Message : X = act[w].batch
    BY PickupTypes
  <1>2. /\ UNCHANGED <<inbox, msg, turn, steered, alive, phase, queue, parked,
                       sweep, handing>>
        /\ turn[t].how = "none"
        /\ \A u \in Turn \ {t} : opening'[u] = opening[u]
        /\ \A v \in Worker \ {w} : act'[v] = act[v]
        /\ act[w].stage = "setup" /\ act'[w] = Doing("recorded", t, X, {})
    BY <1>1 DEF RecordOpening, Fresh, AccountedInv, TypeOK
  <1>3. act'[w].stage = "recorded" /\ act'[w].batch = X /\ act'[w].turn = t
    BY <1>2, DoingType
  <1>4. /\ turn' = turn /\ \A u \in Turn : Begun(u)' = Begun(u)
        /\ \A u \in Turn : Begun(u) => Held(u)' = Held(u) /\ u # t
        /\ \A u \in Turn : Begun(u) => AllStarted(u)' = AllStarted(u)
        /\ \A u \in Turn : NoPickupOf(u)' = NoPickupOf(u)
        /\ Open' = Open
        /\ \A m \in Message : Unclaimed(m)' = Unclaimed(m)
    BY <1>2 DEF Begun, Held, AllStarted, NoPickupOf, Open, Unclaimed
  <1>5. \A u \in Open : u \in Turn /\ Begun(u)
    BY PickupTypes
  <1>6. Addressed' /\ WorkIsBegun' /\ EndedIsStarted' /\ UniqueOwner'
    BY <1>2, <1>4 DEF Addressed, WorkIsBegun, EndedIsStarted, UniqueOwner
  <1>7. PickupIsClean'
    <2>1. \A m \in Message : Unclaimed(m) =>
            msg[m].marker.turn \in Turn /\ Begun(msg[m].marker.turn)
      BY PickupTypes DEF Unclaimed
    <2> QED  BY <1>2, <1>4, <2>1 DEF PickupIsClean
  <1>8. OneOpen' /\ OneWaiting' /\ WaitingIsOpen'
    BY <1>2, <1>4 DEF OneOpen, OneWaiting, WaitingIsOpen
  <1>9. \A v \in Worker :
          /\ Staged(v)' => Staged(v) /\ act'[v].batch = act[v].batch
          /\ InTurn(v)' => InTurn(v) /\ act'[v] = act[v]
    BY <1>1, <1>2, <1>3 DEF Staged, InTurn
  <1>10. \A m \in Message : Loose(m)' => Loose(m)
    BY <1>2, <1>9 DEF Loose
  <1>11. Phases'
    <2>1. phase = "up"
      BY <1>2 DEF Phases
    <2> QED  BY <1>2, <2>1 DEF Phases
  <1>12. Replayed'
    BY <1>2 DEF Replayed
  <1>13. LooseOnce'
    BY <1>2, <1>9 DEF LooseOnce
  <1>14. LooseIsFree'
    BY <1>2, <1>4, <1>10 DEF LooseIsFree
  <1>15. RecordedIsNew'
    <2>1. \A v \in Worker : act[v].stage = "recorded" => act[v].turn \in Turn
      BY DEF AccountedInv, StageIsOnDisk, StageOf
    <2> QED  BY <1>2, <1>3, <2>1 DEF RecordedIsNew, Begun
  <1>16. RunningIsOpen'
    BY <1>2, <1>4, <1>5, <1>9 DEF RunningIsOpen, Runs
  <1>17. SweptIsOpen'
    BY <1>2, <1>4, <1>5 DEF SweptIsOpen, OwnedBy
  <1>18. ParkedIsOpen'
    BY <1>2, <1>4, <1>5, <1>9 DEF ParkedIsOpen, MayPark
  <1>19. HandedIsOpen'
    BY <1>2, <1>4 DEF HandedIsOpen
  <1> QED  BY <1>6, <1>7, <1>8, <1>11, <1>12, <1>13, <1>14, <1>15, <1>16,
              <1>17, <1>18, <1>19

\* Messages that steer a turn go from the queue to that turn alone.
LEMMA PickupSteer ==
  ASSUME LineageInv, LedgerInv, ProcessInv, NEW w \in Worker,
         NEW S \in SUBSET queue, Steer(w, S)
  PROVE  LedgerInv' /\ ProcessInv'
  <1> AccountedInv
    BY DEF LineageInv
  <1> USE DEF ProcessInv, LedgerInv
  <1>1. PICK X \in SUBSET Message : X = {c[1] : c \in S}
    BY PickupTypes
  <1>2. PICK t : t = act[w].turn
    OBVIOUS
  <1>3. /\ UNCHANGED <<inbox, msg, turn, opening, alive, phase, parked, sweep,
                       handing>>
        /\ handing.kind = "none"
        /\ queue' = queue \ S /\ S \subseteq QueueOf(w)
        /\ act[w].stage = "running"
        /\ \A v \in Worker \ {w} : act'[v] = act[v]
        /\ act'[w] = Doing("steering", t, act[w].batch, X)
    BY <1>1, <1>2 DEF Steer, Serving, Synchronous, AccountedInv, TypeOK
  <1>4. InTurn(w) /\ Runs(w, t) /\ t \in Open
    BY <1>2, <1>3 DEF InTurn, RunningIsOpen, Runs
  <1>5. t \in Turn /\ Begun(t) /\ turn[t].how = "open"
    BY <1>4, PickupTypes DEF Open
  <1>6. /\ steered'[t] = steered[t] \cup X
        /\ \A u \in Turn \ {t} : steered'[u] = steered[u]
    BY <1>1, <1>2, <1>5 DEF Steer, AccountedInv, TypeOK
  <1>7. act'[w].stage = "steering" /\ act'[w].turn = t /\ act'[w].todo = X
    <2>1. act[w].batch \in SUBSET Message
      BY PickupTypes
    <2> QED  BY <1>3, <1>5, <2>1, DoingType
  <1>8. /\ turn' = turn /\ Open' = Open
        /\ \A u \in Turn : Begun(u)' = Begun(u)
        /\ \A m \in Message : Unclaimed(m)' = Unclaimed(m)
        /\ \A u \in Turn : NoPickupOf(u)' = NoPickupOf(u)
        /\ Held(t)' = Held(t) \cup X
        /\ \A u \in Turn \ {t} : Held(u)' = Held(u) /\ AllStarted(u)' = AllStarted(u)
    BY <1>3, <1>6 DEF Begun, Held, AllStarted, NoPickupOf, Open, Unclaimed
  <1>9. \A u \in Open : u \in Turn /\ Begun(u)
    BY PickupTypes
  <1>10. \A m \in X : msg[m].to = w /\ Loose(m) /\ \A c \in queue' : c[1] # m
    <2> SUFFICES ASSUME NEW m \in X
                 PROVE  msg[m].to = w /\ Loose(m) /\ \A c \in queue' : c[1] # m
      OBVIOUS
    <2>1. PICK c \in queue : c \in S /\ c[1] = m
      BY <1>1
    <2>2. msg[m].to = w
      BY <1>3, <2>1 DEF QueueOf
    <2> QED  BY <1>3, <2>1, <2>2 DEF LooseOnce, Loose
  <1>11. \A v \in Worker :
          /\ Staged(v)' => Staged(v) /\ act'[v] = act[v] /\ v # w
          /\ InTurn(v)' /\ v # w => InTurn(v) /\ act'[v] = act[v]
    BY <1>3, <1>7 DEF Staged, InTurn
  <1>12. \A m \in Message : Loose(m)' => Loose(m) /\ m \notin X
    <2>1. \A m \in Message : Loose(m)' => Loose(m)
      BY <1>3, <1>11 DEF Loose
    <2>2. ASSUME NEW m \in X PROVE ~Loose(m)'
      <3>1. \A c \in queue' : c[1] # m
        BY <1>10, <2>2
      <3>2. ASSUME NEW v \in Worker, Staged(v)' PROVE m \notin act'[v].batch
        <4>1. Staged(v) /\ act'[v] = act[v]
          BY <1>11, <3>2
        <4>2. \E c \in queue : c[1] = m
          BY <1>1, <1>3
        <4>3. m \notin act[v].batch
          BY <4>1, <4>2 DEF LooseOnce
        <4> QED  BY <4>1, <4>3
      <3> QED  BY <3>1, <3>2 DEF Loose
    <2> QED  BY <2>1, <2>2
  <1>13. Addressed'
    <2>1. \A u \in Turn : Begun(u) => \A m \in Held(u)' : msg[m].to = turn[u].worker
      BY <1>4, <1>8, <1>10 DEF Addressed, Runs
    <2> QED  BY <1>3, <1>8, <2>1 DEF Addressed
  <1>14. WorkIsBegun' /\ EndedIsStarted'
    <2>1. WorkIsBegun'
      BY <1>5, <1>6, <1>8 DEF WorkIsBegun
    <2>2. \A u \in Turn : Begun(u) /\ u \notin Open =>
            \A m \in Held(u)' : inbox[m] = "pending" =>
              \/ turn[u].how = "failed" /\ m \in steered'[u]
              \/ Main[turn[u].worker] \notin alive
      BY <1>4, <1>6, <1>8 DEF EndedIsStarted
    <2> QED  BY <1>3, <1>8, <2>1, <2>2 DEF EndedIsStarted
  <1>15. PickupIsClean'
    <2>1. \A m \in Message : Unclaimed(m) =>
            msg[m].marker.turn \in Turn /\ msg[m].marker.turn # t
      BY <1>4, PickupTypes DEF Unclaimed, Addressed, Runs, NoPickupOf
    <2> QED  BY <1>3, <1>8, <2>1 DEF PickupIsClean
  <1>16. OneOpen' /\ OneWaiting' /\ WaitingIsOpen'
    BY <1>3, <1>8 DEF OneOpen, OneWaiting, WaitingIsOpen
  <1>17. UniqueOwner'
    <2> SUFFICES ASSUME NEW u \in Turn, NEW v \in Turn, NEW m \in Message,
                        u # v, Begun(u), Begun(v), m \in Held(u)', m \in Held(v)'
                 PROVE  \E x \in {u, v} : turn[x].how = "failed" /\ m \in steered'[x]
      BY <1>8 DEF UniqueOwner
    <2>1. \A x \in Turn : steered[x] \subseteq steered'[x]
      BY <1>6
    <2>2. CASE m \in X
      <3>1. \A x \in Turn \ {t} : Begun(x) /\ m \in Held(x) =>
               turn[x].how = "failed" /\ m \in steered[x]
        BY <1>10, <2>2 DEF LooseIsFree
      <3> QED  BY <1>8, <2>1, <3>1
    <2>3. CASE m \notin X
      <3>1. m \in Held(u) /\ m \in Held(v)
        BY <1>8, <2>3
      <3>2. \E x \in {u, v} : turn[x].how = "failed" /\ m \in steered[x]
        BY <3>1 DEF UniqueOwner
      <3> QED  BY <2>1, <3>2
    <2> QED  BY <2>2, <2>3
  <1>18. Phases' /\ Replayed'
    <2>1. phase = "up"
      BY <1>3 DEF Phases
    <2> QED  BY <1>3, <2>1 DEF Phases, Replayed
  <1>19. LooseOnce'
    <2>1. \A c, d \in queue' : c[1] = d[1] => c = d
      BY <1>3 DEF LooseOnce
    <2> QED  BY <1>3, <1>11, <2>1 DEF LooseOnce
  <1>20. LooseIsFree'
    <2>1. \A m \in Message, u \in Turn : Loose(m)' /\ Begun(u) /\ m \in Held(u)' =>
             turn[u].how = "failed" /\ m \in steered'[u]
      BY <1>6, <1>8, <1>12 DEF LooseIsFree
    <2> QED  BY <1>3, <1>8, <1>12, <2>1 DEF LooseIsFree
  <1>21. RecordedIsNew'
    BY <1>3, <1>7 DEF RecordedIsNew, Begun
  <1>22. RunningIsOpen'
    <2> SUFFICES ASSUME NEW v \in Worker, InTurn(v)'
                 PROVE  Runs(v, act[v].turn)'
      BY DEF RunningIsOpen
    <2>1. CASE v = w
      <3>1. \A m \in Held(t)' : inbox[m] = "pending" => m \in X
        BY <1>2, <1>3, <1>4, <1>8 DEF Runs
      <3> QED  BY <1>3, <1>4, <1>5, <1>6, <1>7, <1>8, <2>1, <3>1 DEF Runs
    <2>2. CASE v # w
      <3>1. InTurn(v) /\ act'[v] = act[v]
        BY <1>11, <2>2
      <3>2. Runs(v, act[v].turn)
        BY <3>1 DEF RunningIsOpen
      <3>3. act[v].turn \in Turn \ {t}
        BY <1>4, <1>9, <2>2, <3>2 DEF Runs
      <3> QED  BY <1>3, <1>6, <1>8, <3>1, <3>2, <3>3 DEF Runs
    <2> QED  BY <2>1, <2>2
  <1>23. SweptIsOpen'
    BY <1>3 DEF SweptIsOpen, Phases
  <1>24. ParkedIsOpen'
    <2>1. ASSUME NEW p \in parked PROVE MayPark(p[1])'
      <3>1. MayPark(p[1]) /\ p[1] \in Turn \ {t}
        BY <1>2, <1>4, PickupTypes DEF ParkedIsOpen, MayPark
      <3>2. \A v \in Worker : InTurn(v)' => act'[v].turn # p[1]
        BY <1>7, <1>11, <3>1 DEF MayPark
      <3> QED  BY <1>3, <1>8, <3>1, <3>2 DEF MayPark
    <2> QED  BY <1>3, <2>1 DEF ParkedIsOpen
  <1>25. HandedIsOpen'
    BY <1>3 DEF HandedIsOpen
  <1> QED  BY <1>13, <1>14, <1>15, <1>16, <1>17, <1>18, <1>19, <1>20, <1>21,
              <1>22, <1>23, <1>24, <1>25

----------------------------------------------------------------------------
(* Beginning a turn.                                                       *)

\* Worker w begins turn t of work b: a new turn with its own work, or the
\* pickup of work that nothing else continues.
BeginsAt(w, t, b) ==
    /\ UNCHANGED <<inbox, msg, opening, steered, alive, phase, queue, parked,
                   sweep, handing>>
    /\ phase = "up" /\ handing.kind = "none"
    /\ turn'[t].how = "open" /\ turn'[t].worker = w
    /\ turn'[t].causedBy = act[w].batch /\ turn'[t].work = b
    /\ \A u \in Turn \ {t} :
         /\ turn'[u].worker = turn[u].worker
         /\ turn'[u].causedBy = turn[u].causedBy
         /\ turn'[u].work = turn[u].work
         /\ \/ turn'[u].how = turn[u].how
            \/ /\ turn[u].how = "open" /\ turn'[u].how = "resumed"
               /\ turn[u].work = b /\ AllStarted(u)
    /\ \A u \in Turn \ {t} : turn[u].how = "open" /\ turn[u].work = b =>
         turn'[u].how = "resumed"
    /\ \A m \in Message : Unclaimed(m) /\ msg[m].marker.work = b =>
         m \in act[w].batch
    /\ \A m \in act[w].batch : msg[m].kind = "resume" => msg[m].marker.work = b
    /\ Begun(t) => /\ turn[t].worker = w /\ turn[t].work = b
                   /\ AllStarted(t) /\ turn[t].how # "failed"
    /\ ~Begun(t) => opening[t] = act[w].batch
    /\ \/ b = t /\ ~Begun(t)
       \/ Begun(b) /\ \E m \in act[w].batch : msg[m].kind = "resume"
    /\ \A v \in Worker : InTurn(v) => turn[act[v].turn].work # b
    /\ \A p \in parked : turn[p[1]].work # b
    /\ \A v \in Worker \ {w} : act'[v] = act[v]
    /\ Staged(w) /\ act'[w] = Doing("acking", t, act[w].batch, act[w].batch)

\* What a begin record says of the work of every turn.
LEMMA BeginRecordWork ==
  ASSUME TypeOK, NEW w \in Worker, NEW t \in Turn
  PROVE  \A u \in Turn : BeginRecord(w, t)[u].work =
            IF u = t THEN IF MarkerOf(act[w].batch).turn # None
                          THEN MarkerOf(act[w].batch).work ELSE t
            ELSE turn[u].work
  <1> DEFINE k == MarkerOf(act[w].batch)
  <1>1. \A u \in Turn : turn[u] \in TurnRecord
    BY DEF TypeOK
  <1> SUFFICES ASSUME NEW u \in Turn
               PROVE  BeginRecord(w, t)[u].work =
                        IF u = t THEN IF k.turn # None THEN k.work ELSE t
                        ELSE turn[u].work
    OBVIOUS
  <1>2. CASE u = t
    BY <1>2 DEF BeginRecord
  <1>3. CASE u # t /\ u = k.turn /\ turn[u].how = "open"
    BY <1>1, <1>3 DEF BeginRecord, TurnRecord
  <1>4. CASE u # t /\ ~(u = k.turn /\ turn[u].how = "open")
    BY <1>4 DEF BeginRecord
  <1> QED  BY <1>2, <1>3, <1>4

\* A begin resumes the open turn its marker names and no other.
LEMMA BeginRecordHow ==
  ASSUME TypeOK, NEW w \in Worker, NEW t \in Turn, turn' = BeginRecord(w, t),
         NEW k, k = MarkerOf(act[w].batch)
  PROVE  \A u \in Turn : u # t =>
            turn'[u].how = IF u = k.turn /\ turn[u].how = "open"
                           THEN "resumed" ELSE turn[u].how
  <1>1. \A u \in Turn : u # t => BeginRecord(w, t)[u].how =
           IF u = MarkerOf(act[w].batch).turn /\ turn[u].how = "open"
           THEN "resumed" ELSE turn[u].how
    BY BeginRecordLineage
  <1> QED  BY <1>1

\* A begin takes up the work of the one continuation it drained, or starts
\* work of its own.
LEMMA BeginMeans ==
  ASSUME LineageInv, LedgerInv, ProcessInv, NEW w \in Worker, Begin(w)
  PROVE  \E t, b \in Turn : BeginsAt(w, t, b)
  <1> AccountedInv /\ TypeOK
    BY DEF LineageInv, AccountedInv
  <1> USE DEF ProcessInv, LedgerInv
  <1>1. PICK k : k = MarkerOf(act[w].batch)
    OBVIOUS
  <1>2. PICK t : t = IF k.continues THEN k.turn ELSE act[w].turn
    OBVIOUS
  <1>3. /\ UNCHANGED <<inbox, msg, opening, steered, alive, phase, queue, parked,
                       sweep, handing>>
        /\ handing.kind = "none"
        /\ turn' = BeginRecord(w, t)
        /\ act[w].stage = IF k.continues THEN "setup" ELSE "recorded"
        /\ act' = [act EXCEPT ![w] = Doing("acking", t, act[w].batch,
                                           act[w].batch)]
    BY <1>1, <1>2 DEF Begin, Serving, Synchronous
  <1>4. /\ \A v \in Worker \ {w} : act'[v] = act[v]
        /\ act'[w] = Doing("acking", t, act[w].batch, act[w].batch)
        /\ Staged(w)
    BY <1>3 DEF Staged, AccountedInv, TypeOK
  <1>5. phase = "up"
    BY <1>3 DEF Phases
  <1>6. \A m \in act[w].batch : m \in Message /\ msg[m].to = w /\ Loose(m)
    <2>1. \A m \in act[w].batch : Loose(m)
      BY <1>4 DEF Loose
    <2> QED  BY <1>4, <2>1, PickupTypes DEF LooseOnce
  <1>7. CASE \E m \in act[w].batch : msg[m].kind = "resume"
    <2>1. PICK m \in act[w].batch : msg[m].kind = "resume"
      BY <1>7
    <2>2. act[w].batch = {m}
      BY <2>1 DEF LineageInv, AloneInBatch
    <2>3. k = msg[m].marker
      BY <1>1, <2>1, <2>2, MarkerOfAlone
    <2>4. PICK r \in Turn : r = k.turn /\ Begun(r) /\ r # None
      BY <1>6, <2>1, <2>3, PickupTypes, ConstantsAssumption
      DEF ConstantsAssumption
    <2>5. PICK b \in Turn : b = k.work /\ b = turn[r].work /\ Begun(b)
      BY <1>6, <2>1, <2>3, <2>4 DEF Addressed, WorkIsBegun
    <2>6. turn[r].worker = w
      BY <1>6, <2>1, <2>3, <2>4 DEF Addressed
    <2>7. Unclaimed(m)
      <3>1. inbox[m] = "pending"
        BY <1>6, <2>1 DEF LooseIsFree
      <3>2. \A u \in Open : m \notin turn[u].causedBy
        BY <1>6, <2>1, PickupTypes DEF LooseIsFree, Open
      <3> QED  BY <2>1, <3>1, <3>2 DEF Unclaimed
    <2>8. AllStarted(r) /\ turn[r].how # "failed"
      BY <1>6, <2>1, <2>3, <2>4, <2>7 DEF PickupIsClean
    <2>9. \A u \in Open : turn[u].work = b => u = r
      BY <1>6, <2>1, <2>3, <2>4, <2>5, <2>7 DEF WaitingIsOpen
    <2>10. \A n \in Message : Unclaimed(n) /\ msg[n].marker.work = b => n = m
      BY <1>6, <2>1, <2>3, <2>5, <2>7 DEF OneWaiting
    <2>10a. \A u : turn[u].work = b => ~NoPickupOf(u)
      BY <1>6, <2>1, <2>3, <2>5, <2>7 DEF NoPickupOf
    <2>11. \A v \in Worker : InTurn(v) => turn[act[v].turn].work # b
      BY <2>10a DEF RunningIsOpen, Runs
    <2>12. \A p \in parked : turn[p[1]].work # b
      BY <2>10a DEF ParkedIsOpen, MayPark
    <2>13. /\ t \in Turn
           /\ t # r => ~Begun(t) /\ opening[t] = act[w].batch
      <3>1. CASE k.continues
        BY <1>2, <2>4, <3>1
      <3>2. CASE ~k.continues
        BY <1>2, <1>3, <3>2
        DEF RecordedIsNew, AccountedInv, StageIsOnDisk, StageOf
      <3> QED  BY <3>1, <3>2
    <2>14. \A u \in Turn :
             /\ u = t => turn'[u].how = "open" /\ turn'[u].worker = w
                         /\ turn'[u].causedBy = act[w].batch
             /\ u # t => turn'[u].causedBy = turn[u].causedBy
                         /\ turn'[u].worker = turn[u].worker
      BY <1>3, <2>13, BeginRecordMeans
    <2>15. \A u \in Turn : u # t =>
             turn'[u].how = IF u = r /\ turn[u].how = "open"
                            THEN "resumed" ELSE turn[u].how
      <3>1. \A u \in Turn : u # t =>
              turn'[u].how = IF u = k.turn /\ turn[u].how = "open"
                             THEN "resumed" ELSE turn[u].how
        BY <1>1, <1>3, <2>13, BeginRecordHow
      <3> QED  BY <2>4, <3>1
    <2>16. \A u \in Turn : turn'[u].work = IF u = t THEN b ELSE turn[u].work
      BY ZenonT(60), <1>1, <1>3, <2>4, <2>5, <2>13, BeginRecordWork
    <2>17. \A u \in Turn \ {t} :
             \/ turn'[u].how = turn[u].how
             \/ /\ turn[u].how = "open" /\ turn'[u].how = "resumed"
                /\ turn[u].work = b /\ AllStarted(u)
      BY <2>5, <2>8, <2>15
    <2>18. \A u \in Turn \ {t} : turn[u].how = "open" /\ turn[u].work = b =>
             turn'[u].how = "resumed"
      BY <2>9, <2>15 DEF Open
    <2>19. /\ Begun(t) => /\ turn[t].worker = w /\ turn[t].work = b
                          /\ AllStarted(t) /\ turn[t].how # "failed"
           /\ ~Begun(t) => opening[t] = act[w].batch
      <3>1. CASE t = r
        BY <2>4, <2>5, <2>6, <2>8, <3>1
      <3>2. CASE t # r
        BY <2>13, <3>2
      <3> QED  BY <3>1, <3>2
    <2>20. \A n \in Message : Unclaimed(n) /\ msg[n].marker.work = b =>
              n \in act[w].batch
      BY <2>1, <2>10
    <2>21. /\ turn'[t].how = "open" /\ turn'[t].worker = w
           /\ turn'[t].causedBy = act[w].batch /\ turn'[t].work = b
           /\ Begun(b) /\ \E n \in act[w].batch : msg[n].kind = "resume"
      BY <2>1, <2>5, <2>13, <2>14, <2>16
    <2>22. \A u \in Turn \ {t} : /\ turn'[u].worker = turn[u].worker
                                 /\ turn'[u].causedBy = turn[u].causedBy
                                 /\ turn'[u].work = turn[u].work
      BY <2>14, <2>16
    <2>23. \A n \in act[w].batch : msg[n].marker.work = b
      BY <2>2, <2>3, <2>5
    <2>24. BeginsAt(w, t, b)
      BY <1>3, <1>4, <1>5, <2>11, <2>12, <2>17, <2>18, <2>19, <2>20, <2>21,
         <2>22, <2>23 DEF BeginsAt
    <2> QED  BY <2>13, <2>24
  <1>8. CASE \A m \in act[w].batch : msg[m].kind # "resume"
    <2>1. k = NoMarker
      BY <1>1, <1>8, NoMarkerOf
    <2>2. k.turn = None /\ ~k.continues
      BY <2>1 DEF NoMarker
    <2>3. t \in Turn /\ ~Begun(t) /\ opening[t] = act[w].batch
      BY <1>2, <1>3, <2>2
      DEF RecordedIsNew, AccountedInv, StageIsOnDisk, StageOf
    <2>4. \A u \in Turn : Begun(u) => turn[u].work # t
      BY <2>3 DEF WorkIsBegun
    <2>5. \A m \in Message : Unclaimed(m) => msg[m].marker.work # t
      <3>1. \A m \in Message : Unclaimed(m) =>
              /\ msg[m].marker.work = turn[msg[m].marker.turn].work
              /\ msg[m].marker.turn \in Turn /\ Begun(msg[m].marker.turn)
        BY PickupTypes DEF Unclaimed, Addressed
      <3> QED  BY <2>4, <3>1
    <2>6. /\ \A v \in Worker : InTurn(v) => turn[act[v].turn].work # t
          /\ \A p \in parked : turn[p[1]].work # t
      BY <2>4, PickupTypes DEF RunningIsOpen, Runs, ParkedIsOpen, MayPark
    <2>7. \A u \in Turn :
             /\ u = t => turn'[u].how = "open" /\ turn'[u].worker = w
                         /\ turn'[u].causedBy = act[w].batch
             /\ u # t => turn'[u].causedBy = turn[u].causedBy
                         /\ turn'[u].worker = turn[u].worker
      BY <1>3, <2>3, BeginRecordMeans
    <2>8. \A u \in Turn : u # t => turn'[u].how = turn[u].how
      <3>1. \A u \in Turn : u # None
        BY ConstantsAssumption DEF ConstantsAssumption
      <3>2. \A u \in Turn : u # t =>
              turn'[u].how = IF u = k.turn /\ turn[u].how = "open"
                             THEN "resumed" ELSE turn[u].how
        BY <1>1, <1>3, <2>3, BeginRecordHow
      <3> QED  BY <2>2, <3>1, <3>2
    <2>9. \A u \in Turn : turn'[u].work = IF u = t THEN t ELSE turn[u].work
      BY <1>1, <1>3, <2>2, <2>3, BeginRecordWork
    <2>10. \A u \in Turn : turn[u].how = "open" => turn[u].work # t
      BY <2>4 DEF Begun
    <2>11. BeginsAt(w, t, t)
      BY <1>3, <1>4, <1>5, <1>8, <2>3, <2>5, <2>6, <2>7, <2>8, <2>9, <2>10
      DEF BeginsAt
    <2> QED  BY <2>3, <2>11
  <1> QED  BY <1>7, <1>8

\* A begin leaves one live pickup of its work: the turn it began.
LEMMA PickupBegin ==
  ASSUME LineageInv, LedgerInv, ProcessInv, NEW w \in Worker, NEW t \in Turn,
         NEW b \in Turn, BeginsAt(w, t, b)
  PROVE  LedgerInv' /\ ProcessInv'
  <1> AccountedInv
    BY DEF LineageInv
  <1> USE DEF ProcessInv, LedgerInv
  <1>1. PICK M \in SUBSET Message : M = act[w].batch
    BY PickupTypes
  <1>2. /\ UNCHANGED <<inbox, msg, opening, steered, alive, phase, queue, parked,
                       sweep, handing>>
        /\ phase = "up" /\ handing.kind = "none" /\ sweep = {}
        /\ \A v \in Worker \ {w} : act'[v] = act[v]
        /\ Staged(w)
    BY DEF BeginsAt, Phases
  <1>3. /\ turn'[t].how = "open" /\ turn'[t].worker = w
        /\ turn'[t].causedBy = M /\ turn'[t].work = b
        /\ \A u \in Turn \ {t} : /\ turn'[u].worker = turn[u].worker
                                 /\ turn'[u].causedBy = turn[u].causedBy
                                 /\ turn'[u].work = turn[u].work
    BY <1>1 DEF BeginsAt
  <1>4. \A u \in Turn \ {t} :
          \/ turn'[u].how = turn[u].how
          \/ /\ turn[u].how = "open" /\ turn'[u].how = "resumed"
             /\ turn[u].work = b /\ AllStarted(u)
    BY DEF BeginsAt
  <1>5. \A u \in Turn \ {t} : turn[u].how = "open" /\ turn[u].work = b =>
          turn'[u].how = "resumed"
    BY DEF BeginsAt
  <1>6. /\ Begun(t) => /\ turn[t].worker = w /\ turn[t].work = b
                       /\ AllStarted(t) /\ turn[t].how # "failed"
        /\ ~Begun(t) => opening[t] = M /\ steered[t] = {}
        /\ b = t \/ Begun(b)
    BY <1>1 DEF BeginsAt, WorkIsBegun
  <1>7. /\ act'[w].stage = "acking" /\ act'[w].turn = t /\ act'[w].todo = M
        /\ act'[w].batch = M
    BY <1>1, DoingType DEF BeginsAt
  <1>8. /\ Begun(t)'
        /\ \A u \in Turn \ {t} : Begun(u)' = Begun(u) /\ Held(u)' = Held(u)
                                 /\ AllStarted(u)' = AllStarted(u)
        /\ Begun(t) => Held(t)' \subseteq M \cup Held(t)
        /\ ~Begun(t) => Held(t)' \subseteq M
    BY <1>2, <1>3, <1>4, <1>6 DEF Begun, Held, AllStarted
  <1>9. /\ t \in Open'
        /\ \A u \in Open' : u # t =>
             u \in Open /\ turn[u].work # b /\ turn'[u].how = turn[u].how
        /\ \A u \in Open : turn[u].work # b => u \in Open'
        /\ \A u \in Open : u \in Turn /\ Begun(u)
    BY <1>3, <1>4, <1>5, <1>6, PickupTypes DEF Open, Begun
  <1>10. \A m \in M : m \in Message /\ msg[m].to = w
                      /\ Loose(m) /\ \A c \in queue : c[1] # m
    BY <1>1, <1>2 DEF Loose, LooseOnce
  <1>11. \A m \in Message : Unclaimed(m)' =>
           Unclaimed(m) /\ msg[m].marker.work # b /\ m \notin M
    <2> SUFFICES ASSUME NEW m \in Message, Unclaimed(m)'
                 PROVE  Unclaimed(m) /\ msg[m].marker.work # b /\ m \notin M
      OBVIOUS
    <2>1. inbox[m] = "pending" /\ msg[m].kind = "resume"
      BY <1>2 DEF Unclaimed
    <2>2. m \notin M
      BY <1>3, <1>9 DEF Unclaimed
    <2>3. ASSUME NEW u \in Open PROVE m \notin turn[u].causedBy
      <3>1. CASE u = t
        BY <1>6, <1>9, <2>1, <3>1, PickupTypes DEF AllStarted
      <3>2. CASE u # t /\ turn'[u].how = turn[u].how
        <4>1. u \in Open'
          BY <1>9, <3>2 DEF Open
        <4> QED  BY <1>3, <1>9, <3>2, <4>1 DEF Unclaimed
      <3>3. CASE u # t /\ AllStarted(u)
        BY <1>9, <2>1, <3>3, PickupTypes DEF AllStarted
      <3> QED  BY <1>4, <1>9, <3>1, <3>2, <3>3
    <2>4. Unclaimed(m)
      BY <2>1, <2>3 DEF Unclaimed
    <2> QED  BY <1>1, <2>2, <2>4 DEF BeginsAt
  <1>12. \A m \in Message : Unclaimed(m)' =>
           /\ msg[m].marker.turn \in Turn \ {t} /\ msg[m].kind = "resume"
           /\ msg[m].marker.work # b /\ Begun(msg[m].marker.turn)
           /\ Unclaimed(m)
    <2> SUFFICES ASSUME NEW m \in Message, Unclaimed(m)'
                 PROVE  /\ msg[m].marker.turn \in Turn \ {t}
                        /\ msg[m].kind = "resume"
                        /\ msg[m].marker.work # b /\ Begun(msg[m].marker.turn)
                        /\ Unclaimed(m)
      OBVIOUS
    <2>1. Unclaimed(m) /\ msg[m].marker.work # b
      BY <1>11
    <2>2. msg[m].kind = "resume" /\ msg[m].marker.turn \in Turn
          /\ Begun(msg[m].marker.turn)
      BY <2>1, PickupTypes DEF Unclaimed
    <2> QED  BY <1>6, <2>1, <2>2 DEF Addressed
  <1>13. \A u \in Turn \ {t} : NoPickupOf(u) => NoPickupOf(u)'
    BY <1>2, <1>3, <1>12 DEF NoPickupOf
  <1>14. Addressed'
    <2>1. \A u \in Turn : Begun(u)' => \A m \in Held(u)' : msg[m].to = turn'[u].worker
      BY <1>3, <1>6, <1>8, <1>10 DEF Addressed
    <2>2. ASSUME NEW m \in Message, msg[m].kind = "resume"
          PROVE  /\ msg[m].to = turn'[msg[m].marker.turn].worker
                 /\ msg[m].marker.work = turn'[msg[m].marker.turn].work
      <3>1. /\ msg[m].marker.turn \in Turn /\ Begun(msg[m].marker.turn)
            /\ msg[m].to = turn[msg[m].marker.turn].worker
            /\ msg[m].marker.work = turn[msg[m].marker.turn].work
        BY <2>2, PickupTypes DEF Addressed
      <3> QED  BY <1>3, <1>6, <3>1
    <2> QED  BY <1>2, <2>1, <2>2 DEF Addressed
  <1>15. WorkIsBegun'
    BY <1>2, <1>3, <1>6, <1>8 DEF WorkIsBegun
  <1>16. PickupIsClean'
    BY <1>2, <1>4, <1>8, <1>12 DEF PickupIsClean
  <1>17. EndedIsStarted'
    <2> SUFFICES ASSUME NEW u \in Turn, Begun(u)', u \notin Open',
                        NEW m \in Held(u)', inbox[m] = "pending"
                 PROVE  \/ turn'[u].how = "failed" /\ m \in steered[u]
                        \/ Main[turn'[u].worker] \notin alive
      BY <1>2 DEF EndedIsStarted
    <2>1. u # t /\ Begun(u) /\ m \in Held(u) /\ m \in Message
      BY <1>8, <1>9, PickupTypes
    <2>2. CASE turn'[u].how = turn[u].how
      <3>1. u \notin Open
        BY <2>2 DEF Open
      <3> QED  BY <1>3, <2>1, <2>2, <3>1 DEF EndedIsStarted
    <2>3. CASE AllStarted(u)
      BY <2>1, <2>3 DEF AllStarted
    <2> QED  BY <1>4, <2>1, <2>2, <2>3
  <1>18. OneOpen'
    BY <1>3, <1>9 DEF OneOpen
  <1>19. OneWaiting'
    BY <1>2, <1>12 DEF OneWaiting
  <1>20. WaitingIsOpen'
    <2> SUFFICES ASSUME NEW u \in Open', NEW m \in Message, Unclaimed(m)',
                        msg[m].marker.work = turn'[u].work
                 PROVE  msg[m].marker.turn = u
      BY <1>2 DEF WaitingIsOpen
    <2>1. Unclaimed(m) /\ u # t
      BY <1>3, <1>12
    <2>2. u \in Open /\ turn'[u].work = turn[u].work
      BY <1>3, <1>9, <2>1
    <2> QED  BY <2>1, <2>2 DEF WaitingIsOpen
  <1>21. \A u \in Turn : turn[u].how = "failed" => turn'[u].how = "failed" \/ u = t
    BY <1>4
  <1>22. UniqueOwner'
    <2> SUFFICES ASSUME NEW u \in Turn, NEW v \in Turn, NEW m \in Message,
                        u # v, v # t, Begun(u)', Begun(v)', m \in Held(u)',
                        m \in Held(v)'
                 PROVE  \E x \in {u, v} : turn'[x].how = "failed" /\ m \in steered[x]
      BY <1>2 DEF UniqueOwner
    <2>1. Begun(v) /\ m \in Held(v)
      BY <1>8
    <2>2. CASE m \in Held(u) /\ Begun(u)
      <3>1. \E x \in {u, v} : turn[x].how = "failed" /\ m \in steered[x]
        BY <2>1, <2>2 DEF UniqueOwner
      <3>2. u = t => turn[u].how # "failed"
        BY <1>6, <2>2
      <3> QED  BY <1>21, <3>1, <3>2
    <2>3. CASE u = t /\ m \in M
      <3>1. turn[v].how = "failed" /\ m \in steered[v]
        BY <1>10, <2>1, <2>3 DEF LooseIsFree
      <3> QED  BY <1>21, <3>1
    <2> QED  BY <1>8, <2>2, <2>3
  <1>23. \A v \in Worker :
          /\ Staged(v)' => Staged(v) /\ act'[v] = act[v] /\ v # w
          /\ InTurn(v)' /\ v # w => InTurn(v) /\ act'[v] = act[v]
    BY <1>2, <1>7 DEF Staged, InTurn
  <1>24. \A m \in Message : Loose(m)' => Loose(m) /\ m \notin M
    <2>1. \A m \in Message : Loose(m)' => Loose(m)
      BY <1>2, <1>23 DEF Loose
    <2>2. ASSUME NEW m \in M PROVE ~Loose(m)'
      <3>1. \A c \in queue' : c[1] # m
        BY <1>2, <1>10, <2>2
      <3>2. ASSUME NEW v \in Worker, Staged(v)' PROVE m \notin act'[v].batch
        <4>1. Staged(v) /\ act'[v] = act[v] /\ v # w
          BY <1>23, <3>2
        <4>2. msg[m].to = w
          BY <1>10, <2>2
        <4> QED  BY <4>1, <4>2 DEF LooseOnce
      <3> QED  BY <3>1, <3>2 DEF Loose
    <2> QED  BY <2>1, <2>2
  <1>25. Phases' /\ Replayed'
    BY <1>2 DEF Phases, Replayed
  <1>26. LooseOnce'
    BY <1>2, <1>23 DEF LooseOnce
  <1>27. LooseIsFree'
    <2>1. \A m \in Message : Loose(m)' => inbox[m] = "pending"
      BY <1>24 DEF LooseIsFree
    <2>2. ASSUME NEW m \in Message, NEW u \in Turn, Loose(m)', Begun(u)',
                 m \in Held(u)'
          PROVE  turn'[u].how = "failed" /\ m \in steered[u]
      <3>1. Loose(m) /\ m \notin M
        BY <1>24, <2>2
      <3>2. Begun(u) /\ m \in Held(u)
        BY <1>8, <2>2, <3>1
      <3>3. turn[u].how = "failed" /\ m \in steered[u]
        BY <3>1, <3>2 DEF LooseIsFree
      <3>4. u # t
        BY <1>6, <3>2, <3>3
      <3> QED  BY <1>21, <3>3, <3>4
    <2> QED  BY <1>2, <2>1, <2>2 DEF LooseIsFree
  <1>28. RecordedIsNew'
    <2> SUFFICES ASSUME NEW v \in Worker, act'[v].stage = "recorded"
                 PROVE  ~Begun(act[v].turn)' /\ act'[v] = act[v]
      BY DEF RecordedIsNew
    <2>1. v # w /\ act'[v] = act[v] /\ Staged(v)
      BY <1>2, <1>7 DEF Staged
    <2>2. /\ ~Begun(act[v].turn) /\ act[v].turn \in Turn
          /\ opening[act[v].turn] = act[v].batch /\ act[v].batch # {}
      BY <2>1 DEF RecordedIsNew, AccountedInv, StageIsOnDisk, StageOf
    <2>3. act[v].turn # t
      <3>1. ASSUME act[v].turn = t PROVE FALSE
        <4>1. act[v].batch = M
          BY <1>6, <2>2, <3>1
        <4>2. PICK m \in M : TRUE
          BY <2>2, <4>1
        <4>3. msg[m].to = w /\ msg[m].to = v
          BY <1>10, <2>1, <4>1, <4>2 DEF LooseOnce
        <4> QED  BY <2>1, <4>3
      <3> QED  BY <3>1
    <2> QED  BY <1>8, <2>1, <2>2, <2>3
  <1>29. RunningIsOpen'
    <2> SUFFICES ASSUME NEW v \in Worker, InTurn(v)'
                 PROVE  Runs(v, act[v].turn)'
      BY DEF RunningIsOpen
    <2>1. CASE v = w
      <3>1. NoPickupOf(t)'
        BY <1>2, <1>3, <1>12 DEF NoPickupOf
      <3>2. \A m \in Held(t)' : inbox[m] = "pending" => m \in M
        BY <1>6, <1>8 DEF AllStarted
      <3> QED  BY <1>2, <1>3, <1>7, <1>9, <2>1, <3>1, <3>2 DEF Runs
    <2>2. CASE v # w
      <3>1. InTurn(v) /\ act'[v] = act[v]
        BY <1>23, <2>2
      <3>2. Runs(v, act[v].turn) /\ turn[act[v].turn].work # b
        BY <3>1 DEF RunningIsOpen, BeginsAt
      <3>3. /\ act[v].turn \in Turn \ {t} /\ act[v].turn \in Open'
        BY <1>6, <1>9, <3>2 DEF Runs
      <3> QED  BY <1>2, <1>3, <1>8, <1>13, <3>1, <3>2, <3>3 DEF Runs
    <2> QED  BY <2>1, <2>2
  <1>30. SweptIsOpen' /\ HandedIsOpen'
    BY <1>2 DEF SweptIsOpen, HandedIsOpen
  <1>31. ParkedIsOpen'
    <2>1. ASSUME NEW p \in parked PROVE MayPark(p[1])'
      <3>1. MayPark(p[1]) /\ p[1] \in Open /\ turn[p[1]].work # b
        BY DEF ParkedIsOpen, MayPark, BeginsAt
      <3>2. p[1] \in Turn \ {t} /\ p[1] \in Open'
        BY <1>6, <1>9, <3>1
      <3>3. \A v \in Worker : InTurn(v)' => act'[v].turn # p[1]
        BY <1>7, <1>23, <3>1, <3>2 DEF MayPark
      <3> QED  BY <1>2, <1>8, <1>13, <3>1, <3>2, <3>3 DEF MayPark
    <2> QED  BY <1>2, <2>1 DEF ParkedIsOpen
  <1> QED  BY <1>14, <1>15, <1>16, <1>17, <1>18, <1>19, <1>20, <1>22, <1>25,
              <1>26, <1>27, <1>28, <1>29, <1>30, <1>31

----------------------------------------------------------------------------
(* resumeInterrupted(), and the answer to a parked turn.                   *)

\* An interrupted turn that is to be continued owes the inbox nothing, and
\* the replay would have queued a continuation of its work.
LEMMA MayBeContinued ==
  ASSUME AccountedInv, LedgerInv, ProcessInv, NEW t \in Turn, ResumeNext(t),
         Disposition(t) \in {"park", "pick-up"}
  PROVE  /\ t \in Open /\ AllStarted(t) /\ NoPickupOf(t)
         /\ \A w \in Worker : ~InTurn(w)
         /\ \A p \in parked : p[1] # t
  <1> USE DEF ProcessInv, LedgerInv
  <1>1. phase = "resume" /\ t \in sweep
    BY DEF ResumeNext
  <1>2. ~HasPendingResume(t) /\ Main[turn[t].worker] \in alive
    BY DEF Disposition
  <1>3. t \in Open /\ \A m \in OwnedBy(t) : inbox[m] # "pending"
    BY <1>1 DEF SweptIsOpen
  <1>4. AllStarted(t)
    BY <1>2, <1>3 DEF AllStarted, Held, OwnedBy
  <1>5. NoPickupOf(t)
    <2> SUFFICES ASSUME NEW m \in Message, Unclaimed(m),
                        msg[m].marker.work = turn[t].work
                 PROVE  FALSE
      BY DEF NoPickupOf
    <2>1. msg[m].marker.turn = t /\ inbox[m] = "pending" /\ msg[m].kind = "resume"
      BY <1>3 DEF WaitingIsOpen, Unclaimed
    <2>2. Main[msg[m].to] \in alive
      BY <1>2, <2>1 DEF Addressed
    <2>3. \E c \in queue : c[1] = m
      BY <1>1, <2>1, <2>2 DEF Replayed
    <2> QED  BY <1>2, <2>1, <2>3 DEF HasPendingResume
  <1>6. \A w \in Worker : ~InTurn(w)
    BY <1>1 DEF Phases, InTurn
  <1>7. \A p \in parked : p[1] # t
    BY <1>1 DEF ParkedIsOpen, MayPark
  <1> QED  BY <1>3, <1>4, <1>5, <1>6, <1>7

\* A turn is parked once, and waits for a person alone.
LEMMA PickupPark ==
  ASSUME AccountedInv, LedgerInv, ProcessInv, NEW t \in Turn, Park(t)
  PROVE  LedgerInv' /\ ProcessInv'
  <1> USE DEF ProcessInv
  <1>1. /\ UNCHANGED <<inbox, msg, turn, opening, steered, alive, phase, queue,
                       act, handing>>
        /\ parked' = parked \cup {<<t, NextAttempt(t)>>}
        /\ sweep' = sweep \ {t}
        /\ ResumeNext(t) /\ Disposition(t) = "park"
    BY DEF Park, durable
  <1>2. /\ t \in Open /\ AllStarted(t) /\ NoPickupOf(t)
        /\ \A w \in Worker : ~InTurn(w)
        /\ \A p \in parked : p[1] # t
    BY <1>1, MayBeContinued
  <1>3. LedgerInv'
    BY <1>1, LedgerQuiet
  <1>4. /\ turn' = turn /\ Open' = Open
        /\ \A u : /\ AllStarted(u)' = AllStarted(u) /\ NoPickupOf(u)' = NoPickupOf(u)
                  /\ Held(u)' = Held(u) /\ Begun(u)' = Begun(u)
                  /\ OwnedBy(u)' = OwnedBy(u)
        /\ \A w \in Worker : InTurn(w)' = InTurn(w) /\ Staged(w)' = Staged(w)
        /\ \A m \in Message : Loose(m)' = Loose(m) /\ Unclaimed(m)' = Unclaimed(m)
    BY <1>1 DEF Open, AllStarted, NoPickupOf, Held, Begun, OwnedBy, InTurn,
                Staged, Loose, Unclaimed
  <1>5. Phases'
    BY <1>1 DEF Phases, ResumeNext
  <1>6. Replayed' /\ LooseOnce' /\ LooseIsFree' /\ RecordedIsNew'
    BY <1>1, <1>4 DEF Replayed, LooseOnce, LooseIsFree, RecordedIsNew
  <1>7. RunningIsOpen'
    BY <1>2, <1>4 DEF RunningIsOpen
  <1>8. SweptIsOpen' /\ HandedIsOpen'
    BY <1>1, <1>4 DEF SweptIsOpen, HandedIsOpen
  <1>9. ParkedIsOpen'
    <2>1. ASSUME NEW p \in parked' PROVE MayPark(p[1])'
      <3>1. CASE p \in parked
        <4>1. MayPark(p[1])
          BY <3>1 DEF ParkedIsOpen
        <4> QED  BY <1>1, <1>4, <4>1 DEF MayPark
      <3>2. CASE p[1] = t
        BY <1>1, <1>2, <1>4, <3>2 DEF MayPark
      <3> QED  BY <1>1, <3>1, <3>2
    <2>2. \A p, q \in parked' : p[1] = q[1] => p = q
      BY <1>1, <1>2 DEF ParkedIsOpen
    <2> QED  BY <2>1, <2>2 DEF ParkedIsOpen
  <1> QED  BY <1>3, <1>5, <1>6, <1>7, <1>8, <1>9

\* A turn that is picked up at startup has no other pickup.
LEMMA PickupResume ==
  ASSUME AccountedInv, LedgerInv, ProcessInv, NEW t \in Turn, NEW m \in Message,
         ResumeTurn(t, m)
  PROVE  LedgerInv' /\ ProcessInv'
  <1>1. /\ ResumeNext(t) /\ Disposition(t) = "pick-up"
        /\ PickUp(t, m, NextAttempt(t)) /\ sweep' = sweep \ {t}
        /\ UNCHANGED <<turn, opening, steered, alive, act, phase, parked>>
        /\ phase = "resume" /\ ~Synchronous
    BY DEF ResumeTurn, ResumeNext
  <1>2. NextAttempt(t) \in 0..MaxResumes
    BY <1>1, NextAttemptType, DispositionMeans DEF AccountedInv
  <1>3. /\ t \in Open /\ AllStarted(t) /\ NoPickupOf(t)
        /\ \A w \in Worker : ~InTurn(w)
        /\ \A p \in parked : p[1] # t
    BY <1>1, MayBeContinued
  <1> QED  BY <1>1, <1>2, <1>3, PickupPickUp

\* A parked turn leaves the parking as its pickup is queued.
LEMMA PickupAnswer ==
  ASSUME AccountedInv, LedgerInv, ProcessInv, NEW t \in Turn, NEW m \in Message,
         AnswerApproval(t, m)
  PROVE  LedgerInv' /\ ProcessInv'
  <1>1. /\ UNCHANGED <<turn, opening, steered, alive, act, phase, sweep>>
        /\ phase = "up" /\ ~Synchronous
    BY DEF AnswerApproval
  <1>2. ASSUME UNCHANGED <<inbox, msg, queue, handing, parked>>
        PROVE  LedgerInv' /\ ProcessInv'
    <2>1. LedgerInv'
      BY <1>1, <1>2, LedgerQuiet
    <2>2. ProcessInv'
      BY <1>1, <1>2, ProcessQuiet
    <2> QED  BY <2>1, <2>2
  <1>3. ASSUME NEW p \in parked, p[1] = t, PickUp(t, m, p[2]),
               parked' = parked \ {p}
        PROVE  LedgerInv' /\ ProcessInv'
    <2>1. MayPark(t)
      BY <1>3 DEF ProcessInv, ParkedIsOpen
    <2>2. p[2] \in 0..MaxResumes
      BY DEF AccountedInv, TypeOK
    <2>3. \A q \in parked' : q \in parked /\ q[1] # t
      BY <1>3 DEF ProcessInv, ParkedIsOpen
    <2> QED  BY <1>1, <1>3, <2>1, <2>2, <2>3, PickupPickUp DEF MayPark
  <1> QED  BY <1>2, <1>3 DEF AnswerApproval

----------------------------------------------------------------------------
(* The life of the process.                                                *)

\* A process that died holds nothing.
LEMMA PickupCrash ==
  ASSUME AccountedInv, LedgerInv, ProcessInv, Crash
  PROVE  LedgerInv' /\ ProcessInv'
  <1>1. /\ UNCHANGED <<inbox, msg, turn, opening, steered, alive>>
        /\ \A w \in Worker : act'[w] = Idle
        /\ phase' = "down" /\ queue' = {} /\ parked' = {} /\ sweep' = {}
        /\ handing'.kind = "none"
    BY DEF Crash, durable
  <1>2. LedgerInv'
    BY <1>1, LedgerQuiet
  <1>3. \A w \in Worker : ~Staged(w)' /\ ~InTurn(w)' /\ act'[w].stage = "idle"
    BY <1>1, IdleType DEF Staged, InTurn
  <1>4. \A m \in Message : ~Loose(m)'
    BY <1>1, <1>3 DEF Loose
  <1>5. ProcessInv'
    BY <1>1, <1>3, <1>4 DEF ProcessInv, Phases, Replayed, LooseOnce, LooseIsFree,
       RecordedIsNew, RunningIsOpen, SweptIsOpen, ParkedIsOpen, HandedIsOpen
  <1> QED  BY <1>2, <1>5

\* A change of phase alone.
LEMMA PickupPhase ==
  ASSUME AccountedInv, LedgerInv, ProcessInv,
         UNCHANGED <<inbox, msg, turn, opening, steered, alive, queue, act,
                     parked, sweep, handing>>,
         Phases', phase' # "resume"
  PROVE  LedgerInv' /\ ProcessInv'
  <1> USE DEF ProcessInv
  <1>1. LedgerInv'
    BY LedgerQuiet
  <1>2. /\ turn' = turn /\ Open' = Open
        /\ \A u : /\ AllStarted(u)' = AllStarted(u) /\ NoPickupOf(u)' = NoPickupOf(u)
                  /\ Held(u)' = Held(u) /\ Begun(u)' = Begun(u)
                  /\ OwnedBy(u)' = OwnedBy(u)
        /\ \A w \in Worker : InTurn(w)' = InTurn(w) /\ Staged(w)' = Staged(w)
        /\ \A m \in Message : Loose(m)' = Loose(m) /\ Unclaimed(m)' = Unclaimed(m)
    BY DEF Open, AllStarted, NoPickupOf, Held, Begun, OwnedBy, InTurn,
           Staged, Loose, Unclaimed
  <1>3. Replayed' /\ LooseOnce' /\ LooseIsFree' /\ RecordedIsNew'
    BY <1>2 DEF Replayed, LooseOnce, LooseIsFree, RecordedIsNew
  <1>4. RunningIsOpen' /\ SweptIsOpen' /\ HandedIsOpen'
    BY <1>2 DEF RunningIsOpen, Runs, SweptIsOpen, HandedIsOpen
  <1>5. ParkedIsOpen'
    BY <1>2 DEF ParkedIsOpen, MayPark
  <1> QED  BY <1>1, <1>3, <1>4, <1>5

\* recover() queues what waits, once, and no turn owns any of it.
LEMMA PickupRecover ==
  ASSUME AccountedInv, LedgerInv, ProcessInv, Recover
  PROVE  LedgerInv' /\ ProcessInv'
  <1> USE DEF ProcessInv, LedgerInv
  <1>1. /\ UNCHANGED <<inbox, msg, turn, opening, steered, alive, act, parked,
                       handing>>
        /\ sweep' = Open /\ phase' = "resume" /\ phase = "starting"
        /\ queue' = queue \cup
             {<<m, "replay">> : m \in {n \in Message :
                 inbox[n] = "pending" /\ Main[msg[n].to] \in alive}}
    BY DEF Recover, durable
  <1>2. /\ queue = {} /\ parked = {} /\ handing.kind = "none"
        /\ \A w \in Worker : act[w].stage = "idle"
        /\ Reconcilable = {}
    BY <1>1 DEF Phases
  <1>3. \A c \in queue' : /\ c[1] \in Message /\ c = <<c[1], "replay">>
                         /\ inbox[c[1]] = "pending" /\ Main[msg[c[1]].to] \in alive
    BY <1>1, <1>2
  <1>4. \A w \in Worker : ~Staged(w)' /\ ~InTurn(w)'
    BY <1>1, <1>2 DEF Staged, InTurn
  <1>5. LedgerInv'
    BY <1>1, LedgerQuiet
  <1>6. Phases'
    BY <1>1, <1>2 DEF Phases
  <1>7. Replayed'
    <2> SUFFICES ASSUME NEW m \in Message, inbox[m] = "pending",
                        Main[msg[m].to] \in alive
                 PROVE  \E c \in queue' : c[1] = m
      BY <1>1 DEF Replayed
    <2>1. <<m, "replay">> \in queue'
      BY <1>1
    <2> QED  BY <2>1
  <1>8. LooseOnce'
    <2>1. \A c, d \in queue' : c[1] = d[1] => c = d
      BY <1>3
    <2> QED  BY <1>4, <2>1 DEF LooseOnce
  <1>9. LooseIsFree'
    <2>1. \A m \in Message : Loose(m)' => inbox[m] = "pending"
                                         /\ Main[msg[m].to] \in alive
      BY <1>3, <1>4 DEF Loose
    <2>2. ASSUME NEW m \in Message, NEW t \in Turn, Loose(m)', Begun(t),
                 m \in Held(t)
          PROVE  turn[t].how = "failed" /\ m \in steered[t]
      <3>1. inbox[m] = "pending" /\ Main[turn[t].worker] \in alive
        BY <2>1, <2>2 DEF Addressed
      <3>2. t \notin Open
        BY <1>2, <2>2, <3>1 DEF Reconcilable, OwnedBy, Held
      <3> QED  BY <2>2, <3>1, <3>2 DEF EndedIsStarted
    <2>3. \A t \in Turn : Begun(t)' = Begun(t) /\ Held(t)' = Held(t)
      BY <1>1 DEF Begun, Held
    <2> QED  BY <1>1, <2>1, <2>2, <2>3 DEF LooseIsFree
  <1>10. RecordedIsNew' /\ RunningIsOpen' /\ ParkedIsOpen' /\ HandedIsOpen'
    BY <1>1, <1>2, <1>4 DEF RecordedIsNew, RunningIsOpen, ParkedIsOpen,
                            HandedIsOpen
  <1>11. SweptIsOpen'
    <2>1. \A t \in Open : \A m \in OwnedBy(t) : m \in Message /\ inbox[m] # "pending"
      <3>1. \A t \in Open : OwnedBy(t) \subseteq Message
        BY PickupTypes DEF OwnedBy
      <3> QED  BY <1>2, <3>1 DEF Reconcilable
    <2>2. Open' = Open /\ \A t : OwnedBy(t)' = OwnedBy(t)
      BY <1>1 DEF Open, OwnedBy
    <2> QED  BY <1>1, <2>1, <2>2 DEF SweptIsOpen
  <1> QED  BY <1>5, <1>6, <1>7, <1>8, <1>9, <1>10, <1>11

----------------------------------------------------------------------------
(* Every step.                                                             *)

\* Every step of a turn.
LEMMA PickupTurn ==
  ASSUME LineageInv, LedgerInv, ProcessInv, NEW w \in Worker, TurnStep(w)
  PROVE  LedgerInv' /\ ProcessInv'
  <1> AccountedInv
    BY DEF LineageInv
  <1>1. CASE SetupFails(w) \/ OnReadyFails(w)
    <2>1. /\ UNCHANGED <<inbox, msg, turn, opening, steered, alive, phase, queue,
                         parked, sweep, handing>>
          /\ \A v \in Worker : act'[v] = act[v] \/ act'[v] = Idle
      BY <1>1 DEF SetupFails, OnReadyFails, durable, AccountedInv, TypeOK
    <2>2. LedgerInv'
      BY <2>1, LedgerQuiet
    <2> QED  BY <2>1, <2>2, ProcessQuiet
  <1>2. ASSUME NEW asks \in BOOLEAN, ToolCall(w, asks)
        PROVE  LedgerInv' /\ ProcessInv'
    <2>1. UNCHANGED <<inbox, msg, turn, opening, steered, alive, phase, queue,
                      act, parked, sweep, handing>>
      BY <1>2 DEF ToolCall
    <2>2. LedgerInv'
      BY <2>1, LedgerQuiet
    <2> QED  BY <2>1, <2>2, ProcessQuiet
  <1>3. CASE Begin(w)
    <2>1. PICK t, b \in Turn : BeginsAt(w, t, b)
      BY <1>3, BeginMeans
    <2> QED  BY <2>1, PickupBegin
  <1>4. ASSUME NEW how \in TurnEnd, SteeringFails(w) \/ Finish(w, how)
        PROVE  LedgerInv' /\ ProcessInv'
    BY <1>4, PickupFinish
  <1>5. "done" \in TurnEnd
    BY DEF TurnEnd
  <1> QED  BY <1>1, <1>2, <1>3, <1>4, <1>5, PickupDrain, PickupSteer,
              PickupDecline, PickupOpening, PickupAcknowledge DEF TurnStep

\* Every step of resumeInterrupted() and of an approval.
LEMMA PickupResumeStep ==
  ASSUME LineageInv, LedgerInv, ProcessInv, NEW t \in Turn, ResumeStep(t)
  PROVE  LedgerInv' /\ ProcessInv'
  <1> AccountedInv
    BY DEF LineageInv
  <1>1. CASE SkipTurn(t)
    <2>1. /\ UNCHANGED <<inbox, msg, turn, opening, steered, alive, phase, queue,
                         act, parked, handing>>
          /\ sweep' \subseteq sweep
      BY <1>1 DEF SkipTurn, durable
    <2>2. LedgerInv'
      BY <2>1, LedgerQuiet
    <2> QED  BY <2>1, <2>2, ProcessQuiet
  <1> QED  BY <1>1, PickupAbandon, PickupPark, PickupResume, PickupAnswer
           DEF ResumeStep

\* Every step, when the startup sweeps have nothing to deliver.
LEMMA PickupStep ==
  ASSUME ~StartupNotes, PickupInv, [Next]_vars
  PROVE  PickupInv'
  <1> USE DEF PickupInv
  <1> AccountedInv
    BY DEF LineageInv
  <1>1. LineageInv'
    BY LineageStep
  <1>2. ASSUME NEW m \in Message, NEW w \in Worker, NEW kind \in Kind,
               Admit(m, w, kind) \/ StartupNote(m, w, kind)
        PROVE  LedgerInv' /\ ProcessInv'
    BY <1>2, PickupAdmit DEF StartupNote
  <1>3. ASSUME NEW w \in Worker, TurnStep(w) PROVE LedgerInv' /\ ProcessInv'
    BY <1>3, PickupTurn
  <1>4. ASSUME NEW t \in Turn, ResumeStep(t) PROVE LedgerInv' /\ ProcessInv'
    BY <1>4, PickupResumeStep
  <1>5. ASSUME NEW m \in Message, Reconcile(m) PROVE LedgerInv' /\ ProcessInv'
    BY <1>5, PickupReconcile
  \* The steps that move nothing.
  <1>6. ASSUME UNCHANGED <<inbox, msg, opening, steered, phase, queue, act,
                           parked, sweep>>,
               alive' = alive \/ (phase = "up" /\ alive' \subseteq alive),
               \A t \in Turn : /\ turn'[t].how = turn[t].how
                              /\ turn'[t].causedBy = turn[t].causedBy
                              /\ turn'[t].worker = turn[t].worker
                              /\ turn'[t].work = turn[t].work,
               handing' = handing \/ handing'.kind = "none"
        PROVE  LedgerInv' /\ ProcessInv'
    <2>1. LedgerInv'
      BY <1>6, LedgerQuiet
    <2>2. ProcessInv'
      BY <1>6, ProcessQuiet
    <2> QED  BY <2>1, <2>2
  <1>7. ASSUME NEW S \in SUBSET Turn, NoteCleanShutdown(S)
        PROVE  LedgerInv' /\ ProcessInv'
    <2>1. UNCHANGED <<inbox, msg, opening, steered, alive, phase, queue, act,
                      parked, sweep, handing>>
      BY <1>7 DEF NoteCleanShutdown, volatile
    <2>2. \A t \in Turn : /\ turn'[t].how = turn[t].how
                         /\ turn'[t].causedBy = turn[t].causedBy
                         /\ turn'[t].worker = turn[t].worker
                         /\ turn'[t].work = turn[t].work
      <3>1. \A t \in Turn : turn[t] \in TurnRecord
        BY DEF AccountedInv, TypeOK
      <3> QED  BY <1>7, <3>1 DEF NoteCleanShutdown, TurnRecord
    <2> QED  BY <1>6, <2>1, <2>2
  <1>8. ASSUME NEW a \in Agent, RemoveAgent(a) PROVE LedgerInv' /\ ProcessInv'
    <2>1. UNCHANGED <<inbox, msg, turn, opening, steered, phase, queue, act,
                      parked, sweep, handing>>
      BY <1>8 DEF RemoveAgent, volatile
    <2>2. phase = "up" /\ alive' \subseteq alive
      BY <1>8 DEF RemoveAgent
    <2> QED  BY <1>6, <2>1, <2>2
  <1>9. ASSUME NEW w \in Worker, SwitchContext(w) PROVE LedgerInv' /\ ProcessInv'
    <2>1. UNCHANGED <<inbox, msg, turn, opening, steered, alive, phase, queue,
                      act, parked, sweep, handing>>
      BY <1>9 DEF SwitchContext, volatile
    <2> QED  BY <1>6, <2>1
  <1>10. ASSUME GiveUpNote PROVE LedgerInv' /\ ProcessInv'
    <2>1. /\ UNCHANGED <<inbox, msg, turn, opening, steered, alive, phase, queue,
                         act, parked, sweep>>
          /\ handing'.kind = "none"
      BY <1>10 DEF GiveUpNote
    <2> QED  BY <1>6, <2>1
  <1>11. ASSUME Boot \/ Reconciled \/ Started PROVE LedgerInv' /\ ProcessInv'
    <2>1. UNCHANGED <<inbox, msg, turn, opening, steered, alive, queue, act,
                      parked, sweep, handing>>
      BY <1>11 DEF Boot, Reconciled, Started, durable
    <2>2. phase' # "resume"
      BY <1>11 DEF Boot, Reconciled, Started
    <2>3. Reconcilable' = Reconcilable
      BY <2>1 DEF Reconcilable, Open, OwnedBy
    <2>4. Phases'
      BY <1>11, <2>1, <2>3 DEF Boot, Reconciled, Started, Phases, ProcessInv
    <2> QED  BY <2>1, <2>2, <2>4, PickupPhase
  <1>12. ASSUME UNCHANGED vars PROVE LedgerInv' /\ ProcessInv'
    <2>1. UNCHANGED <<inbox, msg, turn, opening, steered, alive, phase, queue,
                      act, parked, sweep, handing>>
      BY <1>12 DEF vars, durable, volatile
    <2> QED  BY <1>6, <2>1
  <1>13. LedgerInv' /\ ProcessInv'
    BY <1>2, <1>3, <1>4, <1>5, <1>7, <1>8, <1>9, <1>10, <1>11, <1>12,
       PickupRelinquish, PickupCrash, PickupRecover DEF Next
  <1> QED  BY <1>1, <1>13

----------------------------------------------------------------------------
(* One pickup, whatever the startup sweeps deliver.  A turn that a startup *)
(* note began may be running while resumeInterrupted() picks it up: it     *)
(* need not be open, but its work has one continuation still.              *)

Resumes(m) == msg[m].kind = "resume"

\* The inbox would not replay a continuation turn t began with.
Paid(t) == \A m \in turn[t].causedBy : Resumes(m) => inbox[m] # "pending"

\* What a marker says of its turn stays true.
MarkersAreTrue ==
    \A m \in Message : Resumes(m) =>
        /\ msg[m].to = turn[msg[m].marker.turn].worker
        /\ msg[m].marker.work = turn[msg[m].marker.turn].work

\* Work is named after the turn that began it.
WorkBegan ==
    \A t \in Turn : Begun(t) => turn[t].work \in Turn /\ Begun(turn[t].work)

\* A turn that ended, or is to be continued, owes the inbox no continuation.
EndedIsPaid == \A t \in Turn : Begun(t) /\ t \notin Open => Paid(t)
WaitingIsPaid == \A m \in Message : Unclaimed(m) => Paid(msg[m].marker.turn)

WorkInv ==
    /\ MarkersAreTrue
    /\ WorkBegan
    /\ EndedIsPaid
    /\ WaitingIsPaid
    /\ OneOpen
    /\ OneWaiting
    /\ WaitingIsOpen

\* What the process holds in each phase of its life: before recover() only
\* startup notes are about.
LifeInv ==
    /\ phase \in {"down", "reconcile"} =>
         queue = {} /\ \A w \in Worker : act[w].stage = "idle"
    /\ phase \in {"down", "reconcile", "starting"} =>
         parked = {} /\ handing.kind = "none"
    /\ phase # "resume" => sweep = {}
    /\ phase = "resume" =>
         \A w \in Worker : act[w].stage \notin {"acking", "steering"}
    /\ phase = "starting" =>
         /\ \A m \in Message : Loose(m) => ~Resumes(m)
         /\ \A t \in Open : Paid(t)

\* When the interrupted turns are gone through, every continuation that
\* waits for an agent that still exists is in the queue.
PickupsReplayed ==
    phase = "resume" =>
        \A m \in Message :
            inbox[m] = "pending" /\ Resumes(m) /\ Main[msg[m].to] \in alive =>
                \E c \in queue : c[1] = m

\* A continuation is queued once, or is in the one batch of its conversation,
\* and no open turn began with it.
PickupOnce ==
    /\ \A c, d \in queue : c[1] = d[1] /\ Resumes(c[1]) => c = d
    /\ \A w \in Worker : Staged(w) => \A m \in act[w].batch :
         /\ msg[m].to = w
         /\ Resumes(m) => \A c \in queue : c[1] # m
PickupIsLoose == \A m \in Message : Loose(m) /\ Resumes(m) => Unclaimed(m)

\* The pickup of turn t is half done: its continuation is on disk.
HandedTo(t) == handing.kind = "continue" /\ handing.turn = t

\* Worker w is in turn t: its own, and while the turn is open nothing else is
\* to continue its work.  What it is about to acknowledge no turn gets again.
Carries(w, t) ==
    /\ turn[t].worker = w
    /\ t \in Open => NoPickupOf(t) \/ HandedTo(t)
    /\ act[w].stage # "acking" => Paid(t)
    /\ act[w].stage = "acking" =>
         \A m \in turn[t].causedBy :
            Resumes(m) /\ inbox[m] = "pending" => m \in act[w].todo
    /\ act[w].stage \in {"acking", "steering"} =>
         \A m \in act[w].todo : Resumes(m) => ~Loose(m)
CarriedAlone == \A w \in Worker : InTurn(w) => Carries(w, act[w].turn)

\* A turn resumeInterrupted() has left is open and was reconciled.
SweptIsPaid == \A t \in sweep : t \in Open /\ Paid(t)

\* The work of a turn that is parked has no other turn and no continuation,
\* and the turn is over only if nobody can answer for it any more.
Stands(t) ==
    /\ t \notin sweep /\ ~HandedTo(t)
    /\ Paid(t) /\ NoPickupOf(t)
    /\ \A u \in Open : turn[u].work = turn[t].work => u = t
    /\ t \in asking => t \in Open
    /\ \A w \in Worker : InTurn(w) /\ act[w].turn = t => t \in Open
ParkedStands ==
    /\ \A p \in parked : Stands(p[1])
    /\ \A p, q \in parked : p[1] = q[1] => p = q

HandedIsPaid ==
    handing.kind = "continue" => handing.turn \notin sweep /\ Paid(handing.turn)

HoldInv ==
    /\ LifeInv
    /\ PickupsReplayed
    /\ PickupOnce
    /\ PickupIsLoose
    /\ RecordedIsNew
    /\ CarriedAlone
    /\ SweptIsPaid
    /\ ParkedStands
    /\ HandedIsPaid

ContinuationInv ==
    /\ LineageInv
    /\ WorkInv
    /\ HoldInv

\* A step that admits, begins and parks nothing: messages are acknowledged,
\* turns that owe nothing end, workers let go of what they hold.
LEMMA WorkShrinks ==
  ASSUME AccountedInv, WorkInv, HoldInv, msg' = msg, LifeInv', PickupsReplayed',
         PickupOnce', RecordedIsNew',
         \A m \in Message : inbox'[m] = "pending" => inbox[m] = "pending",
         \A m \in Message : Loose(m)' => Loose(m),
         \A m \in Message : Loose(m)' /\ Resumes(m) => inbox'[m] = "pending",
         \A t \in Turn : /\ turn'[t].causedBy = turn[t].causedBy
                         /\ turn'[t].worker = turn[t].worker
                         /\ turn'[t].work = turn[t].work
                         /\ Begun(t)' = Begun(t),
         Open' \subseteq Open, sweep' \subseteq sweep, parked' \subseteq parked,
         \A t \in Open : t \notin Open' =>
            /\ Paid(t)' /\ t \notin sweep'
            /\ \A p \in parked' : p[1] = t =>
                 t \notin asking' /\ \A w \in Worker : InTurn(w)' => act'[w].turn # t,
         \A t \in asking' : t \in asking \/ \E w \in Worker : InTurn(w) /\ act[w].turn = t,
         \/ handing' = handing
         \/ handing'.kind # "continue" /\ \A t \in Open' : ~HandedTo(t),
         \A w \in Worker : InTurn(w)' =>
            /\ InTurn(w) /\ act'[w].turn = act[w].turn
            /\ act'[w].stage # "acking" => act[w].stage # "acking" \/ Paid(act[w].turn)'
            /\ act'[w].stage = "acking" =>
                 /\ act[w].stage = "acking"
                 /\ \A m \in act[w].todo : inbox'[m] = "pending" => m \in act'[w].todo
            /\ act'[w].stage \in {"acking", "steering"} =>
                 \A m \in act'[w].todo : Resumes(m) =>
                    m \in act[w].todo /\ act[w].stage \in {"acking", "steering"}
  PROVE  WorkInv' /\ HoldInv'
  <1> USE DEF WorkInv, HoldInv
  <1>1. \A m \in Message : Resumes(m)' = Resumes(m)
    BY DEF Resumes
  <1>2. \A t \in Turn : turn[t].causedBy \subseteq Message
    BY PickupTypes
  <1>3. \A t \in Turn : Paid(t) => Paid(t)'
    BY <1>1, <1>2 DEF Paid
  <1>4. \A t \in Open : t \in Turn /\ Begun(t)
    BY PickupTypes
  <1>5. \A m \in Message : Unclaimed(m)' => Unclaimed(m)
    <2> SUFFICES ASSUME NEW m \in Message, Unclaimed(m)',
                        NEW t \in Open, m \in turn[t].causedBy
                 PROVE  FALSE
      BY DEF Unclaimed
    <2>1. inbox'[m] = "pending" /\ Resumes(m)'
      BY DEF Unclaimed, Resumes
    <2>2. t \notin Open'
      BY <1>4 DEF Unclaimed
    <2>3. m \in turn'[t].causedBy
      BY <1>4
    <2> QED  BY <2>1, <2>2, <2>3 DEF Paid
  <1>6. \A t \in Turn : NoPickupOf(t) => NoPickupOf(t)'
    BY <1>5 DEF NoPickupOf
  <1>7. \A m \in Message : Resumes(m) => msg[m].marker.turn \in Turn
    BY PickupTypes DEF Resumes
  <1>8. MarkersAreTrue' /\ WorkBegan'
    BY <1>1, <1>7 DEF MarkersAreTrue, WorkBegan
  <1>9. EndedIsPaid'
    BY <1>3 DEF EndedIsPaid
  <1>10. WaitingIsPaid'
    <2>1. \A m \in Message : Unclaimed(m) => Resumes(m)
      BY DEF Unclaimed, Resumes
    <2> QED  BY <1>3, <1>5, <1>7, <2>1 DEF WaitingIsPaid
  <1>11. OneOpen' /\ OneWaiting' /\ WaitingIsOpen'
    BY <1>4, <1>5 DEF OneOpen, OneWaiting, WaitingIsOpen
  <1>12. PickupIsLoose'
    <2> SUFFICES ASSUME NEW m \in Message, Loose(m)', Resumes(m)'
                 PROVE  Unclaimed(m)'
      BY DEF PickupIsLoose
    <2>1. Unclaimed(m) /\ inbox'[m] = "pending"
      BY <1>1 DEF PickupIsLoose
    <2>2. \A t \in Open' : m \notin turn'[t].causedBy
      BY <1>4, <2>1 DEF Unclaimed
    <2> QED  BY <2>1, <2>2 DEF Unclaimed
  <1>13. \A t \in Open' : HandedTo(t) => HandedTo(t)'
    BY DEF HandedTo
  <1>14. CarriedAlone'
    <2> SUFFICES ASSUME NEW w \in Worker, InTurn(w)'
                 PROVE  Carries(w, act[w].turn)'
      BY DEF CarriedAlone
    <2>1. PICK t : t = act[w].turn
      OBVIOUS
    <2>2. InTurn(w) /\ act'[w].turn = t /\ Carries(w, t)
      BY <2>1 DEF CarriedAlone
    <2>3. t \in Turn
      BY <2>1, <2>2 DEF InTurn, AccountedInv, StageIsOnDisk, StageOf
    <2>4. /\ turn'[t].worker = w
          /\ t \in Open' => (NoPickupOf(t) \/ HandedTo(t))'
      BY <1>6, <1>13, <2>2, <2>3 DEF Carries
    <2>5. act'[w].stage # "acking" => Paid(t)'
      BY <1>3, <2>1, <2>2, <2>3 DEF Carries
    <2>6. act'[w].stage = "acking" =>
            \A m \in turn'[t].causedBy :
               Resumes(m)' /\ inbox'[m] = "pending" => m \in act'[w].todo
      BY <1>1, <1>2, <2>1, <2>2, <2>3 DEF Carries
    <2>7. act'[w].stage \in {"acking", "steering"} =>
            \A m \in act'[w].todo : Resumes(m)' => ~Loose(m)'
      <3>1. act[w].todo \subseteq Message
        BY PickupTypes
      <3>2. \A m : Resumes(m)' = Resumes(m)
        BY DEF Resumes
      <3> QED  BY <2>1, <2>2, <3>1, <3>2 DEF Carries
    <2> QED  BY <2>2, <2>4, <2>5, <2>6, <2>7 DEF Carries
  <1>15. SweptIsPaid'
    BY <1>3, <1>4 DEF SweptIsPaid
  <1>16. ParkedStands'
    <2>1. ASSUME NEW p \in parked' PROVE Stands(p[1])'
      <3>1. PICK t \in Turn : t = p[1]
        BY PickupTypes
      <3>2. Stands(t)
        BY <3>1 DEF ParkedStands
      <3>3. t \notin sweep' /\ ~HandedTo(t)'
        BY <3>2 DEF Stands, HandedTo
      <3>4. Paid(t)' /\ NoPickupOf(t)'
        BY <1>3, <1>6, <3>2 DEF Stands
      <3>5. \A u \in Open' : turn'[u].work = turn'[t].work => u = t
        BY <1>4, <3>2 DEF Stands
      <3>6. t \in asking' => t \in Open'
        BY <3>1, <3>2 DEF Stands
      <3>7. \A w \in Worker : InTurn(w)' /\ act'[w].turn = t => t \in Open'
        BY <3>1, <3>2 DEF Stands
      <3> QED  BY <3>1, <3>3, <3>4, <3>5, <3>6, <3>7 DEF Stands
    <2> QED  BY <2>1 DEF ParkedStands
  <1>17. HandedIsPaid'
    <2>1. handing.kind # "none" => handing.turn \in Turn
      BY DEF AccountedInv, PointersAreBegun
    <2> QED  BY <1>3, <2>1 DEF HandedIsPaid
  <1> QED  BY <1>8, <1>9, <1>10, <1>11, <1>12, <1>14, <1>15, <1>16, <1>17

\* What a step keeps of the process's hands that takes nothing more into them.
LEMMA HoldShrinks ==
  ASSUME AccountedInv, WorkInv, HoldInv, msg' = msg, phase' = phase,
         alive' \subseteq alive, parked' \subseteq parked, sweep' \subseteq sweep,
         queue' \subseteq queue, phase = "resume" => queue' = queue,
         handing' = handing \/ handing'.kind = "none" \/ phase \in {"resume", "up"},
         \A m \in Message : inbox'[m] = "pending" => inbox[m] = "pending",
         \A t \in Turn : /\ turn'[t].causedBy = turn[t].causedBy
                         /\ Begun(t)' = Begun(t),
         Open' \subseteq Open,
         \A w \in Worker :
            /\ Staged(w)' => Staged(w) /\ act'[w].batch = act[w].batch
            /\ act'[w].stage = "recorded" =>
                 act'[w] = act[w] \/ (act'[w].turn \in Turn /\ ~Begun(act'[w].turn))
            /\ act[w].stage = "idle" => act'[w].stage = "idle"
            /\ act'[w].stage \in {"acking", "steering"} =>
                 act[w].stage \in {"acking", "steering"} \/ phase # "resume"
  PROVE  /\ LifeInv' /\ PickupsReplayed' /\ PickupOnce' /\ RecordedIsNew'
         /\ \A m \in Message : Loose(m)' => Loose(m)
  <1> USE DEF WorkInv, HoldInv
  <1>1. \A m \in Message : Resumes(m)' = Resumes(m)
    BY DEF Resumes
  <1>2. \A t \in Turn : turn[t].causedBy \subseteq Message
    BY PickupTypes
  <1>3. \A t \in Open' : t \in Open /\ t \in Turn /\ (Paid(t) => Paid(t)')
    BY <1>1, <1>2, PickupTypes DEF Paid
  <1>4. \A m \in Message : Loose(m)' => Loose(m)
    BY DEF Loose
  <1>5. LifeInv'
    <2>1. phase = "starting" => /\ \A m \in Message : Loose(m)' => ~Resumes(m)'
                                /\ \A t \in Open' : Paid(t)'
      BY <1>1, <1>3, <1>4 DEF LifeInv
    <2> QED  BY <2>1 DEF LifeInv
  <1>6. PickupsReplayed'
    BY <1>1 DEF PickupsReplayed
  <1>7. PickupOnce'
    <2>1. /\ \A c \in queue : c[1] \in Message
          /\ \A w \in Worker : act[w].batch \subseteq Message
      BY PickupTypes
    <2> QED  BY <1>1, <2>1 DEF PickupOnce
  <1>8. RecordedIsNew'
    <2>1. \A w \in Worker : act[w].stage = "recorded" => act[w].turn \in Turn
      BY DEF AccountedInv, StageIsOnDisk, StageOf
    <2> QED  BY <2>1 DEF RecordedIsNew
  <1> QED  BY <1>4, <1>5, <1>6, <1>7, <1>8

\* A step that changes neither the inbox nor what the turn ledger says, but
\* for workers that let go and agents that are removed.
LEMMA WorkQuiet ==
  ASSUME AccountedInv, WorkInv, HoldInv,
         UNCHANGED <<inbox, msg, phase, queue, parked>>,
         alive' \subseteq alive, sweep' \subseteq sweep,
         handing' = handing \/ (handing'.kind = "none" /\ handing.kind # "continue"),
         \A t \in Turn : /\ turn'[t].how = turn[t].how
                         /\ turn'[t].causedBy = turn[t].causedBy
                         /\ turn'[t].worker = turn[t].worker
                         /\ turn'[t].work = turn[t].work,
         \A t \in asking' : t \in asking \/ \E w \in Worker : InTurn(w) /\ act[w].turn = t,
         \A w \in Worker : act'[w] = act[w] \/ act'[w] = Idle
  PROVE  WorkInv' /\ HoldInv'
  <1>1. \A t \in Turn : Begun(t)' = Begun(t)
    BY DEF Begun
  <1>2. Open' = Open
    BY DEF Open
  <1>3. \A w \in Worker :
          /\ Staged(w)' => Staged(w) /\ act'[w].batch = act[w].batch
          /\ act'[w].stage = "recorded" =>
               act'[w] = act[w] \/ (act'[w].turn \in Turn /\ ~Begun(act'[w].turn))
          /\ act[w].stage = "idle" => act'[w].stage = "idle"
          /\ act'[w].stage \in {"acking", "steering"} =>
               act[w].stage \in {"acking", "steering"} \/ phase # "resume"
          /\ InTurn(w)' => act'[w] = act[w] /\ InTurn(w)
    BY IdleType DEF Staged, InTurn
  <1>4. /\ LifeInv' /\ PickupsReplayed' /\ PickupOnce' /\ RecordedIsNew'
        /\ \A m \in Message : Loose(m)' => Loose(m)
    <2>1. /\ msg' = msg /\ phase' = phase /\ parked' \subseteq parked
          /\ queue' \subseteq queue /\ queue' = queue
          /\ \A m \in Message : inbox'[m] = "pending" => inbox[m] = "pending"
          /\ handing' = handing \/ handing'.kind = "none"
          /\ Open' \subseteq Open
      BY <1>2
    <2>2. \A t \in Turn : /\ turn'[t].causedBy = turn[t].causedBy
                          /\ Begun(t)' = Begun(t)
      BY <1>1
    <2> QED  BY ONLY AccountedInv, WorkInv, HoldInv, alive' \subseteq alive,
                sweep' \subseteq sweep, <1>3, <2>1, <2>2, HoldShrinks
  <1>5. \A m \in Message : Loose(m)' /\ Resumes(m) => inbox'[m] = "pending"
    BY <1>4 DEF HoldInv, PickupIsLoose, Unclaimed
  <1>6. \/ handing' = handing
        \/ handing'.kind # "continue" /\ \A t \in Open' : ~HandedTo(t)
    BY DEF HandedTo
  <1> QED  BY <1>1, <1>2, <1>3, <1>4, <1>5, <1>6, WorkShrinks

\* A turn ends that owes the inbox nothing, and that nobody asks about.
LEMMA WorkEnds ==
  ASSUME AccountedInv, WorkInv, HoldInv, NEW t \in Turn, Begun(t), Paid(t),
         NEW how \in How \ {"none", "open"}, turn' = EndRecord(t, how),
         UNCHANGED <<inbox, msg, phase, queue, parked, alive>>,
         phase \in {"resume", "up", "starting"},
         sweep' \subseteq sweep, t \notin sweep',
         handing' = handing \/ phase \in {"resume", "up"},
         \/ handing' = handing
         \/ handing'.kind # "continue" /\ \A u \in Turn : u # t => ~HandedTo(u),
         asking' \subseteq asking,
         \A p \in parked : p[1] = t =>
            t \notin asking' /\ \A w \in Worker : InTurn(w)' => act'[w].turn # t,
         \A w \in Worker : act'[w] = act[w] \/ act'[w] = Idle
  PROVE  WorkInv' /\ HoldInv'
  <1>1. \A u \in Turn : /\ turn'[u].how = IF u = t THEN how ELSE turn[u].how
                        /\ turn'[u].worker = turn[u].worker
                        /\ turn'[u].causedBy = turn[u].causedBy
                        /\ turn'[u].work = turn[u].work
    BY EndRecordType DEF AccountedInv, Begun
  <1>2. \A u \in Turn : Begun(u)' = Begun(u)
    BY <1>1 DEF Begun
  <1>3. Open' = Open \ {t}
    BY <1>1 DEF Open
  <1>4. Paid(t)'
    BY <1>1 DEF Paid, Resumes
  <1>5. \A w \in Worker :
          /\ Staged(w)' => Staged(w) /\ act'[w].batch = act[w].batch
          /\ act'[w].stage = "recorded" =>
               act'[w] = act[w] \/ (act'[w].turn \in Turn /\ ~Begun(act'[w].turn))
          /\ act[w].stage = "idle" => act'[w].stage = "idle"
          /\ act'[w].stage \in {"acking", "steering"} =>
               act[w].stage \in {"acking", "steering"} \/ phase # "resume"
          /\ InTurn(w)' => act'[w] = act[w] /\ InTurn(w)
    BY IdleType DEF Staged, InTurn
  <1>6. /\ LifeInv' /\ PickupsReplayed' /\ PickupOnce' /\ RecordedIsNew'
        /\ \A m \in Message : Loose(m)' => Loose(m)
    <2>1. /\ msg' = msg /\ phase' = phase /\ parked' \subseteq parked
          /\ queue' \subseteq queue /\ queue' = queue /\ alive' \subseteq alive
          /\ \A m \in Message : inbox'[m] = "pending" => inbox[m] = "pending"
          /\ Open' \subseteq Open
      BY <1>3
    <2>2. \A u \in Turn : /\ turn'[u].causedBy = turn[u].causedBy
                          /\ Begun(u)' = Begun(u)
      BY <1>1, <1>2
    <2> QED  BY ONLY AccountedInv, WorkInv, HoldInv, sweep' \subseteq sweep,
                handing' = handing \/ phase \in {"resume", "up"},
                <1>5, <2>1, <2>2, HoldShrinks
  <1>7. \A m \in Message : Loose(m)' /\ Resumes(m) => inbox'[m] = "pending"
    BY <1>6 DEF HoldInv, PickupIsLoose, Unclaimed
  <1>8. \/ handing' = handing
        \/ handing'.kind # "continue" /\ \A u \in Open' : ~HandedTo(u)
    BY <1>3 DEF Open
  <1>9. \A u \in Open : u \notin Open' =>
          /\ Paid(u)' /\ u \notin sweep'
          /\ \A p \in parked' : p[1] = u =>
               u \notin asking' /\ \A w \in Worker : InTurn(w)' => act'[w].turn # u
    BY <1>3, <1>4
  <1> QED  BY <1>1, <1>2, <1>3, <1>5, <1>6, <1>7, <1>8, <1>9, WorkShrinks

\* A turn that ends by itself has acknowledged the continuation it began with.
LEMMA WorkFinish ==
  ASSUME LineageInv, WorkInv, HoldInv, NEW w \in Worker, NEW how \in TurnEnd,
         SteeringFails(w) \/ Finish(w, how)
  PROVE  WorkInv' /\ HoldInv'
  <1> AccountedInv /\ TypeOK
    BY DEF LineageInv, AccountedInv
  <1>1. PICK t : t = act[w].turn
    OBVIOUS
  <1>2. PICK h \in TurnEnd : turn' = EndRecord(t, h)
    BY <1>1 DEF SteeringFails, Finish, EndTurn, TurnEnd
  <1>3. /\ UNCHANGED <<inbox, msg, phase, queue, parked, alive, sweep, handing>>
        /\ asking' = asking \ {t}
        /\ act'[w] = Idle /\ \A v \in Worker \ {w} : act'[v] = act[v]
        /\ InTurn(w) /\ act[w].stage # "acking"
        /\ act[w].stage = "steering" \/ phase # "resume"
    BY <1>1 DEF SteeringFails, Finish, EndTurn, InTurn, Serving, TypeOK
  <1>4. t \in Turn /\ Begun(t)
    BY <1>1, <1>3 DEF InTurn, AccountedInv, StageIsOnDisk, StageOf
  <1>5. \A v \in Worker : InTurn(v) => turn[act[v].turn].worker = v
    BY DEF HoldInv, CarriedAlone, Carries
  <1>6. Paid(t)
    BY <1>1, <1>3 DEF HoldInv, CarriedAlone, Carries
  <1>7. phase \in {"starting", "up"} /\ sweep = {}
    <2>1. phase # "resume" /\ phase \notin {"down", "reconcile"}
      BY <1>3 DEF HoldInv, LifeInv, InTurn
    <2> QED  BY <2>1 DEF HoldInv, LifeInv, TypeOK
  <1>8. \A v \in Worker : InTurn(v)' => act'[v].turn # t
    BY <1>1, <1>3, <1>5, IdleType DEF InTurn
  <1>9. h \in How \ {"none", "open"}
    BY DEF How, TurnEnd
  <1> QED  BY <1>2, <1>3, <1>4, <1>6, <1>7, <1>8, <1>9, WorkEnds

\* A turn that is not picked up was reconciled, and is not parked.
LEMMA WorkAbandon ==
  ASSUME LineageInv, WorkInv, HoldInv, NEW t \in Turn, Abandon(t)
  PROVE  WorkInv' /\ HoldInv'
  <1> AccountedInv
    BY DEF LineageInv
  <1>1. PICK how \in HostEnd : turn' = EndRecord(t, how)
    BY DEF Abandon
  <1>2. /\ UNCHANGED <<inbox, msg, phase, queue, parked, alive, act>>
        /\ sweep' = sweep \ {t} /\ asking' \subseteq asking
        /\ t \in sweep /\ phase = "resume"
        /\ handing.kind = "none" /\ handing'.kind # "continue"
    BY DEF Abandon, ResumeNext, Synchronous
  <1>3. Begun(t) /\ Paid(t)
    BY <1>2, PickupTypes DEF HoldInv, SweptIsPaid
  <1>4. \A p \in parked : p[1] # t
    BY <1>2 DEF HoldInv, ParkedStands, Stands
  <1>5. \A u \in Turn : ~HandedTo(u)
    BY <1>2 DEF HandedTo
  <1>6. how \in How \ {"none", "open"}
    BY DEF How, HostEnd
  <1> QED  BY <1>1, <1>2, <1>3, <1>4, <1>5, <1>6, WorkEnds

\* A turn whose continuation was admitted was reconciled too.
LEMMA WorkRelinquish ==
  ASSUME LineageInv, WorkInv, HoldInv, Relinquish
  PROVE  WorkInv' /\ HoldInv'
  <1> AccountedInv /\ TypeOK
    BY DEF LineageInv, AccountedInv
  <1>1. PICK how \in {"continued", "resumed"} :
           turn' = EndRecord(handing.turn, how)
    BY DEF Relinquish
  <1>2. /\ UNCHANGED <<inbox, msg, phase, queue, parked, alive, act, sweep,
                       asking>>
        /\ handing.kind = "continue" /\ handing'.kind = "none"
    BY DEF Relinquish
  <1>3. PICK t \in Turn : t = handing.turn /\ Begun(t)
    BY <1>2 DEF AccountedInv, PointersAreBegun
  <1>4. Paid(t) /\ t \notin sweep
    BY <1>2, <1>3 DEF HoldInv, HandedIsPaid
  <1>5. \A p \in parked : p[1] # t
    BY <1>2, <1>3 DEF HoldInv, ParkedStands, Stands, HandedTo
  <1>6. \A u \in Turn : u # t => ~HandedTo(u)
    BY <1>3 DEF HandedTo
  <1>7. phase \in {"resume", "up"}
    BY <1>2 DEF HoldInv, LifeInv, TypeOK
  <1>8. how \in How \ {"none", "open"}
    BY DEF How
  <1> QED  BY <1>1, <1>2, <1>3, <1>4, <1>5, <1>6, <1>7, <1>8, WorkEnds

\* A step in which the inbox may mark messages started, the ledger begins and
\* ends nothing, and workers keep, or let go of, what they hold.
LEMMA WorkStarts ==
  ASSUME AccountedInv, WorkInv, HoldInv,
         UNCHANGED <<msg, turn, asking, phase, alive, parked, sweep, handing>>,
         queue' \subseteq queue, phase = "resume" => queue' = queue,
         \A m \in Message : inbox'[m] # inbox[m] => inbox'[m] = "started",
         \A m \in Message : Loose(m)' /\ Resumes(m) => inbox'[m] = inbox[m],
         \A w \in Worker :
            /\ Staged(w)' => Staged(w) /\ act'[w].batch = act[w].batch
            /\ act'[w].stage = "recorded" =>
                 act'[w] = act[w] \/ (act'[w].turn \in Turn /\ ~Begun(act'[w].turn))
            /\ act[w].stage = "idle" => act'[w].stage = "idle"
            /\ act'[w].stage \in {"acking", "steering"} =>
                 act[w].stage \in {"acking", "steering"} \/ phase # "resume"
            /\ InTurn(w)' =>
                 /\ InTurn(w) /\ act'[w].turn = act[w].turn
                 /\ act'[w].stage # "acking" =>
                      act[w].stage # "acking" \/ Paid(act[w].turn)'
                 /\ act'[w].stage = "acking" =>
                      /\ act[w].stage = "acking"
                      /\ \A m \in act[w].todo :
                           inbox'[m] = "pending" => m \in act'[w].todo
                 /\ act'[w].stage \in {"acking", "steering"} =>
                      \A m \in act'[w].todo : Resumes(m) =>
                         m \in act[w].todo /\ act[w].stage \in {"acking", "steering"}
  PROVE  WorkInv' /\ HoldInv'
  <1>1. \A m \in Message : inbox'[m] = "pending" => inbox[m] = "pending"
    OBVIOUS
  <1>2. Open' = Open /\ \A t \in Turn : Begun(t)' = Begun(t)
    BY DEF Open, Begun
  <1>3. /\ LifeInv' /\ PickupsReplayed' /\ PickupOnce' /\ RecordedIsNew'
        /\ \A m \in Message : Loose(m)' => Loose(m)
    BY <1>1, <1>2, HoldShrinks
  <1>4. \A m \in Message : Loose(m)' /\ Resumes(m) => inbox'[m] = "pending"
    BY <1>3 DEF HoldInv, PickupIsLoose, Unclaimed
  <1> QED  BY <1>1, <1>2, <1>3, <1>4, WorkShrinks

\* The continuation a turn acknowledges no turn gets again.
LEMMA WorkAcknowledge ==
  ASSUME LineageInv, WorkInv, HoldInv, NEW w \in Worker, NEW n \in Message,
         Acknowledge(w, n)
  PROVE  WorkInv' /\ HoldInv'
  <1> AccountedInv /\ TypeOK
    BY DEF LineageInv, AccountedInv
  <1>1. PICK left : left = act[w].todo \ {n}
    OBVIOUS
  <1>2. PICK stage : stage = IF left = {} THEN "running" ELSE act[w].stage
    OBVIOUS
  <1>3. /\ UNCHANGED <<msg, turn, asking, phase, alive, queue, parked, sweep, handing>>
        /\ act[w].stage \in {"acking", "steering"} /\ n \in act[w].todo
        /\ inbox' = [inbox EXCEPT ![n] = "started"]
        /\ act'[w] = Doing(stage, act[w].turn, act[w].batch, left)
        /\ \A v \in Worker \ {w} : act'[v] = act[v]
    BY <1>1, <1>2 DEF Acknowledge, TypeOK
  <1>4. \A m \in Message : /\ m # n => inbox'[m] = inbox[m]
                           /\ inbox'[n] = "started"
    BY <1>3 DEF TypeOK
  <1>5. /\ act'[w].stage = stage /\ act'[w].turn = act[w].turn
        /\ act'[w].batch = act[w].batch /\ act'[w].todo = left
    BY <1>3 DEF Doing
  <1>6. InTurn(w) /\ Carries(w, act[w].turn)
    BY <1>3 DEF InTurn, HoldInv, CarriedAlone
  <1>7. act[w].stage = "acking" /\ left = {} => Paid(act[w].turn)'
    <2>1. act[w].turn \in Turn
      BY <1>3 DEF AccountedInv, StageIsOnDisk, StageOf
    <2> SUFFICES ASSUME act[w].stage = "acking", left = {},
                        NEW m \in turn[act[w].turn].causedBy, Resumes(m)
                 PROVE  inbox'[m] # "pending"
      BY <1>3, <1>5 DEF Paid, Resumes
    <2>2. m \in Message
      BY <2>1, PickupTypes
    <2>3. inbox[m] = "pending" => m = n
      BY <1>1, <1>6 DEF Carries
    <2> QED  BY <1>4, <2>2, <2>3
  <1>8. \A v \in Worker :
          /\ Staged(v)' => Staged(v) /\ act'[v] = act[v]
          /\ InTurn(v)' => InTurn(v)
    BY <1>2, <1>3, <1>5 DEF Staged, InTurn
  <1>9. \A m \in Message : Loose(m)' /\ Resumes(m) => inbox'[m] = inbox[m]
    <2>1. \A m \in Message : Loose(m)' => Loose(m)
      BY <1>3, <1>8 DEF Loose
    <2>2. Resumes(n) => ~Loose(n)
      BY <1>3, <1>6 DEF Carries
    <2> QED  BY <1>4, <2>1, <2>2
  <1>10. \A v \in Worker :
            InTurn(v)' =>
                 /\ InTurn(v) /\ act'[v].turn = act[v].turn
                 /\ act'[v].stage # "acking" =>
                      act[v].stage # "acking" \/ Paid(act[v].turn)'
                 /\ act'[v].stage = "acking" =>
                      /\ act[v].stage = "acking"
                      /\ \A m \in act[v].todo :
                           inbox'[m] = "pending" => m \in act'[v].todo
                 /\ act'[v].stage \in {"acking", "steering"} =>
                      \A m \in act'[v].todo : Resumes(m) =>
                         m \in act[v].todo /\ act[v].stage \in {"acking", "steering"}
    <2>1. ASSUME NEW v \in Worker, v # w, InTurn(v)'
          PROVE  act'[v] = act[v] /\ InTurn(v)
      BY <1>3, <1>8, <2>1
    <2>2. /\ act'[w].stage # "acking" =>
               act[w].stage # "acking" \/ Paid(act[w].turn)'
          /\ act'[w].stage = "acking" =>
               /\ act[w].stage = "acking"
               /\ \A m \in act[w].todo : inbox'[m] = "pending" => m \in act'[w].todo
          /\ \A m \in act'[w].todo : m \in act[w].todo
      <3>1. \A m \in act[w].todo : inbox'[m] = "pending" => m \in left
        BY <1>1, <1>4
      <3> QED  BY <1>1, <1>2, <1>3, <1>5, <1>7, <3>1
    <2> QED  BY <1>3, <1>5, <1>6, <2>1, <2>2
  <1>11. \A v \in Worker :
            /\ Staged(v)' => Staged(v) /\ act'[v].batch = act[v].batch
            /\ act'[v].stage = "recorded" =>
                 act'[v] = act[v] \/ (act'[v].turn \in Turn /\ ~Begun(act'[v].turn))
            /\ act[v].stage = "idle" => act'[v].stage = "idle"
            /\ act'[v].stage \in {"acking", "steering"} =>
                 act[v].stage \in {"acking", "steering"} \/ phase # "resume"
    BY <1>2, <1>3, <1>5, <1>8
  <1> QED  BY <1>3, <1>4, <1>9, <1>10, <1>11, WorkStarts

\* A wake that is turned away is no continuation.
LEMMA WorkDecline ==
  ASSUME LineageInv, WorkInv, HoldInv, NEW w \in Worker, Decline(w)
  PROVE  WorkInv' /\ HoldInv'
  <1> AccountedInv /\ TypeOK
    BY DEF LineageInv, AccountedInv
  <1>1. /\ UNCHANGED <<msg, turn, asking, phase, alive, queue, parked, sweep, handing>>
        /\ \A m \in Message : inbox'[m] = IF m \in act[w].batch THEN "started"
                                                               ELSE inbox[m]
        /\ \A m \in act[w].batch : msg[m].kind = "kickoff"
        /\ \A v \in Worker : act'[v] = act[v] \/ act'[v] = Idle
    BY DEF Decline, TypeOK
  <1>2. \A m \in Message : /\ inbox'[m] # inbox[m] => inbox'[m] = "started"
                           /\ Resumes(m) => inbox'[m] = inbox[m]
    BY <1>1 DEF Resumes
  <1>3. \A v \in Worker :
          /\ Staged(v)' => act'[v] = act[v]
          /\ InTurn(v)' => act'[v] = act[v]
          /\ act'[v].stage \in {"recorded", "acking", "steering"} => act'[v] = act[v]
          /\ act[v].stage = "idle" => act'[v].stage = "idle"
    BY <1>1, IdleType DEF Staged, InTurn
  <1>4. \A v \in Worker : act'[v] = act[v] => (Staged(v)' <=> Staged(v))
                                            /\ (InTurn(v)' <=> InTurn(v))
    BY DEF Staged, InTurn
  <1> QED  BY <1>1, <1>2, <1>3, <1>4, WorkStarts

\* The reconcile of the constructor only marks messages started.
LEMMA WorkReconcile ==
  ASSUME LineageInv, WorkInv, HoldInv, NEW n \in Message, Reconcile(n)
  PROVE  WorkInv' /\ HoldInv'
  <1> AccountedInv /\ TypeOK
    BY DEF LineageInv, AccountedInv
  <1>1. /\ UNCHANGED <<msg, turn, asking, phase, alive, queue, act, parked, sweep,
                       handing>>
        /\ \A m \in Message : inbox'[m] = IF m = n THEN "started" ELSE inbox[m]
        /\ phase = "reconcile"
    BY DEF Reconcile, volatile, TypeOK
  <1>2. queue = {} /\ \A v \in Worker : act[v].stage = "idle"
    BY <1>1 DEF HoldInv, LifeInv
  <1>3. \A v \in Worker : ~Staged(v)' /\ ~InTurn(v)'
    BY <1>1, <1>2 DEF Staged, InTurn
  <1>4. \A m \in Message : ~Loose(m)'
    BY <1>1, <1>2, <1>3 DEF Loose
  <1> QED  BY <1>1, <1>2, <1>3, <1>4, WorkStarts

\* The entry that opens a turn claims nothing.
LEMMA WorkOpening ==
  ASSUME LineageInv, WorkInv, HoldInv, NEW w \in Worker, NEW t \in Turn,
         RecordOpening(w, t)
  PROVE  WorkInv' /\ HoldInv'
  <1> AccountedInv /\ TypeOK
    BY DEF LineageInv, AccountedInv
  <1>1. /\ UNCHANGED <<inbox, msg, turn, asking, phase, alive, queue, parked, sweep,
                       handing>>
        /\ ~Begun(t) /\ act[w].stage = "setup"
        /\ act'[w] = Doing("recorded", t, act[w].batch, {})
        /\ \A v \in Worker \ {w} : act'[v] = act[v]
    BY DEF RecordOpening, Fresh, Begun, TypeOK
  <1>2. /\ act'[w].stage = "recorded" /\ act'[w].turn = t
        /\ act'[w].batch = act[w].batch
    BY <1>1 DEF Doing
  <1>3. \A v \in Worker :
          /\ Staged(v)' => Staged(v) /\ act'[v].batch = act[v].batch
          /\ InTurn(v)' => InTurn(v) /\ act'[v] = act[v]
          /\ act'[v].stage = "recorded" =>
               act'[v] = act[v] \/ (act'[v].turn \in Turn /\ ~Begun(act'[v].turn))
          /\ act[v].stage = "idle" => act'[v].stage = "idle"
          /\ act'[v].stage \in {"acking", "steering"} => act'[v] = act[v]
    BY <1>1, <1>2 DEF Staged, InTurn
  <1> QED  BY <1>1, <1>3, WorkStarts

\* What steers a turn is no continuation.
LEMMA WorkSteer ==
  ASSUME LineageInv, WorkInv, HoldInv, NEW w \in Worker, NEW S \in SUBSET queue,
         Steer(w, S)
  PROVE  WorkInv' /\ HoldInv'
  <1> AccountedInv /\ TypeOK
    BY DEF LineageInv, AccountedInv
  <1>1. PICK M : M = {c[1] : c \in S}
    OBVIOUS
  <1>2. /\ UNCHANGED <<inbox, msg, turn, asking, phase, alive, parked, sweep, handing>>
        /\ queue' \subseteq queue /\ phase # "resume"
        /\ act[w].stage = "running"
        /\ act'[w] = Doing("steering", act[w].turn, act[w].batch, M)
        /\ \A v \in Worker \ {w} : act'[v] = act[v]
    BY <1>1 DEF Steer, Serving, TypeOK
  <1>3. /\ act'[w].stage = "steering" /\ act'[w].turn = act[w].turn
        /\ act'[w].todo = M
    BY <1>2 DEF Doing
  <1>4. \A m \in M : ~Resumes(m)
    BY <1>1 DEF Steer, Resumes
  <1>5. \A v \in Worker :
          /\ Staged(v)' => Staged(v) /\ act'[v].batch = act[v].batch
          /\ InTurn(v)' => InTurn(v) /\ act'[v].turn = act[v].turn
          /\ act'[v].stage = "recorded" => act'[v] = act[v]
          /\ act[v].stage = "idle" => act'[v].stage = "idle"
          /\ act'[v].stage = "acking" => act'[v] = act[v]
          /\ act'[v].stage # "acking" => act[v].stage # "acking"
          /\ act'[v].stage = "steering" =>
               act'[v] = act[v] \/ \A m \in act'[v].todo : ~Resumes(m)
    BY <1>2, <1>3, <1>4 DEF Staged, InTurn
  <1> QED  BY <1>2, <1>5, WorkStarts

\* A continuation leaves the queue for the one batch it is in.
LEMMA WorkDrain ==
  ASSUME LineageInv, WorkInv, HoldInv, NEW w \in Worker, NEW S \in SUBSET queue,
         Drain(w, S)
  PROVE  WorkInv' /\ HoldInv'
  <1> AccountedInv /\ TypeOK
    BY DEF LineageInv, AccountedInv
  <1> USE DEF HoldInv
  <1>1. PICK M : M = {c[1] : c \in S}
    OBVIOUS
  <1>2. /\ UNCHANGED <<inbox, msg, turn, asking, phase, alive, parked, sweep, handing>>
        /\ queue' = queue \ S /\ phase \in {"starting", "up"}
        /\ act[w].stage = "idle" /\ S \subseteq QueueOf(w)
        /\ act'[w] = Doing("setup", None, M, {})
        /\ \A v \in Worker \ {w} : act'[v] = act[v]
    BY <1>1 DEF Drain, durable, Serving, TypeOK
  <1>3. act'[w].stage = "setup" /\ act'[w].batch = M
    BY <1>2 DEF Doing
  <1>4. \A v \in Worker : /\ Staged(v)' => v = w \/ (Staged(v) /\ act'[v] = act[v])
                          /\ InTurn(v)' => InTurn(v) /\ act'[v] = act[v]
    BY <1>2, <1>3 DEF Staged, InTurn
  <1>5. \A m \in Message : Resumes(m)' = Resumes(m)
    BY <1>2 DEF Resumes
  <1>6. \A m \in M : msg[m].to = w /\ m \in Message /\ \E c \in queue : c[1] = m /\ c \in S
    BY <1>1, <1>2, PickupTypes DEF QueueOf
  <1>7. \A m \in Message : Loose(m)' => Loose(m)
    <2> SUFFICES ASSUME NEW m \in Message, Loose(m)' PROVE Loose(m)
      OBVIOUS
    <2>1. CASE \E c \in queue' : c[1] = m
      BY <1>2, <2>1 DEF Loose
    <2>2. ASSUME NEW v \in Worker, Staged(v)', m \in act'[v].batch PROVE Loose(m)
      <3>1. CASE v = w
        BY <1>3, <1>6, <2>2, <3>1 DEF Loose
      <3>2. CASE v # w
        BY <1>4, <2>2, <3>2 DEF Loose
      <3> QED  BY <3>1, <3>2
    <2> QED  BY <2>1, <2>2 DEF Loose
  <1>8. Open' = Open /\ \A t \in Turn : Begun(t)' = Begun(t) /\ Paid(t)' = Paid(t)
    BY <1>2 DEF Open, Begun, Paid, Resumes
  <1>9. LifeInv'
    <2>1. Open \subseteq Turn
      BY DEF Open
    <2>2. phase = "starting" => /\ \A m \in Message : Loose(m)' => ~Resumes(m)'
                                /\ \A t \in Open' : Paid(t)'
      BY <1>5, <1>7, <1>8, <2>1 DEF LifeInv
    <2> QED  BY <1>2, <2>2 DEF LifeInv
  <1>10. PickupsReplayed'
    BY <1>2 DEF PickupsReplayed
  <1>11. PickupOnce'
    <2>1. \A c, d \in queue' : c[1] = d[1] /\ Resumes(c[1])' => c = d
      BY <1>2, <1>5, PickupTypes DEF PickupOnce
    <2>2. ASSUME NEW m \in M, Resumes(m), NEW c \in queue' PROVE c[1] # m
      BY <1>2, <1>6, <2>2 DEF PickupOnce
    <2>3. ASSUME NEW v \in Worker, Staged(v)', NEW m \in act'[v].batch
          PROVE  /\ msg[m].to = v
                 /\ Resumes(m)' => \A c \in queue' : c[1] # m
      <3>1. CASE v = w
        BY <1>3, <1>5, <1>6, <2>2, <2>3, <3>1
      <3>2. CASE v # w
        <4>1. Staged(v) /\ act'[v] = act[v]
          BY <1>4, <2>3, <3>2
        <4>2. m \in act[v].batch /\ m \in Message
          BY <2>3, <4>1, PickupTypes
        <4> QED  BY <1>2, <1>5, <4>1, <4>2 DEF PickupOnce
      <3> QED  BY <3>1, <3>2
    <2> QED  BY <1>2, <2>1, <2>3 DEF PickupOnce
  <1>12. RecordedIsNew'
    <2>1. \A v \in Worker : act'[v].stage = "recorded" =>
             act'[v] = act[v] /\ act[v].turn \in Turn
      BY <1>2, <1>3 DEF AccountedInv, StageIsOnDisk, StageOf
    <2> QED  BY <1>8, <2>1 DEF RecordedIsNew
  <1>13. \A m \in Message : Loose(m)' /\ Resumes(m) => inbox'[m] = "pending"
    BY <1>2, <1>7 DEF PickupIsLoose, Unclaimed
  <1>14. \A t \in Turn : Begun(t)' = Begun(t)
    BY <1>8
  <1>15. \A v \in Worker : InTurn(v)' => InTurn(v) /\ act'[v] = act[v]
    BY <1>4
  <1> QED  BY <1>2, <1>7, <1>8, <1>9, <1>10, <1>11, <1>12, <1>13, <1>14, <1>15,
              WorkShrinks

\* What an admission keeps whatever it admits.
LEMMA WorkEnqueue ==
  ASSUME AccountedInv, WorkInv, HoldInv, NEW m \in Message,
         NEW w \in Worker \cup {None}, NEW kind \in Kind, NEW k \in Marker,
         Enqueue(m, w, kind, k), phase \in {"starting", "resume", "up"},
         phase' = phase,
         kind = "resume" => /\ phase # "starting"
                            /\ k.turn \in Turn /\ w = turn[k.turn].worker
                            /\ k.work = turn[k.turn].work,
         UNCHANGED <<turn, opening, steered, alive, act>>, sweep' \subseteq sweep,
         parked' \subseteq parked, handing' = handing \/ phase # "starting"
  PROVE  /\ MarkersAreTrue' /\ WorkBegan' /\ EndedIsPaid' /\ OneOpen'
         /\ LifeInv' /\ PickupsReplayed' /\ PickupOnce' /\ PickupIsLoose'
         /\ RecordedIsNew' /\ SweptIsPaid'
         /\ \A t \in Turn : Paid(t) => Paid(t)'
         /\ \A v \in Worker : \A n \in act[v].todo : Resumes(n)' /\ Loose(n)' =>
              Resumes(n) /\ Loose(n)
         /\ \A v \in Worker : \A t \in Turn : \A n \in turn[t].causedBy :
              Resumes(n)' /\ inbox'[n] = "pending" =>
                Resumes(n) /\ inbox[n] = "pending"
  <1> USE DEF WorkInv, HoldInv
  <1>1. /\ inbox[m] = "absent" /\ inbox'[m] = "pending"
        /\ msg'[m].kind = kind /\ msg'[m].marker = k /\ msg'[m].to = w
        /\ \A n \in Message : n # m => inbox'[n] = inbox[n] /\ msg'[n] = msg[n]
        /\ \A c \in queue : c[1] # m
        /\ queue' = queue \cup {<<m, "live">>}
    BY EnqueueMeans
  <1>2. /\ Open' = Open
        /\ \A n \in Message : n # m => Unclaimed(n)' = Unclaimed(n)
        /\ \A n \in Message : Loose(n)' => n = m \/ Loose(n)
        /\ \A v \in Worker : m \notin act[v].batch /\ Staged(v)' = Staged(v)
        /\ \A t \in Turn : Begun(t)' = Begun(t) /\ m \notin Held(t)
    BY EnqueueMeans
  <1>3. \A n \in Message : n # m => Resumes(n)' = Resumes(n)
    BY <1>1 DEF Resumes
  <1>4. /\ \A t \in Turn : turn[t].causedBy \subseteq Message \ {m}
        /\ \A v \in Worker : act[v].batch \subseteq Message \ {m}
        /\ \A t \in Open : t \in Turn
        /\ \A c \in queue : c[1] \in Message \ {m}
    BY <1>1, <1>2, PickupTypes
  <1>5. \A v \in Worker : act[v].todo \subseteq Message \ {m}
    BY <1>1, InFlightIsAdmitted
  <1>6. \A t \in Turn : Paid(t)' = Paid(t)
    BY <1>1, <1>3, <1>4 DEF Paid
  <1>7. MarkersAreTrue'
    <2> SUFFICES ASSUME NEW n \in Message, Resumes(n)'
                 PROVE  /\ msg'[n].to = turn[msg'[n].marker.turn].worker
                        /\ msg'[n].marker.work = turn[msg'[n].marker.turn].work
      BY DEF MarkersAreTrue
    <2>1. CASE n = m
      BY <1>1, <2>1 DEF Resumes
    <2>2. CASE n # m
      BY <1>1, <1>3, <2>2 DEF MarkersAreTrue
    <2> QED  BY <2>1, <2>2
  <1>8. WorkBegan' /\ EndedIsPaid' /\ OneOpen'
    BY <1>2, <1>6 DEF WorkBegan, EndedIsPaid, OneOpen
  <1>9. LifeInv'
    <2>1. phase = "starting" => ~Resumes(m)'
      BY <1>1 DEF Resumes
    <2>2. phase = "starting" => /\ \A n \in Message : Loose(n)' => ~Resumes(n)'
                                /\ \A t \in Open' : Paid(t)'
      BY <1>2, <1>3, <1>4, <1>6, <2>1 DEF LifeInv
    <2> QED  BY <2>2 DEF LifeInv
  <1>10. PickupsReplayed'
    <2> SUFFICES ASSUME phase = "resume", NEW n \in Message,
                        inbox'[n] = "pending", Resumes(n)',
                        Main[msg'[n].to] \in alive
                 PROVE  \E c \in queue' : c[1] = n
      BY DEF PickupsReplayed
    <2>1. CASE n = m
      <3>1. <<m, "live">> \in queue'
        BY <1>1
      <3> QED  BY <2>1, <3>1
    <2>2. CASE n # m
      <3>1. \E c \in queue : c[1] = n
        BY <1>1, <1>3, <2>2 DEF PickupsReplayed
      <3> QED  BY <1>1, <3>1
    <2> QED  BY <2>1, <2>2
  <1>11. PickupOnce'
    <2>1. \A c, d \in queue' : c[1] = d[1] /\ Resumes(c[1])' => c = d
      BY <1>1, <1>3, <1>4 DEF PickupOnce
    <2>2. \A v \in Worker : Staged(v)' => \A n \in act'[v].batch :
            /\ msg'[n].to = v
            /\ Resumes(n)' => \A c \in queue' : c[1] # n
      BY <1>1, <1>2, <1>3, <1>4 DEF PickupOnce
    <2> QED  BY <2>1, <2>2 DEF PickupOnce
  <1>12. PickupIsLoose'
    <2>1. Resumes(m)' => Unclaimed(m)'
      BY <1>1, <1>4, <1>2 DEF Unclaimed, Resumes
    <2> QED  BY <1>2, <1>3, <2>1 DEF PickupIsLoose
  <1>13. RecordedIsNew'
    <2>1. \A v \in Worker : act[v].stage = "recorded" => act[v].turn \in Turn
      BY DEF AccountedInv, StageIsOnDisk, StageOf
    <2> QED  BY <1>2, <2>1 DEF RecordedIsNew
  <1>14. SweptIsPaid'
    BY <1>2, <1>4, <1>6 DEF SweptIsPaid
  <1>15. \A v \in Worker : \A n \in act[v].todo : Resumes(n)' /\ Loose(n)' =>
           Resumes(n) /\ Loose(n)
    BY <1>2, <1>3, <1>5
  <1>16. \A v \in Worker : \A t \in Turn : \A n \in turn[t].causedBy :
           Resumes(n)' /\ inbox'[n] = "pending" => Resumes(n) /\ inbox[n] = "pending"
    BY <1>1, <1>3, <1>4
  <1> QED  BY <1>6, <1>7, <1>8, <1>9, <1>10, <1>11, <1>12, <1>13, <1>14, <1>15,
              <1>16

\* Mail, a chat, a kickoff or a startup note is no pickup.
LEMMA WorkAdmit ==
  ASSUME AccountedInv, WorkInv, HoldInv, NEW m \in Message, NEW w \in Worker,
         NEW kind \in Kind, Admit(m, w, kind) \/ StartupNote(m, w, kind)
  PROVE  WorkInv' /\ HoldInv'
  <1> USE DEF WorkInv, HoldInv
  <1>1. /\ Enqueue(m, w, kind, NoMarker) /\ kind # "resume"
        /\ phase \in {"starting", "up"} /\ phase' = phase
        /\ UNCHANGED <<turn, opening, steered, asking, alive, act, sweep, parked,
                       handing>>
    BY DEF Admit, StartupNote
  <1>2. /\ msg'[m].kind = kind
        /\ \A n \in Message : n # m => msg'[n] = msg[n]
        /\ Open' = Open
        /\ \A n \in Message : n # m => Unclaimed(n)' = Unclaimed(n)
        /\ \A v \in Worker : InTurn(v)' = InTurn(v)
    BY <1>1, NoMarkerType, EnqueueMeans
  <1>3. /\ MarkersAreTrue' /\ WorkBegan' /\ EndedIsPaid' /\ OneOpen'
        /\ LifeInv' /\ PickupsReplayed' /\ PickupOnce' /\ PickupIsLoose'
        /\ RecordedIsNew' /\ SweptIsPaid'
        /\ \A t \in Turn : Paid(t) => Paid(t)'
        /\ \A v \in Worker : \A n \in act[v].todo : Resumes(n)' /\ Loose(n)' =>
             Resumes(n) /\ Loose(n)
        /\ \A v \in Worker : \A t \in Turn : \A n \in turn[t].causedBy :
             Resumes(n)' /\ inbox'[n] = "pending" =>
               Resumes(n) /\ inbox[n] = "pending"
    BY <1>1, NoMarkerType, WorkEnqueue
  <1>4. \A n \in Message : Unclaimed(n)' =>
           Unclaimed(n) /\ msg'[n] = msg[n] /\ msg[n].marker.turn \in Turn
    BY <1>1, <1>2, PickupTypes DEF Unclaimed
  <1>5. \A t \in Open : t \in Turn
    BY PickupTypes
  <1>6. \A t \in Turn : NoPickupOf(t) => NoPickupOf(t)'
    BY <1>1, <1>4 DEF NoPickupOf
  <1>7. WaitingIsPaid' /\ OneWaiting' /\ WaitingIsOpen'
    BY <1>1, <1>2, <1>3, <1>4 DEF WaitingIsPaid, OneWaiting, WaitingIsOpen
  <1>8. CarriedAlone'
    <2> SUFFICES ASSUME NEW v \in Worker, InTurn(v)
                 PROVE  Carries(v, act[v].turn)'
      BY <1>2 DEF CarriedAlone
    <2>1. PICK t : t = act[v].turn
      OBVIOUS
    <2>2. Carries(v, t) /\ t \in Turn
      BY <2>1 DEF CarriedAlone, InTurn, AccountedInv, StageIsOnDisk, StageOf
    <2> QED  BY <1>1, <1>2, <1>3, <1>6, <2>1, <2>2 DEF Carries, HandedTo
  <1>9. ParkedStands'
    <2>1. ASSUME NEW p \in parked PROVE Stands(p[1])'
      <3>1. p[1] \in Turn /\ Stands(p[1])
        BY PickupTypes DEF ParkedStands
      <3> QED  BY <1>1, <1>2, <1>3, <1>6, <3>1 DEF Stands, HandedTo
    <2> QED  BY <1>1, <2>1 DEF ParkedStands
  <1>10. HandedIsPaid'
    <2>1. handing.kind # "none" => handing.turn \in Turn
      BY DEF AccountedInv, PointersAreBegun
    <2> QED  BY <1>1, <1>3, <2>1 DEF HandedIsPaid
  <1> QED  BY <1>3, <1>7, <1>8, <1>9, <1>10

\* A pickup admits the one continuation of a turn that is open, reconciled
\* and no longer waited for.
LEMMA WorkPickUp ==
  ASSUME AccountedInv, WorkInv, HoldInv, NEW t \in Open, NEW m \in Message,
         NEW a \in 0..MaxResumes, PickUp(t, m, a), ~Synchronous,
         phase \in {"resume", "up"}, Paid(t), NoPickupOf(t),
         parked' \subseteq parked, \A p \in parked' : turn[p[1]].work # turn[t].work,
         sweep' \subseteq sweep, t \notin sweep', asking' \subseteq asking,
         UNCHANGED <<turn, opening, steered, alive, act, phase>>
  PROVE  WorkInv' /\ HoldInv'
  <1> USE DEF WorkInv, HoldInv
  <1>1. t \in Turn /\ Begun(t) /\ turn[t] \in TurnRecord
    BY PickupTypes DEF AccountedInv, TypeOK
  <1>2. PICK k : k = [turn |-> t, attempt |-> a, work |-> turn[t].work,
                      continues |-> t \in stepped]
    OBVIOUS
  <1>3. k \in Marker /\ k.turn = t /\ k.work = turn[t].work
    BY <1>1, <1>2 DEF Marker, TurnRecord
  <1>4. PICK w \in Worker \cup {None} : w = turn[t].worker
    BY <1>1 DEF TurnRecord
  <1>5. PICK kind \in Kind : kind = "resume"
    BY DEF Kind
  <1>6. /\ Enqueue(m, w, kind, k)
        /\ handing'.kind = "continue" /\ handing'.turn = t
        /\ handing.kind = "none"
    BY <1>2, <1>4, <1>5 DEF PickUp, Synchronous
  <1>7. /\ MarkersAreTrue' /\ WorkBegan' /\ EndedIsPaid' /\ OneOpen'
        /\ LifeInv' /\ PickupsReplayed' /\ PickupOnce' /\ PickupIsLoose'
        /\ RecordedIsNew' /\ SweptIsPaid'
        /\ \A u \in Turn : Paid(u) => Paid(u)'
        /\ \A v \in Worker : \A n \in act[v].todo : Resumes(n)' /\ Loose(n)' =>
             Resumes(n) /\ Loose(n)
        /\ \A v \in Worker : \A u \in Turn : \A n \in turn[u].causedBy :
             Resumes(n)' /\ inbox'[n] = "pending" =>
               Resumes(n) /\ inbox[n] = "pending"
    BY <1>1, <1>3, <1>4, <1>5, <1>6, WorkEnqueue
  <1>8. /\ msg'[m].marker = k /\ Open' = Open
        /\ \A n \in Message : n # m => msg'[n] = msg[n]
        /\ \A n \in Message : n # m => Unclaimed(n)' = Unclaimed(n)
        /\ \A v \in Worker : InTurn(v)' = InTurn(v)
    BY <1>3, <1>4, <1>5, <1>6, EnqueueMeans
  <1>9. \A n \in Message : Unclaimed(n)' =>
          \/ n = m
          \/ /\ Unclaimed(n) /\ msg'[n] = msg[n] /\ msg[n].marker.turn \in Turn
             /\ msg[n].marker.work # turn[t].work
    BY <1>8, PickupTypes DEF Unclaimed, NoPickupOf
  <1>10. \A u \in Turn : turn[u].work # turn[t].work /\ NoPickupOf(u) => NoPickupOf(u)'
    BY <1>3, <1>8, <1>9 DEF NoPickupOf
  <1>11. \A u \in Open : u \in Turn
    BY PickupTypes
  <1>12. WaitingIsPaid'
    BY <1>1, <1>3, <1>7, <1>8, <1>9 DEF WaitingIsPaid
  <1>13. OneWaiting'
    BY <1>3, <1>8, <1>9 DEF OneWaiting
  <1>14. WaitingIsOpen'
    BY <1>1, <1>3, <1>8, <1>9, <1>11 DEF WaitingIsOpen, OneOpen
  <1>15. CarriedAlone'
    <2> SUFFICES ASSUME NEW v \in Worker, InTurn(v)
                 PROVE  Carries(v, act[v].turn)'
      BY <1>8 DEF CarriedAlone
    <2>1. PICK u : u = act[v].turn
      OBVIOUS
    <2>2. Carries(v, u) /\ u \in Turn
      BY <2>1 DEF CarriedAlone, InTurn, AccountedInv, StageIsOnDisk, StageOf
    <2>3. u \in Open => (NoPickupOf(u) \/ HandedTo(u))'
      <3>1. CASE u = t
        BY <1>6, <3>1 DEF HandedTo
      <3>2. CASE u # t /\ u \in Open
        BY <1>6, <1>10, <2>2, <3>2 DEF OneOpen, Carries, HandedTo
      <3> QED  BY <3>1, <3>2
    <2> QED  BY <1>7, <1>8, <2>1, <2>2, <2>3 DEF Carries
  <1>16. ParkedStands'
    <2>1. ASSUME NEW p \in parked' PROVE Stands(p[1])'
      <3>1. /\ p[1] \in Turn /\ Stands(p[1]) /\ p[1] # t
            /\ turn[p[1]].work # turn[t].work
        BY PickupTypes DEF ParkedStands
      <3>2. ~HandedTo(p[1])'
        BY <1>6, <3>1 DEF HandedTo
      <3> QED  BY <1>7, <1>8, <1>10, <3>1, <3>2 DEF Stands
    <2> QED  BY <2>1 DEF ParkedStands
  <1>17. HandedIsPaid'
    BY <1>1, <1>6, <1>7 DEF HandedIsPaid
  <1> QED  BY <1>7, <1>12, <1>13, <1>14, <1>15, <1>16, <1>17

\* A turn resumeInterrupted() neither skips nor gives up has no continuation,
\* and the work of no parked turn.
LEMMA WorkMayGoOn ==
  ASSUME AccountedInv, WorkInv, HoldInv, NEW t \in Turn, ResumeNext(t),
         Disposition(t) \in {"park", "pick-up"}
  PROVE  /\ t \in Open /\ Paid(t) /\ NoPickupOf(t)
         /\ \A p \in parked : p[1] # t /\ turn[p[1]].work # turn[t].work
  <1> USE DEF WorkInv, HoldInv
  <1>1. t \in sweep /\ phase = "resume"
    BY DEF ResumeNext
  <1>2. t \in Open /\ Paid(t)
    BY <1>1 DEF SweptIsPaid
  <1>3. ~HasPendingResume(t) /\ Main[turn[t].worker] \in alive
    BY DEF Disposition, HostEnd
  <1>4. NoPickupOf(t)
    <2> SUFFICES ASSUME NEW m \in Message, Unclaimed(m),
                        msg[m].marker.work = turn[t].work
                 PROVE  FALSE
      BY DEF NoPickupOf
    <2>1. inbox[m] = "pending" /\ Resumes(m) /\ msg[m].kind = "resume"
      BY DEF Unclaimed, Resumes
    <2>2. msg[m].marker.turn = t
      BY <1>2 DEF WaitingIsOpen
    <2>3. Main[msg[m].to] \in alive
      BY <1>3, <2>1, <2>2 DEF MarkersAreTrue
    <2>4. \E c \in queue : c[1] = m
      BY <1>1, <2>1, <2>3 DEF PickupsReplayed
    <2> QED  BY <1>3, <2>1, <2>2, <2>4 DEF HasPendingResume
  <1>5. \A p \in parked : p[1] # t /\ turn[p[1]].work # turn[t].work
    BY <1>1, <1>2 DEF ParkedStands, Stands
  <1> QED  BY <1>2, <1>4, <1>5

\* Parking one more turn.
LEMMA WorkPark ==
  ASSUME AccountedInv, WorkInv, HoldInv, NEW t \in Turn, Park(t)
  PROVE  WorkInv' /\ HoldInv'
  <1> USE DEF WorkInv, HoldInv
  <1>1. /\ UNCHANGED <<inbox, msg, turn, asking, alive, phase, queue, act, handing>>
        /\ parked' = parked \cup {<<t, NextAttempt(t)>>}
        /\ sweep' = sweep \ {t} /\ phase = "resume"
        /\ ResumeNext(t) /\ Disposition(t) = "park" /\ handing.kind = "none"
    BY DEF Park, durable, ResumeNext, Synchronous
  <1>2. /\ t \in Open /\ Paid(t) /\ NoPickupOf(t)
        /\ \A p \in parked : p[1] # t
    BY <1>1, WorkMayGoOn
  <1>3. /\ Open' = Open
        /\ \A u : /\ Paid(u)' = Paid(u) /\ NoPickupOf(u)' = NoPickupOf(u)
                  /\ Begun(u)' = Begun(u) /\ HandedTo(u)' = HandedTo(u)
        /\ \A w \in Worker : InTurn(w)' = InTurn(w) /\ Staged(w)' = Staged(w)
        /\ \A m \in Message : /\ Loose(m)' = Loose(m)
                              /\ Unclaimed(m)' = Unclaimed(m)
        /\ \A m : Resumes(m)' = Resumes(m)
    BY <1>1 DEF Open, Paid, NoPickupOf, Begun, HandedTo, InTurn, Staged, Loose,
                Unclaimed, Resumes
  <1>4. WorkInv'
    BY <1>1, <1>3 DEF MarkersAreTrue, WorkBegan, EndedIsPaid, WaitingIsPaid,
                      OneOpen, OneWaiting, WaitingIsOpen
  <1>5. LifeInv'
    BY <1>1 DEF LifeInv
  <1>6. PickupsReplayed' /\ PickupOnce' /\ PickupIsLoose' /\ RecordedIsNew'
    BY <1>1, <1>3, PickupTypes
    DEF PickupsReplayed, PickupOnce, PickupIsLoose, RecordedIsNew
  <1>7. CarriedAlone'
    <2>1. \A w \in Worker : act[w].todo \subseteq Message
      BY PickupTypes
    <2> QED  BY <1>1, <1>3, <2>1 DEF CarriedAlone, Carries
  <1>8. SweptIsPaid' /\ HandedIsPaid'
    BY <1>1, <1>3 DEF SweptIsPaid, HandedIsPaid
  <1>9. ParkedStands'
    <2>1. Stands(t)'
      BY <1>1, <1>2, <1>3 DEF Stands, OneOpen, HandedTo
    <2>2. ASSUME NEW p \in parked PROVE Stands(p[1])'
      <3>1. Stands(p[1])
        BY DEF ParkedStands
      <3> QED  BY <1>1, <1>3, <3>1 DEF Stands
    <2>3. \A p \in parked' : Stands(p[1])'
      BY <1>1, <2>1, <2>2
    <2>4. \A p, q \in parked' : p[1] = q[1] => p = q
      BY <1>1, <1>2 DEF ParkedStands
    <2> QED  BY <2>3, <2>4 DEF ParkedStands
  <1> QED  BY <1>4, <1>5, <1>6, <1>7, <1>8, <1>9

\* A turn that is picked up at startup, running or not.
LEMMA WorkResume ==
  ASSUME AccountedInv, WorkInv, HoldInv, NEW t \in Turn, NEW m \in Message,
         ResumeTurn(t, m)
  PROVE  WorkInv' /\ HoldInv'
  <1>1. /\ ResumeNext(t) /\ Disposition(t) = "pick-up"
        /\ PickUp(t, m, NextAttempt(t)) /\ sweep' = sweep \ {t}
        /\ UNCHANGED <<turn, opening, steered, asking, alive, act, phase, parked>>
        /\ phase = "resume" /\ ~Synchronous
    BY DEF ResumeTurn, ResumeNext
  <1>2. NextAttempt(t) \in 0..MaxResumes
    BY <1>1, NextAttemptType, DispositionMeans DEF AccountedInv
  <1> QED  BY <1>1, <1>2, WorkMayGoOn, WorkPickUp

\* A parked turn leaves the parking as its pickup is queued.
LEMMA WorkAnswer ==
  ASSUME AccountedInv, WorkInv, HoldInv, NEW t \in Turn, NEW m \in Message,
         AnswerApproval(t, m)
  PROVE  WorkInv' /\ HoldInv'
  <1>1. /\ UNCHANGED <<turn, opening, steered, alive, act, phase, sweep>>
        /\ asking' = asking \ {t} /\ t \in asking
        /\ phase = "up" /\ ~Synchronous
    BY DEF AnswerApproval
  <1>2. ASSUME UNCHANGED <<inbox, msg, queue, handing, parked>>
        PROVE  WorkInv' /\ HoldInv'
    BY <1>1, <1>2, WorkQuiet
  <1>3. ASSUME NEW p \in parked, p[1] = t, PickUp(t, m, p[2]),
               parked' = parked \ {p}
        PROVE  WorkInv' /\ HoldInv'
    <2>1. Stands(t) /\ t \in Open
      BY <1>1, <1>3 DEF HoldInv, ParkedStands, Stands
    <2>2. p[2] \in 0..MaxResumes
      BY DEF AccountedInv, TypeOK
    <2>3. \A q \in parked' : turn[q[1]].work # turn[t].work
      BY <1>3, <2>1 DEF HoldInv, ParkedStands, Stands
    <2> QED  BY <1>1, <1>3, <2>1, <2>2, <2>3, WorkPickUp DEF Stands
  <1> QED  BY <1>2, <1>3 DEF AnswerApproval

\* A process that died holds nothing.
LEMMA WorkCrash ==
  ASSUME AccountedInv, WorkInv, HoldInv, Crash
  PROVE  WorkInv' /\ HoldInv'
  <1>1. /\ UNCHANGED <<inbox, msg, turn, asking>>
        /\ \A w \in Worker : act'[w] = Idle
        /\ phase' = "down" /\ queue' = {} /\ parked' = {} /\ sweep' = {}
        /\ handing'.kind = "none"
    BY DEF Crash, durable
  <1>2. \A w \in Worker : ~Staged(w)' /\ ~InTurn(w)' /\ act'[w].stage = "idle"
    BY <1>1, IdleType DEF Staged, InTurn
  <1>3. \A m \in Message : ~Loose(m)'
    BY <1>1, <1>2 DEF Loose
  <1>4. \A t \in Turn : Paid(t)' = Paid(t) /\ Begun(t)' = Begun(t)
    BY <1>1 DEF Paid, Resumes, Begun
  <1>5. Open' = Open /\ \A m \in Message : /\ Unclaimed(m)' = Unclaimed(m)
                                           /\ Resumes(m)' = Resumes(m)
    BY <1>1 DEF Open, Unclaimed, Resumes
  <1>6. \A m \in Message : Resumes(m) => msg[m].marker.turn \in Turn
    BY PickupTypes DEF Resumes
  <1>7. WorkInv'
    BY <1>1, <1>4, <1>5, <1>6 DEF WorkInv, MarkersAreTrue, WorkBegan, EndedIsPaid,
       WaitingIsPaid, OneOpen, OneWaiting, WaitingIsOpen, Unclaimed, Resumes
  <1>8. HoldInv'
    BY <1>1, <1>2, <1>3 DEF HoldInv, LifeInv, PickupsReplayed, PickupOnce,
       PickupIsLoose, RecordedIsNew, CarriedAlone, SweptIsPaid, ParkedStands,
       HandedIsPaid
  <1> QED  BY <1>7, <1>8

\* The constructor has reconciled what open turns began with when the startup
\* sweeps begin; the process is up when no interrupted turn is left.
LEMMA WorkPhase ==
  ASSUME AccountedInv, WorkInv, HoldInv, Boot \/ Reconciled \/ Started
  PROVE  WorkInv' /\ HoldInv'
  <1> USE DEF HoldInv
  <1>1. /\ UNCHANGED <<inbox, msg, turn, asking, alive, queue, act, parked, sweep,
                       handing>>
        /\ \/ phase = "down" /\ phase' = "reconcile"
           \/ phase = "reconcile" /\ phase' = "starting" /\ Reconcilable = {}
           \/ phase = "resume" /\ phase' = "up" /\ sweep = {}
    BY DEF Boot, Reconciled, Started, durable
  <1>2. /\ Open' = Open
        /\ \A t \in Turn : Begun(t)' = Begun(t) /\ Paid(t)' = Paid(t)
        /\ \A m \in Message : Loose(m)' = Loose(m) /\ Resumes(m)' = Resumes(m)
        /\ \A w \in Worker : Staged(w)' = Staged(w) /\ InTurn(w)' = InTurn(w)
    BY <1>1 DEF Open, Begun, Paid, Loose, Resumes, Staged, InTurn
  <1>3. LifeInv'
    <2>1. CASE phase = "reconcile" /\ phase' = "starting" /\ Reconcilable = {}
      <3>1. queue = {} /\ \A w \in Worker : act[w].stage = "idle"
        BY <2>1 DEF LifeInv
      <3>2. \A m \in Message : ~Loose(m)
        BY <3>1 DEF Loose, Staged
      <3>3. \A t \in Open : t \in Turn /\ Paid(t)
        BY <2>1, PickupTypes DEF Paid, Reconcilable, OwnedBy
      <3> QED  BY <1>1, <1>2, <2>1, <3>2, <3>3 DEF LifeInv
    <2>2. CASE ~(phase = "reconcile" /\ phase' = "starting" /\ Reconcilable = {})
      BY <1>1, <2>2 DEF LifeInv
    <2> QED  BY <2>1, <2>2
  <1>4. PickupsReplayed'
    BY <1>1 DEF PickupsReplayed
  <1>5. PickupOnce' /\ RecordedIsNew'
    BY <1>1 DEF PickupOnce, RecordedIsNew, Staged, Resumes, Begun
  <1>6. \A m \in Message : Loose(m)' /\ Resumes(m) => inbox'[m] = "pending"
    BY <1>1, <1>2 DEF PickupIsLoose, Unclaimed
  <1> QED  BY <1>1, <1>2, <1>3, <1>4, <1>5, <1>6, WorkShrinks

\* recover() queues every continuation that waits once: the turns that run
\* began with startup notes.
LEMMA WorkRecover ==
  ASSUME AccountedInv, WorkInv, HoldInv, Recover
  PROVE  WorkInv' /\ HoldInv'
  <1> USE DEF HoldInv
  <1>1. /\ UNCHANGED <<inbox, msg, turn, asking, alive, act, parked, handing>>
        /\ sweep' = Open /\ phase' = "resume" /\ phase = "starting"
        /\ queue' = queue \cup
             {<<m, "replay">> : m \in {n \in Message :
                 inbox[n] = "pending" /\ Main[msg[n].to] \in alive}}
    BY DEF Recover, durable
  <1>2. /\ parked = {} /\ handing.kind = "none"
        /\ \A m \in Message : Loose(m) => ~Resumes(m)
        /\ \A t \in Open : Paid(t)
    BY <1>1 DEF LifeInv
  <1>3. \A w \in Worker : act[w].stage \notin {"acking", "steering"}
    BY DEF Recover, Synchronous
  <1>4. /\ Open' = Open
        /\ \A t : Begun(t)' = Begun(t) /\ Paid(t)' = Paid(t)
        /\ \A m : Resumes(m)' = Resumes(m)
        /\ \A m : Unclaimed(m)' = Unclaimed(m)
        /\ \A t : NoPickupOf(t)' = NoPickupOf(t) /\ HandedTo(t)' = HandedTo(t)
        /\ \A w : Staged(w)' = Staged(w) /\ InTurn(w)' = InTurn(w)
    BY <1>1 DEF Open, Begun, Paid, Resumes, Unclaimed, NoPickupOf, HandedTo,
                Staged, InTurn
  <1>5. \A c \in queue' : Resumes(c[1]) =>
          /\ c = <<c[1], "replay">> /\ c[1] \in Message
          /\ inbox[c[1]] = "pending"
    <2> SUFFICES ASSUME NEW c \in queue', Resumes(c[1])
                 PROVE  /\ c = <<c[1], "replay">> /\ c[1] \in Message
                        /\ inbox[c[1]] = "pending"
      OBVIOUS
    <2>1. c \notin queue
      BY <1>2, PickupTypes DEF Loose
    <2> QED  BY <1>1, <2>1
  <1>6. \A m \in Message, w \in Worker :
          Staged(w) /\ m \in act[w].batch => ~Resumes(m)
    BY <1>2 DEF Loose
  <1>7. WorkInv'
    BY <1>1, <1>4 DEF WorkInv, MarkersAreTrue, WorkBegan, EndedIsPaid,
       WaitingIsPaid, OneOpen, OneWaiting, WaitingIsOpen
  <1>8. LifeInv'
    BY <1>1, <1>3 DEF LifeInv
  <1>9. PickupsReplayed'
    <2> SUFFICES ASSUME NEW m \in Message, inbox[m] = "pending",
                        Main[msg[m].to] \in alive
                 PROVE  \E c \in queue' : c[1] = m
      BY <1>1 DEF PickupsReplayed
    <2>1. <<m, "replay">> \in queue'
      BY <1>1
    <2> QED  BY <2>1
  <1>10. PickupOnce'
    <2>1. \A c, d \in queue' : c[1] = d[1] /\ Resumes(c[1]) => c = d
      BY <1>5
    <2>2. \A w \in Worker : act[w].batch \subseteq Message
      BY PickupTypes
    <2> QED  BY <1>1, <1>4, <1>6, <2>1, <2>2 DEF PickupOnce
  <1>11. PickupIsLoose'
    <2> SUFFICES ASSUME NEW m \in Message, Loose(m)', Resumes(m)
                 PROVE  Unclaimed(m)
      BY <1>4 DEF PickupIsLoose
    <2>1. inbox[m] = "pending"
      BY <1>1, <1>4, <1>5, <1>6 DEF Loose
    <2> QED  BY <1>2, <2>1 DEF Unclaimed, Paid, Resumes
  <1>12. RecordedIsNew'
    BY <1>1, <1>4 DEF RecordedIsNew
  <1>13. CarriedAlone'
    BY <1>1, <1>3, <1>4 DEF CarriedAlone, Carries
  <1>14. SweptIsPaid' /\ ParkedStands' /\ HandedIsPaid'
    BY <1>1, <1>2, <1>4 DEF SweptIsPaid, ParkedStands, HandedIsPaid
  <1> QED  BY <1>7, <1>8, <1>9, <1>10, <1>11, <1>12, <1>13, <1>14

\* Worker w begins turn t of work b, whatever else of that work is running.
TakesUp(w, t, b) ==
    /\ UNCHANGED <<inbox, msg, asking, alive, phase, queue, parked, sweep, handing>>
    /\ phase \in {"starting", "up"} /\ handing.kind = "none"
    /\ turn'[t].how = "open" /\ turn'[t].worker = w
    /\ turn'[t].causedBy = act[w].batch /\ turn'[t].work = b
    /\ \A u \in Turn \ {t} :
         /\ turn'[u].worker = turn[u].worker
         /\ turn'[u].causedBy = turn[u].causedBy
         /\ turn'[u].work = turn[u].work
         /\ \/ turn'[u].how = turn[u].how
            \/ turn[u].how = "open" /\ turn'[u].how = "resumed" /\ Paid(u)
    /\ \A u \in Turn \ {t} :
         /\ turn[u].how = "open" /\ turn[u].work = b => turn'[u].how = "resumed"
         /\ turn'[u].how # turn[u].how => turn[u].work = b
    /\ \A m \in Message : Unclaimed(m) /\ msg[m].marker.work = b =>
         m \in act[w].batch
    /\ Begun(t) => turn[t].worker = w /\ turn[t].work = b /\ Paid(t)
    /\ ~Begun(t) => opening[t] = act[w].batch
    /\ b = t \/ Begun(b)
    /\ \A p \in parked : turn[p[1]].work # b
    /\ \A v \in Worker \ {w} : act'[v] = act[v]
    /\ Staged(w) /\ act'[w] = Doing("acking", t, act[w].batch, act[w].batch)

\* A begin takes up the work of the one continuation it drained, or starts
\* work of its own.
LEMMA WorkBeginMeans ==
  ASSUME LineageInv, WorkInv, HoldInv, NEW w \in Worker, Begin(w)
  PROVE  \E t, b \in Turn : TakesUp(w, t, b)
  <1> AccountedInv /\ TypeOK
    BY DEF LineageInv, AccountedInv
  <1> USE DEF WorkInv, HoldInv
  <1>1. PICK k : k = MarkerOf(act[w].batch)
    OBVIOUS
  <1>2. PICK t : t = IF k.continues THEN k.turn ELSE act[w].turn
    OBVIOUS
  <1>3. /\ UNCHANGED <<inbox, msg, asking, alive, phase, queue, parked, sweep,
                       handing>>
        /\ phase \in {"starting", "up"} /\ handing.kind = "none"
        /\ turn' = BeginRecord(w, t)
        /\ act[w].stage = IF k.continues THEN "setup" ELSE "recorded"
        /\ act' = [act EXCEPT ![w] = Doing("acking", t, act[w].batch,
                                           act[w].batch)]
    BY <1>1, <1>2 DEF Begin, Serving, Synchronous
  <1>4. /\ \A v \in Worker \ {w} : act'[v] = act[v]
        /\ act'[w] = Doing("acking", t, act[w].batch, act[w].batch)
        /\ Staged(w)
    BY <1>3 DEF Staged, TypeOK
  <1>5. \A m \in act[w].batch : m \in Message /\ msg[m].to = w /\ Loose(m)
    <2>1. \A m \in act[w].batch : Loose(m)
      BY <1>4 DEF Loose
    <2> QED  BY <1>4, <2>1, PickupTypes DEF PickupOnce
  <1>6. CASE \E m \in act[w].batch : msg[m].kind = "resume"
    <2>1. PICK m \in act[w].batch : msg[m].kind = "resume"
      BY <1>6
    <2>2. act[w].batch = {m} /\ m \in Message /\ Resumes(m)
      BY <1>5, <2>1 DEF LineageInv, AloneInBatch, Resumes
    <2>3. k = msg[m].marker
      BY <1>1, <2>1, <2>2, MarkerOfAlone
    <2>4. PICK r \in Turn : r = k.turn /\ Begun(r) /\ r # None
      BY <2>1, <2>2, <2>3, PickupTypes, ConstantsAssumption
      DEF ConstantsAssumption
    <2>5. PICK b \in Turn : b = k.work /\ b = turn[r].work /\ Begun(b)
      BY <2>2, <2>3, <2>4 DEF MarkersAreTrue, WorkBegan
    <2>6. turn[r].worker = w
      BY <1>5, <2>1, <2>2, <2>3, <2>4 DEF MarkersAreTrue
    <2>7. Unclaimed(m)
      BY <1>5, <2>1, <2>2 DEF PickupIsLoose
    <2>8. Paid(r)
      BY <2>2, <2>3, <2>4, <2>7 DEF WaitingIsPaid
    <2>9. \A u \in Open : turn[u].work = b => u = r
      BY <2>2, <2>3, <2>4, <2>5, <2>7 DEF WaitingIsOpen
    <2>10. \A n \in Message : Unclaimed(n) /\ msg[n].marker.work = b =>
              n \in act[w].batch
      BY <2>1, <2>2, <2>3, <2>5, <2>7 DEF OneWaiting
    <2>11. \A p \in parked : turn[p[1]].work # b
      BY <2>2, <2>3, <2>5, <2>7 DEF ParkedStands, Stands, NoPickupOf
    <2>12. /\ t \in Turn
           /\ t # r => ~Begun(t) /\ opening[t] = act[w].batch
      <3>1. CASE k.continues
        BY <1>2, <2>4, <3>1
      <3>2. CASE ~k.continues
        BY <1>2, <1>3, <3>2
        DEF RecordedIsNew, AccountedInv, StageIsOnDisk, StageOf
      <3> QED  BY <3>1, <3>2
    <2>13. \A u \in Turn :
             /\ u = t => turn'[u].how = "open" /\ turn'[u].worker = w
                         /\ turn'[u].causedBy = act[w].batch
             /\ u # t => turn'[u].causedBy = turn[u].causedBy
                         /\ turn'[u].worker = turn[u].worker
      BY <1>3, <2>12, BeginRecordMeans
    <2>14. \A u \in Turn : u # t =>
             turn'[u].how = IF u = r /\ turn[u].how = "open"
                            THEN "resumed" ELSE turn[u].how
      <3>1. \A u \in Turn : u # t =>
              turn'[u].how = IF u = k.turn /\ turn[u].how = "open"
                             THEN "resumed" ELSE turn[u].how
        BY <1>1, <1>3, <2>12, BeginRecordHow
      <3> QED  BY <2>4, <3>1
    <2>15. \A u \in Turn : turn'[u].work = IF u = t THEN b ELSE turn[u].work
      BY ZenonT(60), <1>1, <1>3, <2>4, <2>5, <2>12, BeginRecordWork
    <2>16. \A u \in Turn \ {t} :
             /\ turn'[u].worker = turn[u].worker
             /\ turn'[u].causedBy = turn[u].causedBy
             /\ turn'[u].work = turn[u].work
             /\ \/ turn'[u].how = turn[u].how
                \/ turn[u].how = "open" /\ turn'[u].how = "resumed" /\ Paid(u)
      BY <2>8, <2>13, <2>14, <2>15
    <2>17. \A u \in Turn \ {t} :
             /\ turn[u].how = "open" /\ turn[u].work = b => turn'[u].how = "resumed"
             /\ turn'[u].how # turn[u].how => turn[u].work = b
      BY <2>5, <2>9, <2>14 DEF Open
    <2>18. /\ Begun(t) => turn[t].worker = w /\ turn[t].work = b /\ Paid(t)
           /\ ~Begun(t) => opening[t] = act[w].batch
      <3>1. CASE t = r
        BY <2>4, <2>5, <2>6, <2>8, <3>1
      <3>2. CASE t # r
        BY <2>12, <3>2
      <3> QED  BY <3>1, <3>2
    <2>19. /\ turn'[t].how = "open" /\ turn'[t].worker = w
           /\ turn'[t].causedBy = act[w].batch /\ turn'[t].work = b
      BY <2>12, <2>13, <2>15
    <2>20. TakesUp(w, t, b)
      BY <1>3, <1>4, <2>5, <2>10, <2>11, <2>16, <2>17, <2>18, <2>19 DEF TakesUp
    <2> QED  BY <2>12, <2>20
  <1>7. CASE \A m \in act[w].batch : msg[m].kind # "resume"
    <2>1. k = NoMarker
      BY <1>1, <1>7, NoMarkerOf
    <2>2. k.turn = None /\ ~k.continues
      BY <2>1 DEF NoMarker
    <2>3. t \in Turn /\ ~Begun(t) /\ opening[t] = act[w].batch
      BY <1>2, <1>3, <2>2
      DEF RecordedIsNew, AccountedInv, StageIsOnDisk, StageOf
    <2>4. \A u \in Turn : Begun(u) => turn[u].work # t
      BY <2>3 DEF WorkBegan
    <2>5. \A m \in Message : Unclaimed(m) => msg[m].marker.work # t
      <3>1. \A m \in Message : Unclaimed(m) =>
              /\ msg[m].marker.work = turn[msg[m].marker.turn].work
              /\ msg[m].marker.turn \in Turn /\ Begun(msg[m].marker.turn)
        BY PickupTypes DEF Unclaimed, MarkersAreTrue, Resumes
      <3> QED  BY <2>4, <3>1
    <2>6. \A p \in parked : turn[p[1]].work # t
      BY <2>4, PickupTypes DEF AccountedInv, PointersAreBegun
    <2>7. \A u \in Turn :
             /\ u = t => turn'[u].how = "open" /\ turn'[u].worker = w
                         /\ turn'[u].causedBy = act[w].batch
             /\ u # t => turn'[u].causedBy = turn[u].causedBy
                         /\ turn'[u].worker = turn[u].worker
      BY <1>3, <2>3, BeginRecordMeans
    <2>8. \A u \in Turn : u # t => turn'[u].how = turn[u].how
      <3>1. \A u \in Turn : u # None
        BY ConstantsAssumption DEF ConstantsAssumption
      <3>2. \A u \in Turn : u # t =>
              turn'[u].how = IF u = k.turn /\ turn[u].how = "open"
                             THEN "resumed" ELSE turn[u].how
        BY <1>1, <1>3, <2>3, BeginRecordHow
      <3> QED  BY <2>2, <3>1, <3>2
    <2>9. \A u \in Turn : turn'[u].work = IF u = t THEN t ELSE turn[u].work
      BY <1>1, <1>3, <2>2, <2>3, BeginRecordWork
    <2>10. \A u \in Turn : turn[u].how = "open" => turn[u].work # t
      BY <2>4 DEF Begun
    <2>11. TakesUp(w, t, t)
      BY <1>3, <1>4, <2>3, <2>5, <2>6, <2>7, <2>8, <2>9, <2>10 DEF TakesUp
    <2> QED  BY <2>3, <2>11
  <1> QED  BY <1>6, <1>7

\* A begin leaves one turn of its work open, and no continuation of it.
LEMMA WorkBegin ==
  ASSUME LineageInv, WorkInv, HoldInv, NEW w \in Worker, NEW t \in Turn,
         NEW b \in Turn, TakesUp(w, t, b)
  PROVE  WorkInv' /\ HoldInv'
  <1> AccountedInv
    BY DEF LineageInv
  <1> USE DEF WorkInv, HoldInv
  <1>1. PICK M \in SUBSET Message : M = act[w].batch
    BY PickupTypes
  <1>2. /\ UNCHANGED <<inbox, msg, asking, alive, phase, queue, parked, sweep,
                       handing>>
        /\ phase \in {"starting", "up"} /\ handing.kind = "none" /\ sweep = {}
        /\ \A v \in Worker \ {w} : act'[v] = act[v]
        /\ Staged(w)
    BY DEF TakesUp, LifeInv
  <1>3. /\ turn'[t].how = "open" /\ turn'[t].worker = w
        /\ turn'[t].causedBy = M /\ turn'[t].work = b
        /\ \A u \in Turn \ {t} : /\ turn'[u].worker = turn[u].worker
                                 /\ turn'[u].causedBy = turn[u].causedBy
                                 /\ turn'[u].work = turn[u].work
    BY <1>1 DEF TakesUp
  <1>4. \A u \in Turn \ {t} :
          /\ \/ turn'[u].how = turn[u].how
             \/ turn[u].how = "open" /\ turn'[u].how = "resumed" /\ Paid(u)
          /\ turn[u].how = "open" /\ turn[u].work = b => turn'[u].how = "resumed"
          /\ turn'[u].how # turn[u].how => turn[u].work = b
    BY DEF TakesUp
  <1>5. /\ Begun(t) => turn[t].worker = w /\ turn[t].work = b /\ Paid(t)
        /\ ~Begun(t) => opening[t] = M
        /\ b = t \/ Begun(b)
    BY <1>1 DEF TakesUp
  <1>6. /\ act'[w].stage = "acking" /\ act'[w].turn = t /\ act'[w].todo = M
        /\ act'[w].batch = M
    BY <1>1, DoingType DEF TakesUp
  <1>7. /\ Begun(t)'
        /\ \A u \in Turn \ {t} : Begun(u)' = Begun(u) /\ Paid(u)' = Paid(u)
        /\ \A m : Resumes(m)' = Resumes(m)
        /\ \A u : HandedTo(u)' = HandedTo(u)
    BY <1>2, <1>3, <1>4 DEF Begun, Paid, Resumes, HandedTo
  <1>8. /\ t \in Open'
        /\ \A u \in Open' : u # t => u \in Open /\ turn[u].work # b
        /\ \A u \in Open : turn[u].work # b => u \in Open' /\ u # t
        /\ \A u \in Open : u \in Turn /\ Begun(u)
    BY <1>3, <1>4, <1>5, PickupTypes DEF Open, Begun
  <1>9. \A m \in M : m \in Message /\ msg[m].to = w
                      /\ Loose(m) /\ (Resumes(m) => \A c \in queue : c[1] # m)
    BY <1>1, <1>2 DEF Loose, PickupOnce
  <1>10. \A m \in Message : Unclaimed(m)' =>
           Unclaimed(m) /\ msg[m].marker.work # b /\ m \notin M
    <2> SUFFICES ASSUME NEW m \in Message, Unclaimed(m)'
                 PROVE  Unclaimed(m) /\ msg[m].marker.work # b /\ m \notin M
      OBVIOUS
    <2>1. inbox[m] = "pending" /\ msg[m].kind = "resume" /\ Resumes(m)
      BY <1>2 DEF Unclaimed, Resumes
    <2>2. m \notin M
      BY <1>3, <1>8 DEF Unclaimed
    <2>3. ASSUME NEW u \in Open PROVE m \notin turn[u].causedBy
      <3>1. CASE u = t
        BY <1>5, <1>8, <2>1, <3>1 DEF Paid
      <3>2. CASE u # t /\ turn'[u].how = turn[u].how
        <4>1. u \in Open'
          BY <1>8, <3>2 DEF Open
        <4> QED  BY <1>3, <1>8, <3>2, <4>1 DEF Unclaimed
      <3>3. CASE u # t /\ Paid(u)
        BY <1>8, <2>1, <3>3 DEF Paid
      <3> QED  BY <1>4, <1>8, <3>1, <3>2, <3>3
    <2>4. Unclaimed(m)
      BY <2>1, <2>3 DEF Unclaimed
    <2> QED  BY <1>1, <2>2, <2>4 DEF TakesUp
  <1>11. \A m \in Message : Unclaimed(m)' =>
           /\ msg[m].marker.turn \in Turn \ {t} /\ Resumes(m)
           /\ msg[m].marker.work # b /\ Begun(msg[m].marker.turn)
           /\ Unclaimed(m)
    <2> SUFFICES ASSUME NEW m \in Message, Unclaimed(m)'
                 PROVE  /\ msg[m].marker.turn \in Turn \ {t} /\ Resumes(m)
                        /\ msg[m].marker.work # b /\ Begun(msg[m].marker.turn)
                        /\ Unclaimed(m)
      OBVIOUS
    <2>1. Unclaimed(m) /\ msg[m].marker.work # b
      BY <1>10
    <2>2. Resumes(m) /\ msg[m].marker.turn \in Turn
          /\ Begun(msg[m].marker.turn)
      BY <2>1, PickupTypes DEF Unclaimed, Resumes
    <2> QED  BY <1>5, <2>1, <2>2 DEF MarkersAreTrue
  <1>12. \A u \in Turn \ {t} : NoPickupOf(u) => NoPickupOf(u)'
    BY <1>2, <1>3, <1>11 DEF NoPickupOf
  <1>13. NoPickupOf(t)'
    BY <1>2, <1>3, <1>11 DEF NoPickupOf
  <1>14. MarkersAreTrue'
    <2>1. ASSUME NEW m \in Message, Resumes(m)
          PROVE  /\ msg[m].to = turn'[msg[m].marker.turn].worker
                 /\ msg[m].marker.work = turn'[msg[m].marker.turn].work
      <3>1. /\ msg[m].marker.turn \in Turn /\ Begun(msg[m].marker.turn)
            /\ msg[m].to = turn[msg[m].marker.turn].worker
            /\ msg[m].marker.work = turn[msg[m].marker.turn].work
        BY <2>1, PickupTypes DEF MarkersAreTrue, Resumes
      <3> QED  BY <1>3, <1>5, <3>1
    <2> QED  BY <1>2, <1>7, <2>1 DEF MarkersAreTrue
  <1>15. WorkBegan'
    BY <1>3, <1>5, <1>7 DEF WorkBegan
  <1>16. EndedIsPaid'
    <2> SUFFICES ASSUME NEW u \in Turn, Begun(u)', u \notin Open' PROVE Paid(u)'
      BY DEF EndedIsPaid
    <2>1. u # t /\ Begun(u)
      BY <1>7, <1>8
    <2>2. turn'[u].how = turn[u].how => u \notin Open
      BY DEF Open
    <2> QED  BY <1>4, <1>7, <2>1, <2>2 DEF EndedIsPaid
  <1>17. WaitingIsPaid'
    BY <1>2, <1>7, <1>11 DEF WaitingIsPaid
  <1>18. OneOpen'
    BY <1>3, <1>8 DEF OneOpen
  <1>19. OneWaiting'
    BY <1>2, <1>11 DEF OneWaiting
  <1>20. WaitingIsOpen'
    <2> SUFFICES ASSUME NEW u \in Open', NEW m \in Message, Unclaimed(m)',
                        msg[m].marker.work = turn'[u].work
                 PROVE  msg[m].marker.turn = u
      BY <1>2 DEF WaitingIsOpen
    <2>1. Unclaimed(m) /\ u # t
      BY <1>3, <1>11
    <2>2. u \in Open /\ turn'[u].work = turn[u].work
      BY <1>3, <1>8, <2>1
    <2> QED  BY <2>1, <2>2 DEF WaitingIsOpen
  <1>21. \A v \in Worker :
          /\ Staged(v)' => Staged(v) /\ act'[v] = act[v] /\ v # w
          /\ InTurn(v)' /\ v # w => InTurn(v) /\ act'[v] = act[v]
    BY <1>2, <1>6 DEF Staged, InTurn
  <1>22. \A m \in Message : Loose(m)' => Loose(m)
    BY <1>2, <1>21 DEF Loose
  <1>23. \A m \in M : Resumes(m) => ~Loose(m)'
    <2> SUFFICES ASSUME NEW m \in M, Resumes(m) PROVE ~Loose(m)'
      OBVIOUS
    <2>1. \A c \in queue' : c[1] # m
      BY <1>2, <1>9
    <2>2. ASSUME NEW v \in Worker, Staged(v)' PROVE m \notin act'[v].batch
      <3>1. Staged(v) /\ act'[v] = act[v] /\ v # w
        BY <1>21, <2>2
      <3>2. msg[m].to = w
        BY <1>9
      <3> QED  BY <3>1, <3>2 DEF PickupOnce
    <2> QED  BY <2>1, <2>2 DEF Loose
  <1>24. LifeInv'
    <2>1. CASE phase = "starting"
      <3>1. \A m \in M : ~Resumes(m)
        BY <1>9, <2>1 DEF LifeInv
      <3>2. Paid(t)'
        BY <1>3, <1>7, <3>1 DEF Paid
      <3>3. \A u \in Open' : Paid(u)'
        BY <1>7, <1>8, <2>1, <3>2 DEF LifeInv
      <3>4. \A m \in Message : Loose(m)' => ~Resumes(m)'
        BY <1>7, <1>22, <2>1 DEF LifeInv
      <3> QED  BY <1>2, <2>1, <3>3, <3>4 DEF LifeInv
    <2>2. CASE phase = "up"
      BY <1>2, <2>2 DEF LifeInv
    <2> QED  BY <1>2, <2>1, <2>2
  <1>25. PickupsReplayed'
    BY <1>2 DEF PickupsReplayed
  <1>26. PickupOnce'
    BY <1>2, <1>7, <1>21 DEF PickupOnce
  <1>27. PickupIsLoose'
    <2> SUFFICES ASSUME NEW m \in Message, Loose(m)', Resumes(m)
                 PROVE  Unclaimed(m)'
      BY <1>7 DEF PickupIsLoose
    <2>1. Unclaimed(m) /\ m \notin M
      BY <1>22, <1>23 DEF PickupIsLoose
    <2>2. \A u \in Open' : m \notin turn'[u].causedBy
      BY <1>3, <1>8, <2>1 DEF Unclaimed
    <2> QED  BY <1>2, <2>1, <2>2 DEF Unclaimed
  <1>28. RecordedIsNew'
    <2> SUFFICES ASSUME NEW v \in Worker, act'[v].stage = "recorded"
                 PROVE  ~Begun(act[v].turn)' /\ act'[v] = act[v]
      BY DEF RecordedIsNew
    <2>1. v # w /\ act'[v] = act[v] /\ Staged(v)
      BY <1>2, <1>6 DEF Staged
    <2>2. /\ ~Begun(act[v].turn) /\ act[v].turn \in Turn
          /\ opening[act[v].turn] = act[v].batch /\ act[v].batch # {}
      BY <2>1 DEF RecordedIsNew, AccountedInv, StageIsOnDisk, StageOf
    <2>3. act[v].turn # t
      <3>1. ASSUME act[v].turn = t PROVE FALSE
        <4>1. act[v].batch = M
          BY <1>5, <2>2, <3>1
        <4>2. PICK m \in M : TRUE
          BY <2>2, <4>1
        <4>3. msg[m].to = w /\ msg[m].to = v
          BY <1>9, <2>1, <4>1, <4>2 DEF PickupOnce
        <4> QED  BY <2>1, <4>3
      <3> QED  BY <3>1
    <2> QED  BY <1>7, <2>1, <2>2, <2>3
  <1>29. CarriedAlone'
    <2> SUFFICES ASSUME NEW v \in Worker, InTurn(v)'
                 PROVE  Carries(v, act[v].turn)'
      BY DEF CarriedAlone
    <2>1. CASE v = w
      BY <1>3, <1>6, <1>7, <1>13, <1>23, <2>1 DEF Carries
    <2>2. CASE v # w
      <3>1. InTurn(v) /\ act'[v] = act[v]
        BY <1>21, <2>2
      <3>2. PICK u : u = act[v].turn
        OBVIOUS
      <3>3. Carries(v, u) /\ u \in Turn /\ Begun(u)
        BY <3>1, <3>2
        DEF CarriedAlone, InTurn, AccountedInv, StageIsOnDisk, StageOf
      <3>4. u # t
        BY <1>5, <2>2, <3>3 DEF Carries
      <3>5. u \in Open' => (NoPickupOf(u) \/ HandedTo(u))'
        BY <1>7, <1>8, <1>12, <3>3, <3>4 DEF Carries
      <3>6. \A m \in act[v].todo : Loose(m)' => Loose(m)
        BY <1>22, PickupTypes
      <3> QED  BY <1>2, <1>3, <1>7, <3>1, <3>2, <3>3, <3>4, <3>5, <3>6 DEF Carries
    <2> QED  BY <2>1, <2>2
  <1>30. SweptIsPaid' /\ HandedIsPaid'
    BY <1>2 DEF SweptIsPaid, HandedIsPaid
  <1>31. ParkedStands'
    <2>1. ASSUME NEW p \in parked PROVE Stands(p[1])'
      <3>1. PICK u \in Turn : u = p[1] /\ Stands(u) /\ turn[u].work # b /\ Begun(u)
        BY PickupTypes DEF ParkedStands, TakesUp, AccountedInv, PointersAreBegun
      <3>2. u # t
        BY <1>5, <3>1
      <3>3. \A x \in Open' : turn'[x].work = turn'[u].work => x = u
        BY <1>3, <1>8, <3>1, <3>2 DEF Stands
      <3>4. u \in Open => u \in Open'
        BY <1>8, <3>1
      <3>5. \A v \in Worker : InTurn(v)' /\ act'[v].turn = u => u \in Open'
        BY <1>6, <1>21, <3>1, <3>2, <3>4 DEF Stands
      <3>6. Stands(u)'
        BY <1>2, <1>7, <1>12, <3>1, <3>2, <3>3, <3>4, <3>5 DEF Stands
      <3> QED  BY <1>2, <3>1, <3>6
    <2> QED  BY <1>2, <2>1 DEF ParkedStands
  <1> QED  BY <1>14, <1>15, <1>16, <1>17, <1>18, <1>19, <1>20, <1>24, <1>25,
              <1>26, <1>27, <1>28, <1>29, <1>30, <1>31


\* Empty ledgers, and a process that holds nothing.
LEMMA WorkInit == Init => WorkInv /\ HoldInv
  <1> SUFFICES ASSUME Init PROVE WorkInv /\ HoldInv
    OBVIOUS
  <1>1. /\ \A t \in Turn : turn[t].how = "none" /\ turn[t].causedBy = {}
        /\ \A m \in Message : inbox[m] = "absent" /\ msg[m].kind = "chat"
        /\ \A w \in Worker : act[w].stage = "idle"
        /\ queue = {} /\ parked = {} /\ sweep = {}
        /\ handing.kind = "none" /\ phase = "up"
    BY IdleType DEF Init, NoTurn, Admitted
  <1>2. /\ \A t \in Turn : ~Begun(t)
        /\ Open = {}
        /\ \A m \in Message : ~Resumes(m) /\ ~Unclaimed(m)
        /\ \A w \in Worker : ~Staged(w) /\ ~InTurn(w)
    BY <1>1 DEF Begun, Open, Resumes, Unclaimed, Staged, InTurn
  <1>3. WorkInv
    BY <1>2 DEF WorkInv, MarkersAreTrue, WorkBegan, EndedIsPaid, WaitingIsPaid,
       OneOpen, OneWaiting, WaitingIsOpen
  <1>4. HoldInv
    BY <1>1, <1>2 DEF HoldInv, LifeInv, PickupsReplayed, PickupOnce,
       PickupIsLoose, RecordedIsNew, CarriedAlone, SweptIsPaid, ParkedStands,
       HandedIsPaid
  <1> QED  BY <1>3, <1>4

\* Every step of a turn.
LEMMA WorkTurn ==
  ASSUME LineageInv, WorkInv, HoldInv, NEW w \in Worker, TurnStep(w)
  PROVE  WorkInv' /\ HoldInv'
  <1> AccountedInv
    BY DEF LineageInv
  <1>1. CASE SetupFails(w) \/ OnReadyFails(w)
    <2>1. /\ UNCHANGED <<inbox, msg, turn, asking, alive, phase, queue, parked,
                         sweep, handing>>
          /\ \A v \in Worker : act'[v] = act[v] \/ act'[v] = Idle
      BY <1>1 DEF SetupFails, OnReadyFails, durable, AccountedInv, TypeOK
    <2> QED  BY <2>1, WorkQuiet
  <1>2. ASSUME NEW asks \in BOOLEAN, ToolCall(w, asks)
        PROVE  WorkInv' /\ HoldInv'
    <2>1. /\ UNCHANGED <<inbox, msg, turn, alive, phase, queue, act, parked,
                         sweep, handing>>
          /\ act[w].stage = "running" /\ asking' \subseteq asking \cup {act[w].turn}
      BY <1>2 DEF ToolCall
    <2>2. InTurn(w)
      BY <2>1 DEF InTurn
    <2> QED  BY <2>1, <2>2, WorkQuiet
  <1>3. CASE Begin(w)
    <2>1. PICK t, b \in Turn : TakesUp(w, t, b)
      BY <1>3, WorkBeginMeans
    <2> QED  BY <2>1, WorkBegin
  <1>4. ASSUME NEW how \in TurnEnd, SteeringFails(w) \/ Finish(w, how)
        PROVE  WorkInv' /\ HoldInv'
    BY <1>4, WorkFinish
  <1>5. "done" \in TurnEnd
    BY DEF TurnEnd
  <1> QED  BY <1>1, <1>2, <1>3, <1>4, <1>5, WorkDrain, WorkSteer, WorkDecline,
              WorkOpening, WorkAcknowledge DEF TurnStep

\* Every step of resumeInterrupted() and of an approval.
LEMMA WorkResumeStep ==
  ASSUME LineageInv, WorkInv, HoldInv, NEW t \in Turn, ResumeStep(t)
  PROVE  WorkInv' /\ HoldInv'
  <1> AccountedInv
    BY DEF LineageInv
  <1>1. CASE SkipTurn(t)
    <2>1. /\ UNCHANGED <<inbox, msg, turn, asking, alive, phase, queue, act,
                         parked, handing>>
          /\ sweep' \subseteq sweep
      BY <1>1 DEF SkipTurn, durable
    <2> QED  BY <2>1, WorkQuiet
  <1> QED  BY <1>1, WorkAbandon, WorkPark, WorkResume, WorkAnswer DEF ResumeStep

\* Every step, startup notes or not.
LEMMA WorkStep ==
  ASSUME ContinuationInv, [Next]_vars
  PROVE  ContinuationInv'
  <1> USE DEF ContinuationInv
  <1> AccountedInv
    BY DEF LineageInv
  <1>1. LineageInv'
    BY LineageStep
  <1>2. ASSUME NEW m \in Message, NEW w \in Worker, NEW kind \in Kind,
               Admit(m, w, kind) \/ StartupNote(m, w, kind)
        PROVE  WorkInv' /\ HoldInv'
    BY <1>2, WorkAdmit
  <1>3. ASSUME NEW w \in Worker, TurnStep(w) PROVE WorkInv' /\ HoldInv'
    BY <1>3, WorkTurn
  <1>4. ASSUME NEW t \in Turn, ResumeStep(t) PROVE WorkInv' /\ HoldInv'
    BY <1>4, WorkResumeStep
  <1>5. ASSUME NEW m \in Message, Reconcile(m) PROVE WorkInv' /\ HoldInv'
    BY <1>5, WorkReconcile
  \* The steps that move nothing.
  <1>6. ASSUME UNCHANGED <<inbox, msg, asking, phase, queue, act, parked, sweep>>,
               alive' \subseteq alive,
               \A t \in Turn : /\ turn'[t].how = turn[t].how
                               /\ turn'[t].causedBy = turn[t].causedBy
                               /\ turn'[t].worker = turn[t].worker
                               /\ turn'[t].work = turn[t].work,
               \/ handing' = handing
               \/ handing'.kind = "none" /\ handing.kind # "continue"
        PROVE  WorkInv' /\ HoldInv'
    BY <1>6, WorkQuiet
  <1>7. ASSUME NEW S \in SUBSET Turn, NoteCleanShutdown(S)
        PROVE  WorkInv' /\ HoldInv'
    <2>1. UNCHANGED <<inbox, msg, asking, alive, phase, queue, act, parked, sweep,
                      handing>>
      BY <1>7 DEF NoteCleanShutdown, volatile
    <2>2. \A t \in Turn : /\ turn'[t].how = turn[t].how
                          /\ turn'[t].causedBy = turn[t].causedBy
                          /\ turn'[t].worker = turn[t].worker
                          /\ turn'[t].work = turn[t].work
      <3>1. \A t \in Turn : turn[t] \in TurnRecord
        BY DEF AccountedInv, TypeOK
      <3> QED  BY <1>7, <3>1 DEF NoteCleanShutdown, TurnRecord
    <2> QED  BY <1>6, <2>1, <2>2
  <1>8. ASSUME NEW a \in Agent, RemoveAgent(a) PROVE WorkInv' /\ HoldInv'
    <2>1. /\ UNCHANGED <<inbox, msg, turn, asking, phase, queue, act, parked,
                         sweep, handing>>
          /\ alive' \subseteq alive
      BY <1>8 DEF RemoveAgent, volatile
    <2> QED  BY <1>6, <2>1
  <1>9. ASSUME NEW w \in Worker, SwitchContext(w) PROVE WorkInv' /\ HoldInv'
    <2>1. UNCHANGED <<inbox, msg, turn, asking, alive, phase, queue, act, parked,
                      sweep, handing>>
      BY <1>9 DEF SwitchContext, volatile
    <2> QED  BY <1>6, <2>1
  <1>10. ASSUME GiveUpNote PROVE WorkInv' /\ HoldInv'
    <2>1. /\ UNCHANGED <<inbox, msg, turn, asking, alive, phase, queue, act,
                         parked, sweep>>
          /\ handing.kind = "note" /\ handing'.kind = "none"
      BY <1>10 DEF GiveUpNote
    <2> QED  BY <1>6, <2>1
  <1>11. ASSUME UNCHANGED vars PROVE WorkInv' /\ HoldInv'
    <2>1. UNCHANGED <<inbox, msg, turn, asking, alive, phase, queue, act, parked,
                      sweep, handing>>
      BY <1>11 DEF vars, durable, volatile
    <2> QED  BY <1>6, <2>1
  <1>12. WorkInv' /\ HoldInv'
    BY <1>2, <1>3, <1>4, <1>5, <1>7, <1>8, <1>9, <1>10, <1>11, WorkRelinquish,
       WorkCrash, WorkPhase, WorkRecover DEF Next
  <1> QED  BY <1>1, <1>12

----------------------------------------------------------------------------
(* The theorems.                                                           *)

\* The invariant behind UniqueOwner and the promise: crashes anywhere,
\* turns steered, declined, parked and picked up; no startup notes.
THEOREM PickupInvariant ==
  ASSUME ~StartupNotes PROVE Spec => []PickupInv
  <1>1. Init => PickupInv
    BY LineageInit, PickupInit DEF PickupInv, LineageInv
  <1>2. PickupInv /\ [Next]_vars => PickupInv'
    BY PickupStep
  <1> QED  BY <1>1, <1>2, PTL DEF Spec

\* Two turns answer for one message only if one of them was steered with it
\* and failed before the inbox could record that.
THEOREM OneOwner ==
  ASSUME ~StartupNotes PROVE Spec => []UniqueOwner
  <1>1. PickupInv => UniqueOwner
    BY DEF PickupInv, LedgerInv
  <1> QED  BY <1>1, PickupInvariant, PTL

\* A set without two different members has at most one.
LEMMA AtMostOne ==
  ASSUME NEW S, \A x, y \in S : x = y
  PROVE  Cardinality(S) <= 1
  <1>1. CASE S = {}
    BY <1>1, FS_EmptySet
  <1>2. CASE S # {}
    <2>1. PICK x \in S : TRUE
      BY <1>2
    <2>2. S = {x}
      BY <2>1
    <2> QED  BY <2>2, FS_Singleton
  <1> QED  BY <1>1, <1>2

\* The invariant behind OneLivePickup: as a turn is swept up, whoever runs it
\* or not, its work has no other turn and no continuation.
THEOREM ContinuationInvariant == Spec => []ContinuationInv
  <1>1. Init => ContinuationInv
    BY LineageInit, WorkInit DEF ContinuationInv, LineageInv
  <1>2. ContinuationInv /\ [Next]_vars => ContinuationInv'
    BY WorkStep
  <1> QED  BY <1>1, <1>2, PTL DEF Spec

\* One piece of work is picked up once, whatever crashed between its
\* continuation, its end record and the begin that took it up, and whatever
\* startupBackgroundTasks() delivered before recover().
THEOREM OnePickup == Spec => []OneLivePickup
  <1>1. ContinuationInv => OneLivePickup
    <2> SUFFICES ASSUME ContinuationInv, NEW k \in Turn
                 PROVE  LET live == {t \in Open : turn[t].work = k}
                            waiting == {m \in Message : /\ Unclaimed(m)
                                                        /\ msg[m].marker.work = k}
                        IN  /\ Cardinality(waiting) <= 1
                            /\ Cardinality(live \cup {msg[m].marker.turn : m \in waiting}) <= 1
      BY DEF OneLivePickup
    <2> DEFINE live == {t \in Open : turn[t].work = k}
               waiting == {m \in Message : Unclaimed(m) /\ msg[m].marker.work = k}
    <2>1. OneOpen /\ OneWaiting /\ WaitingIsOpen
      BY DEF ContinuationInv, WorkInv
    <2>2. \A m, n \in waiting : m = n
      BY <2>1 DEF OneWaiting
    <2>3. \A x, y \in live \cup {msg[m].marker.turn : m \in waiting} : x = y
      BY <2>1, <2>2 DEF OneOpen, WaitingIsOpen
    <2>4. Cardinality(waiting) <= 1
      BY <2>2, AtMostOne
    <2>5. Cardinality(live \cup {msg[m].marker.turn : m \in waiting}) <= 1
      BY <2>3, AtMostOne
    <2> QED  BY <2>4, <2>5
  <1> QED  BY <1>1, ContinuationInvariant, PTL

----------------------------------------------------------------------------
(* What a step does to the files: one of eight things.                     *)

\* Nothing that custody is read from.
Rests ==
    /\ UNCHANGED <<inbox, msg, opening, steered, declined>>
    /\ \A t \in Turn : /\ turn'[t].how = turn[t].how
                      /\ turn'[t].causedBy = turn[t].causedBy
                      /\ turn'[t].work = turn[t].work

\* Turn t, open until now, has an end record.
Ends(t, how) ==
    /\ t \in Open /\ how \in How \ {"none", "open"}
    /\ turn' = EndRecord(t, how)
    /\ UNCHANGED <<inbox, msg, opening, steered, declined>>

\* Message m is admitted; a continuation is of an open turn.
Admits(m, w, kind, k) ==
    /\ w \in Worker \cup {None} /\ kind \in Kind /\ k \in Marker
    /\ Enqueue(m, w, kind, k)
    /\ kind = "resume" => k.turn \in Open /\ k.work = turn[k.turn].work
    /\ UNCHANGED <<turn, opening, steered, declined, alive, act>>

\* The inbox records that the open turn t has message m.
Takes(m, t) ==
    /\ t \in Open /\ m \in Held(t) /\ inbox[m] = "pending"
    /\ inbox' = [inbox EXCEPT ![m] = "started"]
    /\ UNCHANGED <<msg, turn, opening, steered, declined>>

\* The inbox lets go of the wakes of M, which the goal gate turned away.
Declines(M) ==
    /\ M # {} /\ \A m \in M : inbox[m] = "pending" /\ msg[m].kind # "resume"
    /\ inbox' = [m \in Message |-> IF m \in M THEN "started" ELSE inbox[m]]
    /\ declined' = declined \cup M
    /\ UNCHANGED <<msg, turn, opening, steered>>

\* The transcript names what will open turn t.
Opens(t) ==
    /\ ~Begun(t)
    /\ \A u \in Turn \ {t} : opening'[u] = opening[u]
    /\ UNCHANGED <<inbox, msg, turn, steered, declined>>

\* The transcript names the messages of X as what steers the open turn t.
Steers(t, X) ==
    /\ t \in Open
    /\ \A m \in X : inbox[m] = "pending" /\ msg[m].kind # "resume"
    /\ steered'[t] = steered[t] \cup X
    /\ \A u \in Turn \ {t} : steered'[u] = steered[u]
    /\ UNCHANGED <<inbox, msg, turn, opening, declined>>

FilesStep ==
    \/ Rests
    \/ \E t \in Turn, how \in How : Ends(t, how)
    \/ \E m \in Message, w \in Worker \cup {None}, kind \in Kind, k \in Marker :
          Admits(m, w, kind, k)
    \/ \E m \in Message, t \in Turn : Takes(m, t)
    \/ \E M \in SUBSET Message : Declines(M)
    \/ \E t \in Turn : Opens(t)
    \/ \E t \in Turn, X \in SUBSET Message : Steers(t, X)
    \/ declined' = declined /\ \E w \in Worker, t, b \in Turn : BeginsAt(w, t, b)

\* A continuation that is queued is of a turn that is open.
LEMMA PickUpAdmits ==
  ASSUME AccountedInv, NEW t \in Open, NEW m \in Message,
         NEW a \in 0..MaxResumes, PickUp(t, m, a),
         UNCHANGED <<turn, opening, steered, declined, alive, act>>
  PROVE  FilesStep
  <1>1. t \in Turn /\ turn[t] \in TurnRecord
    BY PickupTypes DEF AccountedInv, TypeOK
  <1>2. PICK k : k = [turn |-> t, attempt |-> a, work |-> turn[t].work,
                      continues |-> t \in stepped]
    OBVIOUS
  <1>3. k \in Marker /\ k.turn = t /\ k.work = turn[t].work
    BY <1>1, <1>2 DEF Marker, TurnRecord
  <1>4. PICK w \in Worker \cup {None} : w = turn[t].worker
    BY <1>1 DEF TurnRecord
  <1>5. PICK kind \in Kind : kind = "resume"
    BY DEF Kind
  <1>6. Admits(m, w, kind, k)
    BY <1>2, <1>3, <1>4, <1>5 DEF PickUp, Admits
  <1> QED  BY <1>3, <1>6 DEF FilesStep

\* The steps of a turn.
LEMMA TurnFiles ==
  ASSUME PickupInv, NEW w \in Worker, TurnStep(w)
  PROVE  FilesStep
  <1> USE DEF PickupInv
  <1> AccountedInv /\ ProcessInv
    BY DEF LineageInv
  <1>1. ASSUME NEW S \in SUBSET queue, Drain(w, S) PROVE FilesStep
    BY <1>1 DEF Drain, durable, Rests, FilesStep
  <1>2. ASSUME NEW S \in SUBSET queue, Steer(w, S) PROVE FilesStep
    <2>1. PICK X \in SUBSET Message : X = {c[1] : c \in S}
      BY PickupTypes
    <2>2. PICK t : t = act[w].turn
      OBVIOUS
    <2>3. t \in Turn /\ t \in Open
      BY <1>2, <2>2, PickupTypes
      DEF Steer, ProcessInv, RunningIsOpen, Runs, InTurn
    <2>4. \A m \in X : inbox[m] = "pending" /\ msg[m].kind # "resume"
      BY <1>2, <2>1 DEF Steer, ProcessInv, LooseIsFree, Loose
    <2>5. /\ steered'[t] = steered[t] \cup X
          /\ \A u \in Turn \ {t} : steered'[u] = steered[u]
          /\ UNCHANGED <<inbox, msg, turn, opening, declined>>
      BY <1>2, <2>1, <2>2, <2>3 DEF Steer, AccountedInv, TypeOK
    <2>6. Steers(t, X)
      BY <2>3, <2>4, <2>5 DEF Steers
    <2> QED  BY <2>3, <2>6 DEF FilesStep
  <1>3. ASSUME Decline(w) PROVE FilesStep
    <2>1. PICK M \in SUBSET Message : M = act[w].batch
      BY PickupTypes
    <2>2. Staged(w) /\ M # {} /\ \A m \in M : msg[m].kind # "resume"
      BY <1>3, <2>1 DEF Decline, Staged, AccountedInv, StageIsOnDisk, StageOf
    <2>3. \A m \in M : inbox[m] = "pending"
      BY <2>1, <2>2 DEF ProcessInv, LooseIsFree, Loose
    <2>4. Declines(M)
      BY <1>3, <2>1, <2>2, <2>3 DEF Decline, Declines
    <2> QED  BY <2>4 DEF FilesStep
  <1>4. ASSUME NEW t \in Turn, RecordOpening(w, t) PROVE FilesStep
    <2>1. Opens(t)
      BY <1>4 DEF RecordOpening, Opens, Fresh, Begun, AccountedInv, TypeOK
    <2> QED  BY <2>1 DEF FilesStep
  <1>5. ASSUME SetupFails(w) \/ OnReadyFails(w) PROVE FilesStep
    BY <1>5 DEF SetupFails, OnReadyFails, durable, Rests, FilesStep
  <1>6. ASSUME Begin(w) PROVE FilesStep
    BY <1>6, BeginMeans DEF FilesStep, Begin
  <1>7. ASSUME NEW m \in Message, Acknowledge(w, m) PROVE FilesStep
    <2>1. PICK t : t = act[w].turn
      OBVIOUS
    <2>2. InTurn(w) /\ t \in Turn /\ t \in Open /\ m \in Held(t)
      BY <1>7, <2>1, PickupTypes DEF Acknowledge, ProcessInv, RunningIsOpen,
         Runs, InTurn, AccountedInv, StageIsOnDisk, StageOf
    <2>3. CASE inbox[m] = "pending"
      <3>1. Takes(m, t)
        BY <1>7, <2>2, <2>3 DEF Acknowledge, Takes
      <3> QED  BY <2>2, <3>1 DEF FilesStep
    <2>4. CASE inbox[m] # "pending"
      <3>1. inbox[m] = "started"
        BY <1>7, <2>4 DEF Acknowledge, AccountedInv, TypeOK, BatchIsAdmitted
      <3>2. inbox' = inbox
        BY <1>7, <3>1 DEF Acknowledge, AccountedInv, TypeOK
      <3> QED  BY <1>7, <3>2 DEF Acknowledge, Rests, FilesStep
    <2> QED  BY <2>3, <2>4
  <1>8. ASSUME NEW how \in TurnEnd, SteeringFails(w) \/ Finish(w, how)
        PROVE  FilesStep
    <2>1. PICK t : t = act[w].turn
      OBVIOUS
    <2>2. t \in Turn /\ t \in Open
      BY <1>8, <2>1, PickupTypes
      DEF SteeringFails, Finish, ProcessInv, RunningIsOpen, Runs, InTurn
    <2>3. PICK h \in TurnEnd : turn' = EndRecord(t, h)
      BY <1>8, <2>1 DEF SteeringFails, Finish, EndTurn, TurnEnd
    <2>4. h \in How \ {"none", "open"}
      BY DEF How, TurnEnd
    <2>5. Ends(t, h)
      BY <1>8, <2>2, <2>3, <2>4 DEF SteeringFails, Finish, Ends
    <2> QED  BY <2>2, <2>4, <2>5 DEF FilesStep
  <1>9. ASSUME NEW asks \in BOOLEAN, ToolCall(w, asks) PROVE FilesStep
    BY <1>9 DEF ToolCall, Rests, FilesStep
  <1>10. "done" \in TurnEnd
    BY DEF TurnEnd
  <1> QED  BY <1>1, <1>2, <1>3, <1>4, <1>5, <1>6, <1>7, <1>8, <1>9, <1>10
           DEF TurnStep

\* The steps of resumeInterrupted() and of an approval.
LEMMA ResumeFiles ==
  ASSUME PickupInv, NEW t \in Turn, ResumeStep(t)
  PROVE  FilesStep
  <1> USE DEF PickupInv
  <1> AccountedInv /\ ProcessInv
    BY DEF LineageInv
  <1>1. ASSUME SkipTurn(t) \/ Park(t) PROVE FilesStep
    BY <1>1 DEF SkipTurn, Park, durable, Rests, FilesStep
  <1>2. ASSUME Abandon(t) PROVE FilesStep
    <2>1. PICK how \in HostEnd : how = Disposition(t)
      BY <1>2 DEF Abandon
    <2>2. how \in How \ {"none", "open"}
      BY DEF How, HostEnd
    <2>3. t \in Open
      BY <1>2 DEF Abandon, ResumeNext, ProcessInv, SweptIsOpen
    <2>4. Ends(t, how)
      BY <1>2, <2>1, <2>2, <2>3 DEF Abandon, Ends
    <2> QED  BY <2>2, <2>4 DEF FilesStep
  <1>3. ASSUME NEW m \in Message, ResumeTurn(t, m) PROVE FilesStep
    <2>1. /\ PickUp(t, m, NextAttempt(t))
          /\ UNCHANGED <<turn, opening, steered, declined, alive, act>>
          /\ Disposition(t) = "pick-up"
      BY <1>3 DEF ResumeTurn
    <2>2. NextAttempt(t) \in 0..MaxResumes
      BY <2>1, NextAttemptType, DispositionMeans DEF AccountedInv
    <2>3. t \in Open
      BY <1>3 DEF ResumeTurn, ResumeNext, ProcessInv, SweptIsOpen
    <2> QED  BY <2>1, <2>2, <2>3, PickUpAdmits
  <1>4. ASSUME NEW m \in Message, AnswerApproval(t, m) PROVE FilesStep
    <2>1. UNCHANGED <<turn, opening, steered, declined, alive, act>>
      BY <1>4 DEF AnswerApproval
    <2>2. ASSUME UNCHANGED <<inbox, msg>> PROVE FilesStep
      BY <2>1, <2>2 DEF Rests, FilesStep
    <2>3. ASSUME NEW p \in parked, p[1] = t, PickUp(t, m, p[2]) PROVE FilesStep
      <3>1. t \in Open /\ p[2] \in 0..MaxResumes
        BY <2>3 DEF ProcessInv, ParkedIsOpen, MayPark, AccountedInv, TypeOK
      <3> QED  BY <2>1, <2>3, <3>1, PickUpAdmits
    <2> QED  BY <1>4, <2>2, <2>3 DEF AnswerApproval
  <1> QED  BY <1>1, <1>2, <1>3, <1>4 DEF ResumeStep

\* Every step, when the startup sweeps have nothing to deliver.
LEMMA StepFiles ==
  ASSUME ~StartupNotes, PickupInv, [Next]_vars
  PROVE  FilesStep
  <1> USE DEF PickupInv
  <1> AccountedInv /\ ProcessInv
    BY DEF LineageInv
  <1>1. ASSUME NEW m \in Message, NEW w \in Worker, NEW kind \in Kind,
               Admit(m, w, kind) \/ StartupNote(m, w, kind)
        PROVE  FilesStep
    <2>1. /\ w \in Worker \cup {None} /\ NoMarker \in Marker
          /\ kind # "resume"
      BY <1>1, NoMarkerType DEF Admit, StartupNote
    <2>2. Admits(m, w, kind, NoMarker)
      BY <1>1, <2>1 DEF Admit, StartupNote, Admits
    <2> QED  BY <2>1, <2>2 DEF FilesStep
  <1>2. ASSUME NEW w \in Worker, TurnStep(w) PROVE FilesStep
    BY <1>2, TurnFiles
  <1>3. ASSUME NEW t \in Turn, ResumeStep(t) PROVE FilesStep
    BY <1>3, ResumeFiles
  <1>4. ASSUME NEW m \in Message, Reconcile(m) PROVE FilesStep
    <2>1. PICK t \in Open : m \in OwnedBy(t)
      BY <1>4 DEF Reconcile, Reconcilable
    <2>2. t \in Turn /\ m \in Held(t)
      BY <2>1, PickupTypes DEF OwnedBy, Held
    <2>3. Takes(m, t)
      BY <1>4, <2>1, <2>2 DEF Reconcile, Reconcilable, Takes
    <2> QED  BY <2>2, <2>3 DEF FilesStep
  <1>5. ASSUME NEW S \in SUBSET Turn, NoteCleanShutdown(S) PROVE FilesStep
    <2>1. \A t \in Turn : turn[t] \in TurnRecord
      BY DEF AccountedInv, TypeOK
    <2>2. \A t \in Turn : /\ turn'[t].how = turn[t].how
                         /\ turn'[t].causedBy = turn[t].causedBy
                         /\ turn'[t].work = turn[t].work
      BY <1>5, <2>1 DEF NoteCleanShutdown, TurnRecord
    <2> QED  BY <1>5, <2>2 DEF NoteCleanShutdown, Rests, FilesStep
  <1>6. ASSUME Relinquish PROVE FilesStep
    <2>1. PICK t : t = handing.turn
      OBVIOUS
    <2>2. t \in Turn /\ t \in Open
      BY <1>6, <2>1, PickupTypes DEF Relinquish, ProcessInv, HandedIsOpen
    <2>3. PICK how \in {"continued", "resumed"} : turn' = EndRecord(t, how)
      BY <1>6, <2>1 DEF Relinquish
    <2>4. how \in How \ {"none", "open"}
      BY DEF How
    <2>5. Ends(t, how)
      BY <1>6, <2>2, <2>3, <2>4 DEF Relinquish, Ends
    <2> QED  BY <2>2, <2>4, <2>5 DEF FilesStep
  <1>7. ASSUME \/ GiveUpNote \/ Crash \/ Boot \/ Reconciled \/ Recover \/ Started
               \/ \E w \in Worker : SwitchContext(w)
               \/ \E a \in Agent : RemoveAgent(a)
               \/ UNCHANGED vars
        PROVE  FilesStep
    <2>1. UNCHANGED <<inbox, msg, turn, opening, steered, declined>>
      BY <1>7 DEF GiveUpNote, Crash, Boot, Reconciled, Recover, Started,
                  SwitchContext, RemoveAgent, vars, durable, volatile
    <2> QED  BY <2>1 DEF Rests, FilesStep
  <1> QED  BY <1>1, <1>2, <1>3, <1>4, <1>5, <1>6, <1>7 DEF Next

----------------------------------------------------------------------------
(* The promise of Custody.                                                 *)

\* A wake that was turned away is not replayed.
DeclinedIsStarted == \A m \in declined : inbox[m] = "started"

\* A turn was given no continuation of other work than its own.
ContinuesOwnWork ==
    \A t \in Turn : Begun(t) => \A m \in Held(t) :
        msg[m].kind = "resume" => msg[m].marker.work = turn[t].work

PromiseInv ==
    /\ PickupInv
    /\ DeclinedIsStarted
    /\ ContinuesOwnWork

\* What each step does to them.
LEMMA PromiseKept ==
  ASSUME ~StartupNotes, PromiseInv, [Next]_vars
  PROVE  PromiseInv'
  <1> USE DEF PromiseInv
  <1> LineageInv /\ AccountedInv
    BY DEF PickupInv, LineageInv
  <1>1. PickupInv' /\ FilesStep
    BY PickupStep, StepFiles
  <1>2. \A t \in Turn : Held(t) \subseteq Message
    BY PickupTypes
  <1>3. declined \subseteq Message /\ inbox \in [Message -> {"absent", "pending", "started"}]
    BY DEF AccountedInv, TypeOK
  \* Where messages stay as they are, and no turn is given a continuation.
  <1>4. ASSUME msg' = msg,
               \A m \in Message : inbox[m] = "started" => inbox'[m] = "started",
               \A m \in declined' : m \in declined \/ inbox'[m] = "started",
               \A t \in Turn : Begun(t)' => /\ Begun(t)
                                           /\ turn'[t].work = turn[t].work,
               \A t \in Turn : Begun(t) => \A m \in Held(t)' :
                  m \in Held(t) \/ msg[m].kind # "resume"
        PROVE  DeclinedIsStarted' /\ ContinuesOwnWork'
    <2>1. DeclinedIsStarted'
      BY <1>3, <1>4 DEF DeclinedIsStarted
    <2>2. ContinuesOwnWork'
      BY <1>4 DEF ContinuesOwnWork
    <2> QED  BY <2>1, <2>2
  <1>5. ASSUME Rests PROVE DeclinedIsStarted' /\ ContinuesOwnWork'
    <2>1. \A t \in Turn : /\ Begun(t)' = Begun(t) /\ Held(t)' = Held(t)
                         /\ turn'[t].work = turn[t].work
      BY <1>5 DEF Rests, Begun, Held
    <2> QED  BY <1>4, <1>5, <2>1 DEF Rests
  <1>6. ASSUME NEW t \in Turn, NEW how \in How, Ends(t, how)
        PROVE  DeclinedIsStarted' /\ ContinuesOwnWork'
    <2>1. \A u \in Turn :
            /\ turn'[u].how = IF u = t THEN how ELSE turn[u].how
            /\ turn'[u].causedBy = turn[u].causedBy
            /\ turn'[u].work = turn[u].work
      BY <1>6, EndRecordType DEF Ends, AccountedInv
    <2>2. \A u \in Turn : /\ Begun(u)' => Begun(u)
                         /\ Held(u)' = Held(u)
                         /\ turn'[u].work = turn[u].work
      BY <1>6, <2>1 DEF Ends, Begun, Held, Open
    <2> QED  BY <1>4, <1>6, <2>2 DEF Ends
  <1>7. ASSUME NEW m \in Message, NEW w \in Worker \cup {None},
               NEW kind \in Kind, NEW k \in Marker, Admits(m, w, kind, k)
        PROVE  DeclinedIsStarted' /\ ContinuesOwnWork'
    <2>1. /\ inbox[m] = "absent"
          /\ \A n \in Message : n # m => inbox'[n] = inbox[n] /\ msg'[n] = msg[n]
          /\ \A t \in Turn : m \notin Held(t) /\ Begun(t)' = Begun(t)
                             /\ Held(t)' = Held(t)
      BY <1>7, EnqueueMeans DEF Admits
    <2>2. turn' = turn /\ declined' = declined
      BY <1>7 DEF Admits
    <2>3. DeclinedIsStarted'
      BY <1>3, <2>1, <2>2 DEF DeclinedIsStarted
    <2>4. ContinuesOwnWork'
      BY <1>2, <2>1, <2>2 DEF ContinuesOwnWork
    <2> QED  BY <2>3, <2>4
  <1>8. ASSUME NEW m \in Message, NEW t \in Turn, Takes(m, t)
        PROVE  DeclinedIsStarted' /\ ContinuesOwnWork'
    <2>1. \A u \in Turn : /\ Begun(u)' = Begun(u) /\ Held(u)' = Held(u)
                         /\ turn'[u].work = turn[u].work
      BY <1>8 DEF Takes, Begun, Held
    <2> QED  BY <1>3, <1>4, <1>8, <2>1 DEF Takes
  <1>9. ASSUME NEW M \in SUBSET Message, Declines(M)
        PROVE  DeclinedIsStarted' /\ ContinuesOwnWork'
    <2>1. \A u \in Turn : /\ Begun(u)' = Begun(u) /\ Held(u)' = Held(u)
                         /\ turn'[u].work = turn[u].work
      BY <1>9 DEF Declines, Begun, Held
    <2> QED  BY <1>3, <1>4, <1>9, <2>1 DEF Declines
  <1>10. ASSUME NEW t \in Turn, Opens(t)
         PROVE  DeclinedIsStarted' /\ ContinuesOwnWork'
    <2>1. /\ turn' = turn /\ \A u \in Turn : Begun(u)' = Begun(u)
          /\ \A u \in Turn : Begun(u) => Held(u)' = Held(u)
      BY <1>10 DEF Opens, Begun, Held
    <2> QED  BY <1>4, <1>10, <2>1 DEF Opens
  <1>11. ASSUME NEW t \in Turn, NEW X \in SUBSET Message, Steers(t, X)
         PROVE  DeclinedIsStarted' /\ ContinuesOwnWork'
    <2>1. /\ turn' = turn /\ \A u \in Turn : Begun(u)' = Begun(u)
          /\ \A u \in Turn : Held(u)' \subseteq Held(u) \cup X
          /\ \A m \in X : msg[m].kind # "resume"
      BY <1>11 DEF Steers, Begun, Held
    <2> QED  BY <1>4, <1>11, <2>1 DEF Steers
  <1>12. ASSUME declined' = declined, NEW w \in Worker, NEW t \in Turn,
                NEW b \in Turn, BeginsAt(w, t, b)
         PROVE  DeclinedIsStarted' /\ ContinuesOwnWork'
    <2>1. DeclinedIsStarted'
      BY <1>12 DEF BeginsAt, DeclinedIsStarted
    <2>2. ContinuesOwnWork'
      <3> SUFFICES ASSUME NEW u \in Turn, Begun(u)', NEW m \in Held(u)',
                          msg[m].kind = "resume"
                   PROVE  msg[m].marker.work = turn'[u].work
        BY <1>12 DEF ContinuesOwnWork, BeginsAt
      <3>1. CASE u # t
        <4>1. Begun(u) /\ m \in Held(u) /\ turn'[u].work = turn[u].work
          BY <1>12, <3>1 DEF BeginsAt, Begun, Held
        <4> QED  BY <4>1 DEF ContinuesOwnWork
      <3>2. CASE u = t /\ m \in act[w].batch
        BY <1>12, <3>2 DEF BeginsAt
      <3>3. CASE u = t /\ m \notin act[w].batch
        <4>1. m \in opening[t] \cup steered[t]
          BY <1>12, <3>3 DEF BeginsAt, Held
        <4>2. Begun(t)
          <5>1. ~Begun(t) => opening[t] = act[w].batch /\ steered[t] = {}
            BY <1>12 DEF BeginsAt, PickupInv, LedgerInv, WorkIsBegun
          <5> QED  BY <3>3, <4>1, <5>1
        <4>3. m \in Held(t)
          BY <4>1 DEF Held
        <4> QED  BY <1>12, <3>3, <4>2, <4>3 DEF BeginsAt, ContinuesOwnWork
      <3> QED  BY <3>1, <3>2, <3>3
    <2> QED  BY <2>1, <2>2
  <1>13. DeclinedIsStarted' /\ ContinuesOwnWork'
    BY <1>1, <1>5, <1>6, <1>7, <1>8, <1>9, <1>10, <1>11, <1>12 DEF FilesStep
  <1> QED  BY <1>1, <1>13

\* Some turn that was given message m is of work that goes on.
LiveHeld(m) ==
    \E t \in Turn : Begun(t) /\ m \in Held(t) /\ WorkLive(turn[t].work)

\* How custody is read, case by case.
CustodyReads ==
    \A m \in Message :
        /\ inbox[m] = "absent" \/ msg[m].kind = "resume" =>
             custodyOf[m] = "unsent"
        /\ msg[m].kind # "resume" =>
             /\ inbox[m] = "pending" => custodyOf[m] = "accepted"
             /\ inbox[m] = "started" /\ m \in declined =>
                  custodyOf[m] = "declined"
             /\ inbox[m] = "started" /\ m \notin declined /\ LiveHeld(m) =>
                  custodyOf[m] = "held"
             /\ inbox[m] = "started" /\ m \notin declined /\ ~LiveHeld(m) =>
                  custodyOf[m] = "settled"

LEMMA CustodyReading == CustodyReads /\ CustodyReads'
  <1>1. CustodyReads
    BY DEF CustodyReads, custodyOf, LiveHeld
  <1>2. CustodyReads'
    BY DEF CustodyReads, custodyOf, LiveHeld
  <1> QED  BY <1>1, <1>2

\* A step that leaves the custody of every message alone stutters.
LEMMA CustodyStands ==
  ASSUME \A m \in Message : custodyOf'[m] = custodyOf[m]
  PROVE  UNCHANGED custodyOf
  BY DEF custodyOf

\* A step that moves the custody of the messages of S alone moves S.
LEMMA CustodyMoves ==
  ASSUME NEW S \in SUBSET Message, S # {}, NEW from, NEW to,
         \A m \in S : custodyOf[m] = from /\ custodyOf'[m] = to,
         \A m \in Message \ S : custodyOf'[m] = custodyOf[m]
  PROVE  Promise!Move(S, from, to)
  <1>1. custodyOf' = [m \in Message |-> IF m \in S THEN to ELSE custodyOf[m]]
    BY DEF custodyOf
  <1> QED  BY <1>1 DEF Promise!Move

\* A message whose entries in the inbox stay as they are stays where it is
\* while the work it was given to goes on as before.
LEMMA CustodyOfTaken ==
  ASSUME TypeOK, NEW m \in Message, inbox'[m] = inbox[m], msg'[m] = msg[m],
         m \in declined' <=> m \in declined,
         inbox[m] = "started" /\ msg[m].kind # "resume" =>
            (LiveHeld(m)' <=> LiveHeld(m))
  PROVE  custodyOf'[m] = custodyOf[m]
  <1>1. inbox[m] \in {"absent", "pending", "started"}
    BY DEF TypeOK
  <1>2. CASE inbox[m] = "absent" \/ msg[m].kind = "resume" \/ inbox[m] = "pending"
    BY <1>2, CustodyReading DEF CustodyReads
  <1>3. CASE inbox[m] = "started" /\ msg[m].kind # "resume" /\ m \in declined
    BY <1>3, CustodyReading DEF CustodyReads
  <1>4. CASE inbox[m] = "started" /\ msg[m].kind # "resume" /\ m \notin declined
    <2>1. CASE LiveHeld(m)
      BY <1>4, <2>1, CustodyReading DEF CustodyReads
    <2>2. CASE ~LiveHeld(m)
      BY <1>4, <2>2, CustodyReading DEF CustodyReads
    <2> QED  BY <2>1, <2>2
  <1> QED  BY <1>1, <1>2, <1>3, <1>4

\* A begin takes nothing from the turns that were given a message, and the
\* work it continues went on before.
LEMMA BeginStutters ==
  ASSUME PromiseInv, NEW w \in Worker, NEW t \in Turn, NEW b \in Turn,
         BeginsAt(w, t, b), declined' = declined
  PROVE  UNCHANGED custodyOf
  <1> LineageInv /\ AccountedInv /\ LedgerInv /\ ProcessInv /\ TypeOK
    BY DEF PromiseInv, PickupInv, LineageInv, AccountedInv
  <1>1. inbox' = inbox /\ msg' = msg /\ opening' = opening /\ steered' = steered
    BY DEF BeginsAt
  <1>2. \A m \in act[w].batch : m \in Message /\ inbox[m] = "pending"
    <2>1. \A m \in act[w].batch : m \in Message /\ Loose(m)
      BY PickupTypes DEF BeginsAt, Loose
    <2> QED  BY <2>1 DEF ProcessInv, LooseIsFree
  <1>3. /\ Begun(t)' /\ t \in Open' /\ turn'[t].work = b
        /\ \A u \in Turn \ {t} : /\ Begun(u)' = Begun(u) /\ Held(u)' = Held(u)
                                 /\ turn'[u].work = turn[u].work
        /\ Begun(t) => turn[t].work = b
        /\ ~Begun(t) => Held(t)' \subseteq act[w].batch
        /\ Held(t)' \subseteq act[w].batch \cup Held(t)
        /\ opening[t] \cup steered[t] \subseteq Held(t)'
    <2>1. ~Begun(t) => steered[t] = {}
      BY DEF LedgerInv, WorkIsBegun
    <2> QED  BY <1>1, <2>1 DEF BeginsAt, Begun, Held, Open
  <1>4. \A k : k # b => (WorkLive(k)' <=> WorkLive(k))
    <2>1. \A u \in Turn \ {t} : turn[u].work # b => turn'[u].how = turn[u].how
      BY DEF BeginsAt
    <2>2. t \in Open => turn[t].work = b
      BY <1>3, PickupTypes
    <2>3. \A k : k # b => \A u \in Turn :
             u \in Open' /\ turn'[u].work = k <=> u \in Open /\ turn[u].work = k
      BY <1>3, <2>1, <2>2 DEF Open
    <2>4. \A u : (u \in Open => u \in Turn) /\ (u \in Open' => u \in Turn)
      BY DEF Open
    <2> QED  BY <1>1, <2>3, <2>4 DEF WorkLive
  <1>5. WorkLive(b)'
    BY <1>3 DEF WorkLive
  <1>6. (\E u \in Turn : Begun(u) /\ turn[u].work = b) => WorkLive(b)
    <2>1. CASE b = t /\ ~Begun(t)
      BY <2>1 DEF LedgerInv, WorkIsBegun
    <2>2. CASE \E m \in act[w].batch : msg[m].kind = "resume"
      BY <1>2, <2>2 DEF BeginsAt, WorkLive
    <2> QED  BY <2>1, <2>2 DEF BeginsAt
  <1>7. ASSUME NEW m \in Message, inbox[m] = "started", msg[m].kind # "resume"
        PROVE  LiveHeld(m)' <=> LiveHeld(m)
    <2>1. ASSUME LiveHeld(m)' PROVE LiveHeld(m)
      <3>1. PICK u \in Turn : Begun(u)' /\ m \in Held(u)' /\ WorkLive(turn[u].work)'
        BY <2>1 DEF LiveHeld
      <3>2. m \notin act[w].batch
        BY <1>2, <1>7
      <3>3. Begun(u) /\ m \in Held(u) /\ turn'[u].work = turn[u].work
        BY <1>3, <3>1, <3>2
      <3>4. WorkLive(turn[u].work)
        BY <1>4, <1>6, <3>1, <3>3
      <3> QED  BY <3>3, <3>4 DEF LiveHeld
    <2>2. ASSUME LiveHeld(m) PROVE LiveHeld(m)'
      <3>1. PICK u \in Turn : Begun(u) /\ m \in Held(u) /\ WorkLive(turn[u].work)
        BY <2>2 DEF LiveHeld
      <3>2. m \in Held(u)'
        <4>1. u = t => m \in opening[t] \cup steered[t]
          BY <1>7, <3>1 DEF AccountedInv, OpeningOutlivesBegin, Held
        <4> QED  BY <1>3, <3>1, <4>1
      <3>3. Begun(u)' /\ turn'[u].work = turn[u].work
        BY <1>3, <3>1
      <3>4. WorkLive(turn[u].work)'
        BY <1>4, <1>5, <3>1, <3>3
      <3> QED  BY <3>2, <3>3, <3>4 DEF LiveHeld
    <2> QED  BY <2>1, <2>2
  <1>8. \A m \in Message : custodyOf'[m] = custodyOf[m]
    BY <1>1, <1>7, CustodyOfTaken
  <1> QED  BY <1>8, CustodyStands

\* Where no file but the inbox and its messages changes, only what is live
\* can move what was taken.
LEMMA LiveHeldStays ==
  ASSUME UNCHANGED <<turn, opening, steered>>, NEW m \in Message,
         \A t \in Open : t \in Turn,
         \A n \in Message :
            (inbox'[n] = "pending" /\ msg'[n].kind = "resume") =>
               \/ inbox[n] = "pending" /\ msg[n] = msg'[n]
               \/ \E t \in Open : turn[t].work = msg'[n].marker.work,
         \A n \in Message :
            (inbox[n] = "pending" /\ msg[n].kind = "resume") =>
               \/ inbox'[n] = "pending" /\ msg[n] = msg'[n]
               \/ \E t \in Open : turn[t].work = msg[n].marker.work
  PROVE  LiveHeld(m)' <=> LiveHeld(m)
  <1>1. turn' = turn /\ Open' = Open
    BY DEF Open
  <1>2. \A t \in Turn : Begun(t)' = Begun(t) /\ Held(t)' = Held(t)
    BY <1>1 DEF Begun, Held
  <1>3. ASSUME NEW k PROVE WorkLive(k)' <=> WorkLive(k)
    BY <1>1 DEF WorkLive
  <1>4. LiveHeld(m)' => LiveHeld(m)
    BY <1>1, <1>2, <1>3 DEF LiveHeld
  <1>5. LiveHeld(m) => LiveHeld(m)'
    BY <1>1, <1>2, <1>3 DEF LiveHeld
  <1> QED  BY <1>4, <1>5

\* What each step does to the custody of all messages.
LEMMA PromiseStep ==
  ASSUME ~StartupNotes, PromiseInv, [Next]_vars
  PROVE  [Promise!CNext]_custodyOf
  <1> SUFFICES Promise!CNext \/ UNCHANGED custodyOf
    OBVIOUS
  <1> LineageInv /\ AccountedInv /\ PickupInv /\ TypeOK
    BY DEF PromiseInv, PickupInv, LineageInv, AccountedInv
  <1>1. FilesStep
    BY StepFiles
  <1>2. \A t \in Open : t \in Turn
    BY DEF Open
  <1>3. ASSUME Rests PROVE UNCHANGED custodyOf
    <2>1. /\ Open' = Open /\ \A t \in Turn : turn'[t].work = turn[t].work
          /\ \A t \in Turn : Begun(t)' = Begun(t) /\ Held(t)' = Held(t)
      BY <1>3 DEF Rests, Open, Begun, Held
    <2>2. ASSUME NEW k PROVE WorkLive(k)' <=> WorkLive(k)
      BY <1>2, <1>3, <2>1 DEF Rests, WorkLive
    <2>3. ASSUME NEW m \in Message PROVE LiveHeld(m)' <=> LiveHeld(m)
      BY <2>1, <2>2 DEF LiveHeld
    <2>4. \A m \in Message : custodyOf'[m] = custodyOf[m]
      BY <1>3, <2>3, CustodyOfTaken DEF Rests
    <2> QED  BY <2>4, CustodyStands
  <1>4. ASSUME NEW t \in Turn, NEW how \in How, Ends(t, how)
        PROVE  Promise!CNext \/ UNCHANGED custodyOf
    <2>1. \A u \in Turn :
            /\ turn'[u].how = IF u = t THEN how ELSE turn[u].how
            /\ turn'[u].causedBy = turn[u].causedBy
            /\ turn'[u].work = turn[u].work
      BY <1>4, EndRecordType DEF Ends
    <2>2. /\ \A u \in Turn : Begun(u)' = Begun(u) /\ Held(u)' = Held(u)
          /\ Open' = Open \ {t}
      BY <1>4, <2>1 DEF Ends, Begun, Held, Open
    <2>3. ASSUME NEW k, WorkLive(k)' PROVE WorkLive(k)
      BY <1>2, <1>4, <2>1, <2>2, <2>3 DEF Ends, WorkLive
    <2>4. ASSUME NEW m \in Message, LiveHeld(m)' PROVE LiveHeld(m)
      BY <2>1, <2>2, <2>3, <2>4 DEF LiveHeld
    <2>5. PICK S \in SUBSET Message :
            S = {m \in Message : /\ inbox[m] = "started" /\ msg[m].kind # "resume"
                                 /\ m \notin declined
                                 /\ LiveHeld(m) /\ ~LiveHeld(m)'}
      OBVIOUS
    <2>6. \A m \in S : custodyOf[m] = "held" /\ custodyOf'[m] = "settled"
      BY <1>4, <2>5, CustodyReading DEF CustodyReads, Ends
    <2>7. ASSUME NEW m \in Message \ S PROVE custodyOf'[m] = custodyOf[m]
      <3>1. CASE inbox[m] = "started" /\ msg[m].kind # "resume" /\ m \in declined
        BY <1>4, <3>1, CustodyReading DEF CustodyReads, Ends
      <3>2. CASE ~(inbox[m] = "started" /\ msg[m].kind # "resume" /\ m \in declined)
        <4>1. inbox[m] = "started" /\ msg[m].kind # "resume" =>
                 (LiveHeld(m)' <=> LiveHeld(m))
          BY <2>4, <2>5, <2>7, <3>2
        <4> QED  BY <1>4, <4>1, CustodyOfTaken DEF Ends
      <3> QED  BY <3>1, <3>2
    <2>8. CASE S = {}
      BY <2>7, <2>8, CustodyStands
    <2>9. CASE S # {}
      <3>1. Promise!Move(S, "held", "settled")
        BY <2>6, <2>7, <2>9, CustodyMoves
      <3> QED  BY <3>1 DEF Promise!CNext, Promise!Settle
    <2> QED  BY <2>8, <2>9
  <1>5. ASSUME NEW m \in Message, NEW w \in Worker \cup {None},
               NEW kind \in Kind, NEW k \in Marker, Admits(m, w, kind, k)
        PROVE  Promise!CNext \/ UNCHANGED custodyOf
    <2>1. /\ inbox[m] = "absent" /\ inbox'[m] = "pending"
          /\ msg'[m].kind = kind /\ msg'[m].marker = k
          /\ \A n \in Message : n # m => inbox'[n] = inbox[n] /\ msg'[n] = msg[n]
      BY <1>5, EnqueueMeans DEF Admits
    <2>2. \A n \in Message :
            (inbox'[n] = "pending" /\ msg'[n].kind = "resume") =>
               \/ inbox[n] = "pending" /\ msg[n] = msg'[n]
               \/ \E t \in Open : turn[t].work = msg'[n].marker.work
      BY <1>5, <2>1 DEF Admits
    <2>3. \A n \in Message :
            (inbox[n] = "pending" /\ msg[n].kind = "resume") =>
               inbox'[n] = "pending" /\ msg[n] = msg'[n]
      BY <2>1
    <2>4. UNCHANGED <<turn, opening, steered, declined>>
      BY <1>5 DEF Admits
    <2>5. ASSUME NEW n \in Message PROVE LiveHeld(n)' <=> LiveHeld(n)
      BY <1>2, <2>2, <2>3, <2>4, LiveHeldStays
    <2>6. ASSUME NEW n \in Message, n # m PROVE custodyOf'[n] = custodyOf[n]
      BY <2>1, <2>4, <2>5, <2>6, CustodyOfTaken
    <2>7. custodyOf[m] = "unsent"
      BY <2>1, CustodyReading DEF CustodyReads
    <2>8. CASE kind = "resume"
      <3>1. custodyOf'[m] = "unsent"
        BY <2>1, <2>8, CustodyReading DEF CustodyReads
      <3> QED  BY <2>6, <2>7, <3>1, CustodyStands
    <2>9. CASE kind # "resume"
      <3>1. custodyOf'[m] = "accepted"
        BY <2>1, <2>9, CustodyReading DEF CustodyReads
      <3>2. PICK S \in SUBSET Message : S = {m}
        OBVIOUS
      <3>3. Promise!Move(S, "unsent", "accepted")
        BY <2>6, <2>7, <3>1, <3>2, CustodyMoves
      <3> QED  BY <3>3 DEF Promise!CNext, Promise!Accept
    <2> QED  BY <2>8, <2>9
  <1>6. ASSUME NEW m \in Message, NEW t \in Turn, Takes(m, t)
        PROVE  Promise!CNext \/ UNCHANGED custodyOf
    <2>1. /\ t \in Open /\ Begun(t) /\ m \in Held(t) /\ inbox[m] = "pending"
          /\ inbox'[m] = "started"
          /\ \A n \in Message : n # m => inbox'[n] = inbox[n]
          /\ UNCHANGED <<msg, turn, opening, steered, declined>>
      BY <1>6 DEF Takes, Open, Begun, TypeOK
    <2>2. msg[m].kind = "resume" => turn[t].work = msg[m].marker.work
      BY <2>1 DEF PromiseInv, ContinuesOwnWork
    <2>3. \A n \in Message :
            (inbox'[n] = "pending" /\ msg'[n].kind = "resume") =>
               inbox[n] = "pending" /\ msg[n] = msg'[n]
      BY <2>1
    <2>4. \A n \in Message :
            (inbox[n] = "pending" /\ msg[n].kind = "resume") =>
               \/ inbox'[n] = "pending" /\ msg[n] = msg'[n]
               \/ \E u \in Open : turn[u].work = msg[n].marker.work
      BY <2>1, <2>2
    <2>5. ASSUME NEW n \in Message PROVE LiveHeld(n)' <=> LiveHeld(n)
      BY <1>2, <2>1, <2>3, <2>4, LiveHeldStays
    <2>6. ASSUME NEW n \in Message, n # m PROVE custodyOf'[n] = custodyOf[n]
      BY <2>1, <2>5, <2>6, CustodyOfTaken
    <2>7. CASE msg[m].kind = "resume"
      <3>1. custodyOf[m] = "unsent" /\ custodyOf'[m] = "unsent"
        BY <2>1, <2>7, CustodyReading DEF CustodyReads
      <3> QED  BY <2>6, <3>1, CustodyStands
    <2>8. CASE msg[m].kind # "resume"
      <3>1. LiveHeld(m)'
        <4>1. LiveHeld(m)
          BY <2>1 DEF LiveHeld, WorkLive
        <4> QED  BY <2>5, <4>1
      <3>2. m \notin declined'
        BY <2>1 DEF PromiseInv, DeclinedIsStarted
      <3>3. custodyOf[m] = "accepted"
        BY <2>1, <2>8, CustodyReading DEF CustodyReads
      <3>4. custodyOf'[m] = "held"
        BY <2>1, <2>8, <3>1, <3>2, CustodyReading DEF CustodyReads
      <3>5. PICK S \in SUBSET Message : S = {m}
        OBVIOUS
      <3>6. Promise!Move(S, "accepted", "held")
        BY <2>6, <3>3, <3>4, <3>5, CustodyMoves
      <3> QED  BY <3>6 DEF Promise!CNext, Promise!Take
    <2> QED  BY <2>7, <2>8
  <1>7. ASSUME NEW M \in SUBSET Message, Declines(M)
        PROVE  Promise!CNext \/ UNCHANGED custodyOf
    <2>1. /\ M # {}
          /\ \A m \in M : /\ inbox[m] = "pending" /\ inbox'[m] = "started"
                          /\ msg[m].kind # "resume" /\ m \in declined'
          /\ \A m \in Message \ M : /\ inbox'[m] = inbox[m]
                                    /\ m \in declined' <=> m \in declined
          /\ UNCHANGED <<msg, turn, opening, steered>>
      BY <1>7 DEF Declines
    <2>2. \A n \in Message :
            (inbox'[n] = "pending" /\ msg'[n].kind = "resume") =>
               inbox[n] = "pending" /\ msg[n] = msg'[n]
      BY <2>1
    <2>3. \A n \in Message :
            (inbox[n] = "pending" /\ msg[n].kind = "resume") =>
               inbox'[n] = "pending" /\ msg[n] = msg'[n]
      BY <2>1
    <2>4. ASSUME NEW n \in Message PROVE LiveHeld(n)' <=> LiveHeld(n)
      BY <1>2, <2>1, <2>2, <2>3, LiveHeldStays
    <2>5. ASSUME NEW n \in Message \ M PROVE custodyOf'[n] = custodyOf[n]
      BY <2>1, <2>4, CustodyOfTaken
    <2>6. \A m \in M : custodyOf[m] = "accepted" /\ custodyOf'[m] = "declined"
      BY <2>1, CustodyReading DEF CustodyReads
    <2>7. Promise!Move(M, "accepted", "declined")
      BY <2>1, <2>5, <2>6, CustodyMoves
    <2> QED  BY <2>7 DEF Promise!CNext, Promise!Refuse
  <1>8. ASSUME NEW t \in Turn, Opens(t) PROVE UNCHANGED custodyOf
    <2>1. /\ turn' = turn /\ inbox' = inbox /\ msg' = msg /\ declined' = declined
          /\ Open' = Open /\ \A u \in Turn : Begun(u)' = Begun(u)
          /\ \A u \in Turn : Begun(u) => Held(u)' = Held(u)
      BY <1>8 DEF Opens, Open, Begun, Held
    <2>2. ASSUME NEW k PROVE WorkLive(k)' <=> WorkLive(k)
      BY <2>1 DEF WorkLive
    <2>3. ASSUME NEW m \in Message PROVE LiveHeld(m)' <=> LiveHeld(m)
      BY <2>1, <2>2 DEF LiveHeld
    <2>4. \A m \in Message : custodyOf'[m] = custodyOf[m]
      BY <2>1, <2>3, CustodyOfTaken
    <2> QED  BY <2>4, CustodyStands
  <1>9. ASSUME NEW t \in Turn, NEW X \in SUBSET Message, Steers(t, X)
        PROVE  UNCHANGED custodyOf
    <2>1. /\ turn' = turn /\ inbox' = inbox /\ msg' = msg /\ declined' = declined
          /\ Open' = Open /\ \A u \in Turn : Begun(u)' = Begun(u)
          /\ \A u \in Turn : \A m \in Message : inbox[m] = "started" =>
               (m \in Held(u)' <=> m \in Held(u))
      BY <1>9 DEF Steers, Open, Begun, Held
    <2>2. ASSUME NEW k PROVE WorkLive(k)' <=> WorkLive(k)
      BY <2>1 DEF WorkLive
    <2>3. ASSUME NEW m \in Message, inbox[m] = "started"
          PROVE  LiveHeld(m)' <=> LiveHeld(m)
      BY <2>1, <2>2, <2>3 DEF LiveHeld
    <2>4. \A m \in Message : custodyOf'[m] = custodyOf[m]
      BY <2>1, <2>3, CustodyOfTaken
    <2> QED  BY <2>4, CustodyStands
  <1>10. ASSUME declined' = declined, NEW w \in Worker, NEW t \in Turn,
                NEW b \in Turn, BeginsAt(w, t, b)
         PROVE  UNCHANGED custodyOf
    BY <1>10, BeginStutters
  <1> QED  BY <1>1, <1>3, <1>4, <1>5, <1>6, <1>7, <1>8, <1>9, <1>10
           DEF FilesStep

\* The invariant that the refinement rests on.
THEOREM PromiseInvariant ==
  ASSUME ~StartupNotes PROVE Spec => []PromiseInv
  <1>1. Init => DeclinedIsStarted /\ ContinuesOwnWork
    BY DEF Init, DeclinedIsStarted, ContinuesOwnWork, Begun, NoTurn
  <1>2. Init => PromiseInv
    BY <1>1, LineageInit, PickupInit DEF PromiseInv, PickupInv, LineageInv
  <1>3. PromiseInv /\ [Next]_vars => PromiseInv'
    BY PromiseKept
  <1> QED  BY <1>2, <1>3, PTL DEF Spec

\* TurnCustody implements Custody: wherever the process dies, every message
\* it acknowledged is accepted, then held, then settled, in this order, once.
THEOREM PromiseIsKept ==
  ASSUME ~StartupNotes PROVE Spec => KeepsPromise
  <1>1. Init => Promise!CInit
    BY DEF Init, Promise!CInit, custodyOf
  <1>2. PromiseInv /\ [Next]_vars => [Promise!CNext]_custodyOf
    BY PromiseStep
  <1> QED  BY <1>1, <1>2, PromiseInvariant, PTL
           DEF Spec, KeepsPromise, Promise!CSpec
=============================================================================
