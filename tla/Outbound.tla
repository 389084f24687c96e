-------------------------------- MODULE Outbound --------------------------------
(***************************************************************************)
(* What the host sends into one chat, and the ledgers that let it be sent  *)
(* after a crash:                                                          *)
(*                                                                         *)
(*   outbox.jsonl         a receipt per message, sent through the chat's   *)
(*                        chain and tried again (outbox.ts,                *)
(*                        outbox-sender.ts);                               *)
(*   deliveries.jsonl     the answers owed to people, which a sweep hands  *)
(*                        over when the request that asked is gone         *)
(*                        (deliveries.ts, server.ts);                      *)
(*   outbox-drafts.jsonl  an agent's drafts, sent once a person approved   *)
(*                        them (outbox-drafts.ts).                         *)
(*                                                                         *)
(* A message is a notice, an answer or a draft.  Its receipt's id is the   *)
(* same for the same words, so a message here is its id.  The chains of    *)
(* two chats share nothing but the file.  Times are left out: a backoff is *)
(* a chain that has not called the door again.  How a turn survives a      *)
(* crash is TurnCustody's.                                                 *)
(***************************************************************************)
EXTENDS Naturals, FiniteSets, Sequences

CONSTANTS
    Msg,
    Mixes,        \* what the messages may be: a set of functions of Msg
    MaxAttempts,  \* OUTBOX_MAX_ATTEMPTS
    CompactAt,    \* COMPACT_AT of the outbox
    MaxPushes,    \* bound: times the same notice is pushed
    MaxRetries,   \* bound: a person's Retry
    MaxCrashes,   \* bound: crashes
    MaxLost,      \* bound: appends that fail
    MaxLate       \* bound: sends that reach the chat and are answered by an error

ASSUME OutboundConstants ==
    /\ IsFiniteSet(Msg)
    /\ Mixes \subseteq [Msg -> {"notice", "answer", "draft", "none"}]
    /\ MaxAttempts \in Nat \ {0} /\ CompactAt \in Nat \ {0}
    /\ {MaxPushes, MaxRetries, MaxCrashes, MaxLost, MaxLate} \subseteq Nat

VARIABLES
    kind,      \* what a message is
    log,       \* disk: the ids in outbox.jsonl, oldest first
    receipt,   \* disk: the receipt's status
    fails,     \* disk: its failed tries
    issue,     \* disk: the exception list holds an open failure of the chat
    owed,      \* disk: deliveries.jsonl
    turn,      \* disk: the turn that writes an answer
    draft,     \* disk: outbox-drafts.jsonl
    consent,   \* disk: the consent record of a draft
    chain,     \* memory: the chat's chain, the head is being tried
    calling,   \* memory: the head waits for the door
    retries,   \* memory: what a person's Retry has left to try
    settled,   \* memory: receipts settled since the last compaction
    live,      \* memory: the request that waits for an answer
    handed,    \* memory: answers whose push has come back to the sweep
    hand,      \* memory: where the code is with a draft's answer
    up,        \* the process runs
    door,      \* the chat's channel is configured
    went,      \* history: times the words reached the chat under the receipt, to 2
    first,     \* history: the first answer a person gave on a draft
    pushed, retried, crashes, lost, late

outbox == <<log, receipt, fails, issue>>
sender == <<chain, calling, retries, settled>>
answers == <<owed, turn, live, handed>>
drafts == <<draft, consent, hand, first>>
world == <<kind, up, door, went>>
bounds == <<pushed, retried, crashes, lost, late>>
vars == <<outbox, sender, answers, drafts, world, bounds>>

Put(f, m, v) == [f EXCEPT ![m] = v]
Of(k) == {m \in Msg : kind[m] = k}
Pending(m) == receipt[m] = "pending"
Lose(n) == lost + n <= MaxLost /\ lost' = lost + n
Missed(ok) == IF ok THEN 0 ELSE 1

\* What of s is in S, in the order of s (a SelectSeq that proofs can expand).
Places(s, S) == {i \in DOMAIN s : s[i] \in S}
Nth(P, k) == CHOOSE i \in P : Cardinality({j \in P : j <= i}) = k
Only(s, S) == LET P == Places(s, S) IN [k \in 1..Cardinality(P) |-> s[Nth(P, k)]]

Init ==
    /\ kind \in Mixes
    /\ log = <<>> /\ receipt = [m \in Msg |-> "none"] /\ fails = [m \in Msg |-> 0]
    /\ issue = FALSE
    /\ owed = [m \in Msg |-> "none"] /\ turn = [m \in Msg |-> "none"]
    /\ draft = [m \in Msg |-> "none"] /\ consent = [m \in Msg |-> "none"]
    /\ chain = <<>> /\ calling = "no" /\ retries = <<>> /\ settled = 0
    /\ live = [m \in Msg |-> "none"] /\ handed = {} /\ hand = [m \in Msg |-> "idle"]
    /\ up = TRUE /\ door = TRUE
    /\ went = [m \in Msg |-> 0]
    /\ first = [m \in Msg |-> "none"]
    /\ pushed = 0 /\ retried = 0 /\ crashes = 0 /\ lost = 0 /\ late = 0

----------------------------------------------------------------------------
(* Receipts and the chain.                                                 *)

Job(m, tried, once, by) == [msg |-> m, tried |-> tried, once |-> once, by |-> by]

\* Variant: only a message that went is a duplicate.
KnownIfSent(m) == receipt[m] \in {"sent", "dropped"}

\* enqueue(): this id was sent, or is on its way.
Known(m) == receipt[m] # "none"

\* The receipt is opened and the message joins the chat's chain.
Enqueue(m, by) ==
    /\ log' = IF \E i \in DOMAIN log : log[i] = m THEN log ELSE Append(log, m)
    /\ receipt' = Put(receipt, m, "pending") /\ fails' = Put(fails, m, 0)
    /\ chain' = Append(chain, Job(m, 0, FALSE, by))
    /\ UNCHANGED <<issue, calling, retries, settled>>

Notice(m, ok) ==
    /\ up /\ kind[m] = "notice" /\ pushed < MaxPushes
    /\ pushed' = pushed + 1
    /\ IF ok /\ door /\ ~Known(m) THEN Enqueue(m, "push") ELSE UNCHANGED <<outbox, sender>>
    /\ Lose(Missed(ok))
    /\ UNCHANGED <<answers, drafts, world, retried, crashes, late>>

Current == chain[1]

\* sendToChat() of the chain's head.
Call(reach) ==
    /\ chain # <<>> /\ calling = "no"
    /\ calling' = IF reach THEN "reached" ELSE "missed"
    /\ went' = IF reach /\ went[Current.msg] < 2 THEN [went EXCEPT ![Current.msg] = @ + 1] ELSE went
    /\ UNCHANGED <<outbox, chain, retries, settled, answers, drafts, kind, up, door, bounds>>

\* The head's attempt() returned, or threw; the next of the chain is tried.
Returned(delivered, threw) ==
    /\ chain' = Tail(chain) /\ calling' = "no" /\ retries' = retries
    /\ handed' = IF Current.by = "sweep" /\ ~threw THEN handed \cup {Current.msg} ELSE handed
    /\ hand' = IF Current.by = "draft"
               THEN Put(hand, Current.msg, IF delivered THEN "delivered" ELSE "undelivered") ELSE hand

\* The receipt is settled; every CompactAt-th time only what is pending stays.
SettleReceipt(m, status) ==
    LET r == IF Known(m) THEN Put(receipt, m, status) ELSE receipt
        compact == settled + 1 >= CompactAt
    IN /\ receipt' = IF compact THEN [n \in Msg |-> IF r[n] = "pending" THEN r[n] ELSE "none"] ELSE r
       /\ log' = IF compact THEN Only(log, {n \in Msg : r[n] = "pending"}) ELSE log
       /\ settled' = IF compact THEN 0 ELSE settled + 1
       /\ fails' = [n \in Msg |-> IF compact /\ r[n] # "pending" THEN 0 ELSE fails[n]]

Sent ==
    /\ calling = "reached"
    /\ SettleReceipt(Current.msg, "sent") /\ issue' = FALSE
    /\ Returned(TRUE, FALSE)
    /\ UNCHANGED <<owed, turn, live, draft, consent, first, world, bounds>>

\* The door's verdict that the conversation can never take it.
Dropped(written) ==
    /\ calling = "missed" /\ Lose(Missed(written))
    /\ IF written THEN SettleReceipt(Current.msg, "dropped") /\ issue' = TRUE
       ELSE UNCHANGED <<outbox, settled>>
    /\ Returned(FALSE, ~written)
    /\ UNCHANGED <<owed, turn, live, draft, consent, first, world,
                   pushed, retried, crashes, late>>

\* Variant: one try more than the limit.
PastLimit(job) == job.tried + 1 > MaxAttempts \/ job.once

LastTry(job) == job.tried + 1 >= MaxAttempts \/ job.once

\* Variant: a failed message goes to the end of the chain, behind the others.
ToTheEnd == Append(Tail(chain), [Current EXCEPT !.tried = @ + 1])

\* After its backoff the same message is tried again, before the others.
AgainFirst == [chain EXCEPT ![1].tried = @ + 1]

\* A try failed: the door threw, also when the message had reached the chat, or
\* the message went and that could not be recorded.
Failed(why, recorded) ==
    /\ calling = IF why = "missed" THEN "missed" ELSE "reached"
    /\ IF why = "late" THEN late < MaxLate /\ late' = late + 1 ELSE UNCHANGED late
    /\ Lose(Missed(why # "unwritten") + Missed(recorded))
    /\ fails' = IF recorded /\ Known(Current.msg) THEN [fails EXCEPT ![Current.msg] = @ + 1]
                ELSE fails
    /\ issue' = (issue \/ recorded)
    /\ IF recorded /\ ~LastTry(Current)
       THEN /\ chain' = AgainFirst /\ calling' = "no"
            /\ UNCHANGED <<retries, handed, hand>>
       ELSE Returned(FALSE, ~recorded)
    /\ UNCHANGED <<log, receipt, settled, owed, turn, live, draft, consent,
                   first, world, pushed, retried, crashes>>

\* A person presses Retry on the chat's failure: what is pending, as it is now.
Retry ==
    /\ up /\ door /\ issue /\ retried < MaxRetries /\ retries = <<>>
    /\ retried' = retried + 1
    /\ retries' = Only(log, {m \in Msg : Pending(m)})
    /\ UNCHANGED <<outbox, chain, calling, settled, answers, drafts, world, pushed, crashes, lost, late>>

\* Each of them joins the chain when the one before it has been tried.
RetryNext ==
    /\ retries # <<>> /\ \A i \in DOMAIN chain : chain[i].by # "retry"
    /\ chain' = Append(chain, Job(retries[1], fails[retries[1]], TRUE, "retry"))
    /\ retries' = Tail(retries)
    /\ UNCHANGED <<outbox, calling, settled, answers, drafts, world, bounds>>

----------------------------------------------------------------------------
(* Answers.                                                                *)

\* A person's request: the debt is noted, then the turn runs.
Request(m) ==
    /\ up /\ kind[m] = "answer" /\ owed[m] = "none"
    /\ owed' = Put(owed, m, "open") /\ turn' = Put(turn, m, "running")
    /\ live' = Put(live, m, "waiting")
    /\ UNCHANGED <<outbox, sender, handed, drafts, world, bounds>>

\* A turn may end with nothing said: it chose silence, or was given up.
TurnEnds(m, how) ==
    /\ up /\ turn[m] = "running"
    /\ turn' = Put(turn, m, how)
    /\ UNCHANGED <<outbox, sender, owed, live, handed, drafts, world, bounds>>

\* settle() waits until no agent at all has a turn or a queued message; then the
\* debt is closed, and the reply goes to the door unless the turn gave up.
LiveReplies(m, written, stuck) ==
    /\ live[m] = "waiting" /\ turn[m] \in {"ended", "silent"}
    /\ Lose(Missed(written))
    /\ owed' = IF written THEN Put(owed, m, "closed") ELSE owed
    /\ live' = Put(live, m, IF stuck \/ ~written THEN "failed"
                            ELSE IF turn[m] = "silent" THEN "quiet" ELSE "replying")
    /\ UNCHANGED <<outbox, sender, turn, handed, drafts, world, pushed, retried, crashes, late>>

\* It throws after ten minutes.
LiveGivesUp(m) ==
    /\ live[m] = "waiting"
    /\ live' = Put(live, m, "failed")
    /\ UNCHANGED <<outbox, sender, owed, turn, handed, drafts, world, bounds>>

\* deliver(): straight to the door, without a receipt.
LiveDelivers(m, reach) ==
    /\ live[m] = "replying"
    /\ live' = Put(live, m, IF reach THEN "done" ELSE "failed")
    /\ UNCHANGED <<outbox, sender, owed, turn, handed, drafts, world, bounds>>

\* Variant: the debt of a request this process took is left to the request.
DueToNobody(m) == turn[m] = "ended" /\ live[m] = "none"

\* settleOwed(), every 20 s: a debt whose turn is over and wrote an answer.
Due(m) == turn[m] = "ended"

Sweep(m, ok) ==
    /\ up /\ owed[m] = "open" /\ m \notin handed /\ Due(m)
    /\ Lose(Missed(ok))
    /\ IF ~ok THEN UNCHANGED <<outbox, sender, handed>>
       ELSE IF door /\ ~Known(m) THEN Enqueue(m, "sweep") /\ UNCHANGED handed
       ELSE handed' = handed \cup {m} /\ UNCHANGED <<outbox, sender>>
    /\ UNCHANGED <<owed, turn, live, drafts, world, pushed, retried, crashes, late>>

\* The push came back, whatever became of the message.
HandedOver(m, written) ==
    /\ m \in handed /\ Lose(Missed(written))
    /\ handed' = handed \ {m}
    /\ owed' = IF written THEN Put(owed, m, "closed") ELSE owed
    /\ UNCHANGED <<outbox, sender, turn, live, drafts, world, pushed, retried, crashes, late>>

----------------------------------------------------------------------------
(* Drafts.                                                                 *)

\* The Outbox tool: a consent record, and the draft.
Draft(m) ==
    /\ up /\ kind[m] = "draft" /\ draft[m] = "none"
    /\ draft' = Put(draft, m, "waiting") /\ consent' = Put(consent, m, "pending")
    /\ UNCHANGED <<outbox, sender, answers, hand, first, world, bounds>>

Verdict(yes) == IF yes THEN "approved" ELSE "rejected"

\* Answered(m, yes): history.
Answered(m, yes) == IF first[m] = "none" THEN Put(first, m, Verdict(yes)) ELSE first

\* On the page the decision is written on the draft,
Decide(m, yes) ==
    /\ up /\ draft[m] = "waiting" /\ consent[m] = "pending" /\ hand[m] = "idle"
    /\ draft' = Put(draft, m, Verdict(yes)) /\ first' = Answered(m, yes)
    /\ hand' = Put(hand, m, "deciding")
    /\ UNCHANGED <<outbox, sender, answers, consent, world, bounds>>

\* then the consent record is settled.  A chat card or the expiry starts here.
Consent(m, yes) ==
    /\ up /\ consent[m] = "pending" /\ hand[m] \in {"idle", "deciding"}
    /\ hand[m] = "deciding" => Verdict(yes) = draft[m]
    /\ consent' = Put(consent, m, IF yes THEN "allowed" ELSE "refused")
    /\ first' = Answered(m, yes)
    /\ hand' = Put(hand, m, "settling")
    /\ UNCHANGED <<outbox, sender, answers, draft, world, bounds>>

\* Variant: the answer that comes last stands.
LastAnswer(m) == IF consent[m] = "allowed" THEN "approved" ELSE "rejected"

\* A draft decided on the page keeps that decision.
Decision(m) == IF draft[m] # "waiting" THEN draft[m]
               ELSE IF consent[m] = "allowed" THEN "approved" ELSE "rejected"

\* settled(): a refusal is told; an approved draft is pushed under its receipt.
SettleDraft(m, ok) ==
    /\ hand[m] = "settling" /\ Lose(Missed(ok))
    /\ draft' = Put(draft, m, Decision(m))
    /\ IF Decision(m) = "rejected" \/ ~ok \/ ~door \/ Known(m)
       THEN /\ hand' = Put(hand, m, IF Decision(m) = "rejected" THEN "idle"
                                    ELSE IF ok /\ door THEN "delivered" ELSE "undelivered")
            /\ UNCHANGED <<outbox, sender>>
       ELSE /\ Enqueue(m, "draft") /\ hand' = Put(hand, m, "sending")
    /\ UNCHANGED <<answers, consent, first, world, pushed, retried, crashes, late>>

\* What became of it is recorded, and the agent is told.
TellDraft(m, written) ==
    /\ hand[m] \in {"delivered", "undelivered"} /\ Lose(Missed(written))
    /\ hand' = Put(hand, m, "idle")
    /\ draft' = IF written THEN Put(draft, m, hand[m]) ELSE draft
    /\ UNCHANGED <<outbox, sender, answers, consent, first, world, pushed, retried, crashes, late>>

----------------------------------------------------------------------------
Crash ==
    /\ up /\ crashes < MaxCrashes /\ crashes' = crashes + 1
    /\ up' = FALSE
    /\ chain' = <<>> /\ calling' = "no" /\ retries' = <<>> /\ settled' = 0
    /\ live' = [m \in Msg |-> "none"] /\ handed' = {} /\ hand' = [m \in Msg |-> "idle"]
    /\ UNCHANGED <<outbox, owed, turn, draft, consent, first, kind, door, went,
                   pushed, retried, lost, late>>

\* Variant: what failed before is left to a person.
ResumedUntried(m) == Pending(m) /\ fails[m] = 0

\* resume(): what is pending and not yet a person's problem.
Resumed(m) == Pending(m) /\ fails[m] < MaxAttempts

\* The channel may have been removed or added meanwhile.
Restart(configured) ==
    /\ ~up /\ up' = TRUE /\ door' = configured
    /\ LET todo == IF configured THEN Only(log, {m \in Msg : Resumed(m)}) ELSE <<>>
       IN chain' = [i \in DOMAIN todo |-> Job(todo[i], fails[todo[i]], FALSE, "resume")]
    /\ UNCHANGED <<outbox, calling, retries, settled, answers, drafts, kind, went, bounds>>

----------------------------------------------------------------------------
Sender ==
    \/ \E r \in BOOLEAN : Call(r)
    \/ Sent
    \/ \E w \in BOOLEAN : Dropped(w)
    \/ \E why \in {"missed", "late", "unwritten"}, r \in BOOLEAN : Failed(why, r)

MsgStep(m) ==
    \/ \E ok \in BOOLEAN : Notice(m, ok) \/ Sweep(m, ok) \/ SettleDraft(m, ok)
    \/ Request(m) \/ LiveGivesUp(m) \/ Draft(m)
    \/ \E how \in {"ended", "silent"} : TurnEnds(m, how)
    \/ \E w, stuck \in BOOLEAN : LiveReplies(m, w, stuck)
    \/ \E w \in BOOLEAN : HandedOver(m, w) \/ TellDraft(m, w)
    \/ \E r \in BOOLEAN : LiveDelivers(m, r)
    \/ \E yes \in BOOLEAN : Decide(m, yes) \/ Consent(m, yes)

Next ==
    \/ Sender \/ Retry \/ RetryNext
    \/ \E m \in Msg : MsgStep(m)
    \/ Crash \/ \E c \in BOOLEAN : Restart(c)

Spec == Init /\ [][Next]_vars

\* The door answers, the event loop goes on, turns end, the sweep is a timer, and
\* the host is started again.
Fairness ==
    /\ WF_vars(Sender) /\ WF_vars(RetryNext) /\ WF_vars(\E c \in BOOLEAN : Restart(c))
    /\ \A m \in Msg :
         /\ WF_vars(\E how \in {"ended", "silent"} : TurnEnds(m, how))
         /\ WF_vars(\E ok \in BOOLEAN : Sweep(m, ok))
         /\ WF_vars(\E w \in BOOLEAN : HandedOver(m, w))
LiveSpec == Spec /\ Fairness

----------------------------------------------------------------------------
\* The shape of the three files and of the sender's memory.
TypeOK ==
    /\ kind \in Mixes
    /\ log \in Seq(Msg) /\ Len(log) <= Cardinality(Msg)
    /\ receipt \in [Msg -> {"none", "pending", "sent", "dropped"}]
    /\ fails \in [Msg -> Nat]
    /\ issue \in BOOLEAN
    /\ owed \in [Msg -> {"none", "open", "closed"}]
    /\ turn \in [Msg -> {"none", "running", "ended", "silent"}]
    /\ draft \in [Msg -> {"none", "waiting", "approved", "rejected", "delivered", "undelivered"}]
    /\ consent \in [Msg -> {"none", "pending", "allowed", "refused"}]
    /\ \A i \in DOMAIN chain :
           /\ chain[i].msg \in Msg /\ chain[i].by \in {"push", "sweep", "draft", "resume", "retry"}
           /\ chain[i].tried < MaxAttempts \/ chain[i].once
    /\ calling \in {"no", "reached", "missed"} /\ (calling # "no" => chain # <<>>)
    /\ settled \in 0..(CompactAt - 1)
    /\ live \in [Msg -> {"none", "waiting", "replying", "quiet", "done", "failed"}]
    /\ handed \subseteq Of("answer")
    /\ hand \in [Msg -> {"idle", "deciding", "settling", "sending", "delivered", "undelivered"}]
    /\ {up, door, issue} \subseteq BOOLEAN
    /\ went \in [Msg -> 0..2]
    /\ first \in [Msg -> {"none", "approved", "rejected"}]

\* Until a person presses Retry, no message reaches the chat while one opened before it
\* is still to go, unless that one is a person's problem, across failures, restarts and
\* compactions, with every append made.  (outbox-sender.ts: "a message waits for the one
\* before it — including its retries — rather than overtaking it".)
InOrder ==
    [][calling = "no" /\ calling' = "reached" /\ lost = 0 /\ retried = 0 =>
           \A j \in DOMAIN log : \A i \in 1..(j - 1) :
               log[j] = Current.msg /\ Pending(log[i]) => fails[log[i]] >= MaxAttempts]_vars

\* While the process runs, the door tells the truth, what went is recorded and
\* remembered and no person presses Retry, no receipt is sent twice, whatever
\* sweeps and pushes overlap.  (send(), enqueue().)
OncePerReceipt ==
    crashes = 0 /\ late = 0 /\ lost = 0 /\ retried = 0 /\ pushed <= 1 =>
        \A m \in Msg : went[m] <= 1

\* A draft's words reach the chat only if the first answer a person gave on it was
\* yes, also when a crash left the consent record open after a no on the page.
\* (outbox-drafts.ts: "the first answer stands".)
FirstAnswerStands == \A m \in Of("draft") : went[m] > 0 => first[m] = "approved"

\* A message under a receipt goes, is refused by the chat or becomes a person's
\* problem, however often the host dies, while its channel is configured and every
\* append is made.
Settles ==
    \A m \in Msg :
        Pending(m) ~> ~Pending(m) \/ fails[m] >= MaxAttempts \/ ~door \/ lost > 0

\* The book of owed answers clears: the debt of an answer that was written does not
\* stay open for ever, whether its request returned, gave up or died.  (server.ts:
\* "The sweep now repeats until the book is clear".  It never does for a turn that
\* wrote nothing and whose request is gone.)
BookClears == \A m \in Msg : owed[m] = "open" ~> owed[m] = "closed" \/ turn[m] = "silent"

=============================================================================
