----------------------------- MODULE Outbound_proofs -----------------------------
(***************************************************************************)
(* Proofs about Outbound, for any number of messages, tries, crashes and   *)
(* failed appends: no receipt is sent twice while nothing fails, a draft   *)
(* goes only where its first answer was yes, and no message overtakes the  *)
(* one before it.                                                          *)
(***************************************************************************)
EXTENDS Outbound, FiniteSetTheorems, SequenceTheorems, TLAPS

----------------------------------------------------------------------------
(* What Only keeps of a sequence, and in which order.                      *)

Rank(P, i) == Cardinality({j \in P : j <= i})

LEMMA RankType ==
  ASSUME NEW P \in SUBSET Nat, IsFiniteSet(P), NEW i \in P
  PROVE  Rank(P, i) \in 1..Cardinality(P)
<1>. DEFINE B == {j \in P : j <= i}
<1>1. IsFiniteSet(B) /\ Cardinality(B) <= Cardinality(P)
    BY FS_Subset
<1>2. i \in B
    OBVIOUS
<1>3. Cardinality(B) # 0
    BY <1>1, <1>2, FS_EmptySet
<1>4. Cardinality(B) \in Nat /\ Cardinality(P) \in Nat
    BY <1>1, FS_CardinalityType
<1>. QED
    BY <1>1, <1>3, <1>4 DEF Rank

LEMMA RankLess ==
  ASSUME NEW P \in SUBSET Nat, IsFiniteSet(P), NEW i \in P, NEW j \in P, i < j
  PROVE  Rank(P, i) < Rank(P, j)
<1>. DEFINE A == {k \in P : k <= i}
            B == {k \in P : k <= j}
<1>0. i \in Nat /\ j \in Nat /\ \A k \in P : k \in Nat
    OBVIOUS
<1>1. A \in SUBSET B /\ j \in B /\ j \notin A
  <2>1. \A k \in A : k \in B
      BY <1>0
  <2>2. j \in B /\ j \notin A
      BY <1>0
  <2>. QED
      BY <2>1, <2>2
<1>2. IsFiniteSet(B)
    BY FS_Subset
<1>3. Cardinality(A) <= Cardinality(B) /\ Cardinality(A) # Cardinality(B) /\ IsFiniteSet(A)
    BY <1>1, <1>2, FS_Subset
<1>4. Cardinality(A) \in Nat /\ Cardinality(B) \in Nat
    BY <1>2, <1>3, FS_CardinalityType
<1>. QED
    BY <1>3, <1>4 DEF Rank

LEMMA RankInjective ==
  ASSUME NEW P \in SUBSET Nat, IsFiniteSet(P), NEW i \in P, NEW j \in P, Rank(P, i) = Rank(P, j)
  PROVE  i = j
<1>1. i \in Nat /\ j \in Nat /\ Rank(P, i) \in Nat
    BY RankType, FS_CardinalityType
<1>2. i < j => Rank(P, i) < Rank(P, j)
    BY RankLess
<1>3. j < i => Rank(P, j) < Rank(P, i)
    BY RankLess
<1>. QED
    BY <1>1, <1>2, <1>3

\* Every rank is the rank of a position.
LEMMA RankOnto ==
  ASSUME NEW P \in SUBSET Nat, IsFiniteSet(P), NEW k \in 1..Cardinality(P)
  PROVE  \E i \in P : Rank(P, i) = k
<1>. DEFINE n == Cardinality(P)
            f == [i \in P |-> Rank(P, i)]
<1>1. n \in Nat
    BY FS_CardinalityType
<1>2. f \in [P -> 1..n]
    BY RankType
<1>3. \A i, j \in P : f[i] = f[j] => i = j
    BY RankInjective
<1>4. f \in Injection(P, 1..n)
    BY <1>2, <1>3 DEF Injection, IsInjective
<1>5. IsFiniteSet(1..n) /\ Cardinality(1..n) = n
    BY <1>1, FS_Interval
<1>6. f \in Surjection(P, 1..n)
    BY <1>4, <1>5, FS_Injection
<1>7. PICK i \in P : f[i] = k
    BY <1>6 DEF Surjection
<1>. QED
    BY <1>7

LEMMA NthIs ==
  ASSUME NEW P \in SUBSET Nat, IsFiniteSet(P), NEW k \in 1..Cardinality(P)
  PROVE  Nth(P, k) \in P /\ Rank(P, Nth(P, k)) = k
<1>1. \E i \in P : Cardinality({j \in P : j <= i}) = k
    BY RankOnto DEF Rank
<1>. QED
    BY <1>1 DEF Nth, Rank

LEMMA PlacesFinite ==
  ASSUME NEW M, NEW s \in Seq(M), NEW S
  PROVE  /\ Places(s, S) \in SUBSET Nat /\ IsFiniteSet(Places(s, S))
         /\ \A i \in Places(s, S) : i \in DOMAIN s /\ s[i] \in S
         /\ Cardinality(Places(s, S)) \in Nat
<1>1. DOMAIN s = 1..Len(s) /\ Len(s) \in Nat
    BY LenProperties
<1>2. IsFiniteSet(1..Len(s))
    BY <1>1, FS_Interval
<1>3. Places(s, S) \in SUBSET (1..Len(s))
    BY <1>1 DEF Places
<1>4. IsFiniteSet(Places(s, S))
    BY <1>2, <1>3, FS_Subset
<1>. QED
    BY <1>1, <1>3, <1>4, FS_CardinalityType DEF Places

\* It is a sequence of elements of s that are in S,
LEMMA OnlyType ==
  ASSUME NEW M, NEW s \in Seq(M), NEW S
  PROVE  Only(s, S) \in Seq(M \cap S)
<1>. DEFINE P == Places(s, S)
            n == Cardinality(P)
<1>1. P \in SUBSET Nat /\ IsFiniteSet(P) /\ n \in Nat
    BY PlacesFinite
<1>2. ASSUME NEW k \in 1..n PROVE s[Nth(P, k)] \in M \cap S
  <2>1. Nth(P, k) \in P
      BY <1>1, NthIs
  <2>2. Nth(P, k) \in DOMAIN s /\ s[Nth(P, k)] \in S
      BY <2>1, PlacesFinite
  <2>. QED
      BY <2>2, LenProperties, ElementOfSeq
<1>3. Only(s, S) \in [1..n -> M \cap S]
    BY <1>2 DEF Only
<1>. QED
    BY <1>1, <1>3, SeqDef

\* and an order of them: the order of s,
LEMMA OnlyFrom ==
  ASSUME NEW M, NEW s \in Seq(M), NEW S,
         NEW k \in DOMAIN Only(s, S), NEW l \in DOMAIN Only(s, S), k < l
  PROVE  \E i, j \in DOMAIN s : i < j /\ s[i] = Only(s, S)[k] /\ s[j] = Only(s, S)[l]
<1>. DEFINE P == Places(s, S)
            n == Cardinality(P)
<1>1. P \in SUBSET Nat /\ IsFiniteSet(P) /\ n \in Nat
    BY PlacesFinite
<1>2. k \in 1..n /\ l \in 1..n /\ Only(s, S)[k] = s[Nth(P, k)] /\ Only(s, S)[l] = s[Nth(P, l)]
    BY DEF Only
<1>3. Nth(P, k) \in P /\ Rank(P, Nth(P, k)) = k
    BY <1>1, <1>2, NthIs
<1>4. Nth(P, l) \in P /\ Rank(P, Nth(P, l)) = l
    BY <1>1, <1>2, NthIs
<1>5. Nth(P, l) < Nth(P, k) => l < k
    BY <1>1, <1>3, <1>4, RankLess
<1>6. Nth(P, k) # Nth(P, l)
    BY <1>1, <1>2, <1>3, <1>4
<1>7. Nth(P, k) < Nth(P, l)
    BY <1>1, <1>2, <1>3, <1>4, <1>5, <1>6
<1>8. Nth(P, k) \in DOMAIN s /\ Nth(P, l) \in DOMAIN s
    BY <1>3, <1>4, PlacesFinite
<1>. QED
    BY <1>2, <1>7, <1>8

\* with everything of s that is in S.
LEMMA OnlyKeeps ==
  ASSUME NEW M, NEW s \in Seq(M), NEW S, NEW i \in DOMAIN s, s[i] \in S
  PROVE  /\ Rank(Places(s, S), i) \in DOMAIN Only(s, S)
         /\ Only(s, S)[Rank(Places(s, S), i)] = s[i]
<1>. DEFINE P == Places(s, S)
            n == Cardinality(P)
            k == Rank(P, i)
<1>1. P \in SUBSET Nat /\ IsFiniteSet(P) /\ n \in Nat
    BY PlacesFinite
<1>2. i \in P
    BY DEF Places
<1>3. k \in 1..n
    BY <1>1, <1>2, RankType
<1>4. Nth(P, k) \in P /\ Rank(P, Nth(P, k)) = k
    BY <1>1, <1>3, NthIs
<1>5. Nth(P, k) = i
    BY <1>1, <1>2, <1>4, RankInjective
<1>6. DOMAIN Only(s, S) = 1..n /\ Only(s, S)[k] = s[Nth(P, k)]
    BY <1>3 DEF Only
<1>. QED
    BY <1>3, <1>5, <1>6

----------------------------------------------------------------------------
(* The outbox file.                                                        *)

Origin == {"push", "sweep", "draft", "resume", "retry"}
JobOK == {j \in [msg : Msg, tried : Nat, once : BOOLEAN, by : Origin] :
             j.tried < MaxAttempts \/ j.once}
Status == {"none", "pending", "sent", "dropped"}

InLog(m) == \E i \in DOMAIN log : log[i] = m
Distinct(s) == \A i, j \in DOMAIN s : s[i] = s[j] => i = j

StoreOK ==
    /\ log \in Seq(Msg) /\ Distinct(log)
    /\ receipt \in [Msg -> Status] /\ fails \in [Msg -> Nat] /\ issue \in BOOLEAN
    /\ settled \in 0..(CompactAt - 1)
    /\ \A m \in Msg : InLog(m) <=> Known(m)

SenderOK ==
    /\ chain \in Seq(JobOK) /\ retries \in Seq(Msg)
    /\ calling \in {"no", "reached", "missed"} /\ (calling # "no" => chain # <<>>)

LEMMA OnlyDistinct ==
  ASSUME NEW M, NEW s \in Seq(M), NEW S, Distinct(s)
  PROVE  Distinct(Only(s, S))
<1>. DEFINE t == Only(s, S)
<1>1. DOMAIN s \subseteq Nat /\ DOMAIN t \subseteq Nat
    BY OnlyType, LenProperties
<1>2. ASSUME NEW k \in DOMAIN t, NEW l \in DOMAIN t, k < l PROVE t[k] # t[l]
  <2>1. PICK i \in DOMAIN s, j \in DOMAIN s : i < j /\ s[i] = t[k] /\ s[j] = t[l]
      BY <1>2, OnlyFrom
  <2>. QED
      BY <1>1, <2>1 DEF Distinct
<1>. QED
    BY <1>1, <1>2 DEF Distinct

\* Only keeps what it should, and nothing else.
LEMMA OnlyElements ==
  ASSUME NEW M, NEW s \in Seq(M), NEW S, NEW m
  PROVE  (\E k \in DOMAIN Only(s, S) : Only(s, S)[k] = m)
           <=> (\E i \in DOMAIN s : s[i] = m) /\ m \in S
<1>1. ASSUME NEW k \in DOMAIN Only(s, S), Only(s, S)[k] = m
      PROVE  (\E i \in DOMAIN s : s[i] = m) /\ m \in S
  <2>. DEFINE P == Places(s, S)
  <2>1. P \in SUBSET Nat /\ IsFiniteSet(P)
      BY PlacesFinite
  <2>2. k \in 1..Cardinality(P) /\ m = s[Nth(P, k)]
      BY <1>1 DEF Only
  <2>3. Nth(P, k) \in P
      BY <2>1, <2>2, NthIs
  <2>. QED
      BY <2>2, <2>3, PlacesFinite
<1>2. ASSUME NEW i \in DOMAIN s, s[i] = m, m \in S
      PROVE  \E k \in DOMAIN Only(s, S) : Only(s, S)[k] = m
    BY <1>2, OnlyKeeps
<1>. QED
    BY <1>1, <1>2

\* A log without repetition is no longer than there are messages.
LEMMA LogLength ==
  ASSUME log \in Seq(Msg), Distinct(log)
  PROVE  Len(log) <= Cardinality(Msg)
<1>1. Len(log) \in Nat /\ log \in [1..Len(log) -> Msg] /\ DOMAIN log = 1..Len(log)
    BY LenProperties
<1>2. log \in Injection(1..Len(log), Msg)
    BY <1>1 DEF Injection, IsInjective, Distinct
<1>3. IsFiniteSet(1..Len(log)) /\ Cardinality(1..Len(log)) = Len(log)
    BY <1>1, FS_Interval
<1>. QED
    BY <1>2, <1>3, FS_Injection, OutboundConstants DEF OutboundConstants

LEMMA EnqueueStore ==
  ASSUME StoreOK, NEW m \in Msg, NEW by, ~Known(m), Enqueue(m, by)
  PROVE  StoreOK'
<1>1. log' = Append(log, m)
    BY DEF StoreOK, Enqueue, InLog, Known
<1>2. /\ log' \in Seq(Msg) /\ Len(log') = Len(log) + 1 /\ log'[Len(log) + 1] = m
      /\ \A i \in 1..Len(log) : log'[i] = log[i]
    BY <1>1, AppendProperties DEF StoreOK
<1>3. Len(log) \in Nat /\ DOMAIN log = 1..Len(log) /\ DOMAIN log' = 1..(Len(log) + 1)
    BY <1>2, LenProperties DEF StoreOK
<1>4. \A i \in DOMAIN log : log[i] # m
    BY DEF StoreOK, InLog
<1>5. Distinct(log)'
  <2>1. ASSUME NEW i \in 1..(Len(log) + 1), NEW j \in 1..(Len(log) + 1), log'[i] = log'[j]
        PROVE  i = j
    <3>1. CASE i \in 1..Len(log) /\ j \in 1..Len(log)
        BY <1>2, <1>3, <2>1, <3>1 DEF StoreOK, Distinct
    <3>2. CASE i = Len(log) + 1 /\ j \in 1..Len(log)
        BY <1>2, <1>3, <1>4, <2>1, <3>2
    <3>3. CASE j = Len(log) + 1 /\ i \in 1..Len(log)
        BY <1>2, <1>3, <1>4, <2>1, <3>3
    <3>. QED
        BY <1>3, <3>1, <3>2, <3>3
  <2>. QED
      BY <1>3, <2>1 DEF Distinct
<1>6. receipt' = Put(receipt, m, "pending") /\ fails' = Put(fails, m, 0)
      /\ issue' = issue /\ settled' = settled
    BY DEF Enqueue
<1>7. ASSUME NEW n \in Msg PROVE InLog(n)' <=> Known(n)'
  <2>1. InLog(n)' <=> InLog(n) \/ n = m
      BY <1>2, <1>3 DEF InLog
  <2>2. Known(n)' <=> Known(n) \/ n = m
      BY <1>6 DEF Known, Put, StoreOK
  <2>. QED
      BY <2>1, <2>2 DEF StoreOK
<1>8. receipt' \in [Msg -> Status] /\ fails' \in [Msg -> Nat]
    BY <1>6 DEF StoreOK, Put, Status
<1>. QED
    BY <1>2, <1>5, <1>6, <1>7, <1>8 DEF StoreOK

LEMMA SettleStore ==
  ASSUME StoreOK, NEW m \in Msg, NEW s \in {"sent", "dropped"}, SettleReceipt(m, s),
         issue' \in BOOLEAN
  PROVE  StoreOK'
<1>. DEFINE r == IF Known(m) THEN Put(receipt, m, s) ELSE receipt
            compact == settled + 1 >= CompactAt
            S == {n \in Msg : r[n] = "pending"}
<1>1. r \in [Msg -> Status] /\ \A n \in Msg : r[n] # "none" <=> Known(n)
    BY DEF StoreOK, Put, Status, Known
<1>2. /\ receipt' = IF compact THEN [n \in Msg |-> IF r[n] = "pending" THEN r[n] ELSE "none"] ELSE r
      /\ log' = IF compact THEN Only(log, S) ELSE log
      /\ settled' = IF compact THEN 0 ELSE settled + 1
      /\ fails' = [n \in Msg |-> IF compact /\ r[n] # "pending" THEN 0 ELSE fails[n]]
    BY DEF SettleReceipt
<1>3. settled' \in 0..(CompactAt - 1)
    BY <1>2, OutboundConstants DEF StoreOK, OutboundConstants
<1>4. fails' \in [Msg -> Nat]
    BY <1>2 DEF StoreOK
<1>5. receipt' \in [Msg -> Status]
    BY <1>1, <1>2 DEF Status
<1>6. CASE compact
  <2>1. log' \in Seq(Msg \cap S)
      BY <1>2, <1>6, OnlyType DEF StoreOK
  <2>2. log' \in Seq(Msg)
      BY <2>1, SeqMonotonic
  <2>3. Distinct(log)'
      BY <1>2, <1>6, OnlyDistinct DEF StoreOK
  <2>4. ASSUME NEW n \in Msg PROVE InLog(n)' <=> Known(n)'
    <3>0. log' = Only(log, S) /\ log \in Seq(Msg)
        BY <1>2, <1>6 DEF StoreOK
    <3>1. InLog(n)' <=> InLog(n) /\ n \in S
      <4>. HIDE DEF S
      <4>1. (\E k \in DOMAIN Only(log, S) : Only(log, S)[k] = n)
              <=> (\E i \in DOMAIN log : log[i] = n) /\ n \in S
          BY <3>0, OnlyElements
      <4>. QED
          BY <3>0, <4>1 DEF InLog
    <3>2. Known(n)' <=> r[n] = "pending"
        BY <1>2, <1>6 DEF Known
    <3>3. r[n] = "pending" => Known(n)
        BY <1>1
    <3>. QED
        BY <3>1, <3>2, <3>3 DEF StoreOK
  <2>. QED
      BY <1>3, <1>4, <1>5, <2>2, <2>3, <2>4 DEF StoreOK
<1>7. CASE ~compact
  <2>1. log' = log /\ receipt' = r
      BY <1>2, <1>7
  <2>2. ASSUME NEW n \in Msg PROVE InLog(n)' <=> Known(n)'
    <3>1. InLog(n)' <=> InLog(n)
        BY <2>1 DEF InLog
    <3>2. Known(n)' <=> Known(n)
        BY <2>1, <1>1 DEF Known
    <3>. QED
        BY <3>1, <3>2 DEF StoreOK
  <2>. QED
      BY <1>3, <1>4, <1>5, <2>1, <2>2 DEF StoreOK
<1>. QED
    BY <1>6, <1>7

LEMMA StoreSame ==
  ASSUME StoreOK, UNCHANGED <<outbox, settled>>
  PROVE  StoreOK'
<1>. log' = log /\ receipt' = receipt /\ fails' = fails /\ issue' = issue /\ settled' = settled
    BY DEF outbox
<1>. QED
    BY DEF StoreOK, InLog, Known

LEMMA HeadJob ==
  ASSUME SenderOK, chain # <<>>
  PROVE  /\ Current \in JobOK /\ Current.msg \in Msg /\ Current.by \in Origin /\ Current.tried \in Nat
         /\ 1 \in DOMAIN chain
<1>1. Len(chain) \in Nat \ {0} /\ DOMAIN chain = 1..Len(chain)
    BY EmptySeq, LenProperties DEF SenderOK
<1>2. Current \in JobOK
    BY <1>1, ElementOfSeq DEF SenderOK, Current
<1>. QED
    BY <1>1, <1>2 DEF JobOK

LEMMA StoreNext ==
  ASSUME StoreOK, SenderOK, [Next]_vars
  PROVE  StoreOK'
<1>1. ASSUME NEW reach \in BOOLEAN, Call(reach) PROVE StoreOK'
    BY <1>1, StoreSame DEF Call, outbox, sender
<1>2. CASE Sent
  <2>1. Current.msg \in Msg
      BY <1>2, HeadJob DEF Sent, SenderOK
  <2>. QED
      BY <1>2, <2>1, SettleStore DEF Sent
<1>3. ASSUME NEW w \in BOOLEAN, Dropped(w) PROVE StoreOK'
  <2>1. Current.msg \in Msg
      BY <1>3, HeadJob DEF Dropped, SenderOK
  <2>2. CASE w
      BY <1>3, <2>1, <2>2, SettleStore DEF Dropped
  <2>3. CASE ~w
      BY <1>3, <2>3, StoreSame DEF Dropped
  <2>. QED
      BY <2>2, <2>3
<1>4. ASSUME NEW why \in {"missed", "late", "unwritten"}, NEW r \in BOOLEAN, Failed(why, r)
      PROVE  StoreOK'
  <2>1. log' = log /\ receipt' = receipt /\ settled' = settled /\ issue' \in BOOLEAN
      BY <1>4 DEF Failed, StoreOK
  <2>2. Current.msg \in Msg
      BY <1>4, HeadJob DEF Failed, SenderOK
  <2>3. fails' \in [Msg -> Nat]
      BY <1>4, <2>2 DEF Failed, StoreOK
  <2>. QED
      BY <2>1, <2>3 DEF StoreOK, InLog, Known
<1>5. CASE Retry
    BY <1>5, StoreSame DEF Retry, outbox, sender
<1>6. CASE RetryNext
    BY <1>6, StoreSame DEF RetryNext, outbox, sender
<1>7. ASSUME NEW m \in Msg, NEW ok \in BOOLEAN, Notice(m, ok) PROVE StoreOK'
  <2>1. CASE UNCHANGED <<outbox, sender>>
      BY <2>1, StoreSame DEF sender
  <2>2. CASE ~UNCHANGED <<outbox, sender>>
      BY <1>7, <2>2, EnqueueStore DEF Notice
  <2>. QED
      BY <2>1, <2>2
<1>8. ASSUME NEW m \in Msg, NEW ok \in BOOLEAN, Sweep(m, ok) PROVE StoreOK'
  <2>1. CASE UNCHANGED <<outbox, sender>>
      BY <2>1, StoreSame DEF sender
  <2>2. CASE ~UNCHANGED <<outbox, sender>>
      BY <1>8, <2>2, EnqueueStore DEF Sweep
  <2>. QED
      BY <2>1, <2>2
<1>9. ASSUME NEW m \in Msg, NEW ok \in BOOLEAN, SettleDraft(m, ok) PROVE StoreOK'
  <2>1. CASE UNCHANGED <<outbox, sender>>
      BY <2>1, StoreSame DEF sender
  <2>2. CASE ~UNCHANGED <<outbox, sender>>
      BY <1>9, <2>2, EnqueueStore DEF SettleDraft
  <2>. QED
      BY <2>1, <2>2
<1>10. ASSUME NEW m \in Msg, Request(m) PROVE StoreOK'
    BY <1>10, StoreSame DEF Request, outbox, sender
<1>11. ASSUME NEW m \in Msg, LiveGivesUp(m) PROVE StoreOK'
    BY <1>11, StoreSame DEF LiveGivesUp, outbox, sender
<1>12. ASSUME NEW m \in Msg, Draft(m) PROVE StoreOK'
    BY <1>12, StoreSame DEF Draft, outbox, sender
<1>13. ASSUME NEW m \in Msg, NEW how \in {"ended", "silent"}, TurnEnds(m, how)
      PROVE  StoreOK'
    BY <1>13, StoreSame DEF TurnEnds, outbox, sender
<1>14. ASSUME NEW m \in Msg, NEW w \in BOOLEAN, NEW stuck \in BOOLEAN, LiveReplies(m, w, stuck)
      PROVE  StoreOK'
    BY <1>14, StoreSame DEF LiveReplies, outbox, sender
<1>15. ASSUME NEW m \in Msg, NEW w \in BOOLEAN, HandedOver(m, w) PROVE StoreOK'
    BY <1>15, StoreSame DEF HandedOver, outbox, sender
<1>16. ASSUME NEW m \in Msg, NEW w \in BOOLEAN, TellDraft(m, w) PROVE StoreOK'
    BY <1>16, StoreSame DEF TellDraft, outbox, sender
<1>17. ASSUME NEW m \in Msg, NEW r \in BOOLEAN, LiveDelivers(m, r) PROVE StoreOK'
    BY <1>17, StoreSame DEF LiveDelivers, outbox, sender
<1>18. ASSUME NEW m \in Msg, NEW yes \in BOOLEAN, Decide(m, yes) PROVE StoreOK'
    BY <1>18, StoreSame DEF Decide, outbox, sender
<1>19. ASSUME NEW m \in Msg, NEW yes \in BOOLEAN, Consent(m, yes) PROVE StoreOK'
    BY <1>19, StoreSame DEF Consent, outbox, sender
<1>20. CASE Crash
  <2>1. settled' = 0 /\ UNCHANGED outbox
      BY <1>20 DEF Crash
  <2>2. log' = log /\ receipt' = receipt /\ fails' = fails /\ issue' = issue
      BY <2>1 DEF outbox
  <2>. QED
      BY <2>1, <2>2, OutboundConstants DEF StoreOK, InLog, Known, OutboundConstants
<1>21. ASSUME NEW c \in BOOLEAN, Restart(c) PROVE StoreOK'
    BY <1>21, StoreSame DEF Restart, outbox, sender
<1>22. CASE UNCHANGED vars
    BY <1>22, StoreSame DEF vars, sender
<1>. QED
    BY <1>1, <1>2, <1>3, <1>4, <1>5, <1>6, <1>7, <1>8, <1>9, <1>10, <1>11,
       <1>12, <1>13, <1>14, <1>15, <1>16, <1>17, <1>18, <1>19, <1>20, <1>21,
       <1>22 DEF Next, Sender, MsgStep

----------------------------------------------------------------------------
(* The sender's memory.                                                    *)

\* A message joins the chain,
LEMMA Joins ==
  ASSUME SenderOK, NEW j \in JobOK, chain' = Append(chain, j)
  PROVE  /\ chain' \in Seq(JobOK) /\ chain' # <<>>
         /\ Len(chain) \in Nat /\ DOMAIN chain = 1..Len(chain) /\ DOMAIN chain' = 1..(Len(chain) + 1)
         /\ \A i \in DOMAIN chain : chain'[i] = chain[i]
         /\ chain'[Len(chain) + 1] = j
<1>1. chain \in Seq(JobOK)
    BY DEF SenderOK
<1>2. Len(chain) \in Nat /\ DOMAIN chain = 1..Len(chain)
    BY <1>1, LenProperties
<1>3. /\ chain' \in Seq(JobOK) /\ chain' # <<>> /\ Len(chain') = Len(chain) + 1
      /\ \A i \in 1..Len(chain) : chain'[i] = chain[i]
      /\ chain'[Len(chain) + 1] = j
    BY <1>1, AppendProperties
<1>4. DOMAIN chain' = 1..(Len(chain) + 1)
    BY <1>3, LenProperties
<1>. QED
    BY <1>2, <1>3, <1>4

\* its head leaves it,
LEMMA Leaves ==
  ASSUME SenderOK, chain # <<>>, chain' = Tail(chain)
  PROVE  /\ chain' \in Seq(JobOK) /\ Len(chain) \in Nat /\ DOMAIN chain = 1..Len(chain)
         /\ \A i \in DOMAIN chain' : i \in Nat /\ i + 1 \in DOMAIN chain /\ chain'[i] = chain[i + 1]
         /\ \A i \in DOMAIN chain : i # 1 => i - 1 \in DOMAIN chain' /\ chain'[i - 1] = chain[i]
<1>1. chain \in Seq(JobOK)
    BY DEF SenderOK
<1>2. Len(chain) \in Nat /\ DOMAIN chain = 1..Len(chain)
    BY <1>1, LenProperties
<1>3. /\ chain' \in Seq(JobOK) /\ Len(chain') = Len(chain) - 1
      /\ \A i \in 1..Len(chain') : chain'[i] = chain[i + 1]
    BY <1>1, HeadTailProperties
<1>4. DOMAIN chain' = 1..(Len(chain) - 1)
    BY <1>3, LenProperties
<1>5. Len(chain) # 0
    BY <1>1, EmptySeq
<1>6. \A i \in DOMAIN chain' : i \in Nat /\ i + 1 \in DOMAIN chain /\ chain'[i] = chain[i + 1]
    BY <1>2, <1>3, <1>4, <1>5
<1>7. ASSUME NEW i \in DOMAIN chain, i # 1
      PROVE  i - 1 \in DOMAIN chain' /\ chain'[i - 1] = chain[i]
  <2>1. i - 1 \in DOMAIN chain' /\ (i - 1) + 1 = i
      BY <1>2, <1>4, <1>7
  <2>. QED
      BY <1>3, <1>4, <2>1
<1>. QED
    BY <1>2, <1>3, <1>6, <1>7

\* or is to be tried again.
LEMMA TriedAgain ==
  ASSUME SenderOK, chain # <<>>, ~LastTry(Current), chain' = AgainFirst
  PROVE  /\ chain' \in Seq(JobOK) /\ chain' # <<>> /\ DOMAIN chain' = DOMAIN chain
         /\ \A i \in DOMAIN chain : i # 1 => chain'[i] = chain[i]
         /\ chain'[1] = [Current EXCEPT !.tried = Current.tried + 1]
<1>1. chain \in Seq(JobOK)
    BY DEF SenderOK
<1>2. Len(chain) \in Nat \ {0} /\ DOMAIN chain = 1..Len(chain)
    BY <1>1, EmptySeq, LenProperties
<1>3. Current \in JobOK /\ Current.tried \in Nat
    BY HeadJob
<1>. DEFINE e == [Current EXCEPT !.tried = Current.tried + 1]
<1>4. e \in JobOK
    BY <1>3, OutboundConstants DEF JobOK, LastTry, OutboundConstants
<1>5. chain' = [chain EXCEPT ![1] = e]
    BY DEF AgainFirst, Current
<1>6. /\ chain' \in Seq(JobOK) /\ Len(chain') = Len(chain)
      /\ \A i \in 1..Len(chain) : chain'[i] = IF i = 1 THEN e ELSE chain[i]
  <2>. HIDE DEF e
  <2>. QED
      BY <1>1, <1>2, <1>4, <1>5, ExceptSeq
<1>7. DOMAIN chain' = 1..Len(chain) /\ chain' # <<>>
    BY <1>2, <1>6, LenProperties, EmptySeq
<1>. QED
    BY <1>2, <1>6, <1>7

LEMMA EnqueueSender ==
  ASSUME SenderOK, NEW m \in Msg, NEW by \in Origin, Enqueue(m, by)
  PROVE  SenderOK'
<1>. DEFINE j == Job(m, 0, FALSE, by)
<1>1. j \in JobOK
    BY OutboundConstants DEF Job, JobOK, OutboundConstants
<1>2. chain' = Append(chain, j) /\ calling' = calling /\ retries' = retries
    BY DEF Enqueue
<1>3. chain' \in Seq(JobOK) /\ chain' # <<>>
    BY <1>1, <1>2, Joins
<1>. QED
    BY <1>2, <1>3 DEF SenderOK

LEMMA ReturnedSender ==
  ASSUME SenderOK, calling # "no", NEW d, NEW t, Returned(d, t)
  PROVE  SenderOK'
<1>1. chain # <<>> /\ chain' = Tail(chain) /\ calling' = "no" /\ retries' = retries
    BY DEF Returned, SenderOK
<1>2. chain' \in Seq(JobOK)
    BY <1>1, Leaves
<1>. QED
    BY <1>1, <1>2 DEF SenderOK

\* While the process is down there is nothing in its memory.
Down == ~up => /\ chain = <<>> /\ calling = "no" /\ retries = <<>> /\ handed = {}
               /\ \A m \in Msg : hand[m] = "idle" /\ live[m] = "none"

LEMMA DownNext ==
  ASSUME SenderOK, Down, [Next]_vars
  PROVE  Down'
<1>. USE DEF Down, SenderOK
<1>1. ASSUME NEW reach \in BOOLEAN, Call(reach) PROVE Down'
    BY <1>1 DEF Call, sender, drafts, answers, world
<1>2. CASE Sent
    BY <1>2 DEF Sent, sender, drafts, answers, world
<1>3. ASSUME NEW w \in BOOLEAN, Dropped(w) PROVE Down'
    BY <1>3 DEF Dropped, sender, drafts, answers, world
<1>4. ASSUME NEW why \in {"missed", "late", "unwritten"}, NEW r \in BOOLEAN, Failed(why, r)
      PROVE  Down'
    BY <1>4 DEF Failed, sender, drafts, answers, world
<1>5. CASE Retry
    BY <1>5 DEF Retry, sender, drafts, answers, world
<1>6. CASE RetryNext
    BY <1>6 DEF RetryNext, sender, drafts, answers, world
<1>7. ASSUME NEW m \in Msg, NEW ok \in BOOLEAN, Notice(m, ok) PROVE Down'
    BY <1>7 DEF Notice, sender, drafts, answers, world
<1>8. ASSUME NEW m \in Msg, NEW ok \in BOOLEAN, Sweep(m, ok) PROVE Down'
    BY <1>8 DEF Sweep, sender, drafts, answers, world
<1>9. ASSUME NEW m \in Msg, NEW ok \in BOOLEAN, SettleDraft(m, ok) PROVE Down'
    BY <1>9 DEF SettleDraft, sender, drafts, answers, world
<1>10. ASSUME NEW m \in Msg, Request(m) PROVE Down'
    BY <1>10 DEF Request, sender, drafts, answers, world
<1>11. ASSUME NEW m \in Msg, LiveGivesUp(m) PROVE Down'
    BY <1>11 DEF LiveGivesUp, sender, drafts, answers, world
<1>12. ASSUME NEW m \in Msg, Draft(m) PROVE Down'
    BY <1>12 DEF Draft, sender, drafts, answers, world
<1>13. ASSUME NEW m \in Msg, NEW how \in {"ended", "silent"}, TurnEnds(m, how)
      PROVE  Down'
    BY <1>13 DEF TurnEnds, sender, drafts, answers, world
<1>14. ASSUME NEW m \in Msg, NEW w \in BOOLEAN, NEW stuck \in BOOLEAN, LiveReplies(m, w, stuck)
      PROVE  Down'
    BY <1>14 DEF LiveReplies, sender, drafts, answers, world
<1>15. ASSUME NEW m \in Msg, NEW w \in BOOLEAN, HandedOver(m, w) PROVE Down'
    BY <1>15 DEF HandedOver, sender, drafts, answers, world
<1>16. ASSUME NEW m \in Msg, NEW w \in BOOLEAN, TellDraft(m, w) PROVE Down'
    BY <1>16 DEF TellDraft, sender, drafts, answers, world
<1>17. ASSUME NEW m \in Msg, NEW r \in BOOLEAN, LiveDelivers(m, r) PROVE Down'
    BY <1>17 DEF LiveDelivers, sender, drafts, answers, world
<1>18. ASSUME NEW m \in Msg, NEW yes \in BOOLEAN, Decide(m, yes) PROVE Down'
    BY <1>18 DEF Decide, sender, drafts, answers, world
<1>19. ASSUME NEW m \in Msg, NEW yes \in BOOLEAN, Consent(m, yes) PROVE Down'
    BY <1>19 DEF Consent, sender, drafts, answers, world
<1>20. CASE Crash
    BY <1>20 DEF Crash, sender, drafts, answers, world
<1>21. ASSUME NEW c \in BOOLEAN, Restart(c) PROVE Down'
    BY <1>21 DEF Restart, sender, drafts, answers, world
<1>22. CASE UNCHANGED vars
    BY <1>22 DEF vars, sender, drafts, answers, world
<1>. QED
    BY <1>1, <1>2, <1>3, <1>4, <1>5, <1>6, <1>7, <1>8, <1>9, <1>10, <1>11,
       <1>12, <1>13, <1>14, <1>15, <1>16, <1>17, <1>18, <1>19, <1>20, <1>21,
       <1>22 DEF Next, Sender, MsgStep

LEMMA SenderNext ==
  ASSUME StoreOK, SenderOK, Down, [Next]_vars
  PROVE  SenderOK'
<1>1. ASSUME NEW reach \in BOOLEAN, Call(reach) PROVE SenderOK'
    BY <1>1 DEF Call, sender, SenderOK
<1>2. CASE Sent
    BY <1>2, ReturnedSender DEF Sent
<1>3. ASSUME NEW w \in BOOLEAN, Dropped(w) PROVE SenderOK'
    BY <1>3, ReturnedSender DEF Dropped
<1>4. ASSUME NEW why \in {"missed", "late", "unwritten"}, NEW r \in BOOLEAN, Failed(why, r)
      PROVE  SenderOK'
  <2>1. calling # "no"
      BY <1>4 DEF Failed
  <2>2. CASE r /\ ~LastTry(Current)
    <3>1. chain # <<>> /\ chain' = AgainFirst /\ calling' = "no" /\ retries' = retries
        BY <1>4, <2>1, <2>2 DEF Failed, SenderOK
    <3>2. chain' \in Seq(JobOK)
        BY <2>2, <3>1, TriedAgain
    <3>. QED
        BY <3>1, <3>2 DEF SenderOK
  <2>3. CASE ~(r /\ ~LastTry(Current))
    <3>1. Returned(FALSE, ~r)
        BY <1>4, <2>3 DEF Failed
    <3>. QED
        BY <2>1, <3>1, ReturnedSender
  <2>. QED
      BY <2>2, <2>3
<1>5. CASE Retry
  <2>1. retries' = Only(log, {m \in Msg : Pending(m)}) /\ chain' = chain /\ calling' = calling
      BY <1>5 DEF Retry
  <2>2. retries' \in Seq(Msg \cap {m \in Msg : Pending(m)})
      BY <2>1, OnlyType DEF StoreOK
  <2>3. retries' \in Seq(Msg)
      BY <2>2, SeqMonotonic
  <2>. QED
      BY <2>1, <2>3 DEF SenderOK
<1>6. CASE RetryNext
  <2>. DEFINE j == Job(retries[1], fails[retries[1]], TRUE, "retry")
  <2>1. retries # <<>> /\ chain' = Append(chain, j) /\ retries' = Tail(retries) /\ calling' = calling
      BY <1>6 DEF RetryNext
  <2>2. retries[1] \in Msg
      BY <2>1, EmptySeq, ElementOfSeq DEF SenderOK
  <2>3. j \in JobOK
      BY <2>2 DEF Job, JobOK, Origin, StoreOK
  <2>4. chain' \in Seq(JobOK) /\ chain' # <<>>
      BY <2>1, <2>3, Joins
  <2>5. retries' \in Seq(Msg)
      BY <2>1, HeadTailProperties DEF SenderOK
  <2>. QED
      BY <2>1, <2>4, <2>5 DEF SenderOK
<1>7. ASSUME NEW m \in Msg, NEW ok \in BOOLEAN, Notice(m, ok) PROVE SenderOK'
  <2>1. CASE UNCHANGED sender
      BY <2>1 DEF sender, SenderOK
  <2>2. CASE ~UNCHANGED sender
      BY <1>7, <2>2, EnqueueSender DEF Notice, Origin
  <2>. QED
      BY <2>1, <2>2
<1>8. ASSUME NEW m \in Msg, NEW ok \in BOOLEAN, Sweep(m, ok) PROVE SenderOK'
  <2>1. CASE UNCHANGED sender
      BY <2>1 DEF sender, SenderOK
  <2>2. CASE ~UNCHANGED sender
      BY <1>8, <2>2, EnqueueSender DEF Sweep, Origin
  <2>. QED
      BY <2>1, <2>2
<1>9. ASSUME NEW m \in Msg, NEW ok \in BOOLEAN, SettleDraft(m, ok) PROVE SenderOK'
  <2>1. CASE UNCHANGED sender
      BY <2>1 DEF sender, SenderOK
  <2>2. CASE ~UNCHANGED sender
      BY <1>9, <2>2, EnqueueSender DEF SettleDraft, Origin
  <2>. QED
      BY <2>1, <2>2
<1>10. ASSUME NEW m \in Msg, Request(m) PROVE SenderOK'
    BY <1>10 DEF Request, sender, SenderOK
<1>11. ASSUME NEW m \in Msg, LiveGivesUp(m) PROVE SenderOK'
    BY <1>11 DEF LiveGivesUp, sender, SenderOK
<1>12. ASSUME NEW m \in Msg, Draft(m) PROVE SenderOK'
    BY <1>12 DEF Draft, sender, SenderOK
<1>13. ASSUME NEW m \in Msg, NEW how \in {"ended", "silent"}, TurnEnds(m, how)
      PROVE  SenderOK'
    BY <1>13 DEF TurnEnds, sender, SenderOK
<1>14. ASSUME NEW m \in Msg, NEW w \in BOOLEAN, NEW stuck \in BOOLEAN, LiveReplies(m, w, stuck)
      PROVE  SenderOK'
    BY <1>14 DEF LiveReplies, sender, SenderOK
<1>15. ASSUME NEW m \in Msg, NEW w \in BOOLEAN, HandedOver(m, w) PROVE SenderOK'
    BY <1>15 DEF HandedOver, sender, SenderOK
<1>16. ASSUME NEW m \in Msg, NEW w \in BOOLEAN, TellDraft(m, w) PROVE SenderOK'
    BY <1>16 DEF TellDraft, sender, SenderOK
<1>17. ASSUME NEW m \in Msg, NEW r \in BOOLEAN, LiveDelivers(m, r) PROVE SenderOK'
    BY <1>17 DEF LiveDelivers, sender, SenderOK
<1>18. ASSUME NEW m \in Msg, NEW yes \in BOOLEAN, Decide(m, yes) PROVE SenderOK'
    BY <1>18 DEF Decide, sender, SenderOK
<1>19. ASSUME NEW m \in Msg, NEW yes \in BOOLEAN, Consent(m, yes) PROVE SenderOK'
    BY <1>19 DEF Consent, sender, SenderOK
<1>20. CASE Crash
    BY <1>20, EmptySeq DEF Crash, SenderOK
<1>21. ASSUME NEW c \in BOOLEAN, Restart(c) PROVE SenderOK'
  <2>. DEFINE S == {m \in Msg : Resumed(m)}
              todo == IF c THEN Only(log, S) ELSE <<>>
  <2>1. chain' = [i \in DOMAIN todo |-> Job(todo[i], fails[todo[i]], FALSE, "resume")]
      BY <1>21 DEF Restart
  <2>2. retries' = retries /\ calling' = calling
      BY <1>21 DEF Restart
  <2>3. todo \in Seq(Msg \cap S)
      BY OnlyType, EmptySeq DEF StoreOK
  <2>4. Len(todo) \in Nat /\ DOMAIN todo = 1..Len(todo) /\ \A i \in DOMAIN todo : todo[i] \in Msg \cap S
    <3>. HIDE DEF todo
    <3>. QED
        BY <2>3, LenProperties
  <2>5. \A i \in DOMAIN todo : Job(todo[i], fails[todo[i]], FALSE, "resume") \in JobOK
      BY <2>4 DEF Job, JobOK, Origin, Resumed, StoreOK
  <2>6. chain' \in [1..Len(todo) -> JobOK]
    <3>. HIDE DEF todo
    <3>. QED
        BY <2>1, <2>4, <2>5
  <2>7. chain' \in Seq(JobOK)
    <3>. HIDE DEF todo
    <3>. QED
        BY <2>4, <2>6, SeqDef
  <2>. QED
      BY <1>21, <2>2, <2>7 DEF SenderOK, Down, Restart
<1>22. CASE UNCHANGED vars
    BY <1>22 DEF vars, sender, SenderOK
<1>. QED
    BY <1>1, <1>2, <1>3, <1>4, <1>5, <1>6, <1>7, <1>8, <1>9, <1>10, <1>11,
       <1>12, <1>13, <1>14, <1>15, <1>16, <1>17, <1>18, <1>19, <1>20, <1>21,
       <1>22 DEF Next, Sender, MsgStep

----------------------------------------------------------------------------
(* The answers, the drafts and the history.                                *)

RestOK ==
    /\ kind \in Mixes /\ {up, door} \subseteq BOOLEAN
    /\ owed \in [Msg -> {"none", "open", "closed"}]
    /\ turn \in [Msg -> {"none", "running", "ended", "silent"}]
    /\ draft \in [Msg -> {"none", "waiting", "approved", "rejected", "delivered", "undelivered"}]
    /\ consent \in [Msg -> {"none", "pending", "allowed", "refused"}]
    /\ live \in [Msg -> {"none", "waiting", "replying", "quiet", "done", "failed"}]
    /\ handed \in SUBSET Msg
    /\ hand \in [Msg -> {"idle", "deciding", "settling", "sending", "delivered", "undelivered"}]
    /\ went \in [Msg -> 0..2]
    /\ first \in [Msg -> {"none", "approved", "rejected"}]
    /\ {pushed, retried, crashes, lost, late} \subseteq Nat

LEMMA RestNext ==
  ASSUME SenderOK, RestOK, [Next]_vars
  PROVE  RestOK'
<1>1. ASSUME NEW reach \in BOOLEAN, Call(reach) PROVE RestOK'
  <2>1. chain # <<>> /\ Current.msg \in Msg
      BY <1>1, HeadJob DEF Call, SenderOK
  <2>. QED
      BY <1>1, <2>1 DEF Call, Returned, outbox, sender, answers, drafts, world, bounds,
         RestOK, Put, Lose, Missed, Verdict, Answered, Decision, Enqueue
<1>2. CASE Sent
  <2>1. chain # <<>> /\ Current.msg \in Msg
      BY <1>2, HeadJob DEF Sent, SenderOK
  <2>. QED
      BY <1>2, <2>1 DEF Sent, Returned, outbox, sender, answers, drafts, world, bounds,
         RestOK, Put, Lose, Missed, Verdict, Answered, Decision, Enqueue
<1>3. ASSUME NEW w \in BOOLEAN, Dropped(w) PROVE RestOK'
  <2>1. chain # <<>> /\ Current.msg \in Msg
      BY <1>3, HeadJob DEF Dropped, SenderOK
  <2>. QED
      BY <1>3, <2>1 DEF Dropped, Returned, outbox, sender, answers, drafts, world, bounds,
         RestOK, Put, Lose, Missed, Verdict, Answered, Decision, Enqueue
<1>4. ASSUME NEW why \in {"missed", "late", "unwritten"}, NEW r \in BOOLEAN, Failed(why, r)
      PROVE  RestOK'
  <2>1. chain # <<>> /\ Current.msg \in Msg
      BY <1>4, HeadJob DEF Failed, SenderOK
  <2>. QED
      BY <1>4, <2>1 DEF Failed, Returned, outbox, sender, answers, drafts, world, bounds,
         RestOK, Put, Lose, Missed, Verdict, Answered, Decision, Enqueue
<1>5. CASE Retry
    BY <1>5 DEF Retry, outbox, sender, answers, drafts, world, bounds, RestOK,
       Put, Lose, Missed, Verdict, Answered, Decision, Enqueue
<1>6. CASE RetryNext
    BY <1>6 DEF RetryNext, outbox, sender, answers, drafts, world, bounds,
       RestOK, Put, Lose, Missed, Verdict, Answered, Decision, Enqueue
<1>7. ASSUME NEW m \in Msg, NEW ok \in BOOLEAN, Notice(m, ok) PROVE RestOK'
    BY <1>7 DEF Notice, outbox, sender, answers, drafts, world, bounds,
       RestOK, Put, Lose, Missed, Verdict, Answered, Decision, Enqueue
<1>8. ASSUME NEW m \in Msg, NEW ok \in BOOLEAN, Sweep(m, ok) PROVE RestOK'
    BY <1>8 DEF Sweep, outbox, sender, drafts, world, RestOK, Lose, Missed
<1>9. ASSUME NEW m \in Msg, NEW ok \in BOOLEAN, SettleDraft(m, ok) PROVE RestOK'
  <2>1. draft' = Put(draft, m, Decision(m))
      /\ \E h \in {"idle", "delivered", "undelivered", "sending"} : hand' = Put(hand, m, h)
      BY <1>9 DEF SettleDraft
  <2>2. Decision(m) \in {"none", "waiting", "approved", "rejected", "delivered", "undelivered"}
      BY DEF Decision, RestOK
  <2>3. /\ UNCHANGED <<consent, first>> /\ UNCHANGED answers /\ UNCHANGED world
        /\ UNCHANGED <<pushed, retried, crashes, late>> /\ (lost' = lost \/ lost' = lost + 1)
      BY <1>9 DEF SettleDraft, Lose, Missed, RestOK
  <2>. QED
      BY <2>1, <2>2, <2>3 DEF RestOK, Put, answers, world
<1>10. ASSUME NEW m \in Msg, Request(m) PROVE RestOK'
    BY <1>10 DEF Request, outbox, sender, answers, drafts, world, bounds,
       RestOK, Put, Lose, Missed, Verdict, Answered, Decision, Enqueue
<1>11. ASSUME NEW m \in Msg, LiveGivesUp(m) PROVE RestOK'
    BY <1>11 DEF LiveGivesUp, outbox, sender, answers, drafts, world, bounds,
       RestOK, Put, Lose, Missed, Verdict, Answered, Decision, Enqueue
<1>12. ASSUME NEW m \in Msg, Draft(m) PROVE RestOK'
    BY <1>12 DEF Draft, outbox, sender, answers, drafts, world, bounds,
       RestOK, Put, Lose, Missed, Verdict, Answered, Decision, Enqueue
<1>13. ASSUME NEW m \in Msg, NEW how \in {"ended", "silent"}, TurnEnds(m, how)
      PROVE  RestOK'
    BY <1>13 DEF TurnEnds, outbox, sender, answers, drafts, world, bounds,
       RestOK, Put, Lose, Missed, Verdict, Answered, Decision, Enqueue
<1>14. ASSUME NEW m \in Msg, NEW w \in BOOLEAN, NEW stuck \in BOOLEAN, LiveReplies(m, w, stuck)
      PROVE  RestOK'
    BY <1>14 DEF LiveReplies, outbox, sender, answers, drafts, world, bounds,
       RestOK, Put, Lose, Missed, Verdict, Answered, Decision, Enqueue
<1>15. ASSUME NEW m \in Msg, NEW w \in BOOLEAN, HandedOver(m, w) PROVE RestOK'
    BY <1>15 DEF HandedOver, outbox, sender, answers, drafts, world, bounds,
       RestOK, Put, Lose, Missed, Verdict, Answered, Decision, Enqueue
<1>16. ASSUME NEW m \in Msg, NEW w \in BOOLEAN, TellDraft(m, w) PROVE RestOK'
    BY <1>16 DEF TellDraft, outbox, sender, answers, drafts, world, bounds,
       RestOK, Put, Lose, Missed, Verdict, Answered, Decision, Enqueue
<1>17. ASSUME NEW m \in Msg, NEW r \in BOOLEAN, LiveDelivers(m, r) PROVE RestOK'
    BY <1>17 DEF LiveDelivers, outbox, sender, answers, drafts, world, bounds,
       RestOK, Put, Lose, Missed, Verdict, Answered, Decision, Enqueue
<1>18. ASSUME NEW m \in Msg, NEW yes \in BOOLEAN, Decide(m, yes) PROVE RestOK'
    BY <1>18 DEF Decide, outbox, sender, answers, drafts, world, bounds,
       RestOK, Put, Lose, Missed, Verdict, Answered, Decision, Enqueue
<1>19. ASSUME NEW m \in Msg, NEW yes \in BOOLEAN, Consent(m, yes) PROVE RestOK'
    BY <1>19 DEF Consent, outbox, sender, answers, drafts, world, bounds,
       RestOK, Put, Lose, Missed, Verdict, Answered, Decision, Enqueue
<1>20. CASE Crash
  <2>1. /\ crashes' \in Nat /\ up' = FALSE /\ handed' = {} /\ live' = [n \in Msg |-> "none"]
        /\ hand' = [n \in Msg |-> "idle"]
      BY <1>20 DEF Crash, RestOK
  <2>2. UNCHANGED <<owed, turn, draft, consent, first, kind, door, went, pushed, retried, lost, late>>
      BY <1>20 DEF Crash
  <2>3. /\ live' \in [Msg -> {"none", "waiting", "replying", "quiet", "done", "failed"}]
        /\ hand' \in [Msg -> {"idle", "deciding", "settling", "sending", "delivered", "undelivered"}]
        /\ handed' \in SUBSET Msg
      BY <2>1
  <2>4. {up', door'} \subseteq BOOLEAN
      BY <2>1, <2>2 DEF RestOK
  <2>5. {pushed', retried', crashes', lost', late'} \subseteq Nat
      BY <2>1, <2>2 DEF RestOK
  <2>. QED
      BY <2>2, <2>3, <2>4, <2>5 DEF RestOK
<1>21. ASSUME NEW c \in BOOLEAN, Restart(c) PROVE RestOK'
    BY <1>21 DEF Restart, outbox, sender, answers, drafts, world, bounds,
       RestOK, Put, Lose, Missed, Verdict, Answered, Decision, Enqueue
<1>22. CASE UNCHANGED vars
    BY <1>22 DEF vars, outbox, sender, answers, drafts, world, bounds, RestOK
<1>. QED
    BY <1>1, <1>2, <1>3, <1>4, <1>5, <1>6, <1>7, <1>8, <1>9, <1>10, <1>11,
       <1>12, <1>13, <1>14, <1>15, <1>16, <1>17, <1>18, <1>19, <1>20, <1>21,
       <1>22 DEF Next, Sender, MsgStep

----------------------------------------------------------------------------
(* What a step makes of one message: it goes through the chain only if it  *)
(* was on its way before, or is enqueued by its own push, sweep or draft.  *)

Has(v, by) == \E i \in DOMAIN chain : chain[i].msg = v /\ chain[i].by = by
InChain(v) == \E by \in Origin : Has(v, by)
InRetries(v) == \E i \in DOMAIN retries : retries[i] = v
Going(v) == Known(v) \/ InChain(v) \/ InRetries(v) \/ went[v] > 0

Opened(v, by) ==
    /\ Enqueue(v, by) /\ ~Known(v)
    /\ \/ by = "push" /\ kind[v] = "notice"
       \/ by = "sweep" /\ owed[v] = "open"
       \/ by = "draft" /\ hand[v] = "settling" /\ Decision(v) # "rejected"

\* How a job comes into the chain.
Entered(v, by) ==
    \/ Opened(v, by)
    \/ by = "retry" /\ InRetries(v)
    \/ by = "resume" /\ Known(v) /\ ~up

LEMMA JoinsHas ==
  ASSUME SenderOK, NEW j \in JobOK, chain' = Append(chain, j), NEW v, NEW by, Has(v, by)'
  PROVE  Has(v, by) \/ (v = j.msg /\ by = j.by)
<1>1. PICK i \in DOMAIN chain' : chain'[i].msg = v /\ chain'[i].by = by
    BY DEF Has
<1>2. CASE i = Len(chain) + 1
    BY <1>1, <1>2, Joins
<1>3. CASE i # Len(chain) + 1
  <2>1. i \in DOMAIN chain /\ chain'[i] = chain[i]
      BY <1>3, Joins
  <2>. QED
      BY <1>1, <2>1 DEF Has
<1>. QED
    BY <1>2, <1>3

LEMMA LeavesHas ==
  ASSUME SenderOK, chain # <<>>, chain' = Tail(chain), NEW v, NEW by, Has(v, by)'
  PROVE  Has(v, by)
<1>1. PICK i \in DOMAIN chain' : chain'[i].msg = v /\ chain'[i].by = by
    BY DEF Has
<1>2. i + 1 \in DOMAIN chain /\ chain'[i] = chain[i + 1]
    BY Leaves
<1>. QED
    BY <1>1, <1>2 DEF Has

LEMMA TriedHas ==
  ASSUME SenderOK, chain # <<>>, ~LastTry(Current), chain' = AgainFirst, NEW v, NEW by, Has(v, by)'
  PROVE  Has(v, by)
<1>1. PICK i \in DOMAIN chain' : chain'[i].msg = v /\ chain'[i].by = by
    BY DEF Has
<1>2. i \in DOMAIN chain
    BY TriedAgain
<1>3. chain'[i].msg = chain[i].msg /\ chain'[i].by = chain[i].by
  <2>1. CASE i = 1
    <3>1. chain'[1] = [Current EXCEPT !.tried = Current.tried + 1] /\ Current \in JobOK
        BY TriedAgain, HeadJob
    <3>. QED
        BY <2>1, <3>1 DEF JobOK, Current
  <2>2. CASE i # 1
      BY <1>2, <2>2, TriedAgain
  <2>. QED
      BY <2>1, <2>2
<1>. QED
    BY <1>1, <1>2, <1>3 DEF Has

LEMMA EnqueueHas ==
  ASSUME SenderOK, NEW m \in Msg, NEW o \in Origin, Enqueue(m, o), NEW v, NEW by, Has(v, by)'
  PROVE  Has(v, by) \/ (v = m /\ by = o)
<1>. DEFINE j == Job(m, 0, FALSE, o)
<1>1. j \in JobOK /\ j.msg = m /\ j.by = o
    BY OutboundConstants DEF Job, JobOK, OutboundConstants
<1>2. chain' = Append(chain, j)
    BY DEF Enqueue
<1>. QED
    BY <1>1, <1>2, JoinsHas

\* A job of the chain was there before, or has just come.
LEMMA HasFrom ==
  ASSUME StoreOK, SenderOK, NEW v \in Msg, NEW by, Has(v, by)', [Next]_vars
  PROVE  Has(v, by) \/ Entered(v, by)
<1>1. ASSUME NEW reach \in BOOLEAN, Call(reach) PROVE Has(v, by) \/ Entered(v, by)
    BY <1>1 DEF Call, sender, Has
<1>2. CASE Sent
  <2>1. chain # <<>> /\ chain' = Tail(chain)
      BY <1>2 DEF Sent, Returned, SenderOK
  <2>. QED
      BY <2>1, LeavesHas
<1>3. ASSUME NEW w \in BOOLEAN, Dropped(w) PROVE Has(v, by) \/ Entered(v, by)
  <2>1. chain # <<>> /\ chain' = Tail(chain)
      BY <1>3 DEF Dropped, Returned, SenderOK
  <2>. QED
      BY <2>1, LeavesHas
<1>4. ASSUME NEW why \in {"missed", "late", "unwritten"}, NEW r \in BOOLEAN, Failed(why, r)
      PROVE  Has(v, by) \/ Entered(v, by)
  <2>1. calling # "no" /\ chain # <<>>
      BY <1>4 DEF Failed, SenderOK
  <2>2. CASE r /\ ~LastTry(Current)
      BY <1>4, <2>1, <2>2, TriedHas DEF Failed
  <2>3. CASE ~(r /\ ~LastTry(Current))
      BY <1>4, <2>1, <2>3, LeavesHas DEF Failed, Returned
  <2>. QED
      BY <2>2, <2>3
<1>5. CASE Retry
    BY <1>5 DEF Retry, sender, Has
<1>6. CASE RetryNext
  <2>. DEFINE j == Job(retries[1], fails[retries[1]], TRUE, "retry")
  <2>1. retries # <<>> /\ chain' = Append(chain, j)
      BY <1>6 DEF RetryNext
  <2>2. retries[1] \in Msg
      BY <2>1, EmptySeq, ElementOfSeq DEF SenderOK
  <2>3. j \in JobOK /\ j.by = "retry" /\ j.msg = retries[1]
      BY <2>2 DEF Job, JobOK, Origin, StoreOK
  <2>4. Has(v, by) \/ (v = j.msg /\ by = j.by)
      BY <2>1, <2>3, JoinsHas
  <2>5. 1 \in DOMAIN retries
      BY <2>1, EmptySeq, LenProperties DEF SenderOK
  <2>. QED
      BY <2>3, <2>4, <2>5 DEF InRetries, Entered
<1>7. ASSUME NEW m \in Msg, NEW ok \in BOOLEAN, Notice(m, ok)
      PROVE  Has(v, by) \/ Entered(v, by)
  <2>1. CASE UNCHANGED sender
      BY <2>1 DEF sender, Has
  <2>2. CASE ~UNCHANGED sender
    <3>1. Enqueue(m, "push") /\ Opened(m, "push")
        BY <1>7, <2>2 DEF Notice, Opened
    <3>2. Has(v, by) \/ (v = m /\ by = "push")
        BY <3>1, EnqueueHas DEF Origin
    <3>. QED
        BY <3>1, <3>2 DEF Entered
  <2>. QED
      BY <2>1, <2>2
<1>8. ASSUME NEW m \in Msg, NEW ok \in BOOLEAN, Sweep(m, ok)
      PROVE  Has(v, by) \/ Entered(v, by)
  <2>1. CASE UNCHANGED sender
      BY <2>1 DEF sender, Has
  <2>2. CASE ~UNCHANGED sender
    <3>1. Enqueue(m, "sweep") /\ Opened(m, "sweep")
        BY <1>8, <2>2 DEF Sweep, Opened
    <3>2. Has(v, by) \/ (v = m /\ by = "sweep")
        BY <3>1, EnqueueHas DEF Origin
    <3>. QED
        BY <3>1, <3>2 DEF Entered
  <2>. QED
      BY <2>1, <2>2
<1>9. ASSUME NEW m \in Msg, NEW ok \in BOOLEAN, SettleDraft(m, ok)
      PROVE  Has(v, by) \/ Entered(v, by)
  <2>1. CASE UNCHANGED sender
      BY <2>1 DEF sender, Has
  <2>2. CASE ~UNCHANGED sender
    <3>1. Enqueue(m, "draft") /\ Opened(m, "draft")
        BY <1>9, <2>2 DEF SettleDraft, Opened
    <3>2. Has(v, by) \/ (v = m /\ by = "draft")
        BY <3>1, EnqueueHas DEF Origin
    <3>. QED
        BY <3>1, <3>2 DEF Entered
  <2>. QED
      BY <2>1, <2>2
<1>10. ASSUME NEW m \in Msg, Request(m) PROVE Has(v, by) \/ Entered(v, by)
    BY <1>10 DEF Request, sender, Has
<1>11. ASSUME NEW m \in Msg, LiveGivesUp(m) PROVE Has(v, by) \/ Entered(v, by)
    BY <1>11 DEF LiveGivesUp, sender, Has
<1>12. ASSUME NEW m \in Msg, Draft(m) PROVE Has(v, by) \/ Entered(v, by)
    BY <1>12 DEF Draft, sender, Has
<1>13. ASSUME NEW m \in Msg, NEW how \in {"ended", "silent"}, TurnEnds(m, how)
      PROVE  Has(v, by) \/ Entered(v, by)
    BY <1>13 DEF TurnEnds, sender, Has
<1>14. ASSUME NEW m \in Msg, NEW w \in BOOLEAN, NEW stuck \in BOOLEAN, LiveReplies(m, w, stuck)
      PROVE  Has(v, by) \/ Entered(v, by)
    BY <1>14 DEF LiveReplies, sender, Has
<1>15. ASSUME NEW m \in Msg, NEW w \in BOOLEAN, HandedOver(m, w)
      PROVE  Has(v, by) \/ Entered(v, by)
    BY <1>15 DEF HandedOver, sender, Has
<1>16. ASSUME NEW m \in Msg, NEW w \in BOOLEAN, TellDraft(m, w)
      PROVE  Has(v, by) \/ Entered(v, by)
    BY <1>16 DEF TellDraft, sender, Has
<1>17. ASSUME NEW m \in Msg, NEW r \in BOOLEAN, LiveDelivers(m, r)
      PROVE  Has(v, by) \/ Entered(v, by)
    BY <1>17 DEF LiveDelivers, sender, Has
<1>18. ASSUME NEW m \in Msg, NEW yes \in BOOLEAN, Decide(m, yes)
      PROVE  Has(v, by) \/ Entered(v, by)
    BY <1>18 DEF Decide, sender, Has
<1>19. ASSUME NEW m \in Msg, NEW yes \in BOOLEAN, Consent(m, yes)
      PROVE  Has(v, by) \/ Entered(v, by)
    BY <1>19 DEF Consent, sender, Has
<1>20. CASE Crash
    BY <1>20 DEF Crash, sender, Has
<1>21. ASSUME NEW c \in BOOLEAN, Restart(c) PROVE Has(v, by) \/ Entered(v, by)
  <2>. DEFINE S == {m \in Msg : Resumed(m)}
              todo == IF c THEN Only(log, S) ELSE <<>>
  <2>1. chain' = [i \in DOMAIN todo |-> Job(todo[i], fails[todo[i]], FALSE, "resume")]
      BY <1>21 DEF Restart
  <2>2. PICK i \in DOMAIN chain' : chain'[i].msg = v /\ chain'[i].by = by
      BY DEF Has
  <2>3. i \in DOMAIN todo /\ todo[i] = v /\ by = "resume"
    <3>. HIDE DEF todo
    <3>. QED
        BY <2>1, <2>2 DEF Job
  <2>4. todo \in Seq(Msg \cap S)
      BY OnlyType, EmptySeq DEF StoreOK
  <2>5. v \in S
    <3>. HIDE DEF todo, S
    <3>. QED
        BY <2>3, <2>4, ElementOfSeq, LenProperties
  <2>6. Known(v)
      BY <2>5 DEF Resumed, Pending, Known
  <2>. QED
      BY <1>21, <2>3, <2>6 DEF Restart, Entered
<1>22. CASE UNCHANGED vars
    BY <1>22 DEF vars, sender, Has
<1>. QED
    BY <1>1, <1>2, <1>3, <1>4, <1>5, <1>6, <1>7, <1>8, <1>9, <1>10, <1>11,
       <1>12, <1>13, <1>14, <1>15, <1>16, <1>17, <1>18, <1>19, <1>20, <1>21,
       <1>22 DEF Next, Sender, MsgStep

\* A settled receipt is not opened by that, nor is another one.
LEMMA SettleKnown ==
  ASSUME StoreOK, NEW m \in Msg, NEW s \in {"sent", "dropped"}, SettleReceipt(m, s),
         NEW v \in Msg, Known(v)'
  PROVE  Known(v)
BY DEF SettleReceipt, StoreOK, Known, Put

LEMMA EnqueueKnown ==
  ASSUME StoreOK, NEW m \in Msg, NEW by, Enqueue(m, by), NEW v \in Msg
  PROVE  Known(v)' <=> Known(v) \/ v = m
BY DEF Enqueue, StoreOK, Known, Put

LEMMA KnownFrom ==
  ASSUME StoreOK, SenderOK, NEW v \in Msg, Known(v)', [Next]_vars
  PROVE  Known(v) \/ (\E by \in Origin : Opened(v, by))
<1>1. ASSUME NEW reach \in BOOLEAN, Call(reach)
      PROVE  Known(v) \/ (\E by \in Origin : Opened(v, by))
    BY <1>1 DEF Call, outbox, sender, Known
<1>2. CASE Sent
  <2>1. Current.msg \in Msg
      BY <1>2, HeadJob DEF Sent, SenderOK
  <2>. QED
      BY <1>2, <2>1, SettleKnown DEF Sent
<1>3. ASSUME NEW w \in BOOLEAN, Dropped(w)
      PROVE  Known(v) \/ (\E by \in Origin : Opened(v, by))
  <2>1. Current.msg \in Msg
      BY <1>3, HeadJob DEF Dropped, SenderOK
  <2>. QED
      BY <1>3, <2>1, SettleKnown DEF Dropped, outbox, Known
<1>4. ASSUME NEW why \in {"missed", "late", "unwritten"}, NEW r \in BOOLEAN, Failed(why, r)
      PROVE  Known(v) \/ (\E by \in Origin : Opened(v, by))
    BY <1>4 DEF Failed, outbox, sender, Known
<1>5. CASE Retry
    BY <1>5 DEF Retry, outbox, sender, Known
<1>6. CASE RetryNext
    BY <1>6 DEF RetryNext, outbox, sender, Known
<1>7. ASSUME NEW m \in Msg, NEW ok \in BOOLEAN, Notice(m, ok)
      PROVE  Known(v) \/ (\E by \in Origin : Opened(v, by))
  <2>1. CASE UNCHANGED outbox
      BY <2>1 DEF outbox, Known
  <2>2. CASE ~UNCHANGED outbox
    <3>1. Enqueue(m, "push") /\ Opened(m, "push")
        BY <1>7, <2>2 DEF Notice, Opened
    <3>. QED
        BY <3>1, EnqueueKnown DEF Origin
  <2>. QED
      BY <2>1, <2>2
<1>8. ASSUME NEW m \in Msg, NEW ok \in BOOLEAN, Sweep(m, ok)
      PROVE  Known(v) \/ (\E by \in Origin : Opened(v, by))
  <2>1. CASE UNCHANGED outbox
      BY <2>1 DEF outbox, Known
  <2>2. CASE ~UNCHANGED outbox
    <3>1. Enqueue(m, "sweep") /\ Opened(m, "sweep")
        BY <1>8, <2>2 DEF Sweep, Opened
    <3>. QED
        BY <3>1, EnqueueKnown DEF Origin
  <2>. QED
      BY <2>1, <2>2
<1>9. ASSUME NEW m \in Msg, NEW ok \in BOOLEAN, SettleDraft(m, ok)
      PROVE  Known(v) \/ (\E by \in Origin : Opened(v, by))
  <2>1. CASE UNCHANGED outbox
      BY <2>1 DEF outbox, Known
  <2>2. CASE ~UNCHANGED outbox
    <3>1. Enqueue(m, "draft") /\ Opened(m, "draft")
        BY <1>9, <2>2 DEF SettleDraft, Opened
    <3>. QED
        BY <3>1, EnqueueKnown DEF Origin
  <2>. QED
      BY <2>1, <2>2
<1>10. ASSUME NEW m \in Msg, Request(m)
      PROVE  Known(v) \/ (\E by \in Origin : Opened(v, by))
    BY <1>10 DEF Request, outbox, sender, Known
<1>11. ASSUME NEW m \in Msg, LiveGivesUp(m)
      PROVE  Known(v) \/ (\E by \in Origin : Opened(v, by))
    BY <1>11 DEF LiveGivesUp, outbox, sender, Known
<1>12. ASSUME NEW m \in Msg, Draft(m)
      PROVE  Known(v) \/ (\E by \in Origin : Opened(v, by))
    BY <1>12 DEF Draft, outbox, sender, Known
<1>13. ASSUME NEW m \in Msg, NEW how \in {"ended", "silent"}, TurnEnds(m, how)
      PROVE  Known(v) \/ (\E by \in Origin : Opened(v, by))
    BY <1>13 DEF TurnEnds, outbox, sender, Known
<1>14. ASSUME NEW m \in Msg, NEW w \in BOOLEAN, NEW stuck \in BOOLEAN, LiveReplies(m, w, stuck)
      PROVE  Known(v) \/ (\E by \in Origin : Opened(v, by))
    BY <1>14 DEF LiveReplies, outbox, sender, Known
<1>15. ASSUME NEW m \in Msg, NEW w \in BOOLEAN, HandedOver(m, w)
      PROVE  Known(v) \/ (\E by \in Origin : Opened(v, by))
    BY <1>15 DEF HandedOver, outbox, sender, Known
<1>16. ASSUME NEW m \in Msg, NEW w \in BOOLEAN, TellDraft(m, w)
      PROVE  Known(v) \/ (\E by \in Origin : Opened(v, by))
    BY <1>16 DEF TellDraft, outbox, sender, Known
<1>17. ASSUME NEW m \in Msg, NEW r \in BOOLEAN, LiveDelivers(m, r)
      PROVE  Known(v) \/ (\E by \in Origin : Opened(v, by))
    BY <1>17 DEF LiveDelivers, outbox, sender, Known
<1>18. ASSUME NEW m \in Msg, NEW yes \in BOOLEAN, Decide(m, yes)
      PROVE  Known(v) \/ (\E by \in Origin : Opened(v, by))
    BY <1>18 DEF Decide, outbox, sender, Known
<1>19. ASSUME NEW m \in Msg, NEW yes \in BOOLEAN, Consent(m, yes)
      PROVE  Known(v) \/ (\E by \in Origin : Opened(v, by))
    BY <1>19 DEF Consent, outbox, sender, Known
<1>20. CASE Crash
    BY <1>20 DEF Crash, outbox, sender, Known
<1>21. ASSUME NEW c \in BOOLEAN, Restart(c)
      PROVE  Known(v) \/ (\E by \in Origin : Opened(v, by))
    BY <1>21 DEF Restart, outbox, sender, Known
<1>22. CASE UNCHANGED vars
    BY <1>22 DEF vars, outbox, Known
<1>. QED
    BY <1>1, <1>2, <1>3, <1>4, <1>5, <1>6, <1>7, <1>8, <1>9, <1>10, <1>11,
       <1>12, <1>13, <1>14, <1>15, <1>16, <1>17, <1>18, <1>19, <1>20, <1>21,
       <1>22 DEF Next, Sender, MsgStep

LEMMA RetriesFrom ==
  ASSUME StoreOK, SenderOK, NEW v \in Msg, InRetries(v)', [Next]_vars
  PROVE  InRetries(v) \/ Known(v)
<1>1. ASSUME NEW reach \in BOOLEAN, Call(reach) PROVE InRetries(v) \/ Known(v)
    BY <1>1 DEF Call, Enqueue, Returned, sender, InRetries
<1>2. CASE Sent
    BY <1>2 DEF Sent, Enqueue, Returned, sender, InRetries
<1>3. ASSUME NEW w \in BOOLEAN, Dropped(w) PROVE InRetries(v) \/ Known(v)
    BY <1>3 DEF Dropped, Enqueue, Returned, sender, InRetries
<1>4. ASSUME NEW why \in {"missed", "late", "unwritten"}, NEW r \in BOOLEAN, Failed(why, r)
      PROVE  InRetries(v) \/ Known(v)
    BY <1>4 DEF Failed, Enqueue, Returned, sender, InRetries
<1>5. CASE Retry
  <2>. DEFINE S == {m \in Msg : Pending(m)}
  <2>1. retries' = Only(log, S)
      BY <1>5 DEF Retry
  <2>2. PICK i \in DOMAIN Only(log, S) : Only(log, S)[i] = v
      BY <2>1 DEF InRetries
  <2>3. v \in S
    <3>. HIDE DEF S
    <3>. QED
        BY <2>2, OnlyElements DEF StoreOK
  <2>. QED
      BY <2>3 DEF Pending, Known
<1>6. CASE RetryNext
  <2>1. retries # <<>> /\ retries' = Tail(retries)
      BY <1>6 DEF RetryNext
  <2>2. retries' \in Seq(Msg) /\ Len(retries') = Len(retries) - 1
        /\ \A i \in 1..Len(retries') : retries'[i] = retries[i + 1]
      BY <2>1, HeadTailProperties DEF SenderOK
  <2>3. PICK i \in DOMAIN retries' : retries'[i] = v
      BY DEF InRetries
  <2>4. DOMAIN retries' = 1..Len(retries') /\ DOMAIN retries = 1..Len(retries)
      BY <2>2, LenProperties DEF SenderOK
  <2>5. Len(retries') \in Nat /\ Len(retries) \in Nat
      BY <2>2, LenProperties DEF SenderOK
  <2>6. i + 1 \in DOMAIN retries
      BY <2>2, <2>3, <2>4, <2>5
  <2>. QED
      BY <2>2, <2>3, <2>4, <2>6 DEF InRetries
<1>7. ASSUME NEW m \in Msg, NEW ok \in BOOLEAN, Notice(m, ok)
      PROVE  InRetries(v) \/ Known(v)
    BY <1>7 DEF Notice, Enqueue, Returned, sender, InRetries
<1>8. ASSUME NEW m \in Msg, NEW ok \in BOOLEAN, Sweep(m, ok)
      PROVE  InRetries(v) \/ Known(v)
    BY <1>8 DEF Sweep, Enqueue, Returned, sender, InRetries
<1>9. ASSUME NEW m \in Msg, NEW ok \in BOOLEAN, SettleDraft(m, ok)
      PROVE  InRetries(v) \/ Known(v)
    BY <1>9 DEF SettleDraft, Enqueue, Returned, sender, InRetries
<1>10. ASSUME NEW m \in Msg, Request(m) PROVE InRetries(v) \/ Known(v)
    BY <1>10 DEF Request, Enqueue, Returned, sender, InRetries
<1>11. ASSUME NEW m \in Msg, LiveGivesUp(m) PROVE InRetries(v) \/ Known(v)
    BY <1>11 DEF LiveGivesUp, Enqueue, Returned, sender, InRetries
<1>12. ASSUME NEW m \in Msg, Draft(m) PROVE InRetries(v) \/ Known(v)
    BY <1>12 DEF Draft, Enqueue, Returned, sender, InRetries
<1>13. ASSUME NEW m \in Msg, NEW how \in {"ended", "silent"}, TurnEnds(m, how)
      PROVE  InRetries(v) \/ Known(v)
    BY <1>13 DEF TurnEnds, Enqueue, Returned, sender, InRetries
<1>14. ASSUME NEW m \in Msg, NEW w \in BOOLEAN, NEW stuck \in BOOLEAN, LiveReplies(m, w, stuck)
      PROVE  InRetries(v) \/ Known(v)
    BY <1>14 DEF LiveReplies, Enqueue, Returned, sender, InRetries
<1>15. ASSUME NEW m \in Msg, NEW w \in BOOLEAN, HandedOver(m, w)
      PROVE  InRetries(v) \/ Known(v)
    BY <1>15 DEF HandedOver, Enqueue, Returned, sender, InRetries
<1>16. ASSUME NEW m \in Msg, NEW w \in BOOLEAN, TellDraft(m, w)
      PROVE  InRetries(v) \/ Known(v)
    BY <1>16 DEF TellDraft, Enqueue, Returned, sender, InRetries
<1>17. ASSUME NEW m \in Msg, NEW r \in BOOLEAN, LiveDelivers(m, r)
      PROVE  InRetries(v) \/ Known(v)
    BY <1>17 DEF LiveDelivers, Enqueue, Returned, sender, InRetries
<1>18. ASSUME NEW m \in Msg, NEW yes \in BOOLEAN, Decide(m, yes)
      PROVE  InRetries(v) \/ Known(v)
    BY <1>18 DEF Decide, Enqueue, Returned, sender, InRetries
<1>19. ASSUME NEW m \in Msg, NEW yes \in BOOLEAN, Consent(m, yes)
      PROVE  InRetries(v) \/ Known(v)
    BY <1>19 DEF Consent, Enqueue, Returned, sender, InRetries
<1>20. CASE Crash
    BY <1>20 DEF Crash, Enqueue, Returned, sender, InRetries
<1>21. ASSUME NEW c \in BOOLEAN, Restart(c) PROVE InRetries(v) \/ Known(v)
    BY <1>21 DEF Restart, Enqueue, Returned, sender, InRetries
<1>22. CASE UNCHANGED vars
    BY <1>22 DEF vars, sender, InRetries
<1>. QED
    BY <1>1, <1>2, <1>3, <1>4, <1>5, <1>6, <1>7, <1>8, <1>9, <1>10, <1>11,
       <1>12, <1>13, <1>14, <1>15, <1>16, <1>17, <1>18, <1>19, <1>20, <1>21,
       <1>22 DEF Next, Sender, MsgStep

LEMMA WentFrom ==
  ASSUME SenderOK, RestOK, NEW v \in Msg, went[v]' # went[v], [Next]_vars
  PROVE  InChain(v) /\ calling = "no" /\ v = Current.msg
<1>1. ASSUME NEW reach \in BOOLEAN, Call(reach)
      PROVE  InChain(v) /\ calling = "no" /\ v = Current.msg
  <2>1. chain # <<>> /\ calling = "no" /\ went' # went
      BY <1>1 DEF Call
  <2>2. Current.msg \in Msg /\ Current.by \in Origin /\ 1 \in DOMAIN chain
      BY <2>1, HeadJob
  <2>3. v = Current.msg
      BY <1>1, <2>2 DEF Call, RestOK
  <2>. QED
      BY <2>1, <2>2, <2>3 DEF InChain, Has, Current
<1>2. CASE Sent
    BY <1>2 DEF Sent, world
<1>3. ASSUME NEW w \in BOOLEAN, Dropped(w)
      PROVE  InChain(v) /\ calling = "no" /\ v = Current.msg
    BY <1>3 DEF Dropped, world
<1>4. ASSUME NEW why \in {"missed", "late", "unwritten"}, NEW r \in BOOLEAN, Failed(why, r)
      PROVE  InChain(v) /\ calling = "no" /\ v = Current.msg
    BY <1>4 DEF Failed, world
<1>5. CASE Retry
    BY <1>5 DEF Retry, world
<1>6. CASE RetryNext
    BY <1>6 DEF RetryNext, world
<1>7. ASSUME NEW m \in Msg, NEW ok \in BOOLEAN, Notice(m, ok)
      PROVE  InChain(v) /\ calling = "no" /\ v = Current.msg
    BY <1>7 DEF Notice, world
<1>8. ASSUME NEW m \in Msg, NEW ok \in BOOLEAN, Sweep(m, ok)
      PROVE  InChain(v) /\ calling = "no" /\ v = Current.msg
    BY <1>8 DEF Sweep, world
<1>9. ASSUME NEW m \in Msg, NEW ok \in BOOLEAN, SettleDraft(m, ok)
      PROVE  InChain(v) /\ calling = "no" /\ v = Current.msg
    BY <1>9 DEF SettleDraft, world
<1>10. ASSUME NEW m \in Msg, Request(m)
      PROVE  InChain(v) /\ calling = "no" /\ v = Current.msg
    BY <1>10 DEF Request, world
<1>11. ASSUME NEW m \in Msg, LiveGivesUp(m)
      PROVE  InChain(v) /\ calling = "no" /\ v = Current.msg
    BY <1>11 DEF LiveGivesUp, world
<1>12. ASSUME NEW m \in Msg, Draft(m)
      PROVE  InChain(v) /\ calling = "no" /\ v = Current.msg
    BY <1>12 DEF Draft, world
<1>13. ASSUME NEW m \in Msg, NEW how \in {"ended", "silent"}, TurnEnds(m, how)
      PROVE  InChain(v) /\ calling = "no" /\ v = Current.msg
    BY <1>13 DEF TurnEnds, world
<1>14. ASSUME NEW m \in Msg, NEW w \in BOOLEAN, NEW stuck \in BOOLEAN, LiveReplies(m, w, stuck)
      PROVE  InChain(v) /\ calling = "no" /\ v = Current.msg
    BY <1>14 DEF LiveReplies, world
<1>15. ASSUME NEW m \in Msg, NEW w \in BOOLEAN, HandedOver(m, w)
      PROVE  InChain(v) /\ calling = "no" /\ v = Current.msg
    BY <1>15 DEF HandedOver, world
<1>16. ASSUME NEW m \in Msg, NEW w \in BOOLEAN, TellDraft(m, w)
      PROVE  InChain(v) /\ calling = "no" /\ v = Current.msg
    BY <1>16 DEF TellDraft, world
<1>17. ASSUME NEW m \in Msg, NEW r \in BOOLEAN, LiveDelivers(m, r)
      PROVE  InChain(v) /\ calling = "no" /\ v = Current.msg
    BY <1>17 DEF LiveDelivers, world
<1>18. ASSUME NEW m \in Msg, NEW yes \in BOOLEAN, Decide(m, yes)
      PROVE  InChain(v) /\ calling = "no" /\ v = Current.msg
    BY <1>18 DEF Decide, world
<1>19. ASSUME NEW m \in Msg, NEW yes \in BOOLEAN, Consent(m, yes)
      PROVE  InChain(v) /\ calling = "no" /\ v = Current.msg
    BY <1>19 DEF Consent, world
<1>20. CASE Crash
    BY <1>20 DEF Crash, world
<1>21. ASSUME NEW c \in BOOLEAN, Restart(c)
      PROVE  InChain(v) /\ calling = "no" /\ v = Current.msg
    BY <1>21 DEF Restart, world
<1>22. CASE UNCHANGED vars
    BY <1>22 DEF vars, world
<1>. QED
    BY <1>1, <1>2, <1>3, <1>4, <1>5, <1>6, <1>7, <1>8, <1>9, <1>10, <1>11,
       <1>12, <1>13, <1>14, <1>15, <1>16, <1>17, <1>18, <1>19, <1>20, <1>21,
       <1>22 DEF Next, Sender, MsgStep

----------------------------------------------------------------------------
(* What a message is decides what may happen to it.                        *)

ChainKind(v) ==
    /\ Has(v, "push") => kind[v] = "notice"
    /\ Has(v, "sweep") => kind[v] = "answer"
    /\ Has(v, "draft") => kind[v] = "draft"

BookKind(v) ==
    /\ owed[v] # "none" \/ live[v] # "none" \/ v \in handed => kind[v] = "answer"
    /\ hand[v] # "idle" \/ draft[v] # "none" \/ consent[v] # "none" => kind[v] = "draft"

LEMMA HeadHas ==
  ASSUME SenderOK, chain # <<>>
  PROVE  Has(Current.msg, Current.by)
BY HeadJob DEF Has, Current

LEMMA KindSame ==
  ASSUME [Next]_vars
  PROVE  kind' = kind
<1>1. ASSUME NEW reach \in BOOLEAN, Call(reach) PROVE kind' = kind
    BY <1>1 DEF Call, world
<1>2. CASE Sent
    BY <1>2 DEF Sent, world
<1>3. ASSUME NEW w \in BOOLEAN, Dropped(w) PROVE kind' = kind
    BY <1>3 DEF Dropped, world
<1>4. ASSUME NEW why \in {"missed", "late", "unwritten"}, NEW r \in BOOLEAN, Failed(why, r)
      PROVE  kind' = kind
    BY <1>4 DEF Failed, world
<1>5. CASE Retry
    BY <1>5 DEF Retry, world
<1>6. CASE RetryNext
    BY <1>6 DEF RetryNext, world
<1>7. ASSUME NEW m \in Msg, NEW ok \in BOOLEAN, Notice(m, ok) PROVE kind' = kind
    BY <1>7 DEF Notice, world
<1>8. ASSUME NEW m \in Msg, NEW ok \in BOOLEAN, Sweep(m, ok) PROVE kind' = kind
    BY <1>8 DEF Sweep, world
<1>9. ASSUME NEW m \in Msg, NEW ok \in BOOLEAN, SettleDraft(m, ok) PROVE kind' = kind
    BY <1>9 DEF SettleDraft, world
<1>10. ASSUME NEW m \in Msg, Request(m) PROVE kind' = kind
    BY <1>10 DEF Request, world
<1>11. ASSUME NEW m \in Msg, LiveGivesUp(m) PROVE kind' = kind
    BY <1>11 DEF LiveGivesUp, world
<1>12. ASSUME NEW m \in Msg, Draft(m) PROVE kind' = kind
    BY <1>12 DEF Draft, world
<1>13. ASSUME NEW m \in Msg, NEW how \in {"ended", "silent"}, TurnEnds(m, how)
      PROVE  kind' = kind
    BY <1>13 DEF TurnEnds, world
<1>14. ASSUME NEW m \in Msg, NEW w \in BOOLEAN, NEW stuck \in BOOLEAN, LiveReplies(m, w, stuck)
      PROVE  kind' = kind
    BY <1>14 DEF LiveReplies, world
<1>15. ASSUME NEW m \in Msg, NEW w \in BOOLEAN, HandedOver(m, w) PROVE kind' = kind
    BY <1>15 DEF HandedOver, world
<1>16. ASSUME NEW m \in Msg, NEW w \in BOOLEAN, TellDraft(m, w) PROVE kind' = kind
    BY <1>16 DEF TellDraft, world
<1>17. ASSUME NEW m \in Msg, NEW r \in BOOLEAN, LiveDelivers(m, r) PROVE kind' = kind
    BY <1>17 DEF LiveDelivers, world
<1>18. ASSUME NEW m \in Msg, NEW yes \in BOOLEAN, Decide(m, yes) PROVE kind' = kind
    BY <1>18 DEF Decide, world
<1>19. ASSUME NEW m \in Msg, NEW yes \in BOOLEAN, Consent(m, yes) PROVE kind' = kind
    BY <1>19 DEF Consent, world
<1>20. CASE Crash
    BY <1>20 DEF Crash, world
<1>21. ASSUME NEW c \in BOOLEAN, Restart(c) PROVE kind' = kind
    BY <1>21 DEF Restart, world
<1>22. CASE UNCHANGED vars
    BY <1>22 DEF vars, world
<1>. QED
    BY <1>1, <1>2, <1>3, <1>4, <1>5, <1>6, <1>7, <1>8, <1>9, <1>10, <1>11,
       <1>12, <1>13, <1>14, <1>15, <1>16, <1>17, <1>18, <1>19, <1>20, <1>21,
       <1>22 DEF Next, Sender, MsgStep

LEMMA BookKindNext ==
  ASSUME SenderOK, RestOK, NEW v \in Msg, \A m \in Msg : ChainKind(m) /\
     BookKind(m), [Next]_vars
  PROVE  BookKind(v)'
<1>k. kind' = kind
    BY KindSame
<1>1. ASSUME NEW reach \in BOOLEAN, Call(reach) PROVE BookKind(v)'
    BY <1>1, <1>k DEF Call, outbox, sender, answers, drafts, RestOK, Put,
       BookKind
<1>2. CASE Sent
  <2>1. chain # <<>> /\ Current.msg \in Msg /\ Has(Current.msg, Current.by)
      BY <1>2, HeadJob, HeadHas DEF Sent, SenderOK
  <2>. QED
      BY <1>2, <1>k, <2>1 DEF Sent, Returned, RestOK, Put, ChainKind, BookKind
<1>3. ASSUME NEW w \in BOOLEAN, Dropped(w) PROVE BookKind(v)'
  <2>1. chain # <<>> /\ Current.msg \in Msg /\ Has(Current.msg, Current.by)
      BY <1>3, HeadJob, HeadHas DEF Dropped, SenderOK
  <2>. QED
      BY <1>3, <1>k, <2>1 DEF Dropped, Returned, RestOK, Put, ChainKind, BookKind
<1>4. ASSUME NEW why \in {"missed", "late", "unwritten"}, NEW r \in BOOLEAN, Failed(why, r)
      PROVE  BookKind(v)'
  <2>1. chain # <<>> /\ Current.msg \in Msg /\ Has(Current.msg, Current.by)
      BY <1>4, HeadJob, HeadHas DEF Failed, SenderOK
  <2>. QED
      BY <1>4, <1>k, <2>1 DEF Failed, Returned, RestOK, Put, ChainKind, BookKind
<1>5. CASE Retry
    BY <1>5, <1>k DEF Retry, outbox, sender, answers, drafts, RestOK, Put,
       BookKind
<1>6. CASE RetryNext
    BY <1>6, <1>k DEF RetryNext, outbox, sender, answers, drafts, RestOK, Put,
       BookKind
<1>7. ASSUME NEW m \in Msg, NEW ok \in BOOLEAN, Notice(m, ok) PROVE BookKind(v)'
    BY <1>7, <1>k DEF Notice, outbox, sender, answers, drafts, RestOK, Put,
       BookKind
<1>8. ASSUME NEW m \in Msg, NEW ok \in BOOLEAN, Sweep(m, ok) PROVE BookKind(v)'
    BY <1>8, <1>k DEF Sweep, outbox, sender, answers, drafts, RestOK, Put,
       BookKind
<1>9. ASSUME NEW m \in Msg, NEW ok \in BOOLEAN, SettleDraft(m, ok) PROVE BookKind(v)'
    BY <1>9, <1>k DEF SettleDraft, outbox, sender, answers, drafts, RestOK,
       Put, BookKind
<1>10. ASSUME NEW m \in Msg, Request(m) PROVE BookKind(v)'
    BY <1>10, <1>k DEF Request, outbox, sender, answers, drafts, RestOK, Put,
       BookKind
<1>11. ASSUME NEW m \in Msg, LiveGivesUp(m) PROVE BookKind(v)'
    BY <1>11, <1>k DEF LiveGivesUp, outbox, sender, answers, drafts, RestOK,
       Put, BookKind
<1>12. ASSUME NEW m \in Msg, Draft(m) PROVE BookKind(v)'
    BY <1>12, <1>k DEF Draft, outbox, sender, answers, drafts, RestOK, Put,
       BookKind
<1>13. ASSUME NEW m \in Msg, NEW how \in {"ended", "silent"}, TurnEnds(m, how)
      PROVE  BookKind(v)'
    BY <1>13, <1>k DEF TurnEnds, outbox, sender, answers, drafts, RestOK, Put,
       BookKind
<1>14. ASSUME NEW m \in Msg, NEW w \in BOOLEAN, NEW stuck \in BOOLEAN, LiveReplies(m, w, stuck)
      PROVE  BookKind(v)'
    BY <1>14, <1>k DEF LiveReplies, outbox, sender, answers, drafts, RestOK,
       Put, BookKind
<1>15. ASSUME NEW m \in Msg, NEW w \in BOOLEAN, HandedOver(m, w) PROVE BookKind(v)'
    BY <1>15, <1>k DEF HandedOver, outbox, sender, answers, drafts, RestOK,
       Put, BookKind
<1>16. ASSUME NEW m \in Msg, NEW w \in BOOLEAN, TellDraft(m, w) PROVE BookKind(v)'
    BY <1>16, <1>k DEF TellDraft, outbox, sender, answers, drafts, RestOK,
       Put, BookKind
<1>17. ASSUME NEW m \in Msg, NEW r \in BOOLEAN, LiveDelivers(m, r) PROVE BookKind(v)'
    BY <1>17, <1>k DEF LiveDelivers, outbox, sender, answers, drafts, RestOK,
       Put, BookKind
<1>18. ASSUME NEW m \in Msg, NEW yes \in BOOLEAN, Decide(m, yes) PROVE BookKind(v)'
    BY <1>18, <1>k DEF Decide, outbox, sender, answers, drafts, RestOK, Put,
       BookKind
<1>19. ASSUME NEW m \in Msg, NEW yes \in BOOLEAN, Consent(m, yes) PROVE BookKind(v)'
    BY <1>19, <1>k DEF Consent, outbox, sender, answers, drafts, RestOK, Put,
       BookKind
<1>20. CASE Crash
    BY <1>20, <1>k DEF Crash, outbox, sender, answers, drafts, RestOK, Put,
       BookKind
<1>21. ASSUME NEW c \in BOOLEAN, Restart(c) PROVE BookKind(v)'
    BY <1>21, <1>k DEF Restart, outbox, sender, answers, drafts, RestOK, Put,
       BookKind
<1>22. CASE UNCHANGED vars
    BY <1>22, <1>k DEF vars, answers, drafts, BookKind
<1>. QED
    BY <1>1, <1>2, <1>3, <1>4, <1>5, <1>6, <1>7, <1>8, <1>9, <1>10, <1>11,
       <1>12, <1>13, <1>14, <1>15, <1>16, <1>17, <1>18, <1>19, <1>20, <1>21,
       <1>22 DEF Next, Sender, MsgStep

LEMMA ChainKindNext ==
  ASSUME StoreOK, SenderOK, NEW v \in Msg, ChainKind(v), BookKind(v), [Next]_vars
  PROVE  ChainKind(v)'
<1>1. kind' = kind
    BY KindSame
<1>2. \A by : Has(v, by)' => Has(v, by) \/ Opened(v, by) \/ by \in {"resume", "retry"}
    BY HasFrom DEF Entered
<1>3. \A by : Opened(v, by) => \/ by = "push" /\ kind[v] = "notice"
                               \/ by = "sweep" /\ kind[v] = "answer"
                               \/ by = "draft" /\ kind[v] = "draft"
    BY DEF Opened, BookKind
<1>. QED
    BY <1>1, <1>2, <1>3 DEF ChainKind

----------------------------------------------------------------------------
(* The first answer on a draft, and the words that go.                     *)

DraftOK(v) ==
    /\ draft[v] = "none" => consent[v] = "none" /\ first[v] = "none"
    /\ draft[v] = "waiting" =>
          first[v] = CASE consent[v] = "allowed" -> "approved"
                       [] consent[v] = "refused" -> "rejected"
                       [] OTHER -> "none"
    /\ draft[v] \in {"approved", "rejected"} => first[v] = draft[v]
    /\ draft[v] \in {"delivered", "undelivered"} => first[v] = "approved"
    /\ hand[v] \in {"sending", "delivered", "undelivered"} => first[v] = "approved"
    /\ hand[v] = "settling" => consent[v] \in {"allowed", "refused"}

WordsOK(v) == kind[v] = "draft" /\ Going(v) => first[v] = "approved"

LEMMA GoingFrom ==
  ASSUME StoreOK, SenderOK, RestOK, NEW v \in Msg, Going(v)', [Next]_vars
  PROVE  Going(v) \/ (\E by \in Origin : Opened(v, by))
<1>1. CASE Known(v)'
    BY <1>1, KnownFrom DEF Going
<1>2. CASE InRetries(v)'
    BY <1>2, RetriesFrom DEF Going
<1>3. CASE went'[v] > 0
  <2>1. CASE went'[v] = went[v]
      BY <1>3, <2>1 DEF Going
  <2>2. CASE went'[v] # went[v]
      BY <2>2, WentFrom DEF Going
  <2>. QED
      BY <2>1, <2>2
<1>4. ASSUME NEW by \in Origin, Has(v, by)'
      PROVE  Going(v) \/ (\E o \in Origin : Opened(v, o))
  <2>1. Has(v, by) \/ Opened(v, by) \/ Known(v) \/ InRetries(v)
      BY <1>4, HasFrom DEF Entered
  <2>. QED
      BY <2>1 DEF Going, InChain
<1>. QED
    BY <1>1, <1>2, <1>3, <1>4 DEF Going, InChain

\* The first answer is the first for ever.
LEMMA FirstStays ==
  ASSUME RestOK, NEW v \in Msg, first[v] # "none", [Next]_vars
  PROVE  first'[v] = first[v]
<1>1. ASSUME NEW reach \in BOOLEAN, Call(reach) PROVE first'[v] = first[v]
    BY <1>1 DEF Call, drafts, Answered, RestOK, Put
<1>2. CASE Sent
    BY <1>2 DEF Sent, drafts, Answered, RestOK, Put
<1>3. ASSUME NEW w \in BOOLEAN, Dropped(w) PROVE first'[v] = first[v]
    BY <1>3 DEF Dropped, drafts, Answered, RestOK, Put
<1>4. ASSUME NEW why \in {"missed", "late", "unwritten"}, NEW r \in BOOLEAN, Failed(why, r)
      PROVE  first'[v] = first[v]
    BY <1>4 DEF Failed, drafts, Answered, RestOK, Put
<1>5. CASE Retry
    BY <1>5 DEF Retry, drafts, Answered, RestOK, Put
<1>6. CASE RetryNext
    BY <1>6 DEF RetryNext, drafts, Answered, RestOK, Put
<1>7. ASSUME NEW m \in Msg, NEW ok \in BOOLEAN, Notice(m, ok) PROVE first'[v] = first[v]
    BY <1>7 DEF Notice, drafts, Answered, RestOK, Put
<1>8. ASSUME NEW m \in Msg, NEW ok \in BOOLEAN, Sweep(m, ok) PROVE first'[v] = first[v]
    BY <1>8 DEF Sweep, drafts, Answered, RestOK, Put
<1>9. ASSUME NEW m \in Msg, NEW ok \in BOOLEAN, SettleDraft(m, ok)
      PROVE  first'[v] = first[v]
    BY <1>9 DEF SettleDraft, drafts, Answered, RestOK, Put
<1>10. ASSUME NEW m \in Msg, Request(m) PROVE first'[v] = first[v]
    BY <1>10 DEF Request, drafts, Answered, RestOK, Put
<1>11. ASSUME NEW m \in Msg, LiveGivesUp(m) PROVE first'[v] = first[v]
    BY <1>11 DEF LiveGivesUp, drafts, Answered, RestOK, Put
<1>12. ASSUME NEW m \in Msg, Draft(m) PROVE first'[v] = first[v]
    BY <1>12 DEF Draft, drafts, Answered, RestOK, Put
<1>13. ASSUME NEW m \in Msg, NEW how \in {"ended", "silent"}, TurnEnds(m, how)
      PROVE  first'[v] = first[v]
    BY <1>13 DEF TurnEnds, drafts, Answered, RestOK, Put
<1>14. ASSUME NEW m \in Msg, NEW w \in BOOLEAN, NEW stuck \in BOOLEAN, LiveReplies(m, w, stuck)
      PROVE  first'[v] = first[v]
    BY <1>14 DEF LiveReplies, drafts, Answered, RestOK, Put
<1>15. ASSUME NEW m \in Msg, NEW w \in BOOLEAN, HandedOver(m, w)
      PROVE  first'[v] = first[v]
    BY <1>15 DEF HandedOver, drafts, Answered, RestOK, Put
<1>16. ASSUME NEW m \in Msg, NEW w \in BOOLEAN, TellDraft(m, w)
      PROVE  first'[v] = first[v]
    BY <1>16 DEF TellDraft, drafts, Answered, RestOK, Put
<1>17. ASSUME NEW m \in Msg, NEW r \in BOOLEAN, LiveDelivers(m, r)
      PROVE  first'[v] = first[v]
    BY <1>17 DEF LiveDelivers, drafts, Answered, RestOK, Put
<1>18. ASSUME NEW m \in Msg, NEW yes \in BOOLEAN, Decide(m, yes)
      PROVE  first'[v] = first[v]
    BY <1>18 DEF Decide, drafts, Answered, RestOK, Put
<1>19. ASSUME NEW m \in Msg, NEW yes \in BOOLEAN, Consent(m, yes)
      PROVE  first'[v] = first[v]
    BY <1>19 DEF Consent, drafts, Answered, RestOK, Put
<1>20. CASE Crash
    BY <1>20 DEF Crash, drafts, Answered, RestOK, Put
<1>21. ASSUME NEW c \in BOOLEAN, Restart(c) PROVE first'[v] = first[v]
    BY <1>21 DEF Restart, drafts, Answered, RestOK, Put
<1>22. CASE UNCHANGED vars
    BY <1>22 DEF vars, drafts
<1>. QED
    BY <1>1, <1>2, <1>3, <1>4, <1>5, <1>6, <1>7, <1>8, <1>9, <1>10, <1>11,
       <1>12, <1>13, <1>14, <1>15, <1>16, <1>17, <1>18, <1>19, <1>20, <1>21,
       <1>22 DEF Next, Sender, MsgStep

LEMMA DraftNext ==
  ASSUME SenderOK, RestOK, NEW v \in Msg, \A m \in Msg : ChainKind(m) /\
     DraftOK(m) /\ WordsOK(m), [Next]_vars
  PROVE  DraftOK(v)'
<1>1. ASSUME NEW reach \in BOOLEAN, Call(reach) PROVE DraftOK(v)'
    BY <1>1 DEF Call, drafts, RestOK, Put, DraftOK, Answered, Verdict,
       Decision
<1>2. CASE Sent
  <2>1. chain # <<>> /\ Current.msg \in Msg /\ Has(Current.msg, Current.by) /\ Current.by \in Origin
      BY <1>2, HeadJob, HeadHas DEF Sent, SenderOK
  <2>2. Current.by = "draft" => first[Current.msg] = "approved"
      BY <2>1 DEF ChainKind, WordsOK, Going, InChain
  <2>3. UNCHANGED <<draft, consent, first>>
      BY <1>2 DEF Sent
  <2>4. \/ hand'[v] = hand[v]
        \/ Current.by = "draft" /\ v = Current.msg /\ hand'[v] \in {"delivered", "undelivered"}
      BY <1>2, <2>1 DEF Sent, Returned, RestOK, Put
  <2>. QED
      BY <2>2, <2>3, <2>4 DEF DraftOK
<1>3. ASSUME NEW w \in BOOLEAN, Dropped(w) PROVE DraftOK(v)'
  <2>1. chain # <<>> /\ Current.msg \in Msg /\ Has(Current.msg, Current.by) /\ Current.by \in Origin
      BY <1>3, HeadJob, HeadHas DEF Dropped, SenderOK
  <2>2. Current.by = "draft" => first[Current.msg] = "approved"
      BY <2>1 DEF ChainKind, WordsOK, Going, InChain
  <2>3. UNCHANGED <<draft, consent, first>>
      BY <1>3 DEF Dropped
  <2>4. \/ hand'[v] = hand[v]
        \/ Current.by = "draft" /\ v = Current.msg /\ hand'[v] \in {"delivered", "undelivered"}
      BY <1>3, <2>1 DEF Dropped, Returned, RestOK, Put
  <2>. QED
      BY <2>2, <2>3, <2>4 DEF DraftOK
<1>4. ASSUME NEW why \in {"missed", "late", "unwritten"}, NEW r \in BOOLEAN, Failed(why, r)
      PROVE  DraftOK(v)'
  <2>1. chain # <<>> /\ Current.msg \in Msg /\ Has(Current.msg, Current.by) /\ Current.by \in Origin
      BY <1>4, HeadJob, HeadHas DEF Failed, SenderOK
  <2>2. Current.by = "draft" => first[Current.msg] = "approved"
      BY <2>1 DEF ChainKind, WordsOK, Going, InChain
  <2>3. UNCHANGED <<draft, consent, first>>
      BY <1>4 DEF Failed
  <2>4. \/ hand'[v] = hand[v]
        \/ Current.by = "draft" /\ v = Current.msg /\ hand'[v] \in {"delivered", "undelivered"}
      BY <1>4, <2>1 DEF Failed, Returned, RestOK, Put
  <2>. QED
      BY <2>2, <2>3, <2>4 DEF DraftOK
<1>5. CASE Retry
    BY <1>5 DEF Retry, drafts, RestOK, Put, DraftOK, Answered, Verdict,
       Decision
<1>6. CASE RetryNext
    BY <1>6 DEF RetryNext, drafts, RestOK, Put, DraftOK, Answered, Verdict,
       Decision
<1>7. ASSUME NEW m \in Msg, NEW ok \in BOOLEAN, Notice(m, ok) PROVE DraftOK(v)'
    BY <1>7 DEF Notice, drafts, RestOK, Put, DraftOK, Answered, Verdict,
       Decision
<1>8. ASSUME NEW m \in Msg, NEW ok \in BOOLEAN, Sweep(m, ok) PROVE DraftOK(v)'
    BY <1>8 DEF Sweep, drafts, RestOK, Put, DraftOK, Answered, Verdict,
       Decision
<1>9. ASSUME NEW m \in Msg, NEW ok \in BOOLEAN, SettleDraft(m, ok) PROVE DraftOK(v)'
    BY <1>9 DEF SettleDraft, drafts, RestOK, Put, DraftOK, Answered, Verdict,
       Decision
<1>10. ASSUME NEW m \in Msg, Request(m) PROVE DraftOK(v)'
    BY <1>10 DEF Request, drafts, RestOK, Put, DraftOK, Answered, Verdict,
       Decision
<1>11. ASSUME NEW m \in Msg, LiveGivesUp(m) PROVE DraftOK(v)'
    BY <1>11 DEF LiveGivesUp, drafts, RestOK, Put, DraftOK, Answered, Verdict,
       Decision
<1>12. ASSUME NEW m \in Msg, Draft(m) PROVE DraftOK(v)'
    BY <1>12 DEF Draft, drafts, RestOK, Put, DraftOK, Answered, Verdict,
       Decision
<1>13. ASSUME NEW m \in Msg, NEW how \in {"ended", "silent"}, TurnEnds(m, how)
      PROVE  DraftOK(v)'
    BY <1>13 DEF TurnEnds, drafts, RestOK, Put, DraftOK, Answered, Verdict,
       Decision
<1>14. ASSUME NEW m \in Msg, NEW w \in BOOLEAN, NEW stuck \in BOOLEAN, LiveReplies(m, w, stuck)
      PROVE  DraftOK(v)'
    BY <1>14 DEF LiveReplies, drafts, RestOK, Put, DraftOK, Answered, Verdict,
       Decision
<1>15. ASSUME NEW m \in Msg, NEW w \in BOOLEAN, HandedOver(m, w) PROVE DraftOK(v)'
    BY <1>15 DEF HandedOver, drafts, RestOK, Put, DraftOK, Answered, Verdict,
       Decision
<1>16. ASSUME NEW m \in Msg, NEW w \in BOOLEAN, TellDraft(m, w) PROVE DraftOK(v)'
    BY <1>16 DEF TellDraft, drafts, RestOK, Put, DraftOK, Answered, Verdict,
       Decision
<1>17. ASSUME NEW m \in Msg, NEW r \in BOOLEAN, LiveDelivers(m, r) PROVE DraftOK(v)'
    BY <1>17 DEF LiveDelivers, drafts, RestOK, Put, DraftOK, Answered,
       Verdict, Decision
<1>18. ASSUME NEW m \in Msg, NEW yes \in BOOLEAN, Decide(m, yes) PROVE DraftOK(v)'
    BY <1>18 DEF Decide, drafts, RestOK, Put, DraftOK, Answered, Verdict,
       Decision
<1>19. ASSUME NEW m \in Msg, NEW yes \in BOOLEAN, Consent(m, yes) PROVE DraftOK(v)'
    BY <1>19 DEF Consent, drafts, RestOK, Put, DraftOK, Answered, Verdict,
       Decision
<1>20. CASE Crash
    BY <1>20 DEF Crash, drafts, RestOK, Put, DraftOK, Answered, Verdict,
       Decision
<1>21. ASSUME NEW c \in BOOLEAN, Restart(c) PROVE DraftOK(v)'
    BY <1>21 DEF Restart, drafts, RestOK, Put, DraftOK, Answered, Verdict,
       Decision
<1>22. CASE UNCHANGED vars
    BY <1>22 DEF vars, drafts, DraftOK
<1>. QED
    BY <1>1, <1>2, <1>3, <1>4, <1>5, <1>6, <1>7, <1>8, <1>9, <1>10, <1>11,
       <1>12, <1>13, <1>14, <1>15, <1>16, <1>17, <1>18, <1>19, <1>20, <1>21,
       <1>22 DEF Next, Sender, MsgStep

LEMMA WordsNext ==
  ASSUME StoreOK, SenderOK, RestOK, NEW v \in Msg, BookKind(v), DraftOK(v), WordsOK(v), [Next]_vars
  PROVE  WordsOK(v)'
<1>1. kind' = kind
    BY KindSame
<1>2. SUFFICES ASSUME kind[v] = "draft", Going(v)' PROVE first'[v] = "approved"
    BY <1>1 DEF WordsOK
<1>3. Going(v) \/ (\E by \in Origin : Opened(v, by))
    BY <1>2, GoingFrom
<1>4. first[v] = "approved"
  <2>1. CASE Going(v)
      BY <1>2, <2>1 DEF WordsOK
  <2>2. ASSUME NEW by \in Origin, Opened(v, by) PROVE first[v] = "approved"
    <3>1. hand[v] = "settling" /\ Decision(v) # "rejected"
        BY <1>2, <2>2 DEF Opened, BookKind
    <3>. QED
        BY <3>1 DEF Decision, DraftOK, RestOK
  <2>. QED
      BY <1>3, <2>1, <2>2
<1>. QED
    BY <1>4, FirstStays

----------------------------------------------------------------------------
MessageOK(v) == ChainKind(v) /\ BookKind(v) /\ DraftOK(v) /\ WordsOK(v)
OutboundInv == StoreOK /\ SenderOK /\ Down /\ RestOK /\ \A v \in Msg : MessageOK(v)

LEMMA OutboundInit == Init => OutboundInv
<1>. SUFFICES ASSUME Init PROVE OutboundInv
    OBVIOUS
<1>0. MaxAttempts \in Nat /\ CompactAt \in Nat \ {0}
    BY OutboundConstants DEF OutboundConstants
<1>1. log = <<>> /\ chain = <<>> /\ retries = <<>>
    BY DEF Init
<1>2. log \in Seq(Msg) /\ chain \in Seq(JobOK) /\ retries \in Seq(Msg) /\ DOMAIN log = {} /\ DOMAIN chain = {}
    BY <1>1, EmptySeq, LenProperties
<1>3. StoreOK
  <2>1. receipt = [m \in Msg |-> "none"] /\ fails = [m \in Msg |-> 0] /\ issue = FALSE /\ settled = 0
      BY DEF Init
  <2>2. settled \in 0..(CompactAt - 1)
      BY <1>0, <2>1
  <2>3. receipt \in [Msg -> Status] /\ fails \in [Msg -> Nat] /\ \A m \in Msg : ~Known(m)
      BY <2>1 DEF Status, Known
  <2>. QED
      BY <1>2, <2>1, <2>2, <2>3 DEF StoreOK, Distinct, InLog
<1>4. SenderOK /\ Down
    BY <1>1, <1>2 DEF Init, SenderOK, Down
<1>5. RestOK
    BY DEF Init, RestOK
<1>6. ASSUME NEW v \in Msg PROVE MessageOK(v)
  <2>1. ChainKind(v)
      BY <1>2 DEF ChainKind, Has
  <2>2. BookKind(v) /\ DraftOK(v)
      BY DEF Init, BookKind, DraftOK
  <2>3. ~Going(v)
      BY <1>2, <1>1, EmptySeq, LenProperties DEF Going, Init, Known, InChain, Has, InRetries
  <2>. QED
      BY <2>1, <2>2, <2>3 DEF MessageOK, WordsOK
<1>. QED
    BY <1>3, <1>4, <1>5, <1>6 DEF OutboundInv

LEMMA OutboundNext == OutboundInv /\ [Next]_vars => OutboundInv'
<1>. SUFFICES ASSUME OutboundInv, [Next]_vars PROVE OutboundInv'
    OBVIOUS
<1>1. StoreOK /\ SenderOK /\ Down /\ RestOK
      /\ \A m \in Msg : ChainKind(m) /\ BookKind(m) /\ DraftOK(m) /\ WordsOK(m)
    BY DEF OutboundInv, MessageOK
<1>2. StoreOK' /\ Down' /\ RestOK'
    BY <1>1, StoreNext, DownNext, RestNext
<1>3. SenderOK'
    BY <1>1, SenderNext
<1>4. ASSUME NEW v \in Msg PROVE MessageOK(v)'
  <2>1. ChainKind(v)'
      BY <1>1, ChainKindNext
  <2>2. BookKind(v)'
      BY <1>1, BookKindNext
  <2>3. DraftOK(v)'
      BY <1>1, DraftNext
  <2>4. WordsOK(v)'
      BY <1>1, WordsNext
  <2>. QED
      BY <2>1, <2>2, <2>3, <2>4 DEF MessageOK
<1>. QED
    BY <1>2, <1>3, <1>4 DEF OutboundInv

\* The three books and the sender's memory fit together: what is pending is in the file
\* once, what the chain holds came from the side that may open it, and a draft whose
\* words are anywhere on their way was approved by its first answer.
THEOREM OutboundInvariant == Spec => []OutboundInv
<1>. QED
    BY OutboundInit, OutboundNext, PTL DEF Spec

\* The shape of the files and of the sender's memory, for any number of messages.
THEOREM OutboundTypeCorrect == Spec => []TypeOK
<1>1. ASSUME OutboundInv PROVE TypeOK
  <2>1. StoreOK /\ SenderOK /\ RestOK /\ \A v \in Msg : BookKind(v)
      BY <1>1 DEF OutboundInv, MessageOK
  <2>2. Len(log) <= Cardinality(Msg)
      BY <2>1, LogLength DEF StoreOK
  <2>3. \A i \in DOMAIN chain : chain[i] \in JobOK
      BY <2>1, LenProperties DEF SenderOK
  <2>4. handed \subseteq Of("answer")
      BY <2>1 DEF RestOK, BookKind, Of
  <2>. QED
      BY <2>1, <2>2, <2>3, <2>4 DEF TypeOK, StoreOK, SenderOK, RestOK, JobOK, Origin, Status
<1>. QED
    BY <1>1, OutboundInvariant, PTL

\* outbox-drafts.ts "the first answer stands": whatever is answered on the page, on a
\* card, by the expiry and after crashes, a draft's words reach the chat only if the
\* first answer was yes.
THEOREM TheFirstAnswerStands == Spec => []FirstAnswerStands
<1>1. ASSUME OutboundInv PROVE FirstAnswerStands
    BY <1>1 DEF OutboundInv, MessageOK, WordsOK, Going, FirstAnswerStands, Of
<1>. QED
    BY <1>1, OutboundInvariant, PTL

----------------------------------------------------------------------------
(* While nothing fails.  A receipt is in the chain at most once, and its   *)
(* words have gone only if it is the head that is being sent; afterwards   *)
(* the side that opened it does not open it again, though a compaction may *)
(* have forgotten the receipt.                                             *)

Quiet == crashes = 0 /\ late = 0 /\ lost = 0 /\ retried = 0 /\ pushed <= 1

Alone == \A i, j \in DOMAIN chain : chain[i].msg = chain[j].msg => i = j

Spent(v) ==
    /\ kind[v] = "notice" => pushed = 1
    /\ kind[v] = "answer" => owed[v] # "none" /\ (InChain(v) \/ v \in handed \/ owed[v] = "closed")
    /\ kind[v] = "draft" => consent[v] \notin {"none", "pending"} /\ hand[v] # "settling"

OnceOK(v) ==
    /\ ~Has(v, "resume") /\ ~Has(v, "retry")
    /\ InChain(v) => Pending(v) /\ went[v] = IF calling = "reached" /\ Current.msg = v THEN 1 ELSE 0
    /\ went[v] <= 1
    /\ InChain(v) \/ went[v] > 0 => Spent(v)

OnceInv == Quiet => up /\ retries = <<>> /\ Alone /\ \A v \in Msg : OnceOK(v)

\* What has been quiet was quiet before.
LEMMA QuietBefore ==
  ASSUME RestOK, Quiet', [Next]_vars
  PROVE  Quiet
<1>1. ASSUME NEW reach \in BOOLEAN, Call(reach) PROVE Quiet
    BY <1>1 DEF Call, bounds, Quiet, RestOK, Lose, Missed
<1>2. CASE Sent
    BY <1>2 DEF Sent, bounds, Quiet, RestOK, Lose, Missed
<1>3. ASSUME NEW w \in BOOLEAN, Dropped(w) PROVE Quiet
    BY <1>3 DEF Dropped, bounds, Quiet, RestOK, Lose, Missed
<1>4. ASSUME NEW why \in {"missed", "late", "unwritten"}, NEW r \in BOOLEAN, Failed(why, r)
      PROVE  Quiet
    BY <1>4 DEF Failed, bounds, Quiet, RestOK, Lose, Missed
<1>5. CASE Retry
    BY <1>5 DEF Retry, bounds, Quiet, RestOK, Lose, Missed
<1>6. CASE RetryNext
    BY <1>6 DEF RetryNext, bounds, Quiet, RestOK, Lose, Missed
<1>7. ASSUME NEW m \in Msg, NEW ok \in BOOLEAN, Notice(m, ok) PROVE Quiet
    BY <1>7 DEF Notice, bounds, Quiet, RestOK, Lose, Missed
<1>8. ASSUME NEW m \in Msg, NEW ok \in BOOLEAN, Sweep(m, ok) PROVE Quiet
    BY <1>8 DEF Sweep, bounds, Quiet, RestOK, Lose, Missed
<1>9. ASSUME NEW m \in Msg, NEW ok \in BOOLEAN, SettleDraft(m, ok) PROVE Quiet
    BY <1>9 DEF SettleDraft, bounds, Quiet, RestOK, Lose, Missed
<1>10. ASSUME NEW m \in Msg, Request(m) PROVE Quiet
    BY <1>10 DEF Request, bounds, Quiet, RestOK, Lose, Missed
<1>11. ASSUME NEW m \in Msg, LiveGivesUp(m) PROVE Quiet
    BY <1>11 DEF LiveGivesUp, bounds, Quiet, RestOK, Lose, Missed
<1>12. ASSUME NEW m \in Msg, Draft(m) PROVE Quiet
    BY <1>12 DEF Draft, bounds, Quiet, RestOK, Lose, Missed
<1>13. ASSUME NEW m \in Msg, NEW how \in {"ended", "silent"}, TurnEnds(m, how)
      PROVE  Quiet
    BY <1>13 DEF TurnEnds, bounds, Quiet, RestOK, Lose, Missed
<1>14. ASSUME NEW m \in Msg, NEW w \in BOOLEAN, NEW stuck \in BOOLEAN, LiveReplies(m, w, stuck)
      PROVE  Quiet
    BY <1>14 DEF LiveReplies, bounds, Quiet, RestOK, Lose, Missed
<1>15. ASSUME NEW m \in Msg, NEW w \in BOOLEAN, HandedOver(m, w) PROVE Quiet
    BY <1>15 DEF HandedOver, bounds, Quiet, RestOK, Lose, Missed
<1>16. ASSUME NEW m \in Msg, NEW w \in BOOLEAN, TellDraft(m, w) PROVE Quiet
    BY <1>16 DEF TellDraft, bounds, Quiet, RestOK, Lose, Missed
<1>17. ASSUME NEW m \in Msg, NEW r \in BOOLEAN, LiveDelivers(m, r) PROVE Quiet
    BY <1>17 DEF LiveDelivers, bounds, Quiet, RestOK, Lose, Missed
<1>18. ASSUME NEW m \in Msg, NEW yes \in BOOLEAN, Decide(m, yes) PROVE Quiet
    BY <1>18 DEF Decide, bounds, Quiet, RestOK, Lose, Missed
<1>19. ASSUME NEW m \in Msg, NEW yes \in BOOLEAN, Consent(m, yes) PROVE Quiet
    BY <1>19 DEF Consent, bounds, Quiet, RestOK, Lose, Missed
<1>20. CASE Crash
    BY <1>20 DEF Crash, bounds, Quiet, RestOK, Lose, Missed
<1>21. ASSUME NEW c \in BOOLEAN, Restart(c) PROVE Quiet
    BY <1>21 DEF Restart, bounds, Quiet, RestOK, Lose, Missed
<1>22. CASE UNCHANGED vars
    BY <1>22 DEF vars, bounds, Quiet
<1>. QED
    BY <1>1, <1>2, <1>3, <1>4, <1>5, <1>6, <1>7, <1>8, <1>9, <1>10, <1>11,
       <1>12, <1>13, <1>14, <1>15, <1>16, <1>17, <1>18, <1>19, <1>20, <1>21,
       <1>22 DEF Next, Sender, MsgStep

LEMMA JoinsAlone ==
  ASSUME SenderOK, Alone, NEW m \in Msg, NEW o \in Origin, Enqueue(m, o), ~InChain(m)
  PROVE  /\ Alone' /\ Has(m, o)' /\ \A v \in Msg, by \in Origin : Has(v, by) => Has(v, by)'
         /\ IF chain = <<>> THEN calling' = "no" ELSE Current' = Current /\ calling' = calling
<1>. DEFINE j == Job(m, 0, FALSE, o)
<1>1. j \in JobOK /\ j.msg = m /\ j.by = o
    BY OutboundConstants DEF Job, JobOK, OutboundConstants
<1>2. chain' = Append(chain, j) /\ calling' = calling
    BY DEF Enqueue
<1>3. /\ Len(chain) \in Nat /\ DOMAIN chain = 1..Len(chain) /\ DOMAIN chain' = 1..(Len(chain) + 1)
      /\ \A i \in DOMAIN chain : chain'[i] = chain[i]
      /\ chain'[Len(chain) + 1] = j
    BY <1>1, <1>2, Joins
<1>4. \A i \in DOMAIN chain : chain[i].msg # m
  <2>1. \A i \in DOMAIN chain : chain[i].by \in Origin
      BY LenProperties DEF SenderOK, JobOK
  <2>. QED
      BY <2>1 DEF InChain, Has
<1>. HIDE DEF j
<1>5. Alone'
  <2>1. \A i \in DOMAIN chain : i \in DOMAIN chain' /\ i # Len(chain) + 1
      BY <1>3
  <2>2. \A i \in DOMAIN chain' : i \in DOMAIN chain \/ i = Len(chain) + 1
      BY <1>3
  <2>. QED
      BY <1>1, <1>3, <1>4, <2>1, <2>2 DEF Alone
<1>6. Has(m, o)' /\ \A v \in Msg, by \in Origin : Has(v, by) => Has(v, by)'
  <2>1. Len(chain) + 1 \in DOMAIN chain' /\ \A i \in DOMAIN chain : i \in DOMAIN chain'
      BY <1>3
  <2>. QED
      BY <1>1, <1>3, <2>1 DEF Has
<1>7. chain = <<>> => calling' = "no"
    BY <1>2 DEF SenderOK
<1>8. chain # <<>> => Current' = Current
    BY <1>3, HeadJob DEF Current
<1>. QED
    BY <1>2, <1>5, <1>6, <1>7, <1>8

LEMMA LeavesAlone ==
  ASSUME SenderOK, Alone, chain # <<>>, chain' = Tail(chain)
  PROVE  /\ Alone' /\ \A v \in Msg : v = Current.msg => ~InChain(v)'
         /\ \A v \in Msg, by \in Origin : Has(v, by) /\ v # Current.msg => Has(v, by)'
<1>1. /\ Len(chain) \in Nat /\ DOMAIN chain = 1..Len(chain)
      /\ \A i \in DOMAIN chain' : i \in Nat /\ i + 1 \in DOMAIN chain /\ chain'[i] = chain[i + 1]
      /\ \A i \in DOMAIN chain : i # 1 => i - 1 \in DOMAIN chain' /\ chain'[i - 1] = chain[i]
    BY Leaves
<1>2. 1 \in DOMAIN chain
    BY HeadJob
<1>3. Alone'
  <2>1. \A i, k \in DOMAIN chain' : chain'[i].msg = chain'[k].msg => i + 1 = k + 1
      BY <1>1 DEF Alone
  <2>2. \A i \in DOMAIN chain' : i \in Nat
      BY <1>1
  <2>. QED
      BY <2>1, <2>2 DEF Alone
<1>4. ASSUME NEW v \in Msg, v = Current.msg PROVE ~InChain(v)'
  <2>1. ASSUME NEW i \in DOMAIN chain', chain'[i].msg = v PROVE FALSE
    <3>1. i + 1 \in DOMAIN chain /\ chain[i + 1].msg = chain[1].msg /\ i \in Nat /\ i # 0
        BY <1>1, <1>4, <2>1 DEF Current
    <3>2. i + 1 = 1
        BY <1>2, <3>1 DEF Alone
    <3>. QED
        BY <3>1, <3>2
  <2>. QED
      BY <2>1 DEF InChain, Has
<1>5. ASSUME NEW v \in Msg, NEW by \in Origin, Has(v, by), v # Current.msg PROVE Has(v, by)'
  <2>1. PICK i \in DOMAIN chain : chain[i].msg = v /\ chain[i].by = by
      BY <1>5 DEF Has
  <2>2. i # 1
      BY <1>5, <2>1 DEF Current
  <2>. QED
      BY <1>1, <2>1, <2>2 DEF Has
<1>. QED
    BY <1>3, <1>4, <1>5

LEMMA TriedAlone ==
  ASSUME SenderOK, Alone, chain # <<>>, ~LastTry(Current), chain' = AgainFirst
  PROVE  /\ Alone' /\ Current'.msg = Current.msg
         /\ \A v \in Msg, by \in Origin : Has(v, by) => Has(v, by)'
<1>1. Current \in JobOK /\ 1 \in DOMAIN chain
    BY HeadJob
<1>2. /\ DOMAIN chain' = DOMAIN chain
      /\ \A i \in DOMAIN chain : chain'[i].msg = chain[i].msg /\ chain'[i].by = chain[i].by
  <2>1. /\ DOMAIN chain' = DOMAIN chain
        /\ \A i \in DOMAIN chain : i # 1 => chain'[i] = chain[i]
        /\ chain'[1] = [Current EXCEPT !.tried = Current.tried + 1]
      BY TriedAgain
  <2>2. chain'[1].msg = chain[1].msg /\ chain'[1].by = chain[1].by
      BY <1>1, <2>1 DEF JobOK, Current
  <2>. QED
      BY <2>1, <2>2
<1>. QED
    BY <1>1, <1>2 DEF Alone, Has, Current

\* The chain is as it was, and what was spent stays spent.
LEMMA OnceSame ==
  ASSUME NEW v \in Msg, OnceOK(v), UNCHANGED <<chain, calling, receipt, kind>>, went'[v] = went[v],
         Spent(v) => Spent(v)'
  PROVE  OnceOK(v)'
BY DEF OnceOK, InChain, Has, Current, Pending

LEMMA SpentSame ==
  ASSUME NEW v \in Msg, Spent(v), InChain(v) => InChain(v)', UNCHANGED <<kind, pushed>>,
         owed[v] # "none" => owed'[v] # "none", owed[v] = "closed" => owed'[v] = "closed",
         v \in handed => v \in handed' \/ owed'[v] = "closed",
         kind[v] = "draft" /\ consent[v] \notin {"none", "pending"} =>
             /\ consent'[v] \notin {"none", "pending"}
             /\ (hand'[v] = "settling" => hand[v] = "settling")
  PROVE  Spent(v)'
BY DEF Spent

\* The head has been tried and leaves; the receipts of the others are untouched.
LEMMA OnceLeft ==
  ASSUME SenderOK, RestOK, Alone, NEW v \in Msg, ChainKind(v), OnceOK(v), NEW d, Returned(d, FALSE),
         chain # <<>>, UNCHANGED <<kind, went, owed, consent, pushed>>,
         v # Current.msg /\ Pending(v) => Pending(v)'
  PROVE  OnceOK(v)'
<1>1. chain' = Tail(chain) /\ calling' = "no"
    BY DEF Returned
<1>2. \A by \in Origin : Has(v, by)' => Has(v, by)
    BY <1>1, LeavesHas
<1>3. Has(Current.msg, Current.by) /\ Current.by \in Origin /\ Current.msg \in Msg
    BY HeadHas, HeadJob
<1>4. CASE v = Current.msg
  <2>1. ~InChain(v)'
      BY <1>1, <1>4, LeavesAlone
  <2>2. InChain(v) /\ Spent(v)
      BY <1>3, <1>4 DEF InChain, OnceOK
  <2>3. kind[v] = "answer" => v \in handed'
    <3>1. kind[v] = "answer" => Current.by = "sweep"
        BY <1>3, <1>4 DEF ChainKind, OnceOK, Origin
    <3>. QED
        BY <1>4, <3>1 DEF Returned
  <2>4. hand'[v] = hand[v] \/ hand'[v] \in {"delivered", "undelivered"}
      BY <1>4 DEF Returned, Put, RestOK
  <2>5. Spent(v)'
      BY <2>2, <2>3, <2>4 DEF Spent
  <2>. QED
      BY <1>2, <2>1, <2>5 DEF OnceOK, Origin
<1>5. CASE v # Current.msg
  <2>1. \A by \in Origin : Has(v, by)' <=> Has(v, by)
      BY <1>1, <1>2, <1>5, LeavesAlone
  <2>2. InChain(v)' <=> InChain(v)
      BY <2>1 DEF InChain
  <2>3. hand'[v] = hand[v] /\ (v \in handed => v \in handed')
      BY <1>3, <1>5 DEF Returned, Put, RestOK
  <2>4. Spent(v) => Spent(v)'
      BY <2>2, <2>3 DEF Spent
  <2>. QED
      BY <1>1, <1>2, <1>5, <2>2, <2>4 DEF OnceOK, Origin
<1>. QED
    BY <1>4, <1>5

\* A message is opened: no other's place in the chain changes.
LEMMA OnceOpened ==
  ASSUME StoreOK, SenderOK, RestOK, Alone, NEW v \in Msg, ChainKind(v), OnceOK(v),
         NEW m \in Msg, NEW o \in {"push", "sweep", "draft"}, Enqueue(m, o), ~InChain(m),
         UNCHANGED <<kind, went>>,
         v = m => went[v] = 0 /\ Spent(v)',
         v # m /\ (InChain(v) \/ went[v] > 0) => Spent(v)'
  PROVE  OnceOK(v)'
<1>0. o \in Origin
    BY DEF Origin
<1>1. /\ \A by \in Origin : Has(v, by) => Has(v, by)'
      /\ IF chain = <<>> THEN calling' = "no" ELSE Current' = Current /\ calling' = calling
    BY <1>0, JoinsAlone
<1>2. \A by \in Origin : Has(v, by)' => Has(v, by) \/ (v = m /\ by = o)
    BY <1>0, EnqueueHas
<1>3. ~Has(v, "resume")' /\ ~Has(v, "retry")'
    BY <1>2 DEF OnceOK, Origin
<1>4. CASE v = m
  <2>1. Pending(v)'
      BY <1>4 DEF Enqueue, Put, StoreOK, Pending
  <2>2. went'[v] = 0
      BY <1>4
  <2>3. ~(calling' = "reached" /\ Current'.msg = v)
    <3>1. CASE chain = <<>>
        BY <1>1, <3>1
    <3>2. CASE chain # <<>>
      <4>1. Has(Current.msg, Current.by) /\ Current.by \in Origin
          BY <3>2, HeadHas, HeadJob
      <4>. QED
          BY <1>1, <1>4, <3>2, <4>1 DEF InChain
    <3>. QED
        BY <3>1, <3>2
  <2>. QED
      BY <1>3, <1>4, <2>1, <2>2, <2>3 DEF OnceOK
<1>5. CASE v # m
  <2>1. InChain(v)' <=> InChain(v)
      BY <1>1, <1>2, <1>5 DEF InChain
  <2>2. Pending(v)' <=> Pending(v)
      BY <1>5 DEF Enqueue, Put, StoreOK, Pending
  <2>3. InChain(v) => chain # <<>>
      BY DEF InChain, Has
  <2>. QED
      BY <1>1, <1>3, <1>5, <2>1, <2>2, <2>3 DEF OnceOK
<1>. QED
    BY <1>4, <1>5

LEMMA SettlePending ==
  ASSUME StoreOK, NEW m \in Msg, NEW s \in {"sent", "dropped"}, SettleReceipt(m, s),
         NEW v \in Msg, v # m, Pending(v)
  PROVE  Pending(v)'
BY DEF SettleReceipt, StoreOK, Pending, Put

LEMMA OnceNext ==
  ASSUME StoreOK, SenderOK, RestOK, Quiet, Quiet', up, retries = <<>>, Alone,
     NEW v \in Msg, \A m \in Msg : ChainKind(m) /\ BookKind(m) /\ DraftOK(m)
     /\ OnceOK(m), [Next]_vars
  PROVE  OnceOK(v)'
<1>1. ASSUME NEW reach \in BOOLEAN, Call(reach) PROVE OnceOK(v)'
  <2>1. chain # <<>> /\ calling = "no" /\ Current.msg \in Msg
      BY <1>1, HeadJob DEF Call, SenderOK
  <2>2. UNCHANGED <<chain, receipt, kind, owed, handed, consent, hand, pushed>>
      BY <1>1 DEF Call, outbox, answers, drafts, bounds
  <2>3. InChain(v)' <=> InChain(v)
      BY <2>2 DEF InChain, Has
  <2>4. Spent(v) => Spent(v)'
      BY <2>2, <2>3 DEF Spent
  <2>5. Current' = Current /\ ~Has(v, "resume")' /\ ~Has(v, "retry")' /\ (Pending(v)' <=> Pending(v))
      BY <2>2 DEF Current, Has, OnceOK, Pending
  <2>6. Current.msg = v => InChain(v)
      BY <2>1, HeadJob, HeadHas DEF InChain
  <2>7. CASE reach /\ Current.msg = v
    <3>1. went[v] = 0
        BY <2>1, <2>6, <2>7 DEF OnceOK
    <3>2. went'[v] = 1 /\ calling' = "reached"
        BY <1>1, <2>7, <3>1 DEF Call, RestOK
    <3>. QED
        BY <2>3, <2>4, <2>5, <2>6, <2>7, <3>2 DEF OnceOK
  <2>8. CASE ~(reach /\ Current.msg = v)
    <3>1. went'[v] = went[v] /\ (calling' = "reached" => Current.msg # v)
        BY <1>1, <2>1, <2>8 DEF Call, RestOK
    <3>. QED
        BY <2>1, <2>3, <2>4, <2>5, <3>1 DEF OnceOK
  <2>. QED
      BY <2>7, <2>8
<1>2. CASE Sent
  <2>1. chain # <<>> /\ Current.msg \in Msg
      BY <1>2, HeadJob DEF Sent, SenderOK
  <2>2. UNCHANGED <<kind, went, owed, consent, pushed>>
      BY <1>2 DEF Sent, world, bounds
  <2>3. v # Current.msg /\ Pending(v) => Pending(v)'
      BY <1>2, <2>1, SettlePending DEF Sent
  <2>4. Returned(TRUE, FALSE)
      BY <1>2 DEF Sent
  <2>. QED
      BY <2>1, <2>2, <2>3, <2>4, OnceLeft
<1>3. ASSUME NEW w \in BOOLEAN, Dropped(w) PROVE OnceOK(v)'
  <2>1. chain # <<>> /\ Current.msg \in Msg
      BY <1>3, HeadJob DEF Dropped, SenderOK
  <2>2. UNCHANGED <<kind, went, owed, consent, pushed>>
      BY <1>3 DEF Dropped, world, bounds
  <2>3. w
      BY <1>3 DEF Dropped, Lose, Missed, Quiet, RestOK
  <2>4. v # Current.msg /\ Pending(v) => Pending(v)'
      BY <1>3, <2>1, <2>3, SettlePending DEF Dropped
  <2>5. Returned(FALSE, FALSE)
      BY <1>3, <2>3 DEF Dropped
  <2>. QED
      BY <2>1, <2>2, <2>4, <2>5, OnceLeft
<1>4. ASSUME NEW why \in {"missed", "late", "unwritten"}, NEW r \in BOOLEAN, Failed(why, r)
      PROVE  OnceOK(v)'
  <2>1. r /\ why = "missed"
      BY <1>4 DEF Failed, Lose, Missed, Quiet, RestOK
  <2>2. chain # <<>> /\ calling = "missed"
      BY <1>4, <2>1 DEF Failed, SenderOK
  <2>3. UNCHANGED <<kind, went, owed, consent, pushed, receipt>>
      BY <1>4 DEF Failed, world
  <2>4. CASE LastTry(Current)
    <3>1. Returned(FALSE, FALSE)
        BY <1>4, <2>1, <2>4 DEF Failed
    <3>2. Pending(v) => Pending(v)'
        BY <2>3 DEF Pending
    <3>. QED
        BY <2>2, <2>3, <3>1, <3>2, OnceLeft
  <2>5. CASE ~LastTry(Current)
    <3>1. chain' = AgainFirst /\ calling' = "no" /\ handed' = handed /\ hand' = hand
        BY <1>4, <2>1, <2>5 DEF Failed
    <3>2. \A by \in Origin : Has(v, by)' <=> Has(v, by)
        BY <2>2, <2>5, <3>1, TriedAlone, TriedHas
    <3>3. InChain(v)' <=> InChain(v)
        BY <3>2 DEF InChain
    <3>4. Spent(v) => Spent(v)'
        BY <2>3, <3>1, <3>3 DEF Spent
    <3>. QED
        BY <2>2, <2>3, <3>1, <3>2, <3>3, <3>4 DEF OnceOK, Pending, Origin
  <2>. QED
      BY <2>4, <2>5
<1>5. CASE Retry
    BY <1>5 DEF Retry, Quiet, RestOK
<1>6. CASE RetryNext
    BY <1>6 DEF RetryNext, Quiet, RestOK
<1>7. ASSUME NEW m \in Msg, NEW ok \in BOOLEAN, Notice(m, ok) PROVE OnceOK(v)'
  <2>1. CASE UNCHANGED sender /\ UNCHANGED outbox
    <3>1. UNCHANGED <<chain, calling, receipt, kind, went>>
        BY <1>7, <2>1 DEF Notice, sender, outbox, world
    <3>2. InChain(v) => InChain(v)'
        BY <3>1 DEF InChain, Has
    <3>3. Spent(v) => Spent(v)'
      <4>1. UNCHANGED <<kind, owed, handed, consent, hand>> /\ pushed' = pushed + 1
          BY <1>7 DEF Notice, answers, drafts, world
      <4>2. pushed # 1
          BY <4>1 DEF Quiet, RestOK
      <4>. QED
          BY <3>2, <4>1, <4>2 DEF Spent
    <3>. QED
        BY <3>1, <3>3, OnceSame
  <2>2. CASE ~(UNCHANGED sender /\ UNCHANGED outbox)
    <3>1. Enqueue(m, "push") /\ ~Known(m)
        BY <1>7, <2>2 DEF Notice
    <3>2. ~InChain(m)
        BY <3>1 DEF OnceOK, Pending, Known
    <3>3. UNCHANGED <<kind, went>>
        BY <1>7 DEF Notice, world
    <3>4. Has(m, "push")' /\ \A by \in Origin : Has(v, by) => Has(v, by)'
        BY <3>1, <3>2, JoinsAlone DEF Origin
    <3>5. v = m => InChain(v)'
        BY <3>4 DEF InChain, Origin
    <3>6. InChain(v) => InChain(v)'
        BY <3>4 DEF InChain
    <3>9. UNCHANGED <<kind, owed, handed, consent, hand>> /\ pushed' = 1 /\ pushed = 0 /\ kind[m] = "notice"
        BY <1>7 DEF Notice, answers, drafts, world, Quiet, RestOK
    <3>7. v = m => went[v] = 0 /\ Spent(v)'
      <4>1. v = m => ~Spent(v)
          BY <3>9 DEF Spent
      <4>2. went[v] \in Nat
          BY DEF RestOK
      <4>. QED
          BY <3>9, <4>1, <4>2 DEF OnceOK, Spent
    <3>8. v # m /\ (InChain(v) \/ went[v] > 0) => Spent(v)'
        BY <3>6, <3>9 DEF OnceOK, Spent
    <3>. QED
        BY <3>1, <3>2, <3>3, <3>7, <3>8, OnceOpened
  <2>. QED
      BY <2>1, <2>2
<1>8. ASSUME NEW m \in Msg, NEW ok \in BOOLEAN, Sweep(m, ok) PROVE OnceOK(v)'
  <2>1. CASE UNCHANGED sender /\ UNCHANGED outbox
    <3>1. UNCHANGED <<chain, calling, receipt, kind, went>>
        BY <1>8, <2>1 DEF Sweep, sender, outbox, world
    <3>2. InChain(v) => InChain(v)'
        BY <3>1 DEF InChain, Has
    <3>3. Spent(v) => Spent(v)'
      <4>1. UNCHANGED <<kind, owed, consent, hand, pushed>> /\ (v \in handed => v \in handed')
          BY <1>8 DEF Sweep, drafts, world
      <4>. QED
          BY <3>2, <4>1 DEF Spent
    <3>. QED
        BY <3>1, <3>3, OnceSame
  <2>2. CASE ~(UNCHANGED sender /\ UNCHANGED outbox)
    <3>1. Enqueue(m, "sweep") /\ ~Known(m)
        BY <1>8, <2>2 DEF Sweep
    <3>2. ~InChain(m)
        BY <3>1 DEF OnceOK, Pending, Known
    <3>3. UNCHANGED <<kind, went>>
        BY <1>8 DEF Sweep, world
    <3>4. Has(m, "sweep")' /\ \A by \in Origin : Has(v, by) => Has(v, by)'
        BY <3>1, <3>2, JoinsAlone DEF Origin
    <3>5. v = m => InChain(v)'
        BY <3>4 DEF InChain, Origin
    <3>6. InChain(v) => InChain(v)'
        BY <3>4 DEF InChain
    <3>9. /\ UNCHANGED <<kind, owed, handed, consent, hand, pushed>>
          /\ owed[m] = "open" /\ m \notin handed /\ kind[m] = "answer"
        BY <1>8, <2>2 DEF Sweep, drafts, world, BookKind
    <3>7. v = m => went[v] = 0 /\ Spent(v)'
      <4>1. v = m => ~Spent(v)
          BY <3>2, <3>9 DEF Spent
      <4>2. went[v] \in Nat
          BY DEF RestOK
      <4>. QED
          BY <3>5, <3>9, <4>1, <4>2 DEF OnceOK, Spent
    <3>8. v # m /\ (InChain(v) \/ went[v] > 0) => Spent(v)'
        BY <3>6, <3>9 DEF OnceOK, Spent
    <3>. QED
        BY <3>1, <3>2, <3>3, <3>7, <3>8, OnceOpened
  <2>. QED
      BY <2>1, <2>2
<1>9. ASSUME NEW m \in Msg, NEW ok \in BOOLEAN, SettleDraft(m, ok) PROVE OnceOK(v)'
  <2>1. CASE UNCHANGED sender /\ UNCHANGED outbox
    <3>1. UNCHANGED <<chain, calling, receipt, kind, went>>
        BY <1>9, <2>1 DEF SettleDraft, sender, outbox, world
    <3>2. InChain(v) => InChain(v)'
        BY <3>1 DEF InChain, Has
    <3>3. Spent(v) => Spent(v)'
      <4>1. UNCHANGED <<kind, owed, handed, consent, pushed>> /\ (hand'[v] = "settling" => hand[v] = "settling")
          BY <1>9, <2>1 DEF SettleDraft, answers, world, sender, Put, RestOK
      <4>. QED
          BY <3>2, <4>1 DEF Spent
    <3>. QED
        BY <3>1, <3>3, OnceSame
  <2>2. CASE ~(UNCHANGED sender /\ UNCHANGED outbox)
    <3>1. Enqueue(m, "draft") /\ ~Known(m)
        BY <1>9, <2>2 DEF SettleDraft
    <3>2. ~InChain(m)
        BY <3>1 DEF OnceOK, Pending, Known
    <3>3. UNCHANGED <<kind, went>>
        BY <1>9 DEF SettleDraft, world
    <3>4. Has(m, "draft")' /\ \A by \in Origin : Has(v, by) => Has(v, by)'
        BY <3>1, <3>2, JoinsAlone DEF Origin
    <3>5. v = m => InChain(v)'
        BY <3>4 DEF InChain, Origin
    <3>6. InChain(v) => InChain(v)'
        BY <3>4 DEF InChain
    <3>9. /\ UNCHANGED <<kind, owed, handed, consent, pushed>> /\ hand' = Put(hand, m, "sending")
          /\ hand[m] = "settling" /\ kind[m] = "draft" /\ consent[m] \notin {"none", "pending"}
        BY <1>9, <2>2 DEF SettleDraft, answers, world, BookKind, DraftOK
    <3>7. v = m => went[v] = 0 /\ Spent(v)'
      <4>1. v = m => ~Spent(v)
          BY <3>9 DEF Spent
      <4>2. went[v] \in Nat
          BY DEF RestOK
      <4>3. v = m => hand'[v] = "sending"
          BY <3>9 DEF Put, RestOK
      <4>. QED
          BY <3>9, <4>1, <4>2, <4>3 DEF OnceOK, Spent
    <3>8. v # m /\ (InChain(v) \/ went[v] > 0) => Spent(v)'
      <4>1. v # m => hand'[v] = hand[v]
          BY <3>9 DEF Put, RestOK
      <4>. QED
          BY <3>6, <3>9, <4>1 DEF OnceOK, Spent
    <3>. QED
        BY <3>1, <3>2, <3>3, <3>7, <3>8, OnceOpened
  <2>. QED
      BY <2>1, <2>2
<1>10. ASSUME NEW m \in Msg, Request(m) PROVE OnceOK(v)'
  <2>1. UNCHANGED <<chain, calling, receipt, kind, went, pushed>>
      BY <1>10 DEF Request, sender, outbox, world, bounds
  <2>2. /\ owed[v] # "none" => owed'[v] # "none"
        /\ owed[v] = "closed" => owed'[v] = "closed"
        /\ v \in handed => v \in handed' \/ owed'[v] = "closed"
      BY <1>10 DEF Request, answers, Put, RestOK, Lose, Missed, Quiet
  <2>3. kind[v] = "draft" /\ consent[v] \notin {"none", "pending"} =>
            /\ consent'[v] \notin {"none", "pending"}
            /\ (hand'[v] = "settling" => hand[v] = "settling")
      BY <1>10 DEF Request, drafts, Put, RestOK, DraftOK
  <2>4. InChain(v) => InChain(v)'
      BY <2>1 DEF InChain, Has
  <2>5. Spent(v) => Spent(v)'
      BY <2>1, <2>2, <2>3, <2>4, SpentSame
  <2>. QED
      BY <2>1, <2>5, OnceSame
<1>11. ASSUME NEW m \in Msg, LiveGivesUp(m) PROVE OnceOK(v)'
  <2>1. UNCHANGED <<chain, calling, receipt, kind, went, pushed>>
      BY <1>11 DEF LiveGivesUp, sender, outbox, world, bounds
  <2>2. /\ owed[v] # "none" => owed'[v] # "none"
        /\ owed[v] = "closed" => owed'[v] = "closed"
        /\ v \in handed => v \in handed' \/ owed'[v] = "closed"
      BY <1>11 DEF LiveGivesUp, answers, Put, RestOK, Lose, Missed, Quiet
  <2>3. kind[v] = "draft" /\ consent[v] \notin {"none", "pending"} =>
            /\ consent'[v] \notin {"none", "pending"}
            /\ (hand'[v] = "settling" => hand[v] = "settling")
      BY <1>11 DEF LiveGivesUp, drafts, Put, RestOK, DraftOK
  <2>4. InChain(v) => InChain(v)'
      BY <2>1 DEF InChain, Has
  <2>5. Spent(v) => Spent(v)'
      BY <2>1, <2>2, <2>3, <2>4, SpentSame
  <2>. QED
      BY <2>1, <2>5, OnceSame
<1>12. ASSUME NEW m \in Msg, Draft(m) PROVE OnceOK(v)'
  <2>1. UNCHANGED <<chain, calling, receipt, kind, went, pushed>>
      BY <1>12 DEF Draft, sender, outbox, world, bounds
  <2>2. /\ owed[v] # "none" => owed'[v] # "none"
        /\ owed[v] = "closed" => owed'[v] = "closed"
        /\ v \in handed => v \in handed' \/ owed'[v] = "closed"
      BY <1>12 DEF Draft, answers, Put, RestOK, Lose, Missed, Quiet
  <2>3. kind[v] = "draft" /\ consent[v] \notin {"none", "pending"} =>
            /\ consent'[v] \notin {"none", "pending"}
            /\ (hand'[v] = "settling" => hand[v] = "settling")
      BY <1>12 DEF Draft, drafts, Put, RestOK, DraftOK
  <2>4. InChain(v) => InChain(v)'
      BY <2>1 DEF InChain, Has
  <2>5. Spent(v) => Spent(v)'
      BY <2>1, <2>2, <2>3, <2>4, SpentSame
  <2>. QED
      BY <2>1, <2>5, OnceSame
<1>13. ASSUME NEW m \in Msg, NEW how \in {"ended", "silent"}, TurnEnds(m, how)
      PROVE  OnceOK(v)'
  <2>1. UNCHANGED <<chain, calling, receipt, kind, went, pushed>>
      BY <1>13 DEF TurnEnds, sender, outbox, world, bounds
  <2>2. /\ owed[v] # "none" => owed'[v] # "none"
        /\ owed[v] = "closed" => owed'[v] = "closed"
        /\ v \in handed => v \in handed' \/ owed'[v] = "closed"
      BY <1>13 DEF TurnEnds, answers, Put, RestOK, Lose, Missed, Quiet
  <2>3. kind[v] = "draft" /\ consent[v] \notin {"none", "pending"} =>
            /\ consent'[v] \notin {"none", "pending"}
            /\ (hand'[v] = "settling" => hand[v] = "settling")
      BY <1>13 DEF TurnEnds, drafts, Put, RestOK, DraftOK
  <2>4. InChain(v) => InChain(v)'
      BY <2>1 DEF InChain, Has
  <2>5. Spent(v) => Spent(v)'
      BY <2>1, <2>2, <2>3, <2>4, SpentSame
  <2>. QED
      BY <2>1, <2>5, OnceSame
<1>14. ASSUME NEW m \in Msg, NEW w \in BOOLEAN, NEW stuck \in BOOLEAN, LiveReplies(m, w, stuck)
      PROVE  OnceOK(v)'
  <2>1. UNCHANGED <<chain, calling, receipt, kind, went, pushed>>
      BY <1>14 DEF LiveReplies, sender, outbox, world, bounds
  <2>2. /\ owed[v] # "none" => owed'[v] # "none"
        /\ owed[v] = "closed" => owed'[v] = "closed"
        /\ v \in handed => v \in handed' \/ owed'[v] = "closed"
      BY <1>14 DEF LiveReplies, answers, Put, RestOK, Lose, Missed, Quiet
  <2>3. kind[v] = "draft" /\ consent[v] \notin {"none", "pending"} =>
            /\ consent'[v] \notin {"none", "pending"}
            /\ (hand'[v] = "settling" => hand[v] = "settling")
      BY <1>14 DEF LiveReplies, drafts, Put, RestOK, DraftOK
  <2>4. InChain(v) => InChain(v)'
      BY <2>1 DEF InChain, Has
  <2>5. Spent(v) => Spent(v)'
      BY <2>1, <2>2, <2>3, <2>4, SpentSame
  <2>. QED
      BY <2>1, <2>5, OnceSame
<1>15. ASSUME NEW m \in Msg, NEW w \in BOOLEAN, HandedOver(m, w) PROVE OnceOK(v)'
  <2>1. UNCHANGED <<chain, calling, receipt, kind, went, pushed>>
      BY <1>15 DEF HandedOver, sender, outbox, world, bounds
  <2>2. /\ owed[v] # "none" => owed'[v] # "none"
        /\ owed[v] = "closed" => owed'[v] = "closed"
        /\ v \in handed => v \in handed' \/ owed'[v] = "closed"
      BY <1>15 DEF HandedOver, answers, Put, RestOK, Lose, Missed, Quiet
  <2>3. kind[v] = "draft" /\ consent[v] \notin {"none", "pending"} =>
            /\ consent'[v] \notin {"none", "pending"}
            /\ (hand'[v] = "settling" => hand[v] = "settling")
      BY <1>15 DEF HandedOver, drafts, Put, RestOK, DraftOK
  <2>4. InChain(v) => InChain(v)'
      BY <2>1 DEF InChain, Has
  <2>5. Spent(v) => Spent(v)'
      BY <2>1, <2>2, <2>3, <2>4, SpentSame
  <2>. QED
      BY <2>1, <2>5, OnceSame
<1>16. ASSUME NEW m \in Msg, NEW w \in BOOLEAN, TellDraft(m, w) PROVE OnceOK(v)'
  <2>1. UNCHANGED <<chain, calling, receipt, kind, went, pushed>>
      BY <1>16 DEF TellDraft, sender, outbox, world, bounds
  <2>2. /\ owed[v] # "none" => owed'[v] # "none"
        /\ owed[v] = "closed" => owed'[v] = "closed"
        /\ v \in handed => v \in handed' \/ owed'[v] = "closed"
      BY <1>16 DEF TellDraft, answers, Put, RestOK, Lose, Missed, Quiet
  <2>3. kind[v] = "draft" /\ consent[v] \notin {"none", "pending"} =>
            /\ consent'[v] \notin {"none", "pending"}
            /\ (hand'[v] = "settling" => hand[v] = "settling")
      BY <1>16 DEF TellDraft, drafts, Put, RestOK, DraftOK
  <2>4. InChain(v) => InChain(v)'
      BY <2>1 DEF InChain, Has
  <2>5. Spent(v) => Spent(v)'
      BY <2>1, <2>2, <2>3, <2>4, SpentSame
  <2>. QED
      BY <2>1, <2>5, OnceSame
<1>17. ASSUME NEW m \in Msg, NEW r \in BOOLEAN, LiveDelivers(m, r) PROVE OnceOK(v)'
  <2>1. UNCHANGED <<chain, calling, receipt, kind, went, pushed>>
      BY <1>17 DEF LiveDelivers, sender, outbox, world, bounds
  <2>2. /\ owed[v] # "none" => owed'[v] # "none"
        /\ owed[v] = "closed" => owed'[v] = "closed"
        /\ v \in handed => v \in handed' \/ owed'[v] = "closed"
      BY <1>17 DEF LiveDelivers, answers, Put, RestOK, Lose, Missed, Quiet
  <2>3. kind[v] = "draft" /\ consent[v] \notin {"none", "pending"} =>
            /\ consent'[v] \notin {"none", "pending"}
            /\ (hand'[v] = "settling" => hand[v] = "settling")
      BY <1>17 DEF LiveDelivers, drafts, Put, RestOK, DraftOK
  <2>4. InChain(v) => InChain(v)'
      BY <2>1 DEF InChain, Has
  <2>5. Spent(v) => Spent(v)'
      BY <2>1, <2>2, <2>3, <2>4, SpentSame
  <2>. QED
      BY <2>1, <2>5, OnceSame
<1>18. ASSUME NEW m \in Msg, NEW yes \in BOOLEAN, Decide(m, yes) PROVE OnceOK(v)'
  <2>1. UNCHANGED <<chain, calling, receipt, kind, went, pushed>>
      BY <1>18 DEF Decide, sender, outbox, world, bounds
  <2>2. /\ owed[v] # "none" => owed'[v] # "none"
        /\ owed[v] = "closed" => owed'[v] = "closed"
        /\ v \in handed => v \in handed' \/ owed'[v] = "closed"
      BY <1>18 DEF Decide, answers, Put, RestOK, Lose, Missed, Quiet
  <2>3. kind[v] = "draft" /\ consent[v] \notin {"none", "pending"} =>
            /\ consent'[v] \notin {"none", "pending"}
            /\ (hand'[v] = "settling" => hand[v] = "settling")
      BY <1>18 DEF Decide, drafts, Put, RestOK, DraftOK
  <2>4. InChain(v) => InChain(v)'
      BY <2>1 DEF InChain, Has
  <2>5. Spent(v) => Spent(v)'
      BY <2>1, <2>2, <2>3, <2>4, SpentSame
  <2>. QED
      BY <2>1, <2>5, OnceSame
<1>19. ASSUME NEW m \in Msg, NEW yes \in BOOLEAN, Consent(m, yes) PROVE OnceOK(v)'
  <2>1. UNCHANGED <<chain, calling, receipt, kind, went, pushed>>
      BY <1>19 DEF Consent, sender, outbox, world, bounds
  <2>2. /\ owed[v] # "none" => owed'[v] # "none"
        /\ owed[v] = "closed" => owed'[v] = "closed"
        /\ v \in handed => v \in handed' \/ owed'[v] = "closed"
      BY <1>19 DEF Consent, answers, Put, RestOK, Lose, Missed, Quiet
  <2>3. kind[v] = "draft" /\ consent[v] \notin {"none", "pending"} =>
            /\ consent'[v] \notin {"none", "pending"}
            /\ (hand'[v] = "settling" => hand[v] = "settling")
      BY <1>19 DEF Consent, drafts, Put, RestOK, DraftOK
  <2>4. InChain(v) => InChain(v)'
      BY <2>1 DEF InChain, Has
  <2>5. Spent(v) => Spent(v)'
      BY <2>1, <2>2, <2>3, <2>4, SpentSame
  <2>. QED
      BY <2>1, <2>5, OnceSame
<1>20. CASE Crash
    BY <1>20 DEF Crash, Quiet, RestOK
<1>21. ASSUME NEW c \in BOOLEAN, Restart(c) PROVE OnceOK(v)'
    BY <1>21 DEF Restart, Quiet, RestOK
<1>22. CASE UNCHANGED vars
    BY <1>22 DEF vars, outbox, sender, answers, drafts, world, bounds, OnceOK,
       Spent, InChain, Has, Current, Pending
<1>. QED
    BY <1>1, <1>2, <1>3, <1>4, <1>5, <1>6, <1>7, <1>8, <1>9, <1>10, <1>11,
       <1>12, <1>13, <1>14, <1>15, <1>16, <1>17, <1>18, <1>19, <1>20, <1>21,
       <1>22 DEF Next, Sender, MsgStep

LEMMA AloneNext ==
  ASSUME StoreOK, SenderOK, RestOK, Quiet, Quiet', up, retries = <<>>, Alone,
     \A m \in Msg : OnceOK(m), [Next]_vars
  PROVE  up' /\ retries' = <<>> /\ Alone'
<1>1. ASSUME NEW reach \in BOOLEAN, Call(reach) PROVE up' /\ retries' = <<>> /\ Alone'
    BY <1>1 DEF Call, sender, world, Alone, Quiet, RestOK
<1>2. CASE Sent
  <2>1. chain # <<>>
      BY <1>2 DEF Sent, SenderOK
  <2>. QED
      BY <1>2, <2>1, LeavesAlone DEF Sent, Returned, world
<1>3. ASSUME NEW w \in BOOLEAN, Dropped(w) PROVE up' /\ retries' = <<>> /\ Alone'
  <2>1. chain # <<>>
      BY <1>3 DEF Dropped, SenderOK
  <2>. QED
      BY <1>3, <2>1, LeavesAlone DEF Dropped, Returned, world
<1>4. ASSUME NEW why \in {"missed", "late", "unwritten"}, NEW r \in BOOLEAN, Failed(why, r)
      PROVE  up' /\ retries' = <<>> /\ Alone'
  <2>1. chain # <<>> /\ up' = up
      BY <1>4 DEF Failed, SenderOK, world
  <2>2. CASE r /\ ~LastTry(Current)
      BY <1>4, <2>1, <2>2, TriedAlone DEF Failed
  <2>3. CASE ~(r /\ ~LastTry(Current))
      BY <1>4, <2>1, <2>3, LeavesAlone DEF Failed, Returned
  <2>. QED
      BY <2>2, <2>3
<1>5. CASE Retry
    BY <1>5 DEF Retry, sender, world, Alone, Quiet, RestOK
<1>6. CASE RetryNext
    BY <1>6 DEF RetryNext, sender, world, Alone, Quiet, RestOK
<1>7. ASSUME NEW m \in Msg, NEW ok \in BOOLEAN, Notice(m, ok)
      PROVE  up' /\ retries' = <<>> /\ Alone'
  <2>1. CASE UNCHANGED sender
      BY <1>7, <2>1 DEF Notice, sender, world, Alone
  <2>2. CASE ~UNCHANGED sender
    <3>1. Enqueue(m, "push") /\ ~Known(m) /\ up' = up
        BY <1>7, <2>2 DEF Notice, world
    <3>2. ~InChain(m)
        BY <3>1 DEF OnceOK, Pending, Known
    <3>. QED
        BY <3>1, <3>2, JoinsAlone DEF Origin, Enqueue
  <2>. QED
      BY <2>1, <2>2
<1>8. ASSUME NEW m \in Msg, NEW ok \in BOOLEAN, Sweep(m, ok)
      PROVE  up' /\ retries' = <<>> /\ Alone'
  <2>1. CASE UNCHANGED sender
      BY <1>8, <2>1 DEF Sweep, sender, world, Alone
  <2>2. CASE ~UNCHANGED sender
    <3>1. Enqueue(m, "sweep") /\ ~Known(m) /\ up' = up
        BY <1>8, <2>2 DEF Sweep, world
    <3>2. ~InChain(m)
        BY <3>1 DEF OnceOK, Pending, Known
    <3>. QED
        BY <3>1, <3>2, JoinsAlone DEF Origin, Enqueue
  <2>. QED
      BY <2>1, <2>2
<1>9. ASSUME NEW m \in Msg, NEW ok \in BOOLEAN, SettleDraft(m, ok)
      PROVE  up' /\ retries' = <<>> /\ Alone'
  <2>1. CASE UNCHANGED sender
      BY <1>9, <2>1 DEF SettleDraft, sender, world, Alone
  <2>2. CASE ~UNCHANGED sender
    <3>1. Enqueue(m, "draft") /\ ~Known(m) /\ up' = up
        BY <1>9, <2>2 DEF SettleDraft, world
    <3>2. ~InChain(m)
        BY <3>1 DEF OnceOK, Pending, Known
    <3>. QED
        BY <3>1, <3>2, JoinsAlone DEF Origin, Enqueue
  <2>. QED
      BY <2>1, <2>2
<1>10. ASSUME NEW m \in Msg, Request(m) PROVE up' /\ retries' = <<>> /\ Alone'
    BY <1>10 DEF Request, sender, world, Alone, Quiet, RestOK
<1>11. ASSUME NEW m \in Msg, LiveGivesUp(m) PROVE up' /\ retries' = <<>> /\ Alone'
    BY <1>11 DEF LiveGivesUp, sender, world, Alone, Quiet, RestOK
<1>12. ASSUME NEW m \in Msg, Draft(m) PROVE up' /\ retries' = <<>> /\ Alone'
    BY <1>12 DEF Draft, sender, world, Alone, Quiet, RestOK
<1>13. ASSUME NEW m \in Msg, NEW how \in {"ended", "silent"}, TurnEnds(m, how)
      PROVE  up' /\ retries' = <<>> /\ Alone'
    BY <1>13 DEF TurnEnds, sender, world, Alone, Quiet, RestOK
<1>14. ASSUME NEW m \in Msg, NEW w \in BOOLEAN, NEW stuck \in BOOLEAN, LiveReplies(m, w, stuck)
      PROVE  up' /\ retries' = <<>> /\ Alone'
    BY <1>14 DEF LiveReplies, sender, world, Alone, Quiet, RestOK
<1>15. ASSUME NEW m \in Msg, NEW w \in BOOLEAN, HandedOver(m, w)
      PROVE  up' /\ retries' = <<>> /\ Alone'
    BY <1>15 DEF HandedOver, sender, world, Alone, Quiet, RestOK
<1>16. ASSUME NEW m \in Msg, NEW w \in BOOLEAN, TellDraft(m, w)
      PROVE  up' /\ retries' = <<>> /\ Alone'
    BY <1>16 DEF TellDraft, sender, world, Alone, Quiet, RestOK
<1>17. ASSUME NEW m \in Msg, NEW r \in BOOLEAN, LiveDelivers(m, r)
      PROVE  up' /\ retries' = <<>> /\ Alone'
    BY <1>17 DEF LiveDelivers, sender, world, Alone, Quiet, RestOK
<1>18. ASSUME NEW m \in Msg, NEW yes \in BOOLEAN, Decide(m, yes)
      PROVE  up' /\ retries' = <<>> /\ Alone'
    BY <1>18 DEF Decide, sender, world, Alone, Quiet, RestOK
<1>19. ASSUME NEW m \in Msg, NEW yes \in BOOLEAN, Consent(m, yes)
      PROVE  up' /\ retries' = <<>> /\ Alone'
    BY <1>19 DEF Consent, sender, world, Alone, Quiet, RestOK
<1>20. CASE Crash
    BY <1>20 DEF Crash, sender, world, Alone, Quiet, RestOK
<1>21. ASSUME NEW c \in BOOLEAN, Restart(c) PROVE up' /\ retries' = <<>> /\ Alone'
    BY <1>21 DEF Restart, sender, world, Alone, Quiet, RestOK
<1>22. CASE UNCHANGED vars
    BY <1>22 DEF vars, sender, world, Alone
<1>. QED
    BY <1>1, <1>2, <1>3, <1>4, <1>5, <1>6, <1>7, <1>8, <1>9, <1>10, <1>11,
       <1>12, <1>13, <1>14, <1>15, <1>16, <1>17, <1>18, <1>19, <1>20, <1>21,
       <1>22 DEF Next, Sender, MsgStep

\* send(), enqueue(): while the process runs, the door tells the truth, every append is
\* made and no person presses Retry, no receipt goes twice, whatever pushes and sweeps
\* overlap and however often the file is compacted.
THEOREM OncePerReceiptHolds == Spec => []OncePerReceipt
<1>1. Init => OnceInv
  <2>. SUFFICES ASSUME Init PROVE OnceInv
      OBVIOUS
  <2>1. chain = <<>> /\ DOMAIN chain = {}
      BY EmptySeq, LenProperties DEF Init
  <2>2. up /\ retries = <<>> /\ \A v \in Msg : went[v] = 0
      BY DEF Init
  <2>. QED
      BY <2>1, <2>2 DEF OnceInv, Alone, OnceOK, InChain, Has
<1>2. ASSUME OutboundInv, OnceInv, [Next]_vars PROVE OnceInv'
  <2>1. SUFFICES ASSUME Quiet' PROVE up' /\ retries' = <<>> /\ Alone' /\ \A v \in Msg : OnceOK(v)'
      BY DEF OnceInv
  <2>2. /\ StoreOK /\ SenderOK /\ RestOK
        /\ \A m \in Msg : ChainKind(m) /\ BookKind(m) /\ DraftOK(m)
      BY <1>2 DEF OutboundInv, MessageOK
  <2>3. Quiet
      BY <1>2, <2>1, <2>2, QuietBefore
  <2>4. up /\ retries = <<>> /\ Alone /\ \A v \in Msg : OnceOK(v)
      BY <1>2, <2>3 DEF OnceInv
  <2>5. up' /\ retries' = <<>> /\ Alone'
      BY <1>2, <2>1, <2>2, <2>3, <2>4, AloneNext
  <2>6. ASSUME NEW v \in Msg PROVE OnceOK(v)'
      BY <1>2, <2>1, <2>2, <2>3, <2>4, OnceNext
  <2>. QED
      BY <2>5, <2>6
<1>3. OnceInv => OncePerReceipt
    BY DEF OnceInv, OnceOK, OncePerReceipt, Quiet
<1>. QED
    BY <1>1, <1>2, <1>3, OutboundInvariant, PTL DEF Spec

----------------------------------------------------------------------------
(* The order of a chat.  While every append is made and no person presses  *)
(* Retry, the chain is the log without what is settled or given up.        *)

Calm == lost = 0 /\ retried = 0
Before(x, y) == \E i, j \in DOMAIN log : i < j /\ log[i] = x /\ log[j] = y
Fits(j) == Pending(j.msg) /\ j.tried = fails[j.msg] /\ ~j.once
Queued(m) == \E i \in DOMAIN chain : chain[i].msg = m

LineOK ==
    /\ retries = <<>>
    /\ chain # <<>> => up /\ door
    /\ \A i \in DOMAIN chain : Fits(chain[i])
    /\ \A i, j \in DOMAIN chain : i < j => Before(chain[i].msg, chain[j].msg)
    /\ up /\ door => \A m \in Msg : Pending(m) /\ fails[m] < MaxAttempts => Queued(m)

OrderInv == Calm => LineOK

\* What is before another is not that other, nor behind it.
LEMMA BeforeStrict ==
  ASSUME StoreOK, NEW x, NEW y, Before(x, y)
  PROVE  x # y /\ ~Before(y, x)
<1>0. DOMAIN log \subseteq Nat
    BY LenProperties DEF StoreOK
<1>1. PICK i \in DOMAIN log, j \in DOMAIN log : i < j /\ log[i] = x /\ log[j] = y
    BY DEF Before
<1>2. x # y
    BY <1>0, <1>1 DEF StoreOK, Distinct
<1>3. ~Before(y, x)
    BY <1>0, <1>1 DEF StoreOK, Distinct, Before
<1>. QED
    BY <1>2, <1>3

\* No message is twice in the line.
LEMMA LineAlone ==
  ASSUME StoreOK, SenderOK, LineOK, NEW i \in DOMAIN chain, NEW j \in DOMAIN chain,
         chain[i].msg = chain[j].msg
  PROVE  i = j
<1>1. i \in Nat /\ j \in Nat
    BY LenProperties DEF SenderOK
<1>2. ASSUME NEW k \in DOMAIN chain, NEW l \in DOMAIN chain, k < l PROVE chain[k].msg # chain[l].msg
    BY <1>2, BeforeStrict DEF LineOK
<1>. QED
    BY <1>1, <1>2

\* A new message is behind all that is known, and the order of those is kept.
LEMMA AppendBefore ==
  ASSUME StoreOK, NEW m \in Msg, ~Known(m), NEW by, Enqueue(m, by)
  PROVE  /\ \A x, y : Before(x, y) => Before(x, y)'
         /\ \A x \in Msg : Known(x) => Before(x, m)'
<1>1. log' = Append(log, m)
    BY DEF StoreOK, Enqueue, InLog, Known
<1>2. /\ log' \in Seq(Msg) /\ Len(log') = Len(log) + 1 /\ log'[Len(log) + 1] = m
      /\ \A i \in 1..Len(log) : log'[i] = log[i]
    BY <1>1, AppendProperties DEF StoreOK
<1>3. Len(log) \in Nat /\ DOMAIN log = 1..Len(log) /\ DOMAIN log' = 1..(Len(log) + 1)
    BY <1>2, LenProperties DEF StoreOK
<1>4. ASSUME NEW x, NEW y, Before(x, y) PROVE Before(x, y)'
  <2>1. PICK i \in DOMAIN log, j \in DOMAIN log : i < j /\ log[i] = x /\ log[j] = y
      BY <1>4 DEF Before
  <2>2. i \in DOMAIN log' /\ j \in DOMAIN log' /\ log'[i] = x /\ log'[j] = y
      BY <1>2, <1>3, <2>1
  <2>. QED
      BY <2>1, <2>2 DEF Before
<1>5. ASSUME NEW x \in Msg, Known(x) PROVE Before(x, m)'
  <2>1. PICK i \in DOMAIN log : log[i] = x
      BY <1>5 DEF StoreOK, InLog
  <2>2. i \in DOMAIN log' /\ Len(log) + 1 \in DOMAIN log' /\ i < Len(log) + 1 /\ log'[i] = x
      BY <1>2, <1>3, <2>1
  <2>. QED
      BY <1>2, <2>2 DEF Before
<1>. QED
    BY <1>4, <1>5

\* A compaction keeps the order of what is pending.
LEMMA OnlyBefore ==
  ASSUME NEW M, NEW s \in Seq(M), NEW S, NEW i \in DOMAIN s, NEW j \in DOMAIN s, i < j,
         s[i] \in S, s[j] \in S
  PROVE  \E k, l \in DOMAIN Only(s, S) : k < l /\ Only(s, S)[k] = s[i] /\ Only(s, S)[l] = s[j]
<1>. DEFINE P == Places(s, S)
            k == Rank(P, i)
            l == Rank(P, j)
<1>1. P \in SUBSET Nat /\ IsFiniteSet(P)
    BY PlacesFinite
<1>2. i \in P /\ j \in P
    BY DEF Places
<1>3. k < l
    BY <1>1, <1>2, RankLess
<1>4. k \in DOMAIN Only(s, S) /\ Only(s, S)[k] = s[i]
    BY OnlyKeeps
<1>5. l \in DOMAIN Only(s, S) /\ Only(s, S)[l] = s[j]
    BY OnlyKeeps
<1>. QED
    BY <1>3, <1>4, <1>5

LEMMA SettleBefore ==
  ASSUME StoreOK, NEW m \in Msg, NEW s \in {"sent", "dropped"}, SettleReceipt(m, s),
         NEW x \in Msg, NEW y \in Msg, x # m, y # m, Pending(x), Pending(y), Before(x, y)
  PROVE  Before(x, y)'
<1>. DEFINE r == IF Known(m) THEN Put(receipt, m, s) ELSE receipt
            S == {n \in Msg : r[n] = "pending"}
<1>1. x \in S /\ y \in S
    BY DEF Pending, Put, StoreOK
<1>2. log' = log \/ log' = Only(log, S)
    BY DEF SettleReceipt
<1>3. PICK i \in DOMAIN log, j \in DOMAIN log : i < j /\ log[i] = x /\ log[j] = y
    BY DEF Before
<1>. HIDE DEF S
<1>4. CASE log' = Only(log, S)
  <2>1. \E k, l \in DOMAIN Only(log, S) : k < l /\ Only(log, S)[k] = log[i] /\ Only(log, S)[l] = log[j]
      BY <1>1, <1>3, OnlyBefore DEF StoreOK
  <2>. QED
      BY <1>3, <1>4, <2>1 DEF Before
<1>5. CASE log' = log
    BY <1>5 DEF Before
<1>. QED
    BY <1>2, <1>4, <1>5

\* What is settled is no longer pending, and of the others nothing changes.
LEMMA SettleOthers ==
  ASSUME StoreOK, NEW m \in Msg, Known(m), NEW s \in {"sent", "dropped"}, SettleReceipt(m, s)
  PROVE  /\ ~Pending(m)'
         /\ \A v \in Msg : Pending(v)' => Pending(v) /\ v # m
         /\ \A v \in Msg : Pending(v) /\ v # m => Pending(v)' /\ fails'[v] = fails[v]
BY DEF SettleReceipt, StoreOK, Pending, Put, Known

\* A new message joins the line at its end.
LEMMA LineJoins ==
  ASSUME StoreOK, SenderOK, LineOK, NEW m \in Msg, NEW o \in Origin, Enqueue(m, o), ~Known(m),
         up, door, UNCHANGED <<up, door>>
  PROVE  LineOK'
<1>. DEFINE j == Job(m, 0, FALSE, o)
<1>1. j \in JobOK /\ j.msg = m /\ j.tried = 0 /\ ~j.once
    BY OutboundConstants DEF Job, JobOK, OutboundConstants
<1>2. chain' = Append(chain, j) /\ retries' = retries
      /\ receipt' = Put(receipt, m, "pending") /\ fails' = Put(fails, m, 0)
    BY DEF Enqueue
<1>3. /\ Len(chain) \in Nat /\ DOMAIN chain = 1..Len(chain) /\ DOMAIN chain' = 1..(Len(chain) + 1)
      /\ \A i \in DOMAIN chain : chain'[i] = chain[i]
      /\ chain'[Len(chain) + 1] = j
    BY <1>1, <1>2, Joins
<1>. HIDE DEF j
<1>4. \A i \in DOMAIN chain : chain[i].msg \in Msg /\ Known(chain[i].msg) /\ chain[i].msg # m
  <2>1. \A i \in DOMAIN chain : chain[i] \in JobOK
      BY LenProperties DEF SenderOK
  <2>. QED
      BY <2>1 DEF LineOK, Fits, Pending, Known, JobOK
<1>5. \A v \in Msg : v # m => receipt'[v] = receipt[v] /\ fails'[v] = fails[v]
    BY <1>2 DEF Put, StoreOK
<1>6. receipt'[m] = "pending" /\ fails'[m] = 0
    BY <1>2 DEF Put, StoreOK
<1>7. ASSUME NEW i \in DOMAIN chain'
      PROVE  receipt'[chain'[i].msg] = "pending" /\ chain'[i].tried = fails'[chain'[i].msg] /\ ~chain'[i].once
  <2>1. CASE i = Len(chain) + 1
      BY <1>1, <1>3, <1>6, <2>1
  <2>2. CASE i # Len(chain) + 1
    <3>1. i \in DOMAIN chain /\ chain'[i] = chain[i]
        BY <1>3, <2>2
    <3>. QED
        BY <1>4, <1>5, <3>1 DEF Fits, LineOK, Pending
  <2>. QED
      BY <2>1, <2>2
<1>8. ASSUME NEW i \in DOMAIN chain', NEW k \in DOMAIN chain', i < k,
             NEW x, NEW y, x = chain'[i].msg, y = chain'[k].msg
      PROVE  Before(x, y)'
  <2>1. i \in DOMAIN chain /\ x = chain[i].msg
      BY <1>3, <1>8
  <2>2. CASE k = Len(chain) + 1
    <3>1. y = m /\ x \in Msg /\ Known(x)
        BY <1>1, <1>3, <1>4, <1>8, <2>1, <2>2
    <3>. QED
        BY <3>1, AppendBefore
  <2>3. CASE k # Len(chain) + 1
    <3>1. k \in DOMAIN chain /\ y = chain[k].msg
        BY <1>3, <1>8, <2>3
    <3>2. Before(x, y)
        BY <1>8, <2>1, <3>1 DEF LineOK
    <3>. QED
        BY <3>2, AppendBefore
  <2>. QED
      BY <2>2, <2>3
<1>9. ASSUME NEW v \in Msg, receipt'[v] = "pending", fails'[v] < MaxAttempts
      PROVE  \E i \in DOMAIN chain' : chain'[i].msg = v
  <2>1. CASE v = m
    <3>1. Len(chain) + 1 \in DOMAIN chain'
        BY <1>3
    <3>. QED
        BY <1>1, <1>3, <2>1, <3>1
  <2>2. CASE v # m
    <3>1. Queued(v)
        BY <1>5, <1>9, <2>2 DEF LineOK, Pending
    <3>2. PICK i \in DOMAIN chain : chain[i].msg = v
        BY <3>1 DEF Queued
    <3>. QED
        BY <1>3, <3>2
  <2>. QED
      BY <2>1, <2>2
<1>10. retries' = <<>> /\ up' /\ door'
    BY <1>2 DEF LineOK
<1>. QED
    BY <1>7, <1>8, <1>9, <1>10 DEF LineOK, Fits, Pending, Queued

\* The head leaves the line: of the others nothing changes.
LEMMA LineLeaves ==
  ASSUME StoreOK, SenderOK, LineOK, chain # <<>>, chain' = Tail(chain), UNCHANGED <<retries, up, door>>,
         fails' \in [Msg -> Nat],
         NEW m \in Msg, m = Current.msg,
         \A v \in Msg : v # m /\ Pending(v) => Pending(v)' /\ fails'[v] = fails[v],
         \A v \in Msg : v # m /\ Pending(v)' => Pending(v),
         Pending(m)' => fails'[m] >= MaxAttempts,
         \A x, y \in Msg : x # m /\ y # m /\ Pending(x) /\ Pending(y) /\ Before(x, y) => Before(x, y)'
  PROVE  LineOK'
<1>1. /\ Len(chain) \in Nat /\ DOMAIN chain = 1..Len(chain)
      /\ \A i \in DOMAIN chain' : i \in Nat /\ i + 1 \in DOMAIN chain /\ chain'[i] = chain[i + 1]
      /\ \A i \in DOMAIN chain : i # 1 => i - 1 \in DOMAIN chain' /\ chain'[i - 1] = chain[i]
    BY Leaves
<1>2. \A i \in DOMAIN chain : chain[i].msg \in Msg
    BY LenProperties DEF SenderOK, JobOK
<1>3. \A i \in DOMAIN chain : i # 1 => chain[i].msg # m
    BY HeadJob, LineAlone DEF Current
<1>4. \A i \in DOMAIN chain' : i + 1 # 1 /\ i \in Nat
  <2>1. chain' \in Seq(JobOK)
      BY Leaves
  <2>2. DOMAIN chain' = 1..Len(chain')
      BY <2>1, LenProperties
  <2>. QED
      BY <2>2
<1>5. ASSUME NEW i \in DOMAIN chain'
      PROVE  receipt'[chain'[i].msg] = "pending" /\ chain'[i].tried = fails'[chain'[i].msg] /\ ~chain'[i].once
  <2>1. i + 1 \in DOMAIN chain /\ chain'[i] = chain[i + 1] /\ chain[i + 1].msg # m /\ chain[i + 1].msg \in Msg
      BY <1>1, <1>2, <1>3, <1>4
  <2>. QED
      BY <2>1 DEF LineOK, Fits, Pending
<1>6. ASSUME NEW i \in DOMAIN chain', NEW k \in DOMAIN chain', i < k,
             NEW x, NEW y, x = chain'[i].msg, y = chain'[k].msg
      PROVE  Before(x, y)'
  <2>1. /\ i + 1 \in DOMAIN chain /\ x = chain[i + 1].msg /\ x # m /\ x \in Msg
        /\ k + 1 \in DOMAIN chain /\ y = chain[k + 1].msg /\ y # m /\ y \in Msg
      BY <1>1, <1>2, <1>3, <1>4, <1>6
  <2>2. Before(x, y) /\ Pending(x) /\ Pending(y)
      BY <1>4, <1>6, <2>1 DEF LineOK, Fits
  <2>. QED
      BY <2>1, <2>2
<1>7. ASSUME NEW v \in Msg, up', door', receipt'[v] = "pending", fails'[v] < MaxAttempts
      PROVE  \E i \in DOMAIN chain' : chain'[i].msg = v
  <2>1. v # m
    <3>1. v = m => ~(fails'[v] >= MaxAttempts)
        BY <1>7, OutboundConstants DEF OutboundConstants
    <3>. QED
        BY <1>7, <3>1 DEF Pending
  <2>2. Pending(v) /\ fails[v] < MaxAttempts
      BY <1>7, <2>1 DEF Pending
  <2>3. PICK i \in DOMAIN chain : chain[i].msg = v
      BY <1>7, <2>2 DEF LineOK, Queued
  <2>4. i # 1
      BY <2>1, <2>3 DEF Current
  <2>. QED
      BY <1>1, <2>3, <2>4
<1>8. retries' = <<>> /\ (chain' # <<>> => up' /\ door')
    BY DEF LineOK
<1>. QED
    BY <1>5, <1>6, <1>7, <1>8 DEF LineOK, Fits, Pending, Queued

\* The head has failed once more and stays the head.
LEMMA LineTried ==
  ASSUME StoreOK, SenderOK, LineOK, chain # <<>>, ~LastTry(Current), chain' = AgainFirst,
         UNCHANGED <<retries, up, door, log, receipt>>, fails' = [fails EXCEPT ![Current.msg] = @ + 1]
  PROVE  LineOK'
<1>1. /\ DOMAIN chain' = DOMAIN chain /\ chain' # <<>>
      /\ \A i \in DOMAIN chain : i # 1 => chain'[i] = chain[i]
      /\ chain'[1] = [Current EXCEPT !.tried = Current.tried + 1]
    BY TriedAgain
<1>2. Current \in JobOK /\ 1 \in DOMAIN chain /\ Current.msg \in Msg
    BY HeadJob
<1>3. \A i \in DOMAIN chain : chain[i] \in JobOK
    BY LenProperties DEF SenderOK
<1>4. \A i \in DOMAIN chain : chain'[i].msg = chain[i].msg /\ chain'[i].once = chain[i].once
    BY <1>1, <1>2 DEF JobOK, Current
<1>5. \A i \in DOMAIN chain : i # 1 => chain[i].msg # Current.msg
    BY <1>2, LineAlone DEF Current
<1>6. ASSUME NEW i \in DOMAIN chain PROVE chain'[i].tried = fails'[chain[i].msg]
  <2>1. CASE i = 1
    <3>1. chain'[1].tried = Current.tried + 1
        BY <1>1, <1>2 DEF JobOK
    <3>2. Current.tried = fails[Current.msg]
        BY <1>2 DEF LineOK, Fits, Current
    <3>3. fails'[Current.msg] = fails[Current.msg] + 1
        BY <1>2 DEF StoreOK
    <3>. QED
        BY <2>1, <3>1, <3>2, <3>3 DEF Current
  <2>2. CASE i # 1
    <3>1. chain'[i] = chain[i] /\ chain[i].msg \in Msg /\ chain[i].tried = fails[chain[i].msg]
        BY <1>1, <1>3, <2>2 DEF JobOK, LineOK, Fits
    <3>. QED
        BY <1>5, <2>2, <3>1 DEF StoreOK
  <2>. QED
      BY <2>1, <2>2
<1>7. \A v \in Msg : fails'[v] < MaxAttempts => fails[v] < MaxAttempts
    BY OutboundConstants DEF StoreOK, OutboundConstants
<1>8. ASSUME NEW i \in DOMAIN chain'
      PROVE  receipt'[chain'[i].msg] = "pending" /\ chain'[i].tried = fails'[chain'[i].msg] /\ ~chain'[i].once
  <2>1. i \in DOMAIN chain /\ receipt[chain[i].msg] = "pending" /\ ~chain[i].once
      BY <1>1 DEF LineOK, Fits, Pending
  <2>2. chain'[i].tried = fails'[chain[i].msg]
      BY <1>6, <2>1
  <2>3. chain'[i].msg = chain[i].msg /\ chain'[i].once = chain[i].once
      BY <1>4, <2>1
  <2>. QED
      BY <2>1, <2>2, <2>3
<1>9. ASSUME NEW i \in DOMAIN chain', NEW k \in DOMAIN chain', i < k,
             NEW x, NEW y, x = chain'[i].msg, y = chain'[k].msg
      PROVE  Before(x, y)'
  <2>1. x = chain[i].msg /\ y = chain[k].msg /\ i \in DOMAIN chain /\ k \in DOMAIN chain
      BY <1>1, <1>4, <1>9
  <2>2. Before(x, y)
      BY <1>9, <2>1 DEF LineOK
  <2>. QED
      BY <2>2 DEF Before
<1>10. ASSUME NEW v \in Msg, up', door', receipt'[v] = "pending", fails'[v] < MaxAttempts
       PROVE  \E i \in DOMAIN chain' : chain'[i].msg = v
  <2>1. Queued(v)
      BY <1>7, <1>10 DEF LineOK, Pending
  <2>. QED
      BY <1>1, <1>4, <2>1 DEF Queued
<1>11. retries' = <<>> /\ up' /\ door'
    BY DEF LineOK
<1>. QED
    BY <1>8, <1>9, <1>10, <1>11 DEF LineOK, Fits, Pending, Queued

\* resume(): the line is what the log says, in its order.
LEMMA LineRestart ==
  ASSUME StoreOK, RestOK, LineOK, Down, NEW c \in BOOLEAN, Restart(c)
  PROVE  LineOK'
<1>. DEFINE S == {m \in Msg : Resumed(m)}
            todo == IF c THEN Only(log, S) ELSE <<>>
<1>1. chain' = [i \in DOMAIN todo |-> Job(todo[i], fails[todo[i]], FALSE, "resume")]
    BY DEF Restart
<1>2. /\ up' = TRUE /\ door' = c /\ log' = log /\ receipt' = receipt /\ fails' = fails
      /\ retries' = <<>>
    BY DEF Restart, outbox, Down
<1>3. todo \in Seq(Msg \cap S)
    BY OnlyType, EmptySeq DEF StoreOK
<1>4. \A i \in DOMAIN todo : todo[i] \in Msg \cap S
  <2>. HIDE DEF todo
  <2>. QED
      BY <1>3, LenProperties
<1>5. DOMAIN chain' = DOMAIN todo /\ \A i \in DOMAIN todo :
          chain'[i].msg = todo[i] /\ chain'[i].tried = fails[todo[i]] /\ ~chain'[i].once
  <2>. HIDE DEF todo
  <2>. QED
      BY <1>1 DEF Job
<1>6. ASSUME NEW i \in DOMAIN chain'
      PROVE  receipt'[chain'[i].msg] = "pending" /\ chain'[i].tried = fails'[chain'[i].msg] /\ ~chain'[i].once
    BY <1>2, <1>4, <1>5 DEF Resumed, Pending
<1>7. ASSUME NEW i \in DOMAIN chain', NEW k \in DOMAIN chain', i < k,
             NEW x, NEW y, x = chain'[i].msg, y = chain'[k].msg
      PROVE  Before(x, y)'
  <2>1. x = todo[i] /\ y = todo[k] /\ i \in DOMAIN todo /\ k \in DOMAIN todo
    <3>. HIDE DEF todo
    <3>. QED
        BY <1>5, <1>7
  <2>2. c
      BY <2>1, EmptySeq, LenProperties
  <2>3. todo = Only(log, S)
      BY <2>2
  <2>4. \E p, q \in DOMAIN log : p < q /\ log[p] = todo[i] /\ log[q] = todo[k]
    <3>. HIDE DEF todo, S
    <3>. QED
        BY <1>7, <2>1, <2>3, OnlyFrom DEF StoreOK
  <2>. HIDE DEF todo
  <2>. QED
      BY <1>2, <2>1, <2>4 DEF Before
<1>8. ASSUME NEW v \in Msg, c, receipt'[v] = "pending", fails'[v] < MaxAttempts
      PROVE  \E i \in DOMAIN chain' : chain'[i].msg = v
  <2>1. v \in S /\ Known(v)
      BY <1>2, <1>8 DEF Resumed, Pending, Known
  <2>2. \E i \in DOMAIN log : log[i] = v
      BY <2>1 DEF StoreOK, InLog
  <2>3. todo = Only(log, S)
      BY <1>8
  <2>4. \E i \in DOMAIN todo : todo[i] = v
    <3>. HIDE DEF todo, S
    <3>. QED
        BY <2>1, <2>2, <2>3, OnlyElements DEF StoreOK
  <2>. HIDE DEF todo
  <2>. QED
      BY <1>5, <2>4
<1>9. chain' # <<>> => c
  <2>1. ~c => todo = <<>>
      OBVIOUS
  <2>2. ~c => DOMAIN todo = {}
      BY <2>1, EmptySeq, LenProperties
  <2>3. ~c => chain' = [i \in {} |-> Job(todo[i], fails[todo[i]], FALSE, "resume")]
      BY <1>1, <2>2
  <2>4. ~c => chain' = <<>>
      BY <1>1, <2>1
  <2>. QED
      BY <2>4
<1>. HIDE DEF todo
<1>. QED
    BY <1>2, <1>6, <1>7, <1>8, <1>9 DEF LineOK, Fits, Pending, Queued

\* What has been calm was calm before.
LEMMA CalmBefore ==
  ASSUME RestOK, Calm', [Next]_vars
  PROVE  Calm
<1>1. ASSUME NEW reach \in BOOLEAN, Call(reach) PROVE Calm
    BY <1>1 DEF Call, bounds, Calm, RestOK, Lose, Missed
<1>2. CASE Sent
    BY <1>2 DEF Sent, bounds, Calm, RestOK, Lose, Missed
<1>3. ASSUME NEW w \in BOOLEAN, Dropped(w) PROVE Calm
    BY <1>3 DEF Dropped, bounds, Calm, RestOK, Lose, Missed
<1>4. ASSUME NEW why \in {"missed", "late", "unwritten"}, NEW r \in BOOLEAN, Failed(why, r)
      PROVE  Calm
    BY <1>4 DEF Failed, bounds, Calm, RestOK, Lose, Missed
<1>5. CASE Retry
    BY <1>5 DEF Retry, bounds, Calm, RestOK, Lose, Missed
<1>6. CASE RetryNext
    BY <1>6 DEF RetryNext, bounds, Calm, RestOK, Lose, Missed
<1>7. ASSUME NEW m \in Msg, NEW ok \in BOOLEAN, Notice(m, ok) PROVE Calm
    BY <1>7 DEF Notice, bounds, Calm, RestOK, Lose, Missed
<1>8. ASSUME NEW m \in Msg, NEW ok \in BOOLEAN, Sweep(m, ok) PROVE Calm
    BY <1>8 DEF Sweep, bounds, Calm, RestOK, Lose, Missed
<1>9. ASSUME NEW m \in Msg, NEW ok \in BOOLEAN, SettleDraft(m, ok) PROVE Calm
    BY <1>9 DEF SettleDraft, bounds, Calm, RestOK, Lose, Missed
<1>10. ASSUME NEW m \in Msg, Request(m) PROVE Calm
    BY <1>10 DEF Request, bounds, Calm, RestOK, Lose, Missed
<1>11. ASSUME NEW m \in Msg, LiveGivesUp(m) PROVE Calm
    BY <1>11 DEF LiveGivesUp, bounds, Calm, RestOK, Lose, Missed
<1>12. ASSUME NEW m \in Msg, Draft(m) PROVE Calm
    BY <1>12 DEF Draft, bounds, Calm, RestOK, Lose, Missed
<1>13. ASSUME NEW m \in Msg, NEW how \in {"ended", "silent"}, TurnEnds(m, how)
      PROVE  Calm
    BY <1>13 DEF TurnEnds, bounds, Calm, RestOK, Lose, Missed
<1>14. ASSUME NEW m \in Msg, NEW w \in BOOLEAN, NEW stuck \in BOOLEAN, LiveReplies(m, w, stuck)
      PROVE  Calm
    BY <1>14 DEF LiveReplies, bounds, Calm, RestOK, Lose, Missed
<1>15. ASSUME NEW m \in Msg, NEW w \in BOOLEAN, HandedOver(m, w) PROVE Calm
    BY <1>15 DEF HandedOver, bounds, Calm, RestOK, Lose, Missed
<1>16. ASSUME NEW m \in Msg, NEW w \in BOOLEAN, TellDraft(m, w) PROVE Calm
    BY <1>16 DEF TellDraft, bounds, Calm, RestOK, Lose, Missed
<1>17. ASSUME NEW m \in Msg, NEW r \in BOOLEAN, LiveDelivers(m, r) PROVE Calm
    BY <1>17 DEF LiveDelivers, bounds, Calm, RestOK, Lose, Missed
<1>18. ASSUME NEW m \in Msg, NEW yes \in BOOLEAN, Decide(m, yes) PROVE Calm
    BY <1>18 DEF Decide, bounds, Calm, RestOK, Lose, Missed
<1>19. ASSUME NEW m \in Msg, NEW yes \in BOOLEAN, Consent(m, yes) PROVE Calm
    BY <1>19 DEF Consent, bounds, Calm, RestOK, Lose, Missed
<1>20. CASE Crash
    BY <1>20 DEF Crash, bounds, Calm, RestOK, Lose, Missed
<1>21. ASSUME NEW c \in BOOLEAN, Restart(c) PROVE Calm
    BY <1>21 DEF Restart, bounds, Calm, RestOK, Lose, Missed
<1>22. CASE UNCHANGED vars
    BY <1>22 DEF vars, bounds, Calm
<1>. QED
    BY <1>1, <1>2, <1>3, <1>4, <1>5, <1>6, <1>7, <1>8, <1>9, <1>10, <1>11,
       <1>12, <1>13, <1>14, <1>15, <1>16, <1>17, <1>18, <1>19, <1>20, <1>21,
       <1>22 DEF Next, Sender, MsgStep

\* Every step keeps the line.
LEMMA LineNext ==
  ASSUME StoreOK, SenderOK, RestOK, Down, LineOK, Calm', [Next]_vars
  PROVE  LineOK'
<1>1. ASSUME NEW reach \in BOOLEAN, Call(reach) PROVE LineOK'
    BY <1>1 DEF Call, sender, outbox, world, LineOK, Fits, Pending, Before,
       Queued
<1>2. CASE Sent
  <2>1. chain # <<>> /\ Current.msg \in Msg /\ 1 \in DOMAIN chain
      BY <1>2, HeadJob DEF Sent, SenderOK
  <2>2. SettleReceipt(Current.msg, "sent")
      BY <1>2 DEF Sent
  <2>3. Known(Current.msg)
      BY <2>1 DEF LineOK, Fits, Pending, Known, Current
  <2>4. chain' = Tail(chain) /\ UNCHANGED <<retries, up, door>>
      BY <1>2 DEF Sent, Returned, world
  <2>5. PICK m \in Msg : m = Current.msg
      BY <2>1
  <2>6. /\ ~Pending(m)'
        /\ \A v \in Msg : Pending(v)' => Pending(v) /\ v # m
        /\ \A v \in Msg : Pending(v) /\ v # m => Pending(v)' /\ fails'[v] = fails[v]
      BY <2>2, <2>3, <2>5, SettleOthers
  <2>7. \A x, y \in Msg : x # m /\ y # m /\ Pending(x) /\ Pending(y) /\ Before(x, y) => Before(x, y)'
      BY <2>2, <2>5, SettleBefore
  <2>8. fails' \in [Msg -> Nat]
      BY <2>2 DEF SettleReceipt, StoreOK
  <2>. QED
      BY <2>1, <2>4, <2>5, <2>6, <2>7, <2>8, LineLeaves
<1>3. ASSUME NEW w \in BOOLEAN, Dropped(w) PROVE LineOK'
  <2>1. chain # <<>> /\ Current.msg \in Msg /\ 1 \in DOMAIN chain
      BY <1>3, HeadJob DEF Dropped, SenderOK
  <2>2. SettleReceipt(Current.msg, "dropped")
      BY <1>3 DEF Dropped, Lose, Missed, Calm, RestOK
  <2>3. Known(Current.msg)
      BY <2>1 DEF LineOK, Fits, Pending, Known, Current
  <2>4. chain' = Tail(chain) /\ UNCHANGED <<retries, up, door>>
      BY <1>3 DEF Dropped, Returned, world
  <2>5. PICK m \in Msg : m = Current.msg
      BY <2>1
  <2>6. /\ ~Pending(m)'
        /\ \A v \in Msg : Pending(v)' => Pending(v) /\ v # m
        /\ \A v \in Msg : Pending(v) /\ v # m => Pending(v)' /\ fails'[v] = fails[v]
      BY <2>2, <2>3, <2>5, SettleOthers
  <2>7. \A x, y \in Msg : x # m /\ y # m /\ Pending(x) /\ Pending(y) /\ Before(x, y) => Before(x, y)'
      BY <2>2, <2>5, SettleBefore
  <2>8. fails' \in [Msg -> Nat]
      BY <2>2 DEF SettleReceipt, StoreOK
  <2>. QED
      BY <2>1, <2>4, <2>5, <2>6, <2>7, <2>8, LineLeaves
<1>4. ASSUME NEW why \in {"missed", "late", "unwritten"}, NEW r \in BOOLEAN, Failed(why, r)
      PROVE  LineOK'
  <2>1. chain # <<>> /\ Current.msg \in Msg /\ 1 \in DOMAIN chain /\ Current.tried \in Nat
      BY <1>4, HeadJob DEF Failed, SenderOK
  <2>2. r /\ why # "unwritten"
      BY <1>4 DEF Failed, Lose, Missed, Calm, RestOK
  <2>3. Current.tried = fails[Current.msg] /\ ~Current.once /\ Known(Current.msg)
      BY <2>1 DEF LineOK, Fits, Pending, Known, Current
  <2>4. UNCHANGED <<up, door, log, receipt, retries>> /\ fails' = [fails EXCEPT ![Current.msg] = @ + 1]
      BY <1>4, <2>2, <2>3 DEF Failed, Returned, world
  <2>5. CASE ~LastTry(Current)
    <3>1. chain' = AgainFirst
        BY <1>4, <2>2, <2>5 DEF Failed
    <3>. QED
        BY <2>1, <2>4, <2>5, <3>1, LineTried
  <2>6. CASE LastTry(Current)
    <3>1. chain' = Tail(chain)
        BY <1>4, <2>2, <2>6 DEF Failed, Returned
    <3>2. PICK m \in Msg : m = Current.msg
        BY <2>1
    <3>3. fails' = [fails EXCEPT ![m] = fails[m] + 1]
        BY <2>4, <3>2
    <3>4. fails'[m] >= MaxAttempts
        BY <2>1, <2>3, <2>6, <3>2, <3>3 DEF LastTry, StoreOK
    <3>5. \A v \in Msg : v # m => fails'[v] = fails[v]
        BY <3>3 DEF StoreOK
    <3>6. fails' \in [Msg -> Nat]
        BY <3>3 DEF StoreOK
    <3>7. \A v \in Msg : Pending(v)' <=> Pending(v)
        BY <2>4 DEF Pending
    <3>8. \A x, y \in Msg : Before(x, y) => Before(x, y)'
        BY <2>4 DEF Before
    <3>. QED
        BY <2>1, <2>4, <3>1, <3>2, <3>4, <3>5, <3>6, <3>7, <3>8, LineLeaves
  <2>. QED
      BY <2>5, <2>6
<1>5. CASE Retry
    BY <1>5 DEF Retry, Calm, RestOK
<1>6. CASE RetryNext
    BY <1>6 DEF RetryNext, LineOK
<1>7. ASSUME NEW m \in Msg, NEW ok \in BOOLEAN, Notice(m, ok) PROVE LineOK'
  <2>1. up' = up /\ door' = door
      BY <1>7 DEF Notice, world
  <2>2. CASE UNCHANGED sender /\ UNCHANGED outbox
      BY <2>1, <2>2 DEF sender, outbox, LineOK, Fits, Pending, Before, Queued
  <2>3. CASE ~(UNCHANGED sender /\ UNCHANGED outbox)
    <3>1. Enqueue(m, "push") /\ ~Known(m) /\ door /\ up
        BY <1>7, <2>3 DEF Notice
    <3>. QED
        BY <2>1, <3>1, LineJoins DEF Origin
  <2>. QED
      BY <2>2, <2>3
<1>8. ASSUME NEW m \in Msg, NEW ok \in BOOLEAN, Sweep(m, ok) PROVE LineOK'
  <2>1. up' = up /\ door' = door
      BY <1>8 DEF Sweep, world
  <2>2. CASE UNCHANGED sender /\ UNCHANGED outbox
      BY <2>1, <2>2 DEF sender, outbox, LineOK, Fits, Pending, Before, Queued
  <2>3. CASE ~(UNCHANGED sender /\ UNCHANGED outbox)
    <3>1. Enqueue(m, "sweep") /\ ~Known(m) /\ door /\ up
        BY <1>8, <2>3 DEF Sweep
    <3>. QED
        BY <2>1, <3>1, LineJoins DEF Origin
  <2>. QED
      BY <2>2, <2>3
<1>9. ASSUME NEW m \in Msg, NEW ok \in BOOLEAN, SettleDraft(m, ok) PROVE LineOK'
  <2>1. up' = up /\ door' = door
      BY <1>9 DEF SettleDraft, world
  <2>2. CASE UNCHANGED sender /\ UNCHANGED outbox
      BY <2>1, <2>2 DEF sender, outbox, LineOK, Fits, Pending, Before, Queued
  <2>3. CASE ~(UNCHANGED sender /\ UNCHANGED outbox)
    <3>1. Enqueue(m, "draft") /\ ~Known(m) /\ door /\ up
        BY <1>9, <2>3 DEF SettleDraft, Down
    <3>. QED
        BY <2>1, <3>1, LineJoins DEF Origin
  <2>. QED
      BY <2>2, <2>3
<1>10. ASSUME NEW m \in Msg, Request(m) PROVE LineOK'
    BY <1>10 DEF Request, sender, outbox, world, LineOK, Fits, Pending,
       Before, Queued
<1>11. ASSUME NEW m \in Msg, LiveGivesUp(m) PROVE LineOK'
    BY <1>11 DEF LiveGivesUp, sender, outbox, world, LineOK, Fits, Pending,
       Before, Queued
<1>12. ASSUME NEW m \in Msg, Draft(m) PROVE LineOK'
    BY <1>12 DEF Draft, sender, outbox, world, LineOK, Fits, Pending, Before,
       Queued
<1>13. ASSUME NEW m \in Msg, NEW how \in {"ended", "silent"}, TurnEnds(m, how)
      PROVE  LineOK'
    BY <1>13 DEF TurnEnds, sender, outbox, world, LineOK, Fits, Pending,
       Before, Queued
<1>14. ASSUME NEW m \in Msg, NEW w \in BOOLEAN, NEW stuck \in BOOLEAN, LiveReplies(m, w, stuck)
      PROVE  LineOK'
    BY <1>14 DEF LiveReplies, sender, outbox, world, LineOK, Fits, Pending,
       Before, Queued
<1>15. ASSUME NEW m \in Msg, NEW w \in BOOLEAN, HandedOver(m, w) PROVE LineOK'
    BY <1>15 DEF HandedOver, sender, outbox, world, LineOK, Fits, Pending,
       Before, Queued
<1>16. ASSUME NEW m \in Msg, NEW w \in BOOLEAN, TellDraft(m, w) PROVE LineOK'
    BY <1>16 DEF TellDraft, sender, outbox, world, LineOK, Fits, Pending,
       Before, Queued
<1>17. ASSUME NEW m \in Msg, NEW r \in BOOLEAN, LiveDelivers(m, r) PROVE LineOK'
    BY <1>17 DEF LiveDelivers, sender, outbox, world, LineOK, Fits, Pending,
       Before, Queued
<1>18. ASSUME NEW m \in Msg, NEW yes \in BOOLEAN, Decide(m, yes) PROVE LineOK'
    BY <1>18 DEF Decide, sender, outbox, world, LineOK, Fits, Pending, Before,
       Queued
<1>19. ASSUME NEW m \in Msg, NEW yes \in BOOLEAN, Consent(m, yes) PROVE LineOK'
    BY <1>19 DEF Consent, sender, outbox, world, LineOK, Fits, Pending,
       Before, Queued
<1>20. CASE Crash
  <2>1. chain' = <<>> /\ retries' = <<>> /\ up' = FALSE
      BY <1>20 DEF Crash
  <2>2. DOMAIN chain' = {}
      BY <2>1, EmptySeq, LenProperties
  <2>. QED
      BY <2>1, <2>2 DEF LineOK, Queued
<1>21. ASSUME NEW c \in BOOLEAN, Restart(c) PROVE LineOK'
    BY <1>21, LineRestart
<1>22. CASE UNCHANGED vars
    BY <1>22 DEF vars, sender, outbox, world, LineOK, Fits, Pending, Before,
       Queued
<1>. QED
    BY <1>1, <1>2, <1>3, <1>4, <1>5, <1>6, <1>7, <1>8, <1>9, <1>10, <1>11,
       <1>12, <1>13, <1>14, <1>15, <1>16, <1>17, <1>18, <1>19, <1>20, <1>21,
       <1>22 DEF Next, Sender, MsgStep

\* Only the head of the chain is sent.
LEMMA ReachedHead ==
  ASSUME SenderOK, calling = "no", calling' = "reached", [Next]_vars
  PROVE  chain # <<>>
<1>1. ASSUME NEW reach \in BOOLEAN, Call(reach) PROVE chain # <<>>
    BY <1>1 DEF Call, sender, Enqueue, Returned
<1>2. CASE Sent
    BY <1>2 DEF Sent, sender, Enqueue, Returned
<1>3. ASSUME NEW w \in BOOLEAN, Dropped(w) PROVE chain # <<>>
    BY <1>3 DEF Dropped, sender, Enqueue, Returned
<1>4. ASSUME NEW why \in {"missed", "late", "unwritten"}, NEW r \in BOOLEAN, Failed(why, r)
      PROVE  chain # <<>>
    BY <1>4 DEF Failed, sender, Enqueue, Returned
<1>5. CASE Retry
    BY <1>5 DEF Retry, sender, Enqueue, Returned
<1>6. CASE RetryNext
    BY <1>6 DEF RetryNext, sender, Enqueue, Returned
<1>7. ASSUME NEW m \in Msg, NEW ok \in BOOLEAN, Notice(m, ok) PROVE chain # <<>>
    BY <1>7 DEF Notice, sender, Enqueue, Returned
<1>8. ASSUME NEW m \in Msg, NEW ok \in BOOLEAN, Sweep(m, ok) PROVE chain # <<>>
    BY <1>8 DEF Sweep, sender, Enqueue, Returned
<1>9. ASSUME NEW m \in Msg, NEW ok \in BOOLEAN, SettleDraft(m, ok) PROVE chain # <<>>
    BY <1>9 DEF SettleDraft, sender, Enqueue, Returned
<1>10. ASSUME NEW m \in Msg, Request(m) PROVE chain # <<>>
    BY <1>10 DEF Request, sender, Enqueue, Returned
<1>11. ASSUME NEW m \in Msg, LiveGivesUp(m) PROVE chain # <<>>
    BY <1>11 DEF LiveGivesUp, sender, Enqueue, Returned
<1>12. ASSUME NEW m \in Msg, Draft(m) PROVE chain # <<>>
    BY <1>12 DEF Draft, sender, Enqueue, Returned
<1>13. ASSUME NEW m \in Msg, NEW how \in {"ended", "silent"}, TurnEnds(m, how)
      PROVE  chain # <<>>
    BY <1>13 DEF TurnEnds, sender, Enqueue, Returned
<1>14. ASSUME NEW m \in Msg, NEW w \in BOOLEAN, NEW stuck \in BOOLEAN, LiveReplies(m, w, stuck)
      PROVE  chain # <<>>
    BY <1>14 DEF LiveReplies, sender, Enqueue, Returned
<1>15. ASSUME NEW m \in Msg, NEW w \in BOOLEAN, HandedOver(m, w) PROVE chain # <<>>
    BY <1>15 DEF HandedOver, sender, Enqueue, Returned
<1>16. ASSUME NEW m \in Msg, NEW w \in BOOLEAN, TellDraft(m, w) PROVE chain # <<>>
    BY <1>16 DEF TellDraft, sender, Enqueue, Returned
<1>17. ASSUME NEW m \in Msg, NEW r \in BOOLEAN, LiveDelivers(m, r) PROVE chain # <<>>
    BY <1>17 DEF LiveDelivers, sender, Enqueue, Returned
<1>18. ASSUME NEW m \in Msg, NEW yes \in BOOLEAN, Decide(m, yes) PROVE chain # <<>>
    BY <1>18 DEF Decide, sender, Enqueue, Returned
<1>19. ASSUME NEW m \in Msg, NEW yes \in BOOLEAN, Consent(m, yes) PROVE chain # <<>>
    BY <1>19 DEF Consent, sender, Enqueue, Returned
<1>20. CASE Crash
    BY <1>20 DEF Crash, sender, Enqueue, Returned
<1>21. ASSUME NEW c \in BOOLEAN, Restart(c) PROVE chain # <<>>
    BY <1>21 DEF Restart, sender, Enqueue, Returned
<1>22. CASE UNCHANGED vars
    BY <1>22 DEF vars, sender
<1>. QED
    BY <1>1, <1>2, <1>3, <1>4, <1>5, <1>6, <1>7, <1>8, <1>9, <1>10, <1>11,
       <1>12, <1>13, <1>14, <1>15, <1>16, <1>17, <1>18, <1>19, <1>20, <1>21,
       <1>22 DEF Next, Sender, MsgStep

\* outbox-sender.ts "a message waits for the one before it": until a person presses Retry
\* no message reaches the chat while one opened before it is still to go, unless that one
\* is a person's problem, across failures, restarts and compactions, with every append made.
THEOREM MessagesGoInOrder == Spec => InOrder
<1>1. Init => OrderInv
  <2>. SUFFICES ASSUME Init PROVE LineOK
      BY DEF OrderInv
  <2>1. chain = <<>> /\ DOMAIN chain = {} /\ retries = <<>> /\ \A m \in Msg : ~Pending(m)
      BY EmptySeq, LenProperties DEF Init, Pending
  <2>. QED
      BY <2>1 DEF LineOK
<1>2. ASSUME OutboundInv, OrderInv, [Next]_vars PROVE OrderInv'
  <2>1. SUFFICES ASSUME Calm' PROVE LineOK'
      BY DEF OrderInv
  <2>2. StoreOK /\ SenderOK /\ RestOK /\ Down
      BY <1>2 DEF OutboundInv
  <2>3. LineOK
      BY <1>2, <2>1, <2>2, CalmBefore DEF OrderInv
  <2>. QED
      BY <1>2, <2>1, <2>2, <2>3, LineNext
<1>3. ASSUME OutboundInv, OrderInv, [Next]_vars, calling = "no", calling' = "reached", lost = 0, retried = 0,
             NEW j \in DOMAIN log, NEW i \in 1..(j - 1), log[j] = Current.msg, Pending(log[i])
      PROVE  fails[log[i]] >= MaxAttempts
  <2>1. StoreOK /\ SenderOK /\ RestOK /\ LineOK
      BY <1>3 DEF OutboundInv, OrderInv, Calm
  <2>2. chain # <<>>
      BY <1>3, <2>1, ReachedHead
  <2>3. up /\ door /\ 1 \in DOMAIN chain
      BY <2>1, <2>2, HeadJob DEF LineOK
  <2>4. /\ i \in DOMAIN log /\ i < j /\ log[i] \in Msg
        /\ fails[log[i]] \in Nat /\ MaxAttempts \in Nat
    <3>1. DOMAIN log = 1..Len(log) /\ Len(log) \in Nat /\ log \in [1..Len(log) -> Msg]
        BY <2>1, LenProperties DEF StoreOK
    <3>2. i \in DOMAIN log /\ i < j
        BY <1>3, <3>1
    <3>. QED
        BY <2>1, <3>1, <3>2, OutboundConstants DEF StoreOK, OutboundConstants
  <2>5. Before(log[i], Current.msg)
      BY <1>3, <2>4 DEF Before
  <2>6. SUFFICES ASSUME fails[log[i]] < MaxAttempts PROVE FALSE
      BY <2>4
  <2>7. PICK k \in DOMAIN chain : chain[k].msg = log[i]
      BY <1>3, <2>1, <2>3, <2>4, <2>6 DEF LineOK, Queued
  <2>8. k # 1
      BY <2>1, <2>5, <2>7, BeforeStrict DEF Current
  <2>9. 1 < k
    <3>1. DOMAIN chain = 1..Len(chain) /\ Len(chain) \in Nat
        BY <2>1, LenProperties DEF SenderOK
    <3>. QED
        BY <2>8, <3>1
  <2>10. Before(Current.msg, log[i])
      BY <2>1, <2>3, <2>7, <2>9 DEF LineOK, Current
  <2>. QED
      BY <2>1, <2>5, <2>10, BeforeStrict
<1>4. OutboundInv /\ OrderInv /\ [Next]_vars =>
          [calling = "no" /\ calling' = "reached" /\ lost = 0 /\ retried = 0 =>
               \A j \in DOMAIN log : \A i \in 1..(j - 1) :
                   log[j] = Current.msg /\ Pending(log[i]) => fails[log[i]] >= MaxAttempts]_vars
    BY <1>3
<1>. QED
    BY <1>1, <1>2, <1>4, OutboundInvariant, PTL DEF Spec, InOrder
=============================================================================
