-------------------------- MODULE Migration_proofs --------------------------
(***************************************************************************)
(* Proofs about Migration, for any batches, tokens, amounts and interest.  *)
(***************************************************************************)
EXTENDS Migration, TLAPS

\* What an approval allows is an allowance, and covers the interest.
LEMMA GrantBounds ==
    ASSUME NEW k \in BatchType, NEW t \in Tokens
    PROVE  /\ Grant(k, t) \in 0..Unlimited
           /\ k.wants[t] \in Nat
           /\ t \in Supplies => Grant(k, t) = Unlimited
           /\ t \in Wanted(k) => k.wants[t] + Interest <= Grant(k, t)
<1>1. k.wants[t] \in Amounts \cup {0} /\ k.wants[t] \in Nat
  <2>1. k.wants \in [Tokens -> Amounts \cup {0}]
    BY DEF BatchType
  <2>2. Amounts \cup {0} \subseteq Nat
    BY AmountsAssumption
  <2> QED
    BY <2>1, <2>2
<1>2. Buffered(0) = 0
  BY DEF Buffered
<1>3. ASSUME NEW a \in Amounts
      PROVE  Buffered(a) \in 0..Ceiling /\ a + Interest <= Buffered(a) /\ a + Interest <= Unlimited
  <2>1. a + Interest <= Buffered(a) /\ Buffered(a) <= Ceiling /\ a \in Nat /\ Interest \in Nat
        /\ Ceiling \in Nat
    BY AmountsAssumption
  <2>2. Buffered(a) \in Int
    BY <2>1 DEF Buffered
  <2> HIDE DEF Buffered
  <2> QED
    BY <2>1, <2>2 DEF Unlimited
<1>4. Ceiling \in Nat
  BY AmountsAssumption
<1> QED
  BY <1>1, <1>2, <1>3, <1>4 DEF Grant, Unlimited, Wanted

\* Of a batch that is marked, the history alone changes: what it counted on
\* and is too small now is lost, what it has read and is more now is raised.
LEMMA MarkedFacts ==
    ASSUME TypeOK, NEW B, NEW now, NEW b \in Batches
    PROVE  LET k == batch[b]
               m == Marked(B, now)[b]
           IN  /\ m \in BatchType
               /\ m.wants = k.wants /\ m.signed = k.signed /\ m.kind = k.kind
               /\ m.unread = k.unread /\ m.short = k.short /\ m.owed = k.owed
               /\ m.quote = k.quote /\ m.tight = k.tight
               /\ k.lost \subseteq m.lost /\ k.raised \subseteq m.raised
               /\ \A t \in m.lost : t \in k.lost \/ now[t] < allowance[t]
               /\ b \in B => \A t \in Tokens :
                    /\ CountsOn(b, t) /\ now[t] < allowance[t]
                       /\ now[t] < k.wants[t] + Interest => t \in m.lost
                    /\ HasRead(b, t) /\ now[t] > allowance[t] => t \in m.raised
<1> DEFINE k == batch[b]
           newLost == {t \in Tokens : /\ CountsOn(b, t) /\ now[t] < allowance[t]
                                      /\ now[t] < k.wants[t] + Interest}
           newRaised == {t \in Tokens : HasRead(b, t) /\ now[t] > allowance[t]}
           m == [k EXCEPT !.lost = @ \cup newLost, !.raised = @ \cup newRaised]
<1>1. Marked(B, now)[b] = IF b \notin B THEN k ELSE m
  BY DEF Marked
<1>2. k \in BatchType
  BY DEF TypeOK
<1>3. newLost \subseteq Tokens /\ newRaised \subseteq Tokens
  OBVIOUS
<1>4. \A t \in newLost : now[t] < allowance[t]
  OBVIOUS
<1>5. /\ m \in BatchType
      /\ m.wants = k.wants /\ m.signed = k.signed /\ m.kind = k.kind
      /\ m.unread = k.unread /\ m.short = k.short /\ m.owed = k.owed
      /\ m.quote = k.quote /\ m.tight = k.tight
      /\ m.lost = k.lost \cup newLost /\ m.raised = k.raised \cup newRaised
  <2> HIDE DEF newLost, newRaised, k
  <2> QED
    BY <1>2, <1>3 DEF BatchType
<1>6. \A t \in Tokens :
         /\ CountsOn(b, t) /\ now[t] < allowance[t] /\ now[t] < k.wants[t] + Interest
            => t \in newLost
         /\ HasRead(b, t) /\ now[t] > allowance[t] => t \in newRaised
  OBVIOUS
<1> HIDE DEF m, newLost, newRaised, k
<1>7. CASE b \in B
  <2>1. Marked(B, now)[b] = m
    BY <1>1, <1>7
  <2> QED
    BY <1>4, <1>5, <1>6, <2>1 DEF k
<1>8. CASE b \notin B
  <2>1. Marked(B, now)[b] = k
    BY <1>1, <1>8
  <2> QED
    BY <1>2, <1>8, <2>1 DEF k
<1> QED
  BY <1>7, <1>8

\* Going on keeps the type and changes the reads to come alone.
LEMMA ResumeFacts ==
    ASSUME NEW k \in BatchType
    PROVE  LET m == Resume(k) IN
           /\ m \in BatchType
           /\ m.wants = k.wants /\ m.signed = k.signed /\ m.short = k.short
           /\ m.owed = k.owed /\ m.quote = k.quote /\ m.tight = k.tight
           /\ m.lost = k.lost /\ m.raised = k.raised
           /\ IF k.unread = {} /\ k.kind = "supplies"
              THEN m.kind = "debts" /\ m.unread = (Wanted(k) \cap Debts) \ Signed(k)
              ELSE m = k
<1> DEFINE debts == (Wanted(k) \cap Debts) \ Signed(k)
           m == [k EXCEPT !.kind = "debts", !.unread = debts]
<1>1. debts \subseteq Tokens
  BY DEF Tokens
<1>2. /\ m \in BatchType
      /\ m.wants = k.wants /\ m.signed = k.signed /\ m.short = k.short
      /\ m.owed = k.owed /\ m.quote = k.quote /\ m.tight = k.tight
      /\ m.lost = k.lost /\ m.raised = k.raised
      /\ m.kind = "debts" /\ m.unread = debts
  <2> HIDE DEF debts
  <2> QED
    BY <1>1 DEF BatchType
<1>3. Resume(k) = IF k.unread = {} /\ k.kind = "supplies" THEN m ELSE k
  BY DEF Resume
<1> HIDE DEF m
<1> QED
  BY <1>2, <1>3

\* A new batch, with the reads of its supplies ahead.
LEMMA NewBatchType ==
    ASSUME NEW wants \in [Tokens -> Amounts \cup {0}],
           NEW signed \in SUBSET {"supplies", "debts"}
    PROVE  LET k == NewBatch(wants, signed)
               m == [k EXCEPT !.unread = (Wanted(k) \cap Supplies) \ Signed(k)]
           IN  /\ k \in BatchType /\ m \in BatchType
               /\ m.wants = wants /\ m.signed = signed /\ m.kind = "supplies"
               /\ m.unread = (Wanted(k) \cap Supplies) \ Signed(k)
               /\ m.short = {} /\ m.owed = {} /\ m.quote = "none"
               /\ m.tight = {} /\ m.lost = {} /\ m.raised = {}
<1> DEFINE k == NewBatch(wants, signed)
           u == (Wanted(k) \cap Supplies) \ Signed(k)
<1>1. k \in BatchType
  BY DEF NewBatch, BatchType
<1>2. u \subseteq Tokens
  BY DEF Tokens
<1>3. /\ [k EXCEPT !.unread = u] \in BatchType
      /\ [k EXCEPT !.unread = u].unread = u
  <2> HIDE DEF u, k
  <2> QED
    BY <1>1, <1>2 DEF BatchType
<1> QED
  BY <1>1, <1>3 DEF NewBatch

\* The batch of a call that is not under way.
LEMMA NoBatchFacts ==
    /\ NoBatch \in BatchType
    /\ NoBatch.unread = {} /\ NoBatch.short = {} /\ NoBatch.owed = {}
    /\ NoBatch.lost = {} /\ NoBatch.tight = {} /\ NoBatch.quote = "none"
    /\ NoBatch.kind = "supplies"
<1>1. [t \in Tokens |-> 0] \in [Tokens -> Amounts \cup {0}]
  OBVIOUS
<1> QED
  BY <1>1 DEF NoBatch, NewBatch, BatchType

\* The record of a batch after the read of t is answered.
Answered(k, t) ==
    LET short == IF allowance[t] < k.wants[t] THEN {t} ELSE {}
    IN  [k EXCEPT
            !.unread = @ \ {t},
            !.short = @ \cup short,
            !.owed = @ \cup short,
            !.tight = IF allowance[t] \in k.wants[t] .. k.wants[t] + Interest - 1
                      THEN @ \cup {t} ELSE @]

\* It has the fields one expects.
LEMMA AnsweredFacts ==
    ASSUME NEW k \in BatchType, NEW t \in Tokens
    PROVE  LET m == Answered(k, t)
               short == IF allowance[t] < k.wants[t] THEN {t} ELSE {}
           IN  /\ m \in BatchType
               /\ m.wants = k.wants /\ m.signed = k.signed /\ m.kind = k.kind
               /\ m.quote = k.quote /\ m.lost = k.lost /\ m.raised = k.raised
               /\ m.unread = k.unread \ {t}
               /\ m.short = k.short \cup short /\ m.owed = k.owed \cup short
               /\ m.tight = IF allowance[t] \in k.wants[t] .. k.wants[t] + Interest - 1
                            THEN k.tight \cup {t} ELSE k.tight
<1> DEFINE short == IF allowance[t] < k.wants[t] THEN {t} ELSE {}
           tight == IF allowance[t] \in k.wants[t] .. k.wants[t] + Interest - 1
                    THEN k.tight \cup {t} ELSE k.tight
           m == [k EXCEPT !.unread = @ \ {t}, !.short = @ \cup short,
                          !.owed = @ \cup short, !.tight = tight]
<1>1. Answered(k, t) = m
  BY DEF Answered
<1>2. short \subseteq Tokens /\ tight \subseteq Tokens
  BY DEF BatchType
<1>3. /\ m \in BatchType
      /\ m.wants = k.wants /\ m.signed = k.signed /\ m.kind = k.kind
      /\ m.quote = k.quote /\ m.lost = k.lost /\ m.raised = k.raised
      /\ m.unread = k.unread \ {t}
      /\ m.short = k.short \cup short /\ m.owed = k.owed \cup short
      /\ m.tight = tight
  <2> HIDE DEF short, tight
  <2> QED
    BY <1>2 DEF BatchType
<1> QED
  BY <1>1, <1>3

\* Paying an approval off changes that alone.
LEMMA PaidFacts ==
    ASSUME NEW k \in BatchType, NEW t
    PROVE  LET m == [k EXCEPT !.owed = @ \ {t}] IN
           /\ m \in BatchType /\ m.owed = k.owed \ {t}
           /\ m.wants = k.wants /\ m.signed = k.signed /\ m.kind = k.kind
           /\ m.unread = k.unread /\ m.short = k.short /\ m.quote = k.quote
           /\ m.tight = k.tight /\ m.lost = k.lost /\ m.raised = k.raised
BY DEF BatchType

\* So does a quote.
LEMMA QuotedFacts ==
    ASSUME NEW k \in BatchType, NEW q \in {"none", "recommended", "estimated", "rejected"}
    PROVE  LET m == [k EXCEPT !.quote = q] IN
           /\ m \in BatchType /\ m.quote = q /\ m.owed = k.owed
           /\ m.wants = k.wants /\ m.signed = k.signed /\ m.kind = k.kind
           /\ m.unread = k.unread /\ m.short = k.short
           /\ m.tight = k.tight /\ m.lost = k.lost /\ m.raised = k.raised
BY DEF BatchType

-----------------------------------------------------------------------------
\* The initial state is typed.
LEMMA TypeInit == Init => TypeOK
BY NoBatchFacts, WalletAssumption, AmountsAssumption DEF Init, TypeOK, PCs, Unlimited

\* What is left of an allowance the action can pay from is an allowance.
LEMMA SpentType ==
    ASSUME TypeOK, NEW k \in BatchType, NEW accrued \in Accruals, Payable(k, accrued)
    PROVE  [t \in Tokens |-> IF WithPermits(k)[t] = Unlimited THEN Unlimited
                             ELSE WithPermits(k)[t] - Need(k, accrued, t)]
             \in [Tokens -> 0..Unlimited]
<1> SUFFICES ASSUME NEW t \in Tokens
             PROVE  (IF WithPermits(k)[t] = Unlimited THEN Unlimited
                     ELSE WithPermits(k)[t] - Need(k, accrued, t)) \in 0..Unlimited
  OBVIOUS
<1>1. Unlimited \in Nat
  BY AmountsAssumption DEF Unlimited
<1>2. WithPermits(k)[t] \in 0..Unlimited
  BY GrantBounds DEF WithPermits, TypeOK
<1>3. Need(k, accrued, t) \in Nat
  BY GrantBounds, AmountsAssumption DEF Need, Accruals
<1>4. WithPermits(k)[t] >= Need(k, accrued, t)
  BY DEF Payable
<1> QED
  BY <1>1, <1>2, <1>3, <1>4

\* Every step keeps the types.
LEMMA TypeStep == TypeOK /\ [Next]_vars => TypeOK'
<1> SUFFICES ASSUME TypeOK, [Next]_vars PROVE TypeOK'
  OBVIOUS
<1>0. ASSUME NEW b \in Batches, NEW k \in BatchType, Continue(b, k) PROVE TypeOK'
  <2>1. Resume(k) \in BatchType
    BY ResumeFacts
  <2> QED
    BY <1>0, <2>1 DEF Continue, TypeOK, PCs
<1>1. ASSUME NEW b \in Batches, NEW wants \in [Tokens -> Amounts \cup {0}],
             NEW signed \in SUBSET {"supplies", "debts"}, Begin(b, wants, signed)
      PROVE  TypeOK'
  BY <1>0, <1>1, NewBatchType DEF Begin
<1>2. ASSUME NEW b \in Batches, NEW t \in Tokens, ReadAllowance(b, t) PROVE TypeOK'
  <2>1. Continue(b, Answered(batch[b], t))
    BY <1>2 DEF ReadAllowance, Answered
  <2>2. batch[b] \in BatchType
    BY DEF TypeOK
  <2> QED
    BY <1>0, <2>1, <2>2, AnsweredFacts
<1>3. ASSUME NEW b \in Batches, RpcFails(b) \/ Forget(b) PROVE TypeOK'
  BY <1>3, NoBatchFacts DEF RpcFails, Forget, TypeOK, PCs
<1>4. ASSUME NEW b \in Batches, Quote(b) PROVE TypeOK'
  <2>1. PICK q \in {"none", "recommended", "estimated", "rejected"} :
            batch' = [batch EXCEPT ![b].quote = q]
    BY <1>4 DEF Quote
  <2>2. batch[b] \in BatchType
    BY DEF TypeOK
  <2>3. [batch[b] EXCEPT !.quote = q] \in BatchType
    BY <2>2, QuotedFacts
  <2> QED
    BY <1>4, <2>1, <2>3 DEF Quote, TypeOK
<1>5. ASSUME NEW b \in Batches, NEW t \in Tokens, MineApproval(b, t) PROVE TypeOK'
  <2> DEFINE now == [allowance EXCEPT ![t] = Grant(batch[b], t)]
             marked == Marked(Batches \ {b}, now)
  <2>1. batch[b] \in BatchType
    BY DEF TypeOK
  <2>2. allowance' \in [Tokens -> 0..Unlimited]
    BY <1>5, <2>1, GrantBounds DEF MineApproval, TypeOK
  <2>3. marked \in [Batches -> BatchType]
    <3>1. \A c \in Batches : marked[c] \in BatchType
      BY MarkedFacts
    <3>2. marked = [c \in Batches |-> marked[c]]
      BY DEF Marked
    <3> HIDE DEF marked
    <3> QED
      BY <3>1, <3>2
  <2>4. [marked[b] EXCEPT !.owed = @ \ {t}] \in BatchType
    BY <2>3, PaidFacts
  <2>5. batch' = [marked EXCEPT ![b].owed = @ \ {t}]
    BY <1>5 DEF MineApproval
  <2> HIDE DEF marked
  <2> QED
    BY <1>5, <2>2, <2>3, <2>4, <2>5 DEF MineApproval, TypeOK
<1>6. ASSUME NEW b \in Batches, Send(b) PROVE TypeOK'
  BY <1>6 DEF Send, TypeOK, PCs
<1>7. ASSUME NEW b \in Batches, MineAction(b) PROVE TypeOK'
  <2> DEFINE k == batch[b]
  <2>1. k \in BatchType
    BY DEF TypeOK
  <2>2. CASE UNCHANGED <<batch, allowance>>
    BY <1>7, <2>2 DEF MineAction, TypeOK, PCs
  <2>3. ASSUME NEW accrued \in Accruals, Payable(k, accrued),
               allowance' = [t \in Tokens |->
                    IF WithPermits(k)[t] = Unlimited THEN Unlimited
                    ELSE WithPermits(k)[t] - Need(k, accrued, t)],
               batch' = [Marked(Batches \ {b}, allowance') EXCEPT ![b] = NoBatch]
        PROVE  TypeOK'
    <3>1. allowance' \in [Tokens -> 0..Unlimited]
      BY <2>1, <2>3, SpentType
    <3>2. batch' \in [Batches -> BatchType]
      <4>1. \A c \in Batches : Marked(Batches \ {b}, allowance')[c] \in BatchType
        BY MarkedFacts
      <4> QED
        BY <2>3, <4>1, NoBatchFacts DEF Marked
    <3> QED
      BY <1>7, <3>1, <3>2 DEF MineAction, TypeOK, PCs
  <2> QED
    BY <1>7, <2>2, <2>3 DEF MineAction
<1>8. ASSUME NEW t \in Tokens, NEW v \in WalletAmounts, Wallet(t, v) PROVE TypeOK'
  <2>1. batch' \in [Batches -> BatchType]
    <3>1. \A c \in Batches : Marked(Batches, allowance')[c] \in BatchType
      BY MarkedFacts
    <3> QED
      BY <1>8, <3>1 DEF Wallet, Marked
  <2>2. moves' \in 0..MaxMoves
    BY <1>8, WalletAssumption DEF Wallet, TypeOK
  <2>3. allowance' \in [Tokens -> 0..Unlimited]
    BY <1>8, WalletAssumption DEF Wallet, TypeOK
  <2> QED
    BY <1>8, <2>1, <2>2, <2>3 DEF Wallet, TypeOK
<1>9. CASE UNCHANGED vars
  BY <1>9 DEF vars, TypeOK
<1> QED
  BY <1>1, <1>2, <1>3, <1>4, <1>5, <1>6, <1>7, <1>8, <1>9 DEF Next

\* The variables keep their types.
THEOREM MigrationTyped == Spec => []TypeOK
BY TypeInit, TypeStep, PTL DEF Spec

-----------------------------------------------------------------------------
\* The conjuncts of MigrationInv for one batch, of which k is the record and p
\* where it is, when the allowances are a.
ReadOf(p, k, t) ==
    /\ p \in {"reading", "built", "sent"}
    /\ t \in Wanted(k) \ (Signed(k) \cup k.unread)
    /\ t \in Debts => k.kind = "debts"

SaneReads(p, k) ==
    /\ k.unread \subseteq Wanted(k) \ Signed(k)
    /\ k.kind = "supplies" => k.unread \subseteq Supplies
    /\ p \in {"built", "sent"} => k.kind = "debts" /\ k.unread = {}
    /\ k.owed \subseteq k.short
    /\ p \in {"reading", "built", "sent"} => \A t \in k.short : ReadOf(p, k, t)
    /\ p = "sent" => k.owed = {}

SaneCounts(p, k, a) ==
    \A t \in Tokens :
        ReadOf(p, k, t) /\ t \notin k.owed /\ t \notin k.lost \cup k.tight =>
            a[t] >= k.wants[t] + Interest

SaneOwed(p, k, a) ==
    \A t \in k.owed : p \in {"reading", "built"} /\ t \notin k.raised => a[t] < k.wants[t]

Sane(p, k, a) == SaneReads(p, k) /\ SaneCounts(p, k, a) /\ SaneOwed(p, k, a)

\* That is what MigrationInv says.
LEMMA InvIsSane == MigrationInv <=> \A b \in Batches : Sane(pc[b], batch[b], allowance)
BY DEF MigrationInv, ReadsAhead, CountsOnEnough, OwesMore, CountsOn, HasRead, ReadOf, Sane,
       SaneReads, SaneCounts, SaneOwed

\* It says the same of the state after a step.
LEMMA InvIsSanePrimed ==
    MigrationInv' <=> \A b \in Batches : Sane(pc'[b], batch'[b], allowance')
BY DEF MigrationInv, ReadsAhead, CountsOnEnough, OwesMore, CountsOn, HasRead, ReadOf, Sane,
       SaneReads, SaneCounts, SaneOwed

\* A batch that is marked is sane with the allowances there are now.
LEMMA MarkedSane ==
    ASSUME TypeOK, NEW B, NEW now \in [Tokens -> 0..Unlimited], NEW b \in B, b \in Batches,
           Sane(pc[b], batch[b], allowance)
    PROVE  Sane(pc[b], Marked(B, now)[b], now)
<1> DEFINE k == batch[b]
           m == Marked(B, now)[b]
<1>1. /\ m.wants = k.wants /\ m.signed = k.signed /\ m.kind = k.kind
      /\ m.unread = k.unread /\ m.short = k.short /\ m.owed = k.owed
      /\ m.tight = k.tight /\ k.lost \subseteq m.lost /\ k.raised \subseteq m.raised
      /\ \A t \in Tokens :
            /\ CountsOn(b, t) /\ now[t] < allowance[t] /\ now[t] < k.wants[t] + Interest
                => t \in m.lost
            /\ HasRead(b, t) /\ now[t] > allowance[t] => t \in m.raised
  BY MarkedFacts
<1> HIDE DEF m
<1>2. Wanted(m) = Wanted(k) /\ Signed(m) = Signed(k)
  BY <1>1 DEF Wanted, Signed
<1>3. \A t : ReadOf(pc[b], m, t) <=> ReadOf(pc[b], k, t)
  BY <1>1, <1>2 DEF ReadOf
<1>4. SaneReads(pc[b], m)
  BY <1>1, <1>2, <1>3 DEF Sane, SaneReads
<1>5. k \in BatchType /\ Interest \in Nat
  BY AmountsAssumption DEF TypeOK
<1>6. \A t \in Tokens : now[t] \in Int /\ allowance[t] \in Int /\ k.wants[t] \in Int
  BY <1>5, GrantBounds, AmountsAssumption DEF TypeOK, Unlimited
<1>7. SaneCounts(pc[b], m, now)
  <2> SUFFICES ASSUME NEW t \in Tokens, ReadOf(pc[b], m, t), t \notin m.owed,
                      t \notin m.lost \cup m.tight
               PROVE  now[t] >= m.wants[t] + Interest
    BY DEF SaneCounts
  <2>1. CountsOn(b, t)
    BY <1>1, <1>3 DEF CountsOn, HasRead, ReadOf
  <2>2. allowance[t] >= k.wants[t] + Interest
    BY <1>1, <1>3 DEF Sane, SaneCounts
  <2> QED
    BY <1>1, <1>5, <1>6, <2>1, <2>2
<1>8. SaneOwed(pc[b], m, now)
  <2> SUFFICES ASSUME NEW t \in m.owed, pc[b] \in {"reading", "built"}, t \notin m.raised
               PROVE  now[t] < m.wants[t]
    BY DEF SaneOwed
  <2>1. t \in Tokens /\ HasRead(b, t)
    BY <1>1, <1>5 DEF Sane, SaneReads, ReadOf, HasRead, Wanted
  <2>2. allowance[t] < k.wants[t]
    BY <1>1 DEF Sane, SaneOwed
  <2> QED
    BY <1>1, <1>6, <2>1, <2>2
<1> QED
  BY <1>4, <1>7, <1>8 DEF Sane, m

\* Going on leaves what has been read as it is.
LEMMA ResumeSane ==
    ASSUME NEW k \in BatchType, NEW a, Sane("reading", k, a)
    PROVE  Sane(IF Returned(Resume(k)) THEN "built" ELSE "reading", Resume(k), a)
<1> DEFINE m == Resume(k)
           p == IF Returned(m) THEN "built" ELSE "reading"
<1>1. /\ m.wants = k.wants /\ m.signed = k.signed /\ m.short = k.short
      /\ m.owed = k.owed /\ m.tight = k.tight /\ m.lost = k.lost /\ m.raised = k.raised
      /\ IF k.unread = {} /\ k.kind = "supplies"
         THEN m.kind = "debts" /\ m.unread = (Wanted(k) \cap Debts) \ Signed(k)
         ELSE m = k
  BY ResumeFacts
<1> HIDE DEF m
<1>2. p \in {"reading", "built"} /\ (p = "built" => m.unread = {} /\ m.kind = "debts")
  BY DEF Returned
<1> HIDE DEF p
<1>3. Wanted(m) = Wanted(k) /\ Signed(m) = Signed(k)
  BY <1>1 DEF Wanted, Signed
<1>4. \A t : ReadOf(p, m, t) <=> ReadOf("reading", k, t)
  BY <1>1, <1>2, <1>3 DEF ReadOf
<1>5. SaneReads(p, m)
  BY <1>1, <1>2, <1>3, <1>4 DEF Sane, SaneReads
<1>6. SaneCounts(p, m, a)
  BY <1>1, <1>4 DEF Sane, SaneCounts
<1>7. SaneOwed(p, m, a)
  BY <1>1, <1>2 DEF Sane, SaneOwed
<1> QED
  BY <1>5, <1>6, <1>7 DEF Sane, p, m

\* An answer puts its token where it belongs.
LEMMA AnsweredSane ==
    ASSUME TypeOK, NEW k \in BatchType, NEW t \in k.unread, Sane("reading", k, allowance)
    PROVE  Sane("reading", Answered(k, t), allowance)
<1> DEFINE m == Answered(k, t)
           short == IF allowance[t] < k.wants[t] THEN {t} ELSE {}
<1>1. t \in Tokens
  BY DEF BatchType
<1>2. /\ m.wants = k.wants /\ m.signed = k.signed /\ m.kind = k.kind
      /\ m.lost = k.lost /\ m.raised = k.raised /\ m.unread = k.unread \ {t}
      /\ m.short = k.short \cup short /\ m.owed = k.owed \cup short
      /\ m.tight = IF allowance[t] \in k.wants[t] .. k.wants[t] + Interest - 1
                   THEN k.tight \cup {t} ELSE k.tight
  BY <1>1, AnsweredFacts
<1> HIDE DEF m
<1>3. Wanted(m) = Wanted(k) /\ Signed(m) = Signed(k)
  BY <1>2 DEF Wanted, Signed
<1>4. \A u : ReadOf("reading", m, u) <=> ReadOf("reading", k, u) \/ u = t
  <2>1. t \in Wanted(k) \ Signed(k) /\ (k.kind = "supplies" => t \in Supplies)
    BY DEF Sane, SaneReads
  <2>2. t \in Debts => k.kind = "debts"
    BY <2>1, TokensAssumption DEF BatchType
  <2> QED
    BY <1>2, <1>3, <2>1, <2>2 DEF ReadOf
<1>5. SaneReads("reading", m)
  BY <1>2, <1>3, <1>4 DEF Sane, SaneReads
<1>6. /\ Interest \in Int /\ \A u \in Tokens : allowance[u] \in Int /\ k.wants[u] \in Int
  BY GrantBounds, AmountsAssumption DEF TypeOK, Unlimited
<1>7. SaneCounts("reading", m, allowance)
  <2> SUFFICES ASSUME NEW u \in Tokens, ReadOf("reading", m, u), u \notin m.owed,
                      u \notin m.lost \cup m.tight
               PROVE  allowance[u] >= m.wants[u] + Interest
    BY DEF SaneCounts
  <2>1. CASE u = t
    BY <1>2, <1>6, <2>1
  <2>2. CASE u # t
    BY <1>2, <1>4, <2>2 DEF Sane, SaneCounts
  <2> QED
    BY <2>1, <2>2
<1>8. SaneOwed("reading", m, allowance)
  BY <1>2 DEF Sane, SaneOwed
<1> QED
  BY <1>5, <1>7, <1>8 DEF Sane, m

-----------------------------------------------------------------------------
\* A batch that has settled, or has not begun, is sane.
LEMMA NoBatchSane == ASSUME NEW p \in {"idle", "done", "refused"}, NEW a
                     PROVE  Sane(p, NoBatch, a)
BY NoBatchFacts DEF Sane, SaneReads, SaneCounts, SaneOwed, ReadOf

\* The initial state satisfies the invariant.
LEMMA SaneInit == Init => MigrationInv
BY InvIsSane, NoBatchSane DEF Init

\* Every step keeps it.
LEMMA SaneStep == TypeOK /\ MigrationInv /\ [Next]_vars => MigrationInv'
<1> SUFFICES ASSUME TypeOK, MigrationInv, [Next]_vars PROVE MigrationInv'
  OBVIOUS
<1>a. /\ pc \in [Batches -> PCs] /\ batch \in [Batches -> BatchType]
      /\ allowance \in [Tokens -> 0..Unlimited]
  BY DEF TypeOK
<1>b. \A b \in Batches : Sane(pc[b], batch[b], allowance)
  BY InvIsSane
<1>0. ASSUME NEW b \in Batches, NEW k \in BatchType, Sane("reading", k, allowance),
             Continue(b, k)
      PROVE  MigrationInv'
  <2>1. Sane(IF Returned(Resume(k)) THEN "built" ELSE "reading", Resume(k), allowance)
    BY <1>0, ResumeSane
  <2> QED
    BY <1>0, <1>a, <1>b, <2>1, InvIsSanePrimed DEF Continue
<1>1. ASSUME NEW b \in Batches, NEW wants \in [Tokens -> Amounts \cup {0}],
             NEW signed \in SUBSET {"supplies", "debts"}, Begin(b, wants, signed)
      PROVE  MigrationInv'
  <2> DEFINE k == NewBatch(wants, signed)
             m == [k EXCEPT !.unread = (Wanted(k) \cap Supplies) \ Signed(k)]
  <2>1. /\ m \in BatchType /\ m.wants = k.wants /\ m.signed = k.signed /\ m.kind = "supplies"
        /\ m.unread = (Wanted(k) \cap Supplies) \ Signed(k)
        /\ m.short = {} /\ m.owed = {}
    BY NewBatchType DEF NewBatch
  <2>2. Continue(b, m)
    BY <1>1 DEF Begin
  <2> HIDE DEF m, k
  <2>3. Wanted(m) = Wanted(k) /\ Signed(m) = Signed(k)
    BY <2>1 DEF Wanted, Signed
  <2>4. \A t \in Tokens : ~ReadOf("reading", m, t)
    BY <2>1, <2>3 DEF ReadOf, Tokens
  <2>5. Sane("reading", m, allowance)
    BY <2>1, <2>3, <2>4 DEF Sane, SaneReads, SaneCounts, SaneOwed
  <2> QED
    BY <1>0, <2>1, <2>2, <2>5
<1>2. ASSUME NEW b \in Batches, NEW t \in Tokens, ReadAllowance(b, t) PROVE MigrationInv'
  <2>1. Continue(b, Answered(batch[b], t)) /\ pc[b] = "reading" /\ t \in batch[b].unread
    BY <1>2 DEF ReadAllowance, Answered
  <2>2. Sane("reading", Answered(batch[b], t), allowance)
    BY <1>a, <1>b, <2>1, AnsweredSane
  <2> QED
    BY <1>0, <1>a, <2>1, <2>2, AnsweredFacts
<1>3. ASSUME NEW b \in Batches, RpcFails(b) \/ Forget(b) PROVE MigrationInv'
  BY <1>3, <1>a, <1>b, NoBatchSane, InvIsSanePrimed DEF RpcFails, Forget
<1>4. ASSUME NEW b \in Batches, Quote(b) PROVE MigrationInv'
  <2>1. PICK q \in {"none", "recommended", "estimated", "rejected"} :
            batch' = [batch EXCEPT ![b].quote = q]
    BY <1>4 DEF Quote
  <2> DEFINE k == batch[b]
             m == [k EXCEPT !.quote = q]
  <2>2. /\ m.owed = k.owed /\ m.wants = k.wants /\ m.signed = k.signed /\ m.kind = k.kind
        /\ m.unread = k.unread /\ m.short = k.short
        /\ m.tight = k.tight /\ m.lost = k.lost /\ m.raised = k.raised
    BY <1>a, QuotedFacts
  <2>3. batch'[b] = m /\ \A c \in Batches \ {b} : batch'[c] = batch[c]
    BY <1>a, <2>1
  <2>4. Sane(pc[b], m, allowance)
    <3> HIDE DEF m
    <3>1. Wanted(m) = Wanted(k) /\ Signed(m) = Signed(k)
      BY <2>2 DEF Wanted, Signed
    <3>2. \A t : ReadOf(pc[b], m, t) <=> ReadOf(pc[b], k, t)
      BY <2>2, <3>1 DEF ReadOf
    <3> QED
      BY <1>b, <2>2, <3>1, <3>2 DEF Sane, SaneReads, SaneCounts, SaneOwed
  <2> HIDE DEF m
  <2>5. pc' = pc /\ allowance' = allowance
    BY <1>4 DEF Quote
  <2> QED
    BY <1>b, <2>3, <2>4, <2>5, InvIsSanePrimed
<1>5. ASSUME NEW b \in Batches, NEW t \in Tokens, MineApproval(b, t) PROVE MigrationInv'
  <2> DEFINE k == batch[b]
             m == [k EXCEPT !.owed = @ \ {t}]
             now == [allowance EXCEPT ![t] = Grant(k, t)]
             marked == Marked(Batches \ {b}, now)
  <2>1. now \in [Tokens -> 0..Unlimited]
    BY <1>a, GrantBounds
  <2>2. pc[b] = "built" /\ t \in k.owed /\ allowance' = now /\ pc' = pc
        /\ batch' = [marked EXCEPT ![b].owed = @ \ {t}]
    BY <1>5 DEF MineApproval
  <2>3. marked = [c \in Batches |-> marked[c]] /\ marked[b] = k
    BY DEF Marked
  <2>4. \A c \in Batches \ {b} : Sane(pc[c], marked[c], now)
    <3> HIDE DEF now
    <3> QED
      BY <1>b, <2>1, MarkedSane
  <2>5. Sane(pc[b], m, now)
    <3>1. /\ m.owed = k.owed \ {t} /\ m.wants = k.wants /\ m.signed = k.signed
          /\ m.kind = k.kind /\ m.unread = k.unread /\ m.short = k.short
          /\ m.tight = k.tight /\ m.lost = k.lost /\ m.raised = k.raised
      BY <1>a, PaidFacts
    <3> HIDE DEF m
    <3>2. Wanted(m) = Wanted(k) /\ Signed(m) = Signed(k)
      BY <3>1 DEF Wanted, Signed
    <3>3. \A u : ReadOf(pc[b], m, u) <=> ReadOf(pc[b], k, u)
      BY <3>1, <3>2 DEF ReadOf
    <3>4. SaneReads(pc[b], m)
      BY <1>b, <2>2, <3>1, <3>2, <3>3 DEF Sane, SaneReads
    <3>5. now[t] >= k.wants[t] + Interest
      <4>1. t \in Wanted(k)
        BY <1>b, <2>2 DEF Sane, SaneReads, ReadOf
      <4>2. k.wants[t] \in Nat /\ Interest \in Nat /\ Grant(k, t) \in Int
            /\ k.wants[t] + Interest <= Grant(k, t)
        BY <1>a, <4>1, GrantBounds, AmountsAssumption DEF Unlimited
      <4>3. now[t] = Grant(k, t)
        BY <1>a
      <4> HIDE DEF now
      <4> QED
        BY <4>2, <4>3
    <3>6. \A u \in Tokens \ {t} : now[u] = allowance[u]
      BY <1>a
    <3>7. k.owed \subseteq Tokens
      BY <1>a DEF BatchType
    <3> HIDE DEF now
    <3>8. SaneCounts(pc[b], m, now)
      BY <1>b, <3>1, <3>3, <3>5, <3>6 DEF Sane, SaneCounts
    <3>9. SaneOwed(pc[b], m, now)
      BY <1>b, <3>1, <3>6, <3>7 DEF Sane, SaneOwed
    <3> QED
      BY <3>4, <3>8, <3>9 DEF Sane
  <2>6. batch'[b] = m /\ \A c \in Batches \ {b} : batch'[c] = marked[c]
    <3> HIDE DEF marked
    <3> QED
      BY <2>2, <2>3
  <2> HIDE DEF m, marked, now
  <2> QED
    BY <2>2, <2>4, <2>5, <2>6, InvIsSanePrimed
<1>6. ASSUME NEW b \in Batches, Send(b) PROVE MigrationInv'
  <2>1. pc[b] = "built" /\ batch[b].owed = {} /\ batch' = batch /\ allowance' = allowance
        /\ pc'[b] \in {"sent", "reverted"} /\ \A c \in Batches \ {b} : pc'[c] = pc[c]
    BY <1>6, <1>a DEF Send
  <2>2. Sane(pc'[b], batch[b], allowance)
    BY <1>b, <2>1 DEF Sane, SaneReads, SaneCounts, SaneOwed, ReadOf
  <2> QED
    BY <1>b, <2>1, <2>2, InvIsSanePrimed
<1>7. ASSUME NEW b \in Batches, MineAction(b) PROVE MigrationInv'
  <2>1. CASE /\ pc[b] = "sent" /\ pc' = [pc EXCEPT ![b] = "reverted"]
             /\ batch' = batch /\ allowance' = allowance
    <3>1. Sane("reverted", batch[b], allowance)
      BY <1>b, <2>1 DEF Sane, SaneReads, SaneCounts, SaneOwed, ReadOf
    <3> QED
      BY <1>a, <1>b, <2>1, <3>1, InvIsSanePrimed
  <2>2. ASSUME NEW accrued \in Accruals, Payable(batch[b], accrued),
               pc' = [pc EXCEPT ![b] = "done"],
               allowance' = [t \in Tokens |->
                    IF WithPermits(batch[b])[t] = Unlimited THEN Unlimited
                    ELSE WithPermits(batch[b])[t] - Need(batch[b], accrued, t)],
               batch' = [Marked(Batches \ {b}, allowance') EXCEPT ![b] = NoBatch]
        PROVE  MigrationInv'
    <3> DEFINE marked == Marked(Batches \ {b}, allowance')
    <3>1. allowance' \in [Tokens -> 0..Unlimited]
      BY <1>a, <2>2, SpentType
    <3>2. \A c \in Batches \ {b} : Sane(pc[c], marked[c], allowance')
      BY <1>b, <3>1, MarkedSane
    <3>3. marked = [c \in Batches |-> marked[c]]
      BY DEF Marked
    <3>4. batch'[b] = NoBatch /\ \A c \in Batches \ {b} : batch'[c] = marked[c]
      <4> HIDE DEF marked
      <4>1. batch' = [marked EXCEPT ![b] = NoBatch]
        BY <2>2 DEF marked
      <4> QED
        BY <3>3, <4>1
    <3> HIDE DEF marked
    <3> QED
      BY <1>a, <2>2, <3>2, <3>4, NoBatchSane, InvIsSanePrimed
  <2> QED
    BY <1>7, <2>1, <2>2 DEF MineAction
<1>8. ASSUME NEW t \in Tokens, NEW v \in WalletAmounts, Wallet(t, v) PROVE MigrationInv'
  <2>1. allowance' \in [Tokens -> 0..Unlimited]
    BY <1>8, <1>a, WalletAssumption DEF Wallet
  <2>2. batch' = Marked(Batches, allowance') /\ pc' = pc
    BY <1>8 DEF Wallet
  <2>3. \A c \in Batches : Sane(pc[c], Marked(Batches, allowance')[c], allowance')
    BY <1>b, <2>1, MarkedSane
  <2> QED
    BY <2>2, <2>3, InvIsSanePrimed
<1>9. CASE UNCHANGED vars
  BY <1>9, <1>b, InvIsSanePrimed DEF vars
<1> QED
  BY <1>1, <1>2, <1>3, <1>4, <1>5, <1>6, <1>7, <1>8, <1>9 DEF Next

\* What a migration counts on is enough or accounted for.
THEOREM MigrationSafe == Spec => []MigrationInv
BY TypeInit, TypeStep, SaneInit, SaneStep, PTL DEF Spec

-----------------------------------------------------------------------------
\* A batch that can do without its approvals can be paid, whatever accrues,
\* unless an allowance was lost or was just enough.
LEMMA PayableUnlessMarked ==
    ASSUME TypeOK, MigrationInv, NEW b \in Batches, pc[b] \in {"built", "sent"},
           batch[b].owed = {}, batch[b].lost \cup batch[b].tight = {},
           NEW accrued \in Accruals
    PROVE  Payable(batch[b], accrued)
<1> DEFINE k == batch[b]
<1> SUFFICES ASSUME NEW t \in Tokens PROVE WithPermits(k)[t] >= Need(k, accrued, t)
  BY DEF Payable
<1>1. k \in BatchType /\ allowance \in [Tokens -> 0..Unlimited] /\ Unlimited \in Nat
  BY AmountsAssumption DEF TypeOK, Unlimited
<1>2. Interest \in Nat /\ accrued[t] \in 0..Interest /\ allowance[t] \in Nat
      /\ k.wants[t] \in Nat /\ Grant(k, t) \in Nat
  BY <1>1, GrantBounds, AmountsAssumption DEF Accruals
<1>3. CASE t \notin Wanted(k)
  BY <1>2, <1>3 DEF WithPermits, Need
<1>4. CASE t \in Wanted(k) \cap Signed(k)
  <2>1. k.wants[t] + Interest <= Grant(k, t)
    BY <1>1, <1>4, GrantBounds
  <2>2. WithPermits(k)[t] = Grant(k, t) /\ Need(k, accrued, t) = k.wants[t] + accrued[t]
    BY <1>4 DEF WithPermits, Need
  <2> QED
    BY <1>2, <2>1, <2>2
<1>5. CASE t \in Wanted(k) \ Signed(k)
  <2>1. CountsOn(b, t)
    BY <1>5 DEF MigrationInv, ReadsAhead, CountsOn, HasRead
  <2>2. allowance[t] >= k.wants[t] + Interest
    BY <2>1 DEF MigrationInv, CountsOnEnough
  <2>3. WithPermits(k)[t] = allowance[t] /\ Need(k, accrued, t) = k.wants[t] + accrued[t]
    BY <1>5 DEF WithPermits, Need
  <2> QED
    BY <1>2, <2>2, <2>3
<1> QED
  BY <1>3, <1>4, <1>5

\* What a step does to a batch that is reverted before or after it.
LEMMA RevertedStep ==
    ASSUME TypeOK, MigrationInv, RevertExplained, Next
    PROVE  RevertExplained'
<1> SUFFICES ASSUME NEW c \in Batches, pc'[c] = "reverted"
             PROVE  batch'[c].lost \cup batch'[c].tight # {}
  BY DEF RevertExplained
<1>a. pc \in [Batches -> PCs] /\ batch \in [Batches -> BatchType]
  BY DEF TypeOK
<1>b. pc[c] = "reverted" => batch[c].lost \cup batch[c].tight # {}
  BY DEF RevertExplained
<1>c. \A B, now : /\ batch[c].lost \subseteq Marked(B, now)[c].lost
                  /\ batch[c].tight = Marked(B, now)[c].tight
  BY MarkedFacts
<1>0. ASSUME NEW b \in Batches, NEW k, Continue(b, k), pc[b] # "reverted"
      PROVE  batch'[c].lost \cup batch'[c].tight # {}
  <2>1. c # b
    BY <1>0, <1>a DEF Continue
  <2> QED
    BY <1>0, <1>a, <1>b, <2>1 DEF Continue
<1>1. ASSUME NEW b \in Batches, NEW wants \in [Tokens -> Amounts \cup {0}],
             NEW signed \in SUBSET {"supplies", "debts"}, Begin(b, wants, signed)
      PROVE  batch'[c].lost \cup batch'[c].tight # {}
  BY <1>0, <1>1 DEF Begin
<1>2. ASSUME NEW b \in Batches, NEW t \in Tokens, ReadAllowance(b, t)
      PROVE  batch'[c].lost \cup batch'[c].tight # {}
  BY <1>0, <1>2 DEF ReadAllowance
<1>3. ASSUME NEW b \in Batches, RpcFails(b) \/ Forget(b)
      PROVE  batch'[c].lost \cup batch'[c].tight # {}
  BY <1>3, <1>a, <1>b DEF RpcFails, Forget
<1>4. ASSUME NEW b \in Batches, Quote(b)
      PROVE  batch'[c].lost \cup batch'[c].tight # {}
  <2>1. pc[b] = "built" /\ pc' = pc /\ \E q : batch' = [batch EXCEPT ![b].quote = q]
    BY <1>4 DEF Quote
  <2> QED
    BY <1>a, <1>b, <2>1
<1>5. ASSUME NEW b \in Batches, NEW t \in Tokens, MineApproval(b, t)
      PROVE  batch'[c].lost \cup batch'[c].tight # {}
  <2> DEFINE marked == Marked(Batches \ {b}, [allowance EXCEPT ![t] = Grant(batch[b], t)])
  <2>1. pc[b] = "built" /\ pc' = pc /\ batch' = [marked EXCEPT ![b].owed = @ \ {t}]
    BY <1>5 DEF MineApproval
  <2>2. marked = [d \in Batches |-> marked[d]]
    BY DEF Marked
  <2>3. batch'[c] = marked[c]
    <3> HIDE DEF marked
    <3> QED
      BY <2>1, <2>2
  <2> QED
    BY <1>b, <1>c, <2>1, <2>3
<1>6. ASSUME NEW b \in Batches, Send(b)
      PROVE  batch'[c].lost \cup batch'[c].tight # {}
  <2>1. CASE c = b
    <3>1. PICK accrued \in Accruals :
              pc' = [pc EXCEPT ![b] = IF Payable(batch[b], accrued) THEN "sent" ELSE "reverted"]
      BY <1>6 DEF Send
    <3>2. ~Payable(batch[b], accrued)
      BY <1>a, <2>1, <3>1
    <3> QED
      BY <1>6, <2>1, <3>2, PayableUnlessMarked DEF Send
  <2>2. CASE c # b
    BY <1>6, <1>a, <1>b, <2>2 DEF Send
  <2> QED
    BY <2>1, <2>2
<1>7. ASSUME NEW b \in Batches, MineAction(b)
      PROVE  batch'[c].lost \cup batch'[c].tight # {}
  <2>1. pc[b] = "sent" /\ batch[b].owed = {}
    BY <1>7 DEF MineAction, MigrationInv, ReadsAhead
  <2>2. CASE c = b
    <3>1. \A accrued \in Accruals : pc' = [pc EXCEPT ![b] = "done"] => FALSE
      BY <1>a, <2>2
    <3>2. batch' = batch /\ \E accrued \in Accruals : ~Payable(batch[b], accrued)
      BY <1>7, <1>a, <2>2 DEF MineAction
    <3> QED
      BY <2>1, <2>2, <3>2, PayableUnlessMarked
  <2>3. CASE c # b
    <3>1. pc'[c] = pc[c]
      BY <1>7, <1>a, <2>3 DEF MineAction
    <3>2. CASE batch' = batch
      BY <1>b, <3>1, <3>2
    <3>3. CASE batch' = [Marked(Batches \ {b}, allowance') EXCEPT ![b] = NoBatch]
      <4> DEFINE marked == Marked(Batches \ {b}, allowance')
      <4>1. marked = [d \in Batches |-> marked[d]]
        BY DEF Marked
      <4>2. batch'[c] = marked[c]
        <5>1. batch' = [marked EXCEPT ![b] = NoBatch]
          BY <3>3
        <5> HIDE DEF marked
        <5> QED
          BY <2>3, <4>1, <5>1
      <4> QED
        BY <1>b, <1>c, <3>1, <4>2
    <3> QED
      BY <1>7, <3>2, <3>3 DEF MineAction
  <2> QED
    BY <2>2, <2>3
<1>8. ASSUME NEW t \in Tokens, NEW v \in WalletAmounts, Wallet(t, v)
      PROVE  batch'[c].lost \cup batch'[c].tight # {}
  <2>1. batch' = Marked(Batches, allowance') /\ pc' = pc
    BY <1>8 DEF Wallet
  <2> QED
    BY <1>b, <1>c, <2>1
<1> QED
  BY <1>1, <1>2, <1>3, <1>4, <1>5, <1>6, <1>7, <1>8 DEF Next

\* A migration reverts for want of an allowance only if somebody else lowered
\* one that it counts on, or interest made one that was just enough too small.
THEOREM MigrationRevertExplained == Spec => []RevertExplained
<1>1. Init => RevertExplained
  BY DEF Init, RevertExplained
<1>2. TypeOK /\ MigrationInv /\ RevertExplained /\ [Next]_vars => RevertExplained'
  <2>1. CASE Next
    BY <2>1, RevertedStep
  <2>2. CASE UNCHANGED vars
    BY <2>2 DEF vars, RevertExplained
  <2> QED
    BY <2>1, <2>2
<1> QED
  BY <1>1, <1>2, MigrationTyped, MigrationSafe, PTL DEF Spec

-----------------------------------------------------------------------------
\* A quote that is rejected has its reason in the record of the batch.
QuoteHasReason(k) ==
    k.quote = "rejected" /\ "supplies" \notin k.signed => k.lost \cup k.tight # {}

\* The history only grows, so what explained a quote goes on explaining it.
LEMMA ReasonStays ==
    ASSUME NEW k, NEW m, QuoteHasReason(k), m.quote = k.quote, m.signed = k.signed,
           k.lost \subseteq m.lost, k.tight \subseteq m.tight
    PROVE  QuoteHasReason(m)
BY DEF QuoteHasReason

\* What a step does to a batch whose quote is rejected before or after it.
LEMMA QuotedStep ==
    ASSUME TypeOK, MigrationInv, QuoteExplained, Next
    PROVE  QuoteExplained'
<1>a. batch \in [Batches -> BatchType]
  BY DEF TypeOK
<1>b. \A c \in Batches : QuoteHasReason(batch[c])
  BY DEF QuoteExplained, QuoteHasReason
<1>c. ASSUME NEW B, NEW now, NEW c \in Batches PROVE QuoteHasReason(Marked(B, now)[c])
  BY <1>b, MarkedFacts, ReasonStays
<1>d. QuoteHasReason(NoBatch)
  BY NoBatchFacts DEF QuoteHasReason
<1>e. (\A c \in Batches : QuoteHasReason(batch'[c])) => QuoteExplained'
  BY DEF QuoteExplained, QuoteHasReason
<1>0. ASSUME NEW b \in Batches, NEW k \in BatchType, QuoteHasReason(k), Continue(b, k)
      PROVE  QuoteExplained'
  <2>1. QuoteHasReason(Resume(k))
    BY <1>0, ResumeFacts, ReasonStays
  <2> QED
    BY <1>0, <1>a, <1>b, <1>e, <2>1 DEF Continue
<1>1. ASSUME NEW b \in Batches, NEW wants \in [Tokens -> Amounts \cup {0}],
             NEW signed \in SUBSET {"supplies", "debts"}, Begin(b, wants, signed)
      PROVE  QuoteExplained'
  <2> DEFINE k == NewBatch(wants, signed)
             m == [k EXCEPT !.unread = (Wanted(k) \cap Supplies) \ Signed(k)]
  <2>1. m \in BatchType /\ m.quote = "none"
    BY NewBatchType
  <2>2. Continue(b, m)
    BY <1>1 DEF Begin
  <2> HIDE DEF m
  <2> QED
    BY <1>0, <2>1, <2>2 DEF QuoteHasReason
<1>2. ASSUME NEW b \in Batches, NEW t \in Tokens, ReadAllowance(b, t) PROVE QuoteExplained'
  <2> DEFINE m == Answered(batch[b], t)
  <2>1. Continue(b, m)
    BY <1>2 DEF ReadAllowance, Answered
  <2>2. /\ m \in BatchType
        /\ m.quote = batch[b].quote /\ m.signed = batch[b].signed
        /\ m.lost = batch[b].lost
        /\ m.tight = batch[b].tight \cup {t} \/ m.tight = batch[b].tight
    <3>1. batch[b] \in BatchType
      BY <1>a
    <3> QED
      BY <3>1, AnsweredFacts
  <2> HIDE DEF m
  <2>3. QuoteHasReason(m)
    BY <1>b, <2>2, ReasonStays
  <2> QED
    BY <1>0, <2>1, <2>2, <2>3
<1>3. ASSUME NEW b \in Batches, RpcFails(b) \/ Forget(b) PROVE QuoteExplained'
  BY <1>3, <1>a, <1>b, <1>d, <1>e DEF RpcFails, Forget
<1>4. ASSUME NEW b \in Batches, Quote(b) PROVE QuoteExplained'
  <2>1. PICK q \in {"none", "recommended", "estimated", "rejected"} :
            /\ batch' = [batch EXCEPT ![b].quote = q]
            /\ q = "rejected" =>
                  /\ ~("supplies" \notin batch[b].signed /\ batch[b].short # {})
                  /\ \E accrued \in Accruals : ~Payable(batch[b], accrued)
    BY <1>4 DEF Quote
  <2> DEFINE m == [batch[b] EXCEPT !.quote = q]
  <2>2. /\ m.quote = q /\ m.signed = batch[b].signed
        /\ m.lost = batch[b].lost /\ m.tight = batch[b].tight
    BY <1>a, QuotedFacts
  <2>3. ASSUME q = "rejected", "supplies" \notin batch[b].signed
        PROVE  batch[b].lost \cup batch[b].tight # {}
    <3>1. batch[b].owed = {}
      BY <2>1, <2>3 DEF MigrationInv, ReadsAhead
    <3>2. pc[b] = "built"
      BY <1>4 DEF Quote
    <3> QED
      BY <2>1, <2>3, <3>1, <3>2, PayableUnlessMarked
  <2>4. \A c \in Batches : batch'[c] = IF c = b THEN m ELSE batch[c]
    BY <1>a, <2>1
  <2> HIDE DEF m
  <2>5. QuoteHasReason(m)
    BY <2>2, <2>3 DEF QuoteHasReason
  <2> QED
    BY <1>b, <1>e, <2>4, <2>5
<1>5. ASSUME NEW b \in Batches, NEW t \in Tokens, MineApproval(b, t) PROVE QuoteExplained'
  <2> DEFINE marked == Marked(Batches \ {b}, [allowance EXCEPT ![t] = Grant(batch[b], t)])
             m == [marked[b] EXCEPT !.owed = @ \ {t}]
  <2>1. batch' = [marked EXCEPT ![b].owed = @ \ {t}]
    BY <1>5 DEF MineApproval
  <2>2. marked = [c \in Batches |-> marked[c]]
    BY DEF Marked
  <2>3. \A c \in Batches : QuoteHasReason(marked[c]) /\ marked[c] \in BatchType
    BY <1>c, MarkedFacts
  <2> HIDE DEF marked
  <2>4. /\ m.quote = marked[b].quote /\ m.signed = marked[b].signed
        /\ m.lost = marked[b].lost /\ m.tight = marked[b].tight
    BY <2>3, PaidFacts
  <2>5. \A c \in Batches : batch'[c] = IF c = b THEN m ELSE marked[c]
    BY <2>1, <2>2
  <2> HIDE DEF m
  <2>6. QuoteHasReason(m)
    BY <2>3, <2>4, ReasonStays
  <2> QED
    BY <1>e, <2>3, <2>5, <2>6
<1>6. ASSUME NEW b \in Batches, Send(b) PROVE QuoteExplained'
  BY <1>6, <1>b, <1>e DEF Send
<1>7. ASSUME NEW b \in Batches, MineAction(b) PROVE QuoteExplained'
  <2>1. CASE batch' = batch
    BY <1>b, <1>e, <2>1
  <2>2. CASE batch' = [Marked(Batches \ {b}, allowance') EXCEPT ![b] = NoBatch]
    <3> DEFINE marked == Marked(Batches \ {b}, allowance')
    <3>1. marked = [c \in Batches |-> marked[c]]
      BY DEF Marked
    <3>2. \A c \in Batches : QuoteHasReason(marked[c])
      BY <1>c
    <3>3. batch' = [marked EXCEPT ![b] = NoBatch]
      BY <2>2
    <3> HIDE DEF marked
    <3> QED
      BY <1>d, <1>e, <3>1, <3>2, <3>3
  <2> QED
    BY <1>7, <2>1, <2>2 DEF MineAction
<1>8. ASSUME NEW t \in Tokens, NEW v \in WalletAmounts, Wallet(t, v) PROVE QuoteExplained'
  BY <1>8, <1>c, <1>e DEF Wallet
<1> QED
  BY <1>1, <1>2, <1>3, <1>4, <1>5, <1>6, <1>7, <1>8 DEF Next

\* gas() of a migration rejects, if its supplies come without permits, only when
\* somebody lowered an allowance it counts on or interest made one too small.
THEOREM MigrationQuoteExplained == Spec => []QuoteExplained
<1>1. Init => QuoteExplained
  BY NoBatchFacts DEF Init, QuoteExplained
<1>2. TypeOK /\ MigrationInv /\ QuoteExplained /\ [Next]_vars => QuoteExplained'
  <2>1. CASE Next
    BY <2>1, QuotedStep
  <2>2. CASE UNCHANGED vars
    BY <2>2 DEF vars, QuoteExplained
  <2> QED
    BY <2>1, <2>2
<1> QED
  BY <1>1, <1>2, MigrationTyped, MigrationSafe, PTL DEF Spec

-----------------------------------------------------------------------------
\* The steps that take something off the approvals a batch owes.
LEMMA OwedLessBy ==
    ASSUME TypeOK, Next, NEW b \in Batches, pc[b] = "built", pc'[b] # "idle",
           NEW t \in batch[b].owed, t \notin batch'[b].owed
    PROVE  MineApproval(b, t)
<1>a. pc \in [Batches -> PCs] /\ batch \in [Batches -> BatchType]
  BY DEF TypeOK
<1>b. t \in Tokens
  BY <1>a DEF BatchType
<1>c. \A B, now : Marked(B, now)[b].owed = batch[b].owed
  BY MarkedFacts
<1>d. \A B, now : Marked(B, now) = [d \in Batches |-> Marked(B, now)[d]]
  BY DEF Marked
<1>1. ASSUME NEW c \in Batches, NEW wants \in [Tokens -> Amounts \cup {0}],
             NEW signed \in SUBSET {"supplies", "debts"}, Begin(c, wants, signed)
      PROVE  FALSE
  BY <1>1, <1>a DEF Begin, Continue
<1>2. ASSUME NEW c \in Batches, NEW u \in Tokens, ReadAllowance(c, u) PROVE FALSE
  BY <1>2, <1>a DEF ReadAllowance, Continue
<1>3. ASSUME NEW c \in Batches, RpcFails(c) \/ Forget(c) PROVE FALSE
  BY <1>3, <1>a DEF RpcFails, Forget
<1>4. ASSUME NEW c \in Batches, Quote(c) PROVE FALSE
  <2>1. PICK q \in {"none", "recommended", "estimated", "rejected"} :
            batch' = [batch EXCEPT ![c].quote = q]
    BY <1>4 DEF Quote
  <2>2. CASE c = b
    <3>1. batch'[b] = [batch[b] EXCEPT !.quote = q]
      BY <1>a, <2>1, <2>2
    <3>2. batch'[b].owed = batch[b].owed
      BY <1>a, <3>1, QuotedFacts
    <3> QED
      BY <3>2
  <2>3. CASE c # b
    BY <1>a, <2>1, <2>3
  <2> QED
    BY <2>2, <2>3
<1>5. ASSUME NEW c \in Batches, NEW u \in Tokens, MineApproval(c, u)
      PROVE  MineApproval(b, t)
  <2> DEFINE marked == Marked(Batches \ {c}, [allowance EXCEPT ![u] = Grant(batch[c], u)])
  <2>1. batch' = [marked EXCEPT ![c].owed = @ \ {u}]
    BY <1>5 DEF MineApproval
  <2>2. marked = [d \in Batches |-> marked[d]] /\ marked[b].owed = batch[b].owed
    BY <1>c, <1>d
  <2>3. marked[b] \in BatchType
    BY MarkedFacts
  <2> HIDE DEF marked
  <2>4. CASE c # b
    BY <2>1, <2>2, <2>4
  <2>5. CASE c = b
    <3>1. batch'[b] = [marked[b] EXCEPT !.owed = @ \ {u}]
      BY <2>1, <2>2, <2>5
    <3>2. batch'[b].owed = marked[b].owed \ {u}
      BY <2>3, <3>1, PaidFacts
    <3>3. u = t
      BY <2>2, <3>2
    <3> QED
      BY <1>5, <2>5, <3>3
  <2> QED
    BY <2>4, <2>5
<1>6. ASSUME NEW c \in Batches, Send(c) PROVE FALSE
  BY <1>6 DEF Send
<1>7. ASSUME NEW c \in Batches, MineAction(c) PROVE FALSE
  <2>1. c # b
    BY <1>7 DEF MineAction
  <2>2. CASE batch' = batch
    BY <2>2
  <2>3. CASE batch' = [Marked(Batches \ {c}, allowance') EXCEPT ![c] = NoBatch]
    <3> DEFINE marked == Marked(Batches \ {c}, allowance')
    <3>1. marked = [d \in Batches |-> marked[d]] /\ marked[b].owed = batch[b].owed
      BY <1>c, <1>d
    <3>2. batch' = [marked EXCEPT ![c] = NoBatch]
      BY <2>3
    <3> HIDE DEF marked
    <3> QED
      BY <2>1, <3>1, <3>2
  <2> QED
    BY <1>7, <2>2, <2>3 DEF MineAction
<1>8. ASSUME NEW u \in Tokens, NEW v \in WalletAmounts, Wallet(u, v) PROVE FALSE
  BY <1>8, <1>c DEF Wallet
<1> QED
  BY <1>1, <1>2, <1>3, <1>4, <1>5, <1>6, <1>7, <1>8 DEF Next

\* An approval lowers an allowance only if somebody raised it since it was read.
THEOREM MigrationApprovals == Spec => ApprovalLowersRaised
<1>1. ASSUME TypeOK, MigrationInv, Next, NEW b \in Batches, NEW t \in Tokens,
             pc[b] = "built", t \in batch[b].owed, t \notin batch'[b].owed,
             allowance'[t] < allowance[t], pc'[b] # "idle"
      PROVE  t \in batch[b].raised
  <2>1. MineApproval(b, t)
    BY <1>1, OwedLessBy
  <2>2. allowance \in [Tokens -> 0..Unlimited] /\ batch[b] \in BatchType /\ Unlimited \in Nat
    BY <1>1, AmountsAssumption DEF TypeOK, Unlimited
  <2>3. allowance'[t] = Grant(batch[b], t)
    BY <2>1, <2>2 DEF MineApproval
  <2>4. t \in Wanted(batch[b])
    BY <1>1 DEF MigrationInv, ReadsAhead, HasRead
  <2>5. /\ batch[b].wants[t] + Interest <= Grant(batch[b], t)
        /\ Interest \in Nat /\ batch[b].wants[t] \in Nat
        /\ Grant(batch[b], t) \in Nat /\ allowance[t] \in Nat
    BY <2>2, <2>4, GrantBounds, AmountsAssumption
  <2>6. t \notin batch[b].raised => allowance[t] < batch[b].wants[t]
    BY <1>1 DEF MigrationInv, OwesMore
  <2> QED
    BY <1>1, <2>3, <2>5, <2>6
<1>2. TypeOK /\ MigrationInv /\ [Next]_vars =>
        [\A b \in Batches, t \in Tokens :
            /\ pc[b] = "built" /\ t \in batch[b].owed /\ t \notin batch'[b].owed
            /\ allowance'[t] < allowance[t]
            => t \in batch[b].raised \/ pc'[b] = "idle"]_vars
  BY <1>1
<1> QED
  BY <1>2, MigrationTyped, MigrationSafe, PTL DEF Spec, ApprovalLowersRaised

-----------------------------------------------------------------------------
\* As long as the user keeps his hands off, a supply is approved without limit
\* or not at all: an allowance that only ever rises is not lost.
AllOrNothing ==
    moves = 0 =>
        /\ \A t \in Supplies : allowance[t] \in {0, Unlimited}
        /\ \A b \in Batches : batch[b].lost \cap Supplies = {}

\* What the action leaves of the allowances of the supplies is what was there,
\* or no limit.
LEMMA SpentSupplies ==
    ASSUME TypeOK, NEW k \in BatchType, NEW accrued \in Accruals, Payable(k, accrued),
           NEW t \in Supplies, allowance[t] \in {0, Unlimited}
    PROVE  LET left == IF WithPermits(k)[t] = Unlimited THEN Unlimited
                       ELSE WithPermits(k)[t] - Need(k, accrued, t)
           IN  left = allowance[t] \/ left = Unlimited
<1>1. t \in Tokens
  BY DEF Tokens
<1>2. Unlimited \in Nat /\ Interest \in Nat
  BY AmountsAssumption DEF Unlimited
<1>3. Need(k, accrued, t) \in Nat
  BY <1>1, <1>2, GrantBounds DEF Need, Accruals
<1>4. WithPermits(k)[t] \in {0, Unlimited} /\ (WithPermits(k)[t] = 0 => allowance[t] = 0)
  BY <1>1, <1>2, GrantBounds DEF WithPermits
<1>5. WithPermits(k)[t] >= Need(k, accrued, t)
  BY <1>1 DEF Payable
<1> QED
  BY <1>2, <1>3, <1>4, <1>5

\* Every step keeps it.
LEMMA AllOrNothingStep ==
    ASSUME TypeOK, TypeOK', AllOrNothing, Next, moves' = 0
    PROVE  AllOrNothing'
<1>a. /\ batch \in [Batches -> BatchType] /\ allowance \in [Tokens -> 0..Unlimited]
      /\ moves \in Nat /\ Unlimited \in Nat /\ Supplies \subseteq Tokens
  BY AmountsAssumption, WalletAssumption DEF TypeOK, Unlimited, Tokens
<1>b. ASSUME NEW t \in Tokens, NEW v \in WalletAmounts, Wallet(t, v) PROVE FALSE
  BY <1>b, <1>a DEF Wallet
<1>c. moves = 0
  <2>1. ASSUME NEW b \in Batches,
               \/ \E wants \in [Tokens -> Amounts \cup {0}],
                    signed \in SUBSET {"supplies", "debts"} : Begin(b, wants, signed)
               \/ RpcFails(b) \/ Forget(b)
        PROVE  moves = 0
    BY <2>1 DEF Begin, Continue, RpcFails, Forget
  <2>2. ASSUME NEW b \in Batches, \E t \in Tokens : ReadAllowance(b, t) \/ MineApproval(b, t)
        PROVE  moves = 0
    BY <2>2 DEF ReadAllowance, Continue, MineApproval
  <2>3. ASSUME NEW b \in Batches, Quote(b) \/ Send(b) \/ MineAction(b)
        PROVE  moves = 0
    BY <2>3 DEF Quote, Send, MineAction
  <2> QED
    BY <1>b, <2>1, <2>2, <2>3 DEF Next
<1>d. /\ \A t \in Supplies : allowance[t] \in {0, Unlimited}
      /\ \A b \in Batches : batch[b].lost \cap Supplies = {}
  BY <1>c DEF AllOrNothing
<1>e. ASSUME NEW B, NEW now, NEW b \in Batches,
             \A t \in Supplies : now[t] = allowance[t] \/ now[t] = Unlimited
      PROVE  Marked(B, now)[b].lost \cap Supplies = {}
  <2>1. \A t \in Supplies : ~(now[t] < allowance[t])
    <3> SUFFICES ASSUME NEW t \in Supplies PROVE ~(now[t] < allowance[t])
      OBVIOUS
    <3>1. allowance[t] \in 0..Unlimited
      BY <1>a
    <3> QED
      BY <1>a, <1>e, <3>1
  <2>2. \A t \in Marked(B, now)[b].lost : t \in batch[b].lost \/ now[t] < allowance[t]
    BY MarkedFacts
  <2> QED
    BY <1>d, <2>1, <2>2
<1>0. ASSUME NEW b \in Batches, NEW k \in BatchType, k.lost = batch[b].lost \/ k.lost = {},
             Continue(b, k)
      PROVE  AllOrNothing'
  <2>1. Resume(k).lost = k.lost
    BY <1>0, ResumeFacts
  <2>2. batch'[b].lost = k.lost /\ allowance' = allowance
        /\ \A c \in Batches \ {b} : batch'[c] = batch[c]
    BY <1>0, <1>a, <2>1 DEF Continue
  <2>3. \A c \in Batches : batch'[c].lost = batch[c].lost \/ batch'[c].lost = {}
    BY <1>0, <2>2
  <2> QED
    BY <1>d, <2>2, <2>3 DEF AllOrNothing
<1>1. ASSUME NEW b \in Batches, NEW wants \in [Tokens -> Amounts \cup {0}],
             NEW signed \in SUBSET {"supplies", "debts"}, Begin(b, wants, signed)
      PROVE  AllOrNothing'
  <2> DEFINE k == NewBatch(wants, signed)
             m == [k EXCEPT !.unread = (Wanted(k) \cap Supplies) \ Signed(k)]
  <2>1. m \in BatchType /\ m.lost = {}
    BY NewBatchType
  <2>2. Continue(b, m)
    BY <1>1 DEF Begin
  <2> HIDE DEF m
  <2> QED
    BY <1>0, <2>1, <2>2
<1>2. ASSUME NEW b \in Batches, NEW t \in Tokens, ReadAllowance(b, t) PROVE AllOrNothing'
  <2>1. Continue(b, Answered(batch[b], t))
    BY <1>2 DEF ReadAllowance, Answered
  <2> QED
    BY <1>0, <1>a, <2>1, AnsweredFacts
<1>3. ASSUME NEW b \in Batches, RpcFails(b) \/ Forget(b) PROVE AllOrNothing'
  <2>1. allowance' = allowance /\ batch' = [batch EXCEPT ![b] = NoBatch]
    BY <1>3 DEF RpcFails, Forget
  <2> QED
    BY <1>a, <1>d, <2>1, NoBatchFacts DEF AllOrNothing
<1>4. ASSUME NEW b \in Batches, Quote(b) PROVE AllOrNothing'
  <2>1. PICK q \in {"none", "recommended", "estimated", "rejected"} :
            batch' = [batch EXCEPT ![b].quote = q]
    BY <1>4 DEF Quote
  <2>2. [batch[b] EXCEPT !.quote = q].lost = batch[b].lost
    BY <1>a, QuotedFacts
  <2>3. \A c \in Batches : batch'[c].lost = batch[c].lost
    BY <1>a, <2>1, <2>2
  <2> QED
    BY <1>4, <1>d, <2>3 DEF Quote, AllOrNothing
<1>5. ASSUME NEW b \in Batches, NEW t \in Tokens, MineApproval(b, t) PROVE AllOrNothing'
  <2> DEFINE now == [allowance EXCEPT ![t] = Grant(batch[b], t)]
             marked == Marked(Batches \ {b}, now)
  <2>1. allowance' = now /\ batch' = [marked EXCEPT ![b].owed = @ \ {t}]
    BY <1>5 DEF MineApproval
  <2>2. \A u \in Supplies : now[u] = allowance[u] \/ now[u] = Unlimited
    BY <1>a, GrantBounds
  <2> HIDE DEF now
  <2>3. marked = [c \in Batches |-> marked[c]]
    BY DEF Marked
  <2>4. \A c \in Batches : marked[c].lost \cap Supplies = {} /\ marked[c] \in BatchType
    BY <1>e, <2>2, MarkedFacts
  <2> HIDE DEF marked
  <2>5. [marked[b] EXCEPT !.owed = @ \ {t}].lost = marked[b].lost
    BY <2>4, PaidFacts
  <2>6. \A c \in Batches : batch'[c].lost = marked[c].lost
    BY <2>1, <2>3, <2>5
  <2> QED
    BY <1>d, <2>1, <2>2, <2>4, <2>6 DEF AllOrNothing
<1>6. ASSUME NEW b \in Batches, Send(b) PROVE AllOrNothing'
  BY <1>6, <1>d DEF Send, AllOrNothing
<1>7. ASSUME NEW b \in Batches, MineAction(b) PROVE AllOrNothing'
  <2>1. CASE batch' = batch /\ allowance' = allowance
    BY <1>d, <2>1 DEF AllOrNothing
  <2>2. ASSUME NEW accrued \in Accruals, Payable(batch[b], accrued),
               allowance' = [t \in Tokens |->
                    IF WithPermits(batch[b])[t] = Unlimited THEN Unlimited
                    ELSE WithPermits(batch[b])[t] - Need(batch[b], accrued, t)],
               batch' = [Marked(Batches \ {b}, allowance') EXCEPT ![b] = NoBatch]
        PROVE  AllOrNothing'
    <3> DEFINE marked == Marked(Batches \ {b}, allowance')
    <3>1. \A t \in Supplies : allowance'[t] = allowance[t] \/ allowance'[t] = Unlimited
      BY <1>a, <1>d, <2>2, SpentSupplies
    <3>2. marked = [c \in Batches |-> marked[c]]
      BY DEF Marked
    <3>3. \A c \in Batches : marked[c].lost \cap Supplies = {}
      BY <1>e, <3>1
    <3>4. batch' = [marked EXCEPT ![b] = NoBatch]
      BY <2>2
    <3> HIDE DEF marked
    <3>5. \A c \in Batches : batch'[c].lost \cap Supplies = {}
      BY <3>2, <3>3, <3>4, NoBatchFacts
    <3> QED
      BY <1>d, <3>1, <3>5 DEF AllOrNothing
  <2> QED
    BY <1>7, <2>1, <2>2 DEF MineAction
<1> QED
  BY <1>1, <1>2, <1>3, <1>4, <1>5, <1>6, <1>7, <1>b DEF Next

\* Migrations that overlap never spoil the allowance of a supply for each other.
THEOREM MigrationSuppliesCompose == Spec => []SuppliesCompose
<1>1. Init => AllOrNothing
  BY NoBatchFacts DEF Init, AllOrNothing, Tokens
<1>2. TypeOK /\ TypeOK' /\ AllOrNothing /\ [Next]_vars => AllOrNothing'
  <2>1. ASSUME TypeOK, TypeOK', AllOrNothing, Next, moves' # 0 PROVE AllOrNothing'
    BY <2>1 DEF AllOrNothing
  <2>2. CASE UNCHANGED vars
    BY <2>2 DEF vars, AllOrNothing
  <2> QED
    BY <2>1, <2>2, AllOrNothingStep
<1>3. AllOrNothing => SuppliesCompose
  BY DEF AllOrNothing, SuppliesCompose
<1> QED
  BY <1>1, <1>2, <1>3, MigrationTyped, PTL DEF Spec
=============================================================================
