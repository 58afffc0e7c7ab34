----------------------------- MODULE Migration -----------------------------
(***************************************************************************)
(* V3MigrationHelperService.migrate: one action that spends the allowances *)
(* of many tokens, preceded by an approval for each that is too small.     *)
(*                                                                         *)
(* It differs from the methods of Operations in three ways.  The           *)
(* allowances of one kind are read in parallel (Promise.all), those of the *)
(* debts only after those of the supplies.  A supply is approved without   *)
(* limit, but a debt (its credit delegation) for the amount plus a tenth,  *)
(* so that batches that overlap can undo one another's approvals.  And the *)
(* contract moves what the user has when the action runs, which interest   *)
(* has made more than the amount that was checked.                         *)
(*                                                                         *)
(* The migrator contract and the tokens are external, and modelled by the  *)
(* allowances.  A token occurs once in a batch.  The client signs permits  *)
(* for every asset of a kind or for none, with the values that would have  *)
(* been approved.                                                          *)
(***************************************************************************)
EXTENDS Integers, FiniteSets

CONSTANTS Batches,        \* the calls of migrate that may be under way
          Supplies,       \* lbTokens that are moved
          Debts,          \* debt tokens, of which credit is delegated
          Amounts,        \* the amounts, in least units, of an asset
          Interest,       \* what accrues at most between check and execution
          Ceiling,        \* a bound of all finite allowances
          WalletAmounts,  \* what the user sets allowances to outside the SDK
          MaxMoves        \* how often

Tokens == Supplies \cup Debts

\* MaxUint256, of which no transfer makes less worth speaking of.
Unlimited == Ceiling + 1

\* amountPlusBuffer: a tenth more, rounded half up to the least unit.
Buffered(amount) == (11 * amount + 5) \div 10

ASSUME AmountsAssumption ==
    /\ Amounts \subseteq Nat \ {0} /\ Interest \in Nat /\ Ceiling \in Nat
    /\ \A a \in Amounts : a + Interest <= Buffered(a) /\ Buffered(a) <= Ceiling

ASSUME TokensAssumption == Supplies \cap Debts = {}

ASSUME WalletAssumption == WalletAmounts \subseteq 0..Unlimited /\ MaxMoves \in Nat

VARIABLES
    pc,         \* where each batch is
    batch,      \* its arguments, its local variables and what is known of it
    allowance,  \* on the chain: what the migrator may pull or borrow
    moves       \* number of allowance changes made outside the SDK

vars == <<pc, batch, allowance, moves>>

PCs == {"idle", "reading", "built", "sent", "done", "reverted", "refused"}

BatchType ==
    [wants  : [Tokens -> Amounts \cup {0}],  \* 0: not part of the migration
     signed : SUBSET {"supplies", "debts"},  \* kinds that come with permits
     kind   : {"supplies", "debts"},         \* the Promise.all it awaits
     unread : SUBSET Tokens,                 \* its reads not answered yet
     short  : SUBSET Tokens,                 \* approvals in txs
     owed   : SUBSET Tokens,                 \* those not mined yet
     quote  : {"none", "recommended", "estimated", "rejected"},
     tight  : SUBSET Tokens,   \* history: read as enough, but not with interest
     lost   : SUBSET Tokens,   \* history: lowered by others since it was counted on
     raised : SUBSET Tokens]   \* history: raised by others since it was read

TypeOK ==
    /\ pc \in [Batches -> PCs]
    /\ batch \in [Batches -> BatchType]
    /\ allowance \in [Tokens -> 0..Unlimited]
    /\ moves \in 0..MaxMoves

NewBatch(wants, signed) ==
    [wants |-> wants, signed |-> signed, kind |-> "supplies", unread |-> {},
     short |-> {}, owed |-> {}, quote |-> "none",
     tight |-> {}, lost |-> {}, raised |-> {}]

NoBatch == NewBatch([t \in Tokens |-> 0], {})

Init ==
    /\ pc = [b \in Batches |-> "idle"]
    /\ batch = [b \in Batches |-> NoBatch]
    /\ allowance = [t \in Tokens |-> 0]
    /\ moves = 0

-----------------------------------------------------------------------------
Wanted(k) == {t \in Tokens : k.wants[t] # 0}

Signed(k) == {t \in Supplies : "supplies" \in k.signed} \cup {t \in Debts : "debts" \in k.signed}

\* Grant, mutated three times: the debt is approved without the buffer, the
\* supply is approved for its amount too, the amount is converted once more.
Bug_GrantExact(k, t) == IF t \in Supplies THEN Unlimited ELSE k.wants[t]

Bug_GrantFinite(k, t) == Buffered(k.wants[t])

Bug_GrantConverted(k, t) == IF t \in Supplies THEN Unlimited ELSE 10 * Buffered(k.wants[t])

\* What an approval of t, or the permit that stands for it, allows.
Grant(k, t) == IF t \in Supplies THEN Unlimited ELSE Buffered(k.wants[t])

\* b needs the allowance of t and has read it.
HasRead(b, t) ==
    /\ pc[b] \in {"reading", "built", "sent"}
    /\ t \in Wanted(batch[b]) \ (Signed(batch[b]) \cup batch[b].unread)
    /\ t \in Debts => batch[b].kind = "debts"

\* It found it large enough, or has had its approval mined.
CountsOn(b, t) == HasRead(b, t) /\ t \notin batch[b].owed

\* The batches of B after the allowances become now.
Marked(B, now) ==
    [b \in Batches |-> IF b \notin B THEN batch[b] ELSE
        [batch[b] EXCEPT
            !.lost   = @ \cup {t \in Tokens : /\ CountsOn(b, t) /\ now[t] < allowance[t]
                                              /\ now[t] < batch[b].wants[t] + Interest},
            !.raised = @ \cup {t \in Tokens : HasRead(b, t) /\ now[t] > allowance[t]}]]

-----------------------------------------------------------------------------
\* Resume, mutated: permits for one kind make migrate skip the reads of both.
Bug_ResumeSkipsDebts(k) ==
    LET debts == IF k.signed # {} THEN {} ELSE Wanted(k) \cap Debts
    IN  IF k.unread = {} /\ k.kind = "supplies"
        THEN [k EXCEPT !.kind = "debts", !.unread = debts]
        ELSE k

\* Resume, mutated: it waits for an answer when there was nothing to ask.
Bug_ResumeOnAnswer(k) ==
    LET debts == (Wanted(k) \cap Debts) \ Signed(k)
    IN  IF k.unread = {} /\ k.kind = "supplies" /\ Wanted(k) \cap Supplies # {}
        THEN [k EXCEPT !.kind = "debts", !.unread = debts]
        ELSE k

\* k goes on once all reads of its Promise.all are answered: the supplies come
\* first, then the debts, then the array is returned with the approvals in it.
\* A kind that comes with permits, or of which there is nothing, needs no read.
Resume(k) ==
    LET debts == (Wanted(k) \cap Debts) \ Signed(k)
    IN  IF k.unread = {} /\ k.kind = "supplies"
        THEN [k EXCEPT !.kind = "debts", !.unread = debts]
        ELSE k

Returned(k) == k.unread = {} /\ k.kind = "debts"

Continue(b, k) ==
    /\ batch' = [batch EXCEPT ![b] = Resume(k)]
    /\ pc' = [pc EXCEPT ![b] = IF Returned(Resume(k)) THEN "built" ELSE "reading"]
    /\ UNCHANGED <<allowance, moves>>

\* migrate is called, with permits for the assets of some kinds.
Begin(b, wants, signed) ==
    LET k == NewBatch(wants, signed) IN
    /\ pc[b] = "idle"
    /\ "supplies" \in signed => Wanted(k) \cap Supplies # {}
    /\ "debts" \in signed => Wanted(k) \cap Debts # {}
    /\ Continue(b, [k EXCEPT !.unread = (Wanted(k) \cap Supplies) \ Signed(k)])

\* ReadAllowance, mutated: the amount, in least units already, is converted
\* again (nativeDecimals is dropped), and nothing but Unlimited is enough.
Bug_ReadAllowanceConverted(b, t) ==
    LET k == batch[b]
        short == IF allowance[t] < Unlimited THEN {t} ELSE {}
    IN  /\ pc[b] = "reading" /\ t \in k.unread
        /\ Continue(b, [k EXCEPT
            !.unread = @ \ {t}, !.short = @ \cup short, !.owed = @ \cup short])

\* isApproved or isDelegationApproved of t is answered, in least units.
ReadAllowance(b, t) ==
    LET k == batch[b]
        short == IF allowance[t] < k.wants[t] THEN {t} ELSE {}
    IN  /\ pc[b] = "reading" /\ t \in k.unread
        /\ Continue(b, [k EXCEPT
            !.unread = @ \ {t},
            !.short = @ \cup short,
            !.owed = @ \cup short,
            !.tight = IF allowance[t] \in k.wants[t] .. k.wants[t] + Interest - 1
                      THEN @ \cup {t} ELSE @])

\* The first read that fails makes Promise.all reject, and migrate with it.
RpcFails(b) ==
    /\ pc[b] = "reading"
    /\ pc' = [pc EXCEPT ![b] = "refused"]
    /\ batch' = [batch EXCEPT ![b] = NoBatch]
    /\ UNCHANGED <<allowance, moves>>

-----------------------------------------------------------------------------
\* Allowances as the contract sees them once it has used the permits.
WithPermits(k) ==
    [t \in Tokens |-> IF t \in Wanted(k) \cap Signed(k) THEN Grant(k, t) ELSE allowance[t]]

\* The contract needs the wanted amounts and what has accrued on them.
Need(k, accrued, t) == IF t \in Wanted(k) THEN k.wants[t] + accrued[t] ELSE 0

Payable(k, accrued) == \A t \in Tokens : WithPermits(k)[t] >= Need(k, accrued, t)

Accruals == [Tokens -> 0..Interest]

\* Quote, mutated: it is handed [] when there are permits of any kind.
Bug_QuoteBlind(b) ==
    LET k == batch[b]
        seesApproval == k.signed = {} /\ k.short # {}
    IN  /\ pc[b] = "built" /\ k.quote = "none"
        /\ \/ seesApproval /\ batch' = [batch EXCEPT ![b].quote = "recommended"]
           \/ \E accrued \in Accruals :
                /\ ~seesApproval
                /\ batch' = [batch EXCEPT ![b].quote =
                                IF Payable(k, accrued) THEN "estimated" ELSE "rejected"]
        /\ UNCHANGED <<pc, allowance, moves>>

\* gas() of the action: it is handed [] when there are supply permits, else txs.
Quote(b) ==
    LET k == batch[b]
        seesApproval == "supplies" \notin k.signed /\ k.short # {}
    IN  /\ pc[b] = "built" /\ k.quote = "none"
        /\ \/ seesApproval /\ batch' = [batch EXCEPT ![b].quote = "recommended"]
           \/ \E accrued \in Accruals :
                /\ ~seesApproval
                /\ batch' = [batch EXCEPT ![b].quote =
                                IF Payable(k, accrued) THEN "estimated" ELSE "rejected"]
        /\ UNCHANGED <<pc, allowance, moves>>

\* The client sends the approvals in the order of the array, those of the
\* supplies first, and waits for each to be mined.
MineApproval(b, t) ==
    LET k == batch[b]
        now == [allowance EXCEPT ![t] = Grant(k, t)]
    IN  /\ pc[b] = "built" /\ t \in k.owed
        /\ t \in Debts => k.owed \cap Supplies = {}
        /\ allowance' = now
        /\ batch' = [Marked(Batches \ {b}, now) EXCEPT ![b].owed = @ \ {t}]
        /\ UNCHANGED <<pc, moves>>

\* tx() of the action estimates its gas and rejects if it would revert.
Send(b) ==
    /\ pc[b] = "built" /\ batch[b].owed = {}
    /\ \E accrued \in Accruals :
        pc' = [pc EXCEPT ![b] = IF Payable(batch[b], accrued) THEN "sent" ELSE "reverted"]
    /\ UNCHANGED <<batch, allowance, moves>>

\* The action is mined.  It uses the permits and spends every allowance, or
\* reverts and does neither.
MineAction(b) ==
    LET k == batch[b]
        spent(accrued) == [t \in Tokens |->
            IF WithPermits(k)[t] = Unlimited THEN Unlimited
            ELSE WithPermits(k)[t] - Need(k, accrued, t)]
    IN  /\ pc[b] = "sent"
        /\ \E accrued \in Accruals :
            \/ /\ Payable(k, accrued)
               /\ pc' = [pc EXCEPT ![b] = "done"]
               /\ allowance' = spent(accrued)
               /\ batch' = [Marked(Batches \ {b}, allowance') EXCEPT ![b] = NoBatch]
            \/ /\ ~Payable(k, accrued)
               /\ pc' = [pc EXCEPT ![b] = "reverted"]
               /\ UNCHANGED <<batch, allowance>>
        /\ UNCHANGED moves

\* The batch is over, or the client drops it; the user may migrate more.
Forget(b) ==
    /\ pc[b] \in {"built", "done", "reverted", "refused"}
    /\ pc' = [pc EXCEPT ![b] = "idle"]
    /\ batch' = [batch EXCEPT ![b] = NoBatch]
    /\ UNCHANGED <<allowance, moves>>

\* The user changes an allowance outside the SDK.
Wallet(t, v) ==
    /\ moves < MaxMoves /\ v # allowance[t]
    /\ allowance' = [allowance EXCEPT ![t] = v]
    /\ batch' = Marked(Batches, allowance')
    /\ moves' = moves + 1
    /\ UNCHANGED pc

Next ==
    \/ \E b \in Batches :
        \/ \E wants \in [Tokens -> Amounts \cup {0}], signed \in SUBSET {"supplies", "debts"} :
              Begin(b, wants, signed)
        \/ \E t \in Tokens : ReadAllowance(b, t) \/ MineApproval(b, t)
        \/ RpcFails(b) \/ Quote(b) \/ Send(b) \/ MineAction(b) \/ Forget(b)
    \/ \E t \in Tokens, v \in WalletAmounts : Wallet(t, v)

Spec == Init /\ [][Next]_vars

\* Reads are answered, the client goes on with its array, the chain mines.
Fairness ==
    \A b \in Batches :
        /\ WF_vars(\E t \in Tokens : ReadAllowance(b, t))
        /\ WF_vars(Send(b) \/ \E t \in Tokens : MineApproval(b, t))
        /\ WF_vars(MineAction(b))

FairSpec == Spec /\ Fairness
-----------------------------------------------------------------------------
\* The migration is rejected or reverts for want of an allowance only if, after
\* the batch looked (or after its own approval), somebody else lowered one; or
\* if one it found covered the amount exactly and interest was added, which is
\* what the buffer of the approvals is for (amountPlusBuffer).
RevertExplained ==
    \A b \in Batches : pc[b] = "reverted" => batch[b].lost \cup batch[b].tight # {}

\* gas() rejects for the same reasons only, if there are no supply permits
\* (with them it does not see the approvals of the debts).
QuoteExplained ==
    \A b \in Batches :
        batch[b].quote = "rejected" /\ "supplies" \notin batch[b].signed =>
            batch[b].lost \cup batch[b].tight # {}

\* An approval sets an allowance to a finite value, yet it lowers one only if
\* somebody raised it since the batch read it: a batch never takes back what
\* it saw (the check is made with the amount the approval is for).
ApprovalLowersRaised ==
    [][\A b \in Batches, t \in Tokens :
        /\ pc[b] = "built" /\ t \in batch[b].owed /\ t \notin batch'[b].owed
        /\ allowance'[t] < allowance[t]
        => t \in batch[b].raised \/ pc'[b] = "idle"]_vars

\* Migrations that overlap share the supplies' allowances without harm, which
\* are unlimited; what they may spoil for each other is the delegations alone.
SuppliesCompose == moves = 0 => \A b \in Batches : batch[b].lost \cap Supplies = {}

\* A migration whose reads are answered neither hangs, be the lists of supplies
\* or of debts empty, nor stays forever between its approvals.
MigrationSettles ==
    \A b \in Batches :
        pc[b] \in {"reading", "built"} ~> pc[b] \in {"done", "reverted", "refused", "idle"}

-----------------------------------------------------------------------------
\* The inductive invariant behind them.  What a batch counts on is enough, with
\* the interest, unless marked; what it is to approve is less than it needs,
\* unless marked; and it has read all it needs when it returns.
ReadsAhead(b) ==
    /\ batch[b].unread \subseteq Wanted(batch[b]) \ Signed(batch[b])
    /\ batch[b].kind = "supplies" => batch[b].unread \subseteq Supplies
    /\ pc[b] \in {"built", "sent"} => batch[b].kind = "debts" /\ batch[b].unread = {}
    /\ batch[b].owed \subseteq batch[b].short
    /\ pc[b] \in {"reading", "built", "sent"} =>
            \A t \in batch[b].short : HasRead(b, t)
    /\ pc[b] = "sent" => batch[b].owed = {}

CountsOnEnough(b) ==
    \A t \in Tokens :
        CountsOn(b, t) /\ t \notin batch[b].lost \cup batch[b].tight =>
            allowance[t] >= batch[b].wants[t] + Interest

OwesMore(b) ==
    \A t \in batch[b].owed :
        pc[b] \in {"reading", "built"} /\ t \notin batch[b].raised =>
            allowance[t] < batch[b].wants[t]

\* (isApproved, isDelegationApproved and the approvals pushed for them.)
MigrationInv == \A b \in Batches : ReadsAhead(b) /\ CountsOnEnough(b) /\ OwesMore(b)
=============================================================================
