------------------------------- MODULE TxFlow -------------------------------
(***************************************************************************)
(* The life of a transaction method call, from the call to the mined       *)
(* action, for several calls of one user that overlap.                     *)
(*                                                                         *)
(* A method of the service classes runs in the client: it is validated by  *)
(* its decorator, awaits the chain several times (Operations lists the     *)
(* reads), and returns an array with an ERC20_APPROVAL transaction, if the *)
(* allowance it read was too small, and the action.  The client then calls *)
(* tx() of each transaction, which estimates its gas and rejects if it     *)
(* would revert, and sends it.  Between any two awaits, and between the    *)
(* return of the array and the mining of its transactions, the other calls *)
(* and the user's wallet go on changing the same allowances.               *)
(*                                                                         *)
(* The chain is external and modelled by the part of it that src/ depends  *)
(* on: the allowances, which approve() sets and which an action lowers.    *)
(* Other reasons to revert (balances, health factors, pauses) are left out.*)
(***************************************************************************)
EXTENDS Operations

CONSTANTS Calls,      \* the calls that may be under way at the same time
          Ops,        \* the methods they may call, records of Operations
          MaxAmount,  \* amounts are 1..MaxAmount, the least unit being 1
          MaxMoves    \* bound on the allowance changes made outside the SDK

ASSUME OpsAssumption == Ops \subseteq OpType /\ Ops # {}
ASSUME BoundAssumption == MaxAmount \in Nat \ {0} /\ MaxMoves \in Nat

VARIABLES
    pc,         \* where each call is
    call,       \* its arguments, its local variables and what is known of it
    allowance,  \* on the chain: what each spender may pull of each token
    granted,    \* history: pairs an approval of ours set, the wallet not since
    moves       \* number of allowance changes made outside the SDK

vars == <<pc, call, allowance, granted, moves>>

\* MinusOne is the amount '-1', the whole balance or debt.  Unlimited is any
\* allowance of SUPER_BIG_ALLOWANCE_NUMBER or more: what the approvals set
\* (DEFAULT_APPROVE_AMOUNT) is still Unlimited when an action draws from it.
MinusOne == -1
Unlimited == MaxAmount + 1

PCs == {"idle", "reading", "built", "sent", "done", "reverted", "refused", "empty"}

Quotes == {"none", "recommended", "estimated", "rejected"}

CallType == [op        : Ops,
             amount    : 1..MaxAmount \cup {MinusOne},
             at        : Nat,      \* how many reads have been answered
             checked   : BOOLEAN,  \* history: the allowance has been read
             approval  : BOOLEAN,  \* txs holds an ERC20_APPROVAL transaction
             owed      : BOOLEAN,  \* and it has not been mined yet
             quote     : Quotes,   \* what the action's gas() answered
             disturbed : BOOLEAN]  \* history: see Disturb

TypeOK ==
    /\ pc \in [Calls -> PCs]
    /\ call \in [Calls -> CallType]
    /\ allowance \in [Pairs -> 0..Unlimited]
    /\ granted \subseteq Pairs \cup {NoPair}
    /\ moves \in 0..MaxMoves

NewCall(op, amount) ==
    [op |-> op, amount |-> amount, at |-> 0, checked |-> FALSE, approval |-> FALSE,
     owed |-> FALSE, quote |-> "none", disturbed |-> FALSE]

NoCall == NewCall(CHOOSE op \in Ops : TRUE, 1)

Init ==
    /\ pc = [c \in Calls |-> "idle"]
    /\ call = [c \in Calls |-> NoCall]
    /\ allowance = [p \in Pairs |-> 0]
    /\ granted = {}
    /\ moves = 0

-----------------------------------------------------------------------------
\* The reads the call awaits: fewer, in some methods, for '-1'.
Reads(k) == IF k.amount = MinusOne THEN k.op.wholeReads ELSE k.op.reads

\* What isApproved compares the allowance with: SUPER_BIG_ALLOWANCE_NUMBER for
\* '-1'.  isDelegationApproved has no such case, its amount being positive.
Threshold(k) == IF k.amount = MinusOne THEN Unlimited ELSE k.amount

\* What the contract may pull when the action runs: never more than the action
\* names, and the action may name more than the amount that was checked.
Asked(k) == IF k.op.asksMore \/ k.amount = MinusOne THEN 1..MaxAmount ELSE 1..k.amount

Payable(k, drawn) == k.op.draws # NoPair => allowance[k.op.draws] >= drawn

\* k has read the allowance, or has had its approval mined, and now counts on
\* the allowance staying where it is.
Relies(s, k) == s \in {"reading", "built", "sent"} /\ k.checked /\ ~k.owed

\* The calls of C after the allowances become now: those that counted on one
\* that is now too small are marked.
Disturb(C, now) ==
    [c \in Calls |->
        IF /\ c \in C /\ Relies(pc[c], call[c])
           /\ call[c].op.draws # NoPair
           /\ now[call[c].op.draws] < Threshold(call[c])
        THEN [call[c] EXCEPT !.disturbed = TRUE]
        ELSE call[c]]

-----------------------------------------------------------------------------
\* A method is called with arguments its validators accept.  One that awaits
\* nothing has built its array when it returns.
Begin(c, op, amount) ==
    /\ pc[c] = "idle"
    /\ amount = MinusOne => op.minusOne
    /\ call' = [call EXCEPT ![c] = NewCall(op, amount)]
    /\ pc' = [pc EXCEPT ![c] = IF Reads(NewCall(op, amount)) = << >> THEN "built" ELSE "reading"]
    /\ UNCHANGED <<allowance, granted, moves>>

\* A validator rejects the arguments: it throws on an amount (or on an address
\* that is not '0x...'), and makes the method return [] when an address the
\* service was set up with is not one.
BeginInvalid(c) ==
    /\ pc[c] = "idle"
    /\ \E s \in {"refused", "empty"} : pc' = [pc EXCEPT ![c] = s]
    /\ UNCHANGED <<call, allowance, granted, moves>>

\* The next read of call c is answered and the code up to the next await runs.
\* After the last read that code ends with the return of the array.
Advance(c, k) ==
    /\ call' = [call EXCEPT ![c] = [k EXCEPT !.at = @ + 1]]
    /\ pc' = [pc EXCEPT ![c] = IF k.at + 1 = Len(Reads(k)) THEN "built" ELSE "reading"]
    /\ UNCHANGED <<allowance, granted, moves>>

Awaits(c, kinds) ==
    /\ pc[c] = "reading"
    /\ call[c].at < Len(Reads(call[c]))
    /\ Reads(call[c])[call[c].at + 1] \in kinds

\* decimals(), STAKED_TOKEN(), the L2 encoder, and transferableSynthetix() when
\* the user has enough: conversions of the amount, nothing a later step tests.
ReadValue(c) ==
    /\ Awaits(c, ReadKinds \ {"allowance"})
    /\ Advance(c, call[c])

\* ReadAllowance, mutated: the allowance must exceed the amount (gt for gte).
Bug_ReadAllowanceStrict(c) ==
    LET k == call[c]
        short == allowance[k.op.checks] <= Threshold(k)
    IN  /\ Awaits(c, {"allowance"})
        /\ Advance(c, [k EXCEPT !.checked = TRUE, !.approval = short, !.owed = short])

\* allowance() or borrowAllowance() is answered; if it is too small an approval
\* is pushed before anything else can run.
ReadAllowance(c) ==
    LET k == call[c]
        short == allowance[k.op.checks] < Threshold(k)
    IN  /\ Awaits(c, {"allowance"})
        /\ Advance(c, [k EXCEPT !.checked = TRUE, !.approval = short, !.owed = short])

\* A read is rejected, or transferableSynthetix() is below the amount: the
\* method rejects and txs, which is local to it, is lost.
RpcFails(c) ==
    /\ pc[c] = "reading"
    /\ pc' = [pc EXCEPT ![c] = "refused"]
    /\ UNCHANGED <<call, allowance, granted, moves>>

\* The L2 pool service was set up without valid addresses: its validator makes
\* it return [], and with it Pool, which has pushed its approval already.
EncoderMissing(c) ==
    /\ Awaits(c, {"encode"})
    /\ pc' = [pc EXCEPT ![c] = "empty"]
    /\ UNCHANGED <<call, allowance, granted, moves>>

-----------------------------------------------------------------------------
\* Quote, mutated: the recommendation is looked up by a name the table lacks.
Bug_QuoteUnlisted(c) ==
    LET k == call[c] IN
    /\ pc[c] = "built" /\ k.quote = "none"
    /\ call' = [call EXCEPT ![c].quote =
                 IF k.op.gasSeesTxs /\ k.approval THEN "undefined" ELSE "estimated"]
    /\ UNCHANGED <<pc, allowance, granted, moves>>

\* The client calls gas() of the action, without force.  With an approval in
\* the array it was given, it answers the recommended limit, also when that
\* approval has been mined; otherwise it estimates the action as the chain is.
Quote(c) ==
    LET k == call[c] IN
    /\ pc[c] = "built" /\ k.quote = "none"
    /\ \E q \in Quotes \ {"none"} :
        /\ (q = "recommended") <=> (k.op.gasSeesTxs /\ k.approval)
        /\ q = "estimated" => \E d \in Asked(k) : Payable(k, d)
        /\ q = "rejected" => \E d \in Asked(k) : ~Payable(k, d)
        /\ call' = [call EXCEPT ![c].quote = q]
    /\ UNCHANGED <<pc, allowance, granted, moves>>

\* Send, mutated: the action is estimated before any transaction is sent.
Bug_SendEstimatesAction(c) ==
    /\ pc[c] = "built"
    /\ \E d \in Asked(call[c]) : Payable(call[c], d)
    /\ pc' = [pc EXCEPT ![c] = "sent"]
    /\ UNCHANGED <<call, allowance, granted, moves>>

\* The client calls tx() of the next transaction and sends what it answers.
\* Estimating an approval never fails.
Send(c) ==
    /\ pc[c] = "built"
    /\ call[c].owed \/ \E d \in Asked(call[c]) : Payable(call[c], d)
    /\ pc' = [pc EXCEPT ![c] = "sent"]
    /\ UNCHANGED <<call, allowance, granted, moves>>

\* tx() of the action rejects: its gas cannot be estimated since it would revert.
SendRejected(c) ==
    /\ pc[c] = "built" /\ ~call[c].owed
    /\ \E d \in Asked(call[c]) : ~Payable(call[c], d)
    /\ pc' = [pc EXCEPT ![c] = "reverted"]
    /\ UNCHANGED <<call, allowance, granted, moves>>

\* MineApproval, mutated: the approval is for the amount of the call.
Bug_MineExactApproval(c) ==
    /\ pc[c] = "sent" /\ call[c].owed
    /\ allowance' = [allowance EXCEPT ![call[c].op.approves] = Threshold(call[c])]
    /\ granted' = granted \cup {call[c].op.approves}
    /\ pc' = [pc EXCEPT ![c] = "built"]
    /\ call' = [call EXCEPT ![c].owed = FALSE]
    /\ UNCHANGED moves

\* The approval is mined; the client waits for this before it goes on to the
\* action, whose gas could not be estimated earlier.
MineApproval(c) ==
    /\ pc[c] = "sent" /\ call[c].owed
    /\ allowance' = [allowance EXCEPT ![call[c].op.approves] = Unlimited]
    /\ granted' = granted \cup {call[c].op.approves}
    /\ pc' = [pc EXCEPT ![c] = "built"]
    /\ call' = [call EXCEPT ![c].owed = FALSE]
    /\ UNCHANGED moves

\* The action is mined: it pulls what it needs, or reverts.
MineAction(c) ==
    LET k == call[c] IN
    /\ pc[c] = "sent" /\ ~k.owed
    /\ \E d \in Asked(k) :
        IF Payable(k, d)
        THEN /\ pc' = [pc EXCEPT ![c] = "done"]
             /\ allowance' = IF k.op.draws = NoPair \/ allowance[k.op.draws] = Unlimited
                             THEN allowance
                             ELSE [allowance EXCEPT ![k.op.draws] = @ - d]
        ELSE /\ pc' = [pc EXCEPT ![c] = "reverted"]
             /\ UNCHANGED allowance
    /\ call' = Disturb(Calls \ {c}, allowance')
    /\ UNCHANGED <<granted, moves>>

\* The call is over, or the client drops the array; the user may try again.
Forget(c) ==
    /\ pc[c] \in {"built", "done", "reverted", "refused", "empty"}
    /\ pc' = [pc EXCEPT ![c] = "idle"]
    /\ call' = [call EXCEPT ![c] = NoCall]
    /\ UNCHANGED <<allowance, granted, moves>>

\* The user changes an allowance elsewhere: another front end, a permit, a
\* revocation.  Only pairs some method of Ops uses matter.
Wallet(p, v) ==
    /\ moves < MaxMoves
    /\ allowance[p] # v
    /\ allowance' = [allowance EXCEPT ![p] = v]
    /\ granted' = granted \ {p}
    /\ moves' = moves + 1
    /\ call' = Disturb(Calls, allowance')
    /\ UNCHANGED pc

Next ==
    \/ \E c \in Calls :
        \/ \E op \in Ops, a \in 1..MaxAmount \cup {MinusOne} : Begin(c, op, a)
        \/ BeginInvalid(c)
        \/ ReadValue(c) \/ ReadAllowance(c) \/ RpcFails(c) \/ EncoderMissing(c)
        \/ Quote(c) \/ Send(c) \/ SendRejected(c)
        \/ MineApproval(c) \/ MineAction(c) \/ Forget(c)
    \/ \E p \in {op.draws : op \in Ops} \ {NoPair}, v \in 0..Unlimited : Wallet(p, v)

Spec == Init /\ [][Next]_vars

\* The provider answers (or fails) every read; a client that has begun goes on
\* with the array and tries again when it was rejected; the chain mines what was
\* sent.
Fairness ==
    \A c \in Calls :
        /\ WF_vars(ReadValue(c) \/ ReadAllowance(c))
        /\ WF_vars(Send(c) \/ SendRejected(c))
        /\ WF_vars(MineApproval(c) \/ MineAction(c))
        /\ WF_vars(pc[c] = "reverted" /\ Forget(c))

FairSpec == Spec /\ Fairness
-----------------------------------------------------------------------------
(***************************************************************************)
(* What the calls promise, if the methods are such as these:               *)
(***************************************************************************)
AllCover == \A op \in Ops : Covers(op)

AllQuotable == \A op \in Ops : op.draws # NoPair => op.gasSeesTxs

\* No action is rejected or reverts for want of allowance unless, after the
\* call looked at the allowance (or after its own approval was mined), somebody
\* else brought it below what the call needs.  It takes the right pair to be
\* checked, approved and drawn from, a check on every path, whatever the
\* amount, and an action that asks for no more than what was checked
\* (isApproved and the approve of every method).
RevertOnlyIfDisturbed ==
    \A c \in Calls : pc[c] = "reverted" => call[c].disturbed

\* gas() of an action answers, although the approval that precedes it is still
\* to be mined: it rejects only if the allowance the call counted on was taken
\* away (hasPendingApprovals in generateTxPriceEstimation).
QuoteNeverBlocked == \A c \in Calls : call[c].quote = "rejected" => call[c].disturbed

\* As long as every allowance comes from the approvals of the methods, calls
\* that overlap never make one another revert: the approvals are unlimited, so
\* a check passed by several calls at once holds for all of them.
OverlappingCallsCompose == moves = 0 => \A c \in Calls : pc[c] # "reverted"

\* Where the payment of a call stands: covered once the call relies on the
\* allowance, or needs none.
Phase(s, k) ==
    CASE s = "done" -> "paid"
      [] s = "reverted" -> "failed"
      [] s \in {"idle", "refused", "empty"} -> "none"
      [] s \in {"reading", "built", "sent"} ->
           IF k.disturbed THEN "spoilt"
           ELSE IF Relies(s, k) \/ k.op.draws = NoPair THEN "covered"
           ELSE "open"

Phases == [c \in Calls |-> Phase(pc[c], call[c])]

Payment == INSTANCE Payments WITH Payers <- Calls, phase <- Phases, interfered <- moves # 0

\* The methods make a payment once and only when it is covered, whatever is read,
\* approved and mined in between: by way of the check that every method makes,
\* the approval that goes first, and tx() that rejects what would revert.
PaymentsAsPromised == Payment!Spec

\* No call asks for an approval that was already given: once an approval of ours
\* is mined, and until the user changes it elsewhere, no call that reads the
\* allowance pushes another one for that pair.
NoRepeatedApproval ==
    [][\A c \in Calls :
        ~call[c].approval /\ call'[c].approval => call'[c].op.approves \notin granted]_vars

\* A client that goes on with its array is never stuck between the approval and
\* the action: it ends with the action mined or rejected, or drops the array.
BatchSettles ==
    \A c \in Calls : pc[c] = "built" ~> pc[c] \in {"done", "reverted", "idle"}

\* A user who tries again after a rejection does not do so forever: once the
\* allowances are left alone elsewhere, rejections die out, because each retry
\* reads what the others have drawn and asks for an unlimited approval.
RejectionsDieOut == <>[](\A c \in Calls : pc[c] # "reverted")

\* "If an approval is required, the method will return an array with two
\* transactions, or single transaction if no approval is needed"
\* (README.md:444-447): a call that returned the action alone is not rejected
\* for want of an approval.
OneTransactionIsEnough ==
    \A c \in Calls :
        pc[c] = "reverted" /\ ~call[c].approval => call[c].disturbed

\* "Expects to get gasPrice when pending approvals" (BaseService.test.ts:119):
\* with an approval in the array that is still to be mined, gas() does not
\* estimate the action, and so cannot reject.
QuoteWithPendingApproval ==
    \A c \in Calls : call[c].owed => call[c].quote # "rejected"

-----------------------------------------------------------------------------
(***************************************************************************)
(* Why they do: a method that pulls tokens still has its check ahead of it *)
(* while it reads, has made it once it has built its array, and from then  *)
(* on (an approval of its own apart) the allowance is enough or the call   *)
(* is marked.                                                              *)
(***************************************************************************)
CheckAhead(c) ==
    pc[c] = "reading" /\ call[c].op.draws # NoPair /\ ~call[c].checked =>
        \E i \in call[c].at + 1 .. Len(Reads(call[c])) : Reads(call[c])[i] = "allowance"

CheckMade(c) ==
    pc[c] \in {"built", "sent"} /\ call[c].op.draws # NoPair => call[c].checked

AllowanceKept(c) ==
    Relies(pc[c], call[c]) /\ call[c].op.draws # NoPair /\ ~call[c].disturbed =>
        allowance[call[c].op.draws] >= Threshold(call[c])

OwedIsApproval(c) == call[c].owed => call[c].approval

\* The inductive invariant behind RevertOnlyIfDisturbed and QuoteNeverBlocked:
\* at no point of any interleaving does a call count on an allowance that is too
\* small without being marked (the order of check, approval and action in every
\* method).
AllowanceInv ==
    \A c \in Calls : /\ CheckAhead(c) /\ CheckMade(c)
                     /\ AllowanceKept(c) /\ OwedIsApproval(c)

\* The inductive invariant behind NoRepeatedApproval and OverlappingCallsCompose:
\* what our approvals set stays unlimited whatever the actions draw, and if
\* nobody else sets allowances there are no others (DEFAULT_APPROVE_AMOUNT).
ApprovalInv ==
    /\ \A p \in granted \ {NoPair} : allowance[p] = Unlimited
    /\ moves = 0 => /\ \A p \in Pairs : allowance[p] \in {0, Unlimited}
                    /\ \A c \in Calls : ~call[c].disturbed

\* Both, for the runs and the proofs: what is checked, approved and counted on
\* by all overlapping calls fits together (isApproved, approve).
TxFlowInv == AllowanceInv /\ ApprovalInv
=============================================================================
