----------------------------- MODULE Signatures -----------------------------
(***************************************************************************)
(* Actions by signature: the SDK composes the typed data that the user     *)
(* signs, and later, in a call of its own, the transaction that carries    *)
(* the signature.  Pool does it for a permit to supply or to repay,        *)
(* StakingService for a permit to stake, and                               *)
(* GovernancePowerDelegationTokenService for the two delegations.          *)
(*                                                                         *)
(* What is signed and what is sent are put together from separate reads,   *)
(* so they may differ: in the nonce (Pool reads it before signing, the     *)
(* delegations once more afterwards, and any other signature of the owner  *)
(* may use it up in between), in the delegatee (whose name is resolved     *)
(* twice), and the deadline may have passed.                               *)
(*                                                                         *)
(* There is one owner and one token, since nonces of others do not         *)
(* interfere; permits and delegations of a token count on the same nonces  *)
(* (both services read its _nonces).  Contracts and names are external.    *)
(***************************************************************************)
EXTENDS Integers

CONSTANTS Sessions,    \* the uses of a signature that may be under way
          Names,       \* ENS names
          Addresses,   \* of possible delegatees
          NoAddress,   \* what a name resolves to that is not registered
          MaxAmount,   \* the largest amount in least units
          MaxTime,     \* the clock stops there; deadlines do not exceed it
          MaxMoves     \* how often something else happens outside the SDK

ASSUME NamesAssumption ==
    /\ NoAddress \notin Addresses /\ Names \cap Addresses = {}
    /\ Names \cap Int = {} /\ Addresses \cap Int = {} /\ NoAddress \notin Int

ASSUME BoundsAssumption == MaxAmount \in Nat \ {0} /\ MaxTime \in Nat /\ MaxMoves \in Nat

PoolPermits == {"supply", "repay"}
Delegations == {"delegate", "delegateByType"}
Kinds == PoolPermits \cup {"stake"} \cup Delegations

MinusOne == -1              \* the amount '-1'
Unlimited == MaxAmount + 1  \* MaxUint256
Never == MaxTime + 1        \* MaxUint256 as a deadline

VARIABLES
    pc,         \* where each session is
    session,    \* its arguments, the message signed and what is sent
    nonce,      \* of the owner, in the token
    allowance,  \* of the owner to the pool
    ens,        \* what the names resolve to
    now,        \* the time of the chain
    moves       \* number of changes made outside the SDK

vars == <<pc, session, nonce, allowance, ens, now, moves>>

PCs == {"idle", "approved", "nonce", "name", "prepared", "renonce", "rename",
        "built", "sent", "done", "rejected", "empty", "threw"}

\* What a caller may ask of each method: signERC20Approval takes '-1' for
\* either permit, a delegatee is an address or a name.
Wants(kind) ==
    CASE kind \in PoolPermits -> 1..MaxAmount \cup {MinusOne}
      [] kind = "stake"       -> 1..MaxAmount
      [] OTHER                -> Names \cup Addresses

Message == [what : 0..Unlimited \cup Addresses, nonce : Nat, deadline : 0..Never]

AnySession ==
    [kind     : Kinds,
     want     : {MinusOne} \cup 1..MaxAmount \cup Names \cup Addresses,
     deadline : 0..MaxTime,  \* as the caller passes it, to both calls
     signed   : Message,
     sent     : Message,
     raised   : BOOLEAN]     \* history: the allowance was raised since it was read

SessionType == {k \in AnySession : k.want \in Wants(k.kind)}

TypeOK ==
    /\ pc \in [Sessions -> PCs]
    /\ session \in [Sessions -> SessionType]
    /\ \A s \in Sessions :
            pc[s] \in {"name", "renonce", "rename"} => session[s].kind \in Delegations
    /\ nonce \in Nat
    /\ allowance \in 0..Unlimited
    /\ ens \in [Names -> Addresses \cup {NoAddress}]
    /\ now \in 0..MaxTime
    /\ moves \in 0..MaxMoves

Blank == [what |-> 0, nonce |-> 0, deadline |-> 0]

NewSession(kind, want, deadline) ==
    [kind |-> kind, want |-> want, deadline |-> deadline,
     signed |-> Blank, sent |-> Blank, raised |-> FALSE]

NoSession == NewSession("stake", 1, 0)

Init ==
    /\ pc = [s \in Sessions |-> "idle"]
    /\ session = [s \in Sessions |-> NoSession]
    /\ nonce = 0
    /\ allowance = 0
    /\ ens \in [Names -> Addresses \cup {NoAddress}]
    /\ now = 0
    /\ moves = 0

-----------------------------------------------------------------------------
\* Converted, mutated: the amount is converted twice.
Bug_ConvertedTwice(want) ==
    IF want = MinusOne THEN Unlimited ELSE IF want \in Int THEN 10 * want ELSE want

\* The amount in least units, which is MaxUint256 for '-1'.
Converted(want) == IF want = MinusOne THEN Unlimited ELSE want

Resolved(delegatee) == IF delegatee \in Names THEN ens[delegatee] ELSE delegatee

\* Go: s goes on at label with the session k.
Go(s, label, k) ==
    /\ pc' = [pc EXCEPT ![s] = label]
    /\ session' = [session EXCEPT ![s] = k]
    /\ UNCHANGED <<nonce, allowance, ens, now, moves>>

-----------------------------------------------------------------------------
\* The caller starts.  Pool reads the nonce itself, after the allowance; for
\* the others the caller asks for it (getNonce) and passes it on.
Begin(s, kind, want, deadline) ==
    /\ pc[s] = "idle" /\ deadline >= now
    /\ Go(s, IF kind \in PoolPermits THEN "approved" ELSE "nonce", NewSession(kind, want, deadline))

\* CheckAllowance, mutated: a signature is asked for in any case.
Bug_CheckAllowanceDropped(s) ==
    /\ pc[s] = "approved"
    /\ Go(s, "nonce", [session[s] EXCEPT !.raised = FALSE])

\* isApproved of signERC20Approval: no signature is needed if it holds.
CheckAllowance(s) ==
    /\ pc[s] = "approved"
    /\ IF allowance >= Converted(session[s].want)
       THEN Go(s, "empty", NoSession)
       ELSE Go(s, "nonce", [session[s] EXCEPT !.raised = FALSE])

\* ReadNonce, mutated twice: a stake is signed with the caller's deadline, which
\* the helper does not know; and the nonce is that of the next signature.
Bug_ReadNonceDeadline(s) ==
    LET k == session[s] IN
    /\ pc[s] = "nonce"
    /\ IF k.kind \in Delegations
       THEN Go(s, "name", [k EXCEPT !.signed.nonce = nonce])
       ELSE Go(s, "prepared", [k EXCEPT !.signed =
                [what |-> Converted(k.want), nonce |-> nonce, deadline |-> k.deadline]])

Bug_ReadNonceNext(s) ==
    LET k == session[s] IN
    /\ pc[s] = "nonce"
    /\ IF k.kind \in Delegations
       THEN Go(s, "name", [k EXCEPT !.signed.nonce = nonce + 1])
       ELSE Go(s, "prepared", [k EXCEPT !.signed =
                [what |-> Converted(k.want), nonce |-> nonce + 1,
                 deadline |-> IF k.kind = "stake" THEN Never ELSE k.deadline]])

\* The nonce is read, and typed data is composed of it but for a delegatee.
ReadNonce(s) ==
    LET k == session[s] IN
    /\ pc[s] = "nonce"
    /\ IF k.kind \in Delegations
       THEN Go(s, "name", [k EXCEPT !.signed.nonce = nonce])
       ELSE Go(s, "prepared", [k EXCEPT !.signed =
                [what |-> Converted(k.want), nonce |-> nonce,
                 deadline |-> IF k.kind = "stake" THEN Never ELSE k.deadline]])

\* Neither nonces nor _nonces answers.  Pool takes the token for one without
\* permits and returns ''; so does the caller of a stake, who gets null.
NoNonce(s) ==
    /\ pc[s] = "nonce" /\ session[s].kind \notin Delegations
    /\ Go(s, "empty", NoSession)

\* prepareDelegateSignature, prepareDelegateByTypeSignature.
ResolveToSign(s) ==
    LET k == session[s]
        to == Resolved(k.want)
    IN  /\ pc[s] = "name"
        /\ IF to = NoAddress
           THEN Go(s, "threw", NoSession)
           ELSE Go(s, "prepared", [k EXCEPT !.signed.what = to, !.signed.deadline = k.deadline])

-----------------------------------------------------------------------------
\* The user has signed and the caller passes the signature back, with the same
\* arguments: supplyWithPermit, repayWithPermit, stakeWithPermit, delegateBySig,
\* delegateByTypeBySig.  The first takes no '-1'; the reads of a permit that are
\* left (decimals, synthetixValidation) only may make it throw.
Submit(s) ==
    LET k == session[s] IN
    /\ pc[s] = "prepared"
    /\ \/ k.kind \in Delegations /\ Go(s, "renonce", k)
       \/ k.kind \notin Delegations /\ Go(s, "threw", NoSession)
       \/ /\ k.kind \notin Delegations /\ (k.kind = "supply" => k.want # MinusOne)
          /\ Go(s, "built", [k EXCEPT !.sent =
                [what |-> Converted(k.want), nonce |-> k.signed.nonce,
                 deadline |-> IF k.kind = "stake" THEN Never ELSE k.deadline]])

\* ReadNonceAgain, mutated: it takes the message's nonce for the one before.
Bug_ReadNonceAgainNext(s) ==
    /\ pc[s] = "renonce"
    /\ Go(s, "rename", [session[s] EXCEPT !.sent.nonce = nonce + 1])

\* delegateBySig asks for the nonce itself, after the signature was made.
ReadNonceAgain(s) ==
    /\ pc[s] = "renonce"
    /\ Go(s, "rename", [session[s] EXCEPT !.sent.nonce = nonce])

\* It resolves the delegatee again, and returns the transaction.
ResolveToSend(s) ==
    LET k == session[s]
        to == Resolved(k.want)
    IN  /\ pc[s] = "rename"
        /\ IF to = NoAddress
           THEN Go(s, "threw", NoSession)
           ELSE Go(s, "built", [k EXCEPT !.sent.what = to, !.sent.deadline = k.deadline])

\* A read is rejected, and the method with it.
RpcFails(s) ==
    /\ \/ pc[s] \in {"approved", "name", "renonce", "rename"}
       \/ pc[s] = "nonce" /\ session[s].kind \in Delegations
    /\ Go(s, "threw", NoSession)

-----------------------------------------------------------------------------
\* A contract recovers the owner from the signature if what is sent is what was
\* signed; a permit is sent without a nonce, it is checked against the current.
Accepts(k) ==
    /\ k.sent = k.signed
    /\ k.signed.nonce = nonce
    /\ now <= k.sent.deadline

\* tx() estimates the gas, and so rejects a signature that is not accepted.
Send(s) ==
    /\ pc[s] = "built"
    /\ Go(s, IF Accepts(session[s]) THEN "sent" ELSE "rejected", session[s])

\* The others, as they see the allowance of the pool become v.
Raised(v) ==
    [s \in Sessions |->
        IF v > allowance THEN [session[s] EXCEPT !.raised = TRUE] ELSE session[s]]

\* A signature that is accepted uses up the nonce.  The pool then draws what it
\* was allowed; an allowance without limit stays so.
MineAccepted(s) ==
    LET k == session[s]
        left == IF k.kind \notin PoolPermits THEN allowance
                ELSE IF k.sent.what = Unlimited THEN Unlimited ELSE 0
    IN  /\ pc[s] = "sent" /\ Accepts(k)
        /\ pc' = [pc EXCEPT ![s] = "done"]
        /\ nonce' = nonce + 1
        /\ allowance' = left
        /\ session' = [Raised(left) EXCEPT ![s] = NoSession]
        /\ UNCHANGED <<ens, now, moves>>

MineRejected(s) ==
    /\ pc[s] = "sent" /\ ~Accepts(session[s])
    /\ Go(s, "rejected", session[s])

\* The caller starts over, or drops what it has.
Forget(s) ==
    /\ pc[s] \in {"prepared", "built", "rejected"}
    /\ Go(s, "idle", NoSession)

-----------------------------------------------------------------------------
Move == moves < MaxMoves /\ moves' = moves + 1

\* Another approval of the pool is mined, or taken back.
Approve(v) ==
    /\ Move /\ v # allowance
    /\ allowance' = v
    /\ session' = Raised(v)
    /\ UNCHANGED <<pc, nonce, ens, now>>

\* The owner uses a signature made elsewhere.
UseNonce ==
    /\ Move
    /\ nonce' = nonce + 1
    /\ UNCHANGED <<pc, session, allowance, ens, now>>

\* A name is registered, moved or given up.
Repoint(n, to) ==
    /\ Move /\ to # ens[n]
    /\ ens' = [ens EXCEPT ![n] = to]
    /\ UNCHANGED <<pc, session, nonce, allowance, now>>

Tick ==
    /\ now < MaxTime
    /\ now' = now + 1
    /\ UNCHANGED <<pc, session, nonce, allowance, ens, moves>>

Next ==
    \/ \E s \in Sessions :
        \/ \E kind \in Kinds, deadline \in 0..MaxTime :
              \E want \in Wants(kind) : Begin(s, kind, want, deadline)
        \/ CheckAllowance(s) \/ ReadNonce(s) \/ NoNonce(s) \/ ResolveToSign(s)
        \/ Submit(s) \/ ReadNonceAgain(s) \/ ResolveToSend(s) \/ RpcFails(s)
        \/ Send(s) \/ MineAccepted(s) \/ MineRejected(s) \/ Forget(s)
    \/ \E v \in 0..Unlimited : Approve(v)
    \/ UseNonce
    \/ \E n \in Names, to \in Addresses \cup {NoAddress} : Repoint(n, to)
    \/ Tick

Spec == Init /\ [][Next]_vars

\* Reads are answered, a caller sends what it has and starts over when it is
\* rejected, and the chain mines.
Fairness ==
    \A s \in Sessions :
        /\ WF_vars(\/ CheckAllowance(s) \/ ReadNonce(s) \/ ResolveToSign(s)
                   \/ ReadNonceAgain(s) \/ ResolveToSend(s))
        /\ WF_vars(Send(s))
        /\ WF_vars(MineAccepted(s) \/ MineRejected(s))
        /\ WF_vars(pc[s] = "rejected" /\ Forget(s))

FairSpec == Spec /\ Fairness

-----------------------------------------------------------------------------
Explained(s) ==
    pc[s] = "rejected" =>
        \/ nonce > session[s].signed.nonce
        \/ now > session[s].signed.deadline
        \/ session[s].kind \in Delegations /\ session[s].signed.what # session[s].sent.what

\* A signature fails only if another one used the nonce up, the deadline is
\* over or the delegatee's name was moved while the user was signing; never
\* because the two halves of the SDK disagree on amount, deadline or nonce.
RejectionExplained == \A s \in Sessions : Explained(s)

\* A permit of the pool takes an allowance from calls that count on it only if
\* it is smaller than what the permit is for, or was raised after the permit's
\* own check (signERC20Approval asks for no signature if the allowance is enough).
PermitSparesEnough ==
    [][\A s \in Sessions :
        /\ pc[s] = "sent" /\ pc'[s] = "done" /\ session[s].kind \in PoolPermits
        /\ allowance' < allowance
        => session[s].raised \/ allowance < session[s].sent.what]_vars

\* Callers that start over are not rejected for ever: whoever is, was overtaken
\* by a signature that was accepted (nonces are read anew for every signature).
RejectionsDieOut == \A s \in Sessions : <>[](pc[s] # "rejected")

-----------------------------------------------------------------------------
\* The inductive invariant: nonces are read in the order signed, sent, now; and
\* what is sent was signed, but for a nonce or a name that moved on.
Composed(s) ==
    LET k == session[s] IN
    /\ pc[s] \in {"name", "prepared", "renonce", "rename", "built", "sent", "rejected"} =>
            k.signed.nonce <= nonce
    /\ pc[s] \in {"rename", "built", "sent", "rejected"} =>
            k.signed.nonce <= k.sent.nonce /\ k.sent.nonce <= nonce
    /\ pc[s] \in {"prepared", "renonce", "rename", "built", "sent", "rejected"} =>
            k.signed.deadline = IF k.kind = "stake" THEN Never ELSE k.deadline
    /\ pc[s] \in {"built", "sent", "rejected"} => k.sent.deadline = k.signed.deadline
    /\ k.kind \notin Delegations =>
            /\ pc[s] = "prepared" => k.signed.what = Converted(k.want)
            /\ pc[s] \in {"built", "sent", "rejected"} => k.sent.what = k.signed.what

\* A pool permit under way has found the allowance too small.
Needed(s) ==
    LET k == session[s] IN
    /\ k.kind \in PoolPermits /\ pc[s] \in {"nonce", "prepared", "built", "sent"} =>
            k.raised \/ allowance < Converted(k.want)
    /\ k.kind \in PoolPermits /\ pc[s] \in {"built", "sent"} => k.sent.what = Converted(k.want)

\* (signERC20Approval, delegateBySig and their likes, taken with the contracts.)
SignatureInv == \A s \in Sessions : Composed(s) /\ Needed(s)
=============================================================================
