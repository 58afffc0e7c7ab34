-------------------------- MODULE Signatures_proofs --------------------------
(***************************************************************************)
(* Proofs of the safety properties of Signatures, for any number of        *)
(* sessions, any names, amounts, deadlines and changes made elsewhere.     *)
(***************************************************************************)
EXTENDS Signatures, TLAPS

USE NamesAssumption, BoundsAssumption

Holds(s) == Composed(s) /\ Needed(s) /\ Explained(s)

IInv == \A s \in Sessions : Holds(s)

-----------------------------------------------------------------------------
\* A session that is new, or dropped, has the type of a session.
LEMMA NewSessionTyped ==
  ASSUME NEW kind \in Kinds, NEW want \in Wants(kind), NEW deadline \in 0..MaxTime
  PROVE  NewSession(kind, want, deadline) \in SessionType
  BY DEF NewSession, SessionType, AnySession, Blank, Message, Wants, Kinds, PoolPermits,
         Delegations, Unlimited, Never, MinusOne

\* No session has the type of a session.
LEMMA NoSessionTyped == NoSession \in SessionType
<1>1. "stake" \in Kinds /\ 1 \in Wants("stake") /\ 0 \in 0..MaxTime
  BY DEF Wants, Kinds, PoolPermits, Delegations
<1> QED
  BY <1>1, NewSessionTyped DEF NoSession

\* A permit is for an amount, a delegation to an address or a name.
LEMMA WantsSplit ==
  ASSUME NEW k \in SessionType
  PROVE  /\ k.kind \notin Delegations => Converted(k.want) \in 0..Unlimited
         /\ k.kind \in Delegations => k.want \in Names \cup Addresses
  BY DEF SessionType, AnySession, Wants, Kinds, PoolPermits, Delegations, Converted,
         Unlimited, MinusOne

\* What a session is made of keeps its type.
LEMMA Updated ==
  ASSUME NEW k \in SessionType, NEW m \in Message
  PROVE  /\ [k EXCEPT !.signed = m] \in SessionType
         /\ [k EXCEPT !.sent = m] \in SessionType
  BY DEF SessionType, AnySession

\* It keeps it with or without the mark of an allowance that was raised.
LEMMA UpdatedMark ==
  ASSUME NEW k \in SessionType
  PROVE  /\ [k EXCEPT !.raised = TRUE] \in SessionType
         /\ [k EXCEPT !.raised = FALSE] \in SessionType
  BY DEF SessionType, AnySession

\* A delegatee that resolves does so to an address.
LEMMA ResolvedTyped ==
  ASSUME TypeOK, NEW k \in SessionType, k.kind \in Delegations, Resolved(k.want) # NoAddress
  PROVE  Resolved(k.want) \in Addresses
  BY WantsSplit DEF TypeOK, Resolved

\* Go keeps the types if the session it is given has its type.
LEMMA GoTyped ==
  ASSUME TypeOK, NEW s \in Sessions, NEW label \in PCs, NEW k \in SessionType, Go(s, label, k),
         label \in {"name", "renonce", "rename"} => k.kind \in Delegations
  PROVE  TypeOK'
<1>1. pc' \in [Sessions -> PCs] /\ session' \in [Sessions -> SessionType]
  BY DEF TypeOK, Go
<1>2. ASSUME NEW t \in Sessions, pc'[t] \in {"name", "renonce", "rename"}
      PROVE  session'[t].kind \in Delegations
  <2>1. CASE t = s
    BY <1>2, <2>1 DEF TypeOK, Go
  <2>2. CASE t # s
    BY <1>2, <2>2 DEF TypeOK, Go
  <2> QED
    BY <2>1, <2>2
<1> QED
  BY <1>1, <1>2 DEF TypeOK, Go

\* The sessions see an allowance that changes in their mark alone.
LEMMA RaisedTyped ==
  ASSUME TypeOK, NEW v \in 0..Unlimited
  PROVE  /\ Raised(v) \in [Sessions -> SessionType]
         /\ \A t \in Sessions :
                /\ Raised(v)[t].kind = session[t].kind
                /\ Raised(v)[t].want = session[t].want
                /\ Raised(v)[t].deadline = session[t].deadline
                /\ Raised(v)[t].signed = session[t].signed
                /\ Raised(v)[t].sent = session[t].sent
                /\ session[t].raised \/ v > allowance => Raised(v)[t].raised
<1>1. \A t \in Sessions : session[t] \in SessionType /\ session[t] \in AnySession
  BY DEF TypeOK, SessionType
<1>2. ASSUME NEW t \in Sessions PROVE [session[t] EXCEPT !.raised = TRUE] \in SessionType
  BY <1>1, UpdatedMark
<1>3. Raised(v) \in [Sessions -> SessionType]
  BY <1>1, <1>2 DEF Raised
<1>4. ASSUME NEW t \in Sessions
      PROVE  /\ Raised(v)[t].kind = session[t].kind
             /\ Raised(v)[t].want = session[t].want
             /\ Raised(v)[t].deadline = session[t].deadline
             /\ Raised(v)[t].signed = session[t].signed
             /\ Raised(v)[t].sent = session[t].sent
             /\ session[t].raised \/ v > allowance => Raised(v)[t].raised
  BY <1>1, Zenon DEF Raised, AnySession
<1> QED
  BY <1>3, <1>4

\* At the start there is no session.
LEMMA InitTyped == Init => TypeOK
  BY NoSessionTyped DEF Init, TypeOK, PCs, Unlimited

\* Every step keeps the types.
LEMMA StepTyped == TypeOK /\ [Next]_vars => TypeOK'
<1> SUFFICES ASSUME TypeOK, [Next]_vars PROVE TypeOK'
  OBVIOUS
<1>0. \A s \in Sessions : /\ session[s] \in SessionType
                          /\ session[s].signed \in Message /\ session[s].sent \in Message
                          /\ session[s].deadline \in 0..Never
                          /\ session[s].kind \in Kinds
  BY DEF TypeOK, SessionType, AnySession, Never
<1>n. nonce \in Nat /\ Never \in 0..Never
  BY DEF TypeOK, Never
<1>1. ASSUME NEW s \in Sessions, NEW kind \in Kinds, NEW deadline \in 0..MaxTime,
             NEW want \in Wants(kind), Begin(s, kind, want, deadline)
      PROVE  TypeOK'
  BY <1>1, NewSessionTyped, GoTyped DEF Begin, PCs
<1>2. ASSUME NEW s \in Sessions, CheckAllowance(s) PROVE TypeOK'
  <2> DEFINE k == [session[s] EXCEPT !.raised = FALSE]
  <2>1. k \in SessionType
    BY <1>0, UpdatedMark
  <2>4. CheckAllowance(s) => Go(s, "empty", NoSession) \/ Go(s, "nonce", k)
    BY DEF CheckAllowance
  <2> HIDE DEF k
  <2>2. CASE Go(s, "empty", NoSession)
    BY <2>2, NoSessionTyped, GoTyped DEF PCs
  <2>3. CASE Go(s, "nonce", k)
    BY <2>1, <2>3, GoTyped DEF PCs
  <2> QED
    BY <1>2, <2>2, <2>3, <2>4
<1>3. ASSUME NEW s \in Sessions, ReadNonce(s) PROVE TypeOK'
  <2> DEFINE k == session[s]
             permit == [what |-> Converted(k.want), nonce |-> nonce,
                        deadline |-> IF k.kind = "stake" THEN Never ELSE k.deadline]
  <2>1. CASE k.kind \in Delegations
    <3> DEFINE m == [k.signed EXCEPT !.nonce = nonce]
               kk == [k EXCEPT !.signed = m]
    <3>1. m \in Message
      BY <1>0, <1>n DEF Message
    <3>2. kk \in SessionType /\ kk.kind = k.kind
      BY <1>0, <3>1, Updated DEF SessionType, AnySession
    <3>3. Go(s, "name", kk)
      BY <1>3, <2>1 DEF ReadNonce
    <3> HIDE DEF kk
    <3> QED
      BY <2>1, <3>2, <3>3, GoTyped DEF PCs
  <2>2. CASE k.kind \notin Delegations
    <3>1. permit \in Message
      BY <1>0, <1>n, <2>2, WantsSplit DEF Message
    <3>2. [k EXCEPT !.signed = permit] \in SessionType
      BY <1>0, <3>1, Updated
    <3> QED
      BY <1>3, <2>2, <3>2, GoTyped DEF ReadNonce, PCs
  <2> QED
    BY <2>1, <2>2
<1>4. ASSUME NEW s \in Sessions, NoNonce(s) \/ RpcFails(s) PROVE TypeOK'
  BY <1>4, NoSessionTyped, GoTyped DEF NoNonce, RpcFails, PCs
<1>5. ASSUME NEW s \in Sessions, ResolveToSign(s) PROVE TypeOK'
  <2> DEFINE k == session[s]
             m == [k.signed EXCEPT !.what = Resolved(k.want), !.deadline = k.deadline]
  <2>1. k.kind \in Delegations
    BY <1>5 DEF ResolveToSign, TypeOK
  <2>2. CASE Resolved(k.want) = NoAddress
    BY <1>5, <2>2, NoSessionTyped, GoTyped DEF ResolveToSign, PCs
  <2>3. CASE Resolved(k.want) # NoAddress
    <3>1. m \in Message
      BY <1>0, <2>1, <2>3, ResolvedTyped DEF Message
    <3>2. [k EXCEPT !.signed = m] \in SessionType
      BY <1>0, <3>1, Updated
    <3>3. [k EXCEPT !.signed.what = Resolved(k.want), !.signed.deadline = k.deadline]
            = [k EXCEPT !.signed = m]
      BY <1>0 DEF SessionType, AnySession, Message
    <3> QED
      BY <1>5, <2>3, <3>2, <3>3, GoTyped DEF ResolveToSign, PCs
  <2> QED
    BY <2>2, <2>3
<1>6. ASSUME NEW s \in Sessions, Submit(s) PROVE TypeOK'
  <2> DEFINE k == session[s]
             permit == [what |-> Converted(k.want), nonce |-> k.signed.nonce,
                        deadline |-> IF k.kind = "stake" THEN Never ELSE k.deadline]
  <2>1. CASE k.kind \in Delegations
    BY <1>0, <1>6, <2>1, GoTyped DEF Submit, PCs
  <2>2. CASE k.kind \notin Delegations
    <3>1. permit \in Message
      BY <1>0, <1>n, <2>2, WantsSplit DEF Message
    <3>2. [k EXCEPT !.sent = permit] \in SessionType
      BY <1>0, <3>1, Updated
    <3> QED
      BY <1>6, <2>2, <3>2, NoSessionTyped, GoTyped DEF Submit, PCs
  <2> QED
    BY <2>1, <2>2
<1>7. ASSUME NEW s \in Sessions, ReadNonceAgain(s) PROVE TypeOK'
  <2> DEFINE k == session[s]
  <2>1. k.kind \in Delegations
    BY <1>7 DEF ReadNonceAgain, TypeOK
  <2>2. [k.sent EXCEPT !.nonce = nonce] \in Message
    BY <1>0, <1>n DEF Message
  <2>3. /\ [k EXCEPT !.sent.nonce = nonce] \in SessionType
        /\ [k EXCEPT !.sent.nonce = nonce].kind = k.kind
    BY <1>0, <2>2, Updated DEF SessionType, AnySession
  <2> QED
    BY <1>7, <2>1, <2>3, GoTyped DEF ReadNonceAgain, PCs
<1>8. ASSUME NEW s \in Sessions, ResolveToSend(s) PROVE TypeOK'
  <2> DEFINE k == session[s]
             m == [k.sent EXCEPT !.what = Resolved(k.want), !.deadline = k.deadline]
  <2>1. k.kind \in Delegations
    BY <1>8 DEF ResolveToSend, TypeOK
  <2>2. CASE Resolved(k.want) = NoAddress
    BY <1>8, <2>2, NoSessionTyped, GoTyped DEF ResolveToSend, PCs
  <2>3. CASE Resolved(k.want) # NoAddress
    <3>1. m \in Message
      BY <1>0, <2>1, <2>3, ResolvedTyped DEF Message
    <3>2. [k EXCEPT !.sent = m] \in SessionType
      BY <1>0, <3>1, Updated
    <3>3. [k EXCEPT !.sent.what = Resolved(k.want), !.sent.deadline = k.deadline]
            = [k EXCEPT !.sent = m]
      BY <1>0 DEF SessionType, AnySession, Message
    <3> QED
      BY <1>8, <2>3, <3>2, <3>3, GoTyped DEF ResolveToSend, PCs
  <2> QED
    BY <2>2, <2>3
<1>9. ASSUME NEW s \in Sessions, Send(s) \/ MineRejected(s) \/ Forget(s) PROVE TypeOK'
  BY <1>0, <1>9, NoSessionTyped, GoTyped DEF Send, MineRejected, Forget, PCs
<1>10. ASSUME NEW s \in Sessions, MineAccepted(s) PROVE TypeOK'
  <2> DEFINE k == session[s]
             left == IF k.kind \notin PoolPermits THEN allowance
                     ELSE IF k.sent.what = Unlimited THEN Unlimited ELSE 0
  <2>1. left \in 0..Unlimited
    BY DEF TypeOK, Unlimited
  <2>2. session' = [Raised(left) EXCEPT ![s] = NoSession] /\ allowance' = left
    BY <1>10 DEF MineAccepted
  <2>3. session' \in [Sessions -> SessionType]
    BY <2>1, <2>2, RaisedTyped, NoSessionTyped
  <2>4. pc' = [pc EXCEPT ![s] = "done"] /\ nonce' = nonce + 1 /\ UNCHANGED <<ens, now, moves>>
    BY <1>10 DEF MineAccepted
  <2>5. ASSUME NEW t \in Sessions, pc'[t] \in {"name", "renonce", "rename"}
        PROVE  session'[t].kind \in Delegations
    <3>1. t # s /\ pc[t] = pc'[t]
      BY <2>4, <2>5 DEF TypeOK
    <3>2. session'[t] = Raised(left)[t]
      BY <2>1, <2>2, <3>1, RaisedTyped
    <3> QED
      BY <2>1, <2>5, <3>1, <3>2, RaisedTyped DEF TypeOK
  <2>6. pc' \in [Sessions -> PCs]
    BY <2>4 DEF TypeOK, PCs
  <2> QED
    BY <2>1, <2>2, <2>3, <2>4, <2>5, <2>6 DEF TypeOK
<1>11. ASSUME NEW v \in 0..Unlimited, Approve(v) PROVE TypeOK'
  <2>1. session' = Raised(v) /\ allowance' = v /\ UNCHANGED <<pc, nonce, ens, now>>
    BY <1>11 DEF Approve
  <2>2. moves' \in 0..MaxMoves
    BY <1>11 DEF Approve, Move, TypeOK
  <2>3. ASSUME NEW t \in Sessions, pc'[t] \in {"name", "renonce", "rename"}
        PROVE  session'[t].kind \in Delegations
    BY <2>1, <2>3, RaisedTyped DEF TypeOK
  <2> QED
    BY <2>1, <2>2, <2>3, RaisedTyped DEF TypeOK
<1>12. ASSUME UseNonce PROVE TypeOK'
  BY <1>12 DEF UseNonce, Move, TypeOK
<1>13. ASSUME NEW n \in Names, NEW to \in Addresses \cup {NoAddress}, Repoint(n, to) PROVE TypeOK'
  BY <1>13 DEF Repoint, Move, TypeOK
<1>14. ASSUME Tick PROVE TypeOK'
  BY <1>14 DEF Tick, TypeOK
<1>15. ASSUME UNCHANGED vars PROVE TypeOK'
  BY <1>15 DEF vars, TypeOK
<1> QED
  BY <1>1, <1>2, <1>3, <1>4, <1>5, <1>6, <1>7, <1>8, <1>9, <1>10, <1>11, <1>12, <1>13, <1>14,
     <1>15 DEF Next

\* The types hold in every state, whatever callers, users and names do.
THEOREM SignaturesTyped == Spec => []TypeOK
<1>1. Init => TypeOK
  BY InitTyped
<1>2. TypeOK /\ [Next]_vars => TypeOK'
  BY StepTyped
<1> QED
  BY <1>1, <1>2, PTL DEF Spec

-----------------------------------------------------------------------------
\* A step that leaves nonce and allowance, and what t is, leaves what holds of t.
LEMMA Untouched ==
  ASSUME NEW t \in Sessions, Holds(t), TypeOK,
         pc'[t] = pc[t], session'[t] = session[t],
         UNCHANGED <<nonce, allowance>>, now' \in Int, now' >= now
  PROVE  Holds(t)'
<1>1. Composed(t)' /\ Needed(t)'
  BY DEF Holds, Composed, Needed
<1>2. session[t].signed.deadline \in Int /\ now \in Int
  BY DEF TypeOK, SessionType, AnySession, Message, Never
<1>3. Explained(t)'
  BY <1>2 DEF Holds, Explained
<1> QED
  BY <1>1, <1>3 DEF Holds

\* Go moves s alone, so what holds of the others is kept.
LEMMA GoOthers ==
  ASSUME TypeOK, IInv, NEW s \in Sessions, NEW label, NEW k, Go(s, label, k),
         NEW t \in Sessions, t # s
  PROVE  Holds(t)'
<1>1. pc'[t] = pc[t] /\ session'[t] = session[t] /\ UNCHANGED <<nonce, allowance, now>>
  BY DEF Go, TypeOK
<1>2. now' \in Int /\ now' >= now
  BY <1>1 DEF TypeOK
<1> QED
  BY <1>1, <1>2, Untouched DEF IInv

\* What is claimed of s after Go, when nothing else changes.
LEMMA GoSelf ==
  ASSUME TypeOK, NEW s \in Sessions, NEW label, NEW k, Go(s, label, k)
  PROVE  /\ pc'[s] = label /\ session'[s] = k
         /\ nonce' = nonce /\ allowance' = allowance /\ now' = now
  BY DEF Go, TypeOK

\* Nothing is claimed of a session at these labels but the types.
LEMMA Nothing ==
  ASSUME NEW s \in Sessions, pc'[s] \in {"idle", "approved", "done", "empty", "threw"}
  PROVE  Holds(s)'
  BY DEF Holds, Composed, Needed, Explained

\* With no session under way there is nothing to hold.
LEMMA InitHolds == Init => IInv
  BY DEF Init, IInv, Holds, Composed, Needed, Explained

\* A step in which s goes on by Go keeps what holds of all, if it does of s.
LEMMA GoHolds ==
  ASSUME TypeOK, IInv, NEW s \in Sessions, NEW label, NEW k, Go(s, label, k), Holds(s)'
  PROVE  IInv'
  BY GoOthers DEF IInv

\* Each action keeps the invariant.
LEMMA BeginHolds ==
  ASSUME TypeOK, IInv, NEW s \in Sessions, NEW kind \in Kinds, NEW deadline \in 0..MaxTime,
         NEW want \in Wants(kind), Begin(s, kind, want, deadline)
  PROVE  IInv'
<1> DEFINE label == IF kind \in PoolPermits THEN "approved" ELSE "nonce"
           k == NewSession(kind, want, deadline)
<1>1. Go(s, label, k) /\ k.kind = kind
  BY DEF Begin, NewSession
<1> HIDE DEF label, k
<1>2. pc'[s] = label /\ session'[s] = k
  BY <1>1, GoSelf
<1>3. Holds(s)'
  <2>1. CASE kind \in PoolPermits
    BY <1>2, <2>1, Nothing DEF label
  <2>2. CASE kind \notin PoolPermits
    BY <1>1, <1>2, <2>2 DEF label, Holds, Composed, Needed, Explained
  <2> QED
    BY <2>1, <2>2
<1> QED
  BY <1>1, <1>3, GoHolds

\* Whoever goes on to the nonce has seen that the allowance is too small.
LEMMA CheckAllowanceHolds ==
  ASSUME TypeOK, IInv, NEW s \in Sessions, CheckAllowance(s)
  PROVE  IInv'
<1> DEFINE k == [session[s] EXCEPT !.raised = FALSE]
<1>0. /\ session[s] \in SessionType /\ allowance \in Int
      /\ k.kind = session[s].kind /\ k.want = session[s].want
  BY DEF TypeOK, SessionType, AnySession
<1>1. CASE allowance >= Converted(session[s].want)
  <2>1. Go(s, "empty", NoSession)
    BY <1>1 DEF CheckAllowance
  <2> QED
    BY <2>1, GoSelf, Nothing, GoHolds
<1>2. CASE ~(allowance >= Converted(session[s].want))
  <2>1. Go(s, "nonce", k)
    BY <1>2 DEF CheckAllowance
  <2>2. pc'[s] = "nonce" /\ session'[s] = k /\ allowance' = allowance
    BY <2>1, GoSelf
  <2>3. k.kind \in PoolPermits => allowance < Converted(k.want)
    <3>1. k.kind \in PoolPermits => Converted(k.want) \in Int
      BY <1>0, WantsSplit DEF PoolPermits, Delegations, Unlimited
    <3> QED
      BY <1>0, <1>2, <3>1
  <2>4. Holds(s)'
    BY <2>2, <2>3 DEF Holds, Composed, Needed, Explained
  <2> QED
    BY <2>1, <2>4, GoHolds
<1> QED
  BY <1>1, <1>2

\* What is signed has the nonce that is current, and the amount that was asked for.
LEMMA ReadNonceHolds ==
  ASSUME TypeOK, IInv, NEW s \in Sessions, ReadNonce(s)
  PROVE  IInv'
<1> DEFINE k == session[s]
           permit == [what |-> Converted(k.want), nonce |-> nonce,
                      deadline |-> IF k.kind = "stake" THEN Never ELSE k.deadline]
<1>0. k \in AnySession /\ nonce \in Nat /\ pc[s] = "nonce" /\ Needed(s)
  BY DEF TypeOK, SessionType, ReadNonce, IInv, Holds
<1>1. CASE k.kind \in Delegations
  <2> DEFINE kk == [k EXCEPT !.signed.nonce = nonce]
  <2>1. Go(s, "name", kk)
    BY <1>1 DEF ReadNonce
  <2>2. kk.signed.nonce = nonce /\ kk.kind = k.kind
    BY <1>0 DEF AnySession, Message
  <2>3. pc'[s] = "name" /\ session'[s] = kk /\ nonce' = nonce
    BY <2>1, GoSelf
  <2> HIDE DEF kk
  <2>4. Holds(s)'
    BY <1>0, <1>1, <2>2, <2>3 DEF Holds, Composed, Needed, Explained
  <2> QED
    BY <2>1, <2>4, GoHolds
<1>2. CASE k.kind \notin Delegations
  <2> DEFINE kk == [k EXCEPT !.signed = permit]
  <2>1. Go(s, "prepared", kk)
    BY <1>2 DEF ReadNonce
  <2>2. /\ kk.signed = permit /\ kk.kind = k.kind /\ kk.want = k.want
        /\ kk.deadline = k.deadline /\ kk.raised = k.raised
    BY <1>0 DEF AnySession
  <2>3. pc'[s] = "prepared" /\ session'[s] = kk /\ nonce' = nonce /\ allowance' = allowance
    BY <2>1, GoSelf
  <2> HIDE DEF kk
  <2>4. Holds(s)'
    BY <1>0, <1>2, <2>2, <2>3 DEF Holds, Composed, Needed, Explained
  <2> QED
    BY <2>1, <2>4, GoHolds
<1> QED
  BY <1>1, <1>2

\* A session that ends holds nothing.
LEMMA DropHolds ==
  ASSUME TypeOK, IInv, NEW s \in Sessions, NEW k,
         NEW label \in {"idle", "approved", "done", "empty", "threw"}, Go(s, label, k)
  PROVE  IInv'
  BY GoSelf, Nothing, GoHolds

\* A delegation is signed for the address its name stands for.
LEMMA ResolveToSignHolds ==
  ASSUME TypeOK, IInv, NEW s \in Sessions, ResolveToSign(s)
  PROVE  IInv'
<1> DEFINE k == session[s]
           to == Resolved(k.want)
           kk == [k EXCEPT !.signed.what = to, !.signed.deadline = k.deadline]
<1>0. k \in AnySession /\ pc[s] = "name" /\ Composed(s) /\ k.kind \in Delegations
  BY DEF TypeOK, SessionType, ResolveToSign, IInv, Holds
<1>1. CASE to = NoAddress
  BY <1>1, DropHolds DEF ResolveToSign
<1>2. CASE to # NoAddress
  <2>1. Go(s, "prepared", kk)
    BY <1>2 DEF ResolveToSign
  <2>2. kk.kind = k.kind /\ kk.signed.nonce = k.signed.nonce /\ kk.signed.deadline = kk.deadline
    BY <1>0 DEF AnySession, Message
  <2>3. pc'[s] = "prepared" /\ session'[s] = kk /\ nonce' = nonce /\ allowance' = allowance
    BY <2>1, GoSelf
  <2> HIDE DEF kk
  <2>4. k.kind # "stake" /\ k.kind \notin PoolPermits
    BY <1>0 DEF Delegations, PoolPermits
  <2>5. Holds(s)'
    BY <1>0, <2>2, <2>3, <2>4 DEF Holds, Composed, Needed, Explained
  <2> QED
    BY <2>1, <2>5, GoHolds
<1> QED
  BY <1>1, <1>2

\* What is submitted is what was signed, or the delegation is composed anew.
LEMMA SubmitHolds ==
  ASSUME TypeOK, IInv, NEW s \in Sessions, Submit(s)
  PROVE  IInv'
<1> DEFINE k == session[s]
           permit == [what |-> Converted(k.want), nonce |-> k.signed.nonce,
                      deadline |-> IF k.kind = "stake" THEN Never ELSE k.deadline]
           kk == [k EXCEPT !.sent = permit]
<1>0. /\ k \in AnySession /\ pc[s] = "prepared" /\ Composed(s) /\ Needed(s)
      /\ nonce \in Nat /\ k.signed.nonce \in Nat
  BY DEF TypeOK, SessionType, AnySession, Message, Submit, IInv, Holds
<1>1. CASE k.kind \in Delegations /\ Go(s, "renonce", k)
  <2>1. pc'[s] = "renonce" /\ session'[s] = k /\ nonce' = nonce /\ allowance' = allowance
    BY <1>1, GoSelf
  <2>2. k.kind \notin PoolPermits
    BY <1>1 DEF Delegations, PoolPermits
  <2>3. Holds(s)'
    BY <1>0, <1>1, <2>1, <2>2 DEF Holds, Composed, Needed, Explained
  <2> QED
    BY <1>1, <2>3, GoHolds
<1>2. CASE Go(s, "threw", NoSession)
  BY <1>2, DropHolds
<1>3. CASE k.kind \notin Delegations /\ Go(s, "built", kk)
  <2>1. /\ kk.kind = k.kind /\ kk.want = k.want /\ kk.deadline = k.deadline
        /\ kk.raised = k.raised /\ kk.signed = k.signed /\ kk.sent = permit
    BY <1>0 DEF AnySession
  <2>2. pc'[s] = "built" /\ session'[s] = kk /\ nonce' = nonce /\ allowance' = allowance
    BY <1>3, GoSelf
  <2> HIDE DEF kk
  <2>3. Composed(s)'
    BY <1>0, <1>3, <2>1, <2>2 DEF Composed
  <2>4. Needed(s)' /\ Explained(s)'
    BY <1>0, <2>1, <2>2 DEF Needed, Explained
  <2> QED
    BY <1>3, <2>3, <2>4, GoHolds DEF Holds
<1> QED
  BY <1>1, <1>2, <1>3 DEF Submit

\* The nonce that is read again is no earlier than the one that was signed.
LEMMA ReadNonceAgainHolds ==
  ASSUME TypeOK, IInv, NEW s \in Sessions, ReadNonceAgain(s)
  PROVE  IInv'
<1> DEFINE k == session[s]
           kk == [k EXCEPT !.sent.nonce = nonce]
<1>0. /\ k \in AnySession /\ pc[s] = "renonce" /\ Composed(s) /\ k.kind \in Delegations
      /\ nonce \in Nat
  BY DEF TypeOK, SessionType, ReadNonceAgain, IInv, Holds
<1>1. Go(s, "rename", kk)
  BY DEF ReadNonceAgain
<1>2. kk.kind = k.kind /\ kk.signed = k.signed /\ kk.sent.nonce = nonce /\ kk.deadline = k.deadline
  BY <1>0 DEF AnySession, Message
<1>3. pc'[s] = "rename" /\ session'[s] = kk /\ nonce' = nonce /\ allowance' = allowance
  BY <1>1, GoSelf
<1> HIDE DEF kk
<1>4. k.kind \notin PoolPermits
  BY <1>0 DEF Delegations, PoolPermits
<1>5. Holds(s)'
  BY <1>0, <1>2, <1>3, <1>4 DEF Holds, Composed, Needed, Explained
<1> QED
  BY <1>1, <1>5, GoHolds

\* So it is sent with the address its name stands for by then.
LEMMA ResolveToSendHolds ==
  ASSUME TypeOK, IInv, NEW s \in Sessions, ResolveToSend(s)
  PROVE  IInv'
<1> DEFINE k == session[s]
           to == Resolved(k.want)
           kk == [k EXCEPT !.sent.what = to, !.sent.deadline = k.deadline]
<1>0. k \in AnySession /\ pc[s] = "rename" /\ Composed(s) /\ k.kind \in Delegations
  BY DEF TypeOK, SessionType, ResolveToSend, IInv, Holds
<1>1. CASE to = NoAddress
  BY <1>1, DropHolds DEF ResolveToSend
<1>2. CASE to # NoAddress
  <2>1. Go(s, "built", kk)
    BY <1>2 DEF ResolveToSend
  <2>2. /\ kk.kind = k.kind /\ kk.signed = k.signed /\ kk.deadline = k.deadline
        /\ kk.sent.nonce = k.sent.nonce /\ kk.sent.deadline = k.deadline
    BY <1>0 DEF AnySession, Message
  <2>3. pc'[s] = "built" /\ session'[s] = kk /\ nonce' = nonce /\ allowance' = allowance
    BY <2>1, GoSelf
  <2> HIDE DEF kk
  <2>4. k.kind # "stake" /\ k.kind \notin PoolPermits
    BY <1>0 DEF Delegations, PoolPermits
  <2>5. Holds(s)'
    BY <1>0, <2>2, <2>3, <2>4 DEF Holds, Composed, Needed, Explained
  <2> QED
    BY <2>1, <2>5, GoHolds
<1> QED
  BY <1>1, <1>2

\* A transaction that is rejected differs from what was signed, or comes late.
LEMMA RejectHolds ==
  ASSUME TypeOK, IInv, NEW s \in Sessions, pc[s] \in {"built", "sent"},
         ~Accepts(session[s]), Go(s, "rejected", session[s])
  PROVE  IInv'
<1> DEFINE k == session[s]
<1>0. /\ k \in AnySession /\ Composed(s) /\ Needed(s) /\ nonce \in Nat /\ now \in Int
      /\ k.signed \in Message /\ k.sent \in Message
  BY DEF TypeOK, SessionType, AnySession, IInv, Holds
<1>1. k.signed.nonce \in Nat /\ k.sent.nonce \in Nat /\ k.sent.deadline \in Int
  BY <1>0 DEF Message, Never
<1>2. /\ pc'[s] = "rejected" /\ session'[s] = k /\ nonce' = nonce /\ allowance' = allowance
      /\ now' = now
  BY GoSelf
<1>3. \/ nonce > k.signed.nonce \/ now > k.signed.deadline
      \/ k.kind \in Delegations /\ k.signed.what # k.sent.what
  <2> SUFFICES ASSUME ~(nonce > k.signed.nonce), ~(now > k.signed.deadline),
                      ~(k.kind \in Delegations /\ k.signed.what # k.sent.what)
               PROVE  FALSE
    OBVIOUS
  <2>1. k.signed.nonce = nonce /\ k.sent.nonce = k.signed.nonce
    BY <1>0, <1>1 DEF Composed
  <2>2. k.sent.deadline = k.signed.deadline /\ k.sent.what = k.signed.what
    BY <1>0 DEF Composed
  <2>3. k.sent = k.signed
    BY <1>0, <2>1, <2>2 DEF Message
  <2> QED
    BY <1>0, <1>1, <2>1, <2>2, <2>3 DEF Accepts
<1>4. Composed(s)'
  BY <1>0, <1>2 DEF Composed
<1>5. Needed(s)' /\ Explained(s)'
  BY <1>2, <1>3 DEF Needed, Explained
<1> QED
  BY <1>4, <1>5, GoHolds DEF Holds

\* tx() changes nothing of a session, and a rejection has its reason.
LEMMA SendHolds ==
  ASSUME TypeOK, IInv, NEW s \in Sessions, Send(s)
  PROVE  IInv'
<1>1. CASE Accepts(session[s])
  <2>1. Go(s, "sent", session[s]) /\ pc[s] = "built"
    BY <1>1 DEF Send
  <2>2. pc'[s] = "sent" /\ session'[s] = session[s] /\ nonce' = nonce /\ allowance' = allowance
    BY <2>1, GoSelf
  <2>3. Holds(s)'
    BY <2>1, <2>2 DEF IInv, Holds, Composed, Needed, Explained
  <2> QED
    BY <2>1, <2>3, GoHolds
<1>2. CASE ~Accepts(session[s])
  BY <1>2, RejectHolds DEF Send
<1> QED
  BY <1>1, <1>2

\* The allowance becomes v: what was below the need of a permit still is, or it
\* was raised.
LEMMA RaisedNeeded ==
  ASSUME TypeOK, NEW v \in 0..Unlimited, NEW t \in Sessions, Needed(t),
         session'[t] = Raised(v)[t], pc'[t] = pc[t], allowance' = v
  PROVE  Needed(t)'
<1>1. /\ session'[t].kind = session[t].kind /\ session'[t].want = session[t].want
      /\ session'[t].sent = session[t].sent
      /\ session[t].raised \/ v > allowance => session'[t].raised
  BY RaisedTyped
<1>2. session[t] \in SessionType /\ allowance \in Int /\ v \in Int
  BY DEF TypeOK, Unlimited
<1>3. session[t].kind \in PoolPermits => Converted(session[t].want) \in Int
  BY <1>2, WantsSplit DEF PoolPermits, Delegations, Unlimited
<1> QED
  BY <1>1, <1>2, <1>3 DEF Needed

\* A signature that is accepted moves the nonce past those that are waiting.
LEMMA MineAcceptedHolds ==
  ASSUME TypeOK, IInv, NEW s \in Sessions, MineAccepted(s)
  PROVE  IInv'
<1> DEFINE left == IF session[s].kind \notin PoolPermits THEN allowance
                   ELSE IF session[s].sent.what = Unlimited THEN Unlimited ELSE 0
<1>1. /\ pc' = [pc EXCEPT ![s] = "done"] /\ nonce' = nonce + 1 /\ allowance' = left
      /\ session' = [Raised(left) EXCEPT ![s] = NoSession] /\ now' = now
  BY DEF MineAccepted
<1>2. left \in 0..Unlimited /\ nonce \in Nat
  BY DEF TypeOK, Unlimited
<1> HIDE DEF left
<1>3. ASSUME NEW t \in Sessions, t # s PROVE Holds(t)'
  <2>1. pc'[t] = pc[t] /\ session'[t] = Raised(left)[t]
    BY <1>1, <1>2, <1>3, RaisedTyped DEF TypeOK
  <2>2. /\ session'[t].kind = session[t].kind /\ session'[t].want = session[t].want
        /\ session'[t].deadline = session[t].deadline
        /\ session'[t].signed = session[t].signed /\ session'[t].sent = session[t].sent
    BY <1>2, <2>1, RaisedTyped
  <2>3. session[t].signed.nonce \in Nat /\ session[t].sent.nonce \in Nat
    BY DEF TypeOK, SessionType, AnySession, Message
  <2>4. Composed(t)'
    BY <1>1, <1>2, <2>1, <2>2, <2>3 DEF IInv, Holds, Composed
  <2>5. Needed(t)'
    BY <1>1, <1>2, <2>1, RaisedNeeded DEF IInv, Holds
  <2>6. Explained(t)'
    BY <1>1, <1>2, <2>1, <2>2, <2>3 DEF IInv, Holds, Explained
  <2> QED
    BY <2>4, <2>5, <2>6 DEF Holds
<1>4. Holds(s)'
  BY <1>1, Nothing DEF TypeOK
<1> QED
  BY <1>3, <1>4 DEF IInv

\* An allowance that is raised elsewhere is noted, and one that was too small
\* stays too small when it is lowered.
LEMMA ApproveHolds ==
  ASSUME TypeOK, IInv, NEW v \in 0..Unlimited, Approve(v)
  PROVE  IInv'
<1>1. session' = Raised(v) /\ allowance' = v /\ UNCHANGED <<pc, nonce, ens, now>>
  BY DEF Approve
<1>2. ASSUME NEW t \in Sessions PROVE Holds(t)'
  <2>1. /\ session'[t].kind = session[t].kind /\ session'[t].want = session[t].want
        /\ session'[t].deadline = session[t].deadline
        /\ session'[t].signed = session[t].signed /\ session'[t].sent = session[t].sent
    BY <1>1, RaisedTyped
  <2>2. Composed(t)' /\ Explained(t)'
    BY <1>1, <2>1 DEF IInv, Holds, Composed, Explained
  <2>3. Needed(t)'
    BY <1>1, RaisedNeeded DEF IInv, Holds
  <2> QED
    BY <2>2, <2>3 DEF Holds
<1> QED
  BY <1>2 DEF IInv

\* A signature used elsewhere only makes the nonce later.
LEMMA UseNonceHolds ==
  ASSUME TypeOK, IInv, UseNonce
  PROVE  IInv'
<1>1. nonce' = nonce + 1 /\ nonce \in Nat /\ UNCHANGED <<pc, session, allowance, ens, now>>
  BY DEF UseNonce, TypeOK
<1>2. ASSUME NEW t \in Sessions PROVE Holds(t)'
  <2>1. session[t].signed.nonce \in Nat /\ session[t].sent.nonce \in Nat
    BY DEF TypeOK, SessionType, AnySession, Message
  <2> QED
    BY <1>1, <2>1 DEF IInv, Holds, Composed, Needed, Explained
<1> QED
  BY <1>2 DEF IInv

\* Names that move, time, and steps of others leave what holds.
LEMMA RestHolds ==
  ASSUME TypeOK, IInv, UNCHANGED <<pc, session, nonce, allowance>>, now' \in Int, now' >= now
  PROVE  IInv'
  BY Untouched DEF IInv

\* Every step keeps the invariant.
LEMMA StepHolds == TypeOK /\ IInv /\ [Next]_vars => IInv'
<1> SUFFICES ASSUME TypeOK, IInv, [Next]_vars PROVE IInv'
  OBVIOUS
<1>0. now \in Int
  BY DEF TypeOK
<1>1. ASSUME NEW s \in Sessions, NEW kind \in Kinds, NEW deadline \in 0..MaxTime,
             NEW want \in Wants(kind), Begin(s, kind, want, deadline)
      PROVE  IInv'
  BY <1>1, BeginHolds
<1>2. ASSUME NEW s \in Sessions, NoNonce(s) \/ RpcFails(s) \/ Forget(s) PROVE IInv'
  BY <1>2, DropHolds DEF NoNonce, RpcFails, Forget
<1>3. ASSUME NEW s \in Sessions, MineRejected(s) PROVE IInv'
  BY <1>3, RejectHolds DEF MineRejected
<1>4. ASSUME NEW n \in Names, NEW to \in Addresses \cup {NoAddress}, Repoint(n, to) PROVE IInv'
  BY <1>0, <1>4, RestHolds DEF Repoint
<1>5. ASSUME Tick PROVE IInv'
  BY <1>0, <1>5, RestHolds DEF Tick
<1>6. ASSUME UNCHANGED vars PROVE IInv'
  BY <1>0, <1>6, RestHolds DEF vars
<1> QED
  BY <1>1, <1>2, <1>3, <1>4, <1>5, <1>6, CheckAllowanceHolds, ReadNonceHolds,
     ResolveToSignHolds, SubmitHolds, ReadNonceAgainHolds, ResolveToSendHolds, SendHolds,
     MineAcceptedHolds, ApproveHolds, UseNonceHolds DEF Next

\* A session is what SignatureInv says it is, and a rejection is explained.
LEMMA AlwaysHolds == Spec => [](TypeOK /\ IInv)
<1>1. Init => TypeOK /\ IInv
  BY InitTyped, InitHolds
<1>2. TypeOK /\ IInv /\ [Next]_vars => (TypeOK /\ IInv)'
  BY StepTyped, StepHolds
<1> QED
  BY <1>1, <1>2, PTL DEF Spec

\* SignatureInv, for any sessions: what is sent was signed but for a nonce or a
\* name that moved on, and a permit under way found the allowance too small.
THEOREM SignaturesComposed == Spec => []SignatureInv
<1>1. IInv => SignatureInv
  BY DEF IInv, Holds, SignatureInv
<1> QED
  BY <1>1, AlwaysHolds, PTL

\* A signature fails only because a nonce was used up, time passed or a name
\* was moved, however many of them are under way.
THEOREM RejectionsExplained == Spec => []RejectionExplained
<1>1. IInv => RejectionExplained
  BY DEF IInv, Holds, RejectionExplained
<1> QED
  BY <1>1, AlwaysHolds, PTL

\* A permit of the pool takes away no allowance that was enough for it when it
\* looked.
THEOREM PermitsSpareEnough == Spec => PermitSparesEnough
<1>1. ASSUME TypeOK, IInv, [Next]_vars, NEW s \in Sessions,
             pc[s] = "sent", pc'[s] = "done", session[s].kind \in PoolPermits
      PROVE  session[s].raised \/ allowance < session[s].sent.what
  BY <1>1 DEF IInv, Holds, Needed
<1>2. TypeOK /\ IInv /\ [Next]_vars =>
        [\A s \in Sessions :
            /\ pc[s] = "sent" /\ pc'[s] = "done" /\ session[s].kind \in PoolPermits
            /\ allowance' < allowance
            => session[s].raised \/ allowance < session[s].sent.what]_vars
  BY <1>1
<1> QED
  BY <1>2, AlwaysHolds, PTL DEF PermitSparesEnough, Spec
=============================================================================
