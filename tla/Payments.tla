------------------------------ MODULE Payments ------------------------------
(***************************************************************************)
(* What the transaction methods promise of the payments made with them,    *)
(* whatever pairs, amounts, reads and approvals it takes (module TxFlow).  *)
(* A payment is made once, and not before it is covered: the contract may  *)
(* pull what is needed, or nothing is pulled.  It fails only if its cover  *)
(* was spoilt since; other payments spoil it only after the user has       *)
(* interfered, by setting an allowance elsewhere.                          *)
(***************************************************************************)
CONSTANT Payers

VARIABLES phase,      \* of each payment
          interfered  \* the user has set an allowance elsewhere

payments == <<phase, interfered>>

Init ==
    /\ phase = [c \in Payers |-> "none"]
    /\ interfered = FALSE

\* A payment that needs no allowance is covered at once.
Start(c) ==
    /\ phase[c] = "none"
    /\ \E p \in {"open", "covered"} : phase' = [phase EXCEPT ![c] = p]
    /\ UNCHANGED interfered

Cover(c) ==
    /\ phase[c] = "open"
    /\ phase' = [phase EXCEPT ![c] = "covered"]
    /\ UNCHANGED interfered

\* The payments of C, all of them covered, lose their cover.
Spoilt(C) == [c \in Payers |-> IF c \in C THEN "spoilt" ELSE phase[c]]

Pay(c, C) ==
    /\ phase[c] \in {"covered", "spoilt"}
    /\ C # {} => interfered
    /\ phase' = [Spoilt(C) EXCEPT ![c] = "paid"]
    /\ UNCHANGED interfered

Fail(c) ==
    /\ phase[c] = "spoilt"
    /\ phase' = [phase EXCEPT ![c] = "failed"]
    /\ UNCHANGED interfered

Interfere(C) ==
    /\ phase' = Spoilt(C)
    /\ interfered' = TRUE

\* It is over, or given up at any time.
Drop(c) ==
    /\ phase[c] # "none"
    /\ phase' = [phase EXCEPT ![c] = "none"]
    /\ UNCHANGED interfered

Covered == {c \in Payers : phase[c] = "covered"}

Next ==
    \/ \E c \in Payers :
        \/ Start(c) \/ Cover(c) \/ Fail(c) \/ Drop(c)
        \/ \E C \in SUBSET (Covered \ {c}) : Pay(c, C)
    \/ \E C \in SUBSET Covered : Interfere(C)

Spec == Init /\ [][Next]_payments
=============================================================================
