----------------------------- MODULE MCMigration -----------------------------
(* Instances of Migration for TLC *)
EXTENDS Migration, TLC

\* 5 and 10 differ in how the tenth is rounded: 5.5 to 6, 11 exactly.
SmallAmounts == {5, 10}

OneAmount == {5}

\* Revoked; enough without the interest; more than will be approved; unlimited.
SetByUser == {0, 5, 11, Unlimited}

BatchSymmetry == Permutations(Batches)
=============================================================================
