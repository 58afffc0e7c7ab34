----------------------------- MODULE MCSignatures -----------------------------
(* An instance of Signatures for TLC: two sessions, a name and two addresses *)
EXTENDS Signatures
=============================================================================
