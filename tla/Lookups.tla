------------------------------ MODULE Lookups ------------------------------
(***************************************************************************)
(* What a cache in front of a network promises.  A lookup asks for a key   *)
(* and is answered, rightly, or fails.  Keys become known, all but some,   *)
(* and a lookup that begins when its key is known is answered at once.     *)
(*                                                                         *)
(* ERC20Service's caches (module TokenCache) and the one of the proposals  *)
(* (module ProposalMemo) keep this promise.                                *)
(***************************************************************************)
CONSTANTS Callers, Keys,
          NoKey,
          Lasting,  \* the keys whose answers can be kept
          Builtin   \* those that are known from the start

VARIABLES known,    \* keys that need no network any more
          phase,    \* of each caller's lookup
          wanted    \* the key it asks for, NoKey while idle

lookups == <<known, phase, wanted>>

Init ==
    /\ known = Builtin
    /\ phase = [c \in Callers |-> "idle"]
    /\ wanted = [c \in Callers |-> NoKey]

Ask(c, k) ==
    /\ phase[c] = "idle"
    /\ phase' = [phase EXCEPT ![c] = IF k \in known THEN "answered" ELSE "asked"]
    /\ wanted' = [wanted EXCEPT ![c] = k]
    /\ UNCHANGED known

Learn(k) ==
    /\ k \in Lasting
    /\ known' = known \cup {k}
    /\ UNCHANGED <<phase, wanted>>

Answer(c) ==
    /\ phase[c] = "asked"
    /\ phase' = [phase EXCEPT ![c] = "answered"]
    /\ known' \in {known, known \cup ({wanted[c]} \cap Lasting)}
    /\ UNCHANGED wanted

Fail(c) ==
    /\ phase[c] = "asked"
    /\ phase' = [phase EXCEPT ![c] = "failed"]
    /\ UNCHANGED <<known, wanted>>

Return(c) ==
    /\ phase[c] \in {"answered", "failed"}
    /\ phase' = [phase EXCEPT ![c] = "idle"]
    /\ wanted' = [wanted EXCEPT ![c] = NoKey]
    /\ UNCHANGED known

Next ==
    \/ \E k \in Lasting : Learn(k)
    \/ \E c \in Callers :
        \/ \E k \in Keys : Ask(c, k)
        \/ Answer(c) \/ Fail(c) \/ Return(c)

Spec == Init /\ [][Next]_lookups
=============================================================================
