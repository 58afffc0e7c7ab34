----------------------------- MODULE Arguments -----------------------------
(***************************************************************************)
(* How a service makes a contract's arguments out of its own parameters.   *)
(* A value is a tuple of strings: the parameter it comes from and what was *)
(* done to it since, so <<"amount", "units", "reserve">> is the amount in  *)
(* least units of the reserve.  A term says how an argument is made; its   *)
(* value depends on the parameters given, a function from their names.     *)
(***************************************************************************)
EXTENDS Naturals, Sequences

Absent == <<"absent">>
Constant(c) == <<"constant", c>>

FormOf(v) == IF Len(v) > 1 THEN v[2] ELSE "plain"
IsNative(v) == FormOf(v) = "BNB"
On(v) == v \notin {Absent, Constant("false")}

\* The token a value names, as far as its decimals go.
TokenIn(t, given) ==
    IF t \notin DOMAIN given THEN t
    ELSE IF IsNative(given[t]) THEN "BNB" ELSE given[t][1]

\* p;  p ?? q;  p ?? c;  c.
Given(p) == <<"given", p>>
OrElse(p, q) == <<"or else", p, q>>
OrConstant(p, c) == <<"or constant", p, c>>
Fixed(c) == <<"fixed", c>>

\* valueToWei(p, the decimals of t), where t is a parameter or a token that the
\* service knows by itself;  the same with a surplus;  MaxUint256 for '-1'.
Units(p, t) == <<"units", p, t>>
Surplus(p, t) == <<"surplus", p, t>>
UnitsOrAll(p, t) == <<"units or all", p, t>>

\* The number of a rate mode: any mode but the variable one counts as stable in
\* the pools and the gateway, any but the stable one as variable in the adapters.
VariableMode(p) == <<"variable mode", p>>
StableMode(p) == <<"stable mode", p>>

\* A part of a signature, or something found out about a parameter.
Part(p, part) == <<"part", p, part>>

\* x if the flag is given, else y;  what is sent along with a call, if native.
Either(flag, x, y) == <<"either", flag, x, y>>
TxValue(t, x) == <<"tx value", t, x>>

\* Several values in one argument: bytes, an array or a struct.
Packed(terms) == <<"packed", terms>>

Converted(v, t, given) == v \o <<"units", TokenIn(t, given)>>
getTxValue(t, given, v) == IF IsNative(given[t]) THEN v ELSE Constant("0")

\* A name is looked up before it is sent.
Resolved(p) == <<"resolved", p>>

\* The value of a term: of one that has no terms in it, of a choice between two
\* such terms, and of any other.
Simple(term, given) ==
    LET kind == term[1]
        arg == IF kind = "fixed" THEN Absent ELSE given[term[2]]
    IN CASE kind = "given" -> arg
         [] kind = "or else" -> IF arg = Absent THEN given[term[3]] ELSE arg
         [] kind = "or constant" -> IF arg = Absent THEN Constant(term[3]) ELSE arg
         [] kind = "fixed" -> Constant(term[2])
         [] kind = "units" -> Converted(arg, term[3], given)
         [] kind = "surplus" -> Converted(arg, term[3], given) \o <<"surplus">>
         [] kind = "units or all" -> IF FormOf(arg) = "-1" THEN Constant("MaxUint256")
                                     ELSE Converted(arg, term[3], given)
         [] kind = "variable mode" -> <<arg[1], IF FormOf(arg) = "Variable" THEN "2" ELSE "1">>
         [] kind = "stable mode" -> <<arg[1], IF FormOf(arg) = "Stable" THEN "1" ELSE "2">>
         [] kind = "part" -> <<arg[1], term[3]>>
         [] kind = "resolved" -> IF FormOf(arg) = "name" THEN <<arg[1], "resolved">> ELSE arg

Chosen(term, given) ==
    IF term[1] = "either" THEN Simple(IF On(given[term[2]]) THEN term[3] ELSE term[4], given)
    ELSE Simple(term, given)

Value(term, given) ==
    IF term[1] = "tx value" THEN getTxValue(term[2], given, Chosen(term[3], given))
    ELSE Chosen(term, given)

\* What one argument holds.
Values(term, given) ==
    IF term[1] = "packed" THEN [i \in DOMAIN term[2] |-> Value(term[2][i], given)]
    ELSE <<Value(term, given)>>
=============================================================================
