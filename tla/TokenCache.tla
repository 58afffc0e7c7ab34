----------------------------- MODULE TokenCache -----------------------------
(***************************************************************************)
(* The two caches of an ERC20Service, decimals and metadata, used by many  *)
(* calls at a time.  decimalsOf fills the first one after an await, and    *)
(* getTokenData, which calls decimalsOf inside a Promise.all, the second.  *)
(* Nothing joins two fetches of one token, and a Promise.all that fails    *)
(* leaves its decimalsOf running: it still fills the cache when it is      *)
(* answered, on behalf of nobody.                                          *)
(*                                                                         *)
(* A cached 0 looks like nothing cached, so a token without decimals is    *)
(* fetched each time.  The native asset and Maker are never fetched.  The  *)
(* names of a token are always fetched together and left out here.         *)
(***************************************************************************)
EXTENDS Naturals

CONSTANTS Callers, CachedTokens,
          DecimalsOnChain,  \* of each token
          Native,           \* tokens with the address of the native asset,
          Maker,            \* with Maker's
          MaxOrphans        \* bounds the requests nobody waits for, per token

DecimalsAssumption ==
    /\ DecimalsOnChain \in [CachedTokens -> Nat] /\ MaxOrphans \in Nat
    /\ Native \subseteq CachedTokens /\ Maker \subseteq CachedTokens
    /\ \A t \in Native \cup Maker : DecimalsOnChain[t] = 18

VARIABLES
    tokenDecimals,  \* 0 for a token that is not in it
    tokenMetadata,  \* the decimals there; Nothing
    wanted,         \* by each caller: a method and a token, NoKey when idle
    phase,          \* where its call is
    awaited,        \* the requests that it waits for
    result,         \* the decimals it was given
    orphans         \* decimals() requests of calls that have failed, per token

cacheVars == <<tokenDecimals, tokenMetadata, wanted, phase, awaited, result, orphans>>

Nothing == [decimals |-> 0, there |-> FALSE]
Metadata(decimals) == [decimals |-> decimals, there |-> TRUE]

Requests == {"name", "symbol", "decimals"}
Keys == {"decimalsOf", "getTokenData"} \X CachedTokens
NoKey == <<"", "">>
Phases == {"idle", "fetching", "answered", "failed"}

CacheTypeOK ==
    /\ tokenDecimals \in [CachedTokens -> Nat]
    /\ tokenMetadata \in [CachedTokens -> [decimals : Nat, there : BOOLEAN]]
    /\ wanted \in [Callers -> Keys \cup {NoKey}]
    /\ phase \in [Callers -> Phases]
    /\ awaited \in [Callers -> SUBSET Requests]
    /\ result \in [Callers -> Nat]
    /\ orphans \in [CachedTokens -> 0..MaxOrphans]

CacheInit ==
    /\ tokenDecimals = [t \in CachedTokens |-> 0]
    /\ tokenMetadata = [t \in CachedTokens |-> Nothing]
    /\ wanted = [c \in Callers |-> NoKey]
    /\ phase = [c \in Callers |-> "idle"]
    /\ awaited = [c \in Callers |-> {}]
    /\ result = [c \in Callers |-> 0]
    /\ orphans = [t \in CachedTokens |-> 0]

-----------------------------------------------------------------------------
\* decimalsOf needs no request for t; nor does getTokenData.
HasDecimals(t) == t \in Native \/ tokenDecimals[t] # 0
HasMetadata(t) == t \in Native \cup Maker \/ tokenMetadata[t].there

\* What is returned then.
CachedDecimals(t) == IF t \in Native THEN 18 ELSE tokenDecimals[t]
CachedMetadata(t) == IF t \in Native \cup Maker THEN 18 ELSE tokenMetadata[t].decimals

Begins(c, key, requests, cached) ==
    /\ phase[c] = "idle"
    /\ wanted' = [wanted EXCEPT ![c] = key]
    /\ awaited' = [awaited EXCEPT ![c] = requests]
    /\ IF requests = {}
       THEN /\ phase' = [phase EXCEPT ![c] = "answered"]
            /\ result' = [result EXCEPT ![c] = cached]
       ELSE /\ phase' = [phase EXCEPT ![c] = "fetching"]
            /\ UNCHANGED result
    /\ UNCHANGED <<tokenDecimals, tokenMetadata, orphans>>

decimalsOf(c, t) ==
    Begins(c, <<"decimalsOf", t>>,
           IF HasDecimals(t) THEN {} ELSE {"decimals"}, CachedDecimals(t))

getTokenData(c, t) ==
    Begins(c, <<"getTokenData", t>>,
           IF HasMetadata(t) THEN {}
           ELSE {"name", "symbol"} \cup (IF HasDecimals(t) THEN {} ELSE {"decimals"}),
           CachedMetadata(t))

\* name() or symbol() is answered.
NameAnswered(c, request) ==
    /\ phase[c] = "fetching" /\ request \in awaited[c] \ {"decimals"}
    /\ awaited' = [awaited EXCEPT ![c] = @ \ {request}]
    /\ UNCHANGED <<tokenDecimals, tokenMetadata, wanted, phase, result, orphans>>

\* decimals() is answered: decimalsOf fills the cache and returns what is in it,
\* to the client or to getTokenData.
DecimalsAnswered(c) ==
    LET t == wanted[c][2] IN
    /\ phase[c] = "fetching" /\ "decimals" \in awaited[c]
    /\ tokenDecimals' = [tokenDecimals EXCEPT ![t] = DecimalsOnChain[t]]
    /\ awaited' = [awaited EXCEPT ![c] = @ \ {"decimals"}]
    /\ IF wanted[c][1] = "decimalsOf"
       THEN /\ phase' = [phase EXCEPT ![c] = "answered"]
            /\ result' = [result EXCEPT ![c] = tokenDecimals'[t]]
       ELSE UNCHANGED <<phase, result>>
    /\ UNCHANGED <<tokenMetadata, wanted, orphans>>

\* The Promise.all of getTokenData is fulfilled.
DataFetched(c) ==
    LET t == wanted[c][2]
        decimals == CachedDecimals(t)
    IN  /\ phase[c] = "fetching" /\ awaited[c] = {}
        /\ tokenMetadata' = [tokenMetadata EXCEPT ![t] = Metadata(decimals)]
        /\ phase' = [phase EXCEPT ![c] = "answered"]
        /\ result' = [result EXCEPT ![c] = decimals]
        /\ UNCHANGED <<tokenDecimals, wanted, awaited, orphans>>

\* RequestFails, mutated: 18 is cached for decimals that cannot be read.
Bug_RequestFails(c, request) ==
    LET t == wanted[c][2] IN
    /\ phase[c] = "fetching" /\ request \in awaited[c]
    /\ tokenDecimals' = IF request = "decimals" THEN [tokenDecimals EXCEPT ![t] = 18]
                        ELSE tokenDecimals
    /\ phase' = [phase EXCEPT ![c] = "failed"]
    /\ awaited' = [awaited EXCEPT ![c] = {}]
    /\ UNCHANGED <<tokenMetadata, wanted, result, orphans>>

\* A request fails, and the call with it; a decimals() that is still under way
\* goes on by itself.
RequestFails(c, request) ==
    LET t == wanted[c][2]
        left == IF "decimals" \in awaited[c] \ {request} THEN 1 ELSE 0
    IN  /\ phase[c] = "fetching" /\ request \in awaited[c]
        /\ orphans[t] + left <= MaxOrphans
        /\ orphans' = [orphans EXCEPT ![t] = @ + left]
        /\ phase' = [phase EXCEPT ![c] = "failed"]
        /\ awaited' = [awaited EXCEPT ![c] = {}]
        /\ UNCHANGED <<tokenDecimals, tokenMetadata, wanted, result>>

OrphanAnswered(t) ==
    /\ orphans[t] > 0
    /\ tokenDecimals' = [tokenDecimals EXCEPT ![t] = DecimalsOnChain[t]]
    /\ orphans' = [orphans EXCEPT ![t] = @ - 1]
    /\ UNCHANGED <<tokenMetadata, wanted, phase, awaited, result>>

OrphanFails(t) ==
    /\ orphans[t] > 0
    /\ orphans' = [orphans EXCEPT ![t] = @ - 1]
    /\ UNCHANGED <<tokenDecimals, tokenMetadata, wanted, phase, awaited, result>>

\* The client has its answer.
Return(c) ==
    /\ phase[c] \in {"answered", "failed"}
    /\ phase' = [phase EXCEPT ![c] = "idle"]
    /\ wanted' = [wanted EXCEPT ![c] = NoKey]
    /\ result' = [result EXCEPT ![c] = 0]
    /\ UNCHANGED <<tokenDecimals, tokenMetadata, awaited, orphans>>

CacheNext ==
    \/ \E c \in Callers :
        \/ \E t \in CachedTokens : decimalsOf(c, t) \/ getTokenData(c, t)
        \/ \E request \in Requests : NameAnswered(c, request) \/ RequestFails(c, request)
        \/ DecimalsAnswered(c) \/ DataFetched(c) \/ Return(c)
    \/ \E t \in CachedTokens : OrphanAnswered(t) \/ OrphanFails(t)

CacheSpec == CacheInit /\ [][CacheNext]_cacheVars
-----------------------------------------------------------------------------
\* What a caller of Lookups would see.  An answer that is not the chain's would
\* be none of its phases.
Known == {k \in Keys : IF k[1] = "decimalsOf" THEN HasDecimals(k[2]) ELSE HasMetadata(k[2])}
Seen ==
    [c \in Callers |->
        CASE phase[c] = "fetching" -> "asked"
          [] phase[c] = "answered" ->
                 IF result[c] = DecimalsOnChain[wanted[c][2]] THEN "answered" ELSE "misled"
          [] OTHER -> phase[c]]
Builtin == {k \in Keys : k[2] \in Native \/ (k[1] = "getTokenData" /\ k[2] \in Maker)}
Lasting ==
    {k \in Keys : k[1] = "decimalsOf" => k[2] \in Native \/ DecimalsOnChain[k[2]] # 0}

Lookup == INSTANCE Lookups WITH known <- Known, phase <- Seen

\* However calls overlap and requests fail, a call is given what the chain says
\* or fails, and is answered at once when its token is cached: the decimals after
\* any decimalsOf that was answered, even one that nobody waits for, and the
\* metadata after any getTokenData (decimalsOf and getTokenData).
TokensAsPromised == Lookup!Spec

=============================================================================
