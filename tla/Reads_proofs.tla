---------------------------- MODULE Reads_proofs ----------------------------
(***************************************************************************)
(* Proofs about what is read before anything is shown or sent.  The caches *)
(* of ERC20Service and the memo of the proposals implement Lookups; a      *)
(* reward is priced by a feed of its own token; and no transaction is sent *)
(* with less gas than it was estimated to need.  The last theorem puts the *)
(* parts together as MCReads does.                                         *)
(***************************************************************************)
EXTENDS MCReads, Incentives_proofs

-----------------------------------------------------------------------------
(* The caches of ERC20Service implement Lookups, for any tokens, callers   *)
(* and number of requests that nobody waits for.                           *)

\* The caches hold what the chain says.
CachesRight ==
    \A t \in CachedTokens :
        /\ tokenDecimals[t] \in {0, DecimalsOnChain[t]}
        /\ tokenMetadata[t].there => tokenMetadata[t].decimals = DecimalsOnChain[t]

\* What a call waits for is missing in the cache; what it no longer waits for,
\* or never did, is there.
CacheCallRight(c) ==
    LET method == wanted[c][1]
        t == wanted[c][2]
    IN  /\ phase[c] # "idle" => wanted[c] \in Keys
        /\ phase[c] = "fetching" =>
              /\ t \notin Native
              /\ method = "getTokenData" => t \notin Maker
              /\ method = "decimalsOf" => awaited[c] = {"decimals"}
              /\ "decimals" \notin awaited[c] => tokenDecimals[t] = DecimalsOnChain[t]
        /\ phase[c] = "answered" => result[c] = DecimalsOnChain[t]

CacheInv == CacheTypeOK /\ CachesRight /\ \A c \in Callers : CacheCallRight(c)
-----------------------------------------------------------------------------
\* A key is a method and a token.
LEMMA KeyParts ==
  /\ \A k \in Keys : k[1] \in {"decimalsOf", "getTokenData"} /\ k[2] \in CachedTokens
  /\ \A t \in CachedTokens : <<"decimalsOf", t>> \in Keys /\ <<"getTokenData", t>> \in Keys
  /\ \A k \in Keys : k = <<k[1], k[2]>>
  /\ NoKey \notin Keys
<1>1. \A k \in Keys : k[1] \in {"decimalsOf", "getTokenData"} /\ k[2] \in CachedTokens
  BY DEF Keys
<1>2. NoKey[1] \notin {"decimalsOf", "getTokenData"}
  BY DEF NoKey
<1> QED
  BY <1>1, <1>2 DEF Keys

\* What is found in the caches is right.
LEMMA CachedRight ==
  ASSUME DecimalsAssumption, CacheTypeOK, CachesRight, NEW t \in CachedTokens
  PROVE  /\ HasDecimals(t) => CachedDecimals(t) = DecimalsOnChain[t]
         /\ HasMetadata(t) => CachedMetadata(t) = DecimalsOnChain[t]
  BY DEF DecimalsAssumption, CachesRight, HasDecimals, CachedDecimals, HasMetadata,
         CachedMetadata

\* The empty caches are right.
LEMMA CacheInvInit == ASSUME DecimalsAssumption, CacheInit PROVE CacheInv
  BY DEF DecimalsAssumption, CacheInit, CacheInv, CacheTypeOK, CachesRight, CacheCallRight, Nothing,
         Phases, Requests

\* A call that begins keeps the types.
LEMMA BeginsTyped ==
  ASSUME CacheTypeOK, NEW c \in Callers, NEW key \in Keys, NEW requests \in SUBSET Requests,
         NEW cached, requests = {} => cached \in Nat, Begins(c, key, requests, cached)
  PROVE  CacheTypeOK'
<1>1. phase' \in [Callers -> Phases]
  BY DEF CacheTypeOK, Begins, Phases
<1>2. result' \in [Callers -> Nat]
  BY DEF CacheTypeOK, Begins
<1> QED
  BY <1>1, <1>2 DEF CacheTypeOK, Begins

\* Every step of a caller keeps them right.
LEMMA CacheInvStep ==
  ASSUME DecimalsAssumption, CacheInv, [CacheNext]_cacheVars
  PROVE  CacheInv'
<1> USE DEF CacheInv
<1>1. ASSUME NEW c \in Callers, NEW t \in CachedTokens, decimalsOf(c, t)
      PROVE  CacheInv'
  <2>1. CacheTypeOK'
    <3>1. (IF HasDecimals(t) THEN {} ELSE {"decimals"}) \in SUBSET Requests
      BY DEF Requests
    <3>2. HasDecimals(t) => CachedDecimals(t) \in Nat
      BY CachedRight DEF DecimalsAssumption
    <3> QED
      BY <1>1, <3>1, <3>2, BeginsTyped, KeyParts DEF decimalsOf
  <2>2. CachesRight'
    BY <1>1 DEF decimalsOf, Begins, CachesRight
  <2>3. ASSUME NEW d \in Callers PROVE CacheCallRight(d)'
    BY <1>1, CachedRight, KeyParts
       DEF decimalsOf, Begins, CacheCallRight, CacheTypeOK, HasDecimals
  <2> QED
    BY <2>1, <2>2, <2>3
<1>2. ASSUME NEW c \in Callers, NEW t \in CachedTokens, getTokenData(c, t)
      PROVE  CacheInv'
  <2>1. CacheTypeOK'
    <3> DEFINE requests ==
                 IF HasMetadata(t) THEN {}
                 ELSE {"name", "symbol"} \cup (IF HasDecimals(t) THEN {} ELSE {"decimals"})
    <3>1. requests \in SUBSET Requests
      BY DEF Requests
    <3>2. requests = {} => CachedMetadata(t) \in Nat
      BY CachedRight DEF DecimalsAssumption
    <3> QED
      BY <1>2, <3>1, <3>2, BeginsTyped, KeyParts DEF getTokenData
  <2>2. CachesRight'
    BY <1>2 DEF getTokenData, Begins, CachesRight
  <2>3. ASSUME NEW d \in Callers PROVE CacheCallRight(d)'
    <3> DEFINE key == <<"getTokenData", t>>
    <3>1. UNCHANGED <<tokenDecimals, tokenMetadata>>
      BY <1>2 DEF getTokenData, Begins
    <3>2. CASE d # c
      <4>1. /\ phase'[d] = phase[d] /\ wanted'[d] = wanted[d]
            /\ awaited'[d] = awaited[d] /\ result'[d] = result[d]
        BY <1>2, <3>2 DEF getTokenData, Begins, CacheTypeOK
      <4> QED
        BY <3>1, <4>1 DEF CacheCallRight
    <3>3. CASE d = c
      <4>1. wanted'[c] = key /\ key \in Keys /\ key[1] = "getTokenData" /\ key[2] = t
        BY <1>2, KeyParts DEF getTokenData, Begins, CacheTypeOK
      <4>2. CASE HasMetadata(t)
        <5>1. phase'[c] = "answered" /\ result'[c] = CachedMetadata(t)
          BY <1>2, <4>2 DEF getTokenData, Begins, CacheTypeOK
        <5> QED
          BY <3>3, <4>1, <4>2, <5>1, CachedRight DEF CacheCallRight
      <4>3. CASE ~HasMetadata(t)
        <5>1. /\ phase'[c] = "fetching"
              /\ awaited'[c] = {"name", "symbol"}
                                 \cup (IF HasDecimals(t) THEN {} ELSE {"decimals"})
          BY <1>2, <4>3 DEF getTokenData, Begins, CacheTypeOK
        <5>2. t \notin Native /\ t \notin Maker
          BY <4>3 DEF HasMetadata
        <5>3. "decimals" \notin awaited'[c] => tokenDecimals'[t] = DecimalsOnChain[t]
          BY <3>1, <5>1, <5>2 DEF HasDecimals, CachesRight
        <5> QED
          BY <3>3, <4>1, <5>1, <5>2, <5>3 DEF CacheCallRight
      <4> QED
        BY <4>2, <4>3
    <3> QED
      BY <3>2, <3>3
  <2> QED
    BY <2>1, <2>2, <2>3
<1>3. ASSUME NEW c \in Callers, NEW request \in Requests, NameAnswered(c, request)
      PROVE  CacheInv'
  BY <1>3 DEF NameAnswered, CacheTypeOK, CachesRight, CacheCallRight, Requests
<1>4. ASSUME NEW c \in Callers, NEW request \in Requests, RequestFails(c, request)
      PROVE  CacheInv'
  <2>1. wanted[c] \in Keys
    BY <1>4 DEF RequestFails, CacheCallRight
  <2>2. CacheTypeOK'
    BY <1>4, <2>1, KeyParts DEF RequestFails, CacheTypeOK, Phases, DecimalsAssumption
  <2> QED
    BY <1>4, <2>2 DEF RequestFails, CachesRight, CacheCallRight, CacheTypeOK
<1>5. ASSUME NEW c \in Callers, DecimalsAnswered(c)
      PROVE  CacheInv'
  <2>1. wanted[c] \in Keys /\ wanted[c][2] \in CachedTokens
    BY <1>5, KeyParts DEF DecimalsAnswered, CacheCallRight
  <2>2. CacheTypeOK'
    <3>1. awaited' \in [Callers -> SUBSET Requests]
      BY <1>5 DEF DecimalsAnswered, CacheTypeOK
    <3>2. tokenDecimals' \in [CachedTokens -> Nat]
      BY <1>5, <2>1 DEF DecimalsAnswered, CacheTypeOK, DecimalsAssumption
    <3>3. phase' \in [Callers -> Phases] /\ result' \in [Callers -> Nat]
      BY <1>5, <2>1, <3>2 DEF DecimalsAnswered, CacheTypeOK, Phases
    <3> QED
      BY <1>5, <3>1, <3>2, <3>3 DEF DecimalsAnswered, CacheTypeOK
  <2>3. CachesRight'
    BY <1>5, <2>1 DEF DecimalsAnswered, CachesRight, CacheTypeOK
  <2>4. ASSUME NEW d \in Callers PROVE CacheCallRight(d)'
    BY <1>5, <2>1, KeyParts DEF DecimalsAnswered, CacheCallRight, CacheTypeOK
  <2> QED
    BY <2>2, <2>3, <2>4
<1>6. ASSUME NEW c \in Callers, DataFetched(c)
      PROVE  CacheInv'
  <2>1. wanted[c] \in Keys /\ wanted[c][2] \in CachedTokens
    BY <1>6, KeyParts DEF DataFetched, CacheCallRight
  <2>2. CachedDecimals(wanted[c][2]) = DecimalsOnChain[wanted[c][2]]
    BY <1>6, <2>1 DEF DataFetched, CacheCallRight, CachedDecimals
  <2>3. CacheTypeOK'
    BY <1>6, <2>1, <2>2 DEF DataFetched, CacheTypeOK, Phases, Metadata, DecimalsAssumption
  <2>4. CachesRight'
    BY <1>6, <2>1, <2>2 DEF DataFetched, CachesRight, CacheTypeOK, Metadata
  <2>5. ASSUME NEW d \in Callers PROVE CacheCallRight(d)'
    BY <1>6, <2>1, <2>2 DEF DataFetched, CacheCallRight, CacheTypeOK
  <2> QED
    BY <2>3, <2>4, <2>5
<1>7. ASSUME NEW c \in Callers, Return(c)
      PROVE  CacheInv'
  BY <1>7 DEF Return, CacheTypeOK, CachesRight, CacheCallRight, Phases
<1>8. ASSUME NEW t \in CachedTokens, OrphanAnswered(t)
      PROVE  CacheInv'
  <2>1. CacheTypeOK'
    BY <1>8 DEF OrphanAnswered, CacheTypeOK, DecimalsAssumption
  <2>2. CachesRight'
    BY <1>8 DEF OrphanAnswered, CachesRight, CacheTypeOK
  <2>3. ASSUME NEW d \in Callers PROVE CacheCallRight(d)'
    BY <1>8, KeyParts DEF OrphanAnswered, CacheCallRight, CacheTypeOK
  <2> QED
    BY <2>1, <2>2, <2>3
<1>9. ASSUME NEW t \in CachedTokens, OrphanFails(t)
      PROVE  CacheInv'
  BY <1>9 DEF OrphanFails, CacheTypeOK, CachesRight, CacheCallRight, DecimalsAssumption
<1>10. CASE UNCHANGED cacheVars
  BY <1>10 DEF cacheVars, CacheTypeOK, CachesRight, CacheCallRight
<1> QED
  BY <1>1, <1>2, <1>3, <1>4, <1>5, <1>6, <1>7, <1>8, <1>9, <1>10 DEF CacheNext

\* The variables of TokenCache keep their types, for any tokens and callers.
THEOREM TokensTyped ==
  ASSUME DecimalsAssumption
  PROVE  CacheSpec => []CacheTypeOK
<1>1. CacheInv => CacheTypeOK
  BY DEF CacheInv
<1> QED
  BY <1>1, CacheInvInit, CacheInvStep, PTL DEF CacheSpec
-----------------------------------------------------------------------------
\* What one caller sees.
CacheSees(c) ==
    CASE phase[c] = "fetching" -> "asked"
      [] phase[c] = "answered" ->
             IF result[c] = DecimalsOnChain[wanted[c][2]] THEN "answered" ELSE "misled"
      [] OTHER -> phase[c]

\* What Lookups sees of all callers, caller by caller.
LEMMA CacheSeenIsSees ==
  /\ Seen = [c \in Callers |-> CacheSees(c)]
  /\ Seen' = [c \in Callers |-> CacheSees(c)']
  BY DEF Seen, CacheSees

\* A step of one caller changes what that one sees alone.
LEMMA CacheOthersSeeTheSame ==
  ASSUME NEW c \in Callers,
         \A d \in Callers \ {c} : phase'[d] = phase[d] /\ result'[d] = result[d]
                                  /\ wanted'[d] = wanted[d]
  PROVE  Seen' = [Seen EXCEPT ![c] = CacheSees(c)']
<1>1. ASSUME NEW d \in Callers \ {c} PROVE CacheSees(d)' = CacheSees(d)
  BY <1>1 DEF CacheSees
<1> QED
  BY <1>1, CacheSeenIsSees

\* What is known, key by key.
LEMMA KnownKeys ==
  ASSUME NEW t \in CachedTokens
  PROVE  /\ <<"decimalsOf", t>> \in Known <=> HasDecimals(t)
         /\ <<"getTokenData", t>> \in Known <=> HasMetadata(t)
  BY KeyParts DEF Known

\* The decimals of a token are cached.
LEMMA DecimalsLearnt ==
  ASSUME DecimalsAssumption, CacheTypeOK, NEW t \in CachedTokens,
         tokenDecimals' = [tokenDecimals EXCEPT ![t] = DecimalsOnChain[t]],
         CachesRight, UNCHANGED tokenMetadata
  PROVE  Known' = Known \cup ({<<"decimalsOf", t>>} \cap Lasting)
<1>1. ASSUME NEW u \in CachedTokens
      PROVE  /\ HasMetadata(u)' <=> HasMetadata(u)
             /\ HasDecimals(u)' <=> HasDecimals(u) \/ (u = t /\ DecimalsOnChain[u] # 0)
  BY DEF HasMetadata, HasDecimals, CacheTypeOK, CachesRight
<1>2. ASSUME NEW k \in Keys
      PROVE  k \in Known' <=> k \in Known \cup ({<<"decimalsOf", t>>} \cap Lasting)
  <2>1. k[1] \in {"decimalsOf", "getTokenData"} /\ k[2] \in CachedTokens /\ k = <<k[1], k[2]>>
    BY KeyParts
  <2>2. CASE k[1] = "decimalsOf"
    BY <1>1, <2>1, <2>2 DEF Known, Lasting, HasDecimals
  <2>3. CASE k[1] = "getTokenData"
    BY <1>1, <2>1, <2>3 DEF Known
  <2> QED
    BY <2>1, <2>2, <2>3
<1> QED
  BY <1>2 DEF Known, Lasting

\* Any other step that leaves the caches as they are leaves what is known.
LEMMA NothingLearnt ==
  ASSUME UNCHANGED <<tokenDecimals, tokenMetadata>>
  PROVE  Known' = Known
  BY DEF Known, HasDecimals, HasMetadata

\* A call that begins asks, and is answered at once if its key is known.
LEMMA BeginsAsks ==
  ASSUME CacheTypeOK, NEW c \in Callers, NEW key \in Keys, NEW requests, NEW cached,
         requests = {} <=> key \in Known,
         requests = {} => cached = DecimalsOnChain[key[2]],
         Begins(c, key, requests, cached)
  PROVE  Lookup!Ask(c, key)
<1>1. Seen[c] = "idle"
  BY DEF Begins, Seen
<1>2. CacheSees(c)' = IF key \in Known THEN "answered" ELSE "asked"
  <2>1. CASE requests = {}
    BY <2>1 DEF Begins, CacheSees, CacheTypeOK
  <2>2. CASE requests # {}
    BY <2>2 DEF Begins, CacheSees, CacheTypeOK
  <2> QED
    BY <2>1, <2>2
<1>3. Seen' = [Seen EXCEPT ![c] = CacheSees(c)']
  BY CacheOthersSeeTheSame DEF Begins, CacheTypeOK
<1>4. Known' = Known
  BY NothingLearnt DEF Begins
<1> QED
  BY <1>1, <1>2, <1>3, <1>4 DEF Lookup!Ask, Begins

\* The empty caches know what is built in.
LEMMA CacheInitLookup == ASSUME DecimalsAssumption, CacheInit PROVE Lookup!Init
<1>1. Known = Builtin
  BY KeyParts DEF CacheInit, Known, Builtin, HasDecimals, HasMetadata, Nothing
<1>2. Seen = [c \in Callers |-> "idle"]
  BY DEF CacheInit, Seen
<1> QED
  BY <1>1, <1>2 DEF Lookup!Init, CacheInit

\* Every step is one of Lookups, or none.
LEMMA CacheNextLookup ==
  ASSUME DecimalsAssumption, CacheInv, [CacheNext]_cacheVars
  PROVE  [Lookup!Next]_(Lookup!lookups)
<1> USE DEF CacheInv
<1>1. ASSUME NEW c \in Callers, NEW t \in CachedTokens, decimalsOf(c, t)
      PROVE  Lookup!Next
  <2>1. Lookup!Ask(c, <<"decimalsOf", t>>)
    BY <1>1, BeginsAsks, KnownKeys, CachedRight, KeyParts DEF decimalsOf
  <2> QED
    BY <2>1, KeyParts DEF Lookup!Next
<1>2. ASSUME NEW c \in Callers, NEW t \in CachedTokens, getTokenData(c, t)
      PROVE  Lookup!Next
  <2>1. Lookup!Ask(c, <<"getTokenData", t>>)
    BY <1>2, BeginsAsks, KnownKeys, CachedRight, KeyParts DEF getTokenData
  <2> QED
    BY <2>1, KeyParts DEF Lookup!Next
<1>3. ASSUME NEW c \in Callers, NEW request \in Requests, NameAnswered(c, request)
      PROVE  UNCHANGED Lookup!lookups
  BY <1>3, NothingLearnt DEF NameAnswered, Seen, Lookup!lookups
<1>4. ASSUME NEW c \in Callers, NEW request \in Requests, RequestFails(c, request)
      PROVE  Lookup!Next
  <2>1. Seen[c] = "asked" /\ CacheSees(c)' = "failed"
    BY <1>4 DEF RequestFails, Seen, CacheSees, CacheTypeOK
  <2>2. Seen' = [Seen EXCEPT ![c] = "failed"]
    BY <1>4, <2>1, CacheOthersSeeTheSame DEF RequestFails, CacheTypeOK
  <2>3. Lookup!Fail(c)
    BY <1>4, <2>1, <2>2, NothingLearnt DEF RequestFails, Lookup!Fail
  <2> QED
    BY <2>3 DEF Lookup!Next
<1>5. ASSUME NEW c \in Callers, DecimalsAnswered(c)
      PROVE  Lookup!Next \/ UNCHANGED Lookup!lookups
  <2> DEFINE t == wanted[c][2]
  <2>1. wanted[c] \in Keys /\ t \in CachedTokens
    BY <1>5, KeyParts DEF DecimalsAnswered, CacheCallRight
  <2>2. Known' = Known \cup ({<<"decimalsOf", t>>} \cap Lasting)
    BY <1>5, <2>1, DecimalsLearnt DEF DecimalsAnswered
  <2>3. CASE wanted[c][1] = "decimalsOf"
    <3>1. Seen[c] = "asked" /\ CacheSees(c)' = "answered"
      BY <1>5, <2>1, <2>3 DEF DecimalsAnswered, Seen, CacheSees, CacheTypeOK
    <3>2. Seen' = [Seen EXCEPT ![c] = "answered"]
      BY <1>5, <2>3, <3>1, CacheOthersSeeTheSame DEF DecimalsAnswered, CacheTypeOK
    <3>3. wanted[c] = <<"decimalsOf", t>>
      BY <2>1, <2>3, KeyParts
    <3>4. Lookup!Answer(c)
      BY <1>5, <2>2, <3>1, <3>2, <3>3 DEF DecimalsAnswered, Lookup!Answer
    <3> QED
      BY <3>4 DEF Lookup!Next
  <2>4. CASE wanted[c][1] # "decimalsOf"
    <3>1. Seen' = Seen /\ UNCHANGED wanted
      BY <1>5, <2>4 DEF DecimalsAnswered, Seen
    <3> QED
      BY <2>2, <3>1 DEF Lookup!Next, Lookup!Learn, Lookup!lookups
  <2> QED
    BY <2>3, <2>4
<1>6. ASSUME NEW c \in Callers, DataFetched(c)
      PROVE  Lookup!Next
  <2> DEFINE t == wanted[c][2]
  <2>1. wanted[c] \in Keys /\ t \in CachedTokens
    BY <1>6, KeyParts DEF DataFetched, CacheCallRight
  <2>2. wanted[c] = <<"getTokenData", t>> /\ wanted[c] \in Lasting
    BY <1>6, <2>1, KeyParts DEF DataFetched, CacheCallRight, Lasting
  <2>3. CachedDecimals(t) = DecimalsOnChain[t]
    BY <1>6, <2>1 DEF DataFetched, CacheCallRight, CachedDecimals
  <2>4. Seen[c] = "asked" /\ CacheSees(c)' = "answered"
    BY <1>6, <2>3 DEF DataFetched, Seen, CacheSees, CacheTypeOK
  <2>5. Seen' = [Seen EXCEPT ![c] = "answered"]
    BY <1>6, <2>4, CacheOthersSeeTheSame DEF DataFetched, CacheTypeOK
  <2>6. ASSUME NEW u \in CachedTokens
        PROVE  /\ HasDecimals(u)' <=> HasDecimals(u)
               /\ HasMetadata(u)' <=> HasMetadata(u) \/ u = t
    BY <1>6, <2>1 DEF DataFetched, HasDecimals, HasMetadata, CacheTypeOK, Metadata
  <2>7. Known' = Known \cup ({wanted[c]} \cap Lasting)
    <3>1. ASSUME NEW k \in Keys
          PROVE  k \in Known' <=> k \in Known \/ k = wanted[c]
      <4>1. k[1] \in {"decimalsOf", "getTokenData"} /\ k[2] \in CachedTokens /\ k = <<k[1], k[2]>>
        BY KeyParts
      <4>2. CASE k[1] = "decimalsOf"
        BY <2>2, <2>6, <4>1, <4>2 DEF Known
      <4>3. CASE k[1] = "getTokenData"
        BY <2>2, <2>6, <4>1, <4>3 DEF Known
      <4> QED
        BY <4>1, <4>2, <4>3
    <3> QED
      BY <2>1, <2>2, <3>1 DEF Known
  <2>8. Lookup!Answer(c)
    BY <1>6, <2>4, <2>5, <2>7 DEF DataFetched, Lookup!Answer
  <2> QED
    BY <2>8 DEF Lookup!Next
<1>7. ASSUME NEW c \in Callers, Return(c)
      PROVE  Lookup!Next
  <2>1. Seen[c] \in {"answered", "failed"} /\ CacheSees(c)' = "idle"
    BY <1>7 DEF Return, Seen, CacheSees, CacheTypeOK, CacheCallRight
  <2>2. Seen' = [Seen EXCEPT ![c] = "idle"]
    BY <1>7, <2>1, CacheOthersSeeTheSame DEF Return, CacheTypeOK
  <2>3. Lookup!Return(c)
    BY <1>7, <2>1, <2>2, NothingLearnt DEF Return, Lookup!Return
  <2> QED
    BY <2>3 DEF Lookup!Next
<1>8. ASSUME NEW t \in CachedTokens, OrphanAnswered(t)
      PROVE  Lookup!Next \/ UNCHANGED Lookup!lookups
  <2>1. Known' = Known \cup ({<<"decimalsOf", t>>} \cap Lasting)
    BY <1>8, DecimalsLearnt DEF OrphanAnswered
  <2>2. Seen' = Seen /\ UNCHANGED wanted
    BY <1>8 DEF OrphanAnswered, Seen
  <2> QED
    BY <2>1, <2>2 DEF Lookup!Next, Lookup!Learn, Lookup!lookups
<1>9. ASSUME NEW t \in CachedTokens, OrphanFails(t)
      PROVE  UNCHANGED Lookup!lookups
  BY <1>9, NothingLearnt DEF OrphanFails, Seen, Lookup!lookups
<1>10. CASE UNCHANGED cacheVars
  BY <1>10, NothingLearnt DEF cacheVars, Seen, Lookup!lookups
<1> QED
  BY <1>1, <1>2, <1>3, <1>4, <1>5, <1>6, <1>7, <1>8, <1>9, <1>10 DEF CacheNext

\* The caches keep the promise of Lookups: however many calls overlap and
\* whatever fails, an answer is the chain's, what is cached stays cached, and
\* who asks for it is answered at once.
THEOREM TokensImplement ==
  ASSUME DecimalsAssumption
  PROVE  CacheSpec => TokensAsPromised
<1>1. CacheInit => Lookup!Init
  BY CacheInitLookup
<1>2. CacheInv /\ [CacheNext]_cacheVars => [Lookup!Next]_(Lookup!lookups)
  BY CacheNextLookup
<1> QED
  BY <1>1, <1>2, CacheInvInit, CacheInvStep, PTL DEF CacheSpec, TokensAsPromised, Lookup!Spec

-----------------------------------------------------------------------------
(* The memo of the proposals implements Lookups, for any hashes, ways to   *)
(* write them, and callers.                                                *)

\* Nothing but proposals is memorized.
MemoRight == MEMORIZE \subseteq {Proposal(h) : h \in Complete}

MemoCallRight(c) ==
    /\ memoPhase[c] = "idle" <=> memoWanted[c] = NoHash
    /\ memoPhase[c] = "answered" => memoResult[c] = Proposal(ipfsHash[memoWanted[c]])
    /\ memoPhase[c] = "failed" => memoResult[c] = Fallback(ipfsHash[memoWanted[c]])

MemoInv == MemoTypeOK /\ MemoRight /\ \A c \in Readers : MemoCallRight(c)
-----------------------------------------------------------------------------
\* Proposals and what stands in for them are metadata.
LEMMA TextsTyped ==
  ASSUME NEW h \in Hashes
  PROVE  /\ ipfsHash[h] \in Proposals
         /\ Proposal(ipfsHash[h]) \in MemoMetadata /\ Fallback(ipfsHash[h]) \in MemoMetadata
  BY DEF Proposals, Proposal, Fallback, MemoMetadata

\* What is memorized of a proposal is the proposal.
LEMMA MemorizedRight ==
  ASSUME MemoRight, NEW h, NEW d \in Memorized(h)
  PROVE  d = Proposal(h)
  BY DEF MemoRight, Memorized, Proposal

\* The empty memo is right.
LEMMA MemoInvInit == ASSUME MemoAssumption, MemoInit PROVE MemoInv
  BY DEF MemoInit, MemoInv, MemoTypeOK, MemoRight, MemoCallRight, MemoPhases

\* Every step of a reader keeps it right.
LEMMA MemoInvStep ==
  ASSUME MemoAssumption, MemoInv, [MemoNext]_memoVars
  PROVE  MemoInv'
<1> USE DEF MemoInv
<1>1. ASSUME NEW c \in Readers, NEW hash \in Hashes, getProposalMetadata(c, hash)
      PROVE  MemoInv'
  <2>1. CASE Memorized(ipfsHash[hash]) # {}
    <3>1. MemoEnds(c, "answered", Proposal(ipfsHash[hash]))
      BY <1>1, <2>1, MemorizedRight DEF getProposalMetadata
    <3> QED
      BY <1>1, <3>1, TextsTyped
         DEF getProposalMetadata, MemoEnds, MemoTypeOK, MemoRight, MemoCallRight, MemoPhases,
             MemoAssumption
  <2>2. CASE Memorized(ipfsHash[hash]) = {}
    BY <1>1, <2>2
       DEF getProposalMetadata, MemoTypeOK, MemoRight, MemoCallRight, MemoPhases, MemoAssumption
  <2> QED
    BY <2>1, <2>2
<1>2. ASSUME NEW c \in Readers, ResponseOk(c)
      PROVE  MemoInv'
  BY <1>2 DEF ResponseOk, MemoTypeOK, MemoRight, MemoCallRight, MemoPhases
<1>3. ASSUME NEW c \in Readers, FetchFails(c)
      PROVE  MemoInv'
  <2>1. memoWanted[c] \in Hashes
    BY <1>3 DEF FetchFails, MemoCallRight, MemoTypeOK
  <2> QED
    BY <1>3, <2>1, TextsTyped
       DEF FetchFails, MemoEnds, MemoTypeOK, MemoRight, MemoCallRight, MemoPhases
<1>4. ASSUME NEW c \in Readers, Memorize(c)
      PROVE  MemoInv'
  <2>1. memoWanted[c] \in Hashes
    BY <1>4 DEF Memorize, MemoCallRight, MemoTypeOK
  <2>2. MemoTypeOK'
    BY <1>4, <2>1, TextsTyped DEF Memorize, MemoEnds, MemoTypeOK, MemoPhases
  <2>3. MemoRight'
    BY <1>4 DEF Memorize, MemoRight
  <2> QED
    BY <1>4, <2>2, <2>3 DEF Memorize, MemoEnds, MemoCallRight, MemoTypeOK
<1>5. ASSUME NEW c \in Readers, MemoReturn(c)
      PROVE  MemoInv'
  BY <1>5 DEF MemoReturn, MemoEnds, MemoTypeOK, MemoRight, MemoCallRight, MemoPhases
<1>6. CASE UNCHANGED memoVars
  BY <1>6 DEF memoVars, MemoTypeOK, MemoRight, MemoCallRight
<1> QED
  BY <1>1, <1>2, <1>3, <1>4, <1>5, <1>6 DEF MemoNext

\* The variables of ProposalMemo keep their types, for any hashes and callers.
THEOREM MemoTyped ==
  ASSUME MemoAssumption
  PROVE  MemoSpec => []MemoTypeOK
<1>1. MemoInv => MemoTypeOK
  BY DEF MemoInv
<1> QED
  BY <1>1, MemoInvInit, MemoInvStep, PTL DEF MemoSpec
-----------------------------------------------------------------------------
\* What one caller wants, and sees.
Wants(c) == IF memoWanted[c] = NoHash THEN NoHash ELSE ipfsHash[memoWanted[c]]
MemoSees(c) ==
    CASE memoPhase[c] \in {"fetching", "reading"} -> "asked"
      [] memoPhase[c] = "answered" ->
             IF memoResult[c] = Proposal(Wants(c)) THEN "answered" ELSE "misled"
      [] memoPhase[c] = "failed" ->
             IF memoResult[c] = Fallback(Wants(c)) THEN "failed" ELSE "misled"
      [] OTHER -> "idle"

\* What Lookups sees of all readers, reader by reader.
LEMMA MemoSeenIsSees ==
  /\ Wanted = [c \in Readers |-> Wants(c)] /\ Wanted' = [c \in Readers |-> Wants(c)']
  /\ MemoSeen = [c \in Readers |-> MemoSees(c)] /\ MemoSeen' = [c \in Readers |-> MemoSees(c)']
<1>1. Wanted = [c \in Readers |-> Wants(c)] /\ Wanted' = [c \in Readers |-> Wants(c)']
  BY DEF Wanted, Wants
<1>2. \A c \in Readers : Wanted[c] = Wants(c) /\ Wanted'[c] = Wants(c)'
  BY <1>1
<1> QED
  BY <1>1, <1>2 DEF MemoSeen, MemoSees

\* A step of one caller changes what that one wants and sees alone.
LEMMA MemoOthersSeeTheSame ==
  ASSUME NEW c \in Readers,
         \A d \in Readers \ {c} : memoPhase'[d] = memoPhase[d] /\ memoResult'[d] = memoResult[d]
                                  /\ memoWanted'[d] = memoWanted[d]
  PROVE  /\ Wanted' = [Wanted EXCEPT ![c] = Wants(c)']
         /\ MemoSeen' = [MemoSeen EXCEPT ![c] = MemoSees(c)']
<1>1. ASSUME NEW d \in Readers \ {c} PROVE Wants(d)' = Wants(d) /\ MemoSees(d)' = MemoSees(d)
  BY <1>1 DEF Wants, MemoSees
<1> QED
  BY <1>1, MemoSeenIsSees

\* The empty memo knows nothing.
LEMMA MemoInitLookup == ASSUME MemoAssumption, MemoInit PROVE MemoLookup!Init
<1>1. Wanted = [c \in Readers |-> NoHash]
  BY DEF MemoInit, Wanted
<1>2. MemoSeen = [c \in Readers |-> "idle"]
  BY DEF MemoInit, MemoSeen
<1> QED
  BY <1>1, <1>2 DEF MemoLookup!Init, MemoKnown, MemoInit

\* Every step is one of Lookups, or none.
LEMMA MemoNextLookup ==
  ASSUME MemoAssumption, MemoInv, [MemoNext]_memoVars
  PROVE  [MemoLookup!Next]_(MemoLookup!lookups)
<1> USE DEF MemoInv
<1>1. ASSUME NEW c \in Readers, NEW hash \in Hashes, getProposalMetadata(c, hash)
      PROVE  MemoLookup!Next
  <2> DEFINE h == ipfsHash[hash]
  <2>1. h \in Proposals
    BY TextsTyped
  <2>2. MemoSeen[c] = "idle" /\ Wants(c)' = h
    BY <1>1 DEF getProposalMetadata, MemoSeen, Wants, MemoTypeOK, MemoAssumption
  <2>3. MemoSees(c)' = IF h \in MemoKnown THEN "answered" ELSE "asked"
    <3>1. CASE Memorized(h) # {}
      <4>1. MemoEnds(c, "answered", Proposal(h))
        BY <1>1, <3>1, MemorizedRight DEF getProposalMetadata
      <4> QED
        BY <2>2, <3>1, <4>1 DEF MemoEnds, MemoSees, MemoTypeOK, MemoKnown, Memorized
    <3>2. CASE Memorized(h) = {}
      <4>1. memoPhase'[c] = "fetching"
        BY <1>1, <3>2 DEF getProposalMetadata, MemoTypeOK
      <4> QED
        BY <3>2, <4>1 DEF MemoSees, MemoKnown, Memorized
    <3> QED
      BY <3>1, <3>2
  <2>4. /\ Wanted' = [Wanted EXCEPT ![c] = h]
        /\ MemoSeen' = [MemoSeen EXCEPT ![c] = MemoSees(c)']
    BY <1>1, <2>2, MemoOthersSeeTheSame DEF getProposalMetadata, MemoEnds, MemoTypeOK
  <2>5. MemoKnown' = MemoKnown
    BY <1>1 DEF getProposalMetadata, MemoKnown
  <2>6. MemoLookup!Ask(c, h)
    BY <2>2, <2>3, <2>4, <2>5 DEF MemoLookup!Ask
  <2> QED
    BY <2>1, <2>6 DEF MemoLookup!Next
<1>2. ASSUME NEW c \in Readers, ResponseOk(c)
      PROVE  UNCHANGED MemoLookup!lookups
  <2>1. Wants(c)' = Wants(c) /\ MemoSees(c)' = MemoSees(c)
    BY <1>2 DEF ResponseOk, Wants, MemoSees, MemoTypeOK
  <2>2. Wanted' = Wanted /\ MemoSeen' = MemoSeen
    BY <1>2, <2>1, MemoOthersSeeTheSame, MemoSeenIsSees DEF ResponseOk, MemoTypeOK
  <2> QED
    BY <1>2, <2>2 DEF ResponseOk, MemoKnown, MemoLookup!lookups
<1>3. ASSUME NEW c \in Readers, FetchFails(c)
      PROVE  MemoLookup!Next
  <2>1. MemoSeen[c] = "asked" /\ Wants(c)' = Wants(c) /\ MemoSees(c)' = "failed"
    BY <1>3 DEF FetchFails, MemoEnds, MemoSeen, Wants, MemoSees, MemoTypeOK, MemoCallRight
  <2>2. Wanted' = Wanted /\ MemoSeen' = [MemoSeen EXCEPT ![c] = "failed"]
    BY <1>3, <2>1, MemoOthersSeeTheSame, MemoSeenIsSees DEF FetchFails, MemoEnds, MemoTypeOK
  <2>3. MemoLookup!Fail(c)
    BY <1>3, <2>1, <2>2 DEF FetchFails, MemoKnown, MemoLookup!Fail
  <2> QED
    BY <2>3 DEF MemoLookup!Next
<1>4. ASSUME NEW c \in Readers, Memorize(c)
      PROVE  MemoLookup!Next
  <2> DEFINE h == ipfsHash[memoWanted[c]]
  <2>1. MemoSeen[c] = "asked" /\ Wanted[c] = h
    BY <1>4 DEF Memorize, MemoSeen, Wanted, MemoCallRight
  <2>2. Wants(c)' = Wants(c) /\ MemoSees(c)' = "answered"
    BY <1>4 DEF Memorize, MemoEnds, Wants, MemoSees, MemoTypeOK, MemoCallRight
  <2>3. Wanted' = Wanted /\ MemoSeen' = [MemoSeen EXCEPT ![c] = "answered"]
    BY <1>4, <2>2, MemoOthersSeeTheSame, MemoSeenIsSees DEF Memorize, MemoEnds, MemoTypeOK
  <2>4. MemoKnown' = MemoKnown \cup ({Wanted[c]} \cap Complete)
    <3>1. MEMORIZE' = {d \in MEMORIZE : d.ipfsHash # h} \cup {Proposal(h)} /\ h \in Complete
      BY <1>4 DEF Memorize
    <3>2. Proposal(h).ipfsHash = h
      BY DEF Proposal
    <3> QED
      BY <2>1, <3>1, <3>2 DEF MemoKnown
  <2>5. MemoLookup!Answer(c)
    BY <2>1, <2>3, <2>4 DEF MemoLookup!Answer
  <2> QED
    BY <2>5 DEF MemoLookup!Next
<1>5. ASSUME NEW c \in Readers, MemoReturn(c)
      PROVE  MemoLookup!Next
  <2>1. MemoSeen[c] \in {"answered", "failed"}
    <3>1. Wanted[c] = ipfsHash[memoWanted[c]]
      BY <1>5 DEF MemoReturn, Wanted, MemoCallRight
    <3> QED
      BY <1>5, <3>1 DEF MemoReturn, MemoSeen, MemoCallRight
  <2>2. Wants(c)' = NoHash /\ MemoSees(c)' = "idle"
    BY <1>5 DEF MemoReturn, MemoEnds, Wants, MemoSees, MemoTypeOK
  <2>3. Wanted' = [Wanted EXCEPT ![c] = NoHash] /\ MemoSeen' = [MemoSeen EXCEPT ![c] = "idle"]
    BY <1>5, <2>2, MemoOthersSeeTheSame DEF MemoReturn, MemoEnds, MemoTypeOK
  <2>4. MemoLookup!Return(c)
    BY <1>5, <2>1, <2>3 DEF MemoReturn, MemoKnown, MemoLookup!Return
  <2> QED
    BY <2>4 DEF MemoLookup!Next
<1>6. CASE UNCHANGED memoVars
  <2>1. Wanted' = Wanted
    BY <1>6 DEF memoVars, Wanted
  <2>2. MemoSeen' = MemoSeen /\ MemoKnown' = MemoKnown
    BY <1>6, <2>1 DEF memoVars, MemoSeen, MemoKnown
  <2> QED
    BY <2>1, <2>2 DEF MemoLookup!lookups
<1> QED
  BY <1>1, <1>2, <1>3, <1>4, <1>5, <1>6 DEF MemoNext

\* The memo keeps the promise of Lookups: whatever fails, and however a hash is
\* written, a caller is given the proposal or told that it cannot be shown, and
\* once anybody was given it, everybody is, at once.
THEOREM ProposalsImplement ==
  ASSUME MemoAssumption
  PROVE  MemoSpec => ProposalsAsPromised
<1>1. MemoInit => MemoLookup!Init
  BY MemoInitLookup
<1>2. MemoInv /\ [MemoNext]_memoVars => [MemoLookup!Next]_(MemoLookup!lookups)
  BY MemoNextLookup
<1> QED
  BY <1>1, <1>2, MemoInvInit, MemoInvStep, PTL DEF MemoSpec, ProposalsAsPromised, MemoLookup!Spec

-----------------------------------------------------------------------------
(* Rewards get the prices of their own tokens, for any tokens and rewards, *)
(* however often aggregators are replaced.                                 *)

IsFeed(s, t) == \E k \in 0..MaxReplacements : s = Feed(t, k)

\* A fulfilled feed is of its token, and of one aggregator unless another one
\* came in between.
FeedsRight ==
    \A f \in feeds :
        /\ IsFeed(f.answer, f.token) /\ IsFeed(f.decimals, f.token)
        /\ f.answer # f.decimals => f.token \in replaced

\* So is the first half of one.
HalvesRight ==
    \A t \in RewardTokens :
        settling[t].stage = "decimals" =>
            /\ feedPhase # "incentives"
            /\ feedPhase = "feeds" =>
                  /\ IsFeed(settling[t].answer, t)
                  /\ settling[t].answer # Feed(t, aggregator[t]) => t \in replaced

FeedsInv == FeedsTypeOK /\ FeedsRight /\ HalvesRight /\ RewardsPriced
-----------------------------------------------------------------------------
\* A feed of a token is a source of prices.
LEMMA FeedTyped ==
  ASSUME NEW t \in RewardTokens, NEW k \in 0..MaxReplacements
  PROVE  Feed(t, k) \in Sources
  BY DEF Feed, Sources

\* No price is a price, and no answer an answer.
LEMMA UnpricedTyped ==
  ASSUME FeedsAssumption
  PROVE  /\ Unpriced \in [Rewards -> Prices]
         /\ Unsettled \in [RewardTokens -> [stage : {"latestRoundData", "decimals", "settled"},
                                      answer : Sources]]
  BY DEF Unpriced, Unsettled, Prices, Nowhere, Sources

\* The feed that is found, if there is one, is of the token.
LEMMA FindRight ==
  ASSUME NEW t
  PROVE  /\ (\E f \in feeds : f.token = t) => Find(t) \in feeds /\ Find(t).token = t
         /\ ~(\E f \in feeds : f.token = t) => Find(t) = Missing(t)
  BY DEF Find

\* The sources are told apart.
LEMMA Apart ==
  ASSUME NEW t, NEW s, IsFeed(s, t)
  PROVE  s.from = "feed" /\ s.token = t /\ s # Nowhere
<1>1. PICK k \in 0..MaxReplacements : s = Feed(t, k)
  BY DEF IsFeed
<1>2. Nowhere.from = "nowhere" /\ s.from = "feed" /\ s.token = t
  BY <1>1 DEF Feed, Nowhere
<1> QED
  BY <1>2

\* With all feeds settled, what rewards are priced with is as stated.
LEMMA PricedRight ==
  ASSUME FeedsTypeOK, FeedsRight, NEW t \in RewardTokens, NEW v \in {"v2", "v3"},
         NEW p, p = IF v = "v3" THEN WithPriceLegacy(t) ELSE WithPrice(t)
  PROVE  LET fulfilled == \E f \in feeds : f.token = t
         IN  /\ p \in Prices
             /\ fulfilled => p.answer.from = "feed" /\ p.answer.token = t
             /\ ~fulfilled => p.answer = IF v = "v3" THEN OfIncentives(t) ELSE Nowhere
             /\ p.decimals # p.answer =>
                    fulfilled /\ (t \in replaced \/ (v = "v3" /\ t \in NoDecimals))
<1>1. CASE \E f \in feeds : f.token = t
  <2> DEFINE f == Find(t)
  <2>1. f \in feeds /\ f.token = t
    BY <1>1, FindRight
  <2>2. /\ f.answer \in Sources /\ f.decimals \in Sources
        /\ IsFeed(f.answer, t)
        /\ f.answer # f.decimals => t \in replaced
    BY <2>1 DEF FeedsTypeOK, FeedsRight
  <2>3. f.answer.from = "feed" /\ f.answer.token = t /\ f # Missing(t)
    BY <2>2, Apart DEF Missing
  <2>4. CASE v = "v3"
    <3>1. p.answer = f.answer
      BY <2>3, <2>4 DEF WithPriceLegacy
    <3>2. p.decimals = IF t \in NoDecimals THEN OfIncentives(t) ELSE f.decimals
      BY <2>3, <2>4 DEF WithPriceLegacy
    <3>3. p \in Prices
      BY <2>2, <2>3, <2>4 DEF WithPriceLegacy, Prices, OfIncentives, Sources
    <3> QED
      BY <1>1, <2>2, <2>3, <2>4, <3>1, <3>2, <3>3
  <2>5. CASE v = "v2"
    <3>1. p = [answer |-> f.answer, decimals |-> f.decimals]
      BY <2>5 DEF WithPrice
    <3> QED
      BY <1>1, <2>2, <2>3, <3>1 DEF Prices
  <2> QED
    BY <2>4, <2>5
<1>2. CASE ~(\E f \in feeds : f.token = t)
  <2>1. Find(t) = Missing(t)
    BY <1>2, FindRight
  <2>2. p = IF v = "v3" THEN [answer |-> OfIncentives(t), decimals |-> OfIncentives(t)]
            ELSE [answer |-> Nowhere, decimals |-> Nowhere]
    BY <2>1 DEF WithPriceLegacy, WithPrice, Missing
  <2> QED
    BY <1>2, <2>2 DEF Prices, OfIncentives, Nowhere, Sources
<1> QED
  BY <1>1, <1>2

\* At first no reward is priced.
LEMMA FeedsInvInit == ASSUME FeedsAssumption, FeedsInit PROVE FeedsInv
  BY UnpricedTyped
     DEF FeedsAssumption, FeedsInit, FeedsInv, FeedsTypeOK, FeedsRight, HalvesRight, RewardsPriced,
         Unsettled

\* Every step prices rewards by their own tokens.
LEMMA FeedsInvStep ==
  ASSUME FeedsAssumption, FeedsInv, [FeedsNext]_feedVars
  PROVE  FeedsInv'
<1> USE DEF FeedsInv
<1>1. ASSUME NEW v \in {"v2", "v3"}, ReadPrices(v)
      PROVE  FeedsInv'
  BY <1>1, UnpricedTyped
     DEF ReadPrices, FeedsTypeOK, FeedsRight, HalvesRight, RewardsPriced, Unsettled
<1>2. ASSUME NEW registry \in BOOLEAN, ReadIncentives(registry)
      PROVE  FeedsInv'
  <2>1. FeedsTypeOK'
    BY <1>2 DEF ReadIncentives, FeedsTypeOK
  <2>2. HalvesRight'
    BY <1>2 DEF ReadIncentives, HalvesRight, FeedsTypeOK
  <2> QED
    BY <1>2, <2>1, <2>2 DEF ReadIncentives, FeedsRight, RewardsPriced
<1>3. CASE IncentivesFail
  BY <1>3 DEF IncentivesFail, FeedsTypeOK, FeedsRight, HalvesRight, RewardsPriced
<1>4. CASE AllSettled
  <2>1. \A r \in Rewards : rewardToken[r] \in RewardTokens
    BY DEF FeedsAssumption
  <2>2. priced' \in [Rewards -> Prices] /\ RewardsPriced'
    BY <1>4, <2>1, PricedRight DEF AllSettled, RewardsPriced, FeedsTypeOK
  <2> QED
    BY <1>4, <2>2 DEF AllSettled, FeedsTypeOK, FeedsRight, HalvesRight
<1>5. CASE FeedsReturn
  BY <1>5 DEF FeedsReturn, FeedsTypeOK, FeedsRight, HalvesRight, RewardsPriced
<1>6. ASSUME NEW t \in RewardTokens, ReadRound(t)
      PROVE  FeedsInv'
  <2>1. aggregator[t] \in 0..MaxReplacements /\ Feed(t, aggregator[t]) \in Sources
    BY FeedTyped DEF FeedsTypeOK
  <2>2. FeedsTypeOK'
    BY <1>6, <2>1 DEF ReadRound, FeedsTypeOK
  <2>3. HalvesRight'
    BY <1>6, <2>1 DEF ReadRound, HalvesRight, IsFeed, FeedsTypeOK
  <2> QED
    BY <1>6, <2>2, <2>3 DEF ReadRound, FeedsRight, RewardsPriced
<1>7. ASSUME NEW t \in RewardTokens, ReadDecimals(t)
      PROVE  FeedsInv'
  <2> DEFINE f == [token |-> t, answer |-> settling[t].answer,
                   decimals |-> Feed(t, aggregator[t])]
  <2>1. aggregator[t] \in 0..MaxReplacements /\ Feed(t, aggregator[t]) \in Sources
    BY FeedTyped DEF FeedsTypeOK
  <2>2. FeedsTypeOK'
    BY <1>7, <2>1 DEF ReadDecimals, FeedsTypeOK
  <2>3. /\ IsFeed(f.answer, f.token) /\ IsFeed(f.decimals, f.token)
        /\ f.answer # f.decimals => f.token \in replaced
    BY <1>7, <2>1 DEF ReadDecimals, HalvesRight, IsFeed
  <2>4. FeedsRight'
    BY <1>7, <2>3 DEF ReadDecimals, FeedsRight, IsFeed
  <2>5. HalvesRight'
    BY <1>7 DEF ReadDecimals, HalvesRight, IsFeed, FeedsTypeOK
  <2> QED
    BY <1>7, <2>2, <2>4, <2>5 DEF ReadDecimals, RewardsPriced
<1>8. ASSUME NEW t \in RewardTokens, FeedFails(t)
      PROVE  FeedsInv'
  BY <1>8 DEF FeedFails, FeedsTypeOK, FeedsRight, HalvesRight, RewardsPriced, IsFeed
<1>9. ASSUME NEW t \in RewardTokens, ReplaceAggregator(t)
      PROVE  FeedsInv'
  <2>1. FeedsTypeOK'
    BY <1>9 DEF ReplaceAggregator, FeedsTypeOK, FeedsAssumption
  <2>2. replaced \subseteq replaced'
    BY <1>9 DEF ReplaceAggregator
  <2>3. FeedsRight'
    BY <1>9, <2>2 DEF ReplaceAggregator, FeedsRight, IsFeed
  <2>4. HalvesRight'
    BY <1>9, <2>2 DEF ReplaceAggregator, HalvesRight, IsFeed, FeedsTypeOK
  <2>5. RewardsPriced'
    BY <1>9, <2>2 DEF ReplaceAggregator, RewardsPriced
  <2> QED
    BY <2>1, <2>3, <2>4, <2>5
<1>10. CASE UNCHANGED feedVars
  BY <1>10 DEF feedVars, FeedsTypeOK, FeedsRight, HalvesRight, RewardsPriced
<1> QED
  BY <1>1, <1>2, <1>3, <1>4, <1>5, <1>6, <1>7, <1>8, <1>9, <1>10 DEF FeedsNext

\* The variables of PriceFeeds keep their types, for any tokens and rewards.
THEOREM FeedsTyped ==
  ASSUME FeedsAssumption
  PROVE  FeedsSpec => []FeedsTypeOK
<1>1. FeedsInv => FeedsTypeOK
  BY DEF FeedsInv
<1> QED
  BY <1>1, FeedsInvInit, FeedsInvStep, PTL DEF FeedsSpec

\* Whichever feeds fail, a reward is priced by its own token, price and decimals
\* from one source but for the two exceptions of RewardsPriced.
THEOREM RewardsPricedRight ==
  ASSUME FeedsAssumption
  PROVE  FeedsSpec => []RewardsPriced
<1>1. FeedsInv => RewardsPriced
  BY DEF FeedsInv
<1> QED
  BY <1>1, FeedsInvInit, FeedsInvStep, PTL DEF FeedsSpec

-----------------------------------------------------------------------------
(* No transaction is sent with less gas than it was estimated to need, for *)
(* any estimates, recommendations and surpluses below Polygon's.           *)

\* A surplus is due that is no more than the one that will be added.
DueRight ==
    /\ gasPhase = "getNetwork" => dueOn \in {"other", network}
    /\ gasPhase = "estimateGas" => estimated = 0

GasInv == GasTypeOK /\ DueRight /\ LimitSuffices
-----------------------------------------------------------------------------
\* A recommended limit is a number.
LEMMA LimitTyped ==
  ASSUME GasAssumption, NEW a \in DOMAIN Recommendations \cup {NoAction}
  PROVE  LimitOf(a) \in Nat
  BY DEF GasAssumption, LimitOf

\* A larger surplus makes a larger limit, rounded down or not.
LEMMA SurplusGrows ==
  ASSUME NEW gas \in Nat, NEW s \in Nat, NEW t \in Nat, s <= t
  PROVE  /\ gas + (gas * s) \div 100 \in Nat
         /\ gas + (gas * s) \div 100 <= gas + (gas * t) \div 100
<1>1. gas * s \in Nat /\ gas * t \in Nat /\ gas * s <= gas * t
  OBVIOUS
<1> QED
  BY <1>1

\* A surplus takes nothing away.
LEMMA WithSurplusRight ==
  ASSUME GasAssumption, NEW gas \in Nat, NEW s \in Surpluses \cup {NoSurplus},
         NEW on \in Networks
  PROVE  /\ WithSurplus(gas, s, on) \in Nat
         /\ WithSurplus(gas, s, "other") <= WithSurplus(gas, s, on)
<1>1. s \in Nat /\ s <= 29
  BY DEF GasAssumption, NoSurplus
<1> DEFINE added == IF s = NoSurplus THEN 30 ELSE s
<1>2. added \in Nat /\ added <= 60
  BY <1>1
<1> HIDE DEF added
<1>3. /\ gas + (gas * added) \div 100 \in Nat /\ gas + (gas * 60) \div 100 \in Nat
      /\ gas + (gas * added) \div 100 <= gas + (gas * 60) \div 100
  BY <1>2, SurplusGrows
<1>4. /\ WithSurplus(gas, s, "other") = gas + (gas * added) \div 100
      /\ on = "other" => WithSurplus(gas, s, on) = gas + (gas * added) \div 100
      /\ on = "polygon" => WithSurplus(gas, s, on) = gas + (gas * 60) \div 100
  BY DEF WithSurplus, added
<1> QED
  BY <1>3, <1>4 DEF Networks

\* Nothing estimated needs nothing.
LEMMA NothingDue == ASSUME NEW s \in Nat, NEW on PROVE WithSurplus(0, s, on) = 0
<1>1. \A t \in Nat : (0 * t) \div 100 = 0
  OBVIOUS
<1> QED
  BY <1>1 DEF WithSurplus, NoSurplus

\* What tx() recommends instead of an estimate is no less.
LEMMA RecommendedRight ==
  ASSUME GasAssumption, NEW gas \in Nat, NEW a \in DOMAIN Recommendations \cup {NoAction}
  PROVE  /\ Recommended(gas, a) \in Nat /\ gas <= Recommended(gas, a)
         /\ a # NoAction => LimitOf(a) <= Recommended(gas, a)
  BY DEF GasAssumption, Recommended, LimitOf

\* At first no gas is due.
LEMMA GasInvInit == ASSUME GasAssumption, GasInit PROVE GasInv
  BY DEF GasInit, GasInv, GasTypeOK, DueRight, LimitSuffices, Call, Networks

\* Every step keeps the limit above what is due.
LEMMA GasInvStep ==
  ASSUME GasAssumption, GasInv, [GasNext]_gasVars
  PROVE  GasInv'
<1> USE DEF GasInv
<1>1. ASSUME NEW new \in Call, EstimateGas(new)
      PROVE  GasInv'
  BY <1>1 DEF EstimateGas, GasTypeOK, DueRight, LimitSuffices
<1>2. ASSUME NEW new \in Call, SkipGasEstimation(new)
      PROVE  GasInv'
  <2>1. new.gasSurplus \in Nat /\ new.action \in DOMAIN Recommendations \cup {NoAction}
    BY DEF Call, GasAssumption, NoSurplus
  <2>2. LimitOf(new.action) \in Nat /\ WithSurplus(0, new.gasSurplus, dueOn) = 0
    BY <2>1, LimitTyped, NothingDue
  <2> QED
    BY <1>2, <2>2 DEF SkipGasEstimation, Ends, GasTypeOK, DueRight, LimitSuffices
<1>3. ASSUME NEW gas \in Estimates, Estimated(gas)
      PROVE  GasInv'
  BY <1>3 DEF Estimated, GasTypeOK, DueRight, LimitSuffices, GasAssumption
<1>4. CASE NetworkAnswered
  <2> DEFINE gas == WithSurplus(estimated, call.gasSurplus, network)
             limit == LimitOf(call.action)
             due == WithSurplus(estimated, call.gasSurplus, dueOn)
  <2>1. /\ call.gasSurplus \in Surpluses \cup {NoSurplus} /\ network \in Networks
        /\ call.action \in DOMAIN Recommendations \cup {NoAction} /\ estimated \in Nat
        /\ call.method \in {"tx", "estimateGasLimit"}
    BY DEF GasTypeOK, Call, GasAssumption
  <2>2. gas \in Nat /\ limit \in Nat
    BY <2>1, LimitTyped, WithSurplusRight
  <2>3. due \in Nat /\ due <= gas
    BY <1>4, <2>1, WithSurplusRight DEF NetworkAnswered, DueRight, Networks
  <2>4. /\ Recommended(gas, call.action) \in Nat /\ gas <= Recommended(gas, call.action)
        /\ call.action # NoAction => limit <= Recommended(gas, call.action)
    BY <2>1, <2>2, RecommendedRight
  <2>5. /\ gasPhase' = "done" /\ UNCHANGED <<network, call, estimated, dueOn>>
        /\ gasLimit' = IF call.method = "tx" THEN Recommended(gas, call.action)
                       ELSE IF gas > limit THEN gas ELSE limit
    BY <1>4 DEF NetworkAnswered, Ends
  <2> HIDE DEF gas, limit, due
  <2>6. /\ gasLimit' \in Nat /\ due <= gasLimit'
        /\ call.action # NoAction \/ call.method = "estimateGasLimit" => limit <= gasLimit'
    BY <2>1, <2>2, <2>3, <2>4, <2>5
  <2>7. GasTypeOK'
    BY <2>5, <2>6 DEF GasTypeOK
  <2>8. LimitSuffices'
    BY <2>2, <2>3, <2>5, <2>6 DEF LimitSuffices, limit, due
  <2> QED
    BY <2>1, <2>5, <2>7, <2>8 DEF DueRight
<1>5. CASE EstimateFails
  <2>1. /\ call.gasSurplus \in Nat /\ call.method \in {"tx", "estimateGasLimit"}
        /\ call.action \in DOMAIN Recommendations \cup {NoAction}
    BY DEF GasTypeOK, Call, GasAssumption, NoSurplus
  <2>2. LimitOf(call.action) \in Nat /\ WithSurplus(0, call.gasSurplus, dueOn) = 0
    BY <2>1, LimitTyped, NothingDue
  <2> QED
    BY <1>5, <2>1, <2>2 DEF EstimateFails, Ends, GasTypeOK, DueRight, LimitSuffices
<1>6. CASE GasReturn
  BY <1>6 DEF GasReturn, GasTypeOK, DueRight, LimitSuffices
<1>7. ASSUME NEW on \in Networks, SwitchNetwork(on)
      PROVE  GasInv'
  BY <1>7 DEF SwitchNetwork, GasTypeOK, DueRight, LimitSuffices, Networks
<1>8. CASE UNCHANGED gasVars
  BY <1>8 DEF gasVars, GasTypeOK, DueRight, LimitSuffices
<1> QED
  BY <1>1, <1>2, <1>3, <1>4, <1>5, <1>6, <1>7, <1>8 DEF GasNext

\* For any estimates, recommendations and surpluses, no transaction is sent with
\* less gas than LimitSuffices says.
THEOREM LimitsSuffice ==
  ASSUME GasAssumption
  PROVE  GasSpec => [](GasTypeOK /\ LimitSuffices)
<1>1. GasInv => GasTypeOK /\ LimitSuffices
  BY DEF GasInv
<1> QED
  BY <1>1, GasInvInit, GasInvStep, PTL DEF GasSpec

-----------------------------------------------------------------------------
\* Together.
\* The five parts begin right.
LEMMA ReadsInvInit ==
  ReadsInit => IncentivesInv /\ CacheInv /\ MemoInv /\ FeedsInv /\ GasInv
BY ReadsAssumption, IncentivesInit, CacheInvInit, MemoInvInit, FeedsInvInit, GasInvInit
   DEF ReadsInit

\* A step of one leaves the others as they are.
LEMMA ReadsInvStep ==
  ASSUME IncentivesInv, CacheInv, MemoInv, FeedsInv, GasInv, [ReadsNext]_allVars
  PROVE  IncentivesInv' /\ CacheInv' /\ MemoInv' /\ FeedsInv' /\ GasInv'
<1>1. /\ [Next]_vars /\ [CacheNext]_cacheVars /\ [MemoNext]_memoVars
      /\ [FeedsNext]_feedVars /\ [GasNext]_gasVars
  BY DEF ReadsNext, allVars
<1> QED
  BY <1>1, ReadsAssumption, IncentivesStep, CacheInvStep, MemoInvStep, FeedsInvStep, GasInvStep

\* Whatever is read, and for any tokens, callers, hashes, rewards and estimates,
\* the variables keep their types.
THEOREM ReadsTyped == ReadsSpec => []ReadsTypeOK
<1> DEFINE Inv == IncentivesInv /\ CacheInv /\ MemoInv /\ FeedsInv /\ GasInv
<1>1. ReadsInit => Inv
  BY ReadsInvInit
<1>2. Inv /\ [ReadsNext]_allVars => Inv'
  BY ReadsInvStep
<1>3. Inv => ReadsTypeOK
  BY DEF IncentivesInv, CacheInv, MemoInv, FeedsInv, GasInv, ReadsTypeOK
<1> QED
  BY <1>1, <1>2, <1>3, PTL DEF ReadsSpec
=============================================================================
