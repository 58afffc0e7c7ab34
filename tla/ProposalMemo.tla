---------------------------- MODULE ProposalMemo ----------------------------
(***************************************************************************)
(* getProposalMetadata and the memo that all callers of a process share.   *)
(* A proposal is named by its IPFS hash, in base58 or as 0x and hex digits *)
(* (of which the prefix is cut); a gateway, which each caller may choose,  *)
(* is asked for it, and the text of the answer is awaited after its        *)
(* status.  Whatever fails, the caller gets a text that says so, and the   *)
(* memo nothing.                                                           *)
(***************************************************************************)
CONSTANTS Readers,
          Hashes,    \* ways to write the hash of a proposal
          ipfsHash,  \* what each of them is converted to
          Complete   \* converted ones whose proposal has all the fields

NoHash == ""

MemoAssumption ==
    /\ NoHash \notin Hashes
    /\ ipfsHash \in [Hashes -> Hashes]
    /\ \A h \in Hashes : ipfsHash[ipfsHash[h]] = ipfsHash[h]
    /\ Complete \subseteq {ipfsHash[h] : h \in Hashes}

VARIABLES
    MEMORIZE,    \* metadata that were fetched
    memoPhase,   \* where each caller's call is
    memoWanted,  \* the hash it was given
    memoResult   \* the metadata it returned

memoVars == <<MEMORIZE, memoPhase, memoWanted, memoResult>>

Proposals == {ipfsHash[h] : h \in Hashes}
MemoPhases == {"idle", "fetching", "reading", "answered", "failed"}
MemoMetadata == [ipfsHash : Proposals, valid : BOOLEAN]

\* The proposal, and the text in place of one.
Proposal(h) == [ipfsHash |-> h, valid |-> TRUE]
Fallback(h) == [ipfsHash |-> h, valid |-> FALSE]
NoMetadata == Fallback(NoHash)

MemoTypeOK ==
    /\ MEMORIZE \in SUBSET MemoMetadata
    /\ memoPhase \in [Readers -> MemoPhases]
    /\ memoWanted \in [Readers -> Hashes \cup {NoHash}]
    /\ memoResult \in [Readers -> MemoMetadata \cup {NoMetadata}]

MemoInit ==
    /\ MEMORIZE = {}
    /\ memoPhase = [c \in Readers |-> "idle"]
    /\ memoWanted = [c \in Readers |-> NoHash]
    /\ memoResult = [c \in Readers |-> NoMetadata]

-----------------------------------------------------------------------------
MemoEnds(c, how, metadata) ==
    /\ memoPhase' = [memoPhase EXCEPT ![c] = how]
    /\ memoResult' = [memoResult EXCEPT ![c] = metadata]

Memorized(h) == {d \in MEMORIZE : d.ipfsHash = h}

getProposalMetadata(c, hash) ==
    LET h == ipfsHash[hash] IN
    /\ memoPhase[c] = "idle"
    /\ memoWanted' = [memoWanted EXCEPT ![c] = hash]
    /\ IF Memorized(h) # {}
       THEN \E d \in Memorized(h) : MemoEnds(c, "answered", d)
       ELSE /\ memoPhase' = [memoPhase EXCEPT ![c] = "fetching"]
            /\ UNCHANGED memoResult
    /\ UNCHANGED MEMORIZE

\* The gateway answers with the status ok.
ResponseOk(c) ==
    /\ memoPhase[c] = "fetching"
    /\ memoPhase' = [memoPhase EXCEPT ![c] = "reading"]
    /\ UNCHANGED <<MEMORIZE, memoWanted, memoResult>>

\* FetchFails, mutated: the text that stands in is memorized too.
Bug_FetchFails(c) ==
    LET text == Fallback(ipfsHash[memoWanted[c]]) IN
    /\ memoPhase[c] \in {"fetching", "reading"}
    /\ MemoEnds(c, "failed", text)
    /\ MEMORIZE' = MEMORIZE \cup {text}
    /\ UNCHANGED memoWanted

\* The gateway cannot be reached or answers with an error; the text is broken
\* off, is no JSON or lacks a field.
FetchFails(c) ==
    /\ memoPhase[c] \in {"fetching", "reading"}
    /\ MemoEnds(c, "failed", Fallback(ipfsHash[memoWanted[c]]))
    /\ UNCHANGED <<MEMORIZE, memoWanted>>

\* The text is there, with all the fields.
Memorize(c) ==
    LET h == ipfsHash[memoWanted[c]] IN
    /\ memoPhase[c] = "reading" /\ h \in Complete
    /\ MEMORIZE' = {d \in MEMORIZE : d.ipfsHash # h} \cup {Proposal(h)}
    /\ MemoEnds(c, "answered", Proposal(h))
    /\ UNCHANGED memoWanted

\* The client has its answer.
MemoReturn(c) ==
    /\ memoPhase[c] \in {"answered", "failed"}
    /\ MemoEnds(c, "idle", NoMetadata)
    /\ memoWanted' = [memoWanted EXCEPT ![c] = NoHash]
    /\ UNCHANGED MEMORIZE

MemoNext ==
    \E c \in Readers :
        \/ \E hash \in Hashes : getProposalMetadata(c, hash)
        \/ ResponseOk(c) \/ FetchFails(c) \/ Memorize(c) \/ MemoReturn(c)

MemoSpec == MemoInit /\ [][MemoNext]_memoVars
-----------------------------------------------------------------------------
\* What a caller of Lookups would see, by the hashes as they are converted.  It
\* looks at the text alone to tell whether it is the proposal.
MemoKnown == {d.ipfsHash : d \in MEMORIZE}
Wanted ==
    [c \in Readers |->
        IF memoWanted[c] = NoHash THEN NoHash ELSE ipfsHash[memoWanted[c]]]
MemoSeen ==
    [c \in Readers |->
        CASE memoPhase[c] \in {"fetching", "reading"} -> "asked"
          [] memoPhase[c] = "answered" ->
                 IF memoResult[c] = Proposal(Wanted[c]) THEN "answered" ELSE "misled"
          [] memoPhase[c] = "failed" ->
                 IF memoResult[c] = Fallback(Wanted[c]) THEN "failed" ELSE "misled"
          [] OTHER -> "idle"]

MemoLookup ==
    INSTANCE Lookups WITH Callers <- Readers, Keys <- Proposals, NoKey <- NoHash,
                          Lasting <- Complete, Builtin <- {},
                          known <- MemoKnown, phase <- MemoSeen, wanted <- Wanted

\* A caller is given the proposal it asked for, or the text that says that it
\* cannot be shown, under the proposal's hash in either case; once anybody was
\* given the proposal everybody is, at once and however the hash is written,
\* and a failure stays with the caller who met it (getProposalMetadata).
ProposalsAsPromised == MemoLookup!Spec

=============================================================================
