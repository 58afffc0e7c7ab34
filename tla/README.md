# TLA+ models of lootbridge-utilities

The repository is a TypeScript SDK in two packages. `contract-helpers` builds
the transactions of the lending protocol for a client (a web front end) to sign
and send, and reads the protocol's state; `math-utils` computes balances,
rates and incentives from what was read. This directory holds TLA+ modules of
the SDK, the TLC configurations that check them and theorems proved with TLAPS.
Paths below are relative to `packages/`, with `CH` for `contract-helpers/src`
and `MU` for `math-utils/src`.

## The system

| component | source | state it keeps | operations | interacts with |
|---|---|---|---|---|
| Pool (v3) | `CH/v3-pool-contract` | addresses; contract instances | 16 transaction methods, signERC20Approval | ERC20Service, Synthetix, WBNB gateway, L2Pool, adapters |
| L2Pool | `CH/v3-pool-rollups` | encoder contract (lazily) | the optimized path of 10 Pool methods; raw encoders | called by Pool, which hands over its array of transactions |
| LendingPool (v2) | `CH/lendingPool-contract` | as Pool | 11 transaction methods | as Pool, without L2 |
| WBNB gateway | `CH/wbnbgateway-contract` | encoders | deposit, borrow, withdraw, repay of the native asset | called by the pools; BaseDebtToken, ERC20Service |
| Staking | `CH/staking-contract` | addresses | stake, redeem, cooldown, claim, signatures | ERC20Service |
| Adapters | `CH/*SwapAdapter*`, `CH/*repayWithCollateral*` | none | wrap the swap or repay action | called by the pools |
| BaseService, gas station | `CH/commons` | contract instances | `tx()` and `gas()` of every transaction | the provider |
| ERC20Service, BaseDebtToken, ERC20 permit | `CH/erc20-contract`, `CH/baseDebtToken-contract`, `CH/erc20-2612` | caches of decimals and metadata | isApproved, approve, decimalsOf, getTokenData, nonces | the provider; used by all the above |
| Validators | `CH/commons/validators` | parameter metadata | accept, throw, or make the method return `[]` | decorate every public method |
| V3 migration | `CH/v3-migration-contract` | none | migrate: several approvals and one action | ERC20Service, BaseDebtToken |
| Bundles | `CH/*-contract-bundle` | encoders | synchronous transaction data, signed or not | ERC20Service, L2Pool |
| Governance, power delegation | `CH/governance-*`, `CH/commons/ipfs.ts` | memo of proposal metadata | proposals, votes, delegation by signature | the provider, IPFS gateways |
| Incentives, faucets | `CH/incentive-controller*`, `CH/*faucet*` | none | one transaction each | |
| Price feeds, UI providers | `CH/cl-feed-registry`, `CH/*ui*` , `CH/wallet-balance-provider`, `CH/permissions-manager` | feed services | reads reshaped for display | the provider |
| math-utils | `MU` | none | pure arithmetic | |

What is hard here.  Every method is `async`: it reads the chain several times,
and between two awaits other calls of the same client, the user's wallet and
the chain go on.  A decision taken on a read (is the allowance enough? which
nonce?) is acted on much later, by a transaction that a client sends after
another one was mined, or not at all.  The caches are filled after an await.
Amounts cross several representations (decimal string, least unit, MaxUint256
for `'-1'`).  Whole families of methods repeat one skeleton by hand, so a slip
in one of them is easily missed; and since contract functions are encoded by position,
values that change places are no type error.

What makes each component right:

- *pools, gateway, staking*: on every path of every method the allowance that
  is checked is the one approved and the one spent; nothing reverts for want of
  an allowance unless it was taken away after the check; overlapping calls do
  not make one another fail; approvals are asked for once; a batch never gets
  stuck between its approval and its action;
- *BaseService*: `gas()` answers although the approval is pending; the limit is
  never below the estimate plus surplus, whichever branch is taken;
- *the arguments of every method*: what was asked for arrives at the contract, in
  the place it is meant for, in units of its own token; nothing is dropped on
  the way through another service; what a decorator is to keep out is kept out,
  and who is turned away can see why;
- *ERC20Service and the metadata memo*: a cache never answers anything the
  chain or the gateway did not say, and failures are not remembered;
- *signatures*: a signature is used with the nonce it was made for;
- *migration*: every approval the action needs is in the batch, and no approval
  lowers what a concurrent call relies on;
- *price feeds*: a token never gets another token's price;
- *math-utils*: what is shown as claimable, available or liquid is what the
  contracts would pay or lend, within the rounding, and reads that are torn or
  old never promise more.

## Modules

### Operations

Every transaction method of the five services is the same skeleton: validate;
await some reads; if the allowance that was read is too small, push an
`ERC20_APPROVAL`; push the action; return the array.  `Operations` is the table
of what differs, one record per method: the reads in source order, for an
amount and for `'-1'`; the pair (token, spender) checked, the pair approved and
the pair the contract spends; whether the action asks for more than the amount
checked; whether the closure behind `gas()` was given the array.  Variants that
take other branches (`liquidateAll`, `flash`, `swapAll`, `repayAllDebt`) are
parameters.  A token's decimals are cached, so they stand once in the list.

`Covers(op)` says what a correct method is: one pair throughout, a check on
every path, no more asked than checked.

### TxFlow

The life of such a call, for a set `Calls` of calls that overlap.

- `Begin`, `BeginInvalid`: the decorator accepts the arguments, or throws or
  makes the method return `[]`.
- `ReadValue`, `ReadAllowance`: one awaited read is answered and the code runs
  to the next await.  `ReadAllowance` is the comparison in `isApproved` (or
  `isDelegationApproved`) together with the push of the approval, between which
  nothing else can run.  `RpcFails`, `EncoderMissing`: the read is rejected,
  the funds are not there, or the L2 service answers `[]`.
- `Quote`: the client calls `gas()` of the action (without `force`).
- `Send`, `SendRejected`: the client calls `tx()` of the next transaction,
  which estimates its gas and so rejects if it would revert.
- `MineApproval`, `MineAction`: the chain executes what was sent.
- `Forget`: the array is dropped or used up; the same call slot is used again,
  which is how a retry is modelled.
- `Wallet`: the user changes an allowance without the SDK.

The chain is outside `src/` and modelled by the part the SDK depends on, the
allowances.  Balances, health factors, pauses and the flash-loan premium are
left out: here an action reverts for want of an allowance only.  `Unlimited`
stands for any allowance of `SUPER_BIG_ALLOWANCE_NUMBER` or more, so drawing
from it leaves it `Unlimited`.  Allowances start at 0 and reach other values
through `Wallet`.  The client waits for its approval to be mined before it asks
for `tx()` of the action; the sample client of the repository's README sends a
transaction and leaves the waiting to its caller, and without it the estimate of
the action would fail.

`disturbed` is a history variable: it marks a call that relied on an allowance
somebody else then brought below what it needs.  `granted` is another: the
pairs approved by the SDK since the wallet last changed them.

### Payments

What TxFlow promises, without pairs, amounts, reads or approvals.  A payment is
`open` until the contract may pull what it needs, then `covered`; it is `paid`
once, from there; `spoilt` when its cover is lost, which happens when the user
interferes (`Interfere`) or, after that, when another payment is made (`Pay(c, C)`
spoils those of `C`); it fails only when spoilt.  `Phase` in TxFlow maps a call to
this: no call is covered before it has read an allowance that is enough, or has
had its approval mined, unless it needs none, and `interfered` is `moves # 0`.
Reads that change nothing here, `Quote` and `Send` are stutters; `ReadAllowance` and
`MineApproval` are `Cover` or a stutter; `SendRejected` is `Fail`; `MineAction` is
`Pay` or `Fail`; rejected reads, `[]` and `Forget` are `Drop`; `Wallet` is
`Interfere`.

### Migration

`V3MigrationHelperService.migrate` builds one action that spends the allowances
of many tokens, and an approval for each that is too small.  `Begin` is the
call up to its first await; `ReadAllowance` answers one of the reads of the
`Promise.all` under way, in any order; `Resume` is what follows an answer: the
debts are read only after all the supplies, a kind that comes with permits (or
of which there is nothing) needs no read, and with the last answer the array is
returned.  `Grant` is what an approval sets: no limit for a supply, the amount
and a tenth, rounded half up, for a debt.  `MineApproval` (the client waits for
each, the supplies first), `Send`, `MineAction`, `RpcFails`, `Quote`, `Forget`
and `Wallet` are as in TxFlow.  The migrator contract is external: it uses the
permits, needs the amounts and what interest has added since, and spends it all
or reverts.  A token occurs once in a batch, and permits come for every asset
of a kind or for none.

Three history variables explain a revert: `lost`, allowances somebody lowered
after the batch had counted on them; `tight`, allowances that were enough when
read, but not with the interest, which the check does not add although the
approval does; `raised`, allowances somebody raised after they were read.

### Signatures

An action by signature takes two calls of the SDK.  The first composes the
typed data: `Begin` is the call, `CheckAllowance` the `isApproved` of
`signERC20Approval` (no signature is asked for if it holds), `ReadNonce` the
nonce, read by Pool itself and by the caller for a stake or a delegation,
`NoNonce` the case that neither `nonces` nor `_nonces` answers, `ResolveToSign`
the delegatee's name.  After the user has signed, `Submit` is the second call,
with the same arguments; the delegations read the nonce (`ReadNonceAgain`) and
the name (`ResolveToSend`) once more.  `Send` is `tx()`, `MineAccepted` and
`MineRejected` the chain, `RpcFails` a rejected read, and `Forget` a caller that
starts over or gives up.  Outside the SDK, `Approve`, `UseNonce` and `Repoint`
change the allowance, use a signature made elsewhere and move a name; `Tick` is
the clock.

There is one owner and one token, since nonces are counted per owner and token;
permits and delegations of the token count on the same nonces.  A contract
accepts what was signed, with the current nonce, until the deadline.  That rule,
the drawing of the allowance and the names are external.  `raised` is a history
variable: the allowance was raised after the session had read it.

### Incentives

The rewards a client shows.  `ReadReserves`, `ReadUserReserves`,
`ReadReserveIncentives` and `ReadUserIncentives` are the four humanized reads in
the order of the sample in the repository's README, each of another block;
`Claimable(t)` is `calculateAllUserIncentives` at the client's time `t`, with
`Accrued` and `ProjectedIndex` for what it calls.  The client keeps fractions, so
these are integers in units of 1/`Parts`.  The supply of a debt token is read;
that of the supply token is worked out of a liquidity with interest and an index
without, and so may be too large by `MaxDrift`.  Tokens and their index, the
credited rewards and the claim are the chain's, rounded down as it does
(external); `Payout` is what a claim would pay.

### Requests

What a method says to a contract, by its arguments: the request of a client, the
decorators it passes, the services it is handed over to and the call that comes
of it.  The table is split by what it describes:

- `Abi`: the functions of the contracts that the services call, from the
  bindings under the `typechain` directories: the names of the parameters in
  order, and whether the function pays, changes state or only reads.
- `Arguments`: what a service makes of a parameter.  A value is the parameter it
  comes from and what was done to it since (`<<"amount", "units", "reserve">>`);
  a term (`Units`, `UnitsOrAll`, `OrElse`, `VariableMode`, ...) says how.
- `Validation`: the decorators.  Those of parameters only record; those of
  methods look for addresses and run checks, and a check that no method decorator
  runs is never made.
- `Methods`, `PoolMethods`, `ServiceMethods`: one record per method of every
  service, with its decorators, its parameters, the routes by which it refuses,
  answers or hands over (native asset, optimized path, adapters), and its call.
- `Requests`: `Call` is a client with any choice of the optional parameters, up to
  `AtOnce` of them out of the ordinary (malformed, `0`, `'-1'`, a name, too
  long, another rate mode) and any addresses of the service missing;
  `NotSetUp` and `Reject` are the decorators, `Refuse`, `Answer`, `HandOver` and
  `getDelegateeAddress` the branches of the bodies, `Build` the arguments of the
  call.  `Means` says, once for all methods, in which places of contract functions
  the value of a parameter belongs; the properties compare the two.

### Lookups, TokenCache and ProposalMemo

`Lookups` is what a cache in front of a network promises: a caller is answered
rightly or fails, keys become known, and who asks for a known key is answered at
once.  Two caches implement it.

`TokenCache` is `decimalsOf` and `getTokenData` of one ERC20Service, called many
times at once.  `NameAnswered` and `DecimalsAnswered` are the answers to the
requests of the `Promise.all`, in any order, `DataFetched` its fulfilment.  After
`RequestFails` the call is over, but a `decimals()` it was waiting for goes on and
fills the cache when it is answered (`OrphanAnswered`).  A cached 0 looks like
nothing, so that a token without decimals is never known (`Lasting`).

`ProposalMemo` is `getProposalMetadata` with the memo of the process: the hash in
two spellings, the status (`ResponseOk`), then the text (`Memorize`), and the text
that stands in when either fails (`FetchFails`), which the memo never keeps.

An answer that is not the chain's, or not the proposal asked for, maps to no phase
of `Lookups`, so the refinement says that there is none.

### PriceFeeds

`getIncentivesDataWithPrice` of v2 and the legacy one of v3.  The incentives are
read (`ReadIncentives`), the feeds of all reward tokens at once, each in two
requests (`ReadRound`, `ReadDecimals`), and with all of them settled
(`AllSettled`) each reward is given the feed of its token, or what stands in for
it: nothing in v2, the price of the incentives in v3.  A price is modelled by its
source, the token and aggregator it is from.  `ReplaceAggregator` is external.

### GasLimits

The limit of one transaction, by `tx()` (`generateTxCallback`) or by
`estimateGasLimit` of the bundles: `Estimated` and `NetworkAnswered` are the two
awaits of `estimateGasByNetwork`, between which the wallet may switch
(`SwitchNetwork`); `EstimateFails` rejects `tx()` and makes `estimateGasLimit` fall
back to the limit of the action.  `dueOn` is a history variable.

### RayMath and Positions

`RayMath` is the fixed-point arithmetic: half-up products and quotients of rays,
linear and compounded interest, and the balances made of them.  `Positions` is
what a client shows of a position.  `ReadReserves` and `ReadUserReserves` are two
humanized reads, of different blocks; `ShownSupply`, `ShownDebt`,
`AvailableBorrows` and the rest compute, at any time `t` of the client's clock,
what `formatUserSummary` and `formatReserves` make of them, efficiency mode and
isolation included.  Values keep the fractions that the code keeps, so what is
available is in units of 1/`Percent`.  A health factor is modelled by its
comparison with one.

The pool is external: `UserBorrows`, `UserSupplies`, `UserSwitchesMode`,
`OthersBorrow` and `PriceMoves` go on while the client reads, each under the rules of
the contracts as far as the SDK reads their parameters.  It rounds a balance
once where the client rounds twice, and cuts the average loan to value to whole
units of 1/`Percent`, which the client does not: `valueToZDBigNumber` of a number
that is a BigNumber already keeps its decimals.  Interest rates, collateral flags
and the configuration do not change; amounts are in least units.

## Runs

| run | question |
|---|---|
| `tx_overlap` | two overlapping calls of a repay, an optimized supply and a native withdrawal: do the calls compose, is an approval asked for once, do the calls implement Payments, do retries end; and are the invariants of the proofs true |
| `tx_methods` | for every method of the five services, one call after another, the wallet interfering: is every rejection explained, is `gas()` never blocked, does a batch always settle |
| `tx_sweep` (violation) | is one transaction enough when one is returned: no, for `liquidateAll`, flash `swapAll` and flash `repayAllDebt`, which check one amount and ask for more |
| `tx_l2_gas` (violation) | does `gas()` answer while an approval is pending: no, for the optimized `liquidationCall`, which is handed `[]` (and for a migration with supply permits, which is too) |
| `mig_overlap` | two migrations of a supply and a debt: is every revert explained, does an approval never take back what its batch saw, do the supplies compose, is the invariant of the proofs true |
| `mig_wallet` | one migration of two supplies and two debts, so that the reads of a kind race, while the user changes an allowance: are rejected quotes explained, and does a client come to the end of its approvals whatever lists are empty or signed |
| `sig_overlap` | two signatures of any kind on one nonce, with deadlines, names that move and allowances that change: is every rejection explained, does a permit take away only what was too small, do retries end, is the invariant of the proofs true |
| `requests` | every method of every service, one request at a time: does each value arrive in a place that is meant for it, is nothing dropped, is nothing invalid sent, is every refusal explained |
| `requests_on_behalf` (violation) | is a request carried out on behalf of the one it names: no, the optimized paths of supply, repay, borrow and withdraw drop `onBehalfOf` |
| `reads` | what is read before anything is shown or sent, one of five modules in each behaviour.  Incentives: the four reads interleaved with moves, claims and time: does what is shown agree with what a claim pays, follow the emission and keep what was credited, and does nothing accrue backwards (no index is ahead of the emission or behind the user's).  TokenCache, ProposalMemo: do overlapping, failing calls implement Lookups.  PriceFeeds: does a reward ever get another token's price, or a price and decimals of two sources.  GasLimits: is the limit ever below what is due |
| `positions` | the two reads interleaved with loans, prices, modes and time: is what is shown as available, and as liquidity, what the pool lends at that moment; does a torn read never offer an unhealthy loan; does an old one never overstate a balance |
| `positions_cap` (violation) | is the formatted liquidity of a reserve limited by the borrow cap, as the comment in `MU/formatters/reserve/index.ts:134` has it: no, only its conversion to USD is |

`reads` puts five modules into one state (`MCReads`) because they share nothing: a
behaviour picks one of them and the others stay as they begin, so that the states
add up and do not multiply.

Bounds.  `MaxAmount = 2` gives an amount that is checked and a larger one that
is asked, allowances that are none, too small, exact and unlimited; more amounts
add no case, since the code only compares.  `MaxMoves = 1` lets the wallet act at
any one point; two calls are enough for one to spend what the other relies on.
`MaxMoves` is a bound of the model and the proofs hold for any value of it.
`tx_overlap` checks liveness too, and so uses no symmetry and three methods: one
that checks before its action, one of the optimized path, one of the gateway.
That a batch settles is asked of every method instead, in `tx_methods`: once an
array is built, `tx()` of its next transaction is answered whatever the other
calls do.
In the migrations, the amounts 5 and 10 are the least of which the tenth is
rounded and is not; `Interest = 1` is enough to make an exact allowance too
small, and is covered by the buffer of either amount; `Ceiling = 11` is the
largest finite approval, and `SetByUser` has a revoked allowance, one that is
enough without interest, one above what will be approved, and no limit.
`mig_wallet` uses one amount, one change by the user at any point, and no
symmetry, since liveness is checked.
`sig_overlap` has two sessions, enough for one to use up the other's nonce, with
deadlines that may pass and one that never does, one name between two addresses
(or none), the amount 1, `'-1'`, and one change made outside.  The incentives of
`reads` have two tokens, so that a reward is earned with more than one, an emission that ends
in the middle of the time (`EmissionEnd = 2` of 4 seconds, so that a token is
also moved after the end and looked at later), indexes that are rounded
(`Precision = 2` over supplies up to 4; `Whole = 12` is a multiple of all of these,
so that the client's fractions are integers), and three transactions, so that a move
and a claim, or moves of both holders, fall between any of the reads.  Two callers
and one request that nobody waits for are enough for every order of two calls of
`TokenCache`, with a token of each kind (cached, without decimals, native, Maker);
three callers of `ProposalMemo` let one fail while one succeeds and one comes
later.  `PriceFeeds` has three rewards of two tokens and one replacement of each
aggregator; the estimates of `GasLimits` are the ones next to the limits with each
of the surpluses, so that a limit is met, missed by one and passed.  `requests` has
no bound but that two parameters at a time are out of the ordinary (`AtOnce = 2`):
the checks look at one parameter each, so that a pair shows whatever one of them
hides of another.  The addresses that are missing are any.
`positions` has the kinds of market there are: with an efficiency mode and a cap,
with neither, with a debt ceiling and no interest; portfolios of two collaterals,
leveraged with both kinds of debt, and isolated; and two transactions, of which
one may fall before and one after a read.  A ray of 10000, a year of 4 seconds and
loan to values in tenths make a second's interest, every rounding and the
average's cut visible on amounts of a hundred, while the drift that
`StaleNeverOverstates` allows the indexes rounds to nothing, so that the run checks
it to the unit; three seconds reach the third term of the binomial.  `MCPositions` assumes what two of the theorems do: `ClocksAgree`,
that no market pays a whole in the time a client's clock may be behind, and
`ModestDebts(25)`, that no debt exceeds a ray and no interest between two updates
doubles it.  The ceiling can be used up and the debt outgrow the cap.
`CHECK_DEADLOCK FALSE` everywhere, as all calls may be over and the client done.

Fairness.  `FairSpec` assumes weak fairness of the answers to reads, of the
client's next `tx()` once it has an array, of mining, and of trying again after
a rejection.  The provider's promises settle and the chain mines what it
accepted; the last two say that the client is one that goes on, since
`BatchSettles` and `RejectionsDieOut` are about such clients.  In `Migration`
the same is assumed of the reads, of the client that has an array (its next
approval or its action) and of mining; in `Signatures` of the reads, of
`tx()`, of mining and of starting over after a rejection, and nothing of the
user, who may never sign.  Nothing is assumed of `Begin`, `Quote`, `Forget` of a
finished call, or the wallet.  The other modules state no liveness.

## Proofs

For every set of calls, of methods and every bound:

- `TypeCorrect`: `TypeOK` is invariant.
- `RevertsExplained`, `QuotesAnswered`: if every method in `Ops` `Covers` its
  allowance (and gives `gas()` its array), the safety properties hold.  What
  they say is about calls that are over, so it is not inductive.  `AllowanceInv`
  is: while a call reads, the allowance check is still among the reads ahead or
  has been made (`CheckAhead`); it has been made when the array is built
  (`CheckMade`); and from the check on, or from the mining of its own approval
  on, the allowance is at least the threshold unless the call is marked
  (`AllowanceKept`).  Every action that lowers an allowance marks the calls it
  leaves short, which keeps the last part.
- `CallsCompose`, `ApprovalsAskedOnce`: from `ApprovalInv`.  What our approvals
  set stays `Unlimited`, whatever is drawn; if the wallet did nothing, there is
  no other allowance than that and 0, and no call is ever marked.
- `TxFlowSafe`: `TxFlowInv`, which is both.
- `PaymentsImplemented`: the calls implement Payments, for the same reason.  A
  covered payment that was not spoilt has the allowance it needs (`AllowanceKept`
  with `CheckMade`), so neither `tx()` nor the chain rejects it; reading again finds it
  covered still; an action that reverts leaves the allowances as they are, so it
  spoils nobody; and one that pays spoils others only if `moves # 0`, by
  `ApprovalInv`.
- `MethodsCover`: every method of the five services,
  except those that ask for more than they checked, is a record of `OpType` and
  `Covers` its allowance.  `MethodsRevertExplained` and `MethodsPayAsPromised` put
  the two together, so the results are about the methods of the code and not about
  an assumption.

For any batches, sets of tokens, amounts, interest within the buffer of the
approvals (`AmountsAssumption`) and moves of the wallet, `Migration_proofs` has:

- `MigrationTyped` and `MigrationSafe`: `MigrationInv` is inductive on top of
  the types.  `ReadsAhead`: a batch that returned has read every allowance it
  needs, and its pending approvals are among those.  `CountsOnEnough`: what it
  read as enough, or had approved, covers the amount with interest unless it is
  marked `lost` or `tight`.  `OwesMore`: what it is still to approve is less
  than the amount, unless marked `raised`.
- `MigrationRevertExplained`: a batch that sends with no mark can pay whatever
  the interest, by `CountsOnEnough` for what it read and by the size of the
  permits for the rest.
- `MigrationQuoteExplained`: what was said of a revert holds of a quote when it is
  given, unless the supplies come with permits (`gas()` is blind then); and what
  explains it, `lost` and `tight`, only grows until the batch is given up.
- `MigrationApprovals`: from `OwesMore`, as a grant is at least the amount.
- `MigrationSuppliesCompose`: while the wallet does nothing, the allowance of a
  supply is 0 or `Unlimited` (`AllOrNothing`), which no batch lowers.

For any sessions, names, amounts and deadlines, `Signatures_proofs` has:

- `SignaturesTyped` and `SignaturesComposed`: `SignatureInv` is inductive on top
  of the types, session by session.  `Composed`: the nonces signed, sent and
  current are in that order, and amount and deadline are the same in both
  halves.  `Needed`: a permit under way found the allowance too small, unless it
  was raised since.  A step of one session leaves the others as they are, but for
  a nonce or an allowance that grows (lemma `GoOthers` and its likes).
- `RejectionsExplained`: from `Composed`.  Explaining a rejection must survive
  what comes after it, which it does since nonce and time only grow.
- `PermitsSpareEnough`: from `Needed`, as a permit sets what it is for.

For the reads (`Reads_proofs`) the constants' assumptions (`DecimalsAssumption`,
`MemoAssumption`, `FeedsAssumption`, `GasAssumption`) are the hypotheses of the
theorems, and `MCReads` assumes them, so that TLC evaluates them.

- `TokensImplement`: `TokenCache` implements `Lookups`.  The invariant is that what
  is in a cache is the chain's, a result is the chain's, a call waits for a
  `decimals()` or finds them cached, and metadata imply known decimals unless they
  are 0; the proof maps each action to one of `Lookups` or to a stutter, an orphan's
  answer to `Learn`.
- `ProposalsImplement`: `ProposalMemo` implements `Lookups` over the converted
  hashes.  The invariant: the memo holds complete proposals only, each under its own
  hash.
- `RewardsPricedRight`: the feeds that were fulfilled are each of one token, and the
  two halves of one differ only if its aggregator was replaced; what is looked up
  by the token is therefore the token's.
- `LimitsSuffice`: a surplus is at least the least one and monotonic, so what
  replaces an estimate, or falls back, is no less than what is due.

- `ReadsTyped`: the five modules keep their types side by side, as in `MCReads`.

`SumTheorems` has what is used of sums over finite sets: that `SumFunctionOnSet`
adds an element at a time, keeps types, grows with its terms, shrinks with terms
that are not positive, and what it makes of sums, multiples and constants. It is an
induction over finite sets; the library's induction theorems take an operator and
cannot be used here, so it is made from the well-foundedness of strict inclusion: a
set of counterexamples has a smallest one.

For any tokens, supplies, emission and times, `Incentives_proofs` has:

- `IncentivesTyped`, `IndexesOrdered`: `IndexesInOrder` is inductive on top of the
  types.  An update adds no more than was emitted since the last, and division
  only rounds down.
- `UnclaimedIsKept`: what is shown is what was credited and the positive terms of a
  sum; in torn reads a term may be negative (the user's index is read after one of
  the token), and is left out.
- `EstimatesFollowEmission`: each term grows with the time until `EmissionEnd` and not
  after, and so does the sum of the positive ones.
- `EstimatesMatchPayout`: for one snapshot, term by term, the client's fraction and the
  chain's index differ by what the index and the amount round off, and no term is
  negative, by `IndexesInOrder`; the sums differ by that per token.

For any markets, prices, rates and portfolios, `Positions_proofs` has:

- `PositionsTyped`, `IndexesGrow`: `PositionsInv`, which is `TypeOK` and
  `IndexesAtLeastOne`.  Types are not obvious here: a loan or an interest must not
  make anything negative or rounded away below one.  `RayMulRounds`, `RayMulGrows`,
  `CompoundedGrows` and `LinearBounds` are the facts about the arithmetic.
- `BorrowableStaysHealthy`, from `ClocksAgree`: what is shown as available is at most
  limit less debts, and no limit is above the threshold of the same market and mode,
  so the sums compare term by term, whatever was read when.
- `AvailableIsLent`: for one snapshot, client and pool differ in a supply or debt by
  what the second rounding can add (`RoundedTwice`), three units per market in all;
  the rest is what the pool cuts off the average.
- `LiquidityIsLent`, from `ModestDebts`: `Lendable` is inductive, debts and liquidity of
  a market with all that may still be supplied stay below a ray, since what is lent
  is scaled down by an index of at least one (`RayDivShrinks`); then the two ways to
  round a debt stay two units apart (`RoundedApart`).
- `OldReadsStayBehind`: `ReadsBehind` is inductive: carried to any clock from now on,
  an index that was read is at most that of the pool, carried to the same clock, and
  what the transactions since let it drift.  Interest in two parts makes no less than
  interest in one, but for rounding: `LinearAdds` for supplies, and for debts
  `CompoundedAdds`, where the terms of the binomial of both spans are compared with
  those of the whole.  `AccrualDrifts` is one transaction, `DriftsCompose` adds it to
  the ones before, and `RoundedBehind` takes indexes to balances.  The first version
  of the property, a unit for every constant, was false in general and had passed on
  the instance: each update of an index rounds, and a balance multiplies the error.
  With 27 digits and a hundred transactions in a day the drift is some 10^-12 of it.

For any number of odd parameters at once (`AtOnce`), `Requests_proofs` has:

- `Table`: each of the 118 methods is a `Row`.  A row says what the rest needs of a
  method and nothing about its contract function: it asks for each parameter to be
  checked in one way at most, has a value for each place of the function, and each
  route `Hands` over to a method that hands nothing over in turn, whose checks the
  values it is given pass if they passed those of the first method (`Kept`), or is a
  refusal about the native asset (`Limits`).  The routes are shown by kind (`Strict`
  methods, whose checks leave nothing to object to, and `AmountOnly` methods, where
  all of a balance may be asked for), the rows service by service.
- `CleanTable`: each of the 118 methods is `Clean`.  What a method sends, and what it
  passes on, is a constant, something the method made of a parameter (least units, a
  part of a signature, an address looked up), or a parameter as it was given, and the
  latter only where no check lets a name or all of a balance through that the
  contract would not understand (`Yields`, for the terms of `Arguments` in `Fits`).
  Its checks are run, on parameters of its own, amounts as amounts (`Checked`).  The
  contract is an address that it needs or a parameter (`Destined`).  What it hands
  over fits as well, or is an amount that the second method checks again (`Passes`).
- `TypeCorrect`, `TurnedAwayForAReason`, `NothingInvalidSent`: `TypeOK`,
  `ServedOrExplained` and `InvalidNeverSent`, from `IInv`.  Neither of the last two is
  inductive, since they say nothing of requests that are running: `IInv` adds that
  what was asked is `Sensible` and that the call that is running is the request
  itself, or what a route made of it after its checks passed (`OnItsWay`).  The hard
  cases come after `HandOver`: what the second decorator throws on has a form which
  the first let pass and the caller can see, except all of a debt in the native asset
  (`RejectExplained`), and what the second method sends of a parameter of the first
  was filtered by a check of one of the two (`Relayed`), so that `Build` keeps
  `InvalidNeverSent` (`BuildClean`).

What stays with TLC.  `BatchSettles`, `RejectionsDieOut` (of both modules) and
`MigrationSettles` are liveness.  `ArrivesAsAsked` and `NothingDropped` of `Requests`
are about the places in which the values of each method arrive: a row would have to
repeat the arguments of all 118 methods and of their routes, so that the proof would
go through the cases that TLC goes through, two odd parameters at once, and no more:
what they say of a request is said of each of its parameters by itself.

## Not modelled

Balances and the contracts' own rules where transactions are built; how the
arguments of one call relate to another's (`Requests` is about one request at a
time, `TxFlow` about amounts and allowances alone); the size of a surplus on an
amount, and the digits that conversions round off; offsets into calldata;
`gas(true)`, which estimates whatever the array holds; the yields (`rayPow`),
utilization and conversions to USD of `math-utils`, which are pure arithmetic
that no other part depends on; how the humanized reads that no other module uses
are reshaped; and of the generated bindings everything but the functions that are
called.  The components are listed with their status in `PROJECT.json`.

## Plan

1. *TxFlow and Operations* (done): the skeleton shared by the services.
2. *Migration* (done): a batch of several approvals, read in parallel.
3. *Signatures* (done): permits and delegations by signature.
4. *Incentives* (done): the rewards shown.
5. *RayMath* and *Positions* (done): the position of a user with efficiency
   mode and isolation, the reserves' debts and liquidity.
6. *Lookups*, *TokenCache*, *ProposalMemo* (done): caches as refinements of an
   abstract specification, checked and proved.
7. *PriceFeeds*, *GasLimits*, *Requests* with its tables (done).
8. *Payments* (done): an abstract specification of TxFlow, checked and proved.
9. Theorems about sums, the rewards and the position (done), with a bound of the
   overstatement of old reads that holds for any constants.
10. An abstract specification of Migration, as Payments is of TxFlow.
11. Yields (`rayPow`), utilization, and the conversions to USD.
