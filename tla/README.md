# Verification of the Zest lending protocol

TLA+ modules, TLC configurations and TLAPS proofs about the Clarity contracts of the Zest
lending protocol, `src/onchain/contracts/borrow/production/` (below: `production/`), and about the
scripts in `src/src/` that drive the earn product over Bitcoin and Stacks.

## 1. The system

A user supplies a token and receives z-tokens, whose balance grows with the income of the
reserve; supplied assets can serve as collateral to borrow other assets, whose debt grows with
a compounded index. Interest rates follow the utilization of the reserve. A position whose
health factor falls below one can be liquidated. Two modes restrict positions: *isolation
mode* (an isolated asset as collateral excludes any other and limits what may be borrowed
against it) and *e-mode* (assets of one type, with a higher loan to value). A separate contract
governs the protocol, and one more pays rewards to depositors of sBTC.

The scripts of `src/src/` belong to the earn product: each drives one scenario (set up a pool, lend
bitcoin through an htlc, draw a loan, pay it back, claim rewards) against a local Stacks node and a
local Bitcoin node. The contracts they call are in the repository as generated bindings only.

### Components

| component | state it keeps | operations | what makes it correct |
|---|---|---|---|
| `math/math.clar` | none | fixed-point `mul`, `div`, conversions between decimals, `taylor-6`, linear interest | rounding to nearest; scaling there and back loses no more than two roundings; accrual never shrinks |
| `pool/pool-borrow.clar` | none of its own, it writes the isolated debt, modes and flags | `supply`, `withdraw`, `borrow`, `repay`, `liquidation-call`, `set-e-mode`, `set-user-use-reserve-as-collateral`, two flash-loan steps, the configurator's setters | every path checks the status of each reserve it touches; a position that was healthy stays so; modes keep their restrictions |
| `vaults/pool-0-reserve-v2-0.clar` | through `reserve-data`: indices, rates, totals, timestamps, the treasury's share; per user principal, index and list of borrowed assets | `update-state-on-*`, rates, balances, e-mode checks, `mint-to-treasury` | total = sum of principals; each interval is charged once; rates follow the utilization after the tokens moved |
| `pool/liquidation-manager.clar` | none | how much collateral for how much debt, fee, both forms of payment | close factor and bonus are bounds; the ledgers stay consistent |
| `ztoken/z*.clar` | balance; index at which a balance was last brought up to date | `mint`, `burn`, `transfer-on-liquidation`, `burn-on-liquidation`, `cumulate-balance` | what is on the ledger is backed; index, list of supplied assets and collateral flag are reset together |
| `reserve-data/pool-reserve-data*.clar` | the maps | setters and getters, open to approved contracts | (storage) |
| `vaults/pool-vault.clar` | the tokens | `transfer` | (storage) |
| `governance/zest-governance.clar` | two teams, their signals, proposals, executed proposals, emergency shutdown | `construct`, `executive-action`, `signer-action`, DAO setters | distinct members are counted; nothing executes without authority |
| `rewards/incentives.clar` | program index and rate, per-user index, rewards not yet paid | `claim-rewards`, `claim-rewards-to-vault`, program setters | growth is settled once; a hook never blocks a deposit |
| `wrappers/borrow-helper.clar` | none | price update and reward hook before each call of the pool | the hook runs before the balance moves |
| `mocks/flashloan-scripts/flashloan-wrapper.clar` | none | `flashloan-liquidate`: step 1, liquidation, script, step 2 | tokens and fee come back; income goes to depositors |
| `src/src/stacks.ts`, `bitcoin.ts` | nonces in local variables | build, send and await transactions; merkle proofs; htlc payments | no nonce is skipped; a proof verifies; fees are as stated |
| `src/src/*.ts` scripts | the position in a sequence of awaits | `initializePoolSteps`, `sendFundsSteps`, `drawdownSteps`, `makePaymentSteps`, `claimRewardsSteps`, two htlc examples | a call is sent after those it depends on; the secret after the escrow; every script ends |
| `artifacts/contracts.ts` | none | names and arguments of the functions of the contracts | the scripts call what exists |
| oracles, read contracts | see section 8 | | *not modelled* |

### Interactions

A user calls the pool (through a wrapper that brings prices up to date). The pool checks and
calls the reserve, which reads a reserve tuple and the vault's balance, computes new indices
and rates, and writes the tuple back; then the z-token contract mints or burns, changing the
ledger, the list of supplied assets and the collateral flag in `reserve-data`; then the vault
transfers the underlying token. A liquidation runs this for two reserves, which may be the same.
The configurator writes the same tuples and maps. Oracles are read inside every health
computation. The wrapper settles a user's rewards, which depend on the z-token balance, before the
pool moves it; `liquidation-call` moves balances without it. A flash loan is two calls of the pool in
one transaction, with a liquidation between them.

A script reads nonces from the Stacks node, sends calls, sends bitcoin, polls both nodes, and
hands the proof of a Bitcoin payment to a contract. The order of its awaits is all that keeps a call
behind the one it needs; both chains run on in the meantime.

### What is hard

There is no concurrency inside a transaction: a public function runs alone and is undone as a
whole when a check fails or an unsigned subtraction underflows. What is hard is

* **order inside a transaction**: rates are computed from the vault before tokens move; one
  liquidation updates the indices of a reserve twice in a row; the total and the principal of a
  debt are written by different functions from different reads; isolation mode is looked up
  after the seizure has changed it;
* **sequences of transactions** of borrower, lender, liquidator, configurator and oracle: the
  flags, lists and indices of three contracts must agree after all of them;
* **rounding**: a debt that grew by less than a unit is charged a unit, balances are scaled by
  ratios of rounded indices, unsigned subtraction turns a wrong unit into a locked position;
* **the configurator**, who changes the rules under open positions;
* **two chains and a script**: blocks that come while a script waits for something else, burn blocks
  without a Stacks block, nonces counted ahead of the chain, requests that fail, a secret that must
  not be sent before the escrow it opens is recorded.

`PROJECT.json` lists each hazard with the line where it bites and the properties that catch it.

## 2. The modules

| module | models | extends |
|---|---|---|
| `ZestMath` | `math.clar`: `Mul`, `Div`, `Taylor6`, interest, decimals | `Integers` |
| `ZestPool` | pool, reserve, liquidation manager, z-tokens, vault: one action per public function | `ZestMath` |
| `ZestFlashLoan` | the two steps of a flash loan, the wrapper, `update-state-on-flash-loan` | `ZestPool` |
| `ZestLedger` | what a pool promises: deposits and debts as amounts, no indices | - |
| `ZestPoolLedger` | `ZestPool` implements `ZestLedger` | `ZestPool` |
| `ZestIncentives` | `incentives.clar` and the hooks of `borrow-helper.clar` | `ZestMath` |
| `ZestGovernance` | `zest-governance.clar` | - |
| `ZestQuorum` | decision by quorum: a team, a switch, assents | - |
| `ZestGovernanceQuorum` | `ZestGovernance` implements `ZestQuorum` | `ZestGovernance` |
| `EarnContracts` | `artifacts/contracts.ts`: functions and numbers of arguments of 17 contracts | - |
| `MerkleProof` | `getProof` of `bitcoin.ts`, with symbolic hashes | - |
| `EarnScripts` | the functions of `stacks.ts` and `bitcoin.ts` and every script, as instructions | - |
| `EarnNetwork` | a script, a Stacks node with its mempool, a Bitcoin node | `EarnScripts`, `EarnContracts` |
| `MC...` | instances for TLC | the module they check |
| `ZestMathProofs` | lemmas on the arithmetic: ranges, monotonicity, growth, errors of rounding | `ZestMath` |
| `ZestArithmeticProofs` | the properties of the arithmetic: round trips, accrual, exchange, the series | `MCZestMath`, `ZestMathProofs` |
| `ZestPoolProofs` | types; sums over finite sets; the debt ledger, lists of both kinds, flags, e-mode, isolation, frozen reserves | `ZestPool`, `ZestMathProofs` |
| `ZestInterestProofs` | indices and rates: interest once, debts payable, deposits cumulated | `ZestPoolProofs` |
| `ZestPoolLedgerProofs` | the pool implements the ledger; conservation, the count of the isolated debt, the cover of the deposits, the bound of a liquidation; health is one's own | `ZestPoolLedger`, `ZestInterestProofs` |
| `ZestFlashLoanProofs` | the invariants of the pool through flash loans; what a loan may credit and uncover | `ZestFlashLoan`, `ZestPoolLedgerProofs` |
| `ZestIncentivesProofs` | the program: its types, the hook, what users are entitled to | `ZestIncentives`, `ZestMathProofs` |
| `ZestGovernanceProofs` | the governance contract and its refinement | `ZestGovernanceQuorum` |

### `ZestPool`

*State.* One variable per field of the maps that some transaction changes; the name of the field
stands beside each declaration. Fields nobody changes after deployment, or only `set-reserve`
(caps, slopes, liquidation fee), are the constant `Param`. The risk parameters (`risk`: loan to value, threshold,
bonus) and the ceiling of an isolated debt (`debtCeiling`) are variables, since `set-usage-as-collateral-enabled`
and `add-isolated-asset` write them along with the switch they are named for; `Risk` and `Ceiling` are
the values a run's configurator writes. The lists `assets-supplied` and
`assets-borrowed`, which the code keeps free of duplicates, are sets. `vault` and `wallet` are
the underlying tokens; only what enters and leaves the vault matters.

*Actions.* `Supply`, `Withdraw`, `Borrow`, `Repay`, `Liquidate`, `SetEMode` and
`SetUseAsCollateral` are the functions users call. Each is the whole call: the checks of the pool
are conjuncts, the updates of the reserve, of the z-token and of the vault are its primed
variables. A call that fails is undone by the chain and is no step. An unsigned subtraction is
written as a subtraction with the guard that it does not underflow. `MintToTreasury` and the
`Set...` actions are the configurator's. `NextBlock`, `NextBurnBlock` and `ReportPrice` are the
environment: the Stacks height moves interest, the Bitcoin height moves the grace period, and an
oracle may report any price of its set at any time. Interest is charged by the time stamps of blocks:
`Time`, a constant of `ZestMath`, gives each height its own, and need only not decrease.

*Helpers* follow the code's functions: `NextLiqIndex`/`NextBorIndex` (cumulated indices),
`NormalizedIncome` and `Compounded` (what a view returns), `UpdateReserve` (indices, rates and
timestamp), `Liquidatable` and `DecreaseAllowed` (health, and the check of a withdrawal),
`Seizure` (the conversion between debt and collateral with the bonus), `SeizedBalances` (the
z-token ledger in a liquidation).

*Abstractions.* All tokens have the decimals of the fixed point, so conversions between decimals
are the identity here and are checked in `ZestMath`. The list of assets a caller passes is the one
`validate-assets` accepts. The contracts are wired as deployed. Integers are unbounded: the 128
bits of Clarity are far above the amounts of any token, and an overflow would undo the transaction.

### `ZestGovernance`

Teams, thresholds and sunsets are variables because DAO calls change them; what a proposal does
is the constant `Effect`, and `Schedule` is its window. `Construct` is the deployer's call that
runs the bootstrap proposal in the name of the governance contract. `SignerAction` runs `Execute`
with the signer as sender, as the code does.

### `ZestFlashLoan`

`StepOne` and `StepTwo` are the public functions of the pool, `LiquidateBetween` is the liquidation
the wrapper makes between them with the same sender; while `loan` is set nothing else can happen, as
all of it is one transaction. A state with a loan from which no second step follows stands for a
transaction the chain undoes. `IndexWithIncome` is `cumulate-to-liquidity-index`. The script of the
borrower is external: it earns an amount of `Proceeds`. The sender receives the loan, since the token
lets only the sender of the transaction pay it back.

### `ZestLedger`

The abstract pool knows the tokens, what the pool owes each account and what each user owes the
pool. A transaction moves one amount; no one else's balance or debt changes in it and no interest
appears in it; only a block adds interest, to both sides. `ZestPoolLedger` maps the z-token balance
*with* interest to the claim and the *compounded* principal to the debt, so indices, rates, lists, flags,
modes and treasury accounting are hidden: a rounding that made or lost a unit, an index stored too
early, or interest charged twice would be a step the ledger does not have.

### `ZestIncentives`

One program, sBTC rewarded in wSTX, as the contract has it. `ClaimRewardsToVault` is the hook that
`Supply` and `Withdraw` of the wrapper run first; `ClaimRewards` pays; `LiquidationCall` moves z-tokens
without a hook; the balances of the pool grow with `NextBlock`. The owner may repeat
`initialize-reward-program-data`, change the rate without bringing the index up to date, and
withdraw the funds. After a second initialization an index of a user can be ahead of the program, and
the hook, hence every deposit and withdrawal of that user, aborts: `HookNeverBlocks` is stated for a
program that was started once.

### The earn scripts

`EarnScripts` writes each script as a sequence of instructions; an instruction is what runs between
two waits for the network (read a nonce, build a call, broadcast it, note a height, await another
height, await a confirmation, build a proof, pay). `EarnNetwork` executes one script, chosen at the
start, while the two nodes make blocks on their own. A call is mined at the nonce of its account,
succeeds if its function is in the binding with as many arguments, what it needs is on the chain,
and its proof, htlc and preimage are right (`Succeeds`); the contracts themselves are not in the
repository, so this part is external, read off the scripts' order and comments.

A behaviour is *calm* when every transaction is in the next block, every burn block anchors a Stacks
block, no request fails and a payment sits where `getProof` finds it. A network that is not calm drops
all four; `SlowScripts` may run on it. Three scripts import the bindings from a directory that does not
exist and pass `setupContracts` one argument too many, and `make-payment.ts` calls `initialize-swapper` of
`BridgeContract` (36, 411), a name the generated bindings do not have: the model calls the `magic-protocol`
contract, which has the function. `ported` is false where all this is left as it is, and the script then ends
at its import; where it is true, the directory, the arguments and this name have been put right.

## 3. The runs

Fixed-point numbers have two decimals (`One = 100`) in the pool and one in the arithmetic, so that
roundings are large and frequent; users are `alice` and `bob`.

| run | question | what can happen in it |
|---|---|---|
| `math` | Does the arithmetic stay within its rounding? | every amount to 40, factor to 2.5, decimals on either side of the fixed point |
| `interest` | Do ledgers, indices and rates agree with interest? | both users supply, borrow, repay and withdraw over two blocks, part or all of an amount, and mint to the treasury |
| `liquidation` | Is a liquidation bounded, consistent and charged once, and does the count of the isolated debt follow the debts it stands for? | interest for a block, a price that collapses and recovers, both assets as collateral, both forms of payment; the configurator isolates the collateral, also under an open position, and ends the isolation |
| `backed` | Are deposits backed and lists exact on every path? | no interest, a fall of the price, collateral and debt in the same asset, a grace period that begins and ends, a flash loan of either asset with a liquidation inside it |
| `modes` | Do e-mode and isolation mode keep their restrictions? | three assets, of which one isolated and two of an e-mode type that is disabled and enabled |
| `config` | Do frozen reserves stay untouched and positions healthy while the rules change? | the configurator changes the status of both reserves, borrowing, usage and risk parameters and e-mode type at any time, also under open positions; a price falls, a liquidator acts |
| `governance` | Do signals count members once, who may execute or switch? | two members, a bootstrap and an upgrade proposal, all heights to 7 |
| `scripts` | Do the scripts keep order, nonces, payments and secrets, and do they end? | all seven scripts on a calm network; pool set-up and lending also with slow blocks, missed anchors, failing requests and any place of a payment in its block |
| `incentives` | Are rewards settled exactly once? | two users, one with deposits from before the program, liquidations of both kinds, changes of rate and price, two blocks with and without interest |

The properties, in one line each:

* `FactorRoundTrip`, `AccrualNeverShrinks`, `ExchangeIsFair`, `TaylorIsAccurate` - scaling there and back loses
  a unit and what a factor below one magnifies of it; a balance scaled by a growing index never shrinks;
  an exchange is fair up to a unit of the token and a unit of value; the compounded interest is within
  three units of the polynomial, not below the linear interest, and grows with the rate.
* `DebtLedger` - a reserve's total is the sum of its borrowers' principals.
* `DebtPayable` - no repayment can be blocked by an underflow.
* `DepositsCumulate` - no deposit is locked by an index ahead of the income.
* `RatesFollowUtilization` - the rates are those of the utilization after the transaction.
* `ImplementsLedger` - every transaction moves the one amount it names, and only blocks add interest. TLC checks it in
  `interest`; for liquidations it is proved, and `liquidation` checks `NothingMadeOrLost`, which follows from it.
* `BorrowListsExact`, `SupplyListsExact` - the lists and flags that modes trust say what is so.
* `StaysHealthy` - no transaction, one's own or another's, makes a position liquidatable.
* `LiquidationBounded` - for tokens of eight decimals, the collateral taken is worth no more than the debt paid and
  its bonus, the debt paid no more than the close factor allows, both up to what the roundings of the conversion add up to
  (`SeizureRounding`: about a unit of each asset, one of value, and the share of the worth that rounding the
  bonus makes).
* `NothingMadeOrLost` - within a block, deposits less debts move with the tokens of the vault to the unit, but
  for what `mint-to-treasury` credits: fees, bonuses and the `+1` on a debt are somebody's.
* `InterestAccruesOnce` - a liquidation moves each index as one interval of interest does.
* `Backed` - without interest, tokens in the vault, lent out and out on a flash loan cover all deposits. With
  interest the code does not keep this: above the optimal utilization depositors are promised the
  whole borrow interest and the treasury its share on top. With flash loans it holds when the protocol
  takes half of the fee; a smaller share is what `flash_income` is about.
* `IsolationExclusive`, `EModeCoherent` - the restrictions of the modes.
* `IsolatedDebtTracked` - within a block, the count of a debt against an isolated asset moves by exactly what is owed
  more or less by those whom the transaction leaves in the mode, and stops at zero. That is what the code
  does, and no more: interest is taken off when it is paid though it was never added, and who enters or leaves
  the mode with a debt is not counted (section 3, *other observations*).
* `FrozenUntouched` - nothing of a user moves in a frozen reserve.
* `SignalsCounted`, `OnlyConstructExecutes`, `ShutdownNeedsQuorum`, `ImplementsQuorum` - governance: a
  member is counted once, nothing executes without authority, and the switch moves only at a call of a
  member that finds enough distinct assents.
* `HookNeverBlocks` - the subtraction in the reward hook does not underflow.
* `PaidOnce` - nobody gets more than the holder of the largest balance since the start (`WorthOfMax`), up to
  the rounding of one settlement in each block (`SettlementRounding`).
* `RewardsSettled` - within a block deposits, withdrawals and claims change nobody's entitlement.
* `RewardsOnlyGrow` - time and other users take no rewards away.
* `NoNonceGap` - no pending call waits for a nonce nobody sends.
* `NothingRefused` - on a calm network no call is refused or fails, but the repeated creation of a pool or a
  loan.
* `RevealAfterEscrow` - the preimage leaves the script after the chain has recorded the escrow.
* `FeesAsStated` - miners get the fee the script states: amounts written in the script are the values of
  the outputs they are about.
* `ProofFitsAtDepth` - `getProof` verifies exactly for the transaction whose index is the depth of the tree
  (it passes the depth where the index belongs).
* `ScriptsEnd`, `GoalReached` - every script ends on any network; on a calm one it reaches its goal.

### Bounds

Two users are a borrower and a lender who is also the liquidator or the payer of another's debt; every
invariant is about one user, a pair of them or a sum. Two assets are a collateral and a debt; both may be used
as both where `Collateral0` says so. A third is needed only where a mode excludes another collateral. Amounts
are a half, the whole and "everything" (`MaxValue`), which take different branches. `MaxHeight = 2` in
`interest` gives an interval before, between and after two transactions; `MaxHeight = 1` in `liquidation`
gives the interval a liquidation charges, whenever it comes, and interest on an isolated debt before it is
paid, seized for or added to (its one borrower stands for all: the sum over several is what
`IsolatedDebtsTracked` proves); the prices there allow seizures of a part, of the rest and cut at what the
borrower has. The other runs ask nothing about time. Blocks are not evenly spaced (`Clock`). `MaxBurn` gives a
block before and after the end of a freeze in `backed`, and one that changes nothing else in `modes`. In
`config` either asset, the collateral included, can be frozen; its `Risk` has two sets of parameters
(`PhasedOut`), the usual ones and those of an asset that is no longer lent against. The `Ceiling` of
`liquidation` is above the one loan there. `backed` lets one flash loan happen (`MaxLoans`): its effect on the
index stays for all that follows, and a second one repeats the first on larger numbers. `interest`,
`liquidation` and `config` give bob less of the lent asset (`LeanEndowment`): enough to lend once and then to
repay or to liquidate, and few enough states that interest, or all of the configurator's switches, fit in one
run. The `...Of` constants say which assets a run's configurator may switch; a run that leaves one empty asks
a question that switch is not about. `CHECK_DEADLOCK FALSE` stands in the configurations of the contracts:
with a bounded height and no endowment left, nothing more need happen.

`MCScripts.cfg` checks deadlock: the chains go on when the script has
ended. The scripts are finite and run once; a block has two to four transactions (`BlockSizes`), which gives odd
and even layers of the tree and payments at, before and after the depth. `Dues` are a payment that
the borrower can and one that it cannot afford. `MaxAge` is the expiration of the one htlc that is
waited for. `incentives` lets the program start once, two blocks pass and each user hold twice the
amount of a call.

### Runs that find a disagreement

Each of these checks one sentence of a comment or a guide, and TLC shows that the code does
otherwise; `findings` in `PROJECT.json` quotes them.

| run | sentence | what the code does |
|---|---|---|
| `flash_income` | the index is adjusted by the income of the flash loan | the income is divided by the liquidity that is left while the loan is out: with half of the tokens lent, deposits grow by twice the income, more than the borrower pays |
| `stale_rates` | a liquidation updates the state of both reserves | with the same asset on both sides the second update overwrites the first; with payment in z-tokens the fee leaves the vault unseen |
| `signers_execute` | signers execute an ended proposal | `execute` wants the governance contract as sender, a signer's call never is |

Other observations met while modelling, which no run states:

* whether a user has other collateral than an isolated asset is read off its value
  (`set-user-use-reserve-as-collateral`): while the configurator has switched usage off for an asset, an
  isolated asset can be enabled next to it, and both serve once usage is on again. The runs that check
  `IsolationExclusive` leave usage alone;
* the cool-down of a proposal is subtracted from its end, so signers may act in the block it ends,
  where the guide says they wait a day;
* signals are never cleared: after a first switch one member alone switches back and forth, which
  `ZestQuorum` states as it is (a call switches when enough *have* assented);
* the second step of a flash loan asks for as much liquidity as it is about to get back, so loans of more
  than half of the liquidity fail after the fact; it counts the income twice in the rates; and the share of
  the protocol is charged on top of the fee that the wrapper asks for;
* the isolated debt is raised by what is borrowed and reduced by what is paid, interest included, so that the interest
  one borrower pays makes room under the ceiling for new principal; and a user whose whole collateral was seized keeps
  debts that no count includes, and may supply another isolated asset next. The ceiling therefore bounds neither what
  is owed nor the principals; `IsolatedDebtTracked` says what the count does follow;
* a liquidation looks the isolation mode up after the seizure (`pool-borrow.clar`,
  `reduce-isolated-mode-debt-liquidation`): when the whole collateral went, the borrower is in no mode and the debt
  that was paid stays counted against the ceiling for good. The test "Borrower_1 falls below health factor
  threshold and gets collateral liquidated, verify isolated debt is reduced" (`liquidation-2.test.ts`) seizes a part only;
* `index.ts` prints "OK!" whatever happened: the steps catch their errors and return.

## 4. Fairness

`ZestPool!Spec` has none: no one must ever send a transaction, and no property of the pool is a
liveness property; the same holds for `ZestFlashLoan` and `ZestIncentives`. `ZestGovernance!FairSpec`, used by `signers_execute` only, assumes that Bitcoin
blocks keep coming and that a signer whose call would succeed eventually sends it; that is the most
favourable assumption for the sentence it refutes.

`EarnNetwork!Spec` has weak fairness of the script's progress (the event loop runs it whenever an answer is
there), of the Stacks block after a burn block, of burn blocks that empty the mempool, and of mining the next
transaction of each account: the local chain produces blocks on a timer for ever. Nothing obliges requests
to succeed or burn blocks to be anchored in time, except in the calm behaviours `GoalReached` is about.

## 5. What is proved

The theorems hold for any finite sets of users and assets, any parameters, prices, amounts and heights.
`PoolAssumption`, `MathAssumption`, `FlashAssumption`, `IncentivesAssumption`, `WorthAssumption`, `RangeAssumption`
and `GovernanceAssumption` are assumed of the constants, and TLC evaluates them in every run; what some theorems assume beyond them is in the
last column, and below.

| theorem | statement | assumes |
|---|---|---|
| `TypeCorrect` | `Spec => []TypeOK` | |
| `DebtLedgerKept` | `Spec => []DebtLedger` | |
| `BorrowListsKept` | `Spec => []BorrowListsExact` | |
| `SupplyListsKept` | `Spec => []SupplyListsExact` | |
| `FrozenKept` | `Spec => FrozenUntouched` | |
| `DebtsPayable` | `Spec => []DebtPayable` | |
| `EModesCoherent` | `=> []EModeCoherent` | `RetypesUnused` |
| `IsolationKept` | `=> []IsolationExclusive` | `IsolatesUnused`, `TakesUpAlone` |
| `RatesFollow` | `=> []RatesFollowUtilization` | `LiquidationsInStep` |
| `InterestOnce` | `Spec => InterestAccruesOnce` | `NoBaseSupply` |
| `DepositsCumulated` | `Spec => []DepositsCumulate` | `NoBaseSupply` |
| `LedgerImplemented` | `Spec => ImplementsLedger` | `NoBaseSupply` |
| `OthersKeepHealth` | `Spec => HealthIsOnesOwn` | `NoBaseSupply` |
| `NoUnitMadeOrLost` | `Spec => NothingMadeOrLost` | `NoBaseSupply` |
| `IsolatedDebtsTracked` | `Spec => IsolatedDebtTracked` | `NoBaseSupply` |
| `SeizuresBounded` | `Spec => LiquidationBounded` | `NoBaseSupply` |
| `FreeDepositsCovered` | `=> []DepositsCovered` | `NoBaseSupply`, `[]NothingDue` |
| `FlashTypeCorrect` | `FlashSpec => []TypeOK` | |
| `FlashKeepsDebts` | `FlashSpec => [](DebtLedger /\ BorrowListsExact)` | |
| `FlashKeepsSupplyLists` | `FlashSpec => []SupplyListsExact` | |
| `FlashKeepsDebtsPayable` | `FlashSpec => []DebtPayable` | |
| `FlashKeepsDeposits` | `FlashSpec => []DepositsCumulate` | `NoBaseSupply` |
| `FlashCreditBounded` | `FlashSpec => [][CreditBounded]_flashVars`: the end of a loan credits depositors no more than the computed share of their deposits, and rounding | `NoBaseSupply` |
| `FlashLoansUncover` | `=> [][OnlyLoansUncover]_flashVars`: deposits are uncovered by the end of a loan only, and by its credit less its fee | `NoBaseSupply`, `[]NothingDue` |
| `ScalingUndone`, `AccrualKeeps`, `ExchangesAreFair` | `Spec => []FactorRoundTrip`, `[]AccrualNeverShrinks`, `[]ExchangeIsFair` | `PowersOfTen` |
| `CompoundingIsAccurate` | `Spec => []TaylorIsAccurate` | |
| `RewardsTyped` | `Spec => []TypeOK` (incentives) | `PowersOfTen` |
| `HookPasses` | `Spec => []HookNeverBlocks` | |
| `RewardsKept` | `Spec => RewardsSettled` | `PowersOfTen` |
| `NobodyPaidTwice` | `Spec => []PaidOnce` | `PowersOfTen` |
| `RewardsNeverShrink` | `=> RewardsOnlyGrow` | `[]StartedOnce`, `PowersOfTen` |
| `GovernanceTypeCorrect`, `CountersExact`, `NothingElseExecutes`, `ShutdownByQuorum` | the properties of the `governance` run | |
| `GovernanceIsQuorum` | `Spec => ImplementsQuorum` | |

### The assumptions

Each but the last excludes something the code allows, and is needed: without it TLC finds a property that is
proved from it violated on one of the instances of section 3, or on one of them with interest or liquidations
added. (The count of the isolated debt does not depend on the supply rate; `IsolatedDebtsTracked` has `NoBaseSupply`
from the lemmas of the refinement it uses.)

* `NoBaseSupply` - the base supply rate of every asset is zero, its default
  (`pool-0-reserve-v2-0.clar`, `get-base-supply-rate` falls back to `u0`); nothing in the repository
  sets another. With a rate of its own, a reserve that nobody borrows from shows its depositors an income, and
  the next update forgets it, since it moves the indices only while something is borrowed: their
  balances fall.
* `RetypesUnused`, `IsolatesUnused` - the configurator gives another e-mode type, or isolates, only an asset
  that nobody concerned uses. `set-asset-e-mode-type` and `add-isolated-asset` check nothing of the
  users.
* `TakesUpAlone` - nobody enables an isolated asset as collateral beside other collateral whose value is
  zero. The code looks at the value instead of the flags (section 3, *other observations*); it is
  zero when the configurator has switched off the use of the other asset, or when the amount rounds to zero.
* `NothingDue` - every reserve was brought up to date in this block or has rates of zero. With interest the code does
  not keep deposits covered (`Backed`, section 3).
* `LiquidationsInStep` - a liquidation is not of an asset with itself, and takes no fee out of the vault when it
  pays in z-tokens: the two ways of the `stale_rates` run. The theorem says there are no others.
* `StartedOnce` - the owner does not start the rewards program again while it runs. A second start
  puts the index behind those of the users; what they are due is then negative, the more so the larger their
  deposits. `HookNeverBlocks` has the same hypothesis inside.
* `PowersOfTen` - powers of ten are positive naturals and turn sums into products: arithmetic, which the
  provers lack and whose induction they cannot do. It is assumed of the operators that scale by decimals, and
  is no restriction.

### The arguments

* **Types.** No guarded step leaves the unsigned range. The invariant had to be strengthened to be inductive:
  indices are at least one and the height a reserve was last updated at is not after the chain's, otherwise the
  interval (times do not decrease with heights) and the ratios of indices are not natural. One lemma per action, on top of lemmas about each
  helper (`RatesNat`, `CompoundedNat`, `SeizureNat`, ...), which rest on `ZestMathProofs`.
* **Sums.** `SumFunction` is a fold, and what it adds up to an induction over subsets. The library's induction
  theorems take predicates, which no prover here can instantiate; its theorem that a well-founded set
  has a least element takes a set. `NaturalsByStep` gets natural induction from it, `SumUnfolds` the
  existence of the fold's function, `SubsetsByFirst` induction on subsets; `SumChange` (one value differs),
  `SumMonotone`, `SumMember` and `SumZero` are what the proofs below cite.
* **The debt ledger.** Every step either leaves the debts alone or sets one principal and moves the total by the
  difference (`StepMoves`); the sum moves likewise (`SumChange`). The lists of borrowed assets follow from the
  same case split.
* **Lists and flags of deposits.** One lemma per action that moves z-tokens. The liquidation is the
  hard one: liquidator and borrower may be the same, the fee goes to the treasury, and with payment in z-tokens
  the liquidator's list may grow while the borrower's shrinks (`SeizureParts`).
* **E-mode and isolation.** E-mode coherence is inductive as it stands. `IsolationExclusive` speaks of a
  cardinality; the invariant `AloneInUse` says the same of pairs of flags, and needs the supply lists,
  because the code decides by the assets that are both listed and flagged (`EnabledAre`).
* **Interest once.** `StepUpdates` says of every step which reserves it brings up to date, in one go or, in a
  liquidation of an asset with itself, twice; an update moves an index to what the view showed before, and
  the view of an updated reserve is its index. Only when nothing is borrowed the two differ, unless the
  rate is zero then (`IdleRates`, an invariant).
* **Payable debts, cumulated deposits.** `DebtIndexed` and `DepositsIndexed` are the inductive invariants: an
  index stored with a position is positive and one the reserve has reached. With it a debt has grown
  since by a factor of at least one. `DebtsPayable` adds the debt ledger: the total covers each
  principal.
* **Rates.** Each action computes the rates from the cash it foresees; `UpdateFollows` and `LiquidateFollows` compare
  that with the cash it leaves.
* **The refinement.** Inside a block the indices stand still (*interest once*), so positions nobody touches are
  worth what they were. A position that is touched is stored at the index it is read at, where the factor
  is one and multiplication by one is exact (`MulOne`); the `+1` with which the reserve charges a debt that
  grew by less than a unit is charged when the debt is stored, so it is not charged again in
  that block. What the action adds or takes is then the amount of the ledger's action. When a block comes,
  every index, and with it every claim and debt, stays or grows. A seizure is the ledger's `Seize`, for
  each coincidence of liquidator, borrower and treasury.
* **The isolated debt.** Within a block a debt nobody touches is worth what it was, and the transactions that
  touch one touch one only, by the amount the refinement names; so what those left in a mode owe moves by that
  amount or, where the user is left in another mode or none, not at all (`MovedIn`, `SumChange`). The action writes
  the count of the mode the user is left in, of which the lemmas on `AtLeastZero` say the same. Nothing is assumed
  about debts brought into the mode or interest.
* **Conservation.** Each step of the ledger is made of gifts to one account or of one debt; a gift moves a sum by its
  amount (`GiftAdds`), so `TotalsMove` says for each step of the ledger how deposits less debts move.
  The refinement carries that to the pool, and the steps that stutter in the ledger move no token.
* **Cover.** By conservation deposits outgrow the tokens of the vault by what is owed, and what is recorded as
  borrowed moves by no less than what is owed, since storing a debt adds the interest it already bears
  (`DebtsRecorded`); so deposits outgrow their cover by the treasury's credit only (`CoverKept`). Where nothing
  is due nothing accrues to the treasury (`AccruesNothing`) and none is minted. In a flash loan the amount on
  loan stands for the tokens it took. The end of a loan raises the index by a share of the liquidity (`Share`) and
  with it each deposit; `MostCredited` adds that up over the accounts with the roundings of the index, of the quotient
  of two indices and of each balance. `FlashCreditBounded` is that bound, and `FlashLoansUncover` that no other
  step, inside a loan or outside, uncovers anything.
* **The bound of a liquidation.** Deposits and debts of one user fall together only in a liquidation
  (`BothFall`), of amounts the refinement names. The five roundings of `Seizure` and the two of `Value` are
  errors of half a unit each, carried through the products by the lemmas on `Slack` of `ZestMathProofs`.
* **Health.** `HealthIsOnesOwn` is the part of `StaysHealthy` that is true at every precision: a user's
  collateral and debt are functions of the user's own entries and of the two indices, which stand still, so
  every term of the sums is the same, whatever others do to the rates and totals of the reserve.
* **Flash loans.** A liquidation inside a loan is one of the pool's (the borrower is one who may liquidate), so the
  lemmas above apply. `Around` describes the two steps of the loan themselves: they leave all entries of
  users alone, the first moves tokens only, and the second brings the reserve up to date at an index that the
  income raises (`IncomeRaisesIndex`). Nothing stored falls behind it, and the lists and debts stay exact.
  The subtraction of the protocol's share from the fee, which the second step makes and which aborts when the share
  is above the whole, is a guard of `StepTwo` since the proof of its types asked for it.
* **Arithmetic.** `Mul`, `Div` and the conversions are within half a unit of the quotients they round; a chain of
  them adds the errors, each multiplied by the factors after it. For the series that is 4319 parts of 720,
  halved, which is below three.
* **Rewards.** The index a hook stores is the one it computed the increase with, so that the increase which
  remains is zero and what is settled is what had grown: `RewardsKept`. Without a hook the
  increase is what a factor of at least one adds to a balance, and that grows with the balance (a deposit of
  another's liquidation) and with the factor (time): `MulWithFactorExcess`, `RoundedExcess`. The factor is at
  least one while no user is ahead of the program (`Behind`). For `PaidOnce` the invariant (`PaidInv`) bounds what a
  user has got by what the largest balance earned up to the user's index, plus the rounding of one settlement in
  each block: a second one in the same block finds the index where the first left it and brings
  nothing.
* **Governance.** Steps of heights, proposals and signers stutter, the construct appoints, a signal assents; the
  count of the contract is the size of the abstract set by the invariant of `CountersExact`.
  `NothingElseExecutes` rests on `SignersCannotExecute`: the sender of a signer's call is a member,
  and the governance contract is not a member.

One form in the modules is owed to the prover. `ZestLedger!Seize` composes its changes
with `Give` instead of writing one EXCEPT with several places: version 1.4.5 of tlapm takes `@` for the value
before *all* of them, which differs from TLA+ where two places coincide, and a liquidator may be the borrower.

## 6. What is only model-checked

* `StaysHealthy`, of a user's own transactions: the health factor is a rounded quotient of a rounded average, and the
  check of a withdrawal computes another average than the one a liquidator is asked for. That the two never
  differ across the threshold is a matter of the parameters and amounts of an instance. For what others do there is
  `OthersKeepHealth`.
* `Backed` with flash loans: it depends on the fee and its shares (`FlashLoansUncover` says how, `flash_income` shows
  it fail). With interest it is false of the code, as section 3 says. `IncomeIsShared` is refuted.
* The properties of `scripts`: about seven concrete scripts, which TLC runs through completely.
* Powers of ten (`PowersOfTen`): the provers have no definition of `^` to unfold.
* Liveness under fairness and ENABLED: `ScriptsEnd`, `GoalReached`, and the sentence `signers_execute` refutes.

## 7. Plan

1. done: `ZestMath`, `ZestPool`, `ZestGovernance`, incentives, flash loans, the ledger and the quorum
   as abstract specifications, the earn scripts with their networks; the proofs of section 5.
2. Proofs: conditions on parameters under which a user's own transaction keeps the position healthy.
3. `set-reserve` as a read and a write with transactions between them, which is how a configurator
   who fills in the whole tuple acts.

## 8. What is not modelled

* **`borrow-helper`** beyond the reward hooks: updates prices and forwards; it keeps no state.
* **Oracles**: any price of a set at any time is more than what they can report; how it is
  derived from feeds is arithmetic on external data.
* **Read contracts**: views for a front end, no state.
* **`set-reserve` beyond the status fields, `set-e-mode-type-config`, `add-asset`,
  `remove-asset`, `set-grace-period-time`**: their parameters are constants. `set-reserve` writes the whole tuple,
  indices and totals included; `SetStatus` is a configurator who writes back all but the status as it is.
* **Conversions between decimals in a liquidation**: the pool's tokens have eight decimals; `ExchangeIsFair` checks
  the conversions by themselves.
* **Authorization lists of the contracts and their setters, ownership**: taken as deployed.
* **The contracts of the earn product**: not in the repository; `EarnNetwork` states what the scripts need
  of them, and `EarnContracts` leaves out types of arguments and the contracts no script names.
* **`legacy/`, the previous reserve, mocks, upgrade scripts, NFTs, chainhooks**: superseded, one-shot or
  outside the protocol.

## 9. Running the checks

    tlc -workers 2 -config MCConfig.cfg MCZestPool     (its module: see PROJECT.json)
    tlc -workers 2 -config MCScripts.cfg MCEarnNetwork
    tlc -workers 2 -config MCBacked.cfg MCZestFlashLoan
    tlapm ZestPoolProofs.tla

The mutants at the start of each definition's neighbourhood (`DecreaseAllowedNow`,
`OpenUnlessInactive`, ...) are plausible mistakes in that definition; substituting one makes the property it is
listed with in `PROJECT.json` fail in its run.
