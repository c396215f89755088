# Goldfinch: TLA+ models, checks and proofs

Models of the Goldfinch credit protocol: the on-chain core
(`packages/protocol/contracts`) and the off-chain programs that act on it, follow it
or decide who may use it (`autotasks`, `functions`, `client`, `subgraph`), with
model-checking runs for TLC and proofs for TLAPS. Line numbers in this file and in
`PROJECT.json` refer to the repository's `src/` tree. `PROJECT.json` lists every
component, run, mutant, hazard, theorem and the source lines each definition
translates.

## 1. The system

A **borrower** takes a loan from a **TranchedPool**. Depositors ("backers") fund the
pool's *junior* tranche, the protocol's **SeniorPool** its *senior* tranche; deposits
are represented by **PoolTokens**. The pool owns a **CreditLine**, which holds the
loan's accounts and computes, with the library **Accountant**, what is due and when.
Payments go to the credit line; `assess` applies them, and the library
**TranchingLogic** divides them over the tranches by raising *share prices*.
On the chain everything is a transaction: it is atomic, it may come at any time, in
any order and from anyone the roles allow, and it either happens or reverts.

Around the chain, programs read it request by request and act on what they have
read. **Keepers** (Defender autotasks) have late pools assessed and the senior
pool's tokens redeemed. A user proves who they are to **Persona**, whose webhooks
fill a Firestore collection; a **signer** reads it and signs, and the user mints a
**UniqueIdentity** token; a **script** takes both back. The **web client** follows the
user's transactions by block headers and reloads its data for each new block. The
**subgraph** turns the events of the contracts into the entities that the newer
clients show.

| Component | State | Operations | Properties that make it correct |
|---|---|---|---|
| CreditLine, Accountant | balance, interest and principal owed, due time, end of term, interest clock, last full payment, limits, USDC not yet applied | initialize, drawdown, assess, setLimit, setMaxLimit, migration | due times and accounts agree; interest charged once for each instant; principal charged once; a payment is never refused; refines `Loan` |
| TranchedPool | slices with two tranches, deployed principal, locks, pauses, cash | deposit, withdraw, lock junior, lock, drawdown, next slice, pay, assess, shutdown, migrate | what is promised is there; senior first; the slices' accounts add up to the loan |
| TranchingLogic | none (pure) | the waterfall | rounding never creates money |
| PoolTokens | tokens, totals minted and redeemed, owners | mint, redeem, withdrawPrincipal, burn, transfer | totals follow deposits |
| SeniorPool, Fidu, LeverageRatioStrategy | share price, supply, cash, balance on Compound, loans outstanding, writedowns | deposit, withdraw, invest, redeem, writedown, sweep to and from Compound | shares are worth the assets; loans outstanding are what the tokens say; the leverage is not exceeded |
| Keepers: assessor, redeemer | what a run has read so far | read, then send a transaction | everything due is assessed; the senior pool is paid what it is owed, and no deposit is taken back |
| UniqueIdentity | tokens, nonces | mint and burn by signature | a signature is used once |
| KYC store, signer, page, `burnUID` | user documents, deletions, links | webhook, kycStatus, sign, link, mint, destroy, burn | a token rests on an approval; an approval is not lost; one recipient for each type |
| Web client | current block, transactions, loads under way, data by block | send, headers, wallet events, loads | what is said of a transaction is earned; no older data replaces newer |
| Subgraph | entities of a pool, its tokens, owners and loan | a handler for each event | entities are what the chain says |
| StakingRewards | positions, accumulator, available rewards, staked supply | stake, unstake, kick, getReward, set parameters | supply is the sum of positions (not modelled) |
| BackerRewards | accumulators of pools, slices, tokens | allocate, on drawdown, withdraw | never stops a payment (not modelled) |
| CommunityRewards, Merkle distributors | grants, accepted leaves | grant, accept, claim, revoke | a leaf is used once (not modelled) |
| Zapper | zaps | zap, unzap, claim | a zap ends once (not modelled) |
| ImplementationRepository, UcuProxy | linked lineages, the proxies' versions | append, remove, upgrade | no upgrade to a removed version (not modelled) |
| config, factory, Go, Borrower, GFI, royalties, libraries, newer clients, deployment and airdrop scripts | | | not modelled: see section 6 |

**What is hard on the chain.** There is no preemption inside a transaction, so the
difficulty is in *sequences of legal calls by independent parties* (draw, repay, draw
again; redeem between two draws; lock an empty slice; migrate a late loan), *times*
(due times that pass in bulk, a last period that is short, the clock that stands
still while interest rounds to zero), *rounding* (each division rounds down, and
each cached price is later multiplied again) and *reverts*: a SafeMath underflow in
the middle of `assess` makes every payment impossible.

**What is hard off the chain.** Each request sees a later chain or store than the one
before it, and its answer is used later still; runs of the same function overlap;
webhooks are repeated and overtake each other; headers are lost; loads end in any
order; a handler of an event reads the contracts as they are at the end of the
block, after events that it has not been told of. `PROJECT.json` lists these hazards
at their lines, those of some components not modelled included.

## 2. Modules

| Module | Models | Notes |
|---|---|---|
| `Accountant` | `Accountant.sol` | pure operators; integer division as in Solidity |
| `CreditLine` | `CreditLine.sol` and the pool's calls on it | state machine with the clock |
| `Loan` | (abstract) | what a loan promises, without schedule |
| `CreditLineProperties` | | invariants, action properties, refinement of `Loan` |
| `CreditLineProofs` | | proofs about the line, the schedule and the refinement of `Loan` |
| `TranchingLogic` | `TranchingLogic.sol` | pure operators on slices and tranches |
| `PoolTokens` | `PoolTokens.sol` for one pool | state and operations |
| `TranchedPool` | `TranchedPool.sol` | composes the four above |
| `TranchedPoolProperties` | | invariants and an action property |
| `TranchingLogicProofs` | | lemmas on sums over finite sets, functions and sequences, and on the waterfall, its rounding above all |
| `TranchedPoolProofs` | | proofs about the pool; the pool drives its line as the line allows |
| `SeniorPool`, `SeniorPoolProperties` | `SeniorPool.sol`, `Fidu.sol`, `LeverageRatioStrategy.sol`, the writedown of `Accountant.sol` | composed with `TranchedPool` |
| `SeniorPoolProofs` | | proofs about the senior pool and the pool under it |
| `Keepers`, `KeepersProperties` | `autotasks/assessor`, `autotasks/senior-pool-redeemer` | composed with `TranchedPool`; fairness and liveness |
| `KeepersProofs` | | proofs that the autotasks do only what the pool allows, and that no investment is taken back |
| `UniqueIdentity` | `UniqueIdentity.sol` | tokens of each account, nonces, expiry |
| `KycStore` | `functions/src` | the users collection; its transactions |
| `UidIssuance`, `UidIssuanceProperties` | `autotasks/unique-identity-signer`, the page that mints, `burnUID.ts` | composes the two above; webhook delivery is fair |
| `UidIssuanceProofs` | | proofs about approvals, nonces and recipients |
| `AppState` | `client/src/App.tsx`, `useFromSameBlock`, the rewards page | the cascade of loads |
| `NetworkMonitor`, `ClientProperties` | `client/src/ethereum/networkMonitor.ts`, `useSendFromUser.ts` | composed with `AppState` |
| `ClientProofs` | | proofs about transactions and loads |
| `Subgraph`, `SubgraphProperties` | `subgraph/src` | composed with `TranchedPool` |
| `SubgraphProofs` | | proofs about the entities, by induction over the events of a block |
| `MCCreditLine`, `MCTranchedPool`, `MCSeniorPool`, `MCKeepers`, `MCUidIssuance`, `MCSubgraph` | | instances for TLC (`ClientProperties` is run as it is, with `MCClient.cfg`) |

### How the models correspond to the code

* A transaction is one step. A `require` or a SafeMath underflow is a guard: a
  transaction that reverts changes nothing, so it is a step that is not taken. Where
  reverting is itself the question, the guard is named (`CanAssess`, `CanApply`,
  `CanCompute`) and a property says that it holds (`AssessNeverReverts`,
  `PaymentsApplied`).
* `now` is `block.timestamp`; `Tick` advances it at any moment. Days, years and
  fixed point one (1e18) are constants, small in the runs.
* `CreditLine.Pay`, `Assess`, `Drawdown`, `Migrate`, `Sweep` are the pool's calls as
  the line sees them. `TranchedPool` conjoins them with what the pool does in the
  same transaction. `assess` of the code is `assess(payment)` with the results it
  returns as `InterestPayment`, `PrincipalPayment`, `PaymentRemaining`; the pool
  takes *all* USDC of the line as soon as some was applied (`Collected`), although a
  comment at `CreditLine.sol:256` says that the rest stays for the next drawdown.
* `Drawdown(amount, limit)`: a drawdown of a pool that is not locked locks it and sets
  the line's limit before, in the same transaction.
* `migrateCreditLine` creates a new line and copies the accounts of the old one,
  which is closed; the model keeps one set of variables for the current line.
* Slices are a sequence of records with fields `senior`, `junior`; a tranche id is a
  pair of a slice's index and a kind. `redeemed` and `swept` are history variables.
* `withdrawMax` is `Withdraw` of all that is redeemable, `withdrawMultiple` several
  `Withdraw` steps in a row.
* `SeniorPool`: a call of the senior pool that reaches into the tranched pool is one
  step of both. USDC and FIDU keep their different scales (`USDC_MANTISSA`,
  `FIDU_MANTISSA`), because the conversions round. What the withdrawal fee and the
  reserve get leaves the model. Compound is an amount that grows, and what it keeps
  by rounding is chosen nondeterministically. Redemptions of junior tokens and
  the admin's calls are those of `TranchedPool`.
* `Keepers`: every request of a run is a step, with the chain going on in between;
  what a run sends is mined later, after whatever else has happened. Errors that the
  code catches for one pool or token leave the rest of the run going.
* `UidIssuance`: a session is a run of the signer with the page that asked for it; a
  read outside a Firestore transaction is a step of its own, a transaction is one
  step. Who Persona approves, and in which country, is its choice.
* `AppState` tells data apart by the block it is labelled with; a load that fails is
  never answered, as nothing tries it again. `NetworkMonitor` has the events of web3
  and Notify come late or never, and headers be lost, repeated or reordered; the
  branch for a local network is included.
* `Subgraph`: a block collects the events of its transactions; `IndexBlock` folds the
  handlers over them with the contracts as they are then. `graph-node` undoes what a
  failed handler did; both of its ways to go on are modelled (`NonFatalErrors`: the
  manifests ask for the feature, and say in a comment that it had to be disabled).
* Definitions commented `Variant` or `Slip` are plausible wrong versions of the
  definition after them. They are used by no specification; each property's mutant
  uses one, and TLC then finds the property violated.

## 3. Runs

`CHECK_DEADLOCK FALSE` is set everywhere because the clock or the chain stops at its
bound, where a line that is paid off, a run that is over or a client that is up to
date may have no step left.

**Fairness.** Nothing on the chain obliges anyone to send a transaction, so
`CreditLine`, `TranchedPool`, `SeniorPool` and `Subgraph` state none. Three
specifications do, each only for what the code or its host keeps doing by itself:

* `Keepers.KeepersFairness`: weak fairness of the runs' reads and sends (autotasks
  are scheduled, and each run goes on until it ends or fails), and of the mining of
  what the relay has accepted (the Defender relayer resubmits). No borrower and no
  depositor is assumed to do anything.
* `UidIssuance.WebhooksDelivered`: weak fairness of the handling of an approval
  that was not answered with 200: Persona sends it again. Users and scripts may stop.
* `NetworkMonitor.ClientFairness`: the chain goes on, *some* later header arrives in
  the end though each may be lost, and nodes answer. Wallets and users may not.

| Run | Question | Bounds |
|---|---|---|
| `credit_line` | Do due times, clock and accounts agree in every order of draws, payments, migrations and assessments? Does the line implement `Loan`? | 3 kinds of terms (whole periods, uneven, shorter than a period; late fees or not), 10 ticks of 3-tick periods, so that two periods and the end of the term are passed and missed; amounts 1 and 3 |
| `pool` | One slice: is what share prices promise there, is the senior tranche first? With interest that never rounds to zero, is principal charged once, can every line be assessed, is assessing twice harmless? | 2 tokens of 1 or 2 units in any tranches (thirds do not divide 100), draws of 2, payments of 2 or 5; terms of two 1-tick periods without, or of 3 ticks in 2-tick periods with a late fee; 3 ticks |
| `pool_slices` | Two slices, with limits changed, migrations, shutdown and reopening, donations: do their accounts add up to the loan, are all payments accepted, is no lock renewed? (`EntitlementsFunded`, which `pool` checks for one, is proved for any number.) | 2 tokens of 2 in any tranches of the two slices, draws of 1, payments of 1 or 3: parts of one third; a term that does not end within the bounds, so principal is repaid early and drawn again |
| `senior_pool` | Do shares, assets, loans outstanding and tokens agree, and does each step move shares and assets alike; is the leverage kept? | one pool and slice, a dollar of 10 units, FIDU of 1000, up to 3 deposits and withdrawals of providers, a loan of 1 tick that is late for another, interest of 16 on Compound and its rounding by 0 or 1 |
| `keepers` | Is everything due assessed and everything owed to the senior pool redeemed, and is no deposit taken back, while the pool changes between a run's reads and its transactions? | one slice, 2 tokens of 2, a draw of 4, 2 ticks of 1-tick periods, one assessment that waits to be mined |
| `uid_issuance` | Do UIDs rest on approvals, is each signature good once, do approvals reach the store? | a person and a listed entity, 3 types, one inquiry, 2 sessions, one run of the script, 2 instants so that signatures expire |
| `web_client` | Is what is said of a transaction earned and final, and does no older load replace newer data? | one transaction, 2 confirmations, 3 blocks: one to hold it, one before, one after |
| `subgraph` | Are the entities what the chain says, whatever shares a block? | two slices, 2 tokens of 2, 2 backers and the senior pool, 2 transactions in a block, one tick |
| `pool_redeem`, `uid_remint`, `web_refresh`, `subgraph_burn` | The four findings | as small as the counterexample allows, or those of the passing run |

Why the bounds are enough: the accounts are compared, added and divided, so two
different amounts, their sum and one that does not divide are the cases that the
code distinguishes; times are compared with at most the next due time, the one
before, and the end of the term, all of which fall several times within the
bounds. Two overlapping runs of a program, or a run and a change behind its back, are
what its races need; three of one kind are tried in further configurations.
`MaxUsdc`, `MaxPrincipalOwed`, `MaxTokens`, `MaxSlices`, `MaxTime`, `MaxBlock`,
`MaxBlockTxs`, `MaxAssessments`, `MaxProviderCalls` and `KeptShares` cut counters;
`MaxPrincipalOwed` matters only when principal is charged repeatedly. Backers are
symmetric in `subgraph`. Every action fires in some passing run.

### What holds

* Credit line: `PaymentSchedule`, `NothingAheadOfTime`, `PaidUpIsNotLate`,
  `WholePeriodsAssessed`, `AccrualNeverRewinds` for lines whose payment period no
  migration changes; `PaymentSchedule` and the refinement of `Loan` always.
  `PrincipalOwedWithinBalance`, `AssessNeverReverts` and `AssessIsIdempotent` as
  long as no interest rounds to zero.
* Pool: `EntitlementsFunded`: after any sequence of payments, draws and withdrawals
  the share prices promise no more than the pool holds. `DeploymentCoversLoan`,
  `DepositsMatchTokens`, `LockedOnce`. `PaymentsApplied`: a payment is never refused,
  if no empty slice was locked, until a repayment to several slices loses a part to
  rounding. `NoTrancheAbovePar` as long as no interest rounds to zero. `SeniorFirst`
  for a pool with one slice.
* Senior pool: `SharesMatchAssets`: shares and assets stay less than a dollar apart,
  so `Fidu` refuses no mint or burn, within the bounds of the run; `WorthFollowsAssets`:
  in every step of any history the worth of the shares moves as the assets do, with no
  more rounding than a price unit for each share, a share at the price and, downwards,
  a unit of USDC; `LoansMatchTokens`; `TargetNotExceeded`.
* Keepers: `DueIsAssessed` and `SeniorIsRedeemed` (liveness), `InvestmentStays`.
* Identity: `UidsRestOnApproval`, `SignedSinceBurned`, `ApprovalReachesStore`
  (liveness); `OneRecipientPerType` as long as a person's country is not corrected.
* Web client: `StatusIsEarned`, `StaleLoadNotShown`, and the liveness properties
  `FollowedIsSettled`, `ConfirmedIsRead`, `RootIsAdopted`. That a confirmation comes
  at all is not promised: `onConfirm` is called by one header only
  (`networkMonitor.ts:82`).
* Subgraph: `TokensMirrored` and `BackersWithdrawn`, also when other handlers fail, but
  for tokens sent to who has them; `LoanAddsUp` and `LockedPoolMirrored` as long as
  none does. `BackersWithdrawn` speaks of the tokens that were neither made nor sent in
  the block: one that comes back to a wallet later in the block in which it stopped
  being a backer does not make it one again. Before the lock,
  the deposits shown may be wrong: a deposit is added to infos that hold it already
  when an earlier event of its block has read them, and a senior deposit is added to
  the junior deposits (`entities/tranched_pool.ts:54, 66`).

### Where the code and its comments disagree

1. `pool_redeem`: a drawdown after depositors redeemed unused capital takes USDC that
   others are entitled to, and leaves a token whose withdrawals revert
   (`TranchedPool.sol:219-231, 289-290`). The redeemer autotask's ignore list knows
   such a token (`senior-pool-redeemer/index.ts:21-25`).
2. `uid_remint`: `burnUID` destroys the user's state first so that there is "no window
   of opportunity" in which the signer could re-mint from it, but the signer may have
   read the state before, and reads the nonce only after the burn
   (`burnUID.ts:125, 186-188`, `unique-identity-signer/index.ts:231, 253`).
3. `web_refresh`: a load that was started for an older block ends last, replaces the
   current one's data, and the page never is from one block again, nor done
   refreshing, until the next change of the current block (`App.tsx:538, 110-113`).
4. `subgraph_burn`: a burned token stays in its pool's list of tokens, and every later
   drawdown and payment trips over it (`mappings/pool_tokens.ts:19`,
   `entities/tranched_pool.ts:470, 486`).

### Further configurations

They belong to no run of `PROJECT.json` and are kept to be checked by hand
(`tlc -config <file> <module>`).

| Configuration | Shows |
|---|---|
| `MCCreditLine_dust` | refutes `PrincipalOwedWithinBalance`: the end-of-term principal is charged again and again while the interest on what is left rounds to zero (`Accountant.sol:65-67`) |
| `MCCreditLine_uneven` | refutes `LastDueTimeAssessed`: with a term that is not a whole number of periods the last assessments accrue to an instant before the due time that passed (`CreditLine.sol:201-206`) |
| `MCCreditLine_redraw` | refutes `DueTimeWithinTerm`: the first due time after a repaid loan is drawn again may be past the end of the term (`CreditLine.sol:217-221`) |
| `MCCreditLine_migrate` | refutes `InterestAccruedInPast`: a shorter payment period makes interest accrue ahead of time (`Accountant.sol:140`) |
| `MCTranchedPool_empty` | refutes `LockedSlicesFunded`: an empty slice can be locked; later payments divide by zero (`TranchedPool.sol:614-616`) |
| `MCTranchedPool_split` | refutes `InterestSplitAcrossSlices`: interest accrued by a second drawdown is not counted for any slice (`TranchedPool.sol:624-626`) |
| `MCTranchedPool_dust` | refutes `DeployedWithinDeposits`: of two slices, a repayment is divided into parts that are rounded down, so `principalDeployed` keeps a unit that is not owed any more; after everything was repaid and drawn again it exceeds the deposits, and `totalDeposited.sub(slice.principalDeployed)` (`TranchingLogic.sol:124`) makes every later payment revert |
| `MCTranchedPool_ratio` | refutes `SeniorFirstInEverySlice`: what the senior tranches of all slices leave is put together and divided among the junior tranches by what each slice has deployed (`TranchingLogic.sol:186-240`), so money of a slice with a small senior tranche, or none, repays the junior tranche of a slice whose senior tranche is short. The test that the payment goes "across all senior tranches first before junior" (`TranchedPool.test.ts:2369`) has slices of one ratio |
| `MCUidIssuance_link` | refutes `OneRecipientPerType`: with a person's country corrected on the way the type changes, the update drops the links of other types (`linkUserToUid.ts:187`), and a later session links a second recipient |
| `MCUidIssuance_destroy` | refutes `DeletionsKept`: `destroyUser` reads the list of deletions outside its transaction, so that of two overlapping calls one is lost |
| `MCSubgraph_self` | refutes `TokensMirrored`: a token sent to its owner is listed twice, as the new owner is loaded before the old one is saved (`mappings/pool_tokens.ts:97-101`) |

## 4. Proofs

The theorems hold for all values of the constants: any number of slices (up to the
contract's five), tokens, accounts, sessions, blocks and transactions, any fees, terms,
prices and amounts. `PROJECT.json` lists them with the properties they establish.

### Assumptions

| Assumption | Says | Why the code justifies it |
|---|---|---|
| `AccountantAssumption`, `CreditLineAssumption`, `TranchingAssumption`, `PoolTokensAssumption`, `SeniorPoolAssumption` | amounts, times and rates are natural numbers; divisors, periods and terms are positive; no period is longer than the time since 1970; the two fees are at most 100% together; FIDU has at least the decimals of USDC | `uint256`, constants of the contracts, and `require`s of `migrateCreditLine` |
| `TranchedPoolAssumption` | the bounds' sets are closed as `Limits` is, downward: a limit may be any amount up to the largest | limits are computed by `lock` as a minimum |
| `UidIssuanceAssumption`, `KycStoreAssumption`, `UniqueIdentityAssumption`, `NoneAssumption` | inquiries name accounts, types are finitely many, `None` is no value | ids are enumerated in `UniqueIdentity`; an absent field is no field |
| `SamePaymentPeriod` (hypothesis of a theorem) | no migration changes the payment period | `MCCreditLine_migrate.cfg` refutes the conclusions without it |
| `[]NoDust` (hypothesis) | what is borrowed accrues a unit in a tick | at 10% a year, a balance of 316 USDC accrues its first unit in a second; `MCCreditLine_dust.cfg` refutes the conclusions without it. It is a condition on behaviors, not on the constants: it speaks of balances that occur |
| `SubgraphAssumption` | the senior pool is no backer, the zero address is neither | an address has one owner; OpenZeppelin's ERC721 mints and sends nothing to the zero address |
| `~SelfTransfers` (hypothesis) | no token is sent to who has it | `MCSubgraph_self.cfg` refutes `TokensMirrored` without it; the theorems on the loan and on locked pools do without |
| `OneTypeEach` (hypothesis) | an account's documents all give it one type of UID | `MCUidIssuance_link.cfg` refutes the conclusion without it |

### The credit line (`CreditLineProofs`)

* `ScheduleInv` is the inductive invariant of `TypeOK` and `PaymentSchedule`.
  Neither is inductive: that a payment period can be subtracted from a due time needs
  times not before the line's creation (`SinceStart`), and that interest is settled on
  repayment needs the schedule.
* `CreditLineImplementsLoan`: every step is a step of `Loan` or leaves its variables
  alone, under `ScheduleInv`.
* `TimesInv` adds that a due time is at most a period away, for `NothingAheadOfTime`
  and the action property `AccrualNeverRewinds`. `WholePeriodsAssessed` needs no more
  than the arithmetic of due times.
* `PrincipalInv` adds why principal is charged once, for `PrincipalOwedWithinBalance`
  and `AssessIsIdempotent`: while any is owed, the interest clock stands at or past
  the end of the term.
* `DueTimesInv` and `PaidUpInv` add where the last full payment and the clock stand
  relative to the due time, for `AssessNeverReverts` and `PaidUpIsNotLate`.

### The waterfall and the pool (`TranchingLogicProofs`, `TranchedPoolProofs`)

* `PoolRefinesLine`: `PoolSpec => Spec`. The pool does to its line only what the line's
  specification allows, so the theorems above hold of a pool's line.
* `PoolInv` is the inductive invariant of `PoolTypeOK` and the action property
  `LockedOnce`: slices are opened and locked in order, an open one is at par, a
  tranche has at least what its tokens say, deployed parts add up.
* `AccountsInv` adds `EntitlementsFunded`, `DepositsMatchTokens` and
  `DeploymentCoversLoan`, which need one another. Behind the payment stands a chain
  of lemmas on the waterfall: scaling by parts gives away no more than the whole,
  turning a payment into a price and back loses and never gains, so what all tranches
  are promised after a payment is at most what they were promised and the payment.
* `NoTrancheAbovePar` rests on `PrincipalInv` of the line: what is due or repaid is at
  most what was deployed, so a slice never accrues more principal than its deposits.
* `SeniorFirst` rests on `NoTrancheAbovePar`: a draw leaves both tranches at the price of
  what is left, which is at most the deposits; in a payment (`OneSliceServed`) the junior
  tranche is passed principal only when the senior tranche's price is, but for what
  three divisions round off (`ExpectedPriceLacksLittle`), the one that is due, and no
  price rises above that.
* `SlicesCovered` is behind `PaymentsApplied`: until the end of the term no share
  price is worth more than what is deposited and not deployed, so that a draw never
  deploys more than the deposits.

### The senior pool (`SeniorPoolProofs`)

Every step of the senior pool is a step of the tranched pool with an amount of its
own choice or leaves it alone, so `AccountsInv` is preserved (`EntitlementsFunded`
again, for any amounts). `SeniorBorne`: a slice has a senior deposit only when its
junior tranche is locked; `TargetNotExceeded` follows for any ratio. `LoansInv`: what
is lent is the sum over its tokens of what they have still out. `SeniorPoolTypeOK` is
inductive with these.

`WorthFollowsAssets` needs one lemma for each place where the senior pool divides: an
amount turned into a price (`PriceRounds`) and into shares (`SharesRound`), shares turned
into USDC (`UsdcRounds`), and the reserve's part of what is swept (`SweepRounds`). A
withdrawal sweeps first and burns at the new price, so two of these errors meet in one
step (`WithdrawalFollowed`); the mantissas divide each other, so that the dollar's
factor itself loses nothing (`UnitFacts`). The tolerance that `Fidu` allows in minting
and burning is not used: the bound is that of the senior pool's own arithmetic.

### The autotasks (`KeepersProofs`)

`KeepersRefinePool`: `KeepersSpec => PoolSpec`, since whatever the runs have mined is a
step anyone may take; so the pool's theorems hold of a pool with its autotasks.
`RedeemerInv`: the ids that a run has read of are of senior tokens, those it takes for
active are, if they still live, of locked slices. It stays so between the reads and the
transactions because a locked slice stays locked (`LocksKept`) and no id is given to a
second token (`TokensKept`). `InvestmentStays` follows: what is sent can only redeem.

### Identity and client (`UidIssuanceProofs`, `ClientProofs`)

* `TypeInv` types documents, contract and runs. `ApprovalInv`: documents, sessions and
  UIDs rest on an inquiry about the very account. `NonceInv`: a nonce counts the
  account's mints and burns, so a signature older than a burn has an old nonce.
* `LinkInv`: as long as an account has one type, a link that was answered with success
  is the one in the document, and sessions ask for no other type. So the transaction in
  `linkUserToUid` refuses a second recipient, whatever overlaps.
* `TxInv`: what the monitor knows of a transaction is what the chain says of it, for
  the action property `StatusIsEarned`; loads and requests are labelled with blocks
  that were, for `StaleLoadNotShown`.

### The subgraph (`SubgraphProofs`)

`FoldLeft` and `FlattenSeq` are recursive, so the proof first replaces them by the
sequence of the entities after each event (`Handled`) and by an equation
(`FlatteningEquation`). Then it keeps apart what the handlers add up and what they read:

* `Follows` says what a handler may do to tokens, owners, backers and loan *whatever* it
  reads of the contracts; `Reads` says what it takes over from them. `Handle` does both
  (`HandleFollows`), also when a handler fails and is undone.
* `Ahead` is the inductive invariant: every `Chain` of handlers over the events that wait
  in the block, whatever they read, ends in entities that tell of the tokens, owners and
  balance as they are *now*. A transaction lengthens the block by events that tell what it
  did (`EmitAhead`, and one lemma for each kind of transaction: `DepositHeard`,
  `WithdrawalHeard`, `BurnHeard`, ...). That the entities mirror the chain is not
  inductive, since between two blocks they do not; nor would it help to ask what the
  handlers would leave if they ran now, for they run later, and read more recent slices.
* `LineBehind` and `SlicesBehind`: what was read is right, or an event waits in the block
  whose handler reads it again with no deposit counted after it. The latter needs that no
  deposit reaches a locked slice (`LocksKept` of the pool).
* `TokensMirrored`, `LoanAddsUp` and `LockedPoolMirrored` are these with an empty block.
* `BackersWithdrawn`: `Keeps` says that a handler leaves on a wallet's list every token
  that it does not send, that a token without principal gets none, and that a wallet
  which stops being a backer has none left; along the events (`NoBackerByEnd`) it follows
  that it has none at their end, where the entities mirror the chain.

### What attempts at a proof showed

* `PaymentsApplied` was false without its condition on rounding: the proof needed
  `DeployedWithinDeposits`, which TLC refutes (`MCTranchedPool_dust.cfg`).
* `PaidUpIsNotLate` is false when interest rounds to zero: with draws at a time t and
  after a period, nothing accrues, the last full payment is set to the first due time
  while the next is two periods later, and a tick past a period the line is late with
  nothing owed.
* `BackersWithdrawn` was false of blocks with three transactions, one more than the run
  allows: a wallet sends a token away, withdraws all of its other one, and is sent the
  first back. It now leaves out the tokens sent in the block.
* `SeniorFirst` had a bound on the rounding that was too small for some constants, and
  is false of a slice among several (`MCTranchedPool_ratio.cfg`).

### What stays with TLC

* Liveness (`DueIsAssessed`, `SeniorIsRedeemed`, `ApprovalReachesStore`,
  `FollowedIsSettled`, `ConfirmedIsRead`, `RootIsAdopted`): the prover has no rules for
  fairness and ENABLED.
* `SharesMatchAssets`: its bound of a dollar holds within the run's bounds; the
  rounding of each deposit and withdrawal adds up, so that no fixed bound holds of
  histories of every length. What does hold of them all, the bound for each step, is
  proved as `WorthFollowsAssets`.
* Induction over data is proved where a statement of first order carries it: the sums
  of `TranchingLogicProofs` use the library's induction over natural numbers on a set of
  cardinals, and `SubgraphProofs` does so on the positions of a sequence of events. No module under a theorem declares a RECURSIVE operator.

## 5. Plan

Done: the credit line, the pool with its parts, the senior pool, the keepers, the
issuance of UIDs, the web client's cascade, the subgraph of pools, with their proofs.
To come, most important first:

1. `StakingRewards`: staked supply as the sum of effective amounts under partial
   unstakes and changed multipliers; rewards within what was loaded.
2. `BackerRewards` composed with the pool's payments: can it stop one?
3. `ImplementationRepository` and `UcuProxy`: lineages under append and remove.
4. `Zapper`, and `CommunityRewards` with the Merkle distributors.
5. The dynamic leverage strategy, and two slices under the senior pool.

## 6. Not modelled

* On the chain: access control (roles, allow-lists, `Go`), cryptography (signatures
  and permits are records of what was signed), royalties, upgrades of the contracts
  under a running loan, changes of configuration numbers during a loan, overflow of
  256-bit numbers (amounts are far from it), reentrancy (guarded by
  `nonReentrant`), and the contracts of the plan.
* Keepers: the pauser (one unconditional transaction), and the admin's changes of
  limits while they run: a line whose limit is set to 0 while something is
  borrowed counts as closed for the assessor (`assessor/index.ts:109`).
* Identity: agreements and logs, a request of the signer that fails, UIDs of
  more than one inquiry for an account at a time.
* Web client: pages other than rewards, `removeError` and the list of current errors,
  data from The Graph, use without a wallet, a node that lags behind another, page
  reloads.
* Subgraph: estimates (APY, capacity), what is redeemable of a token, rewards, zaps,
  the entities of other contracts, `subgraph-legacy` (an older copy). The redeemable
  amounts are read at the end of the block and then lowered by each redemption of the
  block, so that they can be too low until they are next read
  (`mappings/pool_tokens.ts:55-58`).
* Most of the repository's TypeScript is user interface, scripts that compute
  airdrops, deployment, and tests: it computes figures from what it has loaded or
  sends single transactions, with no state of its own that could go wrong over time.
