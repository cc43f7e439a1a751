# A verification of AMPS

AMPS is an index token on Uniswap v4.  One vault backs it with tokenised
stocks and dollars; anybody may redeem a share of the vault at any time, bonds
sell new AMPS for collateral above net asset value, single-sided ladders of
liquidity trade the token, and keepers are paid to do the chores.  The contracts
are in `src/contracts/src`, the keeper, the indexer and the web application in
`src/apps`.

This directory holds TLA+ modules that model the parts of it whose correctness
is a matter of order and history, configurations that model-check them with TLC,
and proofs of the most important theorems that TLAPS checks.  `PROJECT.json`
lists, for every definition, the lines of the source it stands for; for every
property, a mutation of the code that breaks it; and every hazard of the code
at its line.

Contents: [1 the system](#1-the-system) · [2 the modules](#2-the-modules) ·
[3 the runs](#3-the-runs) · [4 the proofs](#4-the-proofs) ·
[5 where code and documents differ](#5-where-code-and-documents-differ) ·
[6 the plan](#6-the-plan) · [7 not modelled](#7-not-modelled)

## 1. The system

A transaction is atomic and every state-changing entry point takes the
contract's transient lock, so one call is one step.  What makes the system hard
is not two threads: it is that calls of many strangers (redeemers, bonders,
keepers, donors, traders), of a timelock and of a guardian fall in any order
between clock ticks, price rounds and outages of an oracle, and that many
figures are cached, rolled lazily or settled only when somebody calls.

Paths are below `src/contracts/src` unless they begin with `apps`.

| component | state it keeps | operations | talks to | what is hard | what makes it correct |
|---|---|---|---|---|---|
| `keeper/BountyPot` | balance, five parameters, daily accumulator and its start, vault | pay, fund, sweep, setVault, setters | paid by the vault after each job | the daily ceiling is a window that resets, not a trailing sum; two units of account | no day pays more than two ceilings; the window counts what left |
| `bonds/AmpsBonds`, `token/Amps` | markets, live id of each collateral, epoch and daily issuance, vesting positions, escrow | bond, claim, claimAll, add/removeCollateral, setMarketOpen, setters, setVault | vault (deposit, mint), registry, gate, policy | windows roll lazily; caps move with the supply; terms change under open vests; ids are never reused | escrow covers the vests; terms are those sold; one open market per collateral; views agree with the call |
| `registry/PoolRegistry` | constituents, weights, active count, pool configs, recorded market id | add/retire/reinstate/reconfigure, setIndexWeights, pool registration, overrides | drives the shell's markets; opens pools through vault and hook | the same fact is kept by registry and shell, and both are governed | retirement closes; retired names roll nothing; weights stay satisfiable |
| burn stream (`vault/VaultRedeemLib`) | pending amount, start, last settlement | settle, queue | every checkpoint, placement and redemption settles | settlements cut short by an empty balance; windows re-opened by dust | nothing queued is lost or burned twice; nobody delays the line |
| `AmpsVault.redeemProRata` | the vault's claims and balances, ladder cells, supply | redeem, preview, sweep | PoolManager, stream | settle, burn, unwind, pay, queue, settle again, in one call; preview must predict it | preview is payout; it is covered; the stayers do not lose |
| `oracle/FeedRegistry` | last accepted answer, pending jump | refresh, setFeed, setters, reads | Chainlink aggregators; read by vault, bonds, gate | a jump must be confirmed by later evidence; anyone may latch at any time | a lone spike is never fresh; a latch moves no price |
| bond price (`AmpsBonds._price`, `policy/BondPolicy`, vault checkpoint) | checkpoint: NAV per share, flag | checkpoint, the pricing half of bond | feeds, gate, policy | NAV from answers that may be held back, a policy that is a pointer, five roundings | no bond under the accretion floor; no bond dilutes the live NAV |
| `oracle/OracleGate` | watchdog stamp, divergence timers, freezes, calendar, parameters | pokes, checkBond, checkPlacement, freeze/unfreeze, setters | feeds, hook, tokens; read by vault, bonds, hook | six layers resolve to one state at every read, from stamps and timers written only by pokes; the vault's read of it may be starved | a trip means missing blocks; unknown readings move no timer; the doors nest; a trip clears |
| `AmpsVault`, `VaultNavLib` (lifecycle) | pointers, checkpoint, assets, genesis latch, standby | setPolicyPointer, genesisPlace, checkpoint, emergencyMigrate, registerAsset | everything | migration in parts that may each fail; set-once wiring | value is not bled; every role is handed over |
| `vault/VaultPlacementLib`, `policy/LadderPolicy` | ladder records, per-pool cooldown | place, compound, burnback | hook (high water), gate, pot | buyback, harvest and new asks in one unlock; a mark that must be reset in between | unsold asks are never burned; cooldown; bounded cells |
| `vault/VaultRolloutLib`, `policy/RolloutPolicy` | rollout window | rollout, deployBonded, withdrawRetiredBids | placement | an allowance that decays from its last charge | entry pools keep their floor |
| `hook/AmpsHook`, `policy/FeePolicy` | per-pool oracle, gate cache, surge | before/afterSwap, poke, setters | gate, policy, PoolManager | a cached gate refreshed inside swaps and never allowed to stop one | fees within their caps; a failed refresh keeps the last view |
| `lib/TruncatedOracleLib` | ring of observations, head, block anchor, high water | write, consult, resetHighWater | hook | 32-bit time wraps, rate-limited insertion | a TWAP window is always covered; one block moves it one cap |
| `genesis/AmpsGenesis` | two auctions, latches, launch price | createAuctions, settle | CCA factory, vault, registry | one shot, two legs that may each fail, a vault that may already be open | the raise is never stranded |
| periphery, valuers, price and pool arithmetic | none | views, one-transaction routes | all of the above | widths and roundings | quotes equal outcomes |
| `apps/keeper` | in-flight map, per-scan overlay, last touch, two latches | scan: read, screen, simulate, qualify, send, wait; restart | RPC, relayer, vault | relayer answers late, never, or loses the answer; the chain moves between the read, the simulation and the landing; outsiders run the same jobs | what is in flight is what is waited for; upkeep comes back after any outage; the backlog drains; the launch is settled |
| `apps/indexer` | tables | one handler per event, reconcile, poll | Ponder, contracts | a handler's tables stand at its log while its reads stand at the end of the block; replays and reorganisations | tables follow the chain log by log; no false alarm outlives its block; every sale is settled once |
| `apps/web`, `packages`, scripts | none of the protocol's | | | | |

## 2. The modules

```
Bonds ──────< IndexBook            (EXTENDS: the registry drives the shell)
BurnStream ─< Redemption           (EXTENDS, and Redemption implements BurnStream:
                                    Stream == INSTANCE BurnStream WITH ...)
FeedRegistry < BondPricing         (EXTENDS: the vault and the shell read the feed)
Clock ──────< FeedRegistry, OracleGate, BountyPot, Lifecycle  (EXTENDS: the time they read)
Ladder                             placements, rollouts and the price memory they trust
Lifecycle                          wiring, genesis with its auctions, migration
BountyPot                          the purse
Keeper                             the off-chain scan loop, relayer and chain
Indexer                            chain, logs, handlers and tables
<module>Proofs                     theorems: IndexBook (with Bonds), Redemption (with BurnStream),
                                    Ladder, Keeper, Indexer; OracleProofs has those of
                                    FeedRegistry, BondPricing and OracleGate, VaultProofs
                                    those of BountyPot and Lifecycle
SumLemmas                          induction and sums over finite sets, for those modules
MC<module>                         small instances
```

**BountyPot** (`keeper/BountyPot.sol`).  Every operation of the contract is an
action.  A raw unit of the token is `Scale` USD18, so that the contract's two
units of account, and the division between them, are in the model.  `paidBy` is
a history of all payments by instant, `highCeiling` the highest ceiling so far;
neither is read by an action.  The reason codes of `_quote`, which only an event
carries, are left out.

**Bonds** (`bonds/AmpsBonds.sol`).  Markets are a sequence whose index is the id,
as ids are never reused; `marketIdOf` is the live id of a collateral.  A bond
rolls both windows, is clamped to `Capacity` (what the epoch leaves, clamped by
what the day leaves, of the live supply), mints into escrow and appends a
position with the vest length of the moment.  A position stands at a place, its owner
and its id (`Places`, `Held`), and every amount of the book is a sum over places.  What the deposit is worth is any
amount in `Priced`: the price is BondPricing's subject.  `Burn` is everything
that shrinks the supply elsewhere.  `dailyCeiling` is a history.

**IndexBook** (`registry/PoolRegistry.sol`).  EXTENDS Bonds, so that the market a
registry operation opens or closes is the shell's own record: `AddConstituent`
uses `AddCollateral`, retirement and reinstatement toggle the market the shell
attributes to the token (`_liveMarketId`) and adopt its id.  The timelock also
governs the shell directly (`ListMarket`, `DelistMarket`, `SwitchMarket`);
`byHand` remembers the markets it opened that way.

**BurnStream** (`vault/VaultRedeemLib.sol`, the stream).  The abstract
specification of what becomes of released AMPS, with a vault around it whose idle
balance comes and goes as it likes.  `Due`, `Burnable`, `Settled`, `Opening` and
`Enqueued` are the code's functions; `queued`, `burned` and `anchor` (the last
queue) are histories.

**Redemption** (`AmpsVault.redeemProRata`, `VaultRedeemLib`).  The detailed
specification: one asset held as claims and idle balance, one ladder cell that is
all AMPS or all counter asset, its fees, and the stream with BurnStream's operators.
AMPS that is neither the vault's nor the ladder's is one number, `outside`: who
holds it decides nothing here.  `RedeemProRata` is the whole call: settle, read T,
unwind, share, fee, pay from claims then balance, queue with its second
settlement, best-effort sweep.  The sweep may fail, so `SweepClean` is a choice.
`FollowsStream` states that it implements BurnStream: the variables are the same,
and the amounts BurnStream chooses from are all up to `Flow`, the most that a vault, a
ladder and a claim can bring together.  `Preview` is the view, in arithmetic only.

**FeedRegistry** (`oracle/FeedRegistry.sol`).  One feed: the aggregator's series
(a round's id is its index), outages, the session, and what `refresh` has
latched or recorded.  `HeldByLatch` and `HeldByHistory` are the two paths of
`_evaluate`; `Answer`, `UpdatedAt` and `Fresh` are what `_read` reports.

**BondPricing** (`AmpsBonds._price`, `BondPolicy`, `VaultNavLib`, `AmpsVault`).
EXTENDS FeedRegistry with the vault's valuation and the bond's price in integer
arithmetic, every rounding as in the code.  Two collaterals, a stock priced by
the feed and a dollar of constant price: with one only, an answer held back
understates the deposit as much as the vault, and the refusal the code makes
would protect nobody.  The policy is a pointer, so it is any answer at or below
the floor, which is all the shell relies on.  Nobody redeems here, so the stream
a checkpoint settles is empty.

**OracleGate** (`oracle/OracleGate.sol`, and `_requireGate`, `checkpoint` and
`touch` of the vault).  What the gate stores is its state: the stamp, the freezes,
a timer per pool, the parameters.  What it reads afresh on every call (hub TWAP,
feeds, stock token, calendar) is an argument of the call, a `Market` and a
`Reading`, and open; a hub without coverage makes every deviation unknown, as in
`_fairTick`.  `Verdict` is `_snapshot` with `_resolveState`; `VaultRefuses` is the
vault's two reads in their order, `readable` saying whether there was gas for the
second.  `Upkeep` is checkpoint and touch as far as the gate sees them: poke, ask,
and a refusal reverts the poke.  The block number is a uint32 that wraps; that a
stamp is never 2^32 blocks old is the bound on `produced`.  `produced`, `longest`
and `outside` are histories.  Roles (guardian, timelock) are named at their
actions; anybody in a role may act at any time.  `GateInit` takes any parameters
of the bands, the constructor's defaults among them.

**Ladder** (`vault/VaultPlacementLib.sol`, `vault/VaultRolloutLib.sol`,
`lib/TruncatedOracleLib.sol`, the writes of `hook/AmpsHook.sol`).  A pool has a
price, the hook's memory of it (truncated price, anchor of the block, high-water
mark), and the vault's records over a row of cells: `record` numbers each cell's record in
the order they were appended, which is the order a harvest walks back.  `Placed` is a placement with
everything it opens, merges and refuses; `Burnback` burns the asks below the mark and
`Compound` follows it with the bids it lays and the reset of the mark; `Rollout`
harvests asks of the hub, lays them in the spoke, lays the remainder back and charges
the day's allowance; `DeployBonded` and `WithdrawRetiredBids` are the spoke's.  `sold` (in a
cell) and `drained` are histories.  One entry pool stands for the two, one spoke for
all; a unit of liquidity is one AMPS below its cell and one unit of counter asset
above it; fees and bonded deposits are inputs, the creator's slice, the surge and the
checks that only refuse a call (gate, divergence, NAV post-condition) are left out.
The schedule is a pointer, so its proposal is open within the budget and the floor
the library enforces itself.  A tick of the clock is a block: `Tick` anchors the
truncated price where `write` would do so lazily.

**Lifecycle** (`vault/AmpsVault.sol`, `vault/VaultNavLib.sol`, `genesis/AmpsGenesis.sol`).
Holders (vaults, the adapter, the legs of the auction, each named by its currency) have
amounts of tokens; a vault has them idle, as claims and in ladders.  `vaultOf` is whom
each contract answers to, `wired` which contracts a vault points at.  `CreateAuctions`
chooses what each leg will sell (nothing: it does not graduate) and when it may be
swept; `Settle` is the whole call: harvest, then open the vault, or forward if it is open or
nothing graduated.  `EmergencyMigrate` is the whole call as well: predicate, unwind,
evacuation asset by asset, hand-over contract by contract.  `Deny` is an issuer that lets
a vault's balance move no longer, or again; every entry point ends in its sweep.  The
histories `evacuated`, `residue` and `behind` say what a shell may still have: what was
refused when it was left, what came later, and roles whose pointer it never had.

**Keeper** (`apps/keeper/src`).  The loop is a program counter: `Wake`, `Read` (with the
calls of a snapshot that fail), `Decide` on one job at a time (screen, simulate,
qualify, in the order of the code), `PostAccepted` or `PostThrows`, `Confirm` or `GiveUp`,
`EndScan`, and `ScanFails`; `Crash` and `Start` lose and rebuild its memory.  The relayer
may take a post and fail to say so, drop it, or land it after the keeper stopped
waiting (`Land`, `Drop`).  The chain moves at any point: trades earn fees, outsiders run
jobs, bonds arrive, and `Shift` changes what the environment decides (gate, freeze, each
pool's checks, the pot).  Every comparison in the code is between two timestamps, so
time is kept as ages that saturate at `Far`.  Amounts are kept as what the code
concludes from them: worth sending or not.

**Indexer** (`apps/indexer/src`).  A transaction is a script of steps; each step that
changes what is indexed emits a log stamped with the chain as it then stood.  Handlers
run over the block log by log, against tables at that log and a chain at the
block's end.  Reconciliations, drift warnings and bleed warnings are the handlers' own
code.  `Restart` and `Reorg` put the tables back to the block boundary and replay the
same block or another.  A chain read may fail (`unread` remembers where).  One market;
blocks one tick apart; `PriceMoved` stands for a pool swap and for a feed's update;
rows that one log appends and nothing reads are left out.

## 3. The runs

All inputs are chosen by `\E` from the sets of the cfg.  Deadlock is checked
wherever a setter, a settlement or a tick always remains possible.  One module may stop
within its bounds, and says so: the indexer, when it has indexed the last block or a
handler has halted it.

| run | module, cfg | asks | shows |
|---|---|---|---|
| bounty_pot | MCBountyPot | is the ceiling kept by one accumulator? | no trailing day pays more than two ceilings; the window is charged for exactly what left |
| bonds | MCBonds | do windows, vests, markets and escrow stay in step? | the book is solvent and never ahead of its vests; both windows count what was issued under them; no day issues two caps' worth over; views say what a bond finds; what was sold keeps its terms and is paid |
| index_book | MCIndexBook | do registry and shell agree about who may issue? | retirement closes; only a hand reopens |
| redemption | MCRedemption | is the floor what its view says, and fair to the stayers? | preview is payout, covered, not raised by slicing, accretive; all AMPS is accounted for; the stream inside is BurnStream, on a sound schedule, never behind its line, its deadline moved by weight |
| bond_pricing | MCBondPricing | can a price be chosen by choosing the moment? | lone spikes are not fresh, latches move nothing, no bond below floor or live NAV |
| oracle_gate | MCOracleGate | can the gate be tripped, held or passed for the wrong reason? | a trip is missing blocks and clears; the breaker counts readable pokes; the doors nest, starved or not |
| ladder | MCLadder | does the vault know which of its asks were sold? | only what was sold is burned as bought back; the live cells are counted on every path; rollouts keep the pace and the entry floor |
| lifecycle | MCLifecycle | can a launch or a migration leave something behind? | a migrated shell keeps no role, claim or position it could hand on; the raise always leaves the adapter |
| keeper | MCKeeper | does the loop survive its relayer, its chain and itself? | in flight is what is waited for; its touch is never ahead of the watchdog's stamp; upkeep, backlog and launch come good |
| keeper_degraded | MCKeeper, MCKeeperDegraded | do `touch` and `checkpoint` run under DEGRADED? | no: section 5 |
| indexer | MCIndexer | do the tables follow the chain? | supply, NAV and issue at every log; alerts only where a read failed; every sale settled once; warnings earned |
| indexer_positions | MCIndexer, MCIndexerPositions | is a row of positions its owner's vest? | no: section 5 |

**Bounds and why they are enough.**

- *bounty_pot*: a day of 2 ticks in 5, so that a window opens, is straddled,
  expires and opens again; ceiling up to 4 with raw units worth 2, so a payment
  rounds; two vaults hand over to one another.
- *bonds*: a day of 2 ticks and an epoch of 1 in 3, so that windows expire apart; two
  vest lengths and amounts they do not divide; daily caps below and at the epoch
  cap; one collateral that may be removed and come back under a second id; two
  positions of one owner.  One epoch length: what a change of it does to the grid
  is a divergence of its own (section 5).  What depends on the number of collaterals
  and markets is proved for every number of them.
- *index_book*: the code's own figures for weights and bands (10000 bps, cap floor
  3000, floor ceiling 500, up to 34 constituents), with two names and three ids; time
  stands still because no operation here reads it.
- *redemption*: a supply near a dozen, so that every division has a remainder;
  slices of 1 and 3; one cell of two units of liquidity; claims up to all that was sold; a
  day of two ticks, of which a settlement may be paid none, a part or all.
  The proofs have none of these bounds.
- *bond_pricing*: a fixed point of 4, answers none of which is at the level of
  another, three rounds (the depth to which the code looks back), a heartbeat and
  a confirmation time of one tick in two, so that records age and confirm.
- *oracle_gate*: four ticks from 1; blocks of 0, 1 and 3 seconds against gaps of 1
  and 2 and graces of 2 and 3, so that slow blocks come with and without an
  outage; block numbers modulo 4 from 3, so that they wrap at once; thresholds on
  both sides of a deviation; a freeze of one tick, live and lapsed; one name with
  its pool.  Entry pools have fewer conditions than a name's pool and are left to
  the proofs, which cover any number of both.
- *ladder*: three cells of two ticks, a cap of one tick a block and a lag of one,
  so that the price runs over a cell ahead of its memory and back; a budget of four
  live cells, which two ladders exhaust; four blocks with a cooldown of one and a day
  of three, so that an allowance is charged, decays in part and is charged again.
- *lifecycle*: two vaults with one registered as the other's standby (`Standbys`), a constituent
  with a pool, both currencies; the standby may or may not be wired to the registry and
  has no bonds (`Links`); one bond or donation in all (`MaxArrivals`, `Gifts`), the founders' seed one
  dollar (`Seeds`), one tick (`MaxTime`), which is what a leg or a standby may need to
  mature.  A second migration needs a second standby, and what happens then is in section 5.
- *keeper*: two pools, one of them an entry pool, one constituent, two relayer
  places, one fault and one move of the market at any step; ages up to 3 with every
  interval at 1 or 2.  One fault suffices for liveness, which speaks of what
  follows the last one; what holds in every state is proved for any number.
- *indexer*: three blocks, three transactions after the launch, one fault; epochs
  and days of two blocks, the poll every second one; two owners, interchangeable.

**Fairness.**  Safety is checked without any.

- `TripClears`, under `LiveGateSpec`: the keeper keeps sending `touch` while the
  protocol is not frozen (`WF` of `KeeperTouch`; `decide.ts` sends it whenever the watchdog
  has tripped), and finds the hub covered when it does.  It is void while a guardian
  keeps renewing a freeze, and says so.
- `SoldIsKept`, under `FairSpec`: time does not stop, and an owner who can claim keeps
  claiming (`WF` of `ClaimAll`, which the code leaves ungated so that nobody can stop
  him).  No fairness of governance or of bonding is assumed.  A bounded clock would
  make it false at its end, so it speaks of positions whose vest fits into what
  is left.
- `RaiseComesHome`: `settle()` is anybody's to call, and the keeper has a job for it, so it is
  weakly fair; so is the clock, as a leg's claim block comes.  The vault's gate is taken to
  admit, the currencies to move, and the number of assets to be within the vault's
  limit: where one of these fails the call reverts whole and is tried again.  Nothing is
  assumed of the timelock, the guardian or the issuers.
- `UpkeepRecovers`, `BacklogDrains`, `LaunchSettles`: the scan loop goes on (`runner.ts`
  catches whatever a scan throws and sleeps before the next), a dead process is
  started again (its service restarts it), an auction ends, and the relayer
  lands or drops what it holds, each weakly fair; the clock is strongly fair, because a
  scan that is due comes before the next tick.  Nothing is assumed of outsiders and
  traders.  Each property is void where the environment forbids the job (a frozen protocol, a
  gate that refuses, a pot that does not pay), and says so in its premise.

**Mutants.**  The operators named `X_Something` are mutants: what `X` would be
with a plausible mistake in it.  No specification uses them; each is there so
that replacing `X` by it breaks one property of a run, and they are listed with
the run and the property in `PROJECT.json`.

## 4. The proofs

| theorem | module | says, for every value of the constants |
|---|---|---|
| PurseInvariant | VaultProofs | the inductive invariant below |
| TwoCeilingsADay | VaultProofs | `NoDayPaysTwoCeilings` |
| ChargedForWhatLeft | VaultProofs | `WindowCountsItsPayments` |
| ShellInvariant | IndexBookProofs | markets and attributions in step |
| OneOpenMarket | IndexBookProofs | `OpenIsAttributed`: one open market per collateral (no run states it) |
| ViewsAgree | IndexBookProofs | `ViewsRollAsBondDoes` |
| BooksBalance | IndexBookProofs | the book: types, escrow against vests, both sides of the daily window |
| VestsStaySolvent | IndexBookProofs | `VestsAreSolvent` |
| DaysAreCounted | IndexBookProofs | `TypeOK`, and `DayCountsItsBonds`: the daily half of `WindowsCountTheirBonds` |
| NoDayTwoCaps | IndexBookProofs | `NoDayIssuesTwoCaps` |
| EpochsAreCounted | IndexBookProofs | `WindowsCountTheirBonds`, while epoch lengths are only lengthened |
| TermsStand | IndexBookProofs | `TermsAreSold` |
| IndexInvariant | IndexBookProofs | the shell's invariant under both contracts' governance |
| RetiredIsShut | IndexBookProofs | `RetiredStaysShut` |
| RetirementShuts | IndexBookProofs | `RetirementCloses` |
| StreamInvariant | RedemptionProofs | types, a schedule dated in the past, queue = queued - burned |
| QueueIsOwed | RedemptionProofs | `PendingIsQueuedMinusBurned`: nothing queued is lost (no run states it) |
| ScheduleSound | RedemptionProofs | `ScheduleIsSound` |
| DeadlineByWeight | RedemptionProofs | `DeadlineMovesByWeight` |
| NeverBehind | RedemptionProofs | `NeverBehindTheLine` |
| RedemptionInvariant | RedemptionProofs | types, every unit of AMPS in its place, a stream dated in the past |
| BooksBalanced | RedemptionProofs | `BooksBalance` |
| QuoteIsPaid | RedemptionProofs | `PreviewIsPayout` |
| QuoteIsSound | RedemptionProofs | `PreviewIsSound` |
| StayersKeep | RedemptionProofs | `RedemptionAccretes` |
| ImplementsStream | RedemptionProofs | `FollowsStream`: the vault implements BurnStream |
| TypesHold | OracleProofs | `TypeOK`, records within the current series |
| FloorRespected | OracleProofs | `BondRespectsFloor` |
| LiveNavKept | OracleProofs | `BondKeepsLiveNav` |
| LatchIsQuiet | OracleProofs | `RefreshMovesNoPrice` |
| SpikesAreNotFresh | OracleProofs | `FreshIsCorroborated` |
| GateInvariant | OracleProofs | types, the stamp against the chain, timers against their pokes |
| NoFalseTrip | OracleProofs | `TripMeansOutage` |
| BreakerMemory | OracleProofs | `BreakerRemembers` |
| NestedDoors | OracleProofs | `DoorsNest` |
| LadderInvariant | LadderProofs | prices within reach, unsold asks above the mark |
| OnlySoldIsBurned | LadderProofs | `MarkedMeansSold` |
| CountInvariant | LadderProofs | records numbered, lit cells recorded and counted, the pace of rollouts |
| LiveCellsCounted | LadderProofs | `LiveCellsAreCounted` |
| RolloutPaced | LadderProofs | `RolloutIsPaced` |
| FloorHolds | LadderProofs | `EntryFloorHolds` |
| LifeInvariant | VaultProofs | types, the estate is listed, shells empty and without roles, the raise |
| ShellsKeepNothing | VaultProofs | `ShellKeepsNothing` |
| SettledIsSwept | VaultProofs | once settled, neither the adapter nor a leg holds anything (no run states it) |
| KeeperTypes | KeeperProofs | the types of keeper, relayer and chain |
| KeeperInvariant | KeeperProofs | the wait, what it holds, and the latch |
| InFlightIsTheWait | KeeperProofs | `InFlightOnlyWhileWaiting` |
| TouchIsSeen | KeeperProofs | `TouchIsNeverAheadOfTheBeat` |
| LatchSound | KeeperProofs | the launch is unwatched only once settled |
| BooksAreFollowed | IndexerProofs | `BooksFollowChain` |
| LedgersAddUp | IndexerProofs | `TablesAddUp` |
| WarningsEarned | IndexerProofs | `WarningsAreEarned` |
| DisagreementsAreReal | IndexerProofs | `AlertsStandForDisagreement` |

The proofs assume only the named ASSUMEs of the modules (parameters are naturals,
divisors are not zero, bands are not empty), which TLC evaluates in every run.

*BountyPot.*  The bound on any day's payments is not inductive: it does not say
why the previous window may be forgotten.  The invariant adds that the window's
charge equals the payments since its start, that it is within the highest
ceiling, that history is monotone, and that between a window's expiry and the
next payment nothing is paid.  A trailing day then meets at most two windows:
the part of it in the current one, and the part in the one before, each within a
ceiling.

*BurnStream.*  Conservation follows from the types and from the fact that a
settlement subtracts and adds the same `Burnable`.  The schedule needs
`last <= now` and `start <= now`, and that a window which is still open has time
to divide by; that the due amount is within the pending one is a lemma on floored
division.  The deadline theorem is the arithmetic of a weighted mean of two
floors, stated as lemmas on division and used once.  That the burn is never behind
its line is not inductive as stated, since it speaks of a stream just settled: the
invariant states it of the last instant that was paid in full (`OnLine`), and
`LineGoesOn` carries it over one settlement by cross-multiplying the two slopes.

*Redemption.*  That a redeemer never burns more than the settled supply needs every unit
of AMPS accounted for, and that needs the stream's dates: the three are inductive
together (`RedInv`).  `RedeemMeans` restates the call in the quantities the rest is
about: what it frees, what it queues, what it pays.  From there each theorem is short.
The refinement shows that what is queued is no more than is then held and no more than
`Flow`, step by step, so that every theorem of the stream holds of this vault.  The view is the
payout because the share is of the balance before the unwind on both sides.  Slices
come down to floors being superadditive (`FloorsAdd`), and the stayers' worth to
`NoDilution`: what leaves is at most the leaver's part, and the supply falls by at least
the shares.

*Bonds* (in IndexBookProofs).  That an open market is attributed needs its converse as well: what is
attributed to a collateral is a market of that collateral (`Attribution`), or a
removal could close another's.  That views agree rests on `RollEpoch` landing in the
epoch that holds the present, a lemma on floored division.

The book's amounts (`BookInv`) are sums over places, moved by two lemmas each: one place is
added (`SoldGrows`, `OwedGrows`), or some are paid (`OwedPaid`).  Solvency and "never ahead of
the vest" are inductive with the types.  `NoDayIssuesTwoCaps` is not: as with the purse, the
invariant adds what the previous window may still count (`Window`: what was sold since the
window opened is its charge, what was sold in the day before that is within one more ceiling,
and a charge is within the ceiling).  An epoch counts its bonds because nothing a market sold lies
beyond the end of its epoch, so that a roll leaves all of it behind (`EpochInv`).  That is
inductive only while `setEpochSeconds` lengthens, which the theorem takes as a premise
(`[][epochSeconds <= epochSeconds']_epochSeconds`); without it the property is false, and
section 5 says so.

*IndexBook.*  The registry closes the market the shell attributes to a token, so the
same `Attribution` is what makes a retirement close the right one; to it the invariant
adds that `byHand` names every market of a retired token that is open.

*FeedRegistry.*  What is latched and what is pending are rounds of the current
series, no older than themselves, and a live round that is latched was corroborated
when it was (`RecordsAreRounds`).  `LatchIsQuiet` needs a confirmation time above
zero, which the registry's own band enforces (`CONFIRM_SECONDS_MIN`).

*BondPricing.*  `FloorBoundsIssue` is the arithmetic core: numerator down,
denominator up, quotient down, and the final product down never favour the
bonder.  `AnswerUnderstates` shows that, while the aggregator answers, a reported
answer is never above the aggregator's own; `PricedVaultIsLive` that a vault whose
checkpoint is not flagged is valued at the live answer; `DepositAddsItsWorth` and
`IssueKeepsNav` then compare the NAV before and after, up to one wei of value.
No bound of the model enters: clock, rounds, holdings and supply are arbitrary.

*OracleGate.*  That a trip means a slow block needs three facts the property does
not mention: the block number is the stamp's, moved on modulo 2^32 by the blocks
since (`DifferenceSurvivesTheWrap` reads the count back), the clock is ahead of the
stamp, and the time since it is at most that many of the slowest block.  The
breaker needs each timer to be the earliest of the pokes outside since the last
poke inside, or zero if there were none.  That the doors nest is a matter of
precedence in `Verdict` and holds in every state; no invariant is needed.

*Ladder.*  A burnback goes by the mark, and a write may lift the mark up to the
truncated price, so an ask that was never sold must lie above both.  That holds
because the price, its truncated memory and the block's anchor stay within reach of
each other, and that reach is shorter than a cell (`LadderAssumption`: one doubling is 6,960
ticks, the outermost rail of an entry pool 2,000).  The proof goes through the functions from
book to book that a call is built from (`PlacedKeeps`, `ClearedKeeps`, `LaidKeeps`,
`HarvestedKeeps`, `WrittenKeeps`), each shown to keep the invariant once.

The same functions are then shown to keep the counts (`CountInv`).  The live count is right
because a cell with liquidity has a record and records are numbered 1 to their count without
a repeat (`Filed`); what is opened fits into what is left of the budget (`OpenedFits`).  The pace is
a bound on every stretch of blocks, not only on a day: since the last charge, and
between any two blocks, what was drained is at most what the window held plus, for each
block since, an allowance's share of it and what a charge may round away (`Since`,
`Always`, in units of 1/`Day` so that nothing is divided); `DecayIsPaced` is one charge of it, `ChargeKeepsPace` carries it to
every window that ends there.  The floor is about what the entry pool quotes after
the call.  A harvest goes down the records until enough is freed, so it frees no
more than was asked (`GivenAddsUp`, `HarvestLeaves`, by induction on the record number), what is laid back
is quoted again (`LaidKeepsQuote`), and a reset of the mark touches no ask that is quoted (`PlacedKeepsQuote`).

*Lifecycle.*  That a shell is empty follows from what a migration takes, which is what is
*listed*: the invariant has to say that every pool and every placed amount of a vault is of a
listed asset (`EstateIsListed`), and that no vault is its own standby.  The roles need that a
hand-over skips only what `behind` remembers.  For the settlement it is that no AMPS is minted
for the adapter once its legs exist, and that a leg which was not created holds nothing.  Vaults,
assets, roles and amounts are arbitrary in number and size.

*SumLemmas.*  The library's induction theorems take an operator as an argument, which no installed
prover can instantiate.  They are stated here for a set instead: a set of numbers, or of
subsets, that is closed under the step contains everything (`Counting`, `SetInduction`), which
follows from least elements of a set of naturals.  From there a sum over a finite set is shown to exist, to
be the one `SumFunctionOnSet` picks, and to be additive (`SumPutsIn`, `SumUnion`, `SumAtMost`).

*Keeper.*  The in-flight map alone is not inductive: the invariant adds that the place
being waited on holds the chosen job, that a touch known to be mined moved the stamp
after the wait began, and that the latch is set only when the chain has settled.
Faults are unbounded in the proof.

*Indexer.*  A handler sees one log, so the invariant has to say what a log is: `ChainInv` that the
chain's figures are sound and that each log of the block is stamped with what its step made of the
stamp before (`Follows`), and that what a transaction has still to do is something its figures
cover (`Runs`); `Shape` that a block that is being mined has no log handled.  `TablesInv` then sets the tables against
the stamp of the last log handled, and the tables of the block boundary against the chain
there, so that a restart or a reorganisation goes back to a state of which the same was said.  What
a handler does is stated once per group of tables (`Folds`, `FoldsSales`) and set against
what the step did to the chain.  A redemption burns what is left only because a script's
burns are covered when it starts.  The ledgers (`SalesInv`) are sums, over rows that are added,
rows that are credited and rows that stand (`UpsertAdds`, `CreditAdds`, `TotalStands`); a sale is
settled once because only the last one is pending, every bond's script has its checkpoint before
the sale, and a checkpoint settles it on both sides.

The alerts span several logs of a block, so the invariant (`MinedInv`) says what a block and the
rest of the running transaction have in common: a checkpoint's reference is in the block after it or
still to come, and a compound's last checkpoint is no lower than the one before it, because within one
transaction only its own burn moves the value, and upward.  The warnings are then the chain's own
drifts (`WarnInv`), whose mark and previous NAV the handlers hold at every log.  A disagreement found in
mid-block stands only while a later log will have the comparison run again (`AlertsInv`,
`RunsAgain`): with none left, the figures compared are those of the end of the block (`Steady`, by
induction over the rest of it), and a checkpoint cannot be among the rest without its reference.

*Only model-checked.*  Every invariant and every action property a run checks is proved.  *Beyond this
prover*, and with TLC, are the liveness properties and ENABLED (`SoldIsKept`, `TripClears`,
`UpkeepRecovers`, `BacklogDrains`, `LaunchSettles`, `RaiseComesHome`); the safety half of `SoldIsKept`
is `TermsStand`.  No module declares a RECURSIVE operator.

## 5. Where code and documents differ

Two runs each check one sentence of the repository that the code does not keep.

1. *keeper_degraded.*  "`touch` and `checkpoint` still run" under DEGRADED
   (`docs/keeper-runbook.md:305`).  `screenCheckpoint` asks `gateAdmits`
   (`decide.ts:247`), which DEGRADED fails, so through every night the checkpoint
   ages past what the shell will price against.
2. *indexer_positions.*  A row of positions is its owner's vest (`lib/ids.ts:41`).
   `bonds.ts:224` keys it by the payer and by the index in the receiver's array.  A bond for
   somebody else is filed under the wrong name, its claims are dropped (`bonds.ts:321`),
   and the payer's own next bond may collide with it and halt the indexer.

Seen while modelling, without a run of their own:

- *Stream.*  "The same straight line" (`VaultRedeemLib.sol:350-352`): a settlement the
  balance cuts short charges its interval twice (`:366`), so the burn runs ahead of the
  line, never behind it (`NeverBehindTheLine`).  "An already-overdue queue stays
  overdue" (`:469-470`): not when the settlement could not pay and what is added is
  comparable to it (`:486`).
- *Redemption.*  "A split exit is charged more, never less": the second slice shares
  in the fee of the first (`VaultRedeemLib.sol:1063`); two exits of 250 in 1000 pay 488 where one
  of 500 pays 487.  From one state slices are never quoted more (`PreviewIsSound`).
- *Index.*  GL-52 and I37: "no RETIRED constituent has an open bond market".  The
  timelock can open it at the shell: `setMarketOpen` asks for the attribution, not the
  status.  What holds is `RetiredStaysShut`.  GL-17, that a recorded market id is the
  live one, is false from a relisting at the shell to the registry's next
  lifecycle action (what holds is `RetirementCloses`: the code drives the live id).
  The beta test of an addition is not repeated when rollout weight is given later
  (`PoolRegistry.sol:420` against `Types.sol:235`).
- *Bonds.*  Shortening the epoch length can drop issuance of the epoch in progress
  (`AmpsBonds.sol:1192` against `Types.sol:281`).
- *Purse.*  The 24-hour figure of `IBountyPot.sol:104` is called trailing and is a
  resetting window; GL-60 (spent within the ceiling) is false after the ceiling is lowered.
- *Gate and feeds.*  `OracleGate.sol:29` has the stamp written by "every state-changing
  vault entry"; only `checkpoint` and `touch` poke.  A deviation "sustained"
  (`OracleGate.sol:51`) counts on across a recovery nobody poked (`BreakerRemembers` says
  exactly what is counted).  `docs/keeper-runbook.md:309` has `touch()` clear
  WATCHDOG, which it does not when the hub's coverage is what is missing.
  `FeedRegistry.sol:77-79` holds a jump "until `confirmSeconds` elapse", which takes a
  `refresh` call to begin.
- *Ladders.*  A straddled cell is said to be burned by a later compound
  (`VaultPlacementLib.sol:1135-1137`, I33): a compound that burns another cell resets the
  mark below it, and its bought-back AMPS then stays.  After a reset the next
  write may lift the mark back to the lagging truncated price
  (`TruncatedOracleLib.sol:309`), harmless only while the lag is less than a cell.
  "At most `rolloutBpsPerDay` per rolling day" (`IRolloutPolicy.sol:15`): the allowance
  decays from its last charge and admits up to about twice (`RolloutIsPaced` states the
  bound).  `_harvestAsks` says "highest cell first" and walks records last-appended first,
  another order once a lower ladder was laid later.
- *Migration.*  `IAmpsVault.sol:1076` and `docs/launch-runbook.md:413-415`, `:557` have the standby
  re-add the ladders "at the same ticks" and go on.  A standby that is an AmpsVault was never
  opened: `redeemProRata` (`AmpsVault.sol:878`), checkpoint, touch, bonds and placements
  all refuse before `genesisPlace`, and the shell may no longer burn, so the floor of GL-27 is shut until
  the standby has a genesis of its own, with a second `S0` (against GL-02).  The
  register asks only for code (`:1360`), so another implementation may be meant.  A second migration out of
  such a standby moves what is on its own list (`VaultNavLib.sol:580`), which is empty until it opens a
  pool, takes a bond or has its genesis: inherited claims stay behind, against "every position and every
  claim" (`IAmpsVault.sol:1067`).  A raise settled after a migration goes to the shell
  (the adapter's vault is immutable), from where no second migration is possible.  A contract
  whose pointer was unset at a migration keeps answering to the shell (`behind`), and wiring it
  later makes the next migration revert; a hook that refused once stays there too.
- *Genesis.*  "Its tranche is never minted out" of a disabled leg (`IAmpsGenesis.sol`,
  `AuctionSpec.shares`): `genesisMint` always mints the tranches of both, and the settlement brings it home.
- *Keeper.*  "No duplicate is possible" (`docs/keeper-runbook.md:322-324`): after a lost
  answer, a time-out or a restart the same job may be posted again; the chain's cooldown, not
  the keeper, stops it.  `bountySim` is latched off for good by one failed request
  (`runner.ts:195`).  The overlay of placed pools and the in-flight time-out decide nothing
  (`InFlightOnlyWhileWaiting` is why), and `JOB_ORDER` (`jobs/index.ts:259`) is not what orders
  a scan.
- *Indexer.*  An index started after the launch seeds the supply only if it is undefined, and a
  burn defines it first (`vault.ts:173-180`, `431`, `458`).  A false alarm raised inside a block is
  withdrawn from the table at its end but may already have been delivered
  (`store.ts:203`).  Alarms of two refusals in one block share an id (`alerts.ts:40`).  Accretion is
  credited to the market's current epoch and lost if that has no row yet
  (`bonds.ts:396-410`).

## 6. The plan

Built, in this order: keeper purse, bond shell, index lifecycle, burn stream,
redemption, feed, bond price, gate, then keeper, indexer, ladders and lifecycle: what
pays money out first, what prices it, what may stop it, then what runs it and what
reports it, and how it begins and ends.

Next:

1. A standby's own genesis in **Lifecycle**, and its composition with `SetVault` of the purse
   and the shell, so that a bond sold before a migration is claimed after it.
2. **TruncatedOracle**: the ring of observations against the series it samples, under
   the truncated price Ladder already keeps.
3. **HookCache**: the hook's copy of the gate.
4. The feed's held jumps over the market's closed hours: how long a dead or held answer
   may stand (`FeedRegistry.sol:542`, `:675`).
5. The pool, ladder and router tables of the indexer, against Ladder.

Every safety property stated so far is proved; what is added next is to be proved with it.

Runs are few on purpose: one per question, so a new component merges into an
existing question or replaces a run whose point is made.

## 7. Not modelled

- Bonds, BondPricing, Ladder and Redemption take the gate's verdict as open, so what
  they show holds whatever OracleGate answers.  Redemption's ladder is one cell that
  placements change as they like; how they do is Ladder's subject.
- The ring of observations and the hook's cached gate: planned above.  The hook's surge
  and fee curve: arithmetic.
- Of the vault's life: the migration's bleed bound (in a model of amounts both sides of it
  count one estate, so it never binds), the gate's verdict, the launch price, the team's and the
  creator's shares, redemptions between its steps, donations to a leg, or to the
  adapter once it has settled (nothing sweeps them).
- Of the gate: the calendar's arithmetic, the probes into a stock token, haircuts
  and fee caps.
- Fixed-point price arithmetic (`PriceLib`, `PoolStateLib`, the fee curve): 160-bit
  roots and widths that TLC cannot enumerate and that the repository fuzzes
  against references.
- Assets that pause, deny or burn gas: the code skips and reports them; in
  Redemption only the failed sweep is a choice.
- Of the keeper: the amounts behind a bounty (worth sending or not), metrics, the HTTP
  server, the local-key submitter.  Of the indexer: pool, ladder, router, registry, feed and
  genesis tables, the denylist detector, the HTTP API.
- Periphery, valuers, lenses: stateless; what they preview is modelled with the
  state they read.
- Web application, ABIs, configuration, studies and deployment scripts: no state
  of the protocol.  They are most of the repository's TypeScript.
