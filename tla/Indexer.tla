------------------------------ MODULE Indexer ------------------------------
(***************************************************************************)
(* The indexer (apps/indexer): handlers that fold the logs of the vault,   *)
(* the bond shell and the pools into tables, one log at a time and a block *)
(* behind the chain.  While a handler runs, the tables stand at its log    *)
(* and whatever it reads from the chain stands at the end of its block.    *)
(*                                                                         *)
(* The framework keeps every table, the handlers' scratch values included, *)
(* at a block boundary: a restart or a reorganisation puts them back there *)
(* and replays, with the same logs or with others.                         *)
(*                                                                         *)
(* The index starts before the launch.  Rows that one log adds and no      *)
(* handler reads back (checkpoints, burns, claims, samples of the share    *)
(* classes) are left out, as are the fields that only copy an argument.    *)
(***************************************************************************)
EXTENDS Integers, Sequences, FiniteSets, Functions

CONSTANTS
    Owners,         \* accounts that bond and redeem
    S0,             \* the supply minted at genesis
    P0,             \* the auction's clearing price
    Navs,           \* NAV/share, in steps larger than every dust bound
    EpochSeconds, DaySeconds,   \* in blocks
    PollBlocks,     \* AMPS_RECONCILE_POLL_BLOCKS
    MaxHeight,      \* bound on blocks
    MaxTxs,         \* bound on transactions after the launch
    MaxFaults       \* bound on failed reads, restarts and reorganisations

ASSUME IndexerAssumption ==
    /\ {S0, P0, EpochSeconds, DaySeconds, PollBlocks, MaxHeight} \subseteq Nat \ {0}
    /\ Navs \subseteq Nat \ {0}
    /\ {MaxTxs, MaxFaults} \subseteq Nat

None == "none"

VARIABLES
    \* the chain
    chain,      \* the contracts, as the logs so far left them
    height,     \* the block's number; a block takes one tick
    todo,       \* what the running transaction has still to do
    block,      \* the block's logs, each stamped with the chain after it
    \* the indexer
    tables,     \* every table, as one record
    at,         \* logs of the block already handled
    phase,      \* mining, indexing or polled: who has the block
    halted,     \* a handler failed in a way no replay mends
    \* the block boundary a rollback returns to
    base,
    \* bounds, and the blocks in which a chain read failed
    txs, faults, unread

chainVars == <<chain, height, todo, block>>
vars == <<chain, height, todo, block, tables, at, phase, halted, base, txs, faults, unread>>

(***************************************************************************)
(* The chain: transactions are scripts of steps, and a step that changes   *)
(* what the indexer keeps emits one log.                                   *)
(***************************************************************************)
Unborn ==
    [ launch |-> None, listed |-> FALSE, supply |-> 0, queued |-> 0, nav |-> 0, live |-> 0, pRef |-> 0,
      marked |-> FALSE, drifts |-> {}, epochStart |-> 0, epochIssued |-> 0, issued |-> 0,
      sales |-> <<>>, vests |-> [o \in Owners |-> <<>>] ]

Step(ev) == [ev |-> ev, who |-> None, to |-> None, id |-> 0, n |-> 0, live |-> 0]
Sized(ev, n) == [Step(ev) EXCEPT !.n = n]
By(ev, o) == [Step(ev) EXCEPT !.who = o]

now == height

(* A step that finds nothing to do leaves no log: an empty queue, an epoch *)
(* still running.                                                          *)
Expired(c) == now >= c.epochStart + EpochSeconds
Idle(c, s) == \/ s.ev = "BurnQueued" /\ c.queued = 0
              \/ s.ev = "EpochRolled" /\ ~Expired(c)

(* Only a fall that nothing logged explains is a drift. *)
Fell(c) == c.nav > c.live

Effect(c, s) ==
    LET d == [c EXCEPT !.live = IF s.live = 0 THEN @ ELSE s.live] IN
    CASE s.ev = "GenesisMinted" -> [d EXCEPT !.launch = "minted", !.supply = S0]
      [] s.ev = "Genesis" -> [d EXCEPT !.launch = "open"]
      [] s.ev = "CollateralAdded" -> [d EXCEPT !.listed = TRUE, !.epochStart = now]
      [] s.ev = "EpochRolled" ->
            [d EXCEPT !.epochStart = now - ((now - @) % EpochSeconds), !.epochIssued = 0]
      [] s.ev = "BurnQueued" -> [d EXCEPT !.supply = @ - d.queued, !.queued = 0]
      [] s.ev = "Burn" -> [d EXCEPT !.supply = @ - s.n]
      [] s.ev = "VestingMinted" -> [d EXCEPT !.supply = @ + s.n]
      [] s.ev = "NavCheckpoint" ->
            [d EXCEPT !.nav = d.live, !.marked = FALSE,
                      !.drifts = IF Fell(d) /\ ~d.marked
                                 THEN @ \cup {<<height, Len(block) + 1>>} ELSE @,
                      !.sales = [i \in DOMAIN @ |->
                                    IF @[i].after = 0 THEN [@[i] EXCEPT !.after = d.live] ELSE @[i]]]
      [] s.ev = "RefCheckpoint" -> [d EXCEPT !.pRef = IF s.n = 0 THEN d.nav ELSE s.n]
      [] s.ev = "Bond" ->
            [d EXCEPT !.issued = @ + s.n, !.epochIssued = @ + s.n, !.marked = TRUE,
                      !.sales = Append(@, [before |-> d.nav, after |-> 0]),
                      !.vests[s.to] = Append(@, [principal |-> s.n, claimed |-> 0])]
      [] s.ev = "Claim" -> [d EXCEPT !.vests[s.who][s.id + 1].claimed = @ + s.n]
      [] s.ev = "Redeem" -> [d EXCEPT !.queued = @ + s.n, !.marked = TRUE]
      [] s.ev \in {"Placement", "Compound", "PriceMoved"} -> [d EXCEPT !.marked = TRUE]
      [] OTHER -> d

(* Both burns carry one log; the id of a vest is its place in the owner's  *)
(* array.                                                                  *)
LogOf(c, s) ==
    [ ev |-> IF s.ev = "BurnQueued" THEN "Burn" ELSE s.ev,
      who |-> s.who,
      id |-> IF s.ev = "Bond" THEN Len(c.vests[s.to]) ELSE s.id,
      n |-> IF s.ev = "BurnQueued" THEN c.queued ELSE s.n,
      after |-> Effect(c, s) ]

Emit ==
    /\ todo # <<>>
    /\ todo' = Tail(todo)
    /\ IF Idle(chain, Head(todo)) THEN UNCHANGED <<chain, block>>
       ELSE /\ chain' = Effect(chain, Head(todo))
            /\ block' = Append(block, LogOf(chain, Head(todo)))
    /\ UNCHANGED <<height, tables, at, phase, halted, base, txs, faults, unread>>

Between == phase = "mining" /\ todo = <<>>
Run(script) ==
    /\ Between
    /\ todo' = script
    /\ UNCHANGED <<chain, height, block, tables, at, phase, halted, base, faults, unread>>

Checkpointing == <<Step("BurnQueued"), Step("NavCheckpoint"), Step("RefCheckpoint")>>

(* The launch: the mint, and hours later the placement that opens the      *)
(* vault, whose checkpoint is followed by the auction's own reference; the *)
(* first market is listed with it.                                         *)
GenesisMint ==
    /\ chain.launch = None
    /\ Run(<<Step("GenesisMinted")>>)
    /\ txs' = txs
GenesisPlace ==
    /\ chain.launch = "minted"
    /\ \E n \in Navs :
        Run(<<[Step("NavCheckpoint") EXCEPT !.live = n], Step("RefCheckpoint"),
              Sized("RefCheckpoint", IF P0 < n THEN n ELSE P0), Step("Genesis"),
              Step("CollateralAdded")>>)
    /\ txs' = txs

Transact(script) ==
    /\ chain.launch = "open" /\ txs < MaxTxs
    /\ Run(script)
    /\ txs' = txs + 1

Raised == IF chain.live + 1 \in Navs THEN chain.live + 1 ELSE chain.live

CheckpointTx == Transact(Checkpointing)

(* A bond may name somebody else to receive the vest.  The log names the   *)
(* payer. *)
BondTx ==
    \E payer \in Owners, to \in Owners :
        /\ chain.listed
        /\ Transact(<<Step("EpochRolled")>> \o Checkpointing \o
                    <<Sized("VestingMinted", 1),
                      [Sized("Bond", 1) EXCEPT !.who = payer, !.to = to, !.live = Raised]>>)

ClaimTx ==
    \E o \in Owners : \E i \in DOMAIN chain.vests[o] :
        /\ chain.vests[o][i].claimed < chain.vests[o][i].principal
        /\ Transact(<<[By("Claim", o) EXCEPT !.id = i - 1, !.n = 1]>>)

(* A redemption burns the redeemer's shares and queues the vault's own,    *)
(* which the model burns whole at the next settlement.                     *)
RedeemTx_Unguarded ==
    \E released \in {0, 1} :
        Transact(<<Step("BurnQueued"), Sized("Burn", 1), Sized("Redeem", released)>>)
RedeemTx ==
    /\ chain.supply > chain.queued + 2
    /\ \E released \in {0, 1} :
        Transact(<<Step("BurnQueued"), Sized("Burn", 1), Sized("Redeem", released)>>)

(* A compound's fees lift NAV between its two checkpoints, or it finds     *)
(* nothing to burn and nothing to place.                                   *)
CompoundTx ==
    \E works \in BOOLEAN :
        /\ works => chain.supply > chain.queued + 1
        /\ Transact(Checkpointing
                    \o (IF works THEN <<[Sized("Burn", 1) EXCEPT !.live = Raised], Step("Placement")>>
                       ELSE <<>>)
                    \o Checkpointing \o <<Step("Compound")>>)

(* Prices move with a log, a pool's Swap or a feed's AnswerUpdated, and    *)
(* NAV converges without one.                                              *)
MarketTx ==
    \E v \in Navs : v # chain.live /\ Transact(<<[Step("PriceMoved") EXCEPT !.live = v]>>)
Converge ==
    /\ Between /\ chain.launch = "open" /\ txs < MaxTxs
    /\ chain.live - 1 \in Navs
    /\ chain' = [chain EXCEPT !.live = @ - 1]
    /\ txs' = txs + 1
    /\ UNCHANGED <<height, todo, block, tables, at, phase, halted, base, faults, unread>>

Seal ==
    /\ Between
    /\ phase' = "indexing"
    /\ UNCHANGED <<chainVars, tables, at, halted, base, txs, faults, unread>>

(***************************************************************************)
(* The tables.                                                             *)
(***************************************************************************)
(* supplyEvented and netSupply are sums over logs; nav, pRef, prevNav,     *)
(* supply and navMoved are the handlers' scratch values; pending is the    *)
(* purchase whose accretion the next checkpoint settles; reconciled says   *)
(* whether this block has a reconciliation row.                            *)
EmptyTables ==
    [ supplyEvented |-> 0, netSupply |-> 0,
      nav |-> 0, prevNav |-> 0, pRef |-> 0, supply |-> 0, navMoved |-> FALSE,
      listed |-> FALSE, epochStart |-> 0, issuedThisEpoch |-> 0, issued |-> 0, gain |-> 0,
      epochs |-> <<>>, days |-> <<>>, flywheel |-> <<>>,
      purchases |-> <<>>, pending |-> 0, pendingSupply |-> 0,
      positions |-> <<>>, alerts |-> {}, reconciled |-> FALSE ]

Day == now - (now % DaySeconds)
Row(f, k, fresh) == IF k \in DOMAIN f THEN f[k] ELSE fresh
Upsert(f, k, row) == [x \in DOMAIN f \cup {k} |-> IF x = k THEN row ELSE f[x]]
Credit(f, k, g) == [f EXCEPT ![k].gain = @ + g]
Total(f) == SumFunctionOnSet(f, DOMAIN f)

Alert(kind, log) == [kind |-> kind, block |-> height, log |-> log]
Divergence == Alert("reconciliation", 0)

(* One run of the comparison: the index at this log, the chain at the end  *)
(* of the block.  A clean run takes back what an earlier one in the block  *)
(* raised; a failed read leaves everything as it was.                      *)
Agrees(t) == /\ t.nav = chain.nav
             /\ t.pRef = chain.pRef
             /\ t.supplyEvented = chain.supply
Reconciled(t) ==
    IF t.nav = 0 \/ t.pRef = 0 THEN t
    ELSE [t EXCEPT !.reconciled = TRUE,
                   !.alerts = IF Agrees(t) THEN @ \ {Divergence} ELSE @ \cup {Divergence}]

ReconcileWith(t) ==
    \/ /\ tables' = Reconciled(t)
       /\ UNCHANGED <<faults, unread>>
    \/ /\ faults < MaxFaults
       /\ tables' = t
       /\ faults' = faults + 1
       /\ unread' = unread \cup {height}

(* A supply log after the block's checkpoint repeats the run. *)
ReconcileAgain(t) ==
    IF t.reconciled THEN ReconcileWith(t)
    ELSE tables' = t /\ UNCHANGED <<faults, unread>>

(***************************************************************************)
(* The handlers.                                                           *)
(***************************************************************************)
Log == block[at + 1]
Handling == phase = "indexing" /\ ~halted /\ at < Len(block)
Handle(ev) ==
    /\ Handling /\ Log.ev = ev
    /\ at' = at + 1
    /\ UNCHANGED <<chainVars, phase, halted, base, txs>>
Store(t) == tables' = t /\ UNCHANGED <<faults, unread>>

OnGenesisMinted ==
    /\ Handle("GenesisMinted")
    /\ Store([tables EXCEPT !.supplyEvented = S0, !.supply = S0])

OnGenesis ==
    /\ Handle("Genesis")
    /\ Store([tables EXCEPT !.nav = Log.after.nav, !.pRef = Log.after.pRef, !.supply = S0,
                            !.supplyEvented = S0])

(* The purchase waiting for a checkpoint gets its accretion from this one; *)
(* it is booked to its own day, to the market's epoch of now if that has a *)
(* row, and to the day of the checkpoint.                                  *)
Settled_KeepsPending(t, nav) ==
    LET p == t.purchases[t.pending]
        g == (nav - p.before) * t.pendingSupply
    IN IF t.pending = 0 THEN t
       ELSE [t EXCEPT
                !.purchases[t.pending] = [p EXCEPT !.after = nav, !.gain = g],
                !.gain = IF t.listed THEN @ + g ELSE @,
                !.days = Credit(@, p.day, g),
                !.flywheel = Upsert(@, Day, Row(@, Day, 0) + g)]
Settled(t, nav) ==
    LET p == t.purchases[t.pending]
        g == (nav - p.before) * t.pendingSupply
        epoch == t.epochStart
    IN IF t.pending = 0 THEN t
       ELSE [t EXCEPT
                !.purchases[t.pending] = [p EXCEPT !.after = nav, !.gain = g],
                !.gain = IF t.listed THEN @ + g ELSE @,
                !.epochs = IF t.listed /\ epoch \in DOMAIN @
                           THEN Credit(@, epoch, g) ELSE @,
                !.days = Credit(@, p.day, g),
                !.flywheel = Upsert(@, Day, Row(@, Day, 0) + g),
                !.pending = 0]

(* The drift check reads the mark and the NAV of the checkpoint before. *)
Drifted_ClearedFirst(t, nav) == t.nav > nav
Drifted(t, nav) == ~t.navMoved /\ t.nav > nav

OnNavCheckpoint ==
    /\ Handle("NavCheckpoint")
    /\ LET nav == Log.after.nav
           seen == [tables EXCEPT
                      !.alerts = IF Drifted(tables, nav)
                                 THEN @ \cup {Alert("nav-drift", at + 1)} ELSE @,
                      !.prevNav = tables.nav, !.nav = nav, !.supply = Log.after.supply,
                      !.navMoved = FALSE]
       IN Store(Settled(seen, nav))

OnRefCheckpoint ==
    /\ Handle("RefCheckpoint")
    /\ ReconcileWith([tables EXCEPT !.pRef = Log.after.pRef])

OnBurn ==
    /\ Handle("Burn")
    /\ ReconcileAgain([tables EXCEPT !.supplyEvented = @ - Log.n,
                                     !.netSupply = @ - Log.n])

OnVestingMinted_NoRerun ==
    /\ Handle("VestingMinted")
    /\ Store([tables EXCEPT !.supplyEvented = @ + Log.n, !.netSupply = @ + Log.n])
OnVestingMinted ==
    /\ Handle("VestingMinted")
    /\ ReconcileAgain([tables EXCEPT !.supplyEvented = @ + Log.n,
                                     !.netSupply = @ + Log.n])

(* Events that may move NAV leave the mark. *)
OnRedeem_Subtracts ==
    /\ Handle("Redeem")
    /\ Store([tables EXCEPT !.navMoved = TRUE, !.supplyEvented = @ - 1])
OnRedeem ==
    /\ Handle("Redeem")
    /\ \E short \in BOOLEAN :    \* was the payout short of its NAV basis?
        /\ short => faults < MaxFaults
        /\ tables' = [tables EXCEPT
              !.navMoved = TRUE,
              !.alerts = IF short THEN @ \cup {Alert("redeem-gap", at + 1)} ELSE @]
        /\ faults' = IF short THEN faults + 1 ELSE faults
    /\ UNCHANGED unread

OnMarked ==
    /\ Handle("Placement") \/ Handle("PriceMoved")
    /\ Store([tables EXCEPT !.navMoved = TRUE])

(* R1: a compound whose two checkpoints fell between them is reported. *)
OnCompound ==
    /\ Handle("Compound")
    /\ Store([tables EXCEPT
            !.navMoved = TRUE,
            !.alerts = IF tables.prevNav > 0 /\ tables.nav < tables.prevNav
                       THEN @ \cup {Alert("nav-bleed", at + 1)} ELSE @])

OnCollateralAdded ==
    /\ Handle("CollateralAdded")
    /\ Store([tables EXCEPT !.listed = TRUE])

OnEpochRolled_KeepsIssue ==
    /\ Handle("EpochRolled")
    /\ Store(IF tables.listed THEN [tables EXCEPT !.epochStart = Log.after.epochStart] ELSE tables)
OnEpochRolled ==
    /\ Handle("EpochRolled")
    /\ Store(IF tables.listed
             THEN [tables EXCEPT !.epochStart = Log.after.epochStart, !.issuedThisEpoch = 0]
             ELSE tables)

(* The position row is keyed by the payer and the receiver's index: a key  *)
(* taken before is an insert that fails, now and on every replay.          *)
KeyOf(log) == <<log.who, log.id>>
Bought ==
    LET n == Log.n
        epoch == tables.epochStart
        bump(f, k) == LET r == Row(f, k, [issued |-> 0, gain |-> 0])
                      IN Upsert(f, k, [r EXCEPT !.issued = @ + n])
    IN [tables EXCEPT
          !.navMoved = TRUE,
          !.purchases = Append(@, [day |-> Day, before |-> tables.nav, after |-> 0, gain |-> 0]),
          !.pending = Len(tables.purchases) + 1,
          !.pendingSupply = tables.supply,
          !.positions = Upsert(@, KeyOf(Log), [principal |-> n, claimed |-> 0]),
          !.issued = IF tables.listed THEN @ + n ELSE @,
          !.issuedThisEpoch = IF tables.listed THEN @ + n ELSE @,
          !.epochs = bump(@, epoch),
          !.days = bump(@, Day)]

Taken == KeyOf(Log) \in DOMAIN tables.positions
OnBond ==
    /\ Handle("Bond")
    /\ ~Taken
    /\ Store(Bought)
OnBondFails ==
    /\ Handling /\ Log.ev = "Bond" /\ Taken
    /\ halted' = TRUE
    /\ UNCHANGED <<chainVars, tables, at, phase, base, txs, faults, unread>>

OnClaim ==
    /\ Handle("Claim")
    /\ Store(IF KeyOf(Log) \in DOMAIN tables.positions
             THEN [tables EXCEPT !.positions[KeyOf(Log)].claimed = @ + Log.n] ELSE tables)

(* The heartbeat runs after the last log of every PollBlocks-th block. *)
Due == height % PollBlocks = 0
Poll ==
    /\ phase = "indexing" /\ ~halted /\ at = Len(block) /\ Due
    /\ ReconcileWith(tables)
    /\ phase' = "polled"
    /\ UNCHANGED <<chainVars, at, halted, base, txs>>

Close ==
    /\ phase = (IF Due THEN "polled" ELSE "indexing") /\ ~halted /\ at = Len(block)
    /\ height < MaxHeight
    /\ height' = height + 1
    /\ tables' = [tables EXCEPT !.reconciled = FALSE]
    /\ base' = [chain |-> chain, tables |-> tables']
    /\ block' = <<>> /\ at' = 0 /\ phase' = "mining"
    /\ UNCHANGED <<chain, todo, halted, txs, faults, unread>>

(* Tables go back to the boundary: the same block again, or another in its *)
(* place.                                                                  *)
RollBack ==
    /\ phase # "mining" /\ ~halted /\ faults < MaxFaults
    /\ faults' = faults + 1
    /\ tables' = base.tables
    /\ at' = 0
    /\ unread' = unread \ {height}
Restart ==
    /\ RollBack
    /\ phase' = "indexing"
    /\ UNCHANGED <<chainVars, halted, base, txs>>
Reorg ==
    /\ RollBack
    /\ phase' = "mining"
    /\ chain' = base.chain /\ block' = <<>> /\ todo' = <<>>
    /\ UNCHANGED <<height, halted, base, txs>>

Init ==
    /\ chain = Unborn
    /\ height = 1
    /\ todo = <<>> /\ block = <<>>
    /\ tables = EmptyTables
    /\ at = 0 /\ phase = "mining" /\ halted = FALSE
    /\ base = [chain |-> chain, tables |-> tables]
    /\ txs = 0 /\ faults = 0 /\ unread = {}

Mine == \/ GenesisMint \/ GenesisPlace \/ CheckpointTx \/ BondTx \/ ClaimTx \/ RedeemTx
        \/ CompoundTx \/ MarketTx \/ Converge \/ Emit \/ Seal
Index == \/ OnGenesisMinted \/ OnGenesis \/ OnNavCheckpoint \/ OnRefCheckpoint \/ OnBurn
         \/ OnVestingMinted \/ OnRedeem \/ OnMarked \/ OnCompound \/ OnCollateralAdded
         \/ OnEpochRolled \/ OnBond \/ OnBondFails \/ OnClaim \/ Poll \/ Close
Next == Mine \/ Index \/ Restart \/ Reorg

Spec == Init /\ [][Next]_vars

(***************************************************************************)
(* Properties.                                                             *)
(***************************************************************************)
TypeOK ==
    /\ chain.launch \in {None, "minted", "open"}
    /\ {chain.supply, chain.queued, chain.issued} \subseteq Nat
    /\ chain.live \in Navs \cup {0}
    /\ at \in 0..Len(block) /\ phase \in {"mining", "indexing", "polled"}
    /\ tables.pending \in 0..Len(tables.purchases)
    /\ {tables.navMoved, tables.listed, tables.reconciled, halted} \subseteq BOOLEAN
    /\ {tables.nav, tables.prevNav} \subseteq Navs \cup {0}
    /\ \A a \in tables.alerts : a.block \in 1..height
    /\ height \in 1..MaxHeight /\ txs \in 0..MaxTxs /\ faults \in 0..MaxFaults
    /\ unread \subseteq 1..MaxHeight

(* The chain as the last log handled left it. *)
Seen == IF at = 0 THEN base.chain ELSE block[at].after
Issued(f) == Total([k \in DOMAIN f |-> f[k].issued])
Gains(f) == Total([k \in DOMAIN f |-> f[k].gain])

(* After every log the sums over logs are the chain's own figures at that  *)
(* log: the supply, NAV and reference, the market's issue and that of its  *)
(* epoch.  It holds through queued burns, replays and reorganisations      *)
(* (vault.ts 429-476, bonds.ts 174-306).  Every variable keeps its type.   *)
BooksFollowChain ==
    /\ TypeOK
    /\ tables.supplyEvented = Seen.supply
    /\ Seen.launch # None => S0 + tables.netSupply = Seen.supply
    /\ tables.nav = Seen.nav /\ tables.pRef = Seen.pRef
    /\ tables.issuedThisEpoch = Seen.epochIssued
    /\ tables.issued = Seen.issued

(* A reconciliation runs in the middle of a block against the end of it,   *)
(* so it disagrees as a matter of course; once a block is through, no such *)
(* alert stands unless a read failed in it (reconcile.ts 210-229, 348-354).*)
Through(h) == h < height \/ at = Len(block)
AlertsStandForDisagreement ==
    \A a \in tables.alerts :
        a.kind = "reconciliation" /\ Through(a.block) => a.block \in unread

(* Every sale is settled once, by the first checkpoint after it and no     *)
(* other, whichever transaction wrote it; what the market, the days and    *)
(* the flywheel book is what the purchases gained, and the epochs and the  *)
(* days issued what the market did (bonds.ts 239-306, 371-425).            *)
TablesAddUp ==
    LET bought == tables.purchases
        settled == {i \in DOMAIN bought : bought[i].after # 0} IN
    /\ tables.gain = Gains(bought)
    /\ Gains(tables.days) = Gains(bought)
    /\ Total(tables.flywheel) = Gains(bought)
    /\ Issued(tables.epochs) = Seen.issued /\ Issued(tables.days) = Seen.issued
    /\ DOMAIN bought = DOMAIN Seen.sales
    /\ \A i \in DOMAIN bought : /\ bought[i].before = Seen.sales[i].before
                               /\ bought[i].after = Seen.sales[i].after
                               /\ i # tables.pending => i \in settled

(* A drift warning is raised for exactly the checkpoints whose fall no log *)
(* explains, whatever blocks and replays lie in between, and a compound is *)
(* never said to have bled what others moved (vault.ts 404-427, 666-682).  *)
WarningsAreEarned ==
    LET raised(kind) == {a \in tables.alerts : a.kind = kind} IN
    /\ {<<a.block, a.log>> : a \in raised("nav-drift")} = Seen.drifts
    /\ raised("nav-bleed") = {}

(* Positions are per-owner arrays (lib/ids.ts 41; ponder.schema.ts 1058):  *)
(* each row is the vest its owner holds under that id.                     *)
PositionsMirrorChain ==
    \A o \in Owners : \A i \in DOMAIN Seen.vests[o] :
        /\ <<o, i - 1>> \in DOMAIN tables.positions
        /\ tables.positions[<<o, i - 1>>] = Seen.vests[o][i]
=============================================================================
