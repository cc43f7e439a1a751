------------------------------- MODULE Ladder -------------------------------
(***************************************************************************)
(* The ladders: contracts/src/vault/VaultPlacementLib.sol and               *)
(* VaultRolloutLib.sol over the price memory of AmpsHook                    *)
(* (lib/TruncatedOracleLib.sol).  A pool's grid is a row of cells.  An ask  *)
(* laid in a cell above the price is sold as the price rises through it and *)
(* bought back as it falls through again; then it is to be burned, and the  *)
(* high-water mark, the highest truncated price since it was last reset,    *)
(* is how the vault tells such a cell from one that was never sold.         *)
(*                                                                          *)
(* One entry pool, Hub, stands for the two, and one Spoke for all of them.  *)
(* A unit of liquidity is one AMPS below its cell and one unit of the       *)
(* counter asset above it; counter assets come from outside (fees, bonds),  *)
(* and what is left of them is not tracked.  The checks that only refuse a  *)
(* call (the gate, the divergence bound, the NAV post-condition, a target   *)
(* that does not answer) are left out: a refused call changes nothing.      *)
(***************************************************************************)
EXTENDS Integers, FiniteSets, Functions

CONSTANTS
    Hub, Spoke,     \* the pools
    Traded,         \* those whose price moves, and which earn fees
    Start,          \* the price each opens at
    Cells, Width,   \* cells of a grid, and ticks of a cell
    Cap,            \* maxTickMovePerBlock
    MaxLag,         \* how far the rail lets a swap leave the truncated price
    Buckets,        \* ladderDoublings, seedHalvings, bondBidHalvings
    MaxLive,        \* Constants.MAX_LIVE_CELLS
    Cooldown, Day,  \* PLACEMENT_COOLDOWN_SECONDS, ONE_DAY; a tick of the clock is a block
    Allowance,      \* POL_SHARES * rolloutBpsPerDay / BPS
    Floor,          \* POL_SHARES * entryFloorBps / BPS
    Stock,          \* AMPS the vault holds at genesis
    Amounts,        \* what governance places at once
    Fees, Bonded,   \* what a compound collects, and what bonds bring in
    MaxBid,         \* bound of the counter asset laid in one cell
    Anchors,        \* where the reference price may stand
    MaxTime         \* bound of the clock

Pools == {Hub, Spoke}
Ticks == 0 .. Cells * Width
Grid  == 0 .. Cells - 1

(* A cell is wider than the lag: one doubling is 6,960 ticks, the outer rail *)
(* of an entry pool 2,000, and the truncated price follows by 200 a block.  *)
ASSUME LadderAssumption ==
    /\ Hub # Spoke /\ Traded \subseteq Pools /\ Start \in [Pools -> Ticks]
    /\ Cells \in Nat \ {0} /\ Width \in Nat \ {0} /\ Cap \in Nat \ {0}
    /\ MaxLag \in Nat /\ MaxLag < Width
    /\ Buckets \in Nat /\ MaxLive \in Nat /\ Cooldown \in Nat /\ Day \in Nat \ {0}
    /\ Allowance \in Nat /\ Floor \in Nat /\ Stock \in Nat
    /\ Amounts \subseteq Nat /\ Fees \subseteq Nat /\ Bonded \subseteq Nat /\ MaxBid \in Nat /\ Anchors \subseteq Ticks
    /\ MaxTime \in Nat \ {0}

VARIABLES
    now,        \* block.number, and block.timestamp in units of a block
    pool,       \* each pool's price, oracle head, records and last placement
    live,       \* the vault-wide live-cell count
    idle,       \* idle AMPS of the vault
    window,     \* rolloutMoved24h, rolloutWindowStart
    retired,    \* the Spoke's constituent is no longer ACTIVE
    drained     \* history: what left the Hub for good, by instant

vars == <<now, pool, live, idle, window, retired, drained>>

Lower(m) == m * Width
Upper(m) == (m + 1) * Width

(* A record without liquidity describes nothing.  sold is history: the      *)
(* price has stood above all of the ask since it was last added to.         *)
Empty == [liquidity |-> 0, above |-> FALSE, sold |-> FALSE]

Cell == [liquidity : Nat, above : BOOLEAN, sold : BOOLEAN]

(* record numbers a cell's record in the order they are appended; 0, none.  *)
Pool ==
    [tick : Ticks, trunc : Ticks, anchor : Ticks, mark : Ticks,
     cells : [Grid -> Cell], record : [Grid -> Nat], placed : Nat]

LadderTypeOK ==
    /\ now \in 1 .. MaxTime /\ live \in Nat /\ idle \in Nat /\ retired \in BOOLEAN
    /\ pool \in [Pools -> Pool]
    /\ window \in [moved : Nat, start : Nat]
    /\ drained \in [1 .. MaxTime -> Nat]

Init ==
    /\ now = 1
    /\ pool = [p \in Pools |->
                [tick |-> Start[p], trunc |-> Start[p], anchor |-> Start[p],
                 mark |-> Start[p], cells |-> [m \in Grid |-> Empty],
                 record |-> [m \in Grid |-> 0], placed |-> 0]]
    /\ live = 0 /\ idle = Stock
    /\ window = [moved |-> 0, start |-> 0]
    /\ retired = FALSE
    /\ drained = [t \in 1 .. MaxTime |-> 0]

Lesser(a, b)  == IF a <= b THEN a ELSE b
Greater(a, b) == IF a >= b THEN a ELSE b

IsAsk(P, m)  == P.cells[m].above /\ P.cells[m].liquidity # 0
IsBid(P, m)  == ~P.cells[m].above /\ P.cells[m].liquidity # 0

Sum(f, S) == SumFunctionOnSet(f, S)

---------------------------------------------------------------------------
(* The price, and what the hook remembers of it.                            *)

(* _truncate.                                                               *)
Truncated(t, anchor) ==
    Greater(0, Lesser(Cells * Width, Greater(anchor - Cap, Lesser(anchor + Cap, t))))

(* write: the truncated price follows by at most Cap from where the last    *)
(* block left it, and lifts the mark.                                       *)
Written(P, t) ==
    [P EXCEPT !.tick = t,
              !.trunc = Truncated(t, P.anchor),
              !.mark = Greater(@, Truncated(t, P.anchor)),
              !.cells = [m \in Grid |->
                 [P.cells[m] EXCEPT !.sold = @ \/ (IsAsk(P, m) /\ Upper(m) <= t)]]]

(* resetHighWater: the mark drops to the lower of the two prices.           *)
Reset(P) == [P EXCEPT !.mark = Lesser(P.trunc, P.tick)]

---------------------------------------------------------------------------
(* Operations on the book [pool, live, idle], in the order a call makes     *)
(* them.                                                                    *)

Book == [pool |-> pool, live |-> live, idle |-> idle]

(* Mutant: burned cells stay counted.                                       *)
Cleared_Counted(b, p, S) ==
    [b EXCEPT !.pool[p].cells = [m \in Grid |-> IF m \in S THEN Empty ELSE @[m]]]

(* Every record of S is drained, and counted out.                           *)
Cleared(b, p, S) ==
    [b EXCEPT !.pool[p].cells = [m \in Grid |-> IF m \in S THEN Empty ELSE @[m]],
              !.live = @ - Cardinality(S)]

(* _burnback: the asks under the mark that the price has come all the way   *)
(* back through.  Their AMPS is burned.                                     *)
BoughtBack(P) == {m \in Grid : IsAsk(P, m) /\ Upper(m) <= P.mark /\ P.tick <= Lower(m)}

Burnback(b, p) == Cleared(b, p, BoughtBack(b.pool[p]))

(* _cells: asks run up from the reference or the price, whichever is the    *)
(* higher, bids down from the lower, within the grid.                       *)
CeilDiv(a, d) == (a + d - 1) \div d

Targets(P, above, at) ==
    IF above
    THEN LET first == Greater(CeilDiv(at, Width), CeilDiv(P.tick, Width))
         IN  first .. Lesser(first + Buckets, Cells) - 1
    ELSE LET first == Lesser(Lesser(at \div Width, P.tick \div Width), Cells) - 1
         IN  Greater(first - Buckets + 1, 0) .. first

(* split: equal weights; the highest cell takes the remainder.              *)
Share(S, amount, m) ==
    LET each == amount \div Cardinality(S)
    IN  IF \E x \in S : x > m THEN each ELSE amount - (Cardinality(S) - 1) * each

(* _executePlace: a cell may be added to on its own side, or opened while   *)
(* the budget lasts, nearest the price first.                               *)
Nearer(above, x, m) == IF above THEN x < m ELSE x > m

Openable(P, S, amount) == {m \in S : P.cells[m].liquidity = 0 /\ Share(S, amount, m) # 0}

Opened(b, p, S, above, amount) ==
    LET free == Openable(b.pool[p], S, amount)
    IN  {m \in free : b.live + Cardinality({x \in free : Nearer(above, x, m)}) < MaxLive}

Merged(P, S, above, amount) ==
    {m \in S : P.cells[m].liquidity # 0 /\ P.cells[m].above = above /\ Share(S, amount, m) # 0}

Filled(b, p, above, amount, at) ==
    LET S == Targets(b.pool[p], above, at)
    IN  Opened(b, p, S, above, amount) \cup Merged(b.pool[p], S, above, amount)

PlacedBy(b, p, above, amount, at) ==
    LET S == Targets(b.pool[p], above, at)
    IN  Sum([m \in S |-> Share(S, amount, m)], Filled(b, p, above, amount, at))

(* The records of cells that had none are appended, nearest the price first. *)
Recorded(P) == {m \in Grid : P.record[m] # 0}

Appended(P, new, above) ==
    LET fresh == new \ Recorded(P)
    IN  [m \in Grid |->
            IF m \notin fresh THEN P.record[m]
            ELSE Cardinality(Recorded(P)) + 1 + Cardinality({x \in fresh : Nearer(above, x, m)})]

(* Mutant: an ask is laid under the mark that stands.                       *)
Laid_Unreset(b, p, above, amount, at) ==
    LET S   == Targets(b.pool[p], above, at)
        P   == b.pool[p]
        new == Opened(b, p, S, above, amount)
        all == Filled(b, p, above, amount, at)
        Q   == [P EXCEPT
                 !.cells = [m \in Grid |-> IF m \notin all THEN @[m]
                    ELSE [liquidity |-> @[m].liquidity + Share(S, amount, m),
                          above |-> above, sold |-> FALSE]],
                 !.record = Appended(P, new, above)]
    IN  [b EXCEPT !.pool[p] = Q,
                  !.live = @ + Cardinality(new),
                  !.idle = IF above THEN @ - PlacedBy(b, p, above, amount, at) ELSE @]

(* _placeLadder: lay them, write the records, and reset the mark under any  *)
(* ask laid.                                                                *)
Laid(b, p, above, amount, at) ==
    LET S   == Targets(b.pool[p], above, at)
        P   == b.pool[p]
        new == Opened(b, p, S, above, amount)
        all == Filled(b, p, above, amount, at)
        Q   == [P EXCEPT
                 !.cells = [m \in Grid |-> IF m \notin all THEN @[m]
                    ELSE [liquidity |-> @[m].liquidity + Share(S, amount, m),
                          above |-> above, sold |-> FALSE]],
                 !.record = Appended(P, new, above)]
    IN  [b EXCEPT !.pool[p] = IF above /\ all # {} THEN Reset(Q) ELSE Q,
                  !.live = @ + Cardinality(new),
                  !.idle = IF above THEN @ - PlacedBy(b, p, above, amount, at) ELSE @]

Stamped(b, p) == [b EXCEPT !.pool[p].placed = now]

(* place: what was bought back is burned before asks are laid, and the      *)
(* cooldown is taken if either moved anything.                              *)
Placed(b, p, above, amount, at) ==
    LET burned == IF above THEN BoughtBack(b.pool[p]) ELSE {}
        clear  == Cleared(b, p, burned)
        laid   == Laid(clear, p, above, amount, at)
    IN  IF burned # {} \/ Filled(clear, p, above, amount, at) # {} THEN Stamped(laid, p) ELSE laid

(* What place reports, which is what the ladder took after the burn.        *)
Taken(b, p, above, amount, at) ==
    PlacedBy(Cleared(b, p, IF above THEN BoughtBack(b.pool[p]) ELSE {}), p, above, amount, at)

Cool(p) == pool[p].placed = 0 \/ now >= pool[p].placed + Cooldown

Becomes(b) == pool' = b.pool /\ live' = b.live /\ idle' = b.idle

BidsBounded == \A p \in Pools : \A m \in Grid : IsBid(pool[p], m) => pool[p].cells[m].liquidity <= MaxBid

---------------------------------------------------------------------------
(* The vault's operations.                                                  *)

(* place, by the timelock or the registry: it is refused, not cut, when the *)
(* budget is short.                                                         *)
Place(p, above, amount, at) ==
    LET b == Cleared(Book, p, IF above THEN BoughtBack(pool[p]) ELSE {})
        S == Targets(pool[p], above, at)
    IN  /\ Cool(p) /\ (above => amount <= idle)
        /\ b.live + Cardinality(Openable(b.pool[p], S, amount)) <= MaxLive
        /\ Becomes(Placed(Book, p, above, amount, at)) /\ BidsBounded'
        /\ UNCHANGED <<now, window, retired, drained>>

(* compound: burn, place what was collected as bids, reset the mark if      *)
(* anything was bought back.                                                *)
Compound(p, fees, at) ==
    LET burned == BoughtBack(pool[p])
        clear  == Burnback(Book, p)
        laid   == Laid(clear, p, FALSE, fees, at)
        after  == IF burned = {} THEN laid ELSE [laid EXCEPT !.pool[p] = Reset(@)]
    IN  /\ Cool(p)
        /\ Becomes(IF burned # {} \/ Filled(clear, p, FALSE, fees, at) # {}
                   THEN Stamped(after, p) ELSE after) /\ BidsBounded'
        /\ UNCHANGED <<now, window, retired, drained>>

(* deployBonded: idle collateral becomes bids of a constituent that is      *)
(* still ACTIVE.                                                            *)
DeployBonded(amount, at) ==
    /\ ~retired /\ Cool(Spoke)
    /\ Becomes(Placed(Book, Spoke, FALSE, amount, at)) /\ BidsBounded'
    /\ UNCHANGED <<now, window, retired, drained>>

(* withdrawRetiredBids, by the registry once the constituent is retired.    *)
(* AMPS that bids had bought is idle again; the cooldown is taken, not      *)
(* asked for.                                                               *)
AmpsIn(P, m) ==
    (P.cells[m].liquidity * (Upper(m) - Greater(Lower(m), Lesser(P.tick, Upper(m))))) \div Width

WithdrawRetiredBids ==
    LET P    == pool[Spoke]
        bids == {m \in Grid : IsBid(P, m)}
    IN  /\ retired /\ bids # {}
        /\ Becomes(Stamped([Cleared(Book, Spoke, bids) EXCEPT
                       !.idle = @ + Sum([m \in Grid |-> AmpsIn(P, m)], bids)], Spoke))
        /\ UNCHANGED <<now, window, retired, drained>>

---------------------------------------------------------------------------
(* The rollout.                                                             *)

(* Mutant: cells that were bought back count as inventory.                  *)
Movable_Marked(P) == {m \in Grid : IsAsk(P, m) /\ P.tick < Lower(m)}

(* The asks a rollout may move: unfilled, and none the burn has a claim on. *)
Movable(P) == {m \in Grid : IsAsk(P, m) /\ P.tick < Lower(m) /\ P.mark < Upper(m)}

(* _askInventory.                                                           *)
Inventory(P) == Sum([m \in Grid |-> P.cells[m].liquidity], Movable(P))

(* _harvestAsks: last record first, until enough is freed.                  *)
After(P, m) == {x \in Grid : P.record[x] > P.record[m]}

Given(P, wanted, m) ==
    LET before == Sum([x \in Grid |-> P.cells[x].liquidity], Movable(P) \cap After(P, m))
    IN  IF m \notin Movable(P) THEN 0
        ELSE Greater(0, Lesser(P.cells[m].liquidity, wanted - before))

Harvested(b, p, wanted) ==
    LET P     == b.pool[p]
        left  == [m \in Grid |->
                    [P.cells[m] EXCEPT !.liquidity = @ - Given(P, wanted, m)]]
        spent == {m \in Movable(P) : left[m].liquidity = 0}
    IN  [Cleared([b EXCEPT !.pool[p].cells = left], p, spent) EXCEPT !.idle = @ + wanted]

(* _decayedMoved: what was charged runs off over a day.                     *)
Decayed ==
    IF now - window.start >= Day THEN 0
    ELSE (window.moved * (Day - (now - window.start))) \div Day

(* Mutant: a charge leaves the window's opening where it was.               *)
Charged_Unstamped(amount) ==
    IF amount = 0 THEN window ELSE [moved |-> window.moved + amount, start |-> window.start]

(* _addRolloutMoved: the charge re-stamps the window.                       *)
Charged(amount) ==
    IF amount = 0 THEN window ELSE [moved |-> Decayed + amount, start |-> now]

(* rollout: whatever the schedule proposes within the day's budget and the  *)
(* entry floor is harvested from the Hub, laid in the Spoke, and what the   *)
(* Spoke did not take laid back in the Hub; what stayed away is charged.    *)
Rollout(amount, at, back) ==
    LET freed == Harvested(Book, Hub, amount)
        there == Placed(freed, Spoke, TRUE, amount, at)
        rest  == amount - Taken(freed, Spoke, TRUE, amount, at)
        home  == IF rest = 0 THEN there ELSE Placed(there, Hub, TRUE, rest, back)
        gone  == amount - (IF rest = 0 THEN 0 ELSE Taken(there, Hub, TRUE, rest, back))
    IN  /\ Cool(Hub) /\ Cool(Spoke)
        /\ amount <= Inventory(pool[Hub])
        /\ amount <= Allowance - Decayed
        /\ amount <= Inventory(pool[Hub]) - Floor
        /\ Becomes(Stamped(home, Hub))
        /\ window' = Charged(gone)
        /\ drained' = [drained EXCEPT ![now] = @ + gone]
        /\ UNCHANGED <<now, retired>>

---------------------------------------------------------------------------
(* Around the vault.                                                        *)

Swap(p, t) ==
    /\ t # pool[p].tick
    /\ t - pool[p].trunc <= MaxLag /\ pool[p].trunc - t <= MaxLag
    /\ pool' = [pool EXCEPT ![p] = Written(@, t)]
    /\ UNCHANGED <<now, live, idle, window, retired, drained>>

Retire ==
    /\ ~retired
    /\ retired' = TRUE
    /\ UNCHANGED <<now, pool, live, idle, window, drained>>

(* A block: the truncated price may move by another Cap from here.          *)
Tick ==
    /\ now < MaxTime
    /\ now' = now + 1
    /\ pool' = [p \in Pools |-> [pool[p] EXCEPT !.anchor = pool[p].trunc]]
    /\ UNCHANGED <<live, idle, window, retired, drained>>

Next ==
    \/ \E p \in Pools, above \in BOOLEAN, amount \in Amounts, at \in Anchors :
          Place(p, above, amount, at)
    \/ \E p \in Traded, fees \in Fees, at \in Anchors : Compound(p, fees, at)
    \/ \E amount \in Bonded, at \in Anchors : DeployBonded(amount, at)
    \/ WithdrawRetiredBids
    \/ \E amount \in 1 .. Allowance, at \in Anchors, back \in Anchors : Rollout(amount, at, back)
    \/ \E p \in Traded, t \in Ticks : Swap(p, t)
    \/ Retire
    \/ Tick

Spec == Init /\ [][Next]_vars

---------------------------------------------------------------------------
(* Properties.                                                              *)

(* An ask under the mark was sold: the price has stood above all of it      *)
(* since it was last added to, so what a burnback burns was bought back.    *)
MarkedMeansSold ==
    \A p \in Pools : \A m \in Grid :
        IsAsk(pool[p], m) /\ Upper(m) <= pool[p].mark => pool[p].cells[m].sold

(* The live-cell count that bounds every redemption is the number of cells  *)
(* that hold liquidity, whichever path opened or closed them, and stays     *)
(* within its budget; and every variable its type, so no placement spends   *)
(* AMPS that is not idle.                                                   *)
LiveCellsAreCounted ==
    /\ LadderTypeOK
    /\ live <= MaxLive
    /\ live = Cardinality({x \in Pools \X Grid : pool[x[1]].cells[x[2]].liquidity # 0})

(* However rollouts are timed, any stretch of k blocks up to a day drains   *)
(* no more than one allowance and k blocks' share of another, but for the   *)
(* unit each charge may round away.                                         *)
RolloutIsPaced ==
    \A a, z \in 1 .. MaxTime :
        a <= z /\ z - a <= Day =>
            Sum(drained, a .. z) <=
                Allowance + ((z - a) * (Allowance + Day - 1)) \div Day

(* What can be sold in a pool now: asks the price has not reached, and that *)
(* are not waiting to be burned.                                            *)
Quotable(p) ==
    Sum([m \in Grid |-> pool[p].cells[m].liquidity],
        {m \in Grid : pool[p].cells[m].above /\ Lower(m) > pool[p].tick
                        /\ Upper(m) > pool[p].mark})

(* A rollout that drains the entry pool leaves the floor of what can still  *)
(* be sold there: the reading it checked is of the asks it takes, whatever  *)
(* the burn has a claim on, and what comes back does not lower it.          *)
EntryFloorHolds ==
    [][ drained' # drained => Quotable(Hub)' >= Floor ]_vars
=============================================================================
