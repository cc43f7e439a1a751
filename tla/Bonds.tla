------------------------------- MODULE Bonds -------------------------------
(***************************************************************************)
(* The bond shell, contracts/src/bonds/AmpsBonds.sol: markets and the       *)
(* collateral each is attributed to, issuance under an epoch cap and a      *)
(* daily cap, and linear vesting of what was issued.                        *)
(*                                                                          *)
(* What a deposit is worth is left open: BondPricing models the price, and  *)
(* here a bond may be priced at any amount in Priced.  A bond that the gate,*)
(* the vault, the policy, the floor or minAmpsOut refuses reverts, which is *)
(* a bond that does not happen.  Every entry point holds the lock, so a     *)
(* call is one step.                                                        *)
(***************************************************************************)
EXTENDS Integers, Sequences, FiniteSets, FiniteSetsExt, Functions

CONSTANTS
    Day,                \* Constants.ONE_DAY, in ticks
    MaxTime,            \* bound of the clock
    BPS,                \* the basis-point denominator
    GenesisSupply,      \* what genesis minted
    Owners, Collaterals,
    MaxCollaterals,     \* Constants.MAX_COLLATERALS: ids are never reused
    EpochLengths, VestLengths, Caps, DailyCaps,
                        \* the values governance may choose, inside the bands
    Priced, Burns,      \* amounts a bond is priced at, amounts burned at once
    MaxPositions        \* bound of the vesting book

ASSUME TimeAssumption ==
    Day \in Nat \ {0} /\ MaxTime \in Nat /\ BPS \in Nat \ {0} /\ GenesisSupply \in Nat
ASSUME BandAssumption ==
    /\ EpochLengths \subseteq Nat \ {0} /\ VestLengths \subseteq Nat \ {0}
    /\ Caps \subseteq 0 .. BPS /\ DailyCaps \subseteq 0 .. BPS
ASSUME InputAssumption ==
    /\ Priced \subseteq Nat /\ Burns \subseteq Nat
    /\ MaxCollaterals \in Nat /\ MaxPositions \in Nat

VARIABLES
    now,            \* block.timestamp
    epochSeconds, dailyCap, vestSeconds,
    markets,        \* _markets; a market's id is its index
    marketIdOf,     \* collateral -> live market id, 0 for none
    dailyIssued, dailyStart,    \* _dailyIssued, _dailyWindowStart
    positions,      \* owner -> sequence of vesting positions
    escrow,         \* the shell's own AMPS balance
    supply,         \* Amps.totalSupply()
    dailyCeiling    \* history: the highest daily capacity a bond was admitted under

govern == <<epochSeconds, dailyCap, vestSeconds>>
book   == <<markets, marketIdOf>>
daily  == <<dailyIssued, dailyStart, dailyCeiling>>
amps   == <<escrow, supply>>
vars   == <<now, govern, book, daily, positions, amps>>

Lesser(a, b)  == IF a <= b THEN a ELSE b
Larger(a, b)  == IF a >= b THEN a ELSE b
Less(a, b)    == IF a >= b THEN a - b ELSE 0    \* a saturating subtraction

MarketIds == 1 .. MaxCollaterals

Market ==
    [collateral : Collaterals, open : BOOLEAN, cap : Caps, epochStart : 0 .. MaxTime,
     issued : Nat, total : Nat]

Position ==
    [principal : Nat, claimed : Nat, start : 0 .. MaxTime, vest : VestLengths, market : MarketIds]

TypeOK ==
    /\ now \in 0 .. MaxTime
    /\ epochSeconds \in EpochLengths /\ dailyCap \in DailyCaps /\ vestSeconds \in VestLengths
    /\ markets \in Seq(Market) /\ Len(markets) <= MaxCollaterals
    /\ marketIdOf \in [Collaterals -> 0 .. Len(markets)]
    /\ dailyIssued \in Nat /\ dailyStart \in 0 .. now /\ dailyCeiling \in Nat
    /\ positions \in [Owners -> Seq(Position)]
    /\ \A o \in Owners : \A i \in 1 .. Len(positions[o]) :
           positions[o][i].start <= now /\ positions[o][i].market <= Len(markets)
    /\ \A m \in 1 .. Len(markets) : markets[m].epochStart <= now
    /\ escrow \in Nat /\ supply \in Nat

Init ==
    /\ now = 0
    /\ epochSeconds \in EpochLengths /\ dailyCap \in DailyCaps /\ vestSeconds \in VestLengths
    /\ markets = <<>> /\ marketIdOf = [c \in Collaterals |-> 0]
    /\ dailyIssued = 0 /\ dailyStart = 0 /\ dailyCeiling = 0
    /\ positions = [o \in Owners |-> <<>>]
    /\ escrow = 0 /\ supply = GenesisSupply

---------------------------------------------------------------------------
(* Capacity.                                                                *)

EpochLive(record) == now < record.epochStart + epochSeconds

DailyLive == now < dailyStart + Day

(* Mutant: an aged-out day still counts against the new one.                *)
DailyIssuedNow_Stale == dailyIssued

DailyIssuedNow == IF DailyLive THEN dailyIssued ELSE 0

DailyCapacity == (supply * dailyCap) \div BPS

(* Mutant: the day's budget is not deducted.                                *)
Capacity_EpochOnly(record) ==
    Less((supply * record.cap) \div BPS, IF EpochLive(record) THEN record.issued ELSE 0)

(* _capacity: what the epoch leaves, clamped by what the day leaves, both   *)
(* of the live supply; an expired epoch or day has issued nothing.          *)
Capacity(record) ==
    LET issued    == IF EpochLive(record) THEN record.issued ELSE 0
        epochLeft == Less((supply * record.cap) \div BPS, issued)
    IN  Lesser(epochLeft, Less(DailyCapacity, DailyIssuedNow))

(* Mutant: the new epoch starts now instead of on the market's grid, and    *)
(* the issuance of the old one stays on the books.                          *)
RollEpoch_KeepIssued(record) ==
    IF EpochLive(record) THEN record ELSE [record EXCEPT !.epochStart = now]

(* Mutant: one epoch forward, however many have passed.                     *)
RollEpoch_OneStep(record) ==
    IF EpochLive(record) THEN record
    ELSE [record EXCEPT !.epochStart = @ + epochSeconds, !.issued = 0]

(* _rollEpoch: to the epoch of the market's own grid that contains now.     *)
RollEpoch(record) ==
    IF EpochLive(record) THEN record
    ELSE [record EXCEPT
             !.epochStart = @ + ((now - @) \div epochSeconds) * epochSeconds,
             !.issued = 0]

---------------------------------------------------------------------------
(* Vesting.                                                                 *)

(* Mutant: the governed vest length is read, not the one sold.              *)
Vested_Governed(position) ==
    LET elapsed == now - position.start
    IN  IF elapsed >= vestSeconds THEN position.principal
        ELSE (position.principal * elapsed) \div vestSeconds

(* _vested: linear over the length snapshotted at the sale, floored.        *)
Vested(position) ==
    LET elapsed == now - position.start
    IN  IF elapsed >= position.vest THEN position.principal
        ELSE (position.principal * elapsed) \div position.vest

Claimable(position) == Vested(position) - position.claimed

PositionsOf(owner) == 1 .. Len(positions[owner])

(* Where the book keeps its positions: under their owner, by their id.      *)
PlacesOf(owner) == {owner} \X PositionsOf(owner)
Places          == UNION {PlacesOf(o) : o \in Owners}
Held            == [q \in Places |-> positions[q[1]][q[2]]]

(* What the positions at some places can claim together.                    *)
ClaimableAt(places) == SumFunctionOnSet([q \in places |-> Claimable(Held[q])], places)

---------------------------------------------------------------------------
(* bond                                                                     *)

(* Both windows roll before the price is struck; the amount is the priced   *)
(* one clamped to capacity, and the deposit is taken whole either way.      *)
Bond(m, priced, to) ==
    LET record    == RollEpoch(markets[m])
        available == Capacity(markets[m])
        out       == Lesser(priced, available)
    IN  /\ m \in 1 .. Len(markets)
        /\ Cardinality(Places) < MaxPositions
        /\ markets[m].open /\ marketIdOf[markets[m].collateral] = m
        /\ out # 0
        /\ markets' = [markets EXCEPT ![m] =
               [record EXCEPT !.issued = @ + out, !.total = @ + out]]
        /\ dailyIssued' = DailyIssuedNow + out
        /\ dailyStart' = IF DailyLive THEN dailyStart ELSE now
        /\ dailyCeiling' = Larger(dailyCeiling, DailyCapacity)
        /\ positions' = [positions EXCEPT ![to] = Append(@,
               [principal |-> out, claimed |-> 0, start |-> now,
                vest |-> vestSeconds, market |-> m])]
        /\ escrow' = escrow + out
        /\ supply' = supply + out
        /\ UNCHANGED <<now, govern, marketIdOf>>

(* Mutant: the transfer without the mark.                                   *)
Claim_NoMark(owner, i) ==
    /\ i \in PositionsOf(owner)
    /\ Claimable(positions[owner][i]) # 0
    /\ escrow' = escrow - Claimable(positions[owner][i])
    /\ UNCHANGED <<now, govern, book, daily, positions, supply>>

(* claim: structurally ungated, reads nothing but the position.             *)
Claim(owner, i) ==
    /\ i \in PositionsOf(owner)
    /\ LET position == positions[owner][i]
       IN  /\ Claimable(position) # 0
           /\ positions' = [positions EXCEPT ![owner][i].claimed = Vested(position)]
           /\ escrow' = escrow - Claimable(position)
    /\ UNCHANGED <<now, govern, book, daily, supply>>

(* Mutant: positions are paid but keep their old mark.                      *)
ClaimAll_NoMark(owner) ==
    LET amount == ClaimableAt(PlacesOf(owner))
    IN  /\ amount # 0
        /\ escrow' = escrow - amount
        /\ UNCHANGED <<now, govern, book, daily, positions, supply>>

(* Mutant: positions of closed and removed markets are passed over.         *)
ClaimAll_OpenMarketsOnly(owner) ==
    LET due(p) == IF markets[p.market].open THEN Claimable(p) ELSE 0
        amount == SumFunctionOnSet([q \in PlacesOf(owner) |-> due(Held[q])], PlacesOf(owner))
    IN  /\ amount # 0
        /\ positions' = [positions EXCEPT ![owner] =
               [i \in PositionsOf(owner) |->
                   [positions[owner][i] EXCEPT !.claimed = @ + due(positions[owner][i])]]]
        /\ escrow' = escrow - amount
        /\ UNCHANGED <<now, govern, book, daily, supply>>

ClaimAll(owner) ==
    LET amount == ClaimableAt(PlacesOf(owner))
    IN  /\ amount # 0
        /\ positions' = [positions EXCEPT ![owner] =
               [i \in PositionsOf(owner) |->
                   [positions[owner][i] EXCEPT !.claimed = Vested(positions[owner][i])]]]
        /\ escrow' = escrow - amount
        /\ UNCHANGED <<now, govern, book, daily, supply>>

---------------------------------------------------------------------------
(* Governance: the timelock, and the registry where the code lets it.       *)

(* addCollateral, at the next id; a removed collateral comes back as a new  *)
(* market and its old record stays readable.  Whether the token is an       *)
(* active constituent or an entry counter is the registry's to say.         *)
AddCollateral(collateral, cap, open) ==
    /\ marketIdOf[collateral] = 0
    /\ Len(markets) < MaxCollaterals
    /\ markets' = Append(markets,
           [collateral |-> collateral, open |-> open, cap |-> cap, epochStart |-> now,
            issued |-> 0, total |-> 0])
    /\ marketIdOf' = [marketIdOf EXCEPT ![collateral] = Len(markets) + 1]
    /\ UNCHANGED <<now, govern, daily, positions, amps>>

(* Mutant: the record is deleted with the mapping.                          *)
RemoveCollateral_Delete(collateral) ==
    /\ marketIdOf[collateral] # 0
    /\ marketIdOf' = [marketIdOf EXCEPT ![collateral] = 0]
    /\ markets' = [markets EXCEPT ![marketIdOf[collateral]] =
           [@ EXCEPT !.open = FALSE, !.issued = 0, !.total = 0]]
    /\ UNCHANGED <<now, govern, daily, positions, amps>>

RemoveCollateral(collateral) ==
    /\ marketIdOf[collateral] # 0
    /\ marketIdOf' = [marketIdOf EXCEPT ![collateral] = 0]
    /\ markets' = [markets EXCEPT ![marketIdOf[collateral]].open = FALSE]
    /\ UNCHANGED <<now, govern, daily, positions, amps>>

(* setMarketOpen: only the market its collateral is attributed to may open. *)
SetMarketOpen(m, open) ==
    /\ m \in 1 .. Len(markets)
    /\ open => marketIdOf[markets[m].collateral] = m
    /\ markets' = [markets EXCEPT ![m].open = open]
    /\ UNCHANGED <<now, govern, marketIdOf, daily, positions, amps>>

SetCapBpsPerEpoch(m, cap) ==
    /\ m \in 1 .. Len(markets)
    /\ markets' = [markets EXCEPT ![m].cap = cap]
    /\ UNCHANGED <<now, govern, marketIdOf, daily, positions, amps>>

SetEpochSeconds(value) ==
    /\ epochSeconds' = value
    /\ UNCHANGED <<now, dailyCap, vestSeconds, book, daily, positions, amps>>

SetDailyCapBps(value) ==
    /\ dailyCap' = value
    /\ UNCHANGED <<now, epochSeconds, vestSeconds, book, daily, positions, amps>>

SetVestSeconds(value) ==
    /\ vestSeconds' = value
    /\ UNCHANGED <<now, epochSeconds, dailyCap, book, daily, positions, amps>>

---------------------------------------------------------------------------
(* Around the shell.                                                        *)

(* Redemption and the inventory burns shrink the supply the caps are of;    *)
(* only AMPS outside the shell can be burned.                               *)
Burn(amount) ==
    /\ amount <= supply - escrow
    /\ supply' = supply - amount
    /\ UNCHANGED <<now, govern, book, daily, positions, escrow>>

Tick ==
    /\ now < MaxTime
    /\ now' = now + 1
    /\ UNCHANGED <<govern, book, daily, positions, amps>>

Govern ==
    \/ \E c \in Collaterals :
          \/ RemoveCollateral(c)
          \/ \E cap \in Caps, open \in BOOLEAN : AddCollateral(c, cap, open)
    \/ \E m \in MarketIds :
          \/ \E open \in BOOLEAN : SetMarketOpen(m, open)
          \/ \E cap \in Caps : SetCapBpsPerEpoch(m, cap)
    \/ \E v \in EpochLengths : SetEpochSeconds(v)
    \/ \E v \in DailyCaps : SetDailyCapBps(v)
    \/ \E v \in VestLengths : SetVestSeconds(v)

Hold ==
    \E o \in Owners :
        \/ \E m \in MarketIds, p \in Priced : Bond(m, p, o)
        \/ \E i \in 1 .. MaxPositions : Claim(o, i)
        \/ ClaimAll(o)

Next ==
    \/ Hold
    \/ Govern
    \/ \E a \in Burns : Burn(a)
    \/ Tick

Spec == Init /\ [][Next]_vars

(* An owner who keeps claiming, and a clock that does not stop.             *)
FairSpec ==
    /\ Spec
    /\ WF_vars(Tick)
    /\ \A o \in Owners : WF_vars(ClaimAll(o))

---------------------------------------------------------------------------
(* Properties.                                                              *)

(* What the positions at some places are still owed, and what was sold at   *)
(* them; the places filled since t, and those of a market.                  *)
Owed(places) == SumFunctionOnSet([q \in places |-> Held[q].principal - Held[q].claimed], places)
Sold(places) == SumFunctionOnSet([q \in places |-> Held[q].principal], places)
Since(t)     == {q \in Places : Held[q].start >= t}
Of(m)        == {q \in Places : Held[q].market = m}

(* AmpsBonds holds exactly what its positions are still owed: no order of   *)
(* bonds, claims in parts or at once, and removals leaves a claim unbacked  *)
(* (GL-05).                                                                 *)
EscrowCoversVesting == escrow = Owed(Places)

(* No position has been paid more than it has vested, and none vests more   *)
(* than was sold: vested - claimed cannot underflow, so a claim never       *)
(* reverts for good, whatever becomes of the vest length (GL-09, GL-11).    *)
ClaimedWithinVested ==
    \A o \in Owners : \A i \in PositionsOf(o) :
        LET p == positions[o][i]
        IN  p.claimed <= Vested(p) /\ Vested(p) <= p.principal

(* The vesting book is solvent: every position is backed, and none is paid  *)
(* ahead of its vest.                                                       *)
VestsAreSolvent == EscrowCoversVesting /\ ClaimedWithinVested

(* A market is open only while its collateral is attributed to it, through  *)
(* any sequence of removals, returns under a new id, and reopenings: no two *)
(* markets of one collateral issue at a time (GL-16).                       *)
OpenIsAttributed ==
    \A m \in 1 .. Len(markets) :
        markets[m].open => marketIdOf[markets[m].collateral] = m

(* The daily window counts every bond since it opened, and no other.        *)
DayCountsItsBonds == dailyIssued = Sold(Since(dailyStart))

(* Types.sol:281: issuedThisEpoch is what the market issued in the current  *)
(* epoch.  It is while no epoch length is shortened.                        *)
EpochCountsItsBonds ==
    \A m \in 1 .. Len(markets) :
        markets[m].issued = Sold(Since(markets[m].epochStart) \cap Of(m))

(* Both windows: what a cap is compared with is what was issued under it,   *)
(* through expiries, rolls, a changed epoch length and parallel markets;    *)
(* and every variable its type.                                             *)
WindowsCountTheirBonds == TypeOK /\ DayCountsItsBonds /\ EpochCountsItsBonds

(* No day's length of time issues more than two daily caps, across every    *)
(* market, with caps and supply moving: the window is reset, not trailing.  *)
NoDayIssuesTwoCaps == Sold(Since(now - Day + 1)) <= 2 * dailyCeiling

(* What the views say may be issued is what a bond finds after rolling both *)
(* windows: quote() and bond() agree on capacity (GL-79, SP-06).            *)
ViewsRollAsBondDoes ==
    \A m \in 1 .. Len(markets) :
        LET rolled == RollEpoch(markets[m])
        IN  /\ EpochLive(rolled)
            /\ Capacity(rolled) = Capacity(markets[m])

\* A position and its later self: claimed at most further, on the same terms.
Later(new, old) ==
    new.claimed >= old.claimed /\ [new EXCEPT !.claimed = 0] = [old EXCEPT !.claimed = 0]

(* The terms of a position never change and its claims are never taken back *)
(* (GL-10), and issuance is monotone per market (GL-13).                    *)
TermsAreSold ==
    [][ /\ \A o \in Owners : \A i \in PositionsOf(o) : Later(positions'[o][i], positions[o][i])
        /\ \A m \in 1 .. Len(markets) : markets'[m].total >= markets[m].total ]_vars

(* Nothing sold is ever stuck: a position is claimed in full in the end,    *)
(* whatever governance does to its market (GL-14).                          *)
EveryPositionPaysOut ==
    \A o \in Owners : \A i \in 1 .. MaxPositions :
        i \in PositionsOf(o) /\ now + Max(VestLengths) <= MaxTime
            ~> i \in PositionsOf(o) /\ positions[o][i].claimed = positions[o][i].principal

(* What was sold is kept: its terms stand until it has been paid in full.   *)
SoldIsKept == TermsAreSold /\ EveryPositionPaysOut
=============================================================================
