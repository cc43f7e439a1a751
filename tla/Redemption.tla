----------------------------- MODULE Redemption -----------------------------
(***************************************************************************)
(* The ungated floor of the vault, AmpsVault.redeemProRata and the library  *)
(* it runs in, over the burn stream: a redeemer burns shares of AMPS and    *)
(* receives the same share of everything the vault holds, less a fee, while *)
(* the AMPS released with it is queued for the stream.                      *)
(*                                                                          *)
(* One asset stands for all of them, and one cell of one pool for the       *)
(* ladders.  The cell's liquidity is all AMPS (an ask) or all counter asset *)
(* (a bid), as the pool's price is below or above it; units are chosen so   *)
(* that the pool itself rounds nothing.                                     *)
(***************************************************************************)
EXTENDS BurnStream

CONSTANTS
    BPS, FeeBps,        \* the redemption fee
    Slices,             \* how many shares are redeemed at once
    Sold,               \* AMPS sold before the vault opens
    Idle, Assets,       \* AMPS and asset the vault starts with
    UnitAmps, UnitCounter,  \* what one unit of liquidity is made of
    Deposits,           \* bonded deposits and donations
    MaxLiquidity, MaxClaim, MaxAssets   \* bounds

ASSUME RedemptionAssumption ==
    /\ BPS \in Nat \ {0} /\ FeeBps \in 0 .. BPS - 1
    /\ Slices \subseteq Nat /\ Deposits \subseteq Nat
    /\ Sold \in Nat /\ Idle \in Nat /\ Assets \in Nat
    /\ UnitAmps \in Nat \ {0} /\ UnitCounter \in Nat \ {0}
    /\ MaxLiquidity \in Nat /\ MaxClaim \in Nat /\ MaxAssets \in Nat

VARIABLES
    outside,        \* AMPS outside the vault and its ladder: held, or vesting
    supply,         \* Amps.totalSupply()
    claim,          \* the vault's AMPS ERC-6909 claim
    asset,          \* the vault's holding of the asset: claims, and idle balance
    cell,           \* the ladder: liquidity, side, and the fees it has earned
    receipt         \* history: the redemption the last step made, if it made one

vault   == <<outside, supply, claim, asset, cell>>
redVars == <<streamVars, vault, receipt>>

NoReceipt == [shares |-> 0]

AmpsIn(c)    == IF c.side = "ask" THEN c.liquidity * UnitAmps ELSE 0
CounterIn(c) == IF c.side = "bid" THEN c.liquidity * UnitCounter ELSE 0

RedTypeOK ==
    /\ StreamTypeOK
    /\ outside \in Nat /\ supply \in Nat /\ claim \in 0 .. MaxClaim
    /\ asset \in [claim : Nat, idle : Nat]
    /\ cell \in [liquidity : 0 .. MaxLiquidity, side : {"ask", "bid"},
                 feeAmps : 0 .. 1, feeCounter : 0 .. 1]

RedInit ==
    /\ now = 0 /\ stream = [pending |-> 0, start |-> 0, last |-> 0]
    /\ idle = Idle
    /\ queued = 0 /\ burned = 0 /\ anchor = [amount |-> 0, at |-> 0]
    /\ outside = Sold /\ supply = Idle + Sold
    /\ claim = 0
    /\ asset = [claim |-> Assets, idle |-> 0]
    /\ cell = [liquidity |-> 0, side |-> "ask", feeAmps |-> 0, feeCounter |-> 0]
    /\ receipt = NoReceipt

---------------------------------------------------------------------------
(* What a redemption of s shares out of a supply of t releases.             *)

Less(a, b) == IF a >= b THEN a - b ELSE 0

(* Mutant: shares rounded up.                                               *)
ShareOf_Up(x, s, t) == (x * s + t - 1) \div t

ShareOf(x, s, t) == (x * s) \div t

Removed(s, t) == ShareOf(cell.liquidity, s, t)

(* unwind: the principal of the removed liquidity, and, if any was removed, *)
(* every fee the cell has earned.                                           *)
Unwound(s, t) ==
    LET part == [cell EXCEPT !.liquidity = Removed(s, t)]
    IN  [amps |-> AmpsIn(part), counter |-> CounterIn(part),
         feeAmps |-> IF Removed(s, t) = 0 THEN 0 ELSE cell.feeAmps,
         feeCounter |-> IF Removed(s, t) = 0 THEN 0 ELSE cell.feeCounter]

(* _payout: a share of what is held before the unwind, and what the unwind  *)
(* released, less the fee.                                                  *)
Net(held, s, t, released) == ((ShareOf(held, s, t) + released) * (BPS - FeeBps)) \div BPS

(* redemption: a share of the inventory that is neither just unwound nor    *)
(* already promised to the stream, and the AMPS the unwind released.        *)
Released(inventory, added, promised, s, t, ampsOut) ==
    ShareOf(Less(Less(inventory, added), promised), s, t) + ampsOut

(* Mutant: the preview does not clamp the shares.                           *)
Preview_Unclamped(s) ==
    LET t == supply - Burnable(stream, idle)
        u == Unwound(s, t)
    IN  [out |-> Net(asset.claim + asset.idle, s, t, u.counter),
         released |-> Released(idle + claim, 0, stream.pending, s, t, u.amps)]

(* previewRedeem settles the stream in arithmetic and clamps the shares to  *)
(* the supply that leaves.                                                  *)
Preview(s) ==
    LET t == supply - Burnable(stream, idle)
        k == IF s > t THEN t ELSE s
        u == Unwound(k, t)
    IN  IF t = 0 THEN [out |-> 0, released |-> 0]
        ELSE [out |-> Net(asset.claim + asset.idle, k, t, u.counter),
              released |-> Released(idle + claim, 0, stream.pending, k, t, u.amps)]

(* _sweepClean, best effort: what idles of the asset becomes a claim.       *)
SweepClean(holding) == asset' \in {holding, [claim |-> holding.claim + holding.idle, idle |-> 0]}

---------------------------------------------------------------------------
(* The ungated floor.                                                       *)

Lesser(a, b) == IF a <= b THEN a ELSE b

(* Mutant: claims alone pay.                                                *)
PaidOut_Claims(holding, out) == [holding EXCEPT !.claim = @ - out]

(* _payout, second half: claims first, the idle balance for the rest.       *)
PaidOut(holding, out) ==
    [claim |-> holding.claim - Lesser(out, holding.claim),
     idle  |-> holding.idle - Less(out, holding.claim)]

(* Mutant: the share is taken of a balance that holds what was just unwound.*)
Base_AfterUnwind(holding, unwound) == holding.claim + holding.idle + unwound

(* _payout, first half: the share is taken of the balance before the unwind.*)
Base(holding, unwound) == holding.claim + holding.idle

(* Mutant: the first settlement is left to the one that queues.             *)
Opened_Unsettled == stream

(* _checkpoint at the head of the redemption.                               *)
Opened == Settled(stream, idle)

(* redeemProRata: settle and read T, burn the shares, unwind, pay, queue.   *)
(* The unwind turns every AMPS claim into idle AMPS, and queueing settles   *)
(* once more, out of an idle balance that has grown since.                  *)
RedeemProRata(s) ==
    LET due   == Burnable(stream, idle)
        first == Opened
        t     == supply - due
        u     == Unwound(s, t)
        added == u.amps + u.feeAmps
        after == [asset EXCEPT !.claim = @ + u.counter + u.feeCounter]
        held  == idle - due + claim + added
        out   == Net(Base(asset, u.counter + u.feeCounter), s, t, u.counter)
        amount == Released(held, added, first.pending, s, t, u.amps) + u.feeAmps
        last  == IF amount = 0 THEN first ELSE Settled(first, held)
        again == IF amount = 0 THEN 0 ELSE Burnable(first, held)
    IN  /\ 0 < s /\ s <= outside
        /\ queued + amount <= MaxQueued
        /\ stream' = Enqueued(last, amount)
        /\ idle' = held - again /\ claim' = 0
        /\ burned' = burned + due + again /\ queued' = queued + amount
        /\ anchor' = IF amount = 0 THEN anchor
                     ELSE [amount |-> last.pending + amount, at |-> now]
        /\ outside' = outside - s
        /\ supply' = t - s - again
        /\ cell' = [cell EXCEPT !.liquidity = @ - Removed(s, t), !.feeAmps = @ - u.feeAmps,
                                !.feeCounter = @ - u.feeCounter]
        /\ SweepClean(PaidOut(after, out))
        /\ receipt' = [shares |-> s, out |-> out, queued |-> amount]
        /\ UNCHANGED now

---------------------------------------------------------------------------
(* What else moves the vault.                                               *)

(* Mutant: a settlement leaves the queue, and burns nothing.                *)
Checkpoint_Kept ==
    /\ Settle
    /\ SweepClean(asset)
    /\ receipt' = NoReceipt
    /\ UNCHANGED <<outside, supply, claim, cell>>

(* checkpoint() and every path that makes one.                              *)
Checkpoint ==
    /\ Settle
    /\ supply' = supply - Burnable(stream, idle)
    /\ SweepClean(asset)
    /\ receipt' = NoReceipt
    /\ UNCHANGED <<outside, claim, cell>>

(* A placement commits idle AMPS to the ladder; it settles on the way in,   *)
(* and again, from what it has left, on the way out.                        *)
Place(units) ==
    LET before == Settled(stream, idle)
        left   == idle - Burnable(stream, idle) - units * UnitAmps
        again  == Burnable(before, left)
    IN  /\ cell.side = "ask" /\ cell.liquidity + units <= MaxLiquidity /\ left >= 0
        /\ stream' = Settled(before, left)
        /\ idle' = left - again
        /\ burned' = burned + Burnable(stream, idle) + again
        /\ supply' = supply - Burnable(stream, idle) - again
        /\ cell' = [cell EXCEPT !.liquidity = @ + units]
        /\ SweepClean(asset)
        /\ receipt' = NoReceipt
        /\ UNCHANGED <<now, queued, anchor, outside, claim>>

(* depositBonded, and the mint that follows it.                             *)
Bond(amount) ==
    /\ asset.claim + amount <= MaxAssets
    /\ Settle
    /\ supply' = supply - Burnable(stream, idle) + amount
    /\ outside' = outside + amount
    /\ SweepClean([asset EXCEPT !.claim = @ + amount])
    /\ receipt' = NoReceipt
    /\ UNCHANGED <<claim, cell>>

(* Anyone may send the vault the asset, or an AMPS claim.                   *)
Donate(amount) ==
    /\ asset.claim + asset.idle + amount <= MaxAssets
    /\ asset' = [asset EXCEPT !.idle = @ + amount]
    /\ receipt' = NoReceipt
    /\ UNCHANGED <<streamVars, outside, supply, claim, cell>>

DonateClaim(amount) ==
    /\ amount <= outside /\ claim + amount <= MaxClaim
    /\ outside' = outside - amount
    /\ claim' = claim + amount
    /\ receipt' = NoReceipt
    /\ UNCHANGED <<streamVars, supply, asset, cell>>

(* The pool's price crosses the cell: an ask is bought, a bid is sold into, *)
(* by a trader who pays a fee of one in the side he brings.                 *)
BuyAcross ==
    /\ cell.side = "ask" /\ cell.liquidity # 0 /\ cell.feeCounter = 0
    /\ outside' = outside + AmpsIn(cell)
    /\ cell' = [cell EXCEPT !.side = "bid", !.feeCounter = 1]
    /\ receipt' = NoReceipt
    /\ UNCHANGED <<streamVars, supply, claim, asset>>

SellAcross ==
    /\ cell.side = "bid" /\ cell.liquidity # 0 /\ cell.feeAmps = 0
    /\ cell.liquidity * UnitAmps < outside
    /\ outside' = outside - cell.liquidity * UnitAmps - 1
    /\ cell' = [cell EXCEPT !.side = "ask", !.feeAmps = 1]
    /\ receipt' = NoReceipt
    /\ UNCHANGED <<streamVars, supply, claim, asset>>

RedTick ==
    /\ StreamTick
    /\ receipt' = NoReceipt
    /\ UNCHANGED vault

Around ==
    \/ Checkpoint
    \/ \E units \in 1 .. MaxLiquidity : Place(units)
    \/ \E a \in Deposits : Donate(a) \/ Bond(a) \/ DonateClaim(a)
    \/ BuyAcross \/ SellAcross
    \/ RedTick

RedNext == Around \/ \E s \in Slices : RedeemProRata(s)

RedSpec == RedInit /\ [][RedNext]_redVars

---------------------------------------------------------------------------
(* Properties.                                                              *)

(* All AMPS there is lies outside, in the vault, in the ladder or in  *)
(* its fees: settlements, releases and burns account for every unit.        *)
SupplyIsHeld ==
    supply = outside + idle + claim + AmpsIn(cell) + cell.feeAmps

(* Redemption keeps its books: every variable its type, every unit of AMPS  *)
(* its place.                                                               *)
BooksBalance == RedTypeOK /\ SupplyIsHeld

(* previewRedeem is what a redemption pays, to the unit, and no more than   *)
(* what it queues, though the view settles the stream in arithmetic only    *)
(* and unwinds nothing (SP-11, SP-10).                                      *)
PreviewIsPayout ==
    [][ receipt' # NoReceipt =>
            /\ receipt'.out = Preview(receipt'.shares).out
            /\ receipt'.queued >= Preview(receipt'.shares).released ]_redVars

(* Redeeming all there is, or more, never promises more than the vault      *)
(* holds and its ladder would free (GL-22).                                 *)
PreviewIsSolvent ==
    Preview(supply + 1).out <= asset.claim + asset.idle + CounterIn(cell)

(* From one state, two slices are never quoted more than the whole (GL-28). *)
SlicesQuoteNoMore ==
    \A a, b \in Slices :
        a + b <= supply - Burnable(stream, idle) =>
            /\ Preview(a).out + Preview(b).out <= Preview(a + b).out
            /\ Preview(a).released + Preview(b).released <= Preview(a + b).released

(* The quote can be paid, and slicing cannot raise it.                      *)
PreviewIsSound == PreviewIsSolvent /\ SlicesQuoteNoMore

(* A redemption does not take from those who stay: assets per share do not  *)
(* fall across it, settlement, unwind and fees included (SP-13).            *)
Worth == asset.claim + asset.idle + CounterIn(cell)

RedemptionAccretes ==
    [][ receipt' # NoReceipt => Worth' * supply >= Worth * supply' ]_redVars

(* What happens to the stream is what BurnStream says can, at amounts no    *)
(* larger than a vault, a ladder and a claim can bring together.            *)
Flow == Idle + MaxQueued + MaxClaim + MaxLiquidity * UnitAmps + 1

Stream == INSTANCE BurnStream WITH Amounts <- 0 .. Flow, Balances <- Nat

FollowsStream == Stream!StreamSpec
=============================================================================
