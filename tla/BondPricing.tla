---------------------------- MODULE BondPricing ----------------------------
(***************************************************************************)
(* What a bond is priced at: the vault's checkpoint, the collateral's feed, *)
(* the session's haircut, the policy and the shell's accretion floor        *)
(* (contracts/src/bonds/AmpsBonds.sol, vault/AmpsVault.sol,                 *)
(* vault/VaultNavLib.sol).  Two collaterals are enough: a stock, whose      *)
(* price is the feed of FeedRegistry, and a dollar, whose price is W and    *)
(* always confirmed.  Nobody redeems here, so the burn stream a checkpoint  *)
(* settles first is empty; capacity and vesting are the subject of Bonds.   *)
(***************************************************************************)
EXTENDS FeedRegistry

CONSTANTS
    W,                          \* Constants.WAD, the fixed point
    VirtualShares,              \* Constants.VIRTUAL_SHARES
    MinAccretion,               \* minAccretionBps of the markets
    HaircutOpen, HaircutClosed, \* hSessionBps of an open session and of CLOSED
    Dollars, Shares,            \* what genesis put in and what it minted
    Deposits, Quotes,           \* amounts bonded and policy answers
    MaxHolding, MaxSupply       \* bounds of a holding and of the supply

ASSUME PricingAssumption ==
    /\ W \in Nat \ {0} /\ VirtualShares \in Nat \ {0} /\ MinAccretion \in Nat
    /\ HaircutOpen \in Nat /\ HaircutClosed \in Nat
    /\ Dollars \in Nat /\ Shares \in Nat
    /\ Deposits \subseteq Nat /\ Quotes \subseteq Nat
    /\ MaxHolding \in Nat /\ MaxSupply \in Nat

VARIABLES
    holding,        \* what the vault holds of each: claims, idle, ladder
    supply,         \* Amps.totalSupply
    checkpoint      \* the checkpointed NAV per share and its flag

books == <<holding, supply, checkpoint>>
vars  == <<feedVars, books>>

Collaterals == {"stock", "dollar"}

TypeOK ==
    /\ FeedTypeOK
    /\ holding \in [Collaterals -> Nat] /\ supply \in Nat
    /\ checkpoint \in [nav : Nat, unconfirmed : BOOLEAN]

---------------------------------------------------------------------------
(* The vault's valuation.                                                   *)

(* latestAnswer of each.                                                    *)
Price(c)     == IF c = "stock" THEN Answer ELSE W
Confirmed(c) == c = "stock" => Fresh

(* PriceLib.counterValueUsd18: down.                                        *)
Worth(balance, price) == (balance * price) \div W

(* totalAssetsUsd18, with the stock at a given price.                       *)
AssetsAt(h, price) == Worth(h["stock"], price) + Worth(h["dollar"], W)

(* _navPerShare.                                                            *)
NavOf(assets, shares) == ((assets + 1) * W) \div (shares + VirtualShares)

Nav == NavOf(AssetsAt(holding, Answer), supply)

(* An asset that is held must have a price; totalAssetsUsd18 reverts.       *)
Priceable == \A c \in Collaterals : holding[c] # 0 => Price(c) # 0

(* Mutant: a price that is held back is not flagged.                        *)
Reading_Unflagged == [nav |-> Nav, unconfirmed |-> FALSE]

(* What _checkpoint writes.                                                 *)
Reading ==
    [nav         |-> Nav,
     unconfirmed |-> \E c \in Collaterals : holding[c] # 0 /\ ~ Confirmed(c)]

---------------------------------------------------------------------------
(* The bond shell's price.                                                  *)

(* checkBond: the session's haircut; _haircutFor: never less than the       *)
(* CLOSED one for an answer that is not fresh.                              *)
SessionHaircut == IF closed THEN HaircutClosed ELSE HaircutOpen

Haircut(c) ==
    IF Confirmed(c) \/ SessionHaircut >= HaircutClosed THEN SessionHaircut ELSE HaircutClosed

CeilDiv(a, b) == (a + b - 1) \div b

(* Mutant: the requirement is rounded the bonder's way.                     *)
Floor_Down(price, nav, haircut) ==
    IF haircut >= BPS THEN 0
    ELSE (((price * (BPS - haircut)) \div BPS) * W) \div ((nav * (BPS + MinAccretion)) \div BPS)

(* _qFloorX18: numerator down, denominator up, quotient down.               *)
Floor(price, nav, haircut) ==
    IF haircut >= BPS THEN 0
    ELSE (((price * (BPS - haircut)) \div BPS) * W) \div CeilDiv(nav * (BPS + MinAccretion), BPS)

Deposited(c, amount) ==
    /\ holding[c] + amount <= MaxHolding
    /\ holding' = [holding EXCEPT ![c] = @ + amount]

Issued(amount, q) ==
    /\ supply' = supply + (amount * q) \div W
    /\ supply < supply' /\ supply' <= MaxSupply

(* Mutant: the price is taken against the checkpoint on record.             *)
Bond_Recorded(c, amount, q) ==
    /\ amount > 0 /\ Priceable /\ Price(c) # 0
    /\ ~ checkpoint.unconfirmed /\ checkpoint.nav # 0
    /\ q <= Floor(Price(c), checkpoint.nav, Haircut(c))
    /\ Issued(amount, q) /\ Deposited(c, amount)
    /\ checkpoint' = Reading
    /\ UNCHANGED feedVars

(* bond: depositBonded checkpoints before the collateral lands, the shell   *)
(* prices against that checkpoint and refuses a policy above its floor.     *)
(* Capacity can only lower what is issued.                                  *)
Bond(c, amount, q) ==
    /\ amount > 0 /\ Priceable /\ Price(c) # 0
    /\ checkpoint' = Reading
    /\ ~ Reading.unconfirmed /\ Reading.nav # 0
    /\ q <= Floor(Price(c), Reading.nav, Haircut(c))
    /\ Issued(amount, q) /\ Deposited(c, amount)
    /\ UNCHANGED feedVars

(* checkpoint(): anyone, when the gate lets the vault be managed.           *)
Checkpoint ==
    /\ Priceable
    /\ checkpoint' = Reading
    /\ UNCHANGED <<feedVars, holding, supply>>

(* A transfer of the stock to the vault, which values its balance.          *)
Donate(amount) ==
    /\ Deposited("stock", amount)
    /\ UNCHANGED <<feedVars, supply, checkpoint>>

Init ==
    /\ FeedInit
    /\ holding = [c \in Collaterals |-> IF c = "dollar" THEN Dollars ELSE 0]
    /\ supply = Shares
    /\ checkpoint = Reading

Next ==
    \/ FeedNext /\ UNCHANGED books
    \/ \E c \in Collaterals, amount \in Deposits, q \in Quotes : Bond(c, amount, q)
    \/ \E amount \in Deposits : Donate(amount)
    \/ Checkpoint

Spec == Init /\ [][Next]_vars

---------------------------------------------------------------------------
(* Properties.                                                              *)

(* I27 and SP-05: whatever the policy answers and whatever earlier bonds,   *)
(* donations and feed moves left on record, a bond issues no more than its  *)
(* deposit, haircut taken, buys at the NAV of that moment plus the          *)
(* accretion.                                                               *)
BondRespectsFloor ==
    [][ supply' > supply =>
            \E c \in Collaterals :
                (supply' - supply) * Nav * (BPS + MinAccretion)
                    <= (holding'[c] - holding[c]) * Price(c) * (BPS - Haircut(c)) ]_vars

(* The NAV per share at the aggregator's own answer, with slack for value.  *)
LiveNav(slack) == NavOf(AssetsAt(holding, Candidate.answer) + slack, supply)

(* While the aggregator answers, no bond lowers the NAV per share measured  *)
(* at the aggregator's own answer, but for a wei of value, in whichever     *)
(* collateral: a held-back answer understates the vault, which would sell a *)
(* bond in another collateral too cheaply, and it is there that the shell   *)
(* refuses (AmpsBonds._price, VaultNavLib._feedHeldBack).                   *)
BondKeepsLiveNav ==
    [][ supply' > supply /\ Usable(Live) => LiveNav(1)' >= LiveNav(0) ]_vars
=============================================================================
