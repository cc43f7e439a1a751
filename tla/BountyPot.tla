----------------------------- MODULE BountyPot -----------------------------
(***************************************************************************)
(* The keeper purse, contracts/src/keeper/BountyPot.sol: who may be paid,   *)
(* how much, and how the daily ceiling is kept by one accumulator and one   *)
(* timestamp.  Amounts in 18-decimal USD and in raw token units are both    *)
(* naturals; one raw unit is Scale dollars (usdScale in the code).          *)
(***************************************************************************)
EXTENDS Clock, Integers

CONSTANTS
    Day,            \* Constants.ONE_DAY, in ticks of the clock
    Scale,          \* 10 ** (18 - decimals), the USD18 worth of one raw unit
    BPS,            \* the basis-point denominator
    TipMax, ChipMax, ChostMax, CeilingMax, GasCapMin, GasCapMax,
                    \* the hard bands of the setters
    Works, Gases,   \* the work values and gas costs a job may present
    Fundings,       \* the amounts one call may fund or sweep
    PotCap,         \* bound of what the pot may hold
    Callers         \* the addresses that may come to hold the vault role

ASSUME ClockAssumption ==
    Day \in Nat \ {0} /\ MaxTime \in Nat \ {0} /\ Scale \in Nat \ {0} /\ BPS \in Nat \ {0}
ASSUME BandAssumption ==
    /\ TipMax \in Nat /\ ChipMax \in Nat /\ ChostMax \in Nat
    /\ CeilingMax \in Nat /\ PotCap \in Nat
    /\ GasCapMin \in Nat /\ GasCapMax \in Nat /\ GasCapMin <= GasCapMax
ASSUME InputAssumption ==
    Works \subseteq Nat /\ Gases \subseteq Nat /\ Fundings \subseteq Nat \ {0} /\ Callers # {}

VARIABLES
    balance,        \* IERC20(token).balanceOf(pot), raw units
    tip, chost, ceiling, chip, gasCap,
    spentWindow,    \* _spentWindowUsd18
    windowStart,    \* _windowStart; 0 before the first payment
    vault,
    paidBy,         \* history: paidBy[t] is all the USD18 paid up to and at t
    highCeiling     \* history: the highest ceiling in force so far

params  == <<tip, chost, ceiling, chip, gasCap, highCeiling>>
window  == <<spentWindow, windowStart>>
vars    == <<now, balance, params, window, vault, paidBy>>

Lesser(a, b) == IF a <= b THEN a ELSE b
Times == 0 .. MaxTime

TypeOK ==
    /\ now \in 1 .. MaxTime
    /\ balance \in Nat /\ spentWindow \in Nat
    /\ tip \in 0 .. TipMax /\ chost \in 0 .. ChostMax /\ chip \in 0 .. ChipMax
    /\ ceiling \in 0 .. CeilingMax /\ highCeiling \in 0 .. CeilingMax
    /\ gasCap \in GasCapMin .. GasCapMax
    /\ windowStart \in 0 .. now
    /\ vault \in Callers
    /\ paidBy \in [Times -> Nat]

(* The clock starts after 0, because 0 in _windowStart means "never paid".  *)
Init ==
    /\ now = 1 /\ balance = 0
    /\ tip \in 0 .. TipMax /\ chost \in 0 .. ChostMax /\ chip \in 0 .. ChipMax
    /\ gasCap \in GasCapMin .. GasCapMax
    /\ ceiling \in 0 .. CeilingMax /\ highCeiling = ceiling
    /\ spentWindow = 0 /\ windowStart = 0
    /\ vault \in Callers
    /\ paidBy = [t \in Times |-> 0]

---------------------------------------------------------------------------
(* Views.                                                                   *)

WindowExpired == windowStart = 0 \/ now - windowStart >= Day

SpentLast24h == IF WindowExpired THEN 0 ELSE spentWindow

(* Mutant: the budget forgets what the window has already spent.            *)
BudgetLeft_Forgetful == ceiling

BudgetLeft == IF ceiling >= SpentLast24h THEN ceiling - SpentLast24h ELSE 0

(* _quote: below the value threshold nothing; otherwise tip and share, cut  *)
(* by the gas cap, the day's budget and what the pot holds, in that order.  *)
Quote(work, gas) ==
    LET gross    == tip + (work * chip) \div BPS
        capped   == Lesser(gross, gas * gasCap)
        budgeted == Lesser(capped, BudgetLeft)
    IN  IF work < chost THEN 0 ELSE Lesser(budgeted \div Scale, balance)

---------------------------------------------------------------------------
(* The purse.                                                               *)

(* Mutant: raw units are charged where USD18 is counted.                    *)
ChargeWindow_Unscaled(amount) ==
    IF WindowExpired
    THEN windowStart' = now /\ spentWindow' = amount \div Scale
    ELSE windowStart' = windowStart /\ spentWindow' = spentWindow + amount \div Scale

ChargeWindow(amount) ==
    IF WindowExpired
    THEN windowStart' = now /\ spentWindow' = amount
    ELSE windowStart' = windowStart /\ spentWindow' = spentWindow + amount

(* pay: the window is charged for exactly what is transferred; a refused or *)
(* worthless job pays nothing, charges nothing and does not revert.         *)
Pay(caller, work, gas) ==
    /\ caller = vault
    /\ LET raw == Quote(work, gas)
       IN  IF raw = 0
           THEN UNCHANGED <<window, balance, paidBy>>
           ELSE /\ ChargeWindow(raw * Scale)
                /\ balance' = balance - raw
                /\ paidBy' = [paidBy EXCEPT ![now] = @ + raw * Scale]
    /\ UNCHANGED <<now, params, vault>>

Fund(amount) ==
    /\ balance + amount <= PotCap
    /\ balance' = balance + amount
    /\ UNCHANGED <<now, params, window, vault, paidBy>>

Sweep(amount) ==
    /\ amount <= balance
    /\ balance' = balance - amount
    /\ UNCHANGED <<now, params, window, vault, paidBy>>

(* The hand-over of a migration: only the sitting vault names the next.     *)
SetVault(caller, next) ==
    /\ caller = vault
    /\ vault' = next
    /\ UNCHANGED <<now, params, window, balance, paidBy>>

---------------------------------------------------------------------------
(* The timelock's setters, each inside its hard band.                       *)

(* Mutant: a setter without its band.                                       *)

SetTip(value) ==
    /\ value <= TipMax
    /\ tip' = value
    /\ UNCHANGED <<now, chost, ceiling, chip, gasCap, highCeiling, window, balance, vault, paidBy>>

SetChip(value) ==
    /\ value <= ChipMax
    /\ chip' = value
    /\ UNCHANGED <<now, tip, chost, ceiling, gasCap, highCeiling, window, balance, vault, paidBy>>

SetChost(value) ==
    /\ value <= ChostMax
    /\ chost' = value
    /\ UNCHANGED <<now, tip, ceiling, chip, gasCap, highCeiling, window, balance, vault, paidBy>>

SetGasCap(value) ==
    /\ value >= GasCapMin /\ value <= GasCapMax
    /\ gasCap' = value
    /\ UNCHANGED <<now, tip, chost, ceiling, chip, highCeiling, window, balance, vault, paidBy>>

SetCeiling(value) ==
    /\ value <= CeilingMax
    /\ ceiling' = value
    /\ highCeiling' = IF value > highCeiling THEN value ELSE highCeiling
    /\ UNCHANGED <<now, tip, chost, chip, gasCap, window, balance, vault, paidBy>>

(* One tick of the clock; the history carries its last total forward.       *)
Tick ==
    /\ now < MaxTime
    /\ now' = now + 1
    /\ paidBy' = [paidBy EXCEPT ![now + 1] = paidBy[now]]
    /\ UNCHANGED <<params, window, balance, vault>>

Next ==
    \/ \E c \in Callers, w \in Works, g \in Gases : Pay(c, w, g)
    \/ \E a \in Fundings : Fund(a) \/ Sweep(a)
    \/ \E c, n \in Callers : SetVault(c, n)
    \/ \E v \in 0 .. TipMax + 1 : SetTip(v)
    \/ \E v \in 0 .. ChipMax + 1 : SetChip(v)
    \/ \E v \in 0 .. ChostMax + 1 : SetChost(v)
    \/ \E v \in 0 .. GasCapMax + 1 : SetGasCap(v)
    \/ \E v \in 0 .. CeilingMax + 1 : SetCeiling(v)
    \/ Tick

Spec == Init /\ [][Next]_vars

---------------------------------------------------------------------------
(* Properties.                                                              *)

(* What was paid in the Day ticks that end now.                             *)
PaidInTrailingDay == paidBy[now] - paidBy[IF now >= Day THEN now - Day ELSE 0]

(* No 24-hour interval pays more than two ceilings, whatever the ceiling    *)
(* did meanwhile (BountyPot.sol:41-46): the accumulator is reset, it is not *)
(* a trailing sum, and the reset can be straddled only once a day.          *)
NoDayPaysTwoCeilings == PaidInTrailingDay <= 2 * highCeiling

(* What the window is charged is what left the pot, to the unit: the figure *)
(* the ceiling is kept on is the sum of the USD worth of every transfer     *)
(* since windowStart, through expiry and reopening.                         *)
WindowCountsItsPayments ==
    windowStart # 0 => spentWindow = paidBy[now] - paidBy[windowStart - 1]
=============================================================================
