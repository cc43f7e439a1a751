------------------------------ MODULE IndexBook ------------------------------
(***************************************************************************)
(* The index lifecycle, contracts/src/registry/PoolRegistry.sol, composed   *)
(* with the bond shell it drives: constituents are added, retired,          *)
(* reinstated and reweighted, and each of those opens or closes the name's  *)
(* bond market through two records of it that can come apart, the           *)
(* registry's marketId and the shell's marketIdOf.                          *)
(*                                                                          *)
(* Both contracts are governed by one timelock; it reaches the shell's      *)
(* markets through the registry and directly.  Pools, feeds, fees and       *)
(* overrides of a constituent are left out: nothing here reads them.        *)
(***************************************************************************)
EXTENDS Bonds, FiniteSets

CONSTANTS
    Names,              \* the collaterals that are stock tokens
    Targets,            \* index target weights a proposal may carry
    Rollouts,           \* rollout weights a proposal may carry
    DefaultCap,         \* Constants.BOND_CAP_BPS_PER_EPOCH_DEFAULT
    MaxConstituents,    \* Constants.MAX_CONSTITUENTS
    CapFloor,           \* Constants.INDEX_CAP_FLOOR_BPS
    FloorCeiling        \* Constants.INDEX_FLOOR_CEILING_BPS

ASSUME NamesAssumption == Names \subseteq Collaterals /\ DefaultCap \in Caps
ASSUME WeightAssumption ==
    /\ Targets \subseteq 0 .. BPS /\ Rollouts \subseteq 0 .. BPS
    /\ MaxConstituents \in Nat \ {0} /\ CapFloor \in 0 .. BPS /\ FloorCeiling \in 0 .. BPS

VARIABLES
    index,          \* _constituents, by name
    activeCount,    \* _activeCount
    byHand          \* history: markets the timelock opened at the shell itself

registry  == <<index, activeCount>>
indexVars == <<registry, byHand, vars>>

Statuses == {"none", "active", "retired"}

Constituent ==
    [status : Statuses, target : 0 .. BPS, rollout : 0 .. BPS, frozen : BOOLEAN,
     market : 0 .. MaxCollaterals, passedBeta : BOOLEAN]

Unlisted ==
    [status |-> "none", target |-> 0, rollout |-> 0, frozen |-> FALSE,
     market |-> 0, passedBeta |-> FALSE]

Active == {n \in Names : index[n].status = "active"}

IndexTypeOK ==
    /\ index \in [Names -> Constituent]
    /\ activeCount = Cardinality(Active)
    /\ byHand \subseteq 1 .. Len(markets)

IndexInit ==
    /\ Init
    /\ index = [n \in Names |-> Unlisted]
    /\ activeCount = 0
    /\ byHand = {}

---------------------------------------------------------------------------
(* Weights.                                                                 *)

CapOf(n)   == Larger((BPS + n - 1) \div n, CapFloor)
FloorOf(n) == Lesser(BPS \div (2 * n), FloorCeiling)

(* _weightBounds: what n constituents admit.                                *)
InBand(weight, n) == n = 0 \/ (FloorOf(n) <= weight /\ weight <= CapOf(n))

(* A retired name is weighed as if it came back.                            *)
EffectiveCount(status) == IF status = "active" THEN activeCount ELSE activeCount + 1

SumOfTargets(target) == FoldFunctionOnSet(+, 0, target, Active)

---------------------------------------------------------------------------
(* The registry's hand on the shell.                                        *)

(* Mutant: the id recorded when the name was added, if still attached.      *)
Driven_Recorded(n) == IF marketIdOf[n] = index[n].market THEN marketIdOf[n] ELSE 0

(* _liveMarketId: the market the shell attributes to the token, or none.    *)
Driven(n) == marketIdOf[n]

(* _setMarketOpen opens or closes that market and adopts its id; a token    *)
(* without one is left alone.                                               *)
Toggled(n, open) ==
    IF Driven(n) = 0 THEN markets ELSE [markets EXCEPT ![Driven(n)].open = open]

Adopted(n) == IF Driven(n) = 0 THEN index[n].market ELSE Driven(n)

---------------------------------------------------------------------------
(* The timelock at the registry.                                            *)

Listed == {n \in Names : index[n].status # "none"}

(* A name that fails the beta test is added without rollout weight.         *)
AddConstituent(n, target, rollout, passedBeta, openMarket) ==
    /\ n \notin Listed /\ Cardinality(Listed) < MaxConstituents
    /\ rollout # 0 => passedBeta
    /\ InBand(target, activeCount + 1)
    /\ activeCount' = activeCount + 1
    /\ index' = [index EXCEPT ![n] =
           [status |-> "active", target |-> target, rollout |-> rollout, frozen |-> FALSE,
            market |-> IF openMarket THEN Len(markets) + 1 ELSE 0, passedBeta |-> passedBeta]]
    /\ IF openMarket THEN AddCollateral(n, DefaultCap, TRUE) ELSE UNCHANGED vars
    /\ UNCHANGED byHand

(* retireConstituent: the market closes in the same operation.              *)
RetireConstituent(n) ==
    /\ n \in Active
    /\ activeCount' = activeCount - 1
    /\ index' = [index EXCEPT ![n] =
           [@ EXCEPT !.status = "retired", !.rollout = 0, !.market = Adopted(n)]]
    /\ markets' = Toggled(n, FALSE)
    /\ byHand' = byHand \ {Driven(n)}
    /\ UNCHANGED <<now, govern, marketIdOf, daily, positions, amps>>

(* reinstateConstituent: the name comes back at its stored target, which    *)
(* the band of the grown index must still admit.                            *)
ReinstateConstituent(n, rollout) ==
    /\ index[n].status = "retired"
    /\ InBand(index[n].target, activeCount + 1)
    /\ activeCount' = activeCount + 1
    /\ index' = [index EXCEPT ![n] =
           [@ EXCEPT !.status = "active", !.rollout = rollout, !.market = Adopted(n)]]
    /\ markets' = Toggled(n, TRUE)
    /\ byHand' = byHand \ {Driven(n)}
    /\ UNCHANGED <<now, govern, marketIdOf, daily, positions, amps>>

(* Mutant: a proposal gives a retired name rollout weight.                  *)
ReconfigureConstituent_AnyRollout(n, target, rollout, frozen) ==
    /\ n \in Listed
    /\ target # index[n].target => InBand(target, EffectiveCount(index[n].status))
    /\ index' = [index EXCEPT ![n] =
           [@ EXCEPT !.target = target, !.rollout = rollout, !.frozen = frozen]]
    /\ UNCHANGED <<activeCount, byHand, vars>>

(* reconfigureConstituent: a field the proposal does not set keeps its      *)
(* value, unchecked.                                                        *)
ReconfigureConstituent(n, target, rollout, frozen) ==
    /\ n \in Listed
    /\ target # index[n].target => InBand(target, EffectiveCount(index[n].status))
    /\ rollout # 0 => n \in Active
    /\ index' = [index EXCEPT ![n] =
           [@ EXCEPT !.target = target, !.rollout = rollout, !.frozen = frozen]]
    /\ UNCHANGED <<activeCount, byHand, vars>>

(* setIndexWeights: some of the active names are named, and all of the      *)
(* active ones must sum to the whole.                                       *)
SetIndexWeights(weights) ==
    LET named  == DOMAIN weights
        target == [n \in Active |-> IF n \in named THEN weights[n] ELSE index[n].target]
    IN  /\ named \subseteq Active
        /\ \A n \in named : InBand(weights[n], activeCount)
        /\ activeCount # 0 => SumOfTargets(target) = BPS
        /\ index' = [n \in Names |->
               IF n \in named THEN [index[n] EXCEPT !.target = weights[n]] ELSE index[n]]
        /\ UNCHANGED <<activeCount, byHand, vars>>

---------------------------------------------------------------------------
(* The timelock at the shell itself.                                        *)

(* Mutant: the registry is not asked for the name's status.                 *)
ListMarket_AnyStatus(c, cap, open) ==
    /\ c \in Names => c \in Listed
    /\ AddCollateral(c, cap, open)
    /\ UNCHANGED <<registry, byHand>>

(* addCollateral: a stock token must be an active constituent, and one that *)
(* is frozen does not read as active.                                       *)
ListMarket(c, cap, open) ==
    /\ c \in Names => c \in Active /\ ~index[c].frozen
    /\ AddCollateral(c, cap, open)
    /\ UNCHANGED <<registry, byHand>>

DelistMarket(c) ==
    /\ RemoveCollateral(c)
    /\ byHand' = byHand \ {marketIdOf[c]}
    /\ UNCHANGED registry

SwitchMarket(m, open) ==
    /\ SetMarketOpen(m, open)
    /\ byHand' = IF open THEN byHand \union {m} ELSE byHand \ {m}
    /\ UNCHANGED registry

Lifecycle ==
    \E n \in Names :
        \/ \E t \in Targets, r \in Rollouts, b \in BOOLEAN, o \in BOOLEAN :
              AddConstituent(n, t, r, b, o)
        \/ RetireConstituent(n)
        \/ \E r \in Rollouts : ReinstateConstituent(n, r)
        \/ \E t \in Targets, r \in Rollouts, f \in BOOLEAN : ReconfigureConstituent(n, t, r, f)

Reweigh == \E named \in SUBSET Names : \E w \in [named -> Targets] : SetIndexWeights(w)

MarketGovernance ==
    \/ \E c \in Collaterals : DelistMarket(c)
    \/ \E c \in Collaterals, cap \in Caps, open \in BOOLEAN : ListMarket(c, cap, open)
    \/ \E m \in MarketIds, open \in BOOLEAN : SwitchMarket(m, open)

IndexNext == Lifecycle \/ Reweigh \/ MarketGovernance

IndexSpec == IndexInit /\ [][IndexNext]_indexVars

---------------------------------------------------------------------------
(* Properties.                                                              *)

OpenMarket(n) == marketIdOf[n] # 0 /\ markets[marketIdOf[n]].open

(* Retirement closes the market the token has at that moment, whichever id  *)
(* it came to have since the registry last wrote it down.                   *)
RetirementCloses ==
    [][ \A n \in Names : index'[n].status = "retired" /\ n \in Active => ~OpenMarket(n)' ]_indexVars

(* A retired name issues no bonds unless the timelock opened the very       *)
(* market again by hand after the retirement: no listing, relisting,        *)
(* reweighting or reinstatement of other names reopens it.                  *)
RetiredStaysClosed ==
    \A n \in Names :
        index[n].status = "retired" /\ OpenMarket(n) => marketIdOf[n] \in byHand

(* I37, second half: a retired name carries no rollout weight.              *)
RetiredRollsNothing ==
    \A n \in Names : index[n].status = "retired" => index[n].rollout = 0

(* What retirement took away stays away: the market, but for a hand at the  *)
(* shell, and the rollout weight.                                           *)
RetiredStaysShut == RetiredStaysClosed /\ RetiredRollsNothing
=============================================================================
