---------------------------- MODULE VaultProofs ----------------------------
(***************************************************************************)
(* The vault's life and its purse, for any number of vaults, constituents  *)
(* and roles, any amounts, clock, bands and order of steps: a shell keeps  *)
(* nothing it could have handed on, the adapter keeps nothing once it has  *)
(* settled, and the purse pays no day two ceilings.                        *)
(***************************************************************************)
EXTENDS Lifecycle, BountyPot, SumLemmas

Amounts == [Tokens -> Nat]

LifeTypeOK ==
    /\ now \in Nat /\ arrivals \in Nat
    /\ wired \in [Vaults -> SUBSET Wirable]
    /\ minted \in BOOLEAN /\ opened \in BOOLEAN /\ settled \in BOOLEAN
    /\ created \in SUBSET Currencies /\ claimAt \in [Currencies -> Nat]
    /\ standby \in [Vaults -> Vaults \cup {Nobody}] /\ readyAt \in [Vaults -> Nat]
    /\ vaultOf \in [Roles -> Vaults]
    /\ poolAt \in [Assets -> Vaults \cup {Nobody}]
    /\ listed \in [Vaults -> SUBSET Assets]
    /\ held \in [Holders -> Amounts]
    /\ claims \in [Vaults -> Amounts] /\ placed \in [Vaults -> Amounts]
    /\ denied \in SUBSET (Vaults \X Stocks)
    /\ evacuated \in SUBSET Vaults /\ residue \in [Vaults -> Amounts]
    /\ behind \in SUBSET Wirable

(* A migration takes what a vault has listed.  That this is all it has      *)
(* placed needs every pool it opened to be listed; that the heir is not a   *)
(* shell needs no vault to be its own standby.                              *)
EstateIsListed ==
    /\ \A v \in Vaults : standby[v] # v
    /\ \A v \in Vaults, t \in Assets : poolAt[t] = v => t \in listed[v]
    /\ \A v \in Vaults, t \in Assets : placed[v][t] # 0 => t \in listed[v]

(* The shell's roles, and its balances.                                     *)
ShellHasNoRole ==
    \A v \in evacuated, r \in Roles \ {"hook"} : vaultOf[r] = v => r \in behind

ShellIsEmpty ==
    \A v \in evacuated, t \in Tokens :
        held[v][t] + claims[v][t] + placed[v][t] = residue[v][t]

(* settle() ends in this assertion (AmpsGenesis.sol:288): when the one      *)
(* settlement is done, neither the adapter nor a leg holds anything.  It    *)
(* needs that no AMPS is minted for the adapter once its legs exist, and    *)
(* that a leg not created holds nothing.                                    *)
NothingStays ==
    settled => \A h \in {Adapter} \cup Currencies, t \in Tokens : held[h][t] = 0

RaiseInv ==
    /\ ~minted => held[Adapter][Amps] = 0 /\ created = {}
    /\ settled => created # {}
    /\ \A c \in Currencies \ created, t \in Tokens : held[c][t] = 0
    /\ NothingStays

LifeInv == LifeTypeOK /\ EstateIsListed /\ ShellHasNoRole /\ ShellIsEmpty /\ RaiseInv

---------------------------------------------------------------------------
(* Amounts.                                                                 *)

LEMMA NoneIs ==
    /\ None \in Amounts /\ \A t \in Tokens : None[t] = 0
BY DEF None, Amounts

LEMMA OnlyIs ==
    ASSUME NEW t \in Tokens, NEW n \in Nat
    PROVE  /\ Only(t, n) \in Amounts
           /\ \A u \in Tokens : Only(t, n)[u] = IF u = t THEN n ELSE 0
BY DEF Only, None, Amounts

LEMMA PlusIs ==
    ASSUME NEW f \in Amounts, NEW g \in Amounts
    PROVE  /\ Plus(f, g) \in Amounts
           /\ \A t \in Tokens : Plus(f, g)[t] = f[t] + g[t]
BY DEF Plus, Amounts

LEMMA AmountsAre ==
    ASSUME NEW f \in Amounts, NEW t \in Tokens
    PROVE  f[t] \in Nat
BY DEF Amounts

LEMMA PartsAre ==
    /\ Amps \in Tokens /\ Assets \subseteq Tokens /\ Amps \notin Assets
    /\ Stocks \subseteq Assets /\ Currencies \subseteq Assets
    /\ Home \in Vaults /\ Home \in Holders /\ Adapter \in Holders /\ Adapter \notin Vaults
    /\ Vaults \subseteq Holders /\ Currencies \subseteq Holders
    /\ Adapter \notin Currencies /\ Vaults \cap Currencies = {}
    /\ "amps" \in Roles /\ "amps" \notin Wirable /\ Wirable \subseteq Roles
    /\ "hook" \notin Wirable
BY LifecycleAssumption, PartsAssumption DEF Tokens, Assets, Holders, Roles

\* The balances and the claims after a sweep of v.
Emptied(h, v, swept) ==
    [h EXCEPT ![v] = [t \in Tokens |-> IF t \in swept THEN 0 ELSE h[v][t]]]
Claimed(c, h, v, swept) ==
    [c EXCEPT ![v] = [t \in Tokens |-> c[v][t] + IF t \in swept THEN h[v][t] ELSE 0]]

(* A sweep turns balances into claims and moves nothing else.               *)
LEMMA SweepMoves ==
    ASSUME NEW v \in Vaults, NEW swept, NEW h \in [Holders -> Amounts],
           NEW c \in [Vaults -> Amounts]
    PROVE  /\ Emptied(h, v, swept) \in [Holders -> Amounts]
           /\ Claimed(c, h, v, swept) \in [Vaults -> Amounts]
           /\ \A x \in Holders \ {v} : Emptied(h, v, swept)[x] = h[x]
           /\ \A w \in Vaults, t \in Tokens :
                  Emptied(h, v, swept)[w][t] + Claimed(c, h, v, swept)[w][t] = h[w][t] + c[w][t]
<1> DEFINE hh == Emptied(h, v, swept)
           cc == Claimed(c, h, v, swept)
           H == [t \in Tokens |-> IF t \in swept THEN 0 ELSE h[v][t]]
           C == [t \in Tokens |-> c[v][t] + IF t \in swept THEN h[v][t] ELSE 0]
<1>0. v \in Holders /\ \A w \in Vaults : w \in Holders
  BY PartsAre
<1>1. hh = [h EXCEPT ![v] = H] /\ cc = [c EXCEPT ![v] = C]
  BY DEF Emptied, Claimed
<1>2. /\ H \in Amounts /\ C \in Amounts
      /\ \A t \in Tokens : H[t] + C[t] = h[v][t] + c[v][t]
  <2>1. h[v] \in Amounts /\ c[v] \in Amounts
    BY <1>0
  <2> QED
    BY <2>1 DEF Amounts
<1> HIDE DEF H, C, hh, cc
<1>3. /\ hh[v] = H /\ cc[v] = C
      /\ \A x \in Holders \ {v} : hh[x] = h[x]
      /\ \A w \in Vaults \ {v} : cc[w] = c[w]
  BY <1>0, <1>1
<1>4. \A w \in Vaults, t \in Tokens : hh[w][t] + cc[w][t] = h[w][t] + c[w][t]
  <2> SUFFICES ASSUME NEW w \in Vaults, NEW t \in Tokens
               PROVE  hh[w][t] + cc[w][t] = h[w][t] + c[w][t]
    OBVIOUS
  <2>1. CASE w = v
    BY <2>1, <1>2, <1>3
  <2>2. CASE w # v
    BY <2>2, <1>0, <1>3
  <2> QED
    BY <2>1, <2>2
<1>5. hh \in [Holders -> Amounts] /\ cc \in [Vaults -> Amounts]
  BY <1>1, <1>2
<1> QED
  BY <1>3, <1>4, <1>5 DEF hh, cc

LEMMA ArrivalCounts ==
    ASSUME NEW h, NEW amounts \in Amounts, evacuated \in SUBSET Vaults,
           residue \in [Vaults -> Amounts], Arrives(h, amounts)
    PROVE  /\ residue' \in [Vaults -> Amounts]
           /\ \A w \in evacuated, t \in Tokens :
                  residue'[w][t] = residue[w][t] + IF w = h THEN amounts[t] ELSE 0
<1>1. CASE h \in evacuated
  <2>1. residue' = [residue EXCEPT ![h] = Plus(residue[h], amounts)]
    BY <1>1 DEF Arrives
  <2>2. h \in Vaults /\ residue[h] \in Amounts
    BY <1>1
  <2>3. /\ Plus(residue[h], amounts) \in Amounts
        /\ \A t \in Tokens : Plus(residue[h], amounts)[t] = residue[h][t] + amounts[t]
    BY <2>2, PlusIs
  <2>4. residue' \in [Vaults -> Amounts]
    BY <2>1, <2>3
  <2> SUFFICES ASSUME NEW w \in evacuated, NEW t \in Tokens
               PROVE  residue'[w][t] = residue[w][t] + IF w = h THEN amounts[t] ELSE 0
    BY <2>4
  <2>5. CASE w = h
    BY <2>1, <2>2, <2>3, <2>5
  <2>6. CASE w # h
    <3>1. w \in Vaults /\ residue'[w] = residue[w] /\ residue[w] \in Amounts
      BY <2>1, <2>6
    <3> QED
      BY <2>6, <3>1, AmountsAre
  <2> QED
    BY <2>5, <2>6
<1>2. CASE h \notin evacuated
  <2>1. residue' = residue
    BY <1>2 DEF Arrives
  <2>2. \A w \in evacuated, t \in Tokens : residue[w][t] \in Nat
    BY AmountsAre
  <2> QED
    BY <1>2, <2>1, <2>2
<1> QED
  BY <1>1, <1>2

---------------------------------------------------------------------------
(* Every operation keeps the invariant.                                     *)

(* What a sweep does to the list of its vault never drops an asset.         *)
LEMMA ListsGrow ==
    ASSUME LifeInv, listed' \in [Vaults -> SUBSET Assets],
           \A v \in Vaults : listed[v] \subseteq listed'[v],
           UNCHANGED <<standby, poolAt, placed>>
    PROVE  EstateIsListed'
BY DEF LifeInv, EstateIsListed

LEMMA RolesStand ==
    ASSUME LifeInv, UNCHANGED <<vaultOf, evacuated, behind>>
    PROVE  ShellHasNoRole'
BY DEF LifeInv, ShellHasNoRole

(* A step that adds to one holder what it counts as arrived, and moves the  *)
(* rest within each vault, keeps the shells empty.                          *)
LEMMA ShellsStand ==
    ASSUME LifeInv, NEW h, NEW amounts \in Amounts, Arrives(h, amounts),
           UNCHANGED evacuated,
           \A w \in Vaults, t \in Tokens :
               held'[w][t] + claims'[w][t] + placed'[w][t]
                   = held[w][t] + claims[w][t] + placed[w][t] + IF w = h THEN amounts[t] ELSE 0
    PROVE  ShellIsEmpty' /\ residue' \in [Vaults -> Amounts]
<1>1. /\ residue' \in [Vaults -> Amounts]
      /\ \A w \in evacuated, t \in Tokens :
             residue'[w][t] = residue[w][t] + IF w = h THEN amounts[t] ELSE 0
  BY ArrivalCounts DEF LifeInv, LifeTypeOK
<1>2. ShellIsEmpty'
  <2> SUFFICES ASSUME NEW w \in evacuated, NEW t \in Tokens
               PROVE  held'[w][t] + claims'[w][t] + placed'[w][t] = residue'[w][t]
    BY DEF ShellIsEmpty
  <2>1. w \in Vaults
    BY DEF LifeInv, LifeTypeOK
  <2>2. held[w][t] + claims[w][t] + placed[w][t] = residue[w][t]
    BY DEF LifeInv, ShellIsEmpty
  <2> QED
    BY <1>1, <2>1, <2>2
<1> QED
  BY <1>1, <1>2

(* As a step that only moves within each vault.                             *)
LEMMA ShellsStandStill ==
    ASSUME LifeInv, UNCHANGED <<evacuated, residue>>,
           \A w \in Vaults, t \in Tokens :
               held'[w][t] + claims'[w][t] + placed'[w][t]
                   = held[w][t] + claims[w][t] + placed[w][t]
    PROVE  ShellIsEmpty'
<1> SUFFICES ASSUME NEW w \in evacuated, NEW t \in Tokens
             PROVE  held'[w][t] + claims'[w][t] + placed'[w][t] = residue'[w][t]
  BY DEF ShellIsEmpty
<1> QED
  BY DEF LifeInv, LifeTypeOK, ShellIsEmpty

(* What is not the adapter's or a leg's touches no part of the raise.       *)
LEMMA RaiseStands ==
    ASSUME LifeInv, UNCHANGED <<minted, created, settled>>,
           \A h \in {Adapter} \cup Currencies : held'[h] = held[h]
    PROVE  RaiseInv'
BY DEF LifeInv, RaiseInv, NothingStays

(* The balances of one vault are numbers.                                   *)
LEMMA BalancesAre ==
    ASSUME LifeTypeOK
    PROVE  /\ \A h \in Holders, t \in Tokens : held[h][t] \in Nat
           /\ \A v \in Vaults, t \in Tokens :
                  held[v][t] \in Nat /\ claims[v][t] \in Nat /\ placed[v][t] \in Nat
<1>1. \A h \in Holders : held[h] \in Amounts
  BY DEF LifeTypeOK
<1>2. \A v \in Vaults : v \in Holders /\ claims[v] \in Amounts /\ placed[v] \in Amounts
  BY PartsAre DEF LifeTypeOK
<1> QED
  BY <1>1, <1>2, AmountsAre

LEMMA TouchKeeps ==
    ASSUME LifeInv, NEW v \in Vaults, Touch(v)
    PROVE  LifeInv'
<1>1. /\ held' \in [Holders -> Amounts] /\ claims' \in [Vaults -> Amounts]
      /\ listed' \in [Vaults -> SUBSET Assets]
      /\ listed'[v] = listed[v] /\ \A w \in Vaults \ {v} : listed'[w] = listed[w]
      /\ \A x \in Holders \ {v} : held'[x] = held[x]
      /\ \A w \in Vaults, t \in Tokens :
             held'[w][t] + claims'[w][t] = held[w][t] + claims[w][t]
  <2>1. /\ held \in [Holders -> Amounts] /\ claims \in [Vaults -> Amounts]
        /\ listed \in [Vaults -> SUBSET Assets] /\ listed[v] \in SUBSET Assets
    BY DEF LifeInv, LifeTypeOK
  <2> DEFINE swept == {u \in listed[v] : ~Refuses(u, v)}
  <2>2. /\ held' = Emptied(held, v, swept) /\ claims' = Claimed(claims, held, v, swept)
        /\ listed' = [listed EXCEPT ![v] = listed[v]]
    BY DEF Touch, SweepClean, Emptied, Claimed
  <2> HIDE DEF swept
  <2>3. /\ held' \in [Holders -> Amounts] /\ claims' \in [Vaults -> Amounts]
        /\ \A x \in Holders \ {v} : held'[x] = held[x]
        /\ \A w \in Vaults, u \in Tokens : held'[w][u] + claims'[w][u] = held[w][u] + claims[w][u]
    BY <2>1, <2>2, SweepMoves
  <2>4. /\ listed' \in [Vaults -> SUBSET Assets]
        /\ listed'[v] = listed[v] /\ \A w \in Vaults \ {v} : listed'[w] = listed[w]
    BY <2>1, <2>2
  <2> QED
    BY <2>3, <2>4
<1>2. UNCHANGED <<now, arrivals, launch, policy, roles, placed, denied, history>>
  BY DEF Touch
<1> USE DEF launch, policy, roles, history
<1>3. LifeTypeOK'
  BY <1>1, <1>2 DEF LifeInv, LifeTypeOK
<1>4. EstateIsListed'
  BY <1>1, <1>2, ListsGrow
<1>5. ShellHasNoRole'
  BY <1>2, RolesStand
<1>6. ShellIsEmpty'
  <2>1. LifeTypeOK
    BY DEF LifeInv
  <2>2. \A w \in Vaults, t \in Tokens :
            held'[w][t] + claims'[w][t] + placed'[w][t]
                = held[w][t] + claims[w][t] + placed[w][t]
    BY <1>1, <1>2
  <2> QED
    BY <1>2, <2>2, ShellsStandStill
<1>7. RaiseInv'
  BY <1>1, <1>2, RaiseStands, PartsAre
<1> QED
  BY <1>3, <1>4, <1>5, <1>6, <1>7 DEF LifeInv

LEMMA DepositBondedKeeps ==
    ASSUME LifeInv, NEW v \in Vaults, NEW t \in Assets, DepositBonded(v, t)
    PROVE  LifeInv'
<1> DEFINE c == [claims EXCEPT ![v] = Plus(claims[v], Only(t, 1))]
           list == listed[v] \cup {t}
<1>0. /\ LifeTypeOK /\ t \in Tokens
      /\ Only(t, 1) \in Amounts
      /\ \A u \in Tokens : Only(t, 1)[u] = IF u = t THEN 1 ELSE 0
  BY OnlyIs, PartsAre DEF LifeInv
<1>a. SweepClean(v, list, held, c) /\ Arrives(v, Only(t, 1)) /\ arrivals' = arrivals + 1
  BY DEF DepositBonded
<1>2. UNCHANGED <<now, launch, policy, roles, placed, denied, evacuated, behind>>
  BY DEF DepositBonded
<1>b. /\ c \in [Vaults -> Amounts]
      /\ \A w \in Vaults, u \in Tokens :
             c[w][u] = claims[w][u] + IF w = v THEN Only(t, 1)[u] ELSE 0
  <2>1. claims[v] \in Amounts /\ \A w \in Vaults : claims[w] \in Amounts
    BY <1>0 DEF LifeTypeOK
  <2>2. /\ Plus(claims[v], Only(t, 1)) \in Amounts
        /\ \A u \in Tokens : Plus(claims[v], Only(t, 1))[u] = claims[v][u] + Only(t, 1)[u]
    BY <1>0, <2>1, PlusIs
  <2>3. c \in [Vaults -> Amounts]
    BY <1>0, <2>2 DEF LifeTypeOK
  <2> SUFFICES ASSUME NEW w \in Vaults, NEW u \in Tokens
               PROVE  c[w][u] = claims[w][u] + IF w = v THEN Only(t, 1)[u] ELSE 0
    BY <2>3
  <2>4. claims[w][u] \in Nat
    BY <2>1, AmountsAre
  <2> QED
    BY <1>0, <2>2, <2>4 DEF LifeTypeOK
<1>c. list \in SUBSET Assets /\ listed[v] \subseteq list
  BY <1>0 DEF LifeTypeOK
<1> HIDE DEF c, list
<1>1. /\ held' \in [Holders -> Amounts] /\ claims' \in [Vaults -> Amounts]
      /\ listed' \in [Vaults -> SUBSET Assets]
      /\ listed'[v] = list /\ \A w \in Vaults \ {v} : listed'[w] = listed[w]
      /\ \A x \in Holders \ {v} : held'[x] = held[x]
      /\ \A w \in Vaults, u \in Tokens : held'[w][u] + claims'[w][u] = held[w][u] + c[w][u]
  <2>1. /\ held \in [Holders -> Amounts] /\ claims \in [Vaults -> Amounts]
        /\ listed \in [Vaults -> SUBSET Assets]
    BY <1>0 DEF LifeTypeOK
  <2> DEFINE swept == {u \in list : ~Refuses(u, v)}
  <2>2. /\ held' = Emptied(held, v, swept) /\ claims' = Claimed(c, held, v, swept)
        /\ listed' = [listed EXCEPT ![v] = list]
    BY <1>a DEF SweepClean, Emptied, Claimed
  <2> HIDE DEF swept
  <2>3. /\ held' \in [Holders -> Amounts] /\ claims' \in [Vaults -> Amounts]
        /\ \A x \in Holders \ {v} : held'[x] = held[x]
        /\ \A w \in Vaults, u \in Tokens : held'[w][u] + claims'[w][u] = held[w][u] + c[w][u]
    BY <1>b, <1>c, <2>1, <2>2, SweepMoves
  <2>4. /\ listed' \in [Vaults -> SUBSET Assets]
        /\ listed'[v] = list /\ \A w \in Vaults \ {v} : listed'[w] = listed[w]
    BY <1>b, <1>c, <2>1, <2>2
  <2> QED
    BY <2>3, <2>4
<1> USE DEF launch, policy, roles
<1>4. EstateIsListed'
  BY <1>1, <1>2, <1>c, ListsGrow
<1>5. ShellHasNoRole'
  BY <1>2, RolesStand
<1>6. ShellIsEmpty' /\ residue' \in [Vaults -> Amounts]
  <2>1. \A w \in Vaults, u \in Tokens :
            held'[w][u] + claims'[w][u] + placed'[w][u]
                = held[w][u] + claims[w][u] + placed[w][u]
                      + IF w = v THEN Only(t, 1)[u] ELSE 0
    <3> SUFFICES ASSUME NEW w \in Vaults, NEW u \in Tokens
                 PROVE  held'[w][u] + claims'[w][u] + placed'[w][u]
                            = held[w][u] + claims[w][u] + placed[w][u]
                                  + IF w = v THEN Only(t, 1)[u] ELSE 0
      OBVIOUS
    <3>1. /\ held'[w][u] + claims'[w][u] = held[w][u] + c[w][u]
          /\ c[w][u] = claims[w][u] + IF w = v THEN Only(t, 1)[u] ELSE 0
          /\ placed'[w][u] = placed[w][u]
      BY <1>1, <1>2, <1>b
    <3>2. /\ held[w][u] \in Nat /\ claims[w][u] \in Nat /\ placed[w][u] \in Nat
          /\ Only(t, 1)[u] \in Nat
      BY <1>0, BalancesAre
    <3> DEFINE n == IF w = v THEN Only(t, 1)[u] ELSE 0
    <3>3. n \in Nat
      BY <3>2
    <3> HIDE DEF n
    <3>4. c[w][u] = claims[w][u] + n
      BY <3>1 DEF n
    <3>5. held'[w][u] + claims'[w][u] + placed'[w][u]
              = held[w][u] + claims[w][u] + placed[w][u] + n
      BY <3>1, <3>2, <3>3, <3>4
    <3> QED
      BY <3>5 DEF n
  <2> QED
    BY <1>0, <1>2, <1>a, <2>1, ShellsStand
<1>3. LifeTypeOK'
  BY <1>0, <1>1, <1>2, <1>a, <1>6 DEF LifeTypeOK
<1>7. RaiseInv'
  BY <1>1, <1>2, RaiseStands, PartsAre
<1> QED
  BY <1>3, <1>4, <1>5, <1>6, <1>7 DEF LifeInv

LEMMA InitializePoolKeeps ==
    ASSUME LifeInv, NEW v \in Vaults, NEW t \in Pooled, InitializePool(v, t)
    PROVE  LifeInv'
<1> DEFINE list == listed[v] \cup {t}
<1>0. LifeTypeOK /\ t \in Assets
  BY BoundsAssumption DEF LifeInv
<1>c. list \in SUBSET Assets /\ listed[v] \subseteq list /\ t \in list
  BY <1>0 DEF LifeTypeOK
<1>a. SweepClean(v, list, held, claims) /\ poolAt' = [poolAt EXCEPT ![t] = v]
  BY DEF InitializePool
<1>2. UNCHANGED <<now, arrivals, launch, policy, vaultOf, placed, denied, history>>
  BY DEF InitializePool
<1> HIDE DEF list
<1>1. /\ held' \in [Holders -> Amounts] /\ claims' \in [Vaults -> Amounts]
      /\ listed' \in [Vaults -> SUBSET Assets]
      /\ listed'[v] = list /\ \A w \in Vaults \ {v} : listed'[w] = listed[w]
      /\ \A x \in Holders \ {v} : held'[x] = held[x]
      /\ \A w \in Vaults, u \in Tokens :
             held'[w][u] + claims'[w][u] = held[w][u] + claims[w][u]
  <2>1. /\ held \in [Holders -> Amounts] /\ claims \in [Vaults -> Amounts]
        /\ listed \in [Vaults -> SUBSET Assets]
    BY <1>0 DEF LifeTypeOK
  <2> DEFINE swept == {u \in list : ~Refuses(u, v)}
  <2>2. /\ held' = Emptied(held, v, swept) /\ claims' = Claimed(claims, held, v, swept)
        /\ listed' = [listed EXCEPT ![v] = list]
    BY <1>a DEF SweepClean, Emptied, Claimed
  <2> HIDE DEF swept
  <2>3. /\ held' \in [Holders -> Amounts] /\ claims' \in [Vaults -> Amounts]
        /\ \A x \in Holders \ {v} : held'[x] = held[x]
        /\ \A w \in Vaults, u \in Tokens : held'[w][u] + claims'[w][u] = held[w][u] + claims[w][u]
    BY <1>c, <2>1, <2>2, SweepMoves
  <2>4. /\ listed' \in [Vaults -> SUBSET Assets]
        /\ listed'[v] = list /\ \A w \in Vaults \ {v} : listed'[w] = listed[w]
    BY <1>c, <2>1, <2>2
  <2> QED
    BY <2>3, <2>4
<1> USE DEF launch, policy, history
<1>3. LifeTypeOK'
  BY <1>0, <1>1, <1>2, <1>a DEF LifeTypeOK
<1>4. EstateIsListed'
  BY <1>0, <1>1, <1>2, <1>a, <1>c DEF LifeInv, LifeTypeOK, EstateIsListed
<1>5. ShellHasNoRole'
  BY <1>2, RolesStand
<1>6. ShellIsEmpty'
  BY <1>1, <1>2, ShellsStandStill
<1>7. RaiseInv'
  BY <1>1, <1>2, RaiseStands, PartsAre
<1> QED
  BY <1>3, <1>4, <1>5, <1>6, <1>7 DEF LifeInv

LEMMA PlaceKeeps ==
    ASSUME LifeInv, NEW v \in Vaults, NEW t \in Pooled, NEW above \in BOOLEAN,
           Place(v, t, above)
    PROVE  LifeInv'
<1> DEFINE side == IF above THEN Amps ELSE t
           n == IF above THEN held[v][Amps] ELSE claims[v][t]
           h == IF above THEN [held EXCEPT ![v][Amps] = 0] ELSE held
           c == IF above THEN claims ELSE [claims EXCEPT ![v][t] = 0]
<1>0. /\ LifeTypeOK /\ t \in Assets /\ t \in Tokens /\ Amps \in Tokens /\ Amps # t
      /\ v \in Holders
  BY BoundsAssumption, PartsAre DEF LifeInv
<1>t. /\ held \in [Holders -> Amounts] /\ claims \in [Vaults -> Amounts]
      /\ placed \in [Vaults -> Amounts]
      /\ listed \in [Vaults -> SUBSET Assets] /\ listed[v] \in SUBSET Assets
  BY <1>0 DEF LifeTypeOK
<1>a. /\ SweepClean(v, listed[v], h, c)
      /\ placed' = [placed EXCEPT ![v][side] = placed[v][side] + n]
      /\ poolAt[t] = v
  BY DEF Place
<1>2. UNCHANGED <<now, arrivals, launch, policy, roles, denied, history>>
  BY DEF Place
<1>b. /\ side \in Tokens /\ n \in Nat
      /\ h \in [Holders -> Amounts] /\ c \in [Vaults -> Amounts]
      /\ \A x \in Holders \ {v} : h[x] = held[x]
      /\ \A w \in Vaults, u \in Tokens :
             h[w][u] + c[w][u] + (IF w = v /\ u = side THEN n ELSE 0)
                 = held[w][u] + claims[w][u]
  <2>1. /\ held[v] \in Amounts /\ claims[v] \in Amounts
        /\ \A w \in Vaults : w \in Holders
    BY <1>0, <1>t, PartsAre
  <2>2. side \in Tokens /\ n \in Nat
    BY <1>0, <2>1 DEF Amounts
  <2>3. h \in [Holders -> Amounts] /\ c \in [Vaults -> Amounts]
    BY <1>0, <1>t DEF Amounts
  <2>4. \A x \in Holders \ {v} : h[x] = held[x]
    BY <1>t
  <2>5. \A w \in Vaults, u \in Tokens :
             h[w][u] + c[w][u] + (IF w = v /\ u = side THEN n ELSE 0)
                 = held[w][u] + claims[w][u]
    <3> SUFFICES ASSUME NEW w \in Vaults, NEW u \in Tokens
                 PROVE  h[w][u] + c[w][u] + (IF w = v /\ u = side THEN n ELSE 0)
                            = held[w][u] + claims[w][u]
      OBVIOUS
    <3>1. held[w][u] \in Nat /\ claims[w][u] \in Nat
      BY <1>0, BalancesAre
    <3>2. /\ h[w][u] = IF above /\ w = v /\ u = Amps THEN 0 ELSE held[w][u]
          /\ c[w][u] = IF ~above /\ w = v /\ u = t THEN 0 ELSE claims[w][u]
      BY <1>0, <1>t, <2>1 DEF Amounts
    <3> QED
      BY <3>1, <3>2
  <2> QED
    BY <2>2, <2>3, <2>4, <2>5
<1>p. /\ placed' \in [Vaults -> Amounts]
      /\ \A w \in Vaults, u \in Tokens :
             placed'[w][u] = placed[w][u] + IF w = v /\ u = side THEN n ELSE 0
  <2> HIDE DEF side, n
  <2>1. placed[v] \in Amounts
    BY <1>t
  <2>2. placed' \in [Vaults -> Amounts]
    BY <1>a, <1>b, <1>t, <2>1 DEF Amounts
  <2> SUFFICES ASSUME NEW w \in Vaults, NEW u \in Tokens
               PROVE  placed'[w][u] = placed[w][u] + IF w = v /\ u = side THEN n ELSE 0
    BY <2>2
  <2>3. placed[w][u] \in Nat /\ placed[w] \in Amounts
    BY <1>0, <1>t, BalancesAre
  <2>4. placed'[w][u] = IF w = v /\ u = side THEN placed[v][side] + n ELSE placed[w][u]
    BY <1>a, <1>t, <2>1, <2>3 DEF Amounts
  <2> QED
    BY <2>3, <2>4
<1> HIDE DEF side, n, h, c
<1>1. /\ held' \in [Holders -> Amounts] /\ claims' \in [Vaults -> Amounts]
      /\ listed' \in [Vaults -> SUBSET Assets]
      /\ listed'[v] = listed[v] /\ \A w \in Vaults \ {v} : listed'[w] = listed[w]
      /\ \A x \in Holders \ {v} : held'[x] = h[x]
      /\ \A w \in Vaults, u \in Tokens : held'[w][u] + claims'[w][u] = h[w][u] + c[w][u]
  <2> DEFINE swept == {u \in listed[v] : ~Refuses(u, v)}
  <2>2. /\ held' = Emptied(h, v, swept) /\ claims' = Claimed(c, h, v, swept)
        /\ listed' = [listed EXCEPT ![v] = listed[v]]
    BY <1>a DEF SweepClean, Emptied, Claimed
  <2> HIDE DEF swept
  <2>3. /\ held' \in [Holders -> Amounts] /\ claims' \in [Vaults -> Amounts]
        /\ \A x \in Holders \ {v} : held'[x] = h[x]
        /\ \A w \in Vaults, u \in Tokens : held'[w][u] + claims'[w][u] = h[w][u] + c[w][u]
    BY <1>b, <1>t, <2>2, SweepMoves
  <2>4. /\ listed' \in [Vaults -> SUBSET Assets]
        /\ listed'[v] = listed[v] /\ \A w \in Vaults \ {v} : listed'[w] = listed[w]
    BY <1>b, <1>t, <2>2
  <2> QED
    BY <2>3, <2>4
<1> USE DEF launch, policy, roles, history
<1>3. LifeTypeOK'
  BY <1>0, <1>1, <1>2, <1>p DEF LifeTypeOK
<1>4. EstateIsListed'
  <2>1. t \in listed[v]
    BY <1>0, <1>a DEF LifeInv, EstateIsListed
  <2>2. \A w \in Vaults, u \in Assets : placed'[w][u] # 0 => u \in listed'[w]
    <3> SUFFICES ASSUME NEW w \in Vaults, NEW u \in Assets, placed'[w][u] # 0
                 PROVE  u \in listed'[w]
      OBVIOUS
    <3>1. u \in Tokens /\ u # Amps /\ listed'[w] = listed[w]
      BY <1>1, PartsAre
    <3>2. CASE w = v /\ u = side
      BY <3>1, <3>2, <2>1 DEF side
    <3>3. CASE ~(w = v /\ u = side)
      <4>1. placed[w][u] # 0
        BY <1>p, <1>0, <3>1, <3>3, BalancesAre
      <4> QED
        BY <3>1, <4>1 DEF LifeInv, EstateIsListed
    <3> QED
      BY <3>2, <3>3
  <2> QED
    BY <1>1, <1>2, <2>2 DEF LifeInv, EstateIsListed
<1>5. ShellHasNoRole'
  BY <1>2, RolesStand
<1>6. ShellIsEmpty'
  <2>1. \A w \in Vaults, u \in Tokens :
            held'[w][u] + claims'[w][u] + placed'[w][u]
                = held[w][u] + claims[w][u] + placed[w][u]
    <3> SUFFICES ASSUME NEW w \in Vaults, NEW u \in Tokens
                 PROVE  held'[w][u] + claims'[w][u] + placed'[w][u]
                            = held[w][u] + claims[w][u] + placed[w][u]
      OBVIOUS
    <3> DEFINE m == IF w = v /\ u = side THEN n ELSE 0
    <3>1. /\ held'[w][u] + claims'[w][u] = h[w][u] + c[w][u]
          /\ h[w][u] + c[w][u] + m = held[w][u] + claims[w][u]
          /\ placed'[w][u] = placed[w][u] + m
      BY <1>1, <1>b, <1>p
    <3>2. h[w][u] \in Nat /\ c[w][u] \in Nat /\ placed[w][u] \in Nat /\ m \in Nat
      BY <1>0, <1>b, BalancesAre, AmountsAre, PartsAre
    <3> HIDE DEF m
    <3> QED
      BY <3>1, <3>2
  <2> QED
    BY <1>2, <2>1, ShellsStandStill
<1>7. RaiseInv'
  BY <1>1, <1>2, <1>b, RaiseStands, PartsAre
<1> QED
  BY <1>3, <1>4, <1>5, <1>6, <1>7 DEF LifeInv

(* What governance and the world change without touching an estate.         *)
LEMMA QuietKeeps ==
    ASSUME LifeInv,
           \/ \E v \in Vaults, r \in Wirable : SetPolicyPointer(v, r)
           \/ \E v, s \in Vaults : <<v, s>> \in Standbys /\ SetStandbyVault(v, s)
           \/ \E v \in Vaults, t \in Stocks : Deny(v, t)
           \/ Wait
           \/ UNCHANGED lifeVars
    PROVE  LifeInv'
<1> USE DEF launch, policy, roles, estate, history
<1>0. LifeTypeOK
  BY DEF LifeInv
<1> DEFINE Goal ==
        /\ LifeTypeOK' /\ \A v \in Vaults : standby'[v] # v
        /\ UNCHANGED <<minted, created, settled, roles, estate, history>>
<1>1. Goal
  <2>1. ASSUME NEW v \in Vaults, NEW r \in Wirable, SetPolicyPointer(v, r)
        PROVE  Goal
    BY <1>0, <2>1 DEF LifeTypeOK, SetPolicyPointer, LifeInv, EstateIsListed
  <2>2. ASSUME NEW v \in Vaults, NEW s \in Vaults, <<v, s>> \in Standbys, SetStandbyVault(v, s)
        PROVE  Goal
    <3>1. v # s
      BY <2>2, BoundsAssumption
    <3>2. readyAt' \in [Vaults -> Nat]
      BY <1>0, <2>2, LifecycleAssumption DEF LifeTypeOK, SetStandbyVault
    <3> QED
      BY <1>0, <2>2, <3>1, <3>2 DEF LifeTypeOK, SetStandbyVault, LifeInv, EstateIsListed
  <2>3. ASSUME NEW v \in Vaults, NEW t \in Stocks, Deny(v, t)
        PROVE  Goal
    BY <1>0, <2>3 DEF LifeTypeOK, Deny, LifeInv, EstateIsListed
  <2>4. ASSUME Wait PROVE Goal
    BY <1>0, <2>4 DEF LifeTypeOK, Wait, LifeInv, EstateIsListed
  <2>5. ASSUME UNCHANGED lifeVars PROVE Goal
    BY <1>0, <2>5 DEF LifeTypeOK, lifeVars, LifeInv, EstateIsListed
  <2> QED
    BY <2>1, <2>2, <2>3, <2>4, <2>5
<1> QED
  BY <1>1 DEF LifeInv, EstateIsListed, ShellHasNoRole, ShellIsEmpty, RaiseInv, NothingStays

LEMMA DonateKeeps ==
    ASSUME LifeInv, NEW h \in Holders, NEW t \in Tokens, <<h, t>> \in Gifts, Donate(h, t)
    PROVE  LifeInv'
<1>0. /\ LifeTypeOK /\ h \in Vaults \cup {Adapter}
      /\ Only(t, 1) \in Amounts
      /\ \A u \in Tokens : Only(t, 1)[u] = IF u = t THEN 1 ELSE 0
  BY OnlyIs, BoundsAssumption DEF LifeInv
<1>a. /\ held' = [held EXCEPT ![h] = Plus(held[h], Only(t, 1))]
      /\ Arrives(h, Only(t, 1)) /\ arrivals' = arrivals + 1
      /\ h = Adapter => ~settled
      /\ t = Amps => minted
  BY DEF Donate
<1>2. UNCHANGED <<now, launch, policy, roles, listed, claims, placed, denied, evacuated, behind>>
  BY DEF Donate
<1>1. /\ held' \in [Holders -> Amounts]
      /\ \A x \in Holders \ {h} : held'[x] = held[x]
      /\ \A u \in Tokens : held'[h][u] = held[h][u] + Only(t, 1)[u]
  <2>1. held \in [Holders -> Amounts] /\ held[h] \in Amounts
    BY <1>0 DEF LifeTypeOK
  <2>2. /\ Plus(held[h], Only(t, 1)) \in Amounts
        /\ \A u \in Tokens : Plus(held[h], Only(t, 1))[u] = held[h][u] + Only(t, 1)[u]
    BY <1>0, <2>1, PlusIs
  <2> QED
    BY <1>a, <2>1, <2>2
<1> USE DEF launch, policy, roles
<1>4. EstateIsListed'
  BY <1>2 DEF LifeInv, EstateIsListed
<1>5. ShellHasNoRole'
  BY <1>2, RolesStand
<1>6. ShellIsEmpty' /\ residue' \in [Vaults -> Amounts]
  <2>1. \A w \in Vaults, u \in Tokens :
            held'[w][u] + claims'[w][u] + placed'[w][u]
                = held[w][u] + claims[w][u] + placed[w][u]
                      + IF w = h THEN Only(t, 1)[u] ELSE 0
    <3> SUFFICES ASSUME NEW w \in Vaults, NEW u \in Tokens
                 PROVE  held'[w][u] + claims'[w][u] + placed'[w][u]
                            = held[w][u] + claims[w][u] + placed[w][u]
                                  + IF w = h THEN Only(t, 1)[u] ELSE 0
      OBVIOUS
    <3>1. /\ held[w][u] \in Nat /\ claims[w][u] \in Nat /\ placed[w][u] \in Nat
          /\ Only(t, 1)[u] \in Nat
      BY <1>0, BalancesAre
    <3>2. w \in Holders /\ claims' = claims /\ placed' = placed
      BY <1>2, PartsAre
    <3>3. CASE w = h
      BY <1>1, <3>1, <3>2, <3>3
    <3>4. CASE w # h
      BY <1>1, <3>1, <3>2, <3>4
    <3> QED
      BY <3>3, <3>4
  <2> QED
    BY <1>0, <1>2, <1>a, <2>1, ShellsStand
<1>3. LifeTypeOK'
  BY <1>0, <1>1, <1>2, <1>a, <1>6 DEF LifeTypeOK
<1>7. RaiseInv'
  <2>1. /\ minted' = minted /\ created' = created /\ settled' = settled
        /\ \A x \in Currencies : held'[x] = held[x]
    BY <1>0, <1>1, <1>2, PartsAre
  <2>2. settled => held'[Adapter] = held[Adapter]
    BY <1>a, <1>1, PartsAre
  <2>3. ~minted => held'[Adapter][Amps] = held[Adapter][Amps]
    BY <1>0, <1>a, <1>1, BalancesAre, PartsAre
  <2> QED
    BY <2>1, <2>2, <2>3 DEF LifeInv, RaiseInv, NothingStays
<1> QED
  BY <1>3, <1>4, <1>5, <1>6, <1>7 DEF LifeInv

(* How much the two tranches are.                                           *)
LEMMA TranchesAre ==
    /\ Cardinality(Currencies) \in Nat \ {0}
    /\ Cardinality(Currencies) * Tranche \in Nat \ {0}
    /\ \A legs \in SUBSET Currencies :
           Cardinality(Currencies) * Tranche - Cardinality(legs) * Tranche \in Nat
<1> DEFINE n == Cardinality(Currencies)
<1>1. n \in Nat /\ n # 0
  <2>1. n \in Nat
    BY PartsAssumption, FS_CardinalityType
  <2>2. n # 0
    BY PartsAssumption, FS_EmptySet
  <2> QED
    BY <2>1, <2>2
<1>2. \A legs \in SUBSET Currencies : Cardinality(legs) \in Nat /\ Cardinality(legs) <= n
  BY PartsAssumption, FS_Subset, FS_CardinalityType
<1>3. Tranche \in Nat /\ Tranche # 0
  BY LifecycleAssumption
<1> HIDE DEF n
<1>4. n * Tranche \in Nat /\ n * Tranche # 0
  BY <1>1, <1>3
<1>5. \A k \in Nat : k <= n => n * Tranche - k * Tranche \in Nat
  BY <1>1, <1>3, Z3
<1>6. \A legs \in SUBSET Currencies : n * Tranche - Cardinality(legs) * Tranche \in Nat
  BY <1>2, <1>5
<1> QED
  BY <1>1, <1>4, <1>6 DEF n

LEMMA GenesisMintKeeps ==
    ASSUME LifeInv, GenesisMint
    PROVE  LifeInv'
<1> DEFINE a == Plus(held[Adapter], Only(Amps, Cardinality(Currencies) * Tranche))
           b == Plus(held[Home], Only(Amps, Pol))
           h == [held EXCEPT ![Adapter] = a, ![Home] = b]
<1>0. /\ LifeTypeOK /\ Pol \in Nat /\ Home \in Vaults /\ Home \in Holders /\ Adapter \in Holders
      /\ Adapter # Home /\ Amps \in Tokens
      /\ Only(Amps, Pol) \in Amounts
      /\ \A u \in Tokens : Only(Amps, Pol)[u] = IF u = Amps THEN Pol ELSE 0
  BY PartsAre, OnlyIs, LifecycleAssumption DEF LifeInv
<1>t. /\ held \in [Holders -> Amounts] /\ claims \in [Vaults -> Amounts]
      /\ listed \in [Vaults -> SUBSET Assets] /\ listed[Home] \in SUBSET Assets
      /\ held[Home] \in Amounts /\ held[Adapter] \in Amounts
  BY <1>0 DEF LifeTypeOK
<1>a. /\ SweepClean(Home, listed[Home], h, claims) /\ Arrives(Home, Only(Amps, Pol))
      /\ ~minted /\ minted' = TRUE
  BY <1>0 DEF GenesisMint
<1>2. UNCHANGED <<now, arrivals, opened, created, settled, claimAt, policy, roles,
                  placed, denied, evacuated, behind>>
  BY DEF GenesisMint
<1>b. /\ h \in [Holders -> Amounts] /\ h[Home] = b
      /\ \A u \in Tokens : b[u] = held[Home][u] + Only(Amps, Pol)[u]
      /\ \A x \in Holders \ {Home, Adapter} : h[x] = held[x]
  <2>1. a \in Amounts
    BY <1>0, <1>t, PlusIs, OnlyIs, TranchesAre
  <2>2. b \in Amounts /\ \A u \in Tokens : b[u] = held[Home][u] + Only(Amps, Pol)[u]
    BY <1>0, <1>t, PlusIs
  <2> HIDE DEF a, b
  <2> QED
    BY <1>0, <1>t, <2>1, <2>2
<1> HIDE DEF h, a, b
<1>1. /\ held' \in [Holders -> Amounts] /\ claims' \in [Vaults -> Amounts]
      /\ listed' \in [Vaults -> SUBSET Assets]
      /\ listed'[Home] = listed[Home] /\ \A w \in Vaults \ {Home} : listed'[w] = listed[w]
      /\ \A x \in Holders \ {Home} : held'[x] = h[x]
      /\ \A w \in Vaults, u \in Tokens : held'[w][u] + claims'[w][u] = h[w][u] + claims[w][u]
  <2> DEFINE swept == {u \in listed[Home] : ~Refuses(u, Home)}
  <2>2. /\ held' = Emptied(h, Home, swept) /\ claims' = Claimed(claims, h, Home, swept)
        /\ listed' = [listed EXCEPT ![Home] = listed[Home]]
    BY <1>a DEF SweepClean, Emptied, Claimed
  <2> HIDE DEF swept
  <2>3. /\ held' \in [Holders -> Amounts] /\ claims' \in [Vaults -> Amounts]
        /\ \A x \in Holders \ {Home} : held'[x] = h[x]
        /\ \A w \in Vaults, u \in Tokens : held'[w][u] + claims'[w][u] = h[w][u] + claims[w][u]
    BY <1>0, <1>b, <1>t, <2>2, SweepMoves
  <2>4. /\ listed' \in [Vaults -> SUBSET Assets]
        /\ listed'[Home] = listed[Home] /\ \A w \in Vaults \ {Home} : listed'[w] = listed[w]
    BY <1>0, <1>t, <2>2
  <2> QED
    BY <2>3, <2>4
<1> USE DEF policy, roles
<1>4. EstateIsListed'
  BY <1>1, <1>2, ListsGrow
<1>5. ShellHasNoRole'
  BY <1>2, RolesStand
<1>6. ShellIsEmpty' /\ residue' \in [Vaults -> Amounts]
  <2>1. \A w \in Vaults, u \in Tokens :
            held'[w][u] + claims'[w][u] + placed'[w][u]
                = held[w][u] + claims[w][u] + placed[w][u]
                      + IF w = Home THEN Only(Amps, Pol)[u] ELSE 0
    <3> SUFFICES ASSUME NEW w \in Vaults, NEW u \in Tokens
                 PROVE  held'[w][u] + claims'[w][u] + placed'[w][u]
                            = held[w][u] + claims[w][u] + placed[w][u]
                                  + IF w = Home THEN Only(Amps, Pol)[u] ELSE 0
      OBVIOUS
    <3>1. /\ held[w][u] \in Nat /\ claims[w][u] \in Nat /\ placed[w][u] \in Nat
          /\ Only(Amps, Pol)[u] \in Nat
      BY <1>0, BalancesAre
    <3>2. /\ w \in Holders /\ w # Adapter /\ placed' = placed
          /\ held'[w][u] + claims'[w][u] = h[w][u] + claims[w][u]
      BY <1>1, <1>2, PartsAre
    <3>3. CASE w = Home
      BY <1>b, <3>1, <3>2, <3>3
    <3>4. CASE w # Home
      <4>1. h[w] = held[w]
        BY <1>b, <3>2, <3>4
      <4> QED
        BY <3>1, <3>2, <3>4, <4>1
    <3> QED
      BY <3>3, <3>4
  <2> QED
    BY <1>0, <1>2, <1>a, <2>1, ShellsStand
<1>3. LifeTypeOK'
  BY <1>0, <1>1, <1>2, <1>a, <1>6 DEF LifeTypeOK
<1>7. RaiseInv'
  <2>1. \A c \in Currencies : held'[c] = held[c]
    BY <1>1, <1>b, PartsAre
  <2>2. ~settled /\ ~settled'
    BY <1>a, <1>2 DEF LifeInv, RaiseInv
  <2> QED
    BY <1>2, <1>a, <2>1, <2>2 DEF LifeInv, RaiseInv, NothingStays
<1> QED
  BY <1>3, <1>4, <1>5, <1>6, <1>7 DEF LifeInv

\* What genesisPlace hands to the sweep, and the list it sweeps.
Received(from, amounts) == [from EXCEPT ![Home][Amps] = from[Home][Amps] + amounts[Amps]]
Taken(amounts) ==
    [claims EXCEPT ![Home] = Plus(claims[Home], [amounts EXCEPT ![Amps] = 0])]
Known(amounts) ==
    listed[Home] \cup Registered \cup {c \in Currencies : amounts[c] > 0}

(* Opening gives Home's estate exactly what is handed in, and lists more.   *)
LEMMA OpeningMoves ==
    ASSUME LifeTypeOK, NEW from, from \in [Holders -> Amounts],
           NEW amounts, amounts \in Amounts, NEW swept,
           held' = Emptied(Received(from, amounts), Home, swept),
           claims' = Claimed(Taken(amounts), Received(from, amounts), Home, swept)
    PROVE  /\ held' \in [Holders -> Amounts] /\ claims' \in [Vaults -> Amounts]
           /\ \A x \in Holders \ {Home} : held'[x] = from[x]
           /\ \A w \in Vaults, u \in Tokens :
                  held'[w][u] + claims'[w][u]
                      = from[w][u] + claims[w][u] + IF w = Home THEN amounts[u] ELSE 0
<1> DEFINE h == Received(from, amounts)
           c == Taken(amounts)
           paid == [amounts EXCEPT ![Amps] = 0]
<1>0. /\ Home \in Vaults /\ Home \in Holders /\ Amps \in Tokens
      /\ from[Home] \in Amounts /\ claims \in [Vaults -> Amounts] /\ claims[Home] \in Amounts
      /\ \A w \in Vaults : w \in Holders
  BY PartsAre DEF LifeTypeOK
<1>1. paid \in Amounts /\ \A u \in Tokens : paid[u] = IF u = Amps THEN 0 ELSE amounts[u]
  BY DEF Amounts
<1>2. /\ h \in [Holders -> Amounts] /\ \A x \in Holders \ {Home} : h[x] = from[x]
      /\ \A u \in Tokens : h[Home][u] = from[Home][u] + IF u = Amps THEN amounts[u] ELSE 0
  <2> DEFINE row == [from[Home] EXCEPT ![Amps] = from[Home][Amps] + amounts[Amps]]
  <2>1. h = [from EXCEPT ![Home] = row]
    BY DEF Received
  <2>2. row \in Amounts
    BY <1>0 DEF Amounts
  <2>3. \A u \in Tokens : row[u] = from[Home][u] + IF u = Amps THEN amounts[u] ELSE 0
    BY <1>0 DEF Amounts
  <2> HIDE DEF row, h
  <2> QED
    BY <1>0, <2>1, <2>2, <2>3
<1>3. /\ c \in [Vaults -> Amounts] /\ \A w \in Vaults \ {Home} : c[w] = claims[w]
      /\ \A u \in Tokens : c[Home][u] = claims[Home][u] + IF u = Amps THEN 0 ELSE amounts[u]
  <2>1. c = [claims EXCEPT ![Home] = Plus(claims[Home], paid)]
    BY DEF Taken
  <2>2. /\ Plus(claims[Home], paid) \in Amounts
        /\ \A u \in Tokens : Plus(claims[Home], paid)[u] = claims[Home][u] + paid[u]
    BY <1>0, <1>1, PlusIs
  <2> HIDE DEF c, paid
  <2> QED
    BY <1>0, <1>1, <2>1, <2>2
<1> HIDE DEF h, c, paid
<1>4. /\ held' = Emptied(h, Home, swept) /\ claims' = Claimed(c, h, Home, swept)
  BY DEF h, c
<1>5. /\ held' \in [Holders -> Amounts] /\ claims' \in [Vaults -> Amounts]
      /\ \A x \in Holders \ {Home} : held'[x] = h[x]
      /\ \A w \in Vaults, u \in Tokens : held'[w][u] + claims'[w][u] = h[w][u] + c[w][u]
  BY <1>0, <1>2, <1>3, <1>4, SweepMoves
<1>6. \A w \in Vaults, u \in Tokens :
          h[w][u] + c[w][u] = from[w][u] + claims[w][u] + IF w = Home THEN amounts[u] ELSE 0
  <2> SUFFICES ASSUME NEW w \in Vaults, NEW u \in Tokens
               PROVE  h[w][u] + c[w][u]
                          = from[w][u] + claims[w][u] + IF w = Home THEN amounts[u] ELSE 0
    OBVIOUS
  <2>1. /\ from[w][u] \in Nat /\ claims[w][u] \in Nat /\ amounts[u] \in Nat
    BY <1>0, AmountsAre
  <2>2. CASE w = Home
    <3>1. CASE u = Amps
      BY <1>2, <1>3, <2>1, <2>2, <3>1
    <3>2. CASE u # Amps
      BY <1>2, <1>3, <2>1, <2>2, <3>2
    <3> QED
      BY <3>1, <3>2
  <2>3. CASE w # Home
    BY <1>0, <1>2, <1>3, <2>1, <2>3
  <2> QED
    BY <2>2, <2>3
<1> QED
  BY <1>2, <1>5, <1>6

(* The list of an opening is one of assets, and loses none.                 *)
LEMMA OpeningLists ==
    ASSUME LifeTypeOK, NEW amounts, listed' = [listed EXCEPT ![Home] = Known(amounts)]
    PROVE  /\ listed' \in [Vaults -> SUBSET Assets]
           /\ \A v \in Vaults : listed[v] \subseteq listed'[v]
<1>1. /\ Known(amounts) \in SUBSET Assets /\ listed[Home] \subseteq Known(amounts)
      /\ listed \in [Vaults -> SUBSET Assets] /\ Home \in Vaults
  BY PartsAre DEF LifeTypeOK, Known, Registered
<1> QED
  BY <1>1

LEMMA FoundersPlaceKeeps ==
    ASSUME LifeInv, NEW seed \in Seeds, FoundersPlace(seed)
    PROVE  LifeInv'
<1> DEFINE swept == {u \in Known(seed) : ~Refuses(u, Home)}
<1>0. LifeTypeOK /\ seed \in Amounts /\ held \in [Holders -> Amounts]
  BY BoundsAssumption DEF LifeInv, LifeTypeOK, Amounts
<1>a. /\ held' = Emptied(Received(held, seed), Home, swept)
      /\ claims' = Claimed(Taken(seed), Received(held, seed), Home, swept)
      /\ listed' = [listed EXCEPT ![Home] = Known(seed)]
      /\ minted /\ opened' = TRUE
      /\ Arrives(Home, seed)
  BY DEF FoundersPlace, GenesisPlace, SweepClean, Emptied, Claimed, Received, Taken, Known
<1>2. UNCHANGED <<now, arrivals, minted, created, settled, claimAt, policy, roles,
                  placed, denied, evacuated, behind>>
  BY DEF FoundersPlace
<1> HIDE DEF swept
<1>1. /\ held' \in [Holders -> Amounts] /\ claims' \in [Vaults -> Amounts]
      /\ \A x \in Holders \ {Home} : held'[x] = held[x]
      /\ \A w \in Vaults, u \in Tokens :
             held'[w][u] + claims'[w][u]
                 = held[w][u] + claims[w][u] + IF w = Home THEN seed[u] ELSE 0
  BY <1>0, <1>a, OpeningMoves
<1>c. /\ listed' \in [Vaults -> SUBSET Assets]
      /\ \A v \in Vaults : listed[v] \subseteq listed'[v]
  BY <1>0, <1>a, OpeningLists
<1> USE DEF policy, roles
<1>4. EstateIsListed'
  BY <1>c, <1>2, ListsGrow
<1>5. ShellHasNoRole'
  BY <1>2, RolesStand
<1>6. ShellIsEmpty' /\ residue' \in [Vaults -> Amounts]
  <2>1. \A w \in Vaults, u \in Tokens :
            held'[w][u] + claims'[w][u] + placed'[w][u]
                = held[w][u] + claims[w][u] + placed[w][u] + IF w = Home THEN seed[u] ELSE 0
    <3> SUFFICES ASSUME NEW w \in Vaults, NEW u \in Tokens
                 PROVE  held'[w][u] + claims'[w][u] + placed'[w][u]
                            = held[w][u] + claims[w][u] + placed[w][u]
                                  + IF w = Home THEN seed[u] ELSE 0
      OBVIOUS
    <3> DEFINE n == IF w = Home THEN seed[u] ELSE 0
    <3>1. /\ held[w][u] \in Nat /\ claims[w][u] \in Nat /\ placed[w][u] \in Nat /\ n \in Nat
      BY <1>0, BalancesAre, AmountsAre
    <3>2. held'[w][u] + claims'[w][u] = held[w][u] + claims[w][u] + n /\ placed' = placed
      BY <1>1, <1>2
    <3> HIDE DEF n
    <3>3. held'[w][u] + claims'[w][u] + placed'[w][u]
              = held[w][u] + claims[w][u] + placed[w][u] + n
      BY <3>1, <3>2
    <3> QED
      BY <3>3 DEF n
  <2> QED
    BY <1>0, <1>2, <1>a, <2>1, ShellsStand
<1>3. LifeTypeOK'
  BY <1>0, <1>1, <1>2, <1>a, <1>c, <1>6 DEF LifeTypeOK
<1>7. RaiseInv'
  BY <1>1, <1>2, RaiseStands, PartsAre
<1> QED
  BY <1>3, <1>4, <1>5, <1>6, <1>7 DEF LifeInv

LEMMA CreateAuctionsKeeps ==
    ASSUME LifeInv, NEW legs \in SUBSET Currencies, NEW sold \in [Currencies -> 0 .. Tranche],
           NEW at \in [Currencies -> now .. MaxTime], CreateAuctions(legs, sold, at)
    PROVE  LifeInv'
<1> DEFINE full == Cardinality(Currencies) * Tranche
           surplus == held[Adapter][Amps] - full
           part(x) == [None EXCEPT ![x] = sold[x], ![Amps] = Tranche - sold[x]]
           rest == [held[Adapter] EXCEPT ![Amps] = full - Cardinality(legs) * Tranche]
           more == Plus(held[Home], Only(Amps, surplus))
<1>0. /\ LifeTypeOK /\ held \in [Holders -> Amounts]
      /\ Home \in Vaults /\ Home \in Holders /\ Adapter \in Holders /\ Adapter # Home
      /\ Home \notin legs /\ Adapter \notin legs
      /\ held[Home] \in Amounts /\ held[Adapter] \in Amounts
      /\ Amps \in Tokens /\ Vaults \subseteq Holders
      /\ \A w \in Vaults : w \notin legs /\ w # Adapter
      /\ Currencies \subseteq Holders
  BY PartsAre DEF LifeInv, LifeTypeOK
<1>a. /\ held' = [h \in Holders |->
             CASE h \in legs -> Plus(held[h], part(h))
               [] h = Adapter -> rest
               [] h = Home -> more
               [] OTHER -> held[h]]
      /\ Arrives(Home, Only(Amps, surplus))
      /\ claimAt' = [c \in Currencies |-> IF c \in legs THEN at[c] ELSE 0]
      /\ created = {} /\ legs # {} /\ created' = legs
      /\ held[Adapter][Amps] >= full
  BY DEF CreateAuctions
<1>2. UNCHANGED <<now, arrivals, minted, opened, settled, policy, roles, listed,
                  claims, placed, denied, evacuated, behind>>
  BY DEF CreateAuctions
<1>s. /\ surplus \in Nat /\ full \in Nat /\ full # 0
      /\ full - Cardinality(legs) * Tranche \in Nat
      /\ Only(Amps, surplus) \in Amounts
      /\ \A u \in Tokens : Only(Amps, surplus)[u] = IF u = Amps THEN surplus ELSE 0
  <2>1. full \in Nat /\ full # 0 /\ full - Cardinality(legs) * Tranche \in Nat
    BY TranchesAre
  <2>2. held[Adapter][Amps] \in Nat
    BY <1>0, AmountsAre
  <2> HIDE DEF full
  <2>3. surplus \in Nat
    BY <1>a, <2>1, <2>2
  <2> HIDE DEF surplus
  <2> QED
    BY <1>0, <2>1, <2>3, OnlyIs
<1>m. /\ rest \in Amounts /\ more \in Amounts
      /\ \A u \in Tokens : more[u] = held[Home][u] + Only(Amps, surplus)[u]
      /\ \A x \in legs : Plus(held[x], part(x)) \in Amounts
  <2>1. rest \in Amounts
    <3> HIDE DEF full
    <3> QED
      BY <1>0, <1>s DEF Amounts
  <2>2. more \in Amounts /\ \A u \in Tokens : more[u] = held[Home][u] + Only(Amps, surplus)[u]
    <3> HIDE DEF surplus
    <3> QED
      BY <1>0, <1>s, PlusIs
  <2>3. ASSUME NEW x \in legs PROVE Plus(held[x], part(x)) \in Amounts
    <3>1. held[x] \in Amounts
      BY <1>0
    <3>2. sold[x] \in Nat /\ Tranche - sold[x] \in Nat
      BY LifecycleAssumption
    <3>3. part(x) \in Amounts
      BY <3>2, NoneIs DEF Amounts
    <3> QED
      BY <3>1, <3>3, PlusIs
  <2> QED
    BY <2>1, <2>2, <2>3
<1>1. /\ held' \in [Holders -> Amounts]
      /\ held'[Home] = more
      /\ \A x \in Holders : x \notin legs /\ x # Adapter /\ x # Home => held'[x] = held[x]
  <2> HIDE DEF part, rest, more
  <2> QED
    BY <1>0, <1>a, <1>m
<1> HIDE DEF full, surplus, part, rest, more
<1> USE DEF policy, roles
<1>4. EstateIsListed'
  BY <1>2 DEF LifeInv, EstateIsListed
<1>5. ShellHasNoRole'
  BY <1>2, RolesStand
<1>6. ShellIsEmpty' /\ residue' \in [Vaults -> Amounts]
  <2>1. \A w \in Vaults, u \in Tokens :
            held'[w][u] + claims'[w][u] + placed'[w][u]
                = held[w][u] + claims[w][u] + placed[w][u]
                      + IF w = Home THEN Only(Amps, surplus)[u] ELSE 0
    <3> SUFFICES ASSUME NEW w \in Vaults, NEW u \in Tokens
                 PROVE  held'[w][u] + claims'[w][u] + placed'[w][u]
                            = held[w][u] + claims[w][u] + placed[w][u]
                                  + IF w = Home THEN Only(Amps, surplus)[u] ELSE 0
      OBVIOUS
    <3>1. /\ held[w][u] \in Nat /\ claims[w][u] \in Nat /\ placed[w][u] \in Nat
          /\ Only(Amps, surplus)[u] \in Nat
      BY <1>0, <1>s, BalancesAre, AmountsAre
    <3>2. w \in Holders /\ w \notin legs /\ w # Adapter /\ placed' = placed /\ claims' = claims
      BY <1>0, <1>2
    <3>3. CASE w = Home
      BY <1>1, <1>m, <3>1, <3>2, <3>3
    <3>4. CASE w # Home
      BY <1>1, <3>1, <3>2, <3>4
    <3> QED
      BY <3>3, <3>4
  <2> QED
    BY <1>0, <1>2, <1>a, <1>s, <2>1, ShellsStand DEF surplus
<1>3. LifeTypeOK'
  <2>1. claimAt' \in [Currencies -> Nat]
    BY <1>0, <1>a DEF LifeTypeOK
  <2> QED
    BY <1>0, <1>1, <1>2, <1>a, <1>6, <2>1 DEF LifeTypeOK
<1>7. RaiseInv'
  <2>1. ~settled
    BY <1>a DEF LifeInv, RaiseInv
  <2>2. minted
    BY <1>a, <1>s, <1>0, AmountsAre DEF LifeInv, RaiseInv
  <2>3. \A c \in Currencies \ created', t \in Tokens : held'[c][t] = 0
    <3> SUFFICES ASSUME NEW c \in Currencies \ created', NEW t \in Tokens
                 PROVE  held'[c][t] = 0
      OBVIOUS
    <3>1. c \in Holders /\ c \notin legs /\ c # Adapter /\ c # Home /\ c \in Currencies \ created
      BY <1>0, <1>a, PartsAre
    <3>2. held[c][t] = 0
      BY <3>1 DEF LifeInv, RaiseInv
    <3> QED
      BY <1>1, <3>1, <3>2
  <2> QED
    BY <1>2, <1>a, <2>1, <2>2, <2>3 DEF RaiseInv, NothingStays
<1> QED
  BY <1>3, <1>4, <1>5, <1>6, <1>7 DEF LifeInv

(* What the adapter gets together is an amount.                             *)
LEMMA HarvestIs ==
    ASSUME LifeTypeOK
    PROVE  [t \in Tokens |-> held[Adapter][t]
                + SumFunctionOnSet([c \in created |-> Yield(c)[t]], created)] \in Amounts
<1> SUFFICES ASSUME NEW t \in Tokens
             PROVE  held[Adapter][t]
                        + SumFunctionOnSet([c \in created |-> Yield(c)[t]], created) \in Nat
  BY DEF Amounts
<1>1. held[Adapter][t] \in Nat
  BY BalancesAre, PartsAre
<1>2. IsFiniteSet(created) /\ created \subseteq Currencies
  BY PartsAssumption, FS_Subset DEF LifeTypeOK
<1>3. \A c \in created : [d \in created |-> Yield(d)[t]][c] \in Nat
  <2> SUFFICES ASSUME NEW c \in created PROVE Yield(c)[t] \in Nat
    OBVIOUS
  <2>1. held[c][t] \in Nat
    BY <1>2, BalancesAre, PartsAre
  <2> QED
    BY <2>1, NoneIs DEF Yield
<1> DEFINE f == [d \in created |-> Yield(d)[t]]
<1>4. SumFunctionOnSet(f, created) \in Nat
  <2> HIDE DEF f
  <2> QED
    BY <1>2, <1>3, SumNat DEF f
<1> QED
  BY <1>1, <1>4

LEMMA SettleKeeps ==
    ASSUME LifeInv, Settle
    PROVE  LifeInv'
<1> DEFINE got == [t \in Tokens |-> held[Adapter][t]
                      + SumFunctionOnSet([c \in created |-> Yield(c)[t]], created)]
           graduated == {c \in created : held[c][c] > 0}
           left == [h \in Holders |->
                      CASE h = Adapter -> None
                        [] h \in created -> [t \in Tokens |-> held[h][t] - Yield(h)[t]]
                        [] OTHER -> held[h]]
<1>0. /\ LifeTypeOK /\ held \in [Holders -> Amounts] /\ created \subseteq Currencies
      /\ Home \in Vaults /\ Home \in Holders /\ Adapter \in Holders /\ Adapter # Home
      /\ Home \notin created /\ Adapter \notin created
      /\ Vaults \subseteq Holders /\ Currencies \subseteq Holders
      /\ \A w \in Vaults : w \notin created /\ w # Adapter
  BY PartsAre DEF LifeInv, LifeTypeOK
<1>g. got \in Amounts
  BY <1>0, HarvestIs
<1>l. /\ left \in [Holders -> Amounts] /\ left[Adapter] = None
      /\ \A c \in created, t \in Tokens : left[c][t] = 0
      /\ \A x \in Holders : x # Adapter /\ x \notin created => left[x] = held[x]
  <2>1. \A c \in created : Claimable(c)
    BY DEF Settle
  <2>2. \A c \in created, t \in Tokens : held[c][t] - Yield(c)[t] = 0
    BY <1>0, <2>1, BalancesAre DEF Claimable, Yield
  <2>3. \A c \in created : [t \in Tokens |-> held[c][t] - Yield(c)[t]] \in Amounts
    BY <2>2 DEF Amounts
  <2>4. None \in Amounts
    BY NoneIs
  <2> QED
    BY <1>0, <2>2, <2>3, <2>4
<1>a. /\ settled' = TRUE /\ created # {}
      /\ Arrives(Home, got)
      /\ \/ /\ held' = [left EXCEPT ![Home] = Plus(left[Home], got)]
            /\ UNCHANGED <<opened, listed, claims>>
         \/ GenesisPlace(left, got)
  BY DEF Settle
<1>2. UNCHANGED <<now, arrivals, minted, created, claimAt, policy, roles, placed,
                  denied, evacuated, behind>>
  BY DEF Settle
<1>1. /\ held' \in [Holders -> Amounts] /\ claims' \in [Vaults -> Amounts]
      /\ \A x \in Holders \ {Home} : held'[x] = left[x]
      /\ \A w \in Vaults, u \in Tokens :
             held'[w][u] + claims'[w][u]
                 = left[w][u] + claims[w][u] + IF w = Home THEN got[u] ELSE 0
      /\ listed' \in [Vaults -> SUBSET Assets]
      /\ \A v \in Vaults : listed[v] \subseteq listed'[v]
      /\ opened' \in BOOLEAN
  <2>1. CASE /\ held' = [left EXCEPT ![Home] = Plus(left[Home], got)]
             /\ UNCHANGED <<opened, listed, claims>>
    <3> HIDE DEF got, left
    <3>1. left[Home] \in Amounts
      BY <1>0, <1>l
    <3>2. /\ Plus(left[Home], got) \in Amounts
          /\ \A u \in Tokens : Plus(left[Home], got)[u] = left[Home][u] + got[u]
      BY <1>g, <3>1, PlusIs
    <3>3. /\ held' \in [Holders -> Amounts] /\ held'[Home] = Plus(left[Home], got)
          /\ \A x \in Holders \ {Home} : held'[x] = left[x]
      BY <1>0, <1>l, <2>1, <3>2
    <3>4. \A w \in Vaults, u \in Tokens :
              held'[w][u] + claims'[w][u]
                  = left[w][u] + claims[w][u] + IF w = Home THEN got[u] ELSE 0
      <4> SUFFICES ASSUME NEW w \in Vaults, NEW u \in Tokens
                   PROVE  held'[w][u] + claims'[w][u]
                              = left[w][u] + claims[w][u] + IF w = Home THEN got[u] ELSE 0
        OBVIOUS
      <4>1. /\ left[w] \in Amounts /\ left[w][u] \in Nat /\ claims[w][u] \in Nat
            /\ got[u] \in Nat /\ w \in Holders /\ claims' = claims
        BY <1>0, <1>g, <1>l, <2>1, AmountsAre, BalancesAre
      <4>2. CASE w = Home
        BY <3>2, <3>3, <4>1, <4>2
      <4>3. CASE w # Home
        BY <3>3, <4>1, <4>3
      <4> QED
        BY <4>2, <4>3
    <3> QED
      BY <1>0, <2>1, <3>3, <3>4 DEF LifeTypeOK
  <2>2. CASE GenesisPlace(left, got)
    <3> HIDE DEF got, left
    <3> DEFINE swept == {u \in Known(got) : ~Refuses(u, Home)}
    <3>1. /\ held' = Emptied(Received(left, got), Home, swept)
          /\ claims' = Claimed(Taken(got), Received(left, got), Home, swept)
          /\ listed' = [listed EXCEPT ![Home] = Known(got)]
          /\ opened' = TRUE
      BY <2>2 DEF GenesisPlace, SweepClean, Emptied, Claimed, Received, Taken, Known
    <3> HIDE DEF swept
    <3>2. /\ held' \in [Holders -> Amounts] /\ claims' \in [Vaults -> Amounts]
          /\ \A x \in Holders \ {Home} : held'[x] = left[x]
          /\ \A w \in Vaults, u \in Tokens :
                 held'[w][u] + claims'[w][u]
                     = left[w][u] + claims[w][u] + IF w = Home THEN got[u] ELSE 0
      BY <1>0, <1>g, <1>l, <3>1, OpeningMoves
    <3>3. /\ listed' \in [Vaults -> SUBSET Assets]
          /\ \A v \in Vaults : listed[v] \subseteq listed'[v]
      BY <1>0, <3>1, OpeningLists
    <3> QED
      BY <3>1, <3>2, <3>3
  <2> QED
    BY <1>a, <2>1, <2>2
<1> HIDE DEF got, left
<1> USE DEF policy, roles
<1>4. EstateIsListed'
  BY <1>1, <1>2, ListsGrow
<1>5. ShellHasNoRole'
  BY <1>2, RolesStand
<1>6. ShellIsEmpty' /\ residue' \in [Vaults -> Amounts]
  <2>1. \A w \in Vaults, u \in Tokens :
            held'[w][u] + claims'[w][u] + placed'[w][u]
                = held[w][u] + claims[w][u] + placed[w][u] + IF w = Home THEN got[u] ELSE 0
    <3> SUFFICES ASSUME NEW w \in Vaults, NEW u \in Tokens
                 PROVE  held'[w][u] + claims'[w][u] + placed'[w][u]
                            = held[w][u] + claims[w][u] + placed[w][u]
                                  + IF w = Home THEN got[u] ELSE 0
      OBVIOUS
    <3> DEFINE n == IF w = Home THEN got[u] ELSE 0
    <3>1. /\ held[w][u] \in Nat /\ claims[w][u] \in Nat /\ placed[w][u] \in Nat /\ n \in Nat
      BY <1>0, <1>g, BalancesAre, AmountsAre
    <3>2. left[w] = held[w] /\ placed' = placed
      BY <1>0, <1>l, <1>2
    <3>3. held'[w][u] + claims'[w][u] = held[w][u] + claims[w][u] + n
      BY <1>1, <3>2
    <3> HIDE DEF n
    <3>4. held'[w][u] + claims'[w][u] + placed'[w][u]
              = held[w][u] + claims[w][u] + placed[w][u] + n
      BY <3>1, <3>2, <3>3
    <3> QED
      BY <3>4 DEF n
  <2> QED
    BY <1>2, <1>a, <1>g, <2>1, ShellsStand
<1>3. LifeTypeOK'
  BY <1>0, <1>1, <1>2, <1>a, <1>6 DEF LifeTypeOK
<1>7. RaiseInv'
  <2>1. \A t \in Tokens : held'[Adapter][t] = 0
    BY <1>0, <1>1, <1>l, NoneIs
  <2>2. \A c \in Currencies, t \in Tokens : held'[c][t] = 0
    <3> SUFFICES ASSUME NEW c \in Currencies, NEW t \in Tokens PROVE held'[c][t] = 0
      OBVIOUS
    <3>1. c \in Holders /\ c # Home /\ c # Adapter /\ held'[c] = left[c]
      BY <1>0, <1>1, PartsAre
    <3>2. CASE c \in created
      BY <1>l, <3>1, <3>2
    <3>3. CASE c \notin created
      BY <1>l, <3>1, <3>3 DEF LifeInv, RaiseInv
    <3> QED
      BY <3>2, <3>3
  <2>3. minted
    BY <1>a DEF LifeInv, RaiseInv
  <2> QED
    BY <1>2, <1>a, <2>1, <2>2, <2>3 DEF RaiseInv, NothingStays
<1> QED
  BY <1>3, <1>4, <1>5, <1>6, <1>7 DEF LifeInv

LEMMA EmergencyMigrateKeeps ==
    ASSUME LifeInv, NEW v \in Vaults, NEW hookOk \in BOOLEAN, EmergencyMigrate(v, hookOk)
    PROVE  LifeInv'
<1> DEFINE s == standby[v]
           moves == listed[v] \cup {Amps}
           stuck == {t \in moves : Refuses(t, v) \/ Refuses(t, s)}
           ownHeld == [held[v] EXCEPT ![Amps] = held[v][Amps] + placed[v][Amps]]
           ownClaims == [t \in Tokens |-> claims[v][t] + IF t = Amps THEN 0 ELSE placed[v][t]]
           idle == [t \in Tokens |-> IF t \in moves \ stuck THEN ownHeld[t] ELSE 0]
           claim == [t \in Tokens |-> IF t \in moves THEN ownClaims[t] ELSE 0]
           keepHeld == [t \in Tokens |-> ownHeld[t] - idle[t]]
           keepClaims == [t \in Tokens |-> ownClaims[t] - claim[t]]
           left == [t \in Tokens |->
                      IF t \notin moves THEN held[v][t] + claims[v][t]
                      ELSE IF Refuses(t, v) \/ Refuses(t, s) THEN held[v][t] ELSE 0]
<1>0. /\ LifeTypeOK /\ s \in Vaults /\ s # v
      /\ held \in [Holders -> Amounts] /\ claims \in [Vaults -> Amounts]
      /\ placed \in [Vaults -> Amounts] /\ residue \in [Vaults -> Amounts]
      /\ held[v] \in Amounts /\ claims[v] \in Amounts /\ placed[v] \in Amounts
      /\ held[s] \in Amounts /\ claims[s] \in Amounts
      /\ v \in Holders /\ s \in Holders /\ Amps \in Tokens
      /\ wired[v] \subseteq Wirable /\ evacuated \subseteq Vaults
      /\ Vaults \subseteq Holders
  BY PartsAre DEF EmergencyMigrate, LifeInv, LifeTypeOK, EstateIsListed
<1>a. /\ held' = [held EXCEPT ![v] = keepHeld, ![s] = Plus(held[s], idle)]
      /\ claims' = [claims EXCEPT ![v] = keepClaims, ![s] = Plus(claims[s], claim)]
      /\ placed' = [placed EXCEPT ![v] = None]
  <2>1. Evacuate(v, s, listed[v])
    BY DEF EmergencyMigrate
  <2> QED
    BY <1>0, <2>1 DEF Evacuate, Unwound
<1>b. /\ Handover(v, s, hookOk)
      /\ evacuated' = (evacuated \ {s}) \cup {v}
      /\ residue' = [residue EXCEPT ![v] = left]
      /\ behind' = behind \cup (Wirable \ wired[v])
  BY DEF EmergencyMigrate
<1>2. UNCHANGED <<now, arrivals, launch, policy, poolAt, listed, denied>>
  BY DEF EmergencyMigrate
<1>n. \A t \in Tokens : held[v][t] \in Nat /\ claims[v][t] \in Nat /\ placed[v][t] \in Nat
  BY <1>0, AmountsAre
<1>m. /\ \A t \in Tokens : ownHeld[t] = held[v][t] + IF t = Amps THEN placed[v][t] ELSE 0
      /\ \A t \in Tokens : ownHeld[t] \in Nat /\ ownClaims[t] \in Nat
  BY <1>0, <1>n DEF Amounts
<1>k. /\ idle \in Amounts /\ claim \in Amounts /\ keepHeld \in Amounts /\ keepClaims \in Amounts
      /\ left \in Amounts
  <2>1. \A t \in Tokens : idle[t] \in Nat /\ claim[t] \in Nat
    BY <1>m
  <2>2. \A t \in Tokens : keepHeld[t] \in Nat /\ keepClaims[t] \in Nat
    BY <1>m
  <2>3. \A t \in Tokens : left[t] \in Nat
    BY <1>n
  <2> QED
    BY <2>1, <2>2, <2>3 DEF Amounts
\* The shell keeps what an issuer refuses to move, and what was never listed.
<1>e. \A t \in Tokens : keepHeld[t] + keepClaims[t] = left[t]
  <2> SUFFICES ASSUME NEW t \in Tokens PROVE keepHeld[t] + keepClaims[t] = left[t]
    OBVIOUS
  <2>1. CASE t \notin moves
    <3>1. t # Amps /\ t \in Assets /\ t \notin listed[v]
      BY <2>1, PartsAre DEF Tokens
    <3>2. placed[v][t] = 0
      BY <3>1, <1>0 DEF LifeInv, EstateIsListed
    <3>3. idle[t] = 0 /\ claim[t] = 0 /\ left[t] = held[v][t] + claims[v][t]
      BY <2>1
    <3>4. ownHeld[t] = held[v][t] /\ ownClaims[t] = claims[v][t]
      BY <3>1, <3>2, <1>m, <1>n
    <3>5. keepHeld[t] = held[v][t] /\ keepClaims[t] = claims[v][t]
      BY <3>3, <3>4, <1>n
    <3> QED
      BY <3>3, <3>5
  <2>2. CASE t \in moves /\ t \notin stuck
    <3>1. keepHeld[t] = ownHeld[t] - ownHeld[t] /\ keepClaims[t] = ownClaims[t] - ownClaims[t]
      BY <2>2
    <3>2. left[t] = 0
      BY <2>2
    <3> QED
      BY <1>m, <3>1, <3>2
  <2>3. CASE t \in stuck
    <3>1. t # Amps
      BY <2>3, <1>0, PartsAre DEF Refuses, LifeTypeOK
    <3>2. keepHeld[t] = ownHeld[t] - 0 /\ keepClaims[t] = ownClaims[t] - ownClaims[t]
      BY <2>3
    <3>3. left[t] = held[v][t]
      BY <2>3
    <3> QED
      BY <1>m, <1>n, <3>1, <3>2, <3>3
  <2> QED
    BY <2>1, <2>2, <2>3
<1> HIDE DEF stuck, ownHeld, ownClaims, idle, claim, keepHeld, keepClaims, left, moves, s
<1>c. /\ Plus(held[s], idle) \in Amounts /\ Plus(claims[s], claim) \in Amounts
  BY <1>0, <1>k, PlusIs
<1>1. /\ held' \in [Holders -> Amounts] /\ claims' \in [Vaults -> Amounts]
      /\ placed' \in [Vaults -> Amounts] /\ residue' \in [Vaults -> Amounts]
      /\ held'[v] = keepHeld /\ claims'[v] = keepClaims /\ placed'[v] = None
      /\ residue'[v] = left
      /\ \A x \in Holders : x # v /\ x # s => held'[x] = held[x]
      /\ \A w \in Vaults : w # v /\ w # s => claims'[w] = claims[w]
      /\ \A w \in Vaults : w # v => placed'[w] = placed[w] /\ residue'[w] = residue[w]
  <2>1. /\ held' \in [Holders -> Amounts] /\ held'[v] = keepHeld
        /\ \A x \in Holders : x # v /\ x # s => held'[x] = held[x]
    BY <1>0, <1>a, <1>c, <1>k
  <2>2. /\ claims' \in [Vaults -> Amounts] /\ claims'[v] = keepClaims
        /\ \A w \in Vaults : w # v /\ w # s => claims'[w] = claims[w]
    BY <1>0, <1>a, <1>c, <1>k
  <2>3. /\ placed' \in [Vaults -> Amounts] /\ placed'[v] = None
        /\ \A w \in Vaults : w # v => placed'[w] = placed[w]
    BY <1>0, <1>a, NoneIs
  <2>4. /\ residue' \in [Vaults -> Amounts] /\ residue'[v] = left
        /\ \A w \in Vaults : w # v => residue'[w] = residue[w]
    BY <1>0, <1>b, <1>k
  <2> QED
    BY <2>1, <2>2, <2>3, <2>4
<1>h. /\ vaultOf' \in [Roles -> Vaults]
      /\ \A r \in Roles : vaultOf'[r] = s \/ vaultOf'[r] = vaultOf[r]
      /\ \A r \in {"amps"} \cup wired[v] : vaultOf'[r] = s
  <2>1. vaultOf \in [Roles -> Vaults] /\ {"amps"} \cup wired[v] \subseteq Roles
    BY <1>0, PartsAre DEF LifeTypeOK
  <2> QED
    BY <1>0, <1>b, <2>1 DEF Handover
<1> USE DEF launch, policy
<1>3. LifeTypeOK'
  <2>1. evacuated' \in SUBSET Vaults /\ behind' \in SUBSET Wirable
    BY <1>0, <1>b DEF LifeTypeOK
  <2> QED
    BY <1>0, <1>1, <1>2, <1>h, <2>1 DEF LifeTypeOK
<1>4. EstateIsListed'
  <2>1. \A w \in Vaults, t \in Assets : placed'[w][t] # 0 => placed[w][t] # 0
    <3> SUFFICES ASSUME NEW w \in Vaults, NEW t \in Assets, placed'[w][t] # 0
                 PROVE  placed[w][t] # 0
      OBVIOUS
    <3>1. w # v
      BY <1>1, NoneIs, PartsAre
    <3> QED
      BY <1>1, <3>1
  <2> QED
    BY <1>2, <2>1 DEF LifeInv, EstateIsListed
<1>5. ShellHasNoRole'
  <2> SUFFICES ASSUME NEW w \in evacuated', NEW r \in Roles \ {"hook"}, vaultOf'[r] = w
               PROVE  r \in behind'
    BY DEF ShellHasNoRole
  <2>1. w # s
    BY <1>0, <1>b
  <2>2. vaultOf[r] = w /\ r \notin {"amps"} \cup wired[v]
    BY <1>h, <2>1
  <2>3. CASE w = v
    <3>1. r \in Wirable \ wired[v]
      BY <2>2 DEF Roles
    <3> QED
      BY <1>b, <3>1
  <2>4. CASE w # v
    <3>1. w \in evacuated
      BY <1>b, <2>4
    <3> QED
      BY <1>b, <2>2, <3>1 DEF LifeInv, ShellHasNoRole
  <2> QED
    BY <2>3, <2>4
<1>6. ShellIsEmpty'
  <2> SUFFICES ASSUME NEW w \in evacuated', NEW t \in Tokens
               PROVE  held'[w][t] + claims'[w][t] + placed'[w][t] = residue'[w][t]
    BY DEF ShellIsEmpty
  <2>1. w # s
    BY <1>0, <1>b
  <2>2. CASE w = v
    <3>1. /\ held'[w][t] = keepHeld[t] /\ claims'[w][t] = keepClaims[t]
          /\ placed'[w][t] = 0 /\ residue'[w][t] = left[t]
      BY <1>1, <2>2, NoneIs
    <3>2. keepHeld[t] \in Nat /\ keepClaims[t] \in Nat
      BY <1>k, AmountsAre
    <3> QED
      BY <1>e, <3>1, <3>2
  <2>3. CASE w # v
    <3>1. w \in evacuated /\ w \in Vaults /\ w \in Holders
      BY <1>0, <1>b, <2>3
    <3>2. /\ held'[w] = held[w] /\ claims'[w] = claims[w]
          /\ placed'[w] = placed[w] /\ residue'[w] = residue[w]
      BY <1>1, <2>1, <2>3, <3>1
    <3>3. held[w][t] + claims[w][t] + placed[w][t] = residue[w][t]
      BY <3>1 DEF LifeInv, ShellIsEmpty
    <3> QED
      BY <3>2, <3>3
  <2> QED
    BY <2>2, <2>3
<1>7. RaiseInv'
  <2>1. \A h \in {Adapter} \cup Currencies : held'[h] = held[h]
    <3> SUFFICES ASSUME NEW h \in {Adapter} \cup Currencies PROVE held'[h] = held[h]
      OBVIOUS
    <3>1. h \in Holders /\ h \notin Vaults
      BY PartsAre
    <3> QED
      BY <1>0, <1>1, <3>1
  <2> QED
    BY <1>2, <2>1, RaiseStands
<1> QED
  BY <1>3, <1>4, <1>5, <1>6, <1>7 DEF LifeInv

---------------------------------------------------------------------------
(* The theorems.                                                            *)

LEMMA LifeStarts ==
    ASSUME LifeInit
    PROVE  LifeInv
<1> USE DEF LifeInit
<1>0. /\ Home \in Vaults /\ None \in Amounts /\ \A t \in Tokens : None[t] = 0
      /\ \A h \in Holders : held[h] = None
      /\ Adapter \in Holders /\ Currencies \subseteq Holders /\ Amps \in Tokens
      /\ Assets \subseteq Tokens /\ Nobody \notin Vaults
  BY PartsAre, NoneIs, LifecycleAssumption
<1>1. LifeTypeOK
  BY <1>0 DEF LifeTypeOK
<1>2. EstateIsListed
  BY <1>0 DEF EstateIsListed
<1>3. ShellHasNoRole /\ ShellIsEmpty
  BY DEF ShellHasNoRole, ShellIsEmpty
<1>4. RaiseInv
  BY <1>0 DEF RaiseInv, NothingStays
<1> QED
  BY <1>1, <1>2, <1>3, <1>4 DEF LifeInv

LEMMA LifeSteps ==
    ASSUME LifeInv, [LifeNext]_lifeVars
    PROVE  LifeInv'
<1>1. ASSUME NEW v \in Vaults, NEW r \in Wirable, SetPolicyPointer(v, r) PROVE LifeInv'
  BY <1>1, QuietKeeps
<1>2. CASE GenesisMint
  BY <1>2, GenesisMintKeeps
<1>3. ASSUME NEW seed \in Seeds, FoundersPlace(seed) PROVE LifeInv'
  BY <1>3, FoundersPlaceKeeps
<1>4. ASSUME NEW legs \in SUBSET Currencies, NEW sold \in [Currencies -> 0 .. Tranche],
             NEW at \in [Currencies -> now .. MaxTime], CreateAuctions(legs, sold, at)
      PROVE  LifeInv'
  BY <1>4, CreateAuctionsKeeps
<1>5. CASE Settle
  BY <1>5, SettleKeeps
<1>6. ASSUME NEW v \in Vaults, Touch(v) PROVE LifeInv'
  BY <1>6, TouchKeeps
<1>7. ASSUME NEW v \in Vaults, NEW t \in Assets, DepositBonded(v, t) PROVE LifeInv'
  BY <1>7, DepositBondedKeeps
<1>8. ASSUME NEW v \in Vaults, NEW t \in Pooled, InitializePool(v, t) PROVE LifeInv'
  BY <1>8, InitializePoolKeeps
<1>9. ASSUME NEW v \in Vaults, NEW t \in Pooled, NEW above \in BOOLEAN, Place(v, t, above)
      PROVE  LifeInv'
  BY <1>9, PlaceKeeps
<1>10. ASSUME NEW v \in Vaults, NEW s \in Vaults, <<v, s>> \in Standbys, SetStandbyVault(v, s)
       PROVE  LifeInv'
  BY <1>10, QuietKeeps
<1>11. ASSUME NEW v \in Vaults, NEW hookOk \in BOOLEAN, EmergencyMigrate(v, hookOk)
       PROVE  LifeInv'
  BY <1>11, EmergencyMigrateKeeps
<1>12. ASSUME NEW h \in Holders, NEW t \in Tokens, <<h, t>> \in Gifts, Donate(h, t)
       PROVE  LifeInv'
  BY <1>12, DonateKeeps
<1>13. ASSUME NEW v \in Vaults, NEW t \in Stocks, Deny(v, t) PROVE LifeInv'
  BY <1>13, QuietKeeps
<1>14. CASE Wait
  BY <1>14, QuietKeeps
<1>15. CASE UNCHANGED lifeVars
  BY <1>15, QuietKeeps
<1> QED
  BY <1>1, <1>2, <1>3, <1>4, <1>5, <1>6, <1>7, <1>8, <1>9, <1>10, <1>11, <1>12, <1>13,
     <1>14, <1>15 DEF LifeNext

(* The invariant of the vault's life: every balance is a natural number,    *)
(* what a vault has placed it has listed, a shell is empty and a settled    *)
(* adapter too (AmpsVault.sol, AmpsGenesis.sol).                            *)
THEOREM LifeInvariant == LifeSpec => []LifeInv
<1>1. LifeInit => LifeInv
  BY LifeStarts
<1>2. LifeInv /\ [LifeNext]_lifeVars => LifeInv'
  BY LifeSteps
<1> QED
  BY <1>1, <1>2, PTL DEF LifeSpec

(* A migrated vault keeps no role whose pointer it had, and of what it had  *)
(* nothing but what an issuer refused to move or came later, for any number *)
(* of vaults, assets and roles, whatever else happens before, between and   *)
(* after migrations (AmpsVault.sol:1391, VaultNavLib.sol:580).              *)
THEOREM ShellsKeepNothing == LifeSpec => []ShellKeepsNothing
<1>1. LifeInv => ShellKeepsNothing
  BY DEF LifeInv, ShellHasNoRole, ShellIsEmpty, ShellKeepsNothing
<1> QED
  BY <1>1, LifeInvariant, PTL

(* Once it has settled, neither the adapter nor a leg holds anything, in    *)
(* whatever order the legs end, fail, or the vault is opened or migrated    *)
(* (AmpsGenesis.sol:288).                                                   *)
THEOREM SettledIsSwept == LifeSpec => []NothingStays
<1>1. LifeInv => NothingStays
  BY DEF LifeInv, RaiseInv
<1> QED
  BY <1>1, LifeInvariant, PTL

---------------------------------------------------------------------------
(* The purse.                                                              *)

(* The history paidBy only grows up to now, and stays flat before 1.        *)
HistoryGrows ==
    /\ paidBy[0] = 0
    /\ \A s, t \in 0 .. now : s <= t => paidBy[s] <= paidBy[t]

(* While no payment was ever made there is none in the history either.      *)
NothingBeforeTheFirst == windowStart = 0 => paidBy[now] = 0

(* Once a window is over nothing was paid, or the payment had opened the    *)
(* next one.                                                                *)
SilentSinceExpiry ==
    windowStart # 0 /\ now >= windowStart + Day =>
        paidBy[now] = paidBy[windowStart + Day - 1]

(* The open window has spent at most one ceiling ...                        *)
WindowWithinCeiling == spentWindow <= highCeiling

(* ... and so had the day before it opened: an earlier window can reach     *)
(* into that day only with payments of one window.                          *)
DayBeforeWindowWithinCeiling ==
    windowStart # 0 =>
        paidBy[windowStart - 1]
            - paidBy[IF windowStart >= Day THEN windowStart - Day ELSE 0] <= highCeiling

IInv ==
    /\ TypeOK
    /\ HistoryGrows
    /\ NothingBeforeTheFirst
    /\ SilentSinceExpiry
    /\ WindowCountsItsPayments
    /\ WindowWithinCeiling
    /\ DayBeforeWindowWithinCeiling
    /\ ceiling <= highCeiling

(* The constants of the clock and the units, wherever arithmetic needs them.*)
USE ClockAssumption

(* A quote is a natural, the pot holds it, and the budget covers its USD    *)
(* worth: flooring to raw units (the division of _quote) never overcharges. *)
LEMMA QuoteBounds ==
    ASSUME TypeOK, NEW work \in Works, NEW gas \in Gases
    PROVE  /\ Quote(work, gas) \in Nat
           /\ Quote(work, gas) <= balance
           /\ Quote(work, gas) * Scale \in Nat
           /\ Quote(work, gas) * Scale <= BudgetLeft
           /\ BudgetLeft \in Nat
<1> DEFINE gross == tip + (work * chip) \div BPS
           capped == Lesser(gross, gas * gasCap)
           budgeted == Lesser(capped, BudgetLeft)
<1>1. BudgetLeft \in Nat
  BY BandAssumption DEF BudgetLeft, SpentLast24h, TypeOK
<1>2. gross \in Nat /\ gas * gasCap \in Nat
  <2>1. work * chip \in Nat
    BY InputAssumption DEF TypeOK
  <2>2. (work * chip) \div BPS \in Nat
    BY <2>1
  <2>3. tip \in Nat
    BY BandAssumption DEF TypeOK
  <2>4. gas \in Nat /\ gasCap \in Nat
    BY BandAssumption, InputAssumption DEF TypeOK
  <2>. QED BY <2>2, <2>3, <2>4
<1>3. budgeted \in Nat /\ budgeted <= BudgetLeft
  BY <1>1, <1>2 DEF Lesser
<1> HIDE DEF budgeted
<1>4. budgeted \div Scale \in Nat /\ (budgeted \div Scale) * Scale <= budgeted
  BY <1>3
<1> DEFINE q == budgeted \div Scale
<1> HIDE DEF q
<1>5. Quote(work, gas) = IF work < chost THEN 0 ELSE Lesser(q, balance)
  BY DEF Quote, budgeted, capped, gross, q
<1>6. q \in Nat /\ q * Scale <= BudgetLeft
  BY <1>1, <1>3, <1>4 DEF q
<1>7. \A n \in Nat : n <= q => n * Scale \in Nat /\ n * Scale <= q * Scale
  BY <1>6
<1>8. Quote(work, gas) \in Nat /\ Quote(work, gas) <= q /\ Quote(work, gas) <= balance
  BY <1>5, <1>6 DEF Lesser, TypeOK
<1>. QED BY <1>1, <1>6, <1>7, <1>8

LEMMA InitIInv == Init => IInv
<1> SUFFICES ASSUME Init PROVE IInv
  OBVIOUS
<1> USE DEF Init
<1>1. TypeOK
  BY BandAssumption DEF TypeOK, Times
<1>2. \A t \in 0 .. now : paidBy[t] = 0
  BY DEF Times
<1>3. HistoryGrows /\ NothingBeforeTheFirst
  BY <1>2 DEF HistoryGrows, NothingBeforeTheFirst
<1>4. /\ WindowCountsItsPayments /\ WindowWithinCeiling
      /\ DayBeforeWindowWithinCeiling /\ SilentSinceExpiry
  BY DEF SilentSinceExpiry, WindowCountsItsPayments, WindowWithinCeiling, DayBeforeWindowWithinCeiling
<1>. QED BY <1>1, <1>3, <1>4 DEF IInv

(* A payment keeps the invariant: in an open window the accumulator grows   *)
(* under the ceiling; a new window closes the old one, whose payments are   *)
(* then the only ones of the day before.                                    *)
LEMMA PayIInv ==
    ASSUME IInv, NEW c \in Callers, NEW work \in Works, NEW gas \in Gases, Pay(c, work, gas)
    PROVE  IInv'
<1> DEFINE raw == Quote(work, gas)
           usd == raw * Scale
<1>1. /\ raw \in Nat /\ raw <= balance /\ usd \in Nat /\ usd <= BudgetLeft
  BY QuoteBounds DEF IInv
<1>2. UNCHANGED <<now, params, vault>>
  BY DEF Pay
<1>3. CASE raw = 0
  <2>1. UNCHANGED vars
    BY <1>2, <1>3 DEF Pay, vars, window
  <2>. QED
    BY <2>1 DEF IInv, TypeOK, HistoryGrows, NothingBeforeTheFirst,
       SilentSinceExpiry, WindowCountsItsPayments, WindowWithinCeiling, DayBeforeWindowWithinCeiling,
       vars, params, window
<1>4. CASE raw # 0
  <2>1. /\ ChargeWindow(usd)
        /\ balance' = balance - raw
        /\ paidBy' = [paidBy EXCEPT ![now] = @ + usd]
    BY <1>4 DEF Pay
  <2> HIDE DEF raw
  <2> DEFINE u == usd
  <2>a. /\ ChargeWindow(u) /\ paidBy' = [paidBy EXCEPT ![now] = @ + u]
        /\ u \in Nat /\ u <= BudgetLeft /\ u = raw * Scale
    BY <1>1, <2>1
  <2> HIDE DEF u
  <2>2. now' = now /\ ceiling' = ceiling /\ highCeiling' = highCeiling
        /\ tip' = tip /\ chost' = chost /\ chip' = chip /\ gasCap' = gasCap
        /\ vault' = vault
    BY <1>2 DEF params
  <2>3. u \in Nat /\ u <= BudgetLeft
    BY <2>a
  <2>4. /\ now \in 1 .. MaxTime /\ spentWindow \in Nat /\ windowStart \in 0 .. now
        /\ paidBy \in [0 .. MaxTime -> Nat] /\ ceiling <= highCeiling
        /\ ceiling \in Nat /\ highCeiling \in Nat /\ balance \in Nat
    BY BandAssumption DEF IInv, TypeOK, Times
  <2>5. /\ paidBy' \in [0 .. MaxTime -> Nat]
        /\ paidBy'[now] = paidBy[now] + u
        /\ \A t \in 0 .. MaxTime : t # now => paidBy'[t] = paidBy[t]
    BY <2>a, <2>3, <2>4
  <2>6. /\ windowStart' \in 1 .. now /\ spentWindow' \in Nat
        /\ spentWindow' <= highCeiling
    <3>1. CASE WindowExpired
      BY <2>a, <2>3, <2>4, <3>1 DEF ChargeWindow, BudgetLeft, SpentLast24h
    <3>2. CASE ~WindowExpired
      <4>1. windowStart' = windowStart /\ spentWindow' = spentWindow + u /\ windowStart # 0
        BY <2>a, <3>2 DEF ChargeWindow, WindowExpired
      <4>2. u <= IF ceiling >= spentWindow THEN ceiling - spentWindow ELSE 0
        BY <2>3, <3>2 DEF BudgetLeft, SpentLast24h
      <4>3. spentWindow <= highCeiling
        BY DEF IInv, WindowWithinCeiling
      <4>4. spentWindow + u <= highCeiling /\ spentWindow + u \in Nat
        BY <2>3, <2>4, <4>2, <4>3
      <4>. QED BY <2>4, <4>1, <4>4
    <3>. QED BY <3>1, <3>2
  <2>7. TypeOK'
    BY <1>1, <2>1, <2>2, <2>4, <2>5, <2>6 DEF IInv, TypeOK, Times
  <2>9. HistoryGrows'
    <3>1. paidBy[0] = 0 /\ \A s, t \in 0 .. now : s <= t => paidBy[s] <= paidBy[t]
      BY DEF IInv, HistoryGrows
    <3>2. paidBy'[0] = 0
      BY <2>4, <2>5, <3>1
    <3>3. ASSUME NEW s \in 0 .. now, NEW t \in 0 .. now, s <= t
          PROVE  paidBy'[s] <= paidBy'[t]
      <4>1. s \in 0 .. MaxTime /\ t \in 0 .. MaxTime /\ paidBy[s] \in Nat /\ paidBy[t] \in Nat
        BY <2>4
      <4>2. paidBy[s] <= paidBy[t]
        BY <3>1, <3>3
      <4>3. CASE t = now
        BY <2>3, <2>5, <4>1, <4>2, <4>3
      <4>4. CASE t # now
        BY <2>4, <2>5, <3>3, <4>1, <4>2, <4>4
      <4>. QED BY <4>3, <4>4
    <3>. QED BY <2>2, <3>2, <3>3 DEF HistoryGrows
  <2>10. NothingBeforeTheFirst' /\ SilentSinceExpiry'
    <3>1. ~(now >= windowStart' + Day)
      <4>1. ChargeWindow(u)
        BY <2>a
      <4>2. CASE WindowExpired
        BY <2>4, <4>1, <4>2 DEF ChargeWindow
      <4>3. CASE ~WindowExpired
        BY <2>4, <4>1, <4>3 DEF ChargeWindow, WindowExpired
      <4>. QED BY <4>2, <4>3
    <3>2. windowStart' \in Nat /\ windowStart' # 0
      BY <2>6
    <3>3. now' = now
      BY <2>2
    <3>. QED BY <3>1, <3>2, <3>3, Zenon DEF NothingBeforeTheFirst, SilentSinceExpiry
  <2>11. WindowCountsItsPayments'
    <3>1. CASE WindowExpired
      <4>1. windowStart' = now /\ spentWindow' = u
        BY <2>a, <3>1 DEF ChargeWindow
      <4>2. paidBy[now - 1] = paidBy[now]
        <5>1. CASE windowStart = 0
          <6>1. paidBy[now] = 0 /\ paidBy[now - 1] <= paidBy[now] /\ paidBy[now - 1] \in Nat
            BY <2>4, <5>1 DEF IInv, NothingBeforeTheFirst, HistoryGrows
          <6>. QED BY <6>1
        <5>2. CASE windowStart # 0
          <6>1. now >= windowStart + Day /\ Day \in Nat \ {0}
            BY <2>4, <3>1, <5>2 DEF WindowExpired
          <6>2. paidBy[now] = paidBy[windowStart + Day - 1]
            BY <2>4, <5>2, <6>1 DEF IInv, SilentSinceExpiry
          <6>3. windowStart + Day - 1 \in 0 .. now - 1 /\ now - 1 \in 0 .. now
            BY <2>4, <6>1
          <6>4. paidBy[windowStart + Day - 1] <= paidBy[now - 1] /\ paidBy[now - 1] <= paidBy[now]
            BY <2>4, <6>3 DEF IInv, HistoryGrows
          <6>5. paidBy[now] \in Nat /\ paidBy[now - 1] \in Nat
            BY <2>4, <6>3
          <6>. QED BY <6>2, <6>4, <6>5
        <5>. QED BY <5>1, <5>2
      <4>. QED BY <2>2, <2>3, <2>4, <2>5, <4>1, <4>2 DEF WindowCountsItsPayments
    <3>2. CASE ~WindowExpired
      <4>1. windowStart' = windowStart /\ spentWindow' = spentWindow + u /\ windowStart # 0
        BY <2>a, <3>2 DEF ChargeWindow, WindowExpired
      <4>2. windowStart - 1 \in 0 .. MaxTime /\ windowStart - 1 # now
        BY <2>4, <4>1
      <4>3. paidBy'[windowStart - 1] = paidBy[windowStart - 1]
        BY <2>5, <4>2
      <4>4. spentWindow = paidBy[now] - paidBy[windowStart - 1]
        BY <4>1 DEF IInv, WindowCountsItsPayments
      <4>5. paidBy[now] \in Nat /\ paidBy[windowStart - 1] \in Nat
        BY <2>4, <4>2
      <4>. QED BY <2>2, <2>3, <2>4, <2>5, <4>1, <4>3, <4>4, <4>5 DEF WindowCountsItsPayments
    <3>. QED BY <3>1, <3>2
  <2>12. DayBeforeWindowWithinCeiling'
    <3>1. \A s, t \in 0 .. now : s <= t => paidBy[s] <= paidBy[t]
      BY DEF IInv, HistoryGrows
    <3>2. Day \in Nat \ {0}
      OBVIOUS
    <3>3. CASE WindowExpired
      <4>1. windowStart' = now
        BY <2>1, <3>3 DEF ChargeWindow
      <4> DEFINE dayAgo == IF now >= Day THEN now - Day ELSE 0
      <4>2. dayAgo \in 0 .. now - 1 /\ now - 1 \in 0 .. MaxTime /\ now # 0
        BY <2>4, <3>2
      <4>3. paidBy[now - 1] - paidBy[dayAgo] <= highCeiling
        <5>1. CASE windowStart = 0
          <6>1. paidBy[now] = 0
            BY <5>1 DEF IInv, NothingBeforeTheFirst
          <6>2. paidBy[now - 1] <= 0 /\ paidBy[now - 1] \in Nat /\ paidBy[dayAgo] \in Nat
            BY <2>4, <3>1, <4>2, <6>1
          <6>. QED BY <2>4, <6>2
        <5>2. CASE windowStart # 0
          <6>1. now >= windowStart + Day
            BY <2>4, <3>2, <3>3, <5>2 DEF WindowExpired
          <6>2. dayAgo >= windowStart - 1 /\ windowStart - 1 \in 0 .. now
            BY <2>4, <3>2, <5>2, <6>1
          <6>3. paidBy[windowStart - 1] <= paidBy[dayAgo] /\ paidBy[now - 1] <= paidBy[now]
            BY <2>4, <3>1, <4>2, <6>2
          <6>4. spentWindow = paidBy[now] - paidBy[windowStart - 1] /\ spentWindow <= highCeiling
            BY <5>2 DEF IInv, WindowCountsItsPayments, WindowWithinCeiling
          <6>5. /\ paidBy[now] \in Nat /\ paidBy[now - 1] \in Nat
                /\ paidBy[dayAgo] \in Nat /\ paidBy[windowStart - 1] \in Nat
            BY <2>4, <4>2, <6>2
          <6> HIDE DEF dayAgo
          <6>. QED BY <2>4, <6>3, <6>4, <6>5
        <5>. QED BY <5>1, <5>2
      <4>4. paidBy'[now - 1] = paidBy[now - 1] /\ paidBy'[dayAgo] = paidBy[dayAgo]
        BY <2>4, <2>5, <4>2
      <4>. QED BY <2>2, <4>1, <4>3, <4>4 DEF DayBeforeWindowWithinCeiling
    <3>4. CASE ~WindowExpired
      <4>1. windowStart' = windowStart /\ windowStart # 0
        BY <2>1, <3>4 DEF ChargeWindow, WindowExpired
      <4> DEFINE dayAgo == IF windowStart >= Day THEN windowStart - Day ELSE 0
      <4>2. /\ dayAgo \in 0 .. now - 1 /\ windowStart - 1 \in 0 .. now - 1
        BY <2>4, <3>2, <4>1
      <4>3. /\ paidBy'[dayAgo] = paidBy[dayAgo]
            /\ paidBy'[windowStart - 1] = paidBy[windowStart - 1]
        BY <2>4, <2>5, <4>2
      <4>. QED BY <2>2, <4>1, <4>3 DEF IInv, DayBeforeWindowWithinCeiling
    <3>. QED BY <3>3, <3>4
  <2>. QED BY <2>2, <2>4, <2>6, <2>7, <2>9, <2>10, <2>11, <2>12 DEF IInv, WindowWithinCeiling
<1>. QED BY <1>3, <1>4

(* Money in, money out and the setters leave the clock, the window and the  *)
(* history alone; only the ceiling's own setter touches the high mark.      *)
LEMMA QuietIInv ==
    ASSUME IInv,
           \/ \E a \in Fundings : Fund(a) \/ Sweep(a)
           \/ \E c, n \in Callers : SetVault(c, n)
           \/ \E v \in 0 .. TipMax + 1 : SetTip(v)
           \/ \E v \in 0 .. ChipMax + 1 : SetChip(v)
           \/ \E v \in 0 .. ChostMax + 1 : SetChost(v)
           \/ \E v \in 0 .. GasCapMax + 1 : SetGasCap(v)
           \/ \E v \in 0 .. CeilingMax + 1 : SetCeiling(v)
    PROVE  IInv'
<1>1. UNCHANGED <<now, window, paidBy>>
  BY DEF Fund, Sweep, SetVault, SetTip, SetChip, SetChost, SetGasCap, SetCeiling, params
<1> DEFINE Kept == TypeOK' /\ highCeiling' >= highCeiling /\ ceiling' <= highCeiling'
<1>2. Kept
  <2> USE BandAssumption, InputAssumption DEF IInv, TypeOK, Times
  <2>1. ASSUME NEW a \in Fundings, Fund(a) PROVE Kept
    BY <2>1 DEF Fund, params, window
  <2>8. ASSUME NEW a \in Fundings, Sweep(a) PROVE Kept
    BY <2>8 DEF Sweep, params, window
  <2>2. ASSUME NEW c \in Callers, NEW n \in Callers, SetVault(c, n) PROVE Kept
    BY <2>2 DEF SetVault, params, window
  <2>3. ASSUME NEW v \in 0 .. TipMax + 1, SetTip(v) PROVE Kept
    BY <2>3 DEF SetTip, window
  <2>4. ASSUME NEW v \in 0 .. ChipMax + 1, SetChip(v) PROVE Kept
    BY <2>4 DEF SetChip, window
  <2>5. ASSUME NEW v \in 0 .. ChostMax + 1, SetChost(v) PROVE Kept
    BY <2>5 DEF SetChost, window
  <2>6. ASSUME NEW v \in 0 .. GasCapMax + 1, SetGasCap(v) PROVE Kept
    BY <2>6 DEF SetGasCap, window
  <2>7. ASSUME NEW v \in 0 .. CeilingMax + 1, SetCeiling(v) PROVE Kept
    BY <2>7 DEF SetCeiling, window
  <2>. QED BY <2>1, <2>2, <2>3, <2>4, <2>5, <2>6, <2>7, <2>8
<1>4. HistoryGrows' /\ NothingBeforeTheFirst' /\ SilentSinceExpiry' /\ WindowCountsItsPayments'
  BY <1>1 DEF IInv, HistoryGrows, NothingBeforeTheFirst, SilentSinceExpiry,
     WindowCountsItsPayments, window
<1>5. WindowWithinCeiling'
  BY <1>1, <1>2 DEF IInv, TypeOK, WindowWithinCeiling, window
<1>6. DayBeforeWindowWithinCeiling'
  <2> SUFFICES ASSUME windowStart # 0
               PROVE  paidBy[windowStart - 1]
                        - paidBy[IF windowStart >= Day THEN windowStart - Day ELSE 0]
                        <= highCeiling'
    BY <1>1 DEF DayBeforeWindowWithinCeiling, window
  <2> DEFINE dayAgo == IF windowStart >= Day THEN windowStart - Day ELSE 0
  <2>1. dayAgo \in Times /\ windowStart - 1 \in Times
    BY DEF IInv, TypeOK, Times
  <2>2. paidBy[dayAgo] \in Nat /\ paidBy[windowStart - 1] \in Nat
    BY <2>1 DEF IInv, TypeOK
  <2>3. paidBy[windowStart - 1] - paidBy[dayAgo] <= highCeiling
    BY DEF IInv, DayBeforeWindowWithinCeiling
  <2>4. highCeiling \in Int /\ highCeiling' \in Int
    BY <1>2 DEF IInv, TypeOK
  <2> HIDE DEF dayAgo
  <2>5. paidBy[windowStart - 1] - paidBy[dayAgo] <= highCeiling'
    BY <1>2, <2>2, <2>3, <2>4
  <2>. QED BY <2>5 DEF dayAgo
<1>. QED BY <1>2, <1>4, <1>5, <1>6 DEF IInv

LEMMA TickIInv == ASSUME IInv, Tick PROVE IInv'
<1>1. /\ now' = now + 1 /\ now + 1 \in Times /\ now \in Times
      /\ paidBy \in [Times -> Nat]
      /\ windowStart \in 0 .. now
  BY DEF IInv, TypeOK, Times, Tick
<1>2. UNCHANGED <<balance, params, window, vault>>
  BY DEF Tick
<1>3. /\ paidBy' \in [Times -> Nat]
      /\ paidBy'[now + 1] = paidBy[now]
      /\ \A t \in Times : t # now + 1 => paidBy'[t] = paidBy[t]
  BY <1>1 DEF Tick
<1>4. TypeOK'
  BY <1>1, <1>2, <1>3 DEF IInv, TypeOK, Times, params, window
<1>9. SilentSinceExpiry'
  <2> SUFFICES ASSUME windowStart # 0, now + 1 >= windowStart + Day
               PROVE  paidBy'[now + 1] = paidBy'[windowStart + Day - 1]
    <3>1. windowStart' = windowStart
      BY <1>2 DEF window
    <3>2. now' = now + 1
      BY <1>1
    <3>. QED BY <3>1, <3>2, Zenon DEF SilentSinceExpiry
  <2>1. /\ windowStart + Day - 1 \in Times /\ windowStart + Day - 1 # now + 1
        /\ Day \in Nat \ {0}
    BY <1>1 DEF Times
  <2>2. paidBy'[windowStart + Day - 1] = paidBy[windowStart + Day - 1]
    BY <1>3, <2>1
  <2>3. CASE now >= windowStart + Day
    BY <1>3, <2>2, <2>3 DEF IInv, SilentSinceExpiry
  <2>4. CASE ~(now >= windowStart + Day)
    <3>1. windowStart + Day - 1 = now
      BY <1>1, <2>1, <2>4 DEF Times
    <3>. QED BY <1>3, <2>2, <3>1
  <2>. QED BY <2>3, <2>4
<1>5. NothingBeforeTheFirst'
  BY <1>1, <1>2, <1>3 DEF IInv, NothingBeforeTheFirst, window
<1>6. HistoryGrows'
  <2>1. paidBy'[0] = 0
    BY <1>1, <1>3 DEF IInv, TypeOK, HistoryGrows, Times
  <2>2. ASSUME NEW s \in 0 .. now + 1, NEW t \in 0 .. now + 1, s <= t
        PROVE  paidBy'[s] <= paidBy'[t]
    <3>1. \A i, j \in 0 .. now : i <= j => paidBy[i] <= paidBy[j]
      BY DEF IInv, HistoryGrows
    <3>2. CASE t = now + 1 /\ s = now + 1
      BY <1>1, <1>3, <3>2
    <3>3. CASE t = now + 1 /\ s # now + 1
      BY <1>1, <1>3, <2>2, <3>1, <3>3 DEF Times
    <3>4. CASE t # now + 1
      BY <1>1, <1>3, <2>2, <3>1, <3>4 DEF Times
    <3>. QED BY <3>2, <3>3, <3>4
  <2>. QED BY <1>1, <2>1, <2>2 DEF HistoryGrows
<1>7. WindowCountsItsPayments' /\ DayBeforeWindowWithinCeiling'
  <2>1. windowStart' = windowStart /\ spentWindow' = spentWindow /\ highCeiling' = highCeiling
    BY <1>2 DEF window, params
  <2>2. \A t \in 0 .. now : t \in Times /\ paidBy'[t] = paidBy[t]
    BY <1>1, <1>3 DEF Times
  <2>3. WindowCountsItsPayments'
    <3> SUFFICES ASSUME windowStart # 0
                 PROVE  spentWindow = paidBy'[now + 1] - paidBy'[windowStart - 1]
      BY <1>1, <2>1 DEF WindowCountsItsPayments
    <3>1. windowStart - 1 \in 0 .. now
      BY <1>1 DEF Times
    <3>2. spentWindow = paidBy[now] - paidBy[windowStart - 1]
      BY DEF IInv, WindowCountsItsPayments
    <3>. QED BY <1>3, <2>2, <3>1, <3>2
  <2>4. DayBeforeWindowWithinCeiling'
    <3> SUFFICES ASSUME windowStart # 0
                 PROVE  paidBy'[windowStart - 1]
                          - paidBy'[IF windowStart >= Day THEN windowStart - Day ELSE 0]
                          <= highCeiling
      BY <2>1 DEF DayBeforeWindowWithinCeiling
    <3> DEFINE dayAgo == IF windowStart >= Day THEN windowStart - Day ELSE 0
    <3>1. dayAgo \in 0 .. now /\ windowStart - 1 \in 0 .. now
      BY <1>1 DEF Times
    <3>2. paidBy[windowStart - 1] - paidBy[dayAgo] <= highCeiling
      BY DEF IInv, DayBeforeWindowWithinCeiling
    <3>. QED BY <2>2, <3>1, <3>2
  <2>. QED BY <2>3, <2>4
<1>8. WindowWithinCeiling' /\ ceiling' <= highCeiling'
  BY <1>2 DEF IInv, WindowWithinCeiling, window, params
<1>. QED BY <1>4, <1>5, <1>6, <1>7, <1>8, <1>9 DEF IInv

(* The inductive invariant, hence the types, the ledger and the window.     *)
THEOREM PurseInvariant == Spec => []IInv
<1>1. IInv /\ [Next]_vars => IInv'
  <2> SUFFICES ASSUME IInv, [Next]_vars PROVE IInv'
    OBVIOUS
  <2>1. CASE \E c \in Callers, w \in Works, g \in Gases : Pay(c, w, g)
    BY <2>1, PayIInv
  <2>2. CASE Tick
    BY <2>2, TickIInv
  <2>3. CASE UNCHANGED vars
    BY <2>3 DEF IInv, TypeOK, HistoryGrows, NothingBeforeTheFirst,
       SilentSinceExpiry, WindowCountsItsPayments, WindowWithinCeiling, DayBeforeWindowWithinCeiling,
       vars, params, window
  <2>. QED BY <2>1, <2>2, <2>3, QuietIInv DEF Next
<1>. QED BY InitIInv, <1>1, PTL DEF Spec

(* BountyPot.sol:41-46 for every parameter: however payments, ceilings and  *)
(* the clock interleave, no 24-hour interval pays more than two ceilings.   *)
THEOREM TwoCeilingsADay == Spec => []NoDayPaysTwoCeilings
<1>1. IInv => NoDayPaysTwoCeilings
  <2> SUFFICES ASSUME IInv PROVE NoDayPaysTwoCeilings
    OBVIOUS
  <2> DEFINE dayAgo == IF now >= Day THEN now - Day ELSE 0
  <2>1. /\ now \in 1 .. MaxTime /\ windowStart \in 0 .. now /\ Day \in Nat \ {0}
        /\ paidBy \in [0 .. MaxTime -> Nat] /\ highCeiling \in Nat
    BY BandAssumption DEF IInv, TypeOK, Times
  <2>2. dayAgo \in 0 .. now /\ paidBy[dayAgo] \in Nat /\ paidBy[now] \in Nat
    BY <2>1
  <2>3. \A s, t \in 0 .. now : s <= t => paidBy[s] <= paidBy[t]
    BY DEF IInv, HistoryGrows
  <2>4. CASE windowStart = 0
    BY <2>1, <2>2, <2>4 DEF IInv, NothingBeforeTheFirst, NoDayPaysTwoCeilings, PaidInTrailingDay
  <2>5. CASE windowStart # 0
    <3> DEFINE opening == windowStart - 1
               before == IF windowStart >= Day THEN windowStart - Day ELSE 0
    <3>1. opening \in 0 .. now /\ before \in 0 .. now /\ before <= dayAgo
      BY <2>1, <2>5
    <3>2. paidBy[now] - paidBy[opening] <= highCeiling
      BY <2>5 DEF IInv, WindowCountsItsPayments, WindowWithinCeiling
    <3>3. paidBy[opening] - paidBy[before] <= highCeiling
      BY <2>5 DEF IInv, DayBeforeWindowWithinCeiling
    <3>4. paidBy[before] <= paidBy[dayAgo]
      BY <2>2, <2>3, <3>1
    <3>5. paidBy[opening] \in Nat /\ paidBy[before] \in Nat
      BY <2>1, <3>1
    <3> HIDE DEF dayAgo, opening, before
    <3>6. paidBy[now] - paidBy[dayAgo] <= 2 * highCeiling
      BY <2>1, <2>2, <3>2, <3>3, <3>4, <3>5
    <3>. QED BY <3>6 DEF dayAgo, NoDayPaysTwoCeilings, PaidInTrailingDay
  <2>. QED BY <2>4, <2>5
<1>. QED BY <1>1, PurseInvariant, PTL

(* WindowCountsItsPayments: the figure the ceiling is kept on is the sum of *)
(* what left the pot since the window opened, for every band, clock and     *)
(* input, through expiry, reopening and a change of vault.                  *)
THEOREM ChargedForWhatLeft == Spec => []WindowCountsItsPayments
<1>1. IInv => WindowCountsItsPayments
  BY DEF IInv
<1>. QED BY <1>1, PurseInvariant, PTL
=============================================================================
