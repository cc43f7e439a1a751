----------------------------- MODULE Lifecycle -----------------------------
(***************************************************************************)
(* The vault's life around the protocol's: set-once wiring, the two-step   *)
(* genesis with the auctions between the steps (AmpsGenesis), opening, and *)
(* the emergency migration to a standby, leg by leg and role by role.      *)
(*                                                                         *)
(* A holder's balances are amounts of tokens.  A vault holds tokens idle   *)
(* (held), as claims on the PoolManager (claims) and in its ladders        *)
(* (placed).  A leg of the auction is named by the currency it sells for.  *)
(* The standby is another AmpsVault, wired by the same timelock; a genesis *)
(* of its own, which would need an adapter of its own, is left out.        *)
(***************************************************************************)
EXTENDS Clock, Integers, FiniteSets, Functions

CONSTANTS
    Vaults, Home,        \* the vaults, and the one the adapter was built for
    Nobody,              \* the zero address
    Stocks, Currencies,  \* constituents, and the auctions' two currencies
    Mute,                \* constituents that refuse without saying so (a pause)
    Pooled,              \* bound: tokens that get a pool
    Links,               \* bound: the <<vault, contract>> that may be wired
    Standbys,            \* bound: the <<vault, another vault>> that may be registered
    Gifts, Seeds,        \* bounds: <<holder, token>> donated, founders' seeds
    Amps, Adapter,
    Tranche, Pol,        \* AMPS of one leg, and the vault's own share of S0
    StandbyDelay,        \* TIMELOCK_STANDBY_SECONDS
    Wirable,             \* of the contracts a vault points at
    MaxArrivals          \* bound: donations and bonds

Assets == Stocks \cup Currencies
Tokens == Assets \cup {Amps}
Holders == Vaults \cup {Adapter} \cup Currencies
Roles == Wirable \cup {"amps", "hook"}

ASSUME LifecycleAssumption ==
    /\ Home \in Vaults /\ Nobody \notin Vaults
    /\ Tranche \in Nat \ {0} /\ Pol \in Nat
    /\ StandbyDelay \in Nat /\ MaxTime \in Nat /\ MaxArrivals \in Nat

\* Tokens, vaults and contracts are different things; amounts are amounts; and
\* no vault is its own standby.
ASSUME PartsAssumption ==
    /\ Amps \notin Assets
    /\ Vaults \cap Currencies = {} /\ Adapter \notin Vaults \cup Currencies
    /\ Wirable \cap {"amps", "hook"} = {}
    /\ IsFiniteSet(Currencies) /\ Currencies # {}

ASSUME BoundsAssumption ==
    /\ Pooled \subseteq Assets
    /\ Links \subseteq Vaults \X Wirable
    /\ Standbys \subseteq Vaults \X Vaults /\ \A s \in Standbys : s[1] # s[2]
    /\ Gifts \subseteq (Vaults \cup {Adapter}) \X Tokens
    /\ Seeds \subseteq [Tokens -> Nat]

VARIABLES
    arrivals,
    wired,               \* vault -> set-once pointers that are set
    minted, opened,      \* Home's two genesis latches
    created, settled,    \* the adapter: legs created, and its latch
    claimAt,             \* leg -> the later of endBlock and claimBlock
    standby, readyAt,    \* vault -> its standby, and when that matures
    vaultOf,             \* role -> the vault that contract answers to
    poolAt,              \* token -> the vault that opened its pool
    listed,              \* vault -> _assets
    held, claims, placed,
    denied,              \* <<vault, stock>>: the issuer lets no balance move
    evacuated, residue, behind  \* history: shells, what each may still have,
                                \* and roles whose pointer was not set

launch == <<minted, opened, created, settled, claimAt>>
policy == <<wired, standby, readyAt>>
roles == <<vaultOf, poolAt>>
estate == <<listed, held, claims, placed>>
history == <<evacuated, residue, behind>>
lifeVars == <<now, arrivals, launch, policy, roles, estate, denied, history>>

None == [t \in Tokens |-> 0]
Only(t, n) == [None EXCEPT ![t] = n]
Plus(f, g) == [t \in Tokens |-> f[t] + g[t]]

Registered == {t \in Assets : poolAt[t] # Nobody}
Refuses(t, v) == <<v, t>> \in denied

LifeInit ==
    /\ now = 0 /\ arrivals = 0
    /\ wired = [v \in Vaults |-> {}]
    /\ minted = FALSE /\ opened = FALSE /\ settled = FALSE
    /\ created = {} /\ claimAt = [c \in Currencies |-> 0]
    /\ standby = [v \in Vaults |-> Nobody] /\ readyAt = [v \in Vaults |-> 0]
    /\ vaultOf = [r \in Roles |-> Home]
    /\ poolAt = [t \in Assets |-> Nobody]
    /\ listed = [v \in Vaults |-> {}]
    /\ held = [h \in Holders |-> None]
    /\ claims = [v \in Vaults |-> None] /\ placed = [v \in Vaults |-> None]
    /\ denied = {}
    /\ evacuated = {} /\ residue = [v \in Vaults |-> None] /\ behind = {}

----------------------------------------------------------------------------
(* Custody *)

\* Everything idle a vault has listed becomes a claim, unless it will not move.
SweepClean(v, list, h, c) ==
    LET swept == {t \in list : ~Refuses(t, v)}
    IN  /\ held' = [h EXCEPT ![v] = [t \in Tokens |-> IF t \in swept THEN 0 ELSE @[t]]]
        /\ claims' = [c EXCEPT ![v] =
                [t \in Tokens |-> @[t] + IF t \in swept THEN h[v][t] ELSE 0]]
        /\ listed' = [listed EXCEPT ![v] = list]

\* History only: what reaches a shell after it was evacuated is not its fault.
Arrives(h, amounts) ==
    residue' = IF h \in evacuated
                 THEN [residue EXCEPT ![h] = Plus(@, amounts)] ELSE residue

Touch(v) ==
    /\ v = Home /\ opened
    /\ SweepClean(v, listed[v], held, claims)
    /\ UNCHANGED <<now, arrivals, launch, policy, roles, placed, denied, history>>

\* A bond: collateral in as a claim, AMPS minted against it.  Both calls of the
\* shell must reach the vault that may mint.
DepositBonded(v, t) ==
    /\ arrivals < MaxArrivals /\ arrivals' = arrivals + 1
    /\ v = Home /\ opened
    /\ "bonds" \in wired[v] /\ vaultOf["bonds"] = v /\ vaultOf["amps"] = v
    /\ SweepClean(v, listed[v] \cup {t}, held,
                  [claims EXCEPT ![v] = Plus(@, Only(t, 1))])
    /\ Arrives(v, Only(t, 1))
    /\ UNCHANGED <<now, launch, policy, roles, placed, denied, evacuated, behind>>

InitializePool(v, t) ==
    /\ "registry" \in wired[v]
    /\ vaultOf["registry"] = v /\ vaultOf["hook"] = v
    /\ poolAt[t] = Nobody
    /\ poolAt' = [poolAt EXCEPT ![t] = v]
    /\ SweepClean(v, listed[v] \cup {t}, held, claims)
    /\ UNCHANGED <<now, arrivals, launch, policy, vaultOf, placed, denied, history>>

\* The whole of one side goes into the ladder of t: claims as bids, idle AMPS
\* as asks.
Place(v, t, above) ==
    /\ v = Home /\ opened /\ poolAt[t] = v /\ vaultOf["hook"] = v
    /\ LET side == IF above THEN Amps ELSE t
           n == IF above THEN held[v][Amps] ELSE claims[v][t]
       IN  /\ n > 0
           /\ placed' = [placed EXCEPT ![v][side] = @ + n]
           /\ SweepClean(v, listed[v],
                  IF above THEN [held EXCEPT ![v][Amps] = 0] ELSE held,
                  IF above THEN claims ELSE [claims EXCEPT ![v][t] = 0])
    /\ UNCHANGED <<now, arrivals, launch, policy, roles, denied, history>>

----------------------------------------------------------------------------
(* Wiring and genesis *)

SetPolicyPointer(v, r) ==
    /\ ~(v = Home /\ opened)
    /\ wired' = [wired EXCEPT ![v] = @ \cup {r}]
    /\ UNCHANGED <<now, arrivals, launch, standby, readyAt, roles, estate, denied, history>>

\* The auctions' tranche to the adapter, the vault's share to itself.  The team's
\* tranche leaves the model.
GenesisMint ==
    /\ ~minted /\ minted' = TRUE
    /\ "registry" \in wired[Home] /\ vaultOf["amps"] = Home
    /\ SweepClean(Home, listed[Home],
          [held EXCEPT ![Adapter] = Plus(@, Only(Amps, Cardinality(Currencies) * Tranche)),
                       ![Home] = Plus(@, Only(Amps, Pol))], claims)
    /\ Arrives(Home, Only(Amps, Pol))
    /\ UNCHANGED <<now, arrivals, opened, created, settled, claimAt, policy, roles,
                   placed, denied, evacuated, behind>>

\* Opening: the registry's assets are listed, the proceeds come in as claims and
\* the unsold AMPS as inventory.
GenesisPlace(from, amounts) ==
    /\ minted /\ ~opened /\ opened' = TRUE
    /\ SweepClean(Home,
          listed[Home] \cup Registered \cup {c \in Currencies : amounts[c] > 0},
          [from EXCEPT ![Home][Amps] = @ + amounts[Amps]],
          [claims EXCEPT ![Home] = Plus(@, [amounts EXCEPT ![Amps] = 0])])

\* The timelock opens with the founders' seed.
FoundersPlace(seed) ==
    /\ GenesisPlace(held, seed)
    /\ Arrives(Home, seed)
    /\ UNCHANGED <<now, arrivals, minted, created, settled, claimAt, policy, roles,
                   placed, denied, evacuated, behind>>

----------------------------------------------------------------------------
(* The adapter *)

\* A leg holds from the start what it will pay out: the currency bid for what it
\* sells, nothing if it does not graduate, and the part of the tranche unsold.
\* What the adapter has above the tranche goes to the vault, and so does a
\* disabled leg's share, at the settlement.
CreateAuctions(legs, sold, at) ==
    /\ created = {} /\ legs # {} /\ created' = legs
    /\ held[Adapter][Amps] >= Cardinality(Currencies) * Tranche
    /\ claimAt' = [c \in Currencies |-> IF c \in legs THEN at[c] ELSE 0]
    /\ LET full == Cardinality(Currencies) * Tranche
           surplus == held[Adapter][Amps] - full
       IN  /\ held' = [h \in Holders |->
                 CASE h \in legs -> Plus(held[h], [None EXCEPT ![h] = sold[h], ![Amps] = Tranche - sold[h]])
                   [] h = Adapter -> [held[h] EXCEPT ![Amps] = full - Cardinality(legs) * Tranche]
                   [] h = Home -> Plus(held[h], Only(Amps, surplus))
                   [] OTHER -> held[h]]
           /\ Arrives(Home, Only(Amps, surplus))
    /\ UNCHANGED <<now, arrivals, minted, opened, settled, policy, roles, listed,
                   claims, placed, denied, evacuated, behind>>

Claimable_Unasked(c) == c \in created   \* mutant: the end of bidding is enough
Claimable(c) == now >= claimAt[c]

\* An auction answers a sweep before claiming opens with nothing.
Yield(c) == IF now >= claimAt[c] THEN held[c] ELSE None

Settle_AlwaysOpens ==                   \* mutant: it insists on opening the vault
    /\ ~settled /\ settled' = TRUE /\ created # {}
    /\ \A c \in created : Claimable(c)
    /\ LET got == [t \in Tokens |-> held[Adapter][t] + SumFunctionOnSet([c \in created |-> Yield(c)[t]], created)]
           left == [h \in Holders |-> IF h \in created \cup {Adapter} THEN None ELSE held[h]]
       IN  GenesisPlace(left, got) /\ Arrives(Home, got)
    /\ UNCHANGED <<now, arrivals, minted, created, claimAt, policy, roles, placed,
                   denied, evacuated, behind>>

\* One shot: harvest both legs, then open the vault with what came, or, if the
\* vault is open already or nothing graduated, just send it there.  It ends in
\* the assertion that nothing stayed.
Settle ==
    /\ ~settled /\ settled' = TRUE /\ created # {}
    /\ \A c \in created : Claimable(c)
    /\ LET got == [t \in Tokens |-> held[Adapter][t] + SumFunctionOnSet([c \in created |-> Yield(c)[t]], created)]
           graduated == {c \in created : held[c][c] > 0}
           left == [h \in Holders |->
                      CASE h = Adapter -> None
                        [] h \in created -> [t \in Tokens |-> held[h][t] - Yield(h)[t]]
                        [] OTHER -> held[h]]
       IN  /\ IF graduated = {} \/ opened
                THEN /\ held' = [left EXCEPT ![Home] = Plus(@, got)]
                     /\ UNCHANGED <<opened, listed, claims>>
                ELSE GenesisPlace(left, got)
           /\ Arrives(Home, got)
    /\ UNCHANGED <<now, arrivals, minted, created, claimAt, policy, roles, placed,
                   denied, evacuated, behind>>

----------------------------------------------------------------------------
(* Migration *)

SetStandbyVault(v, s) ==
    /\ standby' = [standby EXCEPT ![v] = s]
    /\ readyAt' = [readyAt EXCEPT ![v] = now + StandbyDelay]
    /\ UNCHANGED <<now, arrivals, launch, wired, roles, estate, denied, history>>

\* One constituent says it has blocked the vault, or two will not move.
MigrationPredicate(v) ==
    LET failing == {t \in Registered \cap Stocks : Refuses(t, v)}
    IN  "registry" \in wired[v] /\ (failing \ Mute # {} \/ Cardinality(failing) >= 2)

\* The ladders come back as claims, their AMPS as an idle balance.
Unwound(v) ==
    [claims |-> [t \in Tokens |-> claims[v][t] + IF t = Amps THEN 0 ELSE placed[v][t]],
     held   |-> [held[v] EXCEPT ![Amps] = @ + placed[v][Amps]]]

Evacuate_UnwindsLast(v, s, list) ==     \* mutant: the ladders come back too late
    LET moves == list \cup {Amps}
    IN  /\ held' = [held EXCEPT
              ![v] = [t \in Tokens |-> IF t \notin moves \/ Refuses(t, v) \/ Refuses(t, s)
                                        THEN held[v][t] ELSE 0],
              ![s] = [t \in Tokens |-> @[t] + IF t \notin moves \/ Refuses(t, v) \/ Refuses(t, s)
                                        THEN 0 ELSE held[v][t]]]
        /\ claims' = [claims EXCEPT
              ![v] = placed[v],
              ![s] = [t \in Tokens |-> @[t] + IF t \in moves THEN claims[v][t] ELSE 0]]
        /\ placed' = [placed EXCEPT ![v] = None]

\* Claims cannot be refused; an idle balance can, by either party's issuer.
Evacuate(v, s, list) ==
    LET own == Unwound(v)
        moves == list \cup {Amps}
        stuck == {t \in moves : Refuses(t, v) \/ Refuses(t, s)}
        idle == [t \in Tokens |-> IF t \in moves \ stuck THEN own.held[t] ELSE 0]
        claim == [t \in Tokens |-> IF t \in moves THEN own.claims[t] ELSE 0]
    IN  /\ held' = [held EXCEPT ![v] = [t \in Tokens |-> own.held[t] - idle[t]],
                                ![s] = Plus(@, idle)]
        /\ claims' = [claims EXCEPT ![v] = [t \in Tokens |-> own.claims[t] - claim[t]],
                                    ![s] = Plus(@, claim)]
        /\ placed' = [placed EXCEPT ![v] = None]

Handover_NoRegistry(v, s, hookOk) ==    \* mutant: one contract forgotten
    LET moved == ({"amps"} \cup wired[v]) \ {"registry"}
    IN  /\ \A r \in moved : vaultOf[r] = v
        /\ vaultOf' = [r \in Roles |->
              IF r \in moved \/ (r = "hook" /\ hookOk /\ vaultOf[r] = v) THEN s ELSE vaultOf[r]]

\* Each contract refuses a hand-over from anybody but its vault; a pointer never
\* set is passed over, and the hook may fail.
Handover(v, s, hookOk) ==
    LET moved == {"amps"} \cup wired[v]
    IN  /\ \A r \in moved : vaultOf[r] = v
        /\ vaultOf' = [r \in Roles |->
              IF r \in moved \/ (r = "hook" /\ hookOk /\ vaultOf[r] = v) THEN s ELSE vaultOf[r]]

EmergencyMigrate(v, hookOk) ==
    LET s == standby[v]
        moves == listed[v] \cup {Amps}
    IN  /\ s # Nobody /\ now >= readyAt[v]
        /\ MigrationPredicate(v)
        /\ Evacuate(v, s, listed[v])
        /\ Handover(v, s, hookOk)
        /\ evacuated' = (evacuated \ {s}) \cup {v}
        /\ residue' = [residue EXCEPT ![v] = [t \in Tokens |->
              IF t \notin moves THEN held[v][t] + claims[v][t]
              ELSE IF Refuses(t, v) \/ Refuses(t, s) THEN held[v][t] ELSE 0]]
        /\ behind' = behind \cup (Wirable \ wired[v])
        /\ UNCHANGED <<now, arrivals, launch, policy, poolAt, listed, denied>>

----------------------------------------------------------------------------
(* The world *)

Donate(h, t) ==
    /\ arrivals < MaxArrivals /\ arrivals' = arrivals + 1
    /\ h = Adapter => ~settled /\ t \notin Stocks
    /\ t = Amps => minted
    /\ ~Refuses(t, h)
    /\ held' = [held EXCEPT ![h] = Plus(@, Only(t, 1))]
    /\ Arrives(h, Only(t, 1))
    /\ UNCHANGED <<now, launch, policy, roles, listed, claims, placed, denied, evacuated, behind>>

Deny(v, t) ==
    /\ denied' = IF <<v, t>> \in denied THEN denied \ {<<v, t>>} ELSE denied \cup {<<v, t>>}
    /\ UNCHANGED <<now, arrivals, launch, policy, roles, estate, history>>

Wait ==
    /\ now < MaxTime /\ now' = now + 1
    /\ UNCHANGED <<arrivals, launch, policy, roles, estate, denied, history>>

LifeNext ==
    \/ \E v \in Vaults, r \in Wirable : <<v, r>> \in Links /\ SetPolicyPointer(v, r)
    \/ GenesisMint
    \/ \E seed \in Seeds : FoundersPlace(seed)
    \/ \E legs \in SUBSET Currencies, sold \in [Currencies -> 0 .. Tranche],
          at \in [Currencies -> now .. MaxTime] : CreateAuctions(legs, sold, at)
    \/ Settle
    \/ \E v \in Vaults : Touch(v)
    \/ \E v \in Vaults, t \in Assets : DepositBonded(v, t)
    \/ \E v \in Vaults, t \in Pooled : InitializePool(v, t)
    \/ \E v \in Vaults, t \in Pooled, above \in BOOLEAN : Place(v, t, above)
    \/ \E v, s \in Vaults : <<v, s>> \in Standbys /\ SetStandbyVault(v, s)
    \/ \E v \in Vaults, hookOk \in BOOLEAN : EmergencyMigrate(v, hookOk)
    \/ \E h \in Holders, t \in Tokens : <<h, t>> \in Gifts /\ Donate(h, t)
    \/ \E v \in Vaults, t \in Stocks : Deny(v, t)
    \/ Wait

\* settle() is anybody's call (the keeper has a job for it), and time passes.
LifeSpec == LifeInit /\ [][LifeNext]_lifeVars /\ WF_lifeVars(Settle) /\ WF_lifeVars(Wait)

----------------------------------------------------------------------------
(* Properties *)

(* An evacuated vault keeps no role but those whose pointer it never had    *)
(* (the hook, which may refuse, aside), and of its own list and of AMPS     *)
(* nothing but idle balances an issuer refused to move and what arrived     *)
(* later: no claim, no position and no role is stranded by the order in     *)
(* which emergencyMigrate unwinds, evacuates and hands over                 *)
(* (AmpsVault.sol:1391, VaultNavLib.sol:580).                               *)
ShellKeepsNothing ==
    \A v \in evacuated :
        /\ \A r \in Roles \ {"hook"} : vaultOf[r] = v => r \in behind
        /\ \A t \in Tokens : held[v][t] + claims[v][t] + placed[v][t] = residue[v][t]

(* Once the auctions are created the settlement happens, whatever           *)
(* graduated, whoever opened the vault in between and wherever the roles    *)
(* went, and it leaves nothing in the adapter or in a leg: the sweeps are   *)
(* one-shot, so what is not home then never comes (AmpsGenesis.sol:234).    *)
RaiseComesHome ==
    created # {} ~> [](/\ settled
                       /\ \A h \in {Adapter} \cup Currencies, t \in Tokens : held[h][t] = 0)

============================================================================
