--------------------------- MODULE IndexBookProofs ---------------------------
(***************************************************************************)
(* Which market of the shell may issue, what its views promise, what its    *)
(* books add up to and what a retirement takes away, for every set of       *)
(* names, collaterals and owners, every band of parameters and any number   *)
(* of markets and positions.  Registry and shell agree through the shell's  *)
(* own attribution and nothing else.  The shell comes first, by itself      *)
(* (Bonds, Spec), then both (IndexBook, IndexSpec).                         *)
(*                                                                          *)
(* ShellInv leaves amounts untyped: what attribution needs does not depend  *)
(* on them, and so it carries over to the registry.  BookInv types them and *)
(* counts them; its sums are those of SumLemmas.                            *)
(***************************************************************************)
EXTENDS IndexBook, SumLemmas, TLAPS

---------------------------------------------------------------------------
(* The shell.                                                               *)

(* A market's record, as far as its attribution and its epoch go.          *)
Shaped(r, t) ==
    r \in [collateral : Collaterals, open : BOOLEAN, cap : Caps, epochStart : 0 .. t,
           issued : {r.issued}, total : {r.total}]

(* A sequence, whatever its members are.                                   *)
Listing(s) == s \in Seq({s[i] : i \in 1 .. Len(s)})

(* What the shell attributes to a collateral is a market of it.            *)
Attribution ==
    \A c \in Collaterals : marketIdOf[c] # 0 => markets[marketIdOf[c]].collateral = c

(* The inductive invariant.  OpenIsAttributed alone is not inductive: that  *)
(* a removal closes the one market it detaches, and that a switch at one    *)
(* id touches no other collateral, needs Attribution.                       *)
ShellInv ==
    /\ now \in 0 .. MaxTime /\ epochSeconds \in EpochLengths
    /\ Listing(markets)
    /\ \A m \in 1 .. Len(markets) : Shaped(markets[m], now)
    /\ marketIdOf \in [Collaterals -> 0 .. Len(markets)]
    /\ Attribution
    /\ OpenIsAttributed

---------------------------------------------------------------------------
(* Sequences of unknown members.                                            *)

LEMMA OwnRange == ASSUME NEW S, NEW s \in Seq(S) PROVE Listing(s)
<1>1. Len(s) \in Nat /\ s = [i \in 1 .. Len(s) |-> s[i]]
  OBVIOUS
<1> QED
  BY <1>1 DEF Listing

(* Replacing one member, or adding one, keeps the others. *)
Replace(s, k, x) == [s EXCEPT ![k] = x]
Extend(s, x) == Append(s, x)

LEMMA Replaced ==
    ASSUME NEW s, Listing(s), NEW k, k \in 1 .. Len(s), NEW x
    PROVE  /\ Listing(Replace(s, k, x)) /\ Len(Replace(s, k, x)) = Len(s)
           /\ Replace(s, k, x)[k] = x /\ Len(s) \in Nat
           /\ \A i \in 1 .. Len(s) : i # k => Replace(s, k, x)[i] = s[i]
<1> DEFINE S == {s[i] : i \in 1 .. Len(s)}
           T == S \cup {x}
           t == [s EXCEPT ![k] = x]
<1>1. s \in Seq(S) /\ Len(s) \in Nat
  BY DEF Listing
<1> HIDE DEF S
<1>2. s \in Seq(T) /\ x \in T
  BY <1>1
<1> HIDE DEF T
<1>3. t \in Seq(T) /\ Len(t) = Len(s)
  BY <1>2
<1>4. t[k] = x /\ \A i \in 1 .. Len(s) : i # k => t[i] = s[i]
  BY <1>1
<1>5. Listing(t)
  BY <1>3, OwnRange
<1> QED
  BY <1>1, <1>3, <1>4, <1>5 DEF Replace

LEMMA Extended ==
    ASSUME NEW s, Listing(s), NEW x
    PROVE  /\ Listing(Extend(s, x)) /\ Len(Extend(s, x)) = Len(s) + 1
           /\ Extend(s, x)[Len(s) + 1] = x /\ Len(s) \in Nat
           /\ \A i \in 1 .. Len(s) : Extend(s, x)[i] = s[i]
<1> DEFINE S == {s[i] : i \in 1 .. Len(s)}
           T == S \cup {x}
           t == Append(s, x)
<1>1. s \in Seq(S) /\ Len(s) \in Nat
  BY DEF Listing
<1> HIDE DEF S
<1>2. s \in Seq(T) /\ x \in T
  BY <1>1
<1> HIDE DEF T
<1>3. t \in Seq(T) /\ Len(t) = Len(s) + 1
  BY <1>2
<1>4. t[Len(s) + 1] = x /\ \A i \in 1 .. Len(s) : t[i] = s[i]
  BY <1>2
<1>5. Listing(t)
  BY <1>3, OwnRange
<1> QED
  BY <1>1, <1>3, <1>4, <1>5 DEF Extend

---------------------------------------------------------------------------
(* The grid.                                                                *)

LEMMA WholeParts ==
    ASSUME NEW a \in Nat, NEW e \in Nat, e > 0
    PROVE  a \div e \in Nat /\ e * (a \div e) <= a /\ a < e * (a \div e) + e
BY Z3

(* _rollEpoch lands in the epoch that contains now, on the market's grid,   *)
(* and writes nothing else but the counter it clears.                       *)
LEMMA RollLands ==
    ASSUME ShellInv, BandAssumption, TimeAssumption, NEW r, Shaped(r, now)
    PROVE  /\ Shaped(RollEpoch(r), now) /\ EpochLive(RollEpoch(r))
           /\ RollEpoch(r).collateral = r.collateral /\ RollEpoch(r).open = r.open
           /\ RollEpoch(r).cap = r.cap
           /\ ~EpochLive(r) => RollEpoch(r).issued = 0
<1>1. now \in Nat /\ epochSeconds \in Nat \ {0} /\ r.epochStart \in 0 .. now
  BY DEF ShellInv, BandAssumption, TimeAssumption, Shaped
<1>2. CASE EpochLive(r)
  BY <1>2 DEF RollEpoch
<1>3. CASE ~EpochLive(r)
  <2> DEFINE s == r.epochStart + ((now - r.epochStart) \div epochSeconds) * epochSeconds
  <2>1. now - r.epochStart \in Nat
    BY <1>1
  <2>2. s \in 0 .. now /\ now < s + epochSeconds
    <3> DEFINE q == (now - r.epochStart) \div epochSeconds
    <3>1. /\ q \in Nat /\ epochSeconds * q <= now - r.epochStart
          /\ now - r.epochStart < epochSeconds * q + epochSeconds
      BY <1>1, <2>1, WholeParts
    <3>2. q * epochSeconds = epochSeconds * q /\ epochSeconds * q \in Nat
      BY <1>1, <3>1, Z3
    <3> QED
      BY <1>1, <3>1, <3>2
  <2>3. RollEpoch(r) = [r EXCEPT !.epochStart = s, !.issued = 0]
    BY <1>3 DEF RollEpoch
  <2> HIDE DEF s
  <2>4. /\ Shaped(RollEpoch(r), now) /\ RollEpoch(r).epochStart = s /\ RollEpoch(r).issued = 0
        /\ RollEpoch(r).collateral = r.collateral /\ RollEpoch(r).open = r.open
        /\ RollEpoch(r).cap = r.cap
    BY <2>2, <2>3 DEF Shaped
  <2> QED
    BY <2>2, <2>4 DEF EpochLive
<1> QED
  BY <1>2, <1>3

---------------------------------------------------------------------------
(* One market rewritten, keeping whose it is.                               *)

LEMMA Rewritten ==
    ASSUME ShellInv, NEW m \in 1 .. Len(markets), NEW r, Shaped(r, now),
           r.collateral = markets[m].collateral,
           r.open => marketIdOf[r.collateral] = m,
           markets' = [markets EXCEPT ![m] = r],
           UNCHANGED <<now, marketIdOf>>, epochSeconds' \in EpochLengths
    PROVE  ShellInv'
<1>1. /\ Listing(markets')
      /\ Len(markets') = Len(markets) /\ markets'[m] = r
      /\ \A i \in 1 .. Len(markets) : i # m => markets'[i] = markets[i]
  <2>1. Listing(markets) /\ markets' = Replace(markets, m, r)
    BY DEF ShellInv, Replace
  <2> QED
    BY ONLY <2>1, m \in 1 .. Len(markets), Replaced
<1>2. \A i \in 1 .. Len(markets') : Shaped(markets'[i], now')
  BY <1>1 DEF ShellInv, Shaped
<1>3. \A i \in 1 .. Len(markets) : markets'[i].collateral = markets[i].collateral
  BY <1>1
<1>4. Attribution'
  BY <1>3 DEF ShellInv, Attribution
<1>5. OpenIsAttributed'
  BY <1>1 DEF ShellInv, OpenIsAttributed
<1> QED
  BY <1>1, <1>2, <1>4, <1>5 DEF ShellInv

(* Listing: a record of its own at the next id. *)
LEMMA Adding ==
    ASSUME ShellInv, TimeAssumption, NEW c \in Collaterals, NEW cap \in Caps, NEW open \in BOOLEAN,
           AddCollateral(c, cap, open)
    PROVE  ShellInv'
<1> DEFINE r == [collateral |-> c, open |-> open, cap |-> cap, epochStart |-> now,
                 issued |-> 0, total |-> 0]
<1>1. now \in 0 .. now /\ now \in Nat /\ UNCHANGED <<now, epochSeconds>>
  BY DEF ShellInv, TimeAssumption, AddCollateral, govern
<1>2. Shaped(r, now)
  BY <1>1 DEF Shaped
<1>3. r.collateral = c
  OBVIOUS
<1>4. markets' = Append(markets, r) /\ marketIdOf' = [marketIdOf EXCEPT ![c] = Len(markets) + 1]
      /\ marketIdOf[c] = 0
  BY DEF AddCollateral
<1> HIDE DEF r
<1>5. /\ Listing(markets') /\ Len(markets) \in Nat
      /\ Len(markets') = Len(markets) + 1 /\ markets'[Len(markets) + 1] = r
      /\ \A i \in 1 .. Len(markets) : markets'[i] = markets[i]
  <2>1. Listing(markets) /\ markets' = Extend(markets, r)
    BY <1>4 DEF ShellInv, Extend
  <2> QED
    BY <2>1, Extended
<1>6. \A i \in 1 .. Len(markets') : Shaped(markets'[i], now')
  BY <1>1, <1>2, <1>5 DEF ShellInv, Shaped
<1>7. marketIdOf' \in [Collaterals -> 0 .. Len(markets')]
  BY <1>4, <1>5 DEF ShellInv
<1>8. Attribution'
  BY <1>3, <1>4, <1>5 DEF ShellInv, Attribution
<1>9. OpenIsAttributed'
  <2> SUFFICES ASSUME NEW i \in 1 .. Len(markets'), markets'[i].open
               PROVE  marketIdOf'[markets'[i].collateral] = i
    BY DEF OpenIsAttributed
  <2>1. CASE i = Len(markets) + 1
    BY <1>3, <1>4, <1>5, <2>1 DEF ShellInv
  <2>2. CASE i \in 1 .. Len(markets)
    BY <1>4, <1>5, <2>2 DEF ShellInv, OpenIsAttributed, Shaped
  <2> QED
    BY <1>5, <2>1, <2>2
<1> QED
  BY <1>1, <1>5, <1>6, <1>7, <1>8, <1>9 DEF ShellInv

(* Removal: the market is closed as it is detached. *)
LEMMA Removing ==
    ASSUME ShellInv, NEW c \in Collaterals, RemoveCollateral(c) PROVE ShellInv'
<1> DEFINE k == marketIdOf[c]
           r == [markets[k] EXCEPT !.open = FALSE]
<1>1. k \in 1 .. Len(markets) /\ markets[k].collateral = c /\ Len(markets) \in Nat
  BY DEF ShellInv, RemoveCollateral, Attribution
<1>2. /\ markets' = [markets EXCEPT ![k] = r]
      /\ marketIdOf' = [marketIdOf EXCEPT ![c] = 0]
      /\ UNCHANGED <<now, epochSeconds>>
  BY DEF RemoveCollateral, govern
<1>3. Shaped(r, now) /\ ~r.open /\ r.collateral = c
  BY <1>1 DEF ShellInv, Shaped
<1> HIDE DEF k, r
<1>4. /\ Listing(markets')
      /\ Len(markets') = Len(markets) /\ markets'[k] = r
      /\ \A i \in 1 .. Len(markets) : i # k => markets'[i] = markets[i]
  <2>1. Listing(markets) /\ markets' = Replace(markets, k, r)
    BY <1>2 DEF ShellInv, Replace
  <2> QED
    BY <1>1, <2>1, Replaced
<1>5. \A i \in 1 .. Len(markets') : Shaped(markets'[i], now')
  BY <1>2, <1>3, <1>4 DEF ShellInv, Shaped
<1>6. marketIdOf' \in [Collaterals -> 0 .. Len(markets')]
  BY <1>1, <1>2, <1>4 DEF ShellInv
<1>7. \A d \in Collaterals : d # c => marketIdOf'[d] = marketIdOf[d]
  BY <1>2 DEF ShellInv
<1>8. marketIdOf'[c] = 0
  BY <1>2 DEF ShellInv
<1>9. Attribution'
  BY <1>1, <1>4, <1>7, <1>8 DEF ShellInv, Attribution
<1>10. OpenIsAttributed'
  <2> SUFFICES ASSUME NEW i \in 1 .. Len(markets'), markets'[i].open
               PROVE  marketIdOf'[markets'[i].collateral] = i
    BY DEF OpenIsAttributed
  <2>1. i # k /\ i \in 1 .. Len(markets) /\ markets'[i] = markets[i]
    BY <1>3, <1>4
  <2>2. marketIdOf[markets[i].collateral] = i /\ markets[i].collateral \in Collaterals
    BY <2>1 DEF ShellInv, OpenIsAttributed, Shaped
  <2>3. markets[i].collateral # c
    BY <2>1, <2>2 DEF k
  <2> QED
    BY <1>7, <2>1, <2>2, <2>3
<1> QED
  BY <1>2, <1>4, <1>5, <1>6, <1>9, <1>10 DEF ShellInv

LEMMA Switching ==
    ASSUME ShellInv, NEW m \in 1 .. Len(markets), NEW open \in BOOLEAN,
           open => marketIdOf[markets[m].collateral] = m,
           markets' = [markets EXCEPT ![m].open = open],
           UNCHANGED <<now, epochSeconds, marketIdOf>>
    PROVE  ShellInv'
<1> DEFINE r == [markets[m] EXCEPT !.open = open]
<1>1. Shaped(r, now) /\ r.collateral = markets[m].collateral /\ r.open = open
  BY DEF ShellInv, Shaped
<1>2. markets' = [markets EXCEPT ![m] = r]
  OBVIOUS
<1>3. epochSeconds' \in EpochLengths
  BY DEF ShellInv
<1> HIDE DEF r
<1> QED
  BY <1>1, <1>2, <1>3, Rewritten

LEMMA Capping ==
    ASSUME ShellInv, NEW m \in MarketIds, NEW cap \in Caps, SetCapBpsPerEpoch(m, cap)
    PROVE  ShellInv'
<1> DEFINE r == [markets[m] EXCEPT !.cap = cap]
<1>1. m \in 1 .. Len(markets) /\ UNCHANGED <<now, marketIdOf, epochSeconds>>
      /\ markets' = [markets EXCEPT ![m] = r]
  BY DEF SetCapBpsPerEpoch, govern
<1>2. Shaped(r, now) /\ r.collateral = markets[m].collateral /\ r.open = markets[m].open
  BY <1>1 DEF ShellInv, Shaped
<1>3. r.open => marketIdOf[r.collateral] = m
  BY <1>1, <1>2 DEF ShellInv, OpenIsAttributed
<1>4. epochSeconds' \in EpochLengths
  BY <1>1 DEF ShellInv
<1> HIDE DEF r
<1> QED
  BY <1>1, <1>2, <1>3, <1>4, Rewritten

LEMMA Bonding ==
    ASSUME ShellInv, BandAssumption, TimeAssumption, NEW m, NEW p, NEW to, Bond(m, p, to)
    PROVE  ShellInv'
<1> DEFINE old == RollEpoch(markets[m])
           out == Lesser(p, Capacity(markets[m]))
           r == [old EXCEPT !.issued = @ + out, !.total = @ + out]
<1>1. m \in 1 .. Len(markets) /\ UNCHANGED <<now, marketIdOf, epochSeconds>>
      /\ markets' = [markets EXCEPT ![m] = r]
      /\ marketIdOf[markets[m].collateral] = m
  BY DEF Bond, govern
<1>2. Shaped(markets[m], now)
  BY <1>1 DEF ShellInv
<1>3. Shaped(old, now) /\ old.collateral = markets[m].collateral
  BY <1>2, RollLands
<1> HIDE DEF old, out
<1>4. Shaped(r, now) /\ r.collateral = markets[m].collateral
  BY <1>3 DEF Shaped
<1>5. epochSeconds' \in EpochLengths
  BY <1>1 DEF ShellInv
<1> HIDE DEF r
<1> QED
  BY <1>1, <1>4, <1>5, Rewritten

(* Everything that leaves the markets alone. *)
LEMMA Aside ==
    ASSUME ShellInv, UNCHANGED book, now' \in 0 .. MaxTime, now' >= now,
           epochSeconds' \in EpochLengths
    PROVE  ShellInv'
<1>1. \A m \in 1 .. Len(markets) : Shaped(markets'[m], now')
  BY DEF ShellInv, Shaped, book
<1> QED
  BY <1>1 DEF ShellInv, Attribution, OpenIsAttributed, book

---------------------------------------------------------------------------
(* The invariant.                                                           *)

LEMMA ShellInit == ASSUME TimeAssumption, Init PROVE ShellInv
<1>1. now \in 0 .. MaxTime /\ epochSeconds \in EpochLengths
  BY DEF Init, TimeAssumption
<1>2. markets = <<>> /\ Len(markets) = 0 /\ marketIdOf = [c \in Collaterals |-> 0]
  BY DEF Init
<1>3. Listing(markets)
  BY <1>2 DEF Listing
<1> QED
  BY <1>1, <1>2, <1>3 DEF ShellInv, Attribution, OpenIsAttributed

LEMMA ShellStep ==
    ASSUME ShellInv, TimeAssumption, BandAssumption, [Next]_vars PROVE ShellInv'
<1>0. now \in 0 .. MaxTime /\ MaxTime \in Nat /\ epochSeconds \in EpochLengths
  BY DEF ShellInv, TimeAssumption
<1>1. CASE Hold
  <2>1. CASE \E o \in Owners, m \in MarketIds, p \in Priced : Bond(m, p, o)
    BY <2>1, Bonding
  <2>2. ASSUME NEW o \in Owners, (\E i \in 1 .. MaxPositions : Claim(o, i)) \/ ClaimAll(o)
        PROVE  ShellInv'
    <3>1. UNCHANGED <<now, govern, book>>
      BY <2>2 DEF Claim, ClaimAll
    <3> QED
      BY <1>0, <3>1, Aside DEF govern
  <2> QED
    BY <1>1, <2>1, <2>2 DEF Hold
<1>2. CASE Govern
  <2>1. ASSUME NEW c \in Collaterals, RemoveCollateral(c) PROVE ShellInv'
    BY <2>1, Removing
  <2>2. ASSUME NEW c \in Collaterals, NEW cap \in Caps, NEW open \in BOOLEAN,
               AddCollateral(c, cap, open)
        PROVE  ShellInv'
    BY <2>2, Adding
  <2>3. ASSUME NEW m \in MarketIds, NEW open \in BOOLEAN, SetMarketOpen(m, open) PROVE ShellInv'
    BY <2>3, Switching DEF SetMarketOpen, govern
  <2>4. ASSUME NEW m \in MarketIds, NEW cap \in Caps, SetCapBpsPerEpoch(m, cap) PROVE ShellInv'
    BY <2>4, Capping
  <2>5. CASE \/ \E v \in EpochLengths : SetEpochSeconds(v)
             \/ \E v \in DailyCaps : SetDailyCapBps(v)
             \/ \E v \in VestLengths : SetVestSeconds(v)
    BY <1>0, <2>5, Aside DEF SetEpochSeconds, SetDailyCapBps, SetVestSeconds
  <2> QED
    BY <1>2, <2>1, <2>2, <2>3, <2>4, <2>5 DEF Govern
<1>3. CASE (\E a \in Burns : Burn(a)) \/ Tick \/ UNCHANGED vars
  BY <1>0, <1>3, Aside DEF Burn, Tick, vars, govern
<1> QED
  BY <1>1, <1>2, <1>3 DEF Next

(* What the two theorems below rest on: markets and attributions stay in   *)
(* step through every bond, listing, removal and switch of AmpsBonds.      *)
THEOREM ShellInvariant == ASSUME TimeAssumption, BandAssumption PROVE Spec => []ShellInv
  BY ShellInit, ShellStep, PTL DEF Spec

(* OpenIsAttributed: no two markets of one collateral ever issue at a time, *)
(* whatever order removals, returns and setMarketOpen come in.              *)
THEOREM OneOpenMarket == ASSUME TimeAssumption, BandAssumption PROVE Spec => []OpenIsAttributed
<1>1. ShellInv => OpenIsAttributed
  BY DEF ShellInv
<1> QED
  BY <1>1, ShellInvariant, PTL

(* ViewsRollAsBondDoes: capacity as the views compute it, without rolling,  *)
(* is what _rollEpoch leaves a bond, for any epoch length and any age.      *)
THEOREM ViewsAgree == ASSUME TimeAssumption, BandAssumption PROVE Spec => []ViewsRollAsBondDoes
<1>1. ShellInv => ViewsRollAsBondDoes
  <2> SUFFICES ASSUME ShellInv, NEW m \in 1 .. Len(markets)
               PROVE  /\ EpochLive(RollEpoch(markets[m]))
                      /\ Capacity(RollEpoch(markets[m])) = Capacity(markets[m])
    BY DEF ViewsRollAsBondDoes
  <2> DEFINE r == markets[m]
             s == RollEpoch(r)
  <2>1. EpochLive(s) /\ s.cap = r.cap /\ (~EpochLive(r) => s.issued = 0)
    BY RollLands DEF ShellInv
  <2>2. EpochLive(r) => s = r
    BY DEF RollEpoch
  <2>3. (IF EpochLive(s) THEN s.issued ELSE 0) = (IF EpochLive(r) THEN r.issued ELSE 0)
    BY <2>1, <2>2
  <2> QED
    BY <2>1, <2>3 DEF Capacity
<1> QED
  BY <1>1, ShellInvariant, PTL

---------------------------------------------------------------------------
(* The vesting book, entry by entry: sums over a function b from places to  *)
(* positions.  An entry is written once and then only claimed.              *)

SoldOf(b, P)    == SumFunctionOnSet([q \in P |-> b[q].principal], P)
OwedOf(b, P)    == SumFunctionOnSet([q \in P |-> b[q].principal - b[q].claimed], P)
SinceOf(b, t)   == {q \in DOMAIN b : b[q].start >= t}
BeforeOf(b, t)  == {q \in DOMAIN b : t - Day < b[q].start /\ b[q].start < t}
MarketOf(b, m, t) == {q \in DOMAIN b : b[q].start >= t /\ b[q].market = m}

\* An entry with amounts and times that are numbers.
Entry(p) == p.principal \in Nat /\ p.claimed \in Nat /\ p.start \in Nat

\* c is b with p entered at q, a place b does not have.
Enters(b, c, q, p) ==
    /\ IsFiniteSet(DOMAIN b) /\ q \notin DOMAIN b
    /\ DOMAIN c = DOMAIN b \cup {q} /\ c[q] = p
    /\ \A x \in DOMAIN b : c[x] = b[x] /\ Entry(b[x])
    /\ Entry(p) /\ p.claimed = 0

LEMMA SoldGrows ==
    ASSUME NEW b, NEW c, NEW q, NEW p, Enters(b, c, q, p), NEW P \in SUBSET DOMAIN b,
           NEW U, \A x : x \in U <=> x \in P \/ x = q
    PROVE  SoldOf(c, U) = SoldOf(b, P) + p.principal
<1> DEFINE f == [x \in P |-> b[x].principal]
           g == [x \in U |-> c[x].principal]
<1>1. /\ IsFiniteSet(P) /\ q \notin P /\ g[q] = p.principal
      /\ \A x \in P : f[x] = g[x]
      /\ \A x \in U : g[x] \in Int
  BY FS_Subset DEF Enters, Entry
<1>2. SoldOf(b, P) = SumFunctionOnSet(f, P) /\ SoldOf(c, U) = SumFunctionOnSet(g, U)
  BY Zenon DEF SoldOf
<1> HIDE DEF f, g
<1>3. SumFunctionOnSet(g, P) = SumFunctionOnSet(f, P)
  BY <1>1, SumSame
<1>4. SumFunctionOnSet(g, U) = SumFunctionOnSet(g, P) + g[q]
  BY <1>1, SumAdds
<1> QED
  BY <1>1, <1>2, <1>3, <1>4

LEMMA SoldSame ==
    ASSUME NEW b, NEW c, NEW P, IsFiniteSet(P), \A x \in P : c[x].principal = b[x].principal
    PROVE  SoldOf(c, P) = SoldOf(b, P)
<1> DEFINE f == [x \in P |-> b[x].principal]
           g == [x \in P |-> c[x].principal]
<1>1. \A x \in P : g[x] = f[x]
  OBVIOUS
<1>2. SoldOf(b, P) = SumFunctionOnSet(f, P) /\ SoldOf(c, P) = SumFunctionOnSet(g, P)
  BY Zenon DEF SoldOf
<1> HIDE DEF f, g
<1> QED
  BY <1>1, <1>2, SumSame

LEMMA SoldNat ==
    ASSUME NEW b, NEW P, IsFiniteSet(P), \A x \in P : b[x].principal \in Nat
    PROVE  SoldOf(b, P) \in Nat
<1> DEFINE f == [x \in P |-> b[x].principal]
<1>1. \A x \in P : f[x] \in Nat
  OBVIOUS
<1>2. SoldOf(b, P) = SumFunctionOnSet(f, P)
  BY Zenon DEF SoldOf
<1> HIDE DEF f
<1> QED
  BY <1>1, <1>2, SumNat

LEMMA SoldNone == ASSUME NEW b PROVE SoldOf(b, {}) = 0 /\ OwedOf(b, {}) = 0
  BY SumEmpty DEF SoldOf, OwedOf

(* What was sold at some places is no more than what was at them and others.*)
LEMMA SoldWithin ==
    ASSUME NEW b, NEW S, IsFiniteSet(S), \A x \in S : b[x].principal \in Nat, NEW T \in SUBSET S
    PROVE  SoldOf(b, T) <= SoldOf(b, S)
<1> DEFINE f == [x \in S |-> b[x].principal]
           g == [x \in T |-> b[x].principal]
<1>1. (\A x \in S : f[x] \in Nat) /\ (\A x \in T : f[x] = g[x]) /\ IsFiniteSet(T)
  BY FS_Subset
<1>2. SoldOf(b, S) = SumFunctionOnSet(f, S) /\ SoldOf(b, T) = SumFunctionOnSet(g, T)
  BY Zenon DEF SoldOf
<1> HIDE DEF f, g
<1>3. SumFunctionOnSet(f, T) = SumFunctionOnSet(g, T)
  BY <1>1, SumSame
<1>4. SumFunctionOnSet(f, T) <= SumFunctionOnSet(f, S)
  BY <1>1, SumOfPartAtMost
<1> QED
  BY <1>2, <1>3, <1>4

LEMMA SoldApart ==
    ASSUME NEW b, NEW S, IsFiniteSet(S), NEW T, IsFiniteSet(T), S \cap T = {},
           \A x \in S \cup T : b[x].principal \in Nat
    PROVE  SoldOf(b, S \cup T) = SoldOf(b, S) + SoldOf(b, T)
<1> DEFINE U == S \cup T
           f == [x \in U |-> b[x].principal]
           g == [x \in S |-> b[x].principal]
           h == [x \in T |-> b[x].principal]
<1>1. /\ \A x \in S \cup T : f[x] \in Int
      /\ \A x \in S : f[x] = g[x]
      /\ \A x \in T : f[x] = h[x]
  OBVIOUS
<1>2. /\ SoldOf(b, U) = SumFunctionOnSet(f, U) /\ SoldOf(b, S) = SumFunctionOnSet(g, S)
      /\ SoldOf(b, T) = SumFunctionOnSet(h, T)
  BY Zenon DEF SoldOf
<1> HIDE DEF f, g, h
<1>3. SumFunctionOnSet(f, S) = SumFunctionOnSet(g, S)
  BY <1>1, SumSame
<1>4. SumFunctionOnSet(f, T) = SumFunctionOnSet(h, T)
  BY <1>1, SumSame
<1>5. SumFunctionOnSet(f, S \cup T) = SumFunctionOnSet(f, S) + SumFunctionOnSet(f, T)
  BY <1>1, SumUnion
<1> QED
  BY <1>2, <1>3, <1>4, <1>5, Zenon

LEMMA OwedGrows ==
    ASSUME NEW b, NEW c, NEW q, NEW p, Enters(b, c, q, p)
    PROVE  OwedOf(c, DOMAIN c) = OwedOf(b, DOMAIN b) + p.principal
<1> DEFINE P == DOMAIN b
           U == P \cup {q}
           f == [x \in P |-> b[x].principal - b[x].claimed]
           g == [x \in U |-> c[x].principal - c[x].claimed]
<1>1. /\ IsFiniteSet(P) /\ q \notin P /\ g[q] = p.principal
      /\ \A x \in P : f[x] = g[x]
      /\ \A x : x \in U <=> x \in P \/ x = q
      /\ \A x \in U : g[x] \in Int
  BY DEF Enters, Entry
<1>4. OwedOf(b, P) = SumFunctionOnSet(f, P) /\ OwedOf(c, U) = SumFunctionOnSet(g, U)
  BY Zenon DEF OwedOf
<1>5. DOMAIN c = U
  BY DEF Enters
<1> HIDE DEF f, g, P, U
<1>2. SumFunctionOnSet(g, P) = SumFunctionOnSet(f, P)
  BY <1>1, SumSame
<1>3. SumFunctionOnSet(g, U) = SumFunctionOnSet(g, P) + g[q]
  BY <1>1, SumAdds
<1>6. SumFunctionOnSet(g, U) = SumFunctionOnSet(f, P) + p.principal
  BY <1>1, <1>2, <1>3
<1> QED
  BY <1>4, <1>5, <1>6, Zenon DEF P

(* Claims: what is owed falls by what is paid, wherever it is paid.         *)
LEMMA OwedPaid ==
    ASSUME NEW b, NEW c, IsFiniteSet(DOMAIN b), DOMAIN c = DOMAIN b, NEW C \in SUBSET DOMAIN b,
           NEW due, \A x \in C : due[x] \in Int,
           \A x \in DOMAIN b : /\ Entry(b[x]) /\ c[x].principal = b[x].principal
                               /\ c[x].claimed = IF x \in C THEN b[x].claimed + due[x]
                                                 ELSE b[x].claimed
    PROVE  OwedOf(c, DOMAIN c) = OwedOf(b, DOMAIN b) - SumFunctionOnSet(due, C)
<1> DEFINE P == DOMAIN b
           f == [x \in P |-> b[x].principal - b[x].claimed]
           g == [x \in P |-> c[x].principal - c[x].claimed]
           d == [x \in P |-> IF x \in C THEN due[x] ELSE 0]
<1>1. \A x \in P : g[x] \in Int /\ d[x] \in Int /\ f[x] = g[x] + d[x]
  BY DEF Entry
<1>2. (\A x \in P \ C : d[x] = 0) /\ (\A x \in C : d[x] = due[x])
  OBVIOUS
<1>3. OwedOf(b, P) = SumFunctionOnSet(f, P) /\ OwedOf(c, P) = SumFunctionOnSet(g, P)
  BY Zenon DEF OwedOf
<1>4. IsFiniteSet(P) /\ C \in SUBSET P /\ IsFiniteSet(C)
  BY FS_Subset
<1> HIDE DEF f, g, d, P
<1>5. SumFunctionOnSet(f, P) = SumFunctionOnSet(g, P) + SumFunctionOnSet(d, P)
  BY <1>1, <1>4, SumPlus
<1>6. SumFunctionOnSet(d, P) = SumFunctionOnSet(d, C)
  BY <1>1, <1>2, <1>4, SumOfPart
<1>7. SumFunctionOnSet(d, C) = SumFunctionOnSet(due, C)
  BY <1>2, <1>4, SumSame
<1>8. SumFunctionOnSet(g, P) \in Int /\ SumFunctionOnSet(d, P) \in Int
  BY <1>1, <1>4, SumInt
<1> QED
  BY <1>3, <1>5, <1>6, <1>7, <1>8 DEF P

LEMMA OwedNat ==
    ASSUME NEW b, NEW P, IsFiniteSet(P), \A x \in P : b[x].principal - b[x].claimed \in Nat
    PROVE  OwedOf(b, P) \in Nat
<1> DEFINE f == [x \in P |-> b[x].principal - b[x].claimed]
<1>1. \A x \in P : f[x] \in Nat
  OBVIOUS
<1>2. OwedOf(b, P) = SumFunctionOnSet(f, P)
  BY Zenon DEF OwedOf
<1> HIDE DEF f
<1> QED
  BY <1>1, <1>2, SumNat

---------------------------------------------------------------------------
(* The day.                                                                 *)

\* A window opened at start counts what was sold since, and what was sold
\* within a day before it fits under the ceiling.
Window(b, start, issued, ceiling) ==
    /\ issued = SoldOf(b, SinceOf(b, start)) /\ issued <= ceiling
    /\ \A q \in DOMAIN b : b[q].start < start + Day
    /\ SoldOf(b, BeforeOf(b, start)) <= ceiling

\* A bond at time t: the window still counts, or it restarts.
LEMMA WindowBond ==
    ASSUME Day \in Nat, NEW b, NEW c, NEW q, NEW p, Enters(b, c, q, p),
           NEW s \in Nat, NEW issued \in Nat, NEW top \in Nat, Window(b, s, issued, top),
           NEW t \in Nat, p.start = t, s <= t, \A x \in DOMAIN b : b[x].start <= t,
           NEW s2, s2 = (IF t < s + Day THEN s ELSE t),
           NEW issued2, issued2 = (IF t < s + Day THEN issued ELSE 0) + p.principal,
           NEW top2 \in Nat, top <= top2, issued2 <= top2
    PROVE  Window(c, s2, issued2, top2)
<1>e. /\ IsFiniteSet(DOMAIN b) /\ q \notin DOMAIN b /\ DOMAIN c = DOMAIN b \cup {q} /\ c[q] = p
      /\ \A x \in DOMAIN b : c[x] = b[x] /\ b[x].start \in Nat /\ b[x].principal \in Nat
      /\ p.principal \in Nat
  BY DEF Enters, Entry
<1>1. CASE t < s + Day
  <2>1. s2 = s /\ issued2 = issued + p.principal
    BY <1>1
  <2>2. /\ \A x : x \in SinceOf(c, s2) <=> x \in SinceOf(b, s) \/ x = q
        /\ SinceOf(b, s) \in SUBSET DOMAIN b
    BY <1>e, <2>1 DEF SinceOf
  <2>3. SoldOf(c, SinceOf(c, s2)) = SoldOf(b, SinceOf(b, s)) + p.principal
    BY <2>2, SoldGrows
  <2>4. issued2 = SoldOf(c, SinceOf(c, s2))
    BY <2>1, <2>3 DEF Window
  <2>5. BeforeOf(c, s2) = BeforeOf(b, s) /\ BeforeOf(b, s) \in SUBSET DOMAIN b
    BY <1>e, <2>1 DEF BeforeOf
  <2>6. SoldOf(c, BeforeOf(b, s)) = SoldOf(b, BeforeOf(b, s))
    BY <1>e, <2>5, SoldSame, FS_Subset
  <2>7. SoldOf(b, BeforeOf(b, s)) \in Nat
    BY <1>e, <2>5, SoldNat, FS_Subset
  <2> QED
    BY <1>e, <1>1, <2>1, <2>4, <2>5, <2>6, <2>7 DEF Window
<1>2. CASE ~(t < s + Day)
  <2>1. s2 = t /\ issued2 = p.principal
    BY <1>2, <1>e
  <2>2. \A x \in DOMAIN b : b[x].start < t
    BY <1>e, <1>2 DEF Window
  <2>3. (\A x : x \in SinceOf(c, s2) <=> x \in {} \/ x = q) /\ {} \in SUBSET DOMAIN b
    BY <1>e, <2>1, <2>2 DEF SinceOf
  <2>4. SoldOf(c, SinceOf(c, s2)) = SoldOf(b, {}) + p.principal
    BY <2>3, SoldGrows
  <2>5. issued2 = SoldOf(c, SinceOf(c, s2))
    BY <1>e, <2>1, <2>4, SoldNone
  <2>6. BeforeOf(c, s2) \in SUBSET SinceOf(b, s) /\ SinceOf(b, s) \in SUBSET DOMAIN b
    BY <1>e, <1>2, <2>1 DEF BeforeOf, SinceOf
  <2>7. IsFiniteSet(SinceOf(b, s)) /\ IsFiniteSet(BeforeOf(c, s2))
    BY <1>e, <2>6, FS_Subset
  <2>8. SoldOf(c, BeforeOf(c, s2)) = SoldOf(b, BeforeOf(c, s2))
    BY <1>e, <2>6, <2>7, SoldSame
  <2>9. SoldOf(b, BeforeOf(c, s2)) <= SoldOf(b, SinceOf(b, s))
    BY <1>e, <2>6, <2>7, SoldWithin
  <2>10. SoldOf(b, BeforeOf(c, s2)) \in Nat
    BY <1>e, <2>6, <2>7, SoldNat
  <2>11. SoldOf(c, BeforeOf(c, s2)) <= top2
    BY <2>8, <2>9, <2>10 DEF Window
  <2>12. \A x \in DOMAIN c : c[x].start < s2 + Day
    BY <1>e, <2>1, <2>2, TimeAssumption
  <2> QED
    BY <2>5, <2>11, <2>12 DEF Window
<1> QED
  BY <1>1, <1>2

\* Claims and a higher ceiling keep it.
LEMMA WindowSame ==
    ASSUME NEW b, NEW c, IsFiniteSet(DOMAIN b), DOMAIN c = DOMAIN b,
           \A x \in DOMAIN b : c[x].principal = b[x].principal /\ c[x].start = b[x].start,
           NEW s, NEW issued, NEW top, Window(b, s, issued, top)
    PROVE  Window(c, s, issued, top)
<1>1. /\ SinceOf(c, s) = SinceOf(b, s) /\ SinceOf(b, s) \in SUBSET DOMAIN b
      /\ BeforeOf(c, s) = BeforeOf(b, s) /\ BeforeOf(b, s) \in SUBSET DOMAIN b
  BY DEF SinceOf, BeforeOf
<1>2. IsFiniteSet(SinceOf(b, s)) /\ IsFiniteSet(BeforeOf(b, s))
  BY <1>1, FS_Subset
<1>3. SoldOf(c, SinceOf(b, s)) = SoldOf(b, SinceOf(b, s))
  BY <1>1, <1>2, SoldSame
<1>4. SoldOf(c, BeforeOf(b, s)) = SoldOf(b, BeforeOf(b, s))
  BY <1>1, <1>2, SoldSame
<1> QED
  BY <1>1, <1>3, <1>4 DEF Window

\* Any day's length of time that ends now meets the window and the day before it.
LEMMA WindowBounds ==
    ASSUME Day \in Nat, NEW b, IsFiniteSet(DOMAIN b), \A x \in DOMAIN b : Entry(b[x]),
           NEW s \in Nat, NEW issued \in Nat, NEW top \in Nat, Window(b, s, issued, top),
           NEW t \in Nat, s <= t
    PROVE  SoldOf(b, SinceOf(b, t - Day + 1)) <= 2 * top
<1> DEFINE A == SinceOf(b, s)
           B == BeforeOf(b, s)
           U == A \cup B
<1>1. A \cap B = {} /\ SinceOf(b, t - Day + 1) \in SUBSET U /\ U \in SUBSET DOMAIN b
  BY DEF SinceOf, BeforeOf, Entry
<1>2. /\ IsFiniteSet(A) /\ IsFiniteSet(B) /\ IsFiniteSet(U)
      /\ IsFiniteSet(SinceOf(b, t - Day + 1))
  BY <1>1, FS_Subset
<1>3. \A x \in U : b[x].principal \in Nat
  BY <1>1 DEF Entry
<1>4. SoldOf(b, A) <= top /\ SoldOf(b, B) <= top
  BY DEF Window
<1> HIDE DEF A, B
<1>5. SoldOf(b, A \cup B) = SoldOf(b, A) + SoldOf(b, B)
  BY <1>1, <1>2, <1>3, SoldApart
<1>6. SoldOf(b, A) \in Nat /\ SoldOf(b, B) \in Nat
  BY <1>2, <1>3, SoldNat
<1>7. SoldOf(b, SinceOf(b, t - Day + 1)) \in Nat
  BY <1>1, <1>2, <1>3, SoldNat
<1>8. SoldOf(b, SinceOf(b, t - Day + 1)) <= SoldOf(b, U)
  <2> HIDE DEF U
  <2> QED
    BY <1>1, <1>2, <1>3, SoldWithin
<1>9. SoldOf(b, U) <= 2 * top
  BY <1>4, <1>5, <1>6
<1>10. SoldOf(b, U) \in Nat
  BY <1>5, <1>6
<1> HIDE DEF U
<1> QED
  BY <1>7, <1>8, <1>9, <1>10

---------------------------------------------------------------------------
(* The epoch of one market, whose record is r.                              *)

Counted(b, m, r, length) ==
    /\ r.issued = SoldOf(b, MarketOf(b, m, r.epochStart))
    /\ \A q \in DOMAIN b : b[q].market = m => b[q].start < r.epochStart + length

\* A bond of the market itself, after the roll.
LEMMA CountedBond ==
    ASSUME NEW b, NEW c, NEW q, NEW p, Enters(b, c, q, p),
           NEW m, p.market = m, NEW r, r.epochStart \in Nat, NEW length \in Nat,
           Counted(b, m, r, length),
           NEW s, s.epochStart \in Nat, s.epochStart <= p.start, p.start < s.epochStart + length,
           \/ s.epochStart = r.epochStart /\ s.issued = r.issued + p.principal
           \/ s.epochStart >= r.epochStart + length /\ s.issued = 0 + p.principal
    PROVE  Counted(c, m, s, length)
<1>e. /\ q \notin DOMAIN b /\ DOMAIN c = DOMAIN b \cup {q} /\ c[q] = p
      /\ \A x \in DOMAIN b : c[x] = b[x] /\ b[x].start \in Nat
      /\ p.start \in Nat /\ p.principal \in Nat
  BY DEF Enters, Entry
<1>1. \A x \in DOMAIN c : c[x].market = m => c[x].start < s.epochStart + length
  BY <1>e DEF Counted
<1>2. CASE s.epochStart = r.epochStart /\ s.issued = r.issued + p.principal
  <2>1. /\ \A x : x \in MarketOf(c, m, s.epochStart) <=> x \in MarketOf(b, m, r.epochStart) \/ x = q
        /\ MarketOf(b, m, r.epochStart) \in SUBSET DOMAIN b
    BY <1>e, <1>2 DEF MarketOf
  <2>2. SoldOf(c, MarketOf(c, m, s.epochStart))
            = SoldOf(b, MarketOf(b, m, r.epochStart)) + p.principal
    BY <2>1, SoldGrows
  <2> QED
    BY <1>1, <1>2, <2>2 DEF Counted
<1>3. CASE s.epochStart >= r.epochStart + length /\ s.issued = 0 + p.principal
  <2>1. /\ \A x : x \in MarketOf(c, m, s.epochStart) <=> x \in {} \/ x = q
        /\ {} \in SUBSET DOMAIN b
    BY <1>e, <1>3 DEF MarketOf, Counted
  <2>2. SoldOf(c, MarketOf(c, m, s.epochStart)) = SoldOf(b, {}) + p.principal
    BY <2>1, SoldGrows
  <2> QED
    BY <1>1, <1>3, <2>2, SoldNone DEF Counted
<1> QED
  BY <1>2, <1>3

\* A bond of another market.
LEMMA CountedAside ==
    ASSUME NEW b, NEW c, NEW q, NEW p, Enters(b, c, q, p),
           NEW m, p.market # m, NEW r, NEW length, Counted(b, m, r, length)
    PROVE  Counted(c, m, r, length)
<1>e. /\ IsFiniteSet(DOMAIN b) /\ DOMAIN c = DOMAIN b \cup {q} /\ c[q] = p
      /\ \A x \in DOMAIN b : c[x] = b[x]
  BY DEF Enters
<1>1. /\ MarketOf(c, m, r.epochStart) = MarketOf(b, m, r.epochStart)
      /\ MarketOf(b, m, r.epochStart) \in SUBSET DOMAIN b
  BY <1>e DEF MarketOf
<1>2. SoldOf(c, MarketOf(b, m, r.epochStart)) = SoldOf(b, MarketOf(b, m, r.epochStart))
  BY <1>e, <1>1, SoldSame, FS_Subset
<1> QED
  BY <1>e, <1>1, <1>2 DEF Counted

\* Claims, a longer epoch, and a record that keeps its epoch.
LEMMA CountedSame ==
    ASSUME NEW b, NEW c, IsFiniteSet(DOMAIN b), DOMAIN c = DOMAIN b,
           \A x \in DOMAIN b : /\ c[x].principal = b[x].principal /\ c[x].start = b[x].start
                               /\ c[x].market = b[x].market /\ b[x].start \in Nat,
           NEW m, NEW r, NEW length \in Nat, Counted(b, m, r, length), r.epochStart \in Nat,
           NEW s, s.epochStart = r.epochStart, s.issued = r.issued,
           NEW longer \in Nat, length <= longer
    PROVE  Counted(c, m, s, longer)
<1>1. /\ MarketOf(c, m, s.epochStart) = MarketOf(b, m, r.epochStart)
      /\ MarketOf(b, m, r.epochStart) \in SUBSET DOMAIN b
  BY DEF MarketOf
<1>2. SoldOf(c, MarketOf(b, m, r.epochStart)) = SoldOf(b, MarketOf(b, m, r.epochStart))
  BY <1>1, SoldSame, FS_Subset
<1> QED
  BY <1>1, <1>2 DEF Counted

\* A market that has sold nothing.
LEMMA CountedFresh ==
    ASSUME NEW b, NEW m, \A x \in DOMAIN b : b[x].market # m, NEW r, r.issued = 0, NEW length
    PROVE  Counted(b, m, r, length)
<1>1. MarketOf(b, m, r.epochStart) = {}
  BY DEF MarketOf
<1> QED
  BY <1>1, SoldNone DEF Counted

---------------------------------------------------------------------------
(* Vesting.                                                                 *)

\* _vested at time t.
VestedBy(p, t) ==
    IF t - p.start >= p.vest THEN p.principal ELSE (p.principal * (t - p.start)) \div p.vest

LEMMA WholeMonotone ==
    ASSUME NEW a \in Nat, NEW c \in Nat, NEW v \in Nat, v > 0, a <= c
    PROVE  a \div v <= c \div v
<1> DEFINE k == a \div v
           l == c \div v
<1>1. k \in Nat /\ l \in Nat /\ v * k <= a /\ c < v * l + v
  BY WholeParts
<1> HIDE DEF k, l
<1>2. CASE k >= l + 1
  <2>1. v * k >= v * (l + 1) /\ v * (l + 1) = v * l + v
    BY <1>1, <1>2, Z3
  <2>2. v * k \in Nat /\ v * l \in Nat
    BY <1>1, Z3
  <2> QED
    BY <1>1, <2>1, <2>2
<1> QED
  BY <1>1, <1>2 DEF k, l

LEMMA WholeOfProduct ==
    ASSUME NEW n \in Nat, NEW v \in Nat, v > 0 PROVE (n * v) \div v = n
<1> DEFINE k == (n * v) \div v
<1>1. n * v \in Nat /\ k \in Nat /\ v * k <= n * v /\ n * v < v * k + v
  <2>1. n * v \in Nat
    BY Z3
  <2> QED
    BY <2>1, WholeParts
<1> HIDE DEF k
<1>2. ~(k >= n + 1)
  <2> SUFFICES ASSUME k >= n + 1 PROVE FALSE
    OBVIOUS
  <2>1. v * k >= v * (n + 1) /\ v * (n + 1) = n * v + v
    BY <1>1, Z3
  <2> QED
    BY <1>1, <2>1
<1>3. ~(n >= k + 1)
  <2> SUFFICES ASSUME n >= k + 1 PROVE FALSE
    OBVIOUS
  <2>1. n * v >= (k + 1) * v /\ (k + 1) * v = v * k + v
    BY <1>1, Z3
  <2> QED
    BY <1>1, <2>1
<1> QED
  BY <1>1, <1>2, <1>3 DEF k

(* What has vested is a natural, at most the principal, and only grows.     *)
LEMMA VestGrows ==
    ASSUME NEW p, p.principal \in Nat, p.start \in Nat, p.vest \in Nat \ {0},
           NEW t \in Nat, p.start <= t, NEW u \in Nat, t <= u
    PROVE  /\ VestedBy(p, t) \in Nat /\ VestedBy(p, t) <= VestedBy(p, u)
           /\ VestedBy(p, u) <= p.principal
<1> DEFINE n == p.principal
           v == p.vest
           d == t - p.start
           e == u - p.start
<1>1. n \in Nat /\ v \in Nat /\ v > 0 /\ d \in Nat /\ e \in Nat /\ d <= e
  OBVIOUS
<1>2. /\ VestedBy(p, t) = IF d >= v THEN n ELSE (n * d) \div v
      /\ VestedBy(p, u) = IF e >= v THEN n ELSE (n * e) \div v
  BY DEF VestedBy
<1> HIDE DEF n, v, d, e
<1>3. n * d \in Nat /\ n * e \in Nat /\ n * v \in Nat /\ n * d <= n * e
      /\ (d < v => n * d <= n * v) /\ (e < v => n * e <= n * v)
  BY <1>1, Z3
<1>4. (n * d) \div v \in Nat /\ (n * d) \div v <= (n * e) \div v
  BY <1>1, <1>3, WholeParts, WholeMonotone
<1>5. (n * v) \div v = n
  BY <1>1, WholeOfProduct
<1>6. (d < v => (n * d) \div v <= n) /\ (e < v => (n * e) \div v <= n)
  BY <1>1, <1>3, <1>5, WholeMonotone
<1>7. (n * e) \div v \in Nat
  BY <1>1, <1>3, WholeParts
<1>8. VestedBy(p, t) \in Nat /\ VestedBy(p, t) <= VestedBy(p, u) /\ VestedBy(p, u) <= n
  <2>1. CASE d >= v
    BY <1>1, <1>2, <2>1
  <2>2. CASE d < v /\ e >= v
    BY <1>1, <1>2, <1>4, <1>6, <2>2
  <2>3. CASE e < v
    BY <1>1, <1>2, <1>4, <1>6, <1>7, <2>3
  <2> QED
    BY <1>1, <2>1, <2>2, <2>3
<1> QED
  BY <1>8 DEF n

---------------------------------------------------------------------------
(* The shell's books.  The invariant: what it holds backs what it owes, no  *)
(* claim is ahead of its vest, what it holds cannot be burned, and the day  *)
(* is counted.  That escrow stays under supply is what makes Burn's guard   *)
(* meaningful; that every sale lies within a day of the window's start is   *)
(* what lets the window restart from nothing.                               *)
BookInv ==
    /\ TypeOK /\ IsFiniteSet(Places)
    /\ EscrowCoversVesting /\ ClaimedWithinVested /\ escrow <= supply
    /\ Window(Held, dailyStart, dailyIssued, dailyCeiling)

LEMMA PlaceIs ==
    /\ \A q : q \in Places <=> \E o \in Owners : \E i \in PositionsOf(o) : q = <<o, i>>
    /\ \A q : q \in Places' <=> \E o \in Owners : \E i \in PositionsOf(o)' : q = <<o, i>>
BY DEF Places, PlacesOf

LEMMA HeldIs ==
    /\ DOMAIN Held = Places /\ DOMAIN Held' = Places'
    /\ \A o \in Owners : \A i \in PositionsOf(o) :
           <<o, i>> \in Places /\ Held[<<o, i>>] = positions[o][i]
    /\ \A o \in Owners : \A i \in PositionsOf(o)' :
           <<o, i>> \in Places' /\ Held'[<<o, i>>] = positions'[o][i]
<1>1. /\ \A o \in Owners : \A i \in PositionsOf(o) : <<o, i>> \in Places
      /\ \A o \in Owners : \A i \in PositionsOf(o)' : <<o, i>> \in Places'
  BY PlaceIs
<1>2. /\ DOMAIN Held = Places /\ DOMAIN Held' = Places'
      /\ \A q \in Places : Held[q] = positions[q[1]][q[2]]
      /\ \A q \in Places' : Held'[q] = positions'[q[1]][q[2]]
  BY DEF Held
<1>3. \A o, i : <<o, i>>[1] = o /\ <<o, i>>[2] = i
  OBVIOUS
<1> QED
  BY <1>1, <1>2, <1>3

LEMMA VestedIs == \A p : Vested(p) = VestedBy(p, now) /\ Vested(p)' = VestedBy(p, now')
BY DEF Vested, VestedBy

(* The properties, entry by entry.                                          *)
LEMMA ByEntry ==
    /\ EscrowCoversVesting <=> escrow = OwedOf(Held, Places)
    /\ EscrowCoversVesting' <=> escrow' = OwedOf(Held', Places')
    /\ DayCountsItsBonds <=> dailyIssued = SoldOf(Held, SinceOf(Held, dailyStart))
    /\ NoDayIssuesTwoCaps <=> SoldOf(Held, SinceOf(Held, now - Day + 1)) <= 2 * dailyCeiling
<1>1. DOMAIN Held = Places
  BY HeldIs
<1>2. \A t : Since(t) = SinceOf(Held, t)
  BY <1>1 DEF Since, SinceOf
<1>3. /\ \A P : Sold(P) = SoldOf(Held, P)
      /\ Owed(Places) = OwedOf(Held, Places) /\ Owed(Places)' = OwedOf(Held', Places')
  BY Zenon DEF Sold, SoldOf, Owed, OwedOf
<1> QED
  BY <1>2, <1>3 DEF EscrowCoversVesting, DayCountsItsBonds, NoDayIssuesTwoCaps

LEMMA ClaimedIs ==
    /\ ClaimedWithinVested <=>
           \A q \in Places : /\ Held[q].claimed <= VestedBy(Held[q], now)
                             /\ VestedBy(Held[q], now) <= Held[q].principal
    /\ ClaimedWithinVested' <=>
           \A q \in Places' : /\ Held'[q].claimed <= VestedBy(Held'[q], now')
                              /\ VestedBy(Held'[q], now') <= Held'[q].principal
<1>1. ClaimedWithinVested <=>
          \A o \in Owners : \A i \in PositionsOf(o) :
              /\ positions[o][i].claimed <= VestedBy(positions[o][i], now)
              /\ VestedBy(positions[o][i], now) <= positions[o][i].principal
  BY VestedIs DEF ClaimedWithinVested
<1>2. ClaimedWithinVested' <=>
          \A o \in Owners : \A i \in PositionsOf(o)' :
              /\ positions'[o][i].claimed <= VestedBy(positions'[o][i], now')
              /\ VestedBy(positions'[o][i], now') <= positions'[o][i].principal
  BY VestedIs DEF ClaimedWithinVested
<1>3. \A q \in Places : \E o \in Owners : \E i \in PositionsOf(o) :
             q = <<o, i>> /\ Held[q] = positions[o][i]
  BY PlaceIs, HeldIs
<1>4. \A q \in Places' : \E o \in Owners : \E i \in PositionsOf(o)' :
             q = <<o, i>> /\ Held'[q] = positions'[o][i]
  BY PlaceIs, HeldIs
<1>5. /\ \A o \in Owners : \A i \in PositionsOf(o) :
             \E q \in Places : Held[q] = positions[o][i]
      /\ \A o \in Owners : \A i \in PositionsOf(o)' :
             \E q \in Places' : Held'[q] = positions'[o][i]
  BY HeldIs
<1>6. ClaimedWithinVested <=>
          \A q \in Places : /\ Held[q].claimed <= VestedBy(Held[q], now)
                            /\ VestedBy(Held[q], now) <= Held[q].principal
  BY <1>1, <1>3, <1>5
<1>7. ClaimedWithinVested' <=>
          \A q \in Places' : /\ Held'[q].claimed <= VestedBy(Held'[q], now')
                             /\ VestedBy(Held'[q], now') <= Held'[q].principal
  BY <1>2, <1>4, <1>5
<1> QED
  BY <1>6, <1>7

LEMMA Entries ==
    ASSUME TypeOK, VestLengths \subseteq Nat \ {0}, MaxTime \in Nat
    PROVE  \A q \in Places : /\ Held[q] \in Position /\ Entry(Held[q]) /\ Held[q].start <= now
                             /\ Held[q].vest \in Nat \ {0} /\ Held[q].market \in 1 .. Len(markets)
<1> SUFFICES ASSUME NEW o \in Owners, NEW i \in PositionsOf(o)
             PROVE  /\ positions[o][i] \in Position /\ Entry(positions[o][i])
                    /\ positions[o][i].start <= now /\ positions[o][i].vest \in Nat \ {0}
                    /\ positions[o][i].market \in 1 .. Len(markets)
  BY PlaceIs, HeldIs
<1>1. /\ positions[o] \in Seq(Position) /\ i \in 1 .. Len(positions[o])
      /\ positions[o][i].start <= now /\ positions[o][i].market <= Len(markets)
  BY DEF TypeOK, PositionsOf
<1>2. positions[o][i] \in Position
  BY <1>1
<1> DEFINE p == positions[o][i]
<1>3. p.principal \in Nat /\ p.claimed \in Nat /\ p.start \in Nat /\ p.vest \in Nat \ {0}
  <2>1. /\ p.principal \in Nat /\ p.claimed \in Nat /\ p.start \in 0 .. MaxTime
        /\ p.vest \in VestLengths
    BY <1>2 DEF Position
  <2> HIDE DEF p
  <2>2. p.start \in Nat
    BY <2>1
  <2>3. p.vest \in Nat \ {0}
    BY <2>1
  <2> QED
    BY <2>1, <2>2, <2>3
<1>4. p.market \in 1 .. Len(markets)
  <2>1. p.market \in MarketIds /\ Len(markets) \in Nat
    BY <1>2 DEF Position, TypeOK
  <2> HIDE DEF p
  <2>2. p.market <= Len(markets)
    BY <1>1 DEF p
  <2> QED
    BY <2>1, <2>2 DEF MarketIds
<1> QED
  BY <1>1, <1>2, <1>3, <1>4 DEF Entry

---------------------------------------------------------------------------
(* Paying out: claim and claimAll, at the places C.                         *)

Paying(C) ==
    /\ C \in SUBSET Places /\ Places' = Places
    /\ \A q \in Places :
           Held'[q] = [Held[q] EXCEPT !.claimed =
                          IF q \in C THEN VestedBy(Held[q], now) ELSE Held[q].claimed]
    /\ escrow' = escrow - ClaimableAt(C)
    /\ UNCHANGED <<now, govern, book, daily, supply>>

LEMMA Pays ==
    ASSUME BandAssumption, TimeAssumption, BookInv, NEW C, Paying(C)
    PROVE  /\ IsFiniteSet(Places') /\ escrow' \in Nat /\ escrow' <= supply'
           /\ EscrowCoversVesting' /\ ClaimedWithinVested'
           /\ Window(Held', dailyStart', dailyIssued', dailyCeiling')
<1> DEFINE due == [q \in C |-> Claimable(Held[q])]
           b == Held
           c == Held'
<1>1. /\ DOMAIN b = Places /\ DOMAIN c = Places /\ Places' = Places /\ C \in SUBSET Places
      /\ IsFiniteSet(Places) /\ now \in Nat
  BY HeldIs DEF Paying, BookInv, TypeOK, TimeAssumption
<1>2. \A q \in Places : /\ Held[q] \in Position /\ Entry(b[q]) /\ b[q].start <= now
                        /\ b[q].vest \in Nat \ {0}
  BY Entries DEF BookInv, BandAssumption, TimeAssumption
<1>3. \A q \in Places : /\ VestedBy(b[q], now) \in Nat /\ VestedBy(b[q], now) <= b[q].principal
                        /\ b[q].claimed <= VestedBy(b[q], now)
  BY <1>1, <1>2, VestGrows, ClaimedIs DEF BookInv, Entry
<1>4. \A q \in Places :
          /\ c[q].principal = b[q].principal /\ c[q].start = b[q].start /\ c[q].vest = b[q].vest
          /\ c[q].claimed = IF q \in C THEN VestedBy(b[q], now) ELSE b[q].claimed
  <2> SUFFICES ASSUME NEW q \in Places
               PROVE  /\ c[q].principal = b[q].principal /\ c[q].start = b[q].start
                      /\ c[q].vest = b[q].vest
                      /\ c[q].claimed = IF q \in C THEN VestedBy(b[q], now) ELSE b[q].claimed
    OBVIOUS
  <2>1. Held[q] \in Position
    BY <1>2
  <2>2. Held'[q] = [Held[q] EXCEPT !.claimed =
                      IF q \in C THEN VestedBy(Held[q], now) ELSE Held[q].claimed]
    BY DEF Paying
  <2> HIDE DEF b, c
  <2>3. b[q] = Held[q] /\ c[q] = Held'[q]
    BY Zenon DEF b, c
  <2> QED
    BY <2>1, <2>2, <2>3 DEF Position
<1>5. \A q \in C : due[q] = VestedBy(b[q], now) - b[q].claimed
  BY VestedIs DEF Claimable
<1>6. ClaimableAt(C) = SumFunctionOnSet(due, C)
  BY Zenon DEF ClaimableAt
<1>7. OwedOf(b, Places) = escrow /\ escrow' = escrow - ClaimableAt(C) /\ escrow \in Nat
      /\ escrow <= supply /\ supply \in Nat
      /\ UNCHANGED <<now, supply, dailyStart, dailyIssued, dailyCeiling>>
  BY ByEntry DEF BookInv, TypeOK, Paying, daily
<1>w. Window(b, dailyStart, dailyIssued, dailyCeiling)
  BY DEF BookInv
<1>c. \A q \in Places : VestedBy(c[q], now) = VestedBy(b[q], now)
  BY <1>4 DEF VestedBy
<1> HIDE DEF due, b, c
<1>8. \A x \in DOMAIN b : /\ Entry(b[x]) /\ c[x].principal = b[x].principal
                          /\ c[x].claimed = IF x \in C THEN b[x].claimed + due[x] ELSE b[x].claimed
  BY <1>1, <1>2, <1>3, <1>4, <1>5 DEF Entry
<1>9. \A x \in C : due[x] \in Nat /\ due[x] \in Int
  BY <1>1, <1>2, <1>3, <1>5 DEF Entry
<1>10. OwedOf(c, DOMAIN c) = OwedOf(b, DOMAIN b) - SumFunctionOnSet(due, C)
  BY <1>1, <1>8, <1>9, OwedPaid
<1>11. escrow' = OwedOf(c, Places)
  BY <1>1, <1>6, <1>7, <1>10
<1>12. \A x \in Places : c[x].principal - c[x].claimed \in Nat
  BY <1>2, <1>3, <1>4 DEF Entry
<1>13. OwedOf(c, Places) \in Nat
  BY <1>1, <1>12, OwedNat
<1>14. SumFunctionOnSet(due, C) \in Nat
  BY <1>1, <1>9, SumNat, FS_Subset
<1>15. ClaimedWithinVested'
  BY <1>1, <1>2, <1>3, <1>4, <1>7, <1>c, ClaimedIs DEF c, Entry
<1>16. Window(c, dailyStart, dailyIssued, dailyCeiling)
  BY <1>1, <1>4, <1>w, WindowSame
<1> QED
  BY <1>1, <1>6, <1>7, <1>11, <1>13, <1>14, <1>15, <1>16, ByEntry DEF c

(* What the book says of each position.                                     *)
LEMMA Terms ==
    ASSUME BookInv, BandAssumption, TimeAssumption
    PROVE  /\ now \in Nat
           /\ \A o \in Owners : \A i \in 1 .. Len(positions[o]) :
                  /\ positions[o][i] \in Position
                  /\ positions[o][i].start <= now /\ positions[o][i].market <= Len(markets)
                  /\ Vested(positions[o][i]) \in Nat
<1>1. now \in Nat /\ TypeOK /\ VestLengths \subseteq Nat \ {0} /\ MaxTime \in Nat
  <2>1. TypeOK
    BY DEF BookInv
  <2>2. now \in 0 .. MaxTime /\ MaxTime \in Nat
    BY <2>1 DEF TypeOK, TimeAssumption
  <2> QED
    BY <2>1, <2>2 DEF BandAssumption
<1> SUFFICES ASSUME NEW o \in Owners, NEW i \in 1 .. Len(positions[o])
             PROVE  /\ positions[o][i] \in Position
                    /\ positions[o][i].start <= now /\ positions[o][i].market <= Len(markets)
                    /\ Vested(positions[o][i]) \in Nat
  BY <1>1
<1>2. <<o, i>> \in Places /\ Held[<<o, i>>] = positions[o][i]
  BY HeldIs DEF PositionsOf
<1>3. /\ positions[o][i] \in Position /\ Entry(positions[o][i])
      /\ positions[o][i].start <= now /\ positions[o][i].vest \in Nat \ {0}
  BY <1>1, <1>2, Entries
<1>4. Vested(positions[o][i]) \in Nat
  BY <1>1, <1>3, VestGrows, VestedIs DEF Entry
<1> QED
  BY <1>1, <1>3, <1>4 DEF TypeOK

LEMMA PaidTypes ==
    ASSUME TypeOK, UNCHANGED <<now, govern, book, daily, supply>>,
           positions' \in [Owners -> Seq(Position)], escrow' \in Nat,
           \A o \in Owners : \A k \in 1 .. Len(positions'[o]) :
               positions'[o][k].start <= now /\ positions'[o][k].market <= Len(markets)
    PROVE  TypeOK'
<1>1. UNCHANGED <<now, epochSeconds, dailyCap, vestSeconds, markets, marketIdOf, dailyIssued,
                  dailyStart, dailyCeiling, supply>>
  BY DEF govern, book, daily
<1>2. /\ now' \in 0 .. MaxTime
      /\ epochSeconds' \in EpochLengths /\ dailyCap' \in DailyCaps /\ vestSeconds' \in VestLengths
      /\ markets' \in Seq(Market) /\ Len(markets') <= MaxCollaterals
      /\ marketIdOf' \in [Collaterals -> 0 .. Len(markets')]
      /\ dailyIssued' \in Nat /\ dailyStart' \in 0 .. now' /\ dailyCeiling' \in Nat
      /\ supply' \in Nat
  BY <1>1 DEF TypeOK
<1>3. \A i \in 1 .. Len(markets') : markets'[i].epochStart <= now'
  BY <1>1 DEF TypeOK
<1>4. \A o \in Owners : \A k \in 1 .. Len(positions'[o]) :
          positions'[o][k].start <= now' /\ positions'[o][k].market <= Len(markets')
  BY <1>1
<1> QED
  BY <1>2, <1>3, <1>4 DEF TypeOK

(* One position of one owner rewritten.                                     *)
LEMMA ClaimPays ==
    ASSUME BookInv, BandAssumption, TimeAssumption, NEW owner \in Owners, NEW i, Claim(owner, i)
    PROVE  Paying({<<owner, i>>}) /\ (escrow' \in Nat => TypeOK')
<1> DEFINE old == positions[owner][i]
           new == [old EXCEPT !.claimed = Vested(old)]
           q == <<owner, i>>
<1>1. /\ i \in 1 .. Len(positions[owner]) /\ escrow' = escrow - Claimable(old)
      /\ positions' = [positions EXCEPT ![owner] = [positions[owner] EXCEPT ![i] = new]]
      /\ UNCHANGED <<now, govern, book, daily, supply>>
  BY DEF Claim, PositionsOf
<1>2. positions \in [Owners -> Seq(Position)] /\ positions[owner] \in Seq(Position)
  BY DEF BookInv, TypeOK
<1>3. q \in Places /\ Held[q] = old
  BY <1>1, HeldIs DEF PositionsOf
<1>4. /\ old \in Position /\ Vested(old) \in Nat
      /\ old.start <= now /\ old.market <= Len(markets)
  BY <1>1, Terms
<1>5. new \in Position /\ new.start = old.start /\ new.market = old.market
  BY <1>4 DEF Position
<1> HIDE DEF new
<1>6. /\ positions' \in [Owners -> Seq(Position)]
      /\ \A o \in Owners : Len(positions'[o]) = Len(positions[o])
      /\ positions'[owner][i] = new
      /\ \A o \in Owners : \A k \in 1 .. Len(positions[o]) :
             o # owner \/ k # i => positions'[o][k] = positions[o][k]
  BY <1>1, <1>2, <1>5
<1>7. Places' = Places
  BY <1>6, PlaceIs DEF PositionsOf
<1>8. \A x \in Places : x # q => Held'[x] = Held[x]
  BY <1>6, HeldIs, PlaceIs DEF PositionsOf
<1>9. Held'[q] = new
  BY <1>1, <1>6, HeldIs DEF PositionsOf
<1>10. ClaimableAt({q}) = Claimable(old)
  <2> DEFINE P == {q}
             f == [x \in P |-> Claimable(Held[x])]
  <2>1. f[q] = Claimable(old) /\ Claimable(old) \in Int /\ \A x \in P : f[x] \in Int
    BY <1>3, <1>4 DEF Claimable, Position
  <2>2. ClaimableAt(P) = SumFunctionOnSet(f, P)
    BY Zenon DEF ClaimableAt
  <2>3. IsFiniteSet({}) /\ \A x : x \in P <=> x \in {} \/ x = q
    BY FS_EmptySet
  <2> HIDE DEF f, P
  <2>4. SumFunctionOnSet(f, P) = SumFunctionOnSet(f, {}) + f[q]
    BY <2>1, <2>3, SumAdds
  <2>5. SumFunctionOnSet(f, P) = Claimable(old)
    BY <2>1, <2>4, SumEmpty
  <2> QED
    BY <2>2, <2>5 DEF P
<1>11. \A x \in Places : Held'[x] = [Held[x] EXCEPT !.claimed =
                             IF x \in {q} THEN VestedBy(Held[x], now) ELSE Held[x].claimed]
  <2>1. \A x \in Places : Held[x] \in Position
    BY Entries DEF BookInv, BandAssumption, TimeAssumption
  <2>2. \A x \in Places : x # q => Held'[x] = [Held[x] EXCEPT !.claimed = Held[x].claimed]
    BY <1>8, <2>1 DEF Position
  <2> QED
    BY <1>3, <1>9, <2>2, VestedIs DEF new
<1>12. Paying({q})
  BY <1>1, <1>3, <1>7, <1>10, <1>11 DEF Paying
<1>13. escrow' \in Nat => TypeOK'
  <2>1. \A o \in Owners : \A k \in 1 .. Len(positions'[o]) :
            positions'[o][k].start <= now /\ positions'[o][k].market <= Len(markets)
    <3>1. \A o \in Owners : \A k \in 1 .. Len(positions[o]) :
              positions[o][k].start <= now /\ positions[o][k].market <= Len(markets)
      BY Terms
    <3> QED
      BY <1>1, <1>4, <1>5, <1>6, <3>1
  <2> QED
    BY <1>1, <1>6, <2>1, PaidTypes DEF BookInv
<1> QED
  BY <1>12, <1>13

(* Every position of one owner rewritten.                                   *)
LEMMA ClaimAllPays ==
    ASSUME BookInv, BandAssumption, TimeAssumption, NEW owner \in Owners, ClaimAll(owner)
    PROVE  Paying(PlacesOf(owner)) /\ (escrow' \in Nat => TypeOK')
<1> DEFINE new(k) == [positions[owner][k] EXCEPT !.claimed = Vested(positions[owner][k])]
<1>1. /\ escrow' = escrow - ClaimableAt(PlacesOf(owner))
      /\ positions' = [positions EXCEPT ![owner] = [k \in 1 .. Len(positions[owner]) |-> new(k)]]
      /\ UNCHANGED <<now, govern, book, daily, supply>>
  BY DEF ClaimAll, PositionsOf
<1>2. positions \in [Owners -> Seq(Position)] /\ positions[owner] \in Seq(Position)
      /\ Len(positions[owner]) \in Nat
  BY DEF BookInv, TypeOK
<1>3. \A o \in Owners : \A k \in 1 .. Len(positions[o]) :
          <<o, k>> \in Places /\ Held[<<o, k>>] = positions[o][k]
  BY HeldIs DEF PositionsOf
<1>4. \A k \in 1 .. Len(positions[owner]) : new(k) \in Position
  <2> SUFFICES ASSUME NEW k \in 1 .. Len(positions[owner]) PROVE new(k) \in Position
    OBVIOUS
  <2>1. positions[owner][k] \in Position /\ Vested(positions[owner][k]) \in Nat
    BY Terms
  <2> QED
    BY <2>1 DEF Position
<1> HIDE DEF new
<1>5. [k \in 1 .. Len(positions[owner]) |-> new(k)] \in Seq(Position)
  BY <1>2, <1>4
<1>6. /\ positions' \in [Owners -> Seq(Position)]
      /\ \A o \in Owners : Len(positions'[o]) = Len(positions[o])
      /\ \A k \in 1 .. Len(positions[owner]) : positions'[owner][k] = new(k)
      /\ \A o \in Owners : o # owner => positions'[o] = positions[o]
  BY <1>1, <1>2, <1>5
<1>7. Places' = Places
  BY <1>6, PlaceIs DEF PositionsOf
<1>8. /\ PlacesOf(owner) \in SUBSET Places
      /\ \A o \in Owners : \A k \in 1 .. Len(positions[o]) :
             <<o, k>> \in PlacesOf(owner) <=> o = owner
  BY DEF Places, PlacesOf, PositionsOf
<1>9. \A o \in Owners : \A k \in 1 .. Len(positions[o]) : Held'[<<o, k>>] = positions'[o][k]
  BY <1>6, HeldIs DEF PositionsOf
<1>10. \A o \in Owners : \A k \in 1 .. Len(positions[o]) :
          positions'[o][k] = [positions[o][k] EXCEPT !.claimed =
              IF o = owner THEN VestedBy(positions[o][k], now) ELSE positions[o][k].claimed]
  <2>1. \A o \in Owners : \A k \in 1 .. Len(positions[o]) : positions[o][k] \in Position
    BY <1>2
  <2>2. \A o \in Owners : \A k \in 1 .. Len(positions[o]) :
            o # owner => positions'[o][k] = [positions[o][k] EXCEPT !.claimed = positions[o][k].claimed]
    BY <1>6, <2>1 DEF Position
  <2>3. \A k \in 1 .. Len(positions[owner]) : positions'[owner][k] =
            [positions[owner][k] EXCEPT !.claimed = VestedBy(positions[owner][k], now)]
    BY <1>6, VestedIs DEF new
  <2> QED
    BY <2>2, <2>3
<1>11. \A q \in Places : Held'[q] = [Held[q] EXCEPT !.claimed =
           IF q \in PlacesOf(owner) THEN VestedBy(Held[q], now) ELSE Held[q].claimed]
  <2> SUFFICES ASSUME NEW o \in Owners, NEW k \in 1 .. Len(positions[o])
               PROVE  Held'[<<o, k>>] = [Held[<<o, k>>] EXCEPT !.claimed =
                          IF <<o, k>> \in PlacesOf(owner) THEN VestedBy(Held[<<o, k>>], now)
                          ELSE Held[<<o, k>>].claimed]
    BY PlaceIs DEF PositionsOf
  <2>1. Held[<<o, k>>] = positions[o][k] /\ Held'[<<o, k>>] = positions'[o][k]
        /\ (<<o, k>> \in PlacesOf(owner) <=> o = owner)
    BY <1>3, <1>8, <1>9
  <2> QED
    BY <1>10, <2>1
<1>12. Paying(PlacesOf(owner))
  BY <1>1, <1>7, <1>8, <1>11 DEF Paying
<1>13. escrow' \in Nat => TypeOK'
  <2>1. \A o \in Owners : \A k \in 1 .. Len(positions'[o]) :
            positions'[o][k].start <= now /\ positions'[o][k].market <= Len(markets)
    <3> SUFFICES ASSUME NEW o \in Owners, NEW k \in 1 .. Len(positions[o])
                 PROVE  positions'[o][k].start <= now /\ positions'[o][k].market <= Len(markets)
      BY <1>6
    <3>1. /\ positions[o][k] \in Position
          /\ positions[o][k].start <= now /\ positions[o][k].market <= Len(markets)
      BY Terms
    <3>2. positions'[o][k] = [positions[o][k] EXCEPT !.claimed =
              IF o = owner THEN VestedBy(positions[o][k], now) ELSE positions[o][k].claimed]
      BY <1>10
    <3> QED
      BY <3>1, <3>2 DEF Position
  <2> QED
    BY <1>1, <1>6, <2>1, PaidTypes DEF BookInv
<1> QED
  BY <1>12, <1>13

---------------------------------------------------------------------------
(* Selling: bond.                                                           *)

\* A capacity in base points of the supply is an amount.
LEMMA ShareIs ==
    ASSUME NEW n \in Nat, NEW k \in Nat, NEW d \in Nat, d > 0
    PROVE  (n * k) \div d \in Nat
<1>1. n * k \in Nat
  BY Z3
<1> QED
  BY <1>1, WholeParts

\* What a bond of market m prices at p: the record it writes and the amount it sells.
SoldBy(m, p) == Lesser(p, Capacity(markets[m]))
Rewrote(m, p) ==
    [RollEpoch(markets[m]) EXCEPT !.issued = @ + SoldBy(m, p), !.total = @ + SoldBy(m, p)]
Entered(m, p) == [principal |-> SoldBy(m, p), claimed |-> 0, start |-> now, vest |-> vestSeconds,
                  market |-> m]

LEMMA RollForward ==
    ASSUME ShellInv, BandAssumption, TimeAssumption, NEW r, Shaped(r, now), ~EpochLive(r)
    PROVE  RollEpoch(r).epochStart >= r.epochStart + epochSeconds
<1>1. now \in Nat /\ epochSeconds \in Nat \ {0} /\ r.epochStart \in 0 .. now /\ epochSeconds > 0
  BY DEF ShellInv, BandAssumption, TimeAssumption, Shaped
<1> DEFINE d == now - r.epochStart
           k == d \div epochSeconds
<1>2. d \in Nat /\ epochSeconds <= d
  BY <1>1 DEF EpochLive
<1>3. k \in Nat /\ d < epochSeconds * k + epochSeconds
  BY <1>1, <1>2, WholeParts
<1>4. RollEpoch(r).epochStart = r.epochStart + k * epochSeconds
  BY DEF RollEpoch, Shaped
<1> HIDE DEF d, k
<1>5. k # 0
  <2> SUFFICES ASSUME k = 0 PROVE FALSE
    OBVIOUS
  <2>1. epochSeconds * k = 0
    BY <1>1
  <2> QED
    BY <1>1, <1>2, <1>3, <2>1
<1>6. k * epochSeconds \in Nat /\ k * epochSeconds >= epochSeconds
  BY <1>1, <1>3, <1>5, Z3
<1> QED
  BY <1>1, <1>4, <1>6

LEMMA BondSells ==
    ASSUME ShellInv, BookInv, BandAssumption, TimeAssumption, NEW m, NEW p \in Nat, NEW to,
           Bond(m, p, to)
    PROVE  /\ SoldBy(m, p) \in Nat \ {0}
           /\ DailyIssuedNow \in Nat /\ DailyCapacity \in Nat
           /\ DailyIssuedNow + SoldBy(m, p) <= DailyCapacity
           /\ RollEpoch(markets[m]) \in Market /\ Rewrote(m, p) \in Market
<1>1. /\ m \in 1 .. Len(markets) /\ SoldBy(m, p) # 0 /\ Shaped(markets[m], now)
      /\ supply \in Nat /\ dailyCap \in Nat /\ BPS \in Nat /\ BPS > 0
      /\ dailyIssued \in Nat /\ markets[m] \in Market
  <2>1. m \in 1 .. Len(markets) /\ SoldBy(m, p) # 0
    BY DEF Bond, SoldBy
  <2>2. Shaped(markets[m], now)
    BY <2>1 DEF ShellInv
  <2>3. markets \in Seq(Market) /\ supply \in Nat /\ dailyCap \in DailyCaps /\ dailyIssued \in Nat
    BY DEF BookInv, TypeOK
  <2> QED
    BY <2>1, <2>2, <2>3 DEF BandAssumption, TimeAssumption
<1> DEFINE r == markets[m]
           issued == IF EpochLive(r) THEN r.issued ELSE 0
           share == (supply * r.cap) \div BPS
<1>2. r.issued \in Nat /\ r.cap \in Nat /\ r.total \in Nat
  <2>1. r.cap \in Caps /\ r.issued \in Nat /\ r.total \in Nat
    BY <1>1 DEF Market
  <2> HIDE DEF r
  <2>2. r.cap \in 0 .. BPS
    BY <2>1 DEF BandAssumption
  <2>3. r.cap \in Nat
    BY <1>1, <2>2
  <2> QED
    BY <2>1, <2>3
<1>3. share \in Nat /\ DailyCapacity \in Nat /\ issued \in Nat /\ DailyIssuedNow \in Nat
  BY <1>1, <1>2, ShareIs DEF DailyCapacity, DailyIssuedNow
<1>4. Capacity(r) = Lesser(Less(share, issued), Less(DailyCapacity, DailyIssuedNow))
  BY DEF Capacity
<1> HIDE DEF share, issued
<1>5. /\ SoldBy(m, p) \in Nat \ {0}
      /\ DailyIssuedNow + SoldBy(m, p) <= DailyCapacity
  BY <1>1, <1>3, <1>4 DEF SoldBy, Lesser, Less
<1>6. RollEpoch(r) \in Market
  <2>1. CASE EpochLive(r)
    BY <1>1, <2>1 DEF RollEpoch
  <2>2. CASE ~EpochLive(r)
    <3> DEFINE s == r.epochStart + ((now - r.epochStart) \div epochSeconds) * epochSeconds
    <3>1. RollEpoch(r) = [r EXCEPT !.epochStart = s, !.issued = 0]
      BY <2>2 DEF RollEpoch
    <3>2. Shaped(RollEpoch(r), now) /\ now \in 0 .. MaxTime
      BY <1>1, RollLands DEF ShellInv
    <3> HIDE DEF s, r
    <3>3. RollEpoch(r).epochStart = s
      BY <1>1, <3>1 DEF Shaped
    <3>4. RollEpoch(r).epochStart \in 0 .. now
      BY <3>2 DEF Shaped
    <3>5. s \in 0 .. MaxTime
      BY <3>2, <3>3, <3>4, TimeAssumption
    <3>6. r \in Market
      BY <1>1 DEF r
    <3>7. [r EXCEPT !.epochStart = s, !.issued = 0] \in Market
      BY <3>5, <3>6 DEF Market
    <3> QED
      BY <3>1, <3>7
  <2> QED
    BY <2>1, <2>2
<1>7. Rewrote(m, p) \in Market
  <2> DEFINE old == RollEpoch(r)
             n == SoldBy(m, p)
  <2>1. Rewrote(m, p) = [old EXCEPT !.issued = old.issued + n, !.total = old.total + n]
    BY DEF Rewrote
  <2>2. old \in Market /\ n \in Nat
    BY <1>5, <1>6
  <2> HIDE DEF old, n
  <2>3. old.issued + n \in Nat /\ old.total + n \in Nat
    BY <2>2 DEF Market
  <2>4. [old EXCEPT !.issued = old.issued + n, !.total = old.total + n] \in Market
    BY <2>2, <2>3 DEF Market
  <2> QED
    BY <2>1, <2>4
<1> QED
  BY <1>3, <1>5, <1>6, <1>7

(* The book gains one entry.                                                *)
LEMMA BondEnters ==
    ASSUME ShellInv, BookInv, BandAssumption, TimeAssumption, NEW m, NEW p \in Nat,
           NEW to \in Owners, Bond(m, p, to)
    PROVE  /\ Enters(Held, Held', <<to, Len(positions[to]) + 1>>, Entered(m, p))
           /\ Entered(m, p) \in Position
           /\ positions' \in [Owners -> Seq(Position)]
           /\ \A o \in Owners : \A k \in 1 .. Len(positions'[o]) :
                  /\ positions'[o][k].start <= now /\ positions'[o][k].market <= Len(markets)
<1> DEFINE e == Entered(m, p)
           n == Len(positions[to]) + 1
           q == <<to, n>>
<1>1. positions' = [positions EXCEPT ![to] = Append(positions[to], e)] /\ m \in 1 .. Len(markets)
  BY DEF Bond, Entered, SoldBy
<1>2. /\ positions \in [Owners -> Seq(Position)] /\ positions[to] \in Seq(Position)
      /\ Len(positions[to]) \in Nat /\ vestSeconds \in VestLengths /\ now \in 0 .. MaxTime
      /\ Len(markets) \in Nat /\ Len(markets) <= MaxCollaterals
  BY DEF BookInv, TypeOK
<1>3. e \in Position /\ Entry(e) /\ e.claimed = 0 /\ e.start = now /\ e.market = m
  <2>1. SoldBy(m, p) \in Nat /\ now \in Nat /\ m \in MarketIds
    BY <1>1, <1>2, BondSells, InputAssumption DEF MarketIds
  <2> QED
    BY <1>2, <2>1 DEF Entered, Position, Entry
<1> HIDE DEF e
<1>4. /\ positions' \in [Owners -> Seq(Position)]
      /\ positions'[to] = Append(positions[to], e) /\ Len(positions'[to]) = n
      /\ positions'[to][n] = e
      /\ \A k \in 1 .. Len(positions[to]) : positions'[to][k] = positions[to][k]
      /\ \A o \in Owners : o # to => positions'[o] = positions[o]
  BY <1>1, <1>2, <1>3
<1>g. \A o \in Owners : \A k : k \in PositionsOf(o)' <=> k \in PositionsOf(o) \/ (o = to /\ k = n)
  <2>1. \A k : k \in 1 .. n <=> k \in 1 .. Len(positions[to]) \/ k = n
    BY <1>2
  <2>2. \A k : k \in PositionsOf(to)' <=> k \in 1 .. n
    BY <1>4 DEF PositionsOf
  <2>3. \A k : k \in PositionsOf(to) <=> k \in 1 .. Len(positions[to])
    BY DEF PositionsOf
  <2>4. \A o \in Owners : o # to => PositionsOf(o)' = PositionsOf(o)
    BY <1>4 DEF PositionsOf
  <2> QED
    BY <2>1, <2>2, <2>3, <2>4
<1>5. \A x : x \in Places' <=> x \in Places \/ x = q
  BY <1>g, PlaceIs
<1>6. q \notin Places
  BY <1>2, PlaceIs DEF PositionsOf
<1>7. \A x \in Places : Held'[x] = Held[x]
  <2> SUFFICES ASSUME NEW o \in Owners, NEW k \in PositionsOf(o)
               PROVE  Held'[<<o, k>>] = Held[<<o, k>>]
    BY PlaceIs
  <2>1. k \in PositionsOf(o)' /\ positions'[o][k] = positions[o][k]
    BY <1>g, <1>4 DEF PositionsOf
  <2> QED
    BY <2>1, HeldIs
<1>8. Held'[q] = e
  <2>1. n \in PositionsOf(to)'
    BY <1>g
  <2> QED
    BY <1>4, <2>1, HeldIs
<1>9. \A x \in Places : Entry(Held[x])
  BY Entries DEF BookInv, BandAssumption, TimeAssumption
<1>10. DOMAIN Held = Places /\ DOMAIN Held' = Places' /\ Places' = Places \cup {q}
  BY <1>5, HeldIs
<1>11. Enters(Held, Held', q, e)
  BY <1>3, <1>6, <1>7, <1>8, <1>9, <1>10 DEF Enters, BookInv
<1>12. \A o \in Owners : \A k \in 1 .. Len(positions'[o]) :
           /\ positions'[o][k].start <= now /\ positions'[o][k].market <= Len(markets)
  <2> SUFFICES ASSUME NEW o \in Owners, NEW k \in 1 .. Len(positions'[o])
               PROVE  positions'[o][k].start <= now /\ positions'[o][k].market <= Len(markets)
    OBVIOUS
  <2>1. CASE o = to /\ k = n
    BY <1>1, <1>2, <1>3, <1>4, <2>1, TimeAssumption
  <2>2. CASE ~(o = to /\ k = n)
    <3>1. k \in 1 .. Len(positions[o]) /\ positions'[o][k] = positions[o][k]
      <4>1. CASE o = to
        <5>1. k \in 1 .. n /\ k # n
          BY <1>4, <2>2, <4>1
        <5>2. k \in 1 .. Len(positions[to])
          BY <1>2, <5>1
        <5> QED
          BY <1>4, <4>1, <5>2
      <4>2. CASE o # to
        BY <1>4, <4>2
      <4> QED
        BY <4>1, <4>2
    <3> QED
      BY <3>1, Terms
  <2> QED
    BY <2>1, <2>2
<1> QED
  BY <1>3, <1>4, <1>11, <1>12 DEF e

LEMMA BondBooks ==
    ASSUME ShellInv, ShellInv', BookInv, BandAssumption, TimeAssumption, NEW m, NEW p \in Nat,
           NEW to \in Owners, Bond(m, p, to)
    PROVE  BookInv'
<1> DEFINE n == SoldBy(m, p)
           q == <<to, Len(positions[to]) + 1>>
           e == Entered(m, p)
<1>1. /\ markets' = [markets EXCEPT ![m] = Rewrote(m, p)] /\ m \in 1 .. Len(markets)
      /\ dailyIssued' = DailyIssuedNow + n
      /\ dailyStart' = (IF DailyLive THEN dailyStart ELSE now)
      /\ dailyCeiling' = Larger(dailyCeiling, DailyCapacity)
      /\ escrow' = escrow + n /\ supply' = supply + n
      /\ UNCHANGED <<now, govern, marketIdOf>>
  BY DEF Bond, Rewrote, SoldBy
<1>2. /\ n \in Nat \ {0} /\ DailyIssuedNow \in Nat /\ DailyCapacity \in Nat
      /\ DailyIssuedNow + n <= DailyCapacity /\ Rewrote(m, p) \in Market
  BY BondSells
<1>3. /\ Enters(Held, Held', q, e) /\ e \in Position /\ positions' \in [Owners -> Seq(Position)]
      /\ \A o \in Owners : \A k \in 1 .. Len(positions'[o]) :
             /\ positions'[o][k].start <= now /\ positions'[o][k].market <= Len(markets)
  BY BondEnters
<1>4. e.principal = n /\ e.start = now /\ e.claimed = 0
  BY DEF Entered
<1>5. /\ now \in Nat /\ dailyStart \in Nat /\ dailyStart <= now /\ dailyIssued \in Nat
      /\ dailyCeiling \in Nat /\ escrow \in Nat /\ supply \in Nat /\ escrow <= supply
      /\ markets \in Seq(Market) /\ Len(markets) <= MaxCollaterals
  BY DEF BookInv, TypeOK, TimeAssumption
<1>6. DailyLive <=> now < dailyStart + Day
  BY DEF DailyLive
<1>7. DailyIssuedNow = IF now < dailyStart + Day THEN dailyIssued ELSE 0
  BY DEF DailyIssuedNow, DailyLive
<1>8. /\ dailyIssued' \in Nat /\ dailyStart' \in 0 .. now /\ dailyCeiling' \in Nat
      /\ dailyCeiling <= dailyCeiling' /\ dailyIssued' <= dailyCeiling'
      /\ escrow' \in Nat /\ supply' \in Nat /\ escrow' <= supply'
  BY <1>1, <1>2, <1>5, SMTT(30) DEF Larger
<1> HIDE DEF n, q, e
<1>9. TypeOK'
  <2>1. markets' \in Seq(Market) /\ Len(markets') = Len(markets)
    BY <1>1, <1>2, <1>5
  <2>2. \A i \in 1 .. Len(markets') : markets'[i].epochStart <= now'
    <3>1. \A i \in 1 .. Len(markets') : markets'[i].epochStart \in 0 .. now'
      BY DEF ShellInv, Shaped
    <3> QED
      BY <3>1
  <2>3. /\ now' \in 0 .. MaxTime /\ marketIdOf' \in [Collaterals -> 0 .. Len(markets')]
        /\ epochSeconds' \in EpochLengths /\ dailyCap' \in DailyCaps /\ vestSeconds' \in VestLengths
    BY <1>1, <2>1 DEF BookInv, TypeOK, govern
  <2> QED
    BY <1>1, <1>3, <1>5, <1>8, <2>1, <2>2, <2>3 DEF TypeOK
<1>10. DOMAIN Held = Places /\ DOMAIN Held' = Places'
  BY HeldIs
<1>11. IsFiniteSet(Places')
  BY <1>3, <1>10, FS_AddElement DEF Enters
<1>12. EscrowCoversVesting'
  <2>1. OwedOf(Held', DOMAIN Held') = OwedOf(Held, DOMAIN Held) + n
    BY <1>3, <1>4, OwedGrows
  <2>2. escrow = OwedOf(Held, Places)
    BY ByEntry DEF BookInv
  <2> QED
    BY <1>1, <1>10, <2>1, <2>2, ByEntry
<1>13. ClaimedWithinVested'
  <2>1. ASSUME NEW x \in Places
        PROVE  /\ Held'[x].claimed <= VestedBy(Held'[x], now')
               /\ VestedBy(Held'[x], now') <= Held'[x].principal
    BY <1>1, <1>3, <1>10, <2>1, ClaimedIs DEF Enters, BookInv
  <2>2. /\ Held'[q].claimed <= VestedBy(Held'[q], now')
        /\ VestedBy(Held'[q], now') <= Held'[q].principal
    <3>1. Held'[q] = e /\ now' = now /\ e.vest \in Nat \ {0} /\ Entry(e)
      BY <1>1, <1>3 DEF Enters, Position, BandAssumption
    <3>2. VestedBy(e, now) \in Nat /\ VestedBy(e, now) <= e.principal
      BY <1>4, <1>5, <3>1, VestGrows DEF Entry
    <3> QED
      BY <1>4, <3>1, <3>2
  <2>3. \A x \in Places' : x \in Places \/ x = q
    BY <1>3, <1>10 DEF Enters
  <2> QED
    BY <2>1, <2>2, <2>3, ClaimedIs
<1>14. Window(Held', dailyStart', dailyIssued', dailyCeiling')
  <2>1. \A x \in DOMAIN Held : Held[x].start <= now
    BY <1>10, Entries DEF BookInv, BandAssumption, TimeAssumption
  <2>2. dailyStart' = IF now < dailyStart + Day THEN dailyStart ELSE now
    BY <1>1, <1>6
  <2>3. dailyIssued' = (IF now < dailyStart + Day THEN dailyIssued ELSE 0) + e.principal
    BY <1>1, <1>4, <1>7
  <2>4. Window(Held, dailyStart, dailyIssued, dailyCeiling) /\ Day \in Nat
    BY TimeAssumption DEF BookInv
  <2>5. /\ Enters(Held, Held', q, e) /\ e.start = now /\ now \in Nat
        /\ dailyStart \in Nat /\ dailyStart <= now /\ dailyIssued \in Nat
        /\ dailyCeiling \in Nat /\ dailyCeiling' \in Nat
        /\ dailyCeiling <= dailyCeiling' /\ dailyIssued' <= dailyCeiling'
    BY <1>3, <1>4, <1>5, <1>8
  <2> QED
    BY <2>1, <2>2, <2>3, <2>4, <2>5, WindowBond
<1> QED
  BY <1>8, <1>9, <1>11, <1>12, <1>13, <1>14 DEF BookInv

---------------------------------------------------------------------------
(* Everything else: the positions stand, time may pass, supply may shrink   *)
(* to no less than the escrow.                                              *)

LEMMA BooksStand ==
    ASSUME BookInv, BandAssumption, TimeAssumption, UNCHANGED <<positions, escrow, daily>>, TypeOK',
           escrow <= supply', now <= now'
    PROVE  BookInv'
<1>1. Places' = Places /\ Held' = Held
  <2>1. Places' = Places
    BY DEF Places, PlacesOf, PositionsOf
  <2> QED
    BY <2>1, Zenon DEF Held
<1>2. EscrowCoversVesting'
  BY <1>1, ByEntry DEF BookInv
<1>3. ClaimedWithinVested'
  <2>1. now \in Nat /\ now' \in Nat
    BY DEF BookInv, TypeOK, TimeAssumption
  <2> SUFFICES ASSUME NEW q \in Places
               PROVE  /\ Held[q].claimed <= VestedBy(Held[q], now')
                      /\ VestedBy(Held[q], now') <= Held[q].principal
    BY <1>1, ClaimedIs
  <2>2. Entry(Held[q]) /\ Held[q].start <= now /\ Held[q].vest \in Nat \ {0}
    BY Entries DEF BookInv, BandAssumption, TimeAssumption
  <2>3. /\ VestedBy(Held[q], now) \in Nat /\ VestedBy(Held[q], now) <= VestedBy(Held[q], now')
        /\ VestedBy(Held[q], now') <= Held[q].principal /\ VestedBy(Held[q], now') \in Nat
    BY <2>1, <2>2, VestGrows DEF Entry
  <2>4. Held[q].claimed <= VestedBy(Held[q], now)
    BY ClaimedIs DEF BookInv
  <2> QED
    BY <2>2, <2>3, <2>4 DEF Entry
<1> QED
  BY <1>1, <1>2, <1>3 DEF BookInv, daily

(* The types of what governance writes.                                     *)
LEMMA GovernTypes ==
    ASSUME TypeOK, ShellInv', InputAssumption, Govern
    PROVE  TypeOK' /\ UNCHANGED <<now, positions, escrow, supply, daily>>
<1>1. UNCHANGED <<now, positions, escrow, supply, daily>>
  BY DEF Govern, RemoveCollateral, AddCollateral, SetMarketOpen, SetCapBpsPerEpoch,
     SetEpochSeconds, SetDailyCapBps, SetVestSeconds, amps
<1>2. /\ epochSeconds' \in EpochLengths /\ dailyCap' \in DailyCaps /\ vestSeconds' \in VestLengths
  BY DEF TypeOK, govern, Govern, RemoveCollateral, AddCollateral, SetMarketOpen, SetCapBpsPerEpoch,
     SetEpochSeconds, SetDailyCapBps, SetVestSeconds
<1> DEFINE Grown == /\ markets' \in Seq(Market) /\ Len(markets') <= MaxCollaterals
                    /\ Len(markets') >= Len(markets)
<1>3. Grown
  <2>0. markets \in Seq(Market) /\ Len(markets) <= MaxCollaterals /\ Len(markets) \in Nat
        /\ now \in 0 .. MaxTime
    BY DEF TypeOK
  <2>1. ASSUME NEW k \in 1 .. Len(markets), NEW r \in Market, markets' = [markets EXCEPT ![k] = r]
        PROVE  Grown
    BY <2>0, <2>1
  <2>2. ASSUME NEW c \in Collaterals, NEW cap \in Caps, NEW open \in BOOLEAN, AddCollateral(c, cap, open)
        PROVE  Grown
    <3> DEFINE r == [collateral |-> c, open |-> open, cap |-> cap, epochStart |-> now,
                     issued |-> 0, total |-> 0]
    <3>1. r \in Market
      BY <2>0 DEF Market
    <3>2. markets' = Append(markets, r) /\ Len(markets) < MaxCollaterals
      BY <2>2 DEF AddCollateral
    <3> HIDE DEF r
    <3> QED
      BY <2>0, <3>1, <3>2, InputAssumption
  <2>3. ASSUME NEW k \in 1 .. Len(markets), NEW open \in BOOLEAN,
               markets' = [markets EXCEPT ![k].open = open]
        PROVE  Grown
    <3> DEFINE r == [markets[k] EXCEPT !.open = open]
    <3>1. markets[k] \in Market
      BY <2>0
    <3>2. r \in Market
      BY <3>1 DEF Market
    <3>3. markets' = [markets EXCEPT ![k] = r]
      BY <2>3
    <3> HIDE DEF r
    <3> QED
      BY <2>1, <3>2, <3>3
  <2>4. ASSUME NEW c \in Collaterals, RemoveCollateral(c) PROVE Grown
    <3> DEFINE k == marketIdOf[c]
    <3>1. k \in 1 .. Len(markets) /\ markets' = [markets EXCEPT ![k].open = FALSE]
      BY <2>0, <2>4 DEF RemoveCollateral, TypeOK
    <3> QED
      BY <2>3, <3>1
  <2>5. ASSUME NEW m, NEW open \in BOOLEAN, SetMarketOpen(m, open) PROVE Grown
    BY <2>3, <2>5 DEF SetMarketOpen
  <2>6. ASSUME NEW m, NEW cap \in Caps, SetCapBpsPerEpoch(m, cap) PROVE Grown
    <3> DEFINE r == [markets[m] EXCEPT !.cap = cap]
    <3>1. m \in 1 .. Len(markets) /\ markets' = [markets EXCEPT ![m] = r]
      BY <2>6 DEF SetCapBpsPerEpoch
    <3>2. markets[m] \in Market
      BY <2>0, <3>1
    <3>3. r \in Market
      BY <3>2 DEF Market
    <3> HIDE DEF r
    <3> QED
      BY <2>1, <3>1, <3>3
  <2>7. ASSUME \/ \E v \in EpochLengths : SetEpochSeconds(v)
               \/ \E v \in DailyCaps : SetDailyCapBps(v)
               \/ \E v \in VestLengths : SetVestSeconds(v)
        PROVE  Grown
    <3>1. markets' = markets
      BY <2>7 DEF SetEpochSeconds, SetDailyCapBps, SetVestSeconds, book
    <3> QED
      BY <2>0, <3>1
  <2> QED
    BY <2>2, <2>4, <2>5, <2>6, <2>7 DEF Govern
<1> HIDE DEF Grown
<1>4. /\ marketIdOf' \in [Collaterals -> 0 .. Len(markets')]
      /\ \A m \in 1 .. Len(markets') : markets'[m].epochStart \in 0 .. now'
  BY DEF ShellInv, Shaped
<1>5. \A o \in Owners : \A i \in 1 .. Len(positions'[o]) :
          positions'[o][i].start <= now' /\ positions'[o][i].market <= Len(markets')
  <2> SUFFICES ASSUME NEW o \in Owners, NEW i \in 1 .. Len(positions[o])
               PROVE  positions[o][i].start <= now /\ positions[o][i].market <= Len(markets')
    BY <1>1
  <2>1. /\ positions[o] \in Seq(Position)
        /\ positions[o][i].start <= now /\ positions[o][i].market <= Len(markets)
    BY DEF TypeOK
  <2>2. positions[o][i] \in Position
    BY <2>1
  <2>3. positions[o][i].market \in MarketIds
    BY <2>2 DEF Position
  <2>4. positions[o][i].market \in Int /\ Len(markets) \in Nat /\ Len(markets') \in Nat
        /\ Len(markets) <= Len(markets')
    BY <1>3, <2>3 DEF MarketIds, TypeOK, Grown
  <2> HIDE DEF TypeOK
  <2> QED
    BY <2>1, <2>4
<1>6. TypeOK'
  <2>1. markets' \in Seq(Market) /\ Len(markets') <= MaxCollaterals
    BY <1>3 DEF Grown
  <2>2. \A m \in 1 .. Len(markets') : markets'[m].epochStart <= now'
    BY <1>4
  <2> QED
    BY <1>1, <1>2, <1>4, <1>5, <2>1, <2>2 DEF TypeOK, daily
<1> QED
  BY <1>1, <1>6

LEMMA BookInit == ASSUME TimeAssumption, Init PROVE BookInv
<1>1. /\ now = 0 /\ positions = [o \in Owners |-> <<>>] /\ markets = <<>> /\ escrow = 0
      /\ supply = GenesisSupply /\ dailyIssued = 0 /\ dailyStart = 0 /\ dailyCeiling = 0
  BY DEF Init
<1>2. \A q : q \notin Places
  BY <1>1, PlaceIs DEF PositionsOf
<1>3. Places = {} /\ DOMAIN Held = {}
  BY <1>2, HeldIs
<1>4. SinceOf(Held, 0) = {} /\ BeforeOf(Held, 0) = {}
  BY <1>3 DEF SinceOf, BeforeOf
<1>5. Window(Held, 0, 0, 0)
  BY <1>3, <1>4, SoldNone DEF Window
<1>6. EscrowCoversVesting
  BY <1>1, <1>3, ByEntry, SoldNone
<1>7. ClaimedWithinVested
  BY <1>3, ClaimedIs
<1>8. TypeOK
  BY <1>1, InputAssumption DEF Init, TypeOK, TimeAssumption
<1> QED
  BY <1>1, <1>3, <1>5, <1>6, <1>7, <1>8, FS_EmptySet DEF BookInv, TimeAssumption

LEMMA BookStep ==
    ASSUME ShellInv, ShellInv', BookInv, TimeAssumption, BandAssumption, InputAssumption, [Next]_vars
    PROVE  BookInv'
<1>0. /\ escrow \in Nat /\ supply \in Nat /\ escrow <= supply /\ now \in 0 .. MaxTime /\ TypeOK
      /\ MaxTime \in Nat
  BY DEF BookInv, TypeOK, TimeAssumption
<1>1. ASSUME NEW o \in Owners, NEW m \in MarketIds, NEW p \in Priced, Bond(m, p, o) PROVE BookInv'
  <2>1. p \in Nat
    BY DEF InputAssumption
  <2> QED
    BY <1>1, <2>1, BondBooks
<1>2. ASSUME NEW C, Paying(C), escrow' \in Nat => TypeOK' PROVE BookInv'
  BY <1>2, Pays DEF BookInv
<1>3. ASSUME NEW o \in Owners, NEW i, Claim(o, i) PROVE BookInv'
  BY <1>2, <1>3, ClaimPays
<1>4. ASSUME NEW o \in Owners, ClaimAll(o) PROVE BookInv'
  BY <1>2, <1>4, ClaimAllPays
<1>5. CASE Govern
  BY <1>0, <1>5, GovernTypes, BooksStand
<1>6. ASSUME NEW a \in Burns, Burn(a) PROVE BookInv'
  <2>1. a \in Nat /\ a <= supply - escrow /\ supply' = supply - a
        /\ UNCHANGED <<now, govern, book, daily, positions, escrow>>
    BY <1>6 DEF Burn, InputAssumption
  <2>2. supply' \in Nat /\ escrow <= supply'
    BY <1>0, <2>1
  <2>3. TypeOK'
    BY <1>0, <2>1, <2>2 DEF TypeOK, govern, book, daily
  <2> QED
    BY <1>0, <2>1, <2>2, <2>3, BooksStand
<1>7. CASE Tick
  <2>1. now' \in 0 .. MaxTime /\ now <= now' /\ UNCHANGED <<govern, book, daily, positions, amps>>
    BY <1>0, <1>7 DEF Tick
  <2>2. TypeOK'
    <3>1. /\ \A o \in Owners : \A i \in 1 .. Len(positions[o]) :
                 positions[o][i].start <= now' /\ positions[o][i].market <= Len(markets)
          /\ \A m \in 1 .. Len(markets) : markets[m].epochStart <= now'
      <4>1. \A m \in 1 .. Len(markets) : markets'[m].epochStart \in 0 .. now'
        BY <2>1 DEF ShellInv, Shaped, book
      <4>2. ASSUME NEW o \in Owners, NEW i \in 1 .. Len(positions[o])
            PROVE  positions[o][i].start <= now' /\ positions[o][i].market <= Len(markets)
        <5>1. /\ positions[o][i] \in Position
              /\ positions[o][i].start <= now /\ positions[o][i].market <= Len(markets)
          BY Terms
        <5>2. positions[o][i].start \in 0 .. MaxTime
          BY <5>1 DEF Position
        <5> QED
          BY <1>0, <2>1, <5>1, <5>2
      <4> QED
        BY <2>1, <4>1, <4>2 DEF book
    <3>2. dailyStart' \in 0 .. now'
      BY <1>0, <2>1 DEF TypeOK, daily
    <3> QED
      BY <1>0, <2>1, <3>1, <3>2 DEF TypeOK, govern, book, daily, amps
  <2> QED
    BY <1>0, <2>1, <2>2, BooksStand DEF amps
<1>8. CASE UNCHANGED vars
  <2>1. TypeOK'
    BY <1>0, <1>8 DEF vars, govern, book, daily, amps, TypeOK
  <2> QED
    BY <1>0, <1>8, <2>1, BooksStand DEF vars, amps
<1> QED
  BY <1>1, <1>3, <1>4, <1>5, <1>6, <1>7, <1>8 DEF Next, Hold

---------------------------------------------------------------------------
(* The epochs.                                                              *)

(* What is inductive while no epoch is shortened: nothing a market sold     *)
(* lies beyond the end of its epoch, so a roll forward leaves it behind.    *)
EpochInv == \A m \in 1 .. Len(markets) : Counted(Held, m, markets[m], epochSeconds)

LEMMA EpochIs == EpochInv => EpochCountsItsBonds
<1> SUFFICES ASSUME EpochInv, NEW m \in 1 .. Len(markets)
             PROVE  markets[m].issued = Sold(Since(markets[m].epochStart) \cap Of(m))
  BY DEF EpochCountsItsBonds
<1> DEFINE t == markets[m].epochStart
           P == MarketOf(Held, m, t)
<1>1. DOMAIN Held = Places
  BY HeldIs
<1>2. Since(t) \cap Of(m) = P
  BY <1>1 DEF Since, Of, MarketOf
<1>3. Sold(P) = SoldOf(Held, P)
  BY Zenon DEF Sold, SoldOf
<1>4. markets[m].issued = SoldOf(Held, P)
  BY DEF EpochInv, Counted
<1> HIDE DEF P
<1> QED
  BY <1>2, <1>3, <1>4, Zenon

(* Markets that keep their epoch and what they issued in it, and perhaps    *)
(* one more that has sold nothing; positions at most claimed.               *)
LEMMA EpochsStand ==
    ASSUME ShellInv, BookInv, EpochInv, BandAssumption, TimeAssumption,
           Places' = Places,
           \A q \in Places : /\ Held'[q].principal = Held[q].principal
                             /\ Held'[q].start = Held[q].start /\ Held'[q].market = Held[q].market,
           \A m \in 1 .. Len(markets') :
               \/ /\ m \in 1 .. Len(markets) /\ markets'[m].issued = markets[m].issued
                  /\ markets'[m].epochStart = markets[m].epochStart
               \/ m \notin 1 .. Len(markets) /\ markets'[m].issued = 0,
           epochSeconds' \in EpochLengths, epochSeconds <= epochSeconds'
    PROVE  EpochInv'
<1> DEFINE b == Held
           c == Held'
<1>1. /\ DOMAIN b = Places /\ DOMAIN c = DOMAIN b /\ IsFiniteSet(DOMAIN b)
      /\ \A x \in DOMAIN b : /\ c[x].principal = b[x].principal /\ c[x].start = b[x].start
                             /\ c[x].market = b[x].market /\ b[x].start \in Nat
                             /\ b[x].market \in 1 .. Len(markets)
  BY HeldIs, Entries DEF BookInv, Entry, BandAssumption, TimeAssumption
<1>2. epochSeconds \in Nat /\ epochSeconds' \in Nat
  BY DEF ShellInv, BandAssumption
<1> SUFFICES ASSUME NEW m \in 1 .. Len(markets') PROVE Counted(c, m, markets'[m], epochSeconds')
  BY DEF EpochInv
<1>3. CASE /\ m \in 1 .. Len(markets) /\ markets'[m].issued = markets[m].issued
           /\ markets'[m].epochStart = markets[m].epochStart
  <2>1. Counted(b, m, markets[m], epochSeconds)
    BY <1>3 DEF EpochInv
  <2>2. markets[m].epochStart \in 0 .. now /\ now \in Nat
    BY <1>3 DEF ShellInv, Shaped, TimeAssumption
  <2>3. markets[m].epochStart \in Nat
    BY <2>2
  <2> HIDE DEF b, c
  <2> QED
    BY <1>1, <1>2, <1>3, <2>1, <2>3, CountedSame
<1>4. CASE m \notin 1 .. Len(markets) /\ markets'[m].issued = 0
  <2>1. \A x \in DOMAIN c : c[x].market # m
    BY <1>1, <1>4
  <2> HIDE DEF b, c
  <2> QED
    BY <1>4, <2>1, CountedFresh
<1> QED
  BY <1>3, <1>4

LEMMA EpochBond ==
    ASSUME ShellInv, BookInv, EpochInv, BandAssumption, TimeAssumption, NEW m, NEW p \in Nat,
           NEW to \in Owners, Bond(m, p, to)
    PROVE  EpochInv'
<1> DEFINE r == markets[m]
           s == Rewrote(m, p)
           n == SoldBy(m, p)
           q == <<to, Len(positions[to]) + 1>>
           e == Entered(m, p)
           b == Held
           c == Held'
<1>1. /\ markets' = [markets EXCEPT ![m] = s] /\ m \in 1 .. Len(markets)
      /\ UNCHANGED <<now, govern, marketIdOf>>
  BY DEF Bond, Rewrote, SoldBy
<1>2. /\ Len(markets') = Len(markets) /\ markets'[m] = s
      /\ \A i \in 1 .. Len(markets) : i # m => markets'[i] = markets[i]
  <2>1. Listing(markets) /\ markets' = Replace(markets, m, s)
    BY <1>1 DEF ShellInv, Replace
  <2> QED
    BY ONLY <1>1, <2>1, Replaced
<1>3. Enters(b, c, q, e) /\ e.principal = n /\ e.start = now /\ e.market = m /\ n \in Nat
  BY BondEnters, BondSells DEF Entered
<1>4. now \in Nat /\ epochSeconds \in Nat /\ Shaped(r, now) /\ Counted(b, m, r, epochSeconds)
      /\ UNCHANGED epochSeconds
  BY <1>1 DEF ShellInv, EpochInv, BandAssumption, TimeAssumption, govern
<1>5. RollEpoch(r) \in Market /\ Shaped(RollEpoch(r), now) /\ EpochLive(RollEpoch(r))
  BY <1>4, BondSells, RollLands
<1>6. s.epochStart = RollEpoch(r).epochStart /\ s.issued = RollEpoch(r).issued + n
  BY <1>5 DEF Rewrote, Market
<1>7. /\ s.epochStart \in 0 .. now /\ now < s.epochStart + epochSeconds /\ r.epochStart \in 0 .. now
  BY <1>4, <1>5, <1>6 DEF Shaped, EpochLive
<1>8. s.epochStart \in Nat /\ s.epochStart <= now /\ r.epochStart \in Nat
  BY <1>4, <1>7
<1>9. \/ s.epochStart = r.epochStart /\ s.issued = r.issued + n
      \/ s.epochStart >= r.epochStart + epochSeconds /\ s.issued = 0 + n
  <2>1. CASE EpochLive(r)
    BY <1>6, <2>1 DEF RollEpoch
  <2>2. CASE ~EpochLive(r)
    BY <1>4, <1>6, <2>2, RollForward, RollLands
  <2> QED
    BY <2>1, <2>2
<1> HIDE DEF r, s, n, q, e, b, c
<1>10. Counted(c, m, s, epochSeconds)
  BY <1>3, <1>4, <1>7, <1>8, <1>9, CountedBond
<1>11. ASSUME NEW i \in 1 .. Len(markets), i # m PROVE Counted(c, i, markets[i], epochSeconds)
  <2>1. Counted(b, i, markets[i], epochSeconds)
    BY DEF EpochInv, b
  <2> QED
    BY <1>3, <1>11, <2>1, CountedAside
<1> QED
  BY <1>2, <1>4, <1>10, <1>11 DEF EpochInv, c

LEMMA EpochStep ==
    ASSUME ShellInv, BookInv, ShellInv', EpochInv, TimeAssumption, BandAssumption, InputAssumption,
           [Next]_vars, [epochSeconds <= epochSeconds']_epochSeconds
    PROVE  EpochInv'
<1>l. epochSeconds <= epochSeconds'
  BY DEF ShellInv, BandAssumption
<1>e. epochSeconds' \in EpochLengths /\ markets \in Seq(Market) /\ Len(markets) \in Nat /\ TypeOK
  <2>1. epochSeconds' \in EpochLengths
    BY DEF ShellInv
  <2>2. TypeOK
    BY DEF BookInv
  <2>3. markets \in Seq(Market) /\ Len(markets) \in Nat
    BY <2>2 DEF TypeOK
  <2> QED
    BY <2>1, <2>2, <2>3
<1>s. (UNCHANGED positions) =>
          /\ Places' = Places
          /\ \A q \in Places : /\ Held'[q].principal = Held[q].principal
                               /\ Held'[q].start = Held[q].start /\ Held'[q].market = Held[q].market
  <2> SUFFICES ASSUME UNCHANGED positions
               PROVE  /\ Places' = Places
                      /\ \A q \in Places : /\ Held'[q].principal = Held[q].principal
                                           /\ Held'[q].start = Held[q].start
                                           /\ Held'[q].market = Held[q].market
    OBVIOUS
  <2>1. Places' = Places
    BY DEF Places, PlacesOf, PositionsOf
  <2>2. Held' = Held
    BY <2>1, Zenon DEF Held
  <2> QED
    BY <2>1, <2>2
<1>1. ASSUME NEW o \in Owners, NEW m \in MarketIds, NEW p \in Priced, Bond(m, p, o) PROVE EpochInv'
  <2>1. p \in Nat
    BY DEF InputAssumption
  <2> QED
    BY <1>1, <2>1, EpochBond
<1>2. ASSUME NEW C, Paying(C) PROVE EpochInv'
  <2>1. /\ Places' = Places /\ UNCHANGED markets
        /\ \A q \in Places : Held'[q] = [Held[q] EXCEPT !.claimed =
               IF q \in C THEN VestedBy(Held[q], now) ELSE Held[q].claimed]
    BY <1>2 DEF Paying, book
  <2>2. \A q \in Places : Held[q] \in Position
    BY Entries DEF BookInv, BandAssumption, TimeAssumption
  <2>3. \A q \in Places : /\ Held'[q].principal = Held[q].principal
                          /\ Held'[q].start = Held[q].start /\ Held'[q].market = Held[q].market
    <3> SUFFICES ASSUME NEW q \in Places
                 PROVE  /\ Held'[q].principal = Held[q].principal
                        /\ Held'[q].start = Held[q].start /\ Held'[q].market = Held[q].market
      OBVIOUS
    <3>1. /\ Held[q] \in Position
          /\ Held'[q] = [Held[q] EXCEPT !.claimed =
                           IF q \in C THEN VestedBy(Held[q], now) ELSE Held[q].claimed]
      BY <2>1, <2>2
    <3> QED
      BY <3>1 DEF Position
  <2> QED
    BY <1>l, <1>e, <2>1, <2>3, EpochsStand
<1>3. ASSUME NEW o \in Owners, NEW i, Claim(o, i) PROVE EpochInv'
  BY <1>2, <1>3, ClaimPays
<1>4. ASSUME NEW o \in Owners, ClaimAll(o) PROVE EpochInv'
  BY <1>2, <1>4, ClaimAllPays
<1>5. ASSUME UNCHANGED positions,
             Len(markets') = Len(markets),
             \A i \in 1 .. Len(markets) : /\ markets'[i].issued = markets[i].issued
                                          /\ markets'[i].epochStart = markets[i].epochStart
      PROVE  EpochInv'
  BY <1>l, <1>e, <1>s, <1>5, EpochsStand
<1>6. CASE Govern
  <2>0. UNCHANGED positions
    BY <1>e, <1>6, GovernTypes
  <2>1. ASSUME NEW c \in Collaterals, NEW cap \in Caps, NEW open \in BOOLEAN, AddCollateral(c, cap, open)
        PROVE  EpochInv'
    <3> DEFINE r == [collateral |-> c, open |-> open, cap |-> cap, epochStart |-> now,
                     issued |-> 0, total |-> 0]
    <3>1. markets' = Extend(markets, r) /\ Listing(markets) /\ r.issued = 0
      BY <2>1 DEF AddCollateral, Extend, ShellInv
    <3> HIDE DEF r
    <3>2. /\ Len(markets') = Len(markets) + 1 /\ markets'[Len(markets) + 1] = r
          /\ \A i \in 1 .. Len(markets) : markets'[i] = markets[i]
      BY <3>1, Extended
    <3>3. \A m \in 1 .. Len(markets') :
              \/ /\ m \in 1 .. Len(markets) /\ markets'[m].issued = markets[m].issued
                 /\ markets'[m].epochStart = markets[m].epochStart
              \/ m \notin 1 .. Len(markets) /\ markets'[m].issued = 0
      BY <1>e, <3>1, <3>2
    <3> QED
      BY <1>l, <1>e, <1>s, <2>0, <3>3, EpochsStand
  <2>2. ASSUME NEW k \in 1 .. Len(markets), NEW r, markets' = [markets EXCEPT ![k] = r],
               r.issued = markets[k].issued, r.epochStart = markets[k].epochStart
        PROVE  EpochInv'
    <3>1. Len(markets') = Len(markets) /\ \A i \in 1 .. Len(markets) :
              markets'[i] = IF i = k THEN r ELSE markets[i]
      <4>1. Listing(markets) /\ markets' = Replace(markets, k, r)
        BY <2>2 DEF ShellInv, Replace
      <4> QED
        BY <4>1, Replaced
    <3> QED
      BY <1>5, <2>0, <2>2, <3>1
  <2>3. ASSUME NEW k \in 1 .. Len(markets), NEW open, markets' = [markets EXCEPT ![k].open = open]
        PROVE  EpochInv'
    <3> DEFINE r == [markets[k] EXCEPT !.open = open]
    <3>1. markets[k] \in Market
      BY <1>e
    <3>2. r.issued = markets[k].issued /\ r.epochStart = markets[k].epochStart
      BY <3>1 DEF Market
    <3>3. markets' = [markets EXCEPT ![k] = r]
      BY <2>3
    <3> HIDE DEF r
    <3> QED
      BY <2>2, <3>2, <3>3
  <2>4. ASSUME NEW c \in Collaterals, RemoveCollateral(c) PROVE EpochInv'
    <3>1. marketIdOf[c] \in 1 .. Len(markets)
          /\ markets' = [markets EXCEPT ![marketIdOf[c]].open = FALSE]
      BY <2>4 DEF RemoveCollateral, ShellInv
    <3> QED
      BY <2>3, <3>1
  <2>5. ASSUME NEW m, NEW open \in BOOLEAN, SetMarketOpen(m, open) PROVE EpochInv'
    BY <2>3, <2>5 DEF SetMarketOpen
  <2>6. ASSUME NEW m, NEW cap \in Caps, SetCapBpsPerEpoch(m, cap) PROVE EpochInv'
    <3> DEFINE r == [markets[m] EXCEPT !.cap = cap]
    <3>1. m \in 1 .. Len(markets) /\ markets' = [markets EXCEPT ![m] = r]
      BY <2>6 DEF SetCapBpsPerEpoch
    <3>2. markets[m] \in Market
      BY <1>e, <3>1
    <3>3. r.issued = markets[m].issued /\ r.epochStart = markets[m].epochStart
      BY <3>2 DEF Market
    <3> HIDE DEF r
    <3> QED
      BY <2>2, <3>1, <3>3
  <2>7. CASE \/ \E v \in EpochLengths : SetEpochSeconds(v)
             \/ \E v \in DailyCaps : SetDailyCapBps(v)
             \/ \E v \in VestLengths : SetVestSeconds(v)
    <3>1. markets' = markets
      BY <2>7 DEF SetEpochSeconds, SetDailyCapBps, SetVestSeconds, book
    <3> QED
      BY <1>5, <2>0, <3>1
  <2> QED
    BY <1>6, <2>1, <2>4, <2>5, <2>6, <2>7 DEF Govern
<1>7. CASE (\E a \in Burns : Burn(a)) \/ Tick \/ UNCHANGED vars
  <2>1. UNCHANGED <<markets, positions>>
    BY <1>7 DEF Burn, Tick, vars, book
  <2> QED
    BY <1>5, <2>1
<1> QED
  BY <1>1, <1>3, <1>4, <1>6, <1>7 DEF Next, Hold

---------------------------------------------------------------------------
(* What a holder and a cap can rely on.                                     *)

(* The books of AmpsBonds balance after every bond, claim, claimAll, burn   *)
(* and change of a parameter; what follows reads them off.                  *)
THEOREM BooksBalance ==
    ASSUME TimeAssumption, BandAssumption, InputAssumption PROVE Spec => []BookInv
<1>1. ShellInv /\ ShellInv' /\ BookInv /\ [Next]_vars => BookInv'
  BY BookStep
<1>2. Init => BookInv
  BY BookInit
<1> QED
  BY <1>1, <1>2, ShellInvariant, PTL DEF Spec

(* VestsAreSolvent: for any number of owners and positions, any vest        *)
(* lengths and any order of claims, the AMPS the shell holds are what its   *)
(* positions are owed, and none is paid ahead of its vest.                  *)
THEOREM VestsStaySolvent ==
    ASSUME TimeAssumption, BandAssumption, InputAssumption PROVE Spec => []VestsAreSolvent
<1>1. BookInv => VestsAreSolvent
  BY DEF BookInv, VestsAreSolvent
<1> QED
  BY <1>1, BooksBalance, PTL

(* dailyIssued of AmpsBonds counts what was sold since its window opened,   *)
(* and nothing that was sold before, whatever became of the parameters.     *)
THEOREM DaysAreCounted ==
    ASSUME TimeAssumption, BandAssumption, InputAssumption
    PROVE  Spec => [](TypeOK /\ DayCountsItsBonds)
<1>1. BookInv => TypeOK /\ DayCountsItsBonds
  BY ByEntry DEF BookInv, Window
<1> QED
  BY <1>1, BooksBalance, PTL

(* NoDayIssuesTwoCaps: the window restarts instead of trailing, and still   *)
(* no day's length of time issues more than two of the highest daily caps.  *)
THEOREM NoDayTwoCaps ==
    ASSUME TimeAssumption, BandAssumption, InputAssumption PROVE Spec => []NoDayIssuesTwoCaps
<1>1. BookInv => NoDayIssuesTwoCaps
  <2> SUFFICES ASSUME BookInv PROVE NoDayIssuesTwoCaps
    OBVIOUS
  <2>1. DOMAIN Held = Places /\ IsFiniteSet(Places) /\ \A x \in Places : Entry(Held[x])
    BY HeldIs, Entries DEF BookInv, BandAssumption, TimeAssumption
  <2>2. /\ Day \in Nat /\ dailyStart \in Nat /\ dailyIssued \in Nat /\ dailyCeiling \in Nat
        /\ now \in Nat /\ dailyStart <= now /\ Window(Held, dailyStart, dailyIssued, dailyCeiling)
    BY DEF BookInv, TypeOK, TimeAssumption
  <2>3. SoldOf(Held, SinceOf(Held, now - Day + 1)) <= 2 * dailyCeiling
    BY <2>1, <2>2, WindowBounds
  <2> QED
    BY <2>3, ByEntry
<1> QED
  BY <1>1, BooksBalance, PTL

(* WindowsCountTheirBonds: Types.sol:281's issuedThisEpoch is what a market *)
(* issued in its current epoch, as long as setEpochSeconds only lengthens.  *)
THEOREM EpochsAreCounted ==
    ASSUME TimeAssumption, BandAssumption, InputAssumption
    PROVE  Spec /\ [][epochSeconds <= epochSeconds']_epochSeconds => []WindowsCountTheirBonds
<1>1. Init => EpochInv
  BY DEF Init, EpochInv
<1>2. ShellInv /\ ShellInv' /\ BookInv /\ EpochInv /\ [Next]_vars
          /\ [epochSeconds <= epochSeconds']_epochSeconds => EpochInv'
  BY EpochStep
<1>3. EpochInv /\ TypeOK /\ DayCountsItsBonds => WindowsCountTheirBonds
  BY EpochIs DEF WindowsCountTheirBonds
<1> QED
  BY <1>1, <1>2, <1>3, ShellInvariant, BooksBalance, DaysAreCounted, PTL DEF Spec

\* A position is its own later self, and so is it once it is claimed further.
LEMMA LaterIs ==
    ASSUME NEW p \in Position
    PROVE  Later(p, p) /\ \A v \in Nat : p.claimed <= v => Later([p EXCEPT !.claimed = v], p)
<1>1. p.claimed \in Nat
  BY DEF Position
<1>2. Later(p, p)
  BY <1>1 DEF Later
<1>3. ASSUME NEW v \in Nat, p.claimed <= v PROVE Later([p EXCEPT !.claimed = v], p)
  <2> DEFINE q == [p EXCEPT !.claimed = v]
  <2>1. q.claimed = v /\ [q EXCEPT !.claimed = 0] = [p EXCEPT !.claimed = 0]
    BY DEF Position
  <2> HIDE DEF q
  <2>2. Later(q, p)
    BY <1>1, <1>3, <2>1 DEF Later
  <2> QED
    BY <2>2 DEF q
<1> QED
  BY <1>2, <1>3

(* TermsAreSold: no call rewrites a position's terms, takes back a claim or *)
(* lowers what a market has issued in all.                                  *)
THEOREM TermsStand ==
    ASSUME TimeAssumption, BandAssumption, InputAssumption PROVE Spec => TermsAreSold
<1> DEFINE Positions == \A o \in Owners : \A i \in PositionsOf(o) :
               Later(positions'[o][i], positions[o][i])
           Totals == \A m \in 1 .. Len(markets) : markets'[m].total >= markets[m].total
<1>1. ShellInv /\ BookInv /\ Next => Positions /\ Totals
  <2> SUFFICES ASSUME ShellInv, BookInv, Next PROVE Positions /\ Totals
    OBVIOUS
  <2>0. /\ now \in Nat /\ TypeOK
        /\ \A o \in Owners : \A i \in PositionsOf(o) :
               /\ <<o, i>> \in Places /\ Held[<<o, i>>] = positions[o][i]
               /\ positions[o][i] \in Position /\ positions[o][i].claimed \in Nat
               /\ Vested(positions[o][i]) \in Nat
               /\ positions[o][i].claimed <= Vested(positions[o][i])
    <3>1. ASSUME NEW o \in Owners, NEW i \in PositionsOf(o)
          PROVE  /\ positions[o][i] \in Position /\ Vested(positions[o][i]) \in Nat
                 /\ positions[o][i].claimed \in Nat
      <4>1. positions[o][i] \in Position /\ Vested(positions[o][i]) \in Nat
        BY Terms DEF PositionsOf
      <4> QED
        BY <4>1 DEF Position
    <3>2. now \in Nat /\ TypeOK
      BY DEF BookInv, TypeOK, TimeAssumption
    <3>3. \A o \in Owners : \A i \in PositionsOf(o) : positions[o][i].claimed <= Vested(positions[o][i])
      BY DEF BookInv, ClaimedWithinVested
    <3> QED
      BY <3>1, <3>2, <3>3, HeldIs
  <2>m. ASSUME NEW i \in 1 .. Len(markets) PROVE markets[i] \in Market /\ markets[i].total \in Nat
    <3>1. markets[i] \in Market
      BY <2>0 DEF TypeOK
    <3> QED
      BY <3>1 DEF Market
  <2>1. ASSUME UNCHANGED positions PROVE Positions
    BY <2>0, <2>1, LaterIs
  <2>2. ASSUME UNCHANGED markets PROVE Totals
    BY <2>m, <2>2
  <2>3. ASSUME NEW o \in Owners, NEW m \in MarketIds, NEW p \in Priced, Bond(m, p, o)
        PROVE  Positions /\ Totals
    <3> DEFINE n == SoldBy(m, p)
               e == Entered(m, p)
               s == Rewrote(m, p)
    <3>1. /\ positions' = [positions EXCEPT ![o] = Append(positions[o], e)]
          /\ markets' = [markets EXCEPT ![m] = s] /\ m \in 1 .. Len(markets)
      BY <2>3 DEF Bond, Entered, Rewrote, SoldBy
    <3>2. n \in Nat /\ RollEpoch(markets[m]) \in Market /\ s.total = RollEpoch(markets[m]).total + n
      BY <2>3, BondSells DEF Rewrote, Market, InputAssumption
    <3>3. RollEpoch(markets[m]).total = markets[m].total
      BY <3>1, <2>m DEF RollEpoch, Market
    <3>4. positions \in [Owners -> Seq(Position)] /\ markets \in Seq(Market)
      BY <2>0 DEF TypeOK
    <3> HIDE DEF n, e, s
    <3>5. \A x \in Owners : \A i \in PositionsOf(x) : positions'[x][i] = positions[x][i]
      <4>1. positions[o] \in Seq(Position)
        BY <3>4
      <4> DEFINE S == Position \cup {e}
      <4>2. positions[o] \in Seq(S) /\ e \in S
        BY <4>1
      <4> HIDE DEF S
      <4>3. \A i \in 1 .. Len(positions[o]) : Append(positions[o], e)[i] = positions[o][i]
        BY <4>2
      <4> QED
        BY <3>1, <3>4, <4>3 DEF PositionsOf
    <3>6. Positions
      BY <2>0, <3>5, LaterIs
    <3>7. \A i \in 1 .. Len(markets) : markets'[i] = IF i = m THEN s ELSE markets[i]
      BY <3>1, <3>4
    <3>8. Totals
      BY <2>m, <3>1, <3>2, <3>3, <3>7
    <3> QED
      BY <3>6, <3>8
  <2>4. ASSUME NEW o \in Owners, NEW i \in 1 .. MaxPositions, Claim(o, i)
        PROVE  Positions /\ Totals
    <3> DEFINE v == Vested(positions[o][i])
    <3>1. /\ positions' = [positions EXCEPT ![o][i].claimed = v] /\ i \in PositionsOf(o)
          /\ UNCHANGED markets
      BY <2>4 DEF Claim, book
    <3>2. positions \in [Owners -> Seq(Position)] /\ v \in Nat /\ positions[o][i].claimed <= v
      BY <2>0, <3>1 DEF TypeOK
    <3> HIDE DEF v
    <3>3. \A x \in Owners : \A k \in PositionsOf(x) :
              positions'[x][k] = IF x = o /\ k = i THEN [positions[x][k] EXCEPT !.claimed = v]
                                 ELSE positions[x][k]
      BY <3>1, <3>2 DEF PositionsOf
    <3>4. Positions
      <4> SUFFICES ASSUME NEW x \in Owners, NEW k \in PositionsOf(x)
                   PROVE  Later(positions'[x][k], positions[x][k])
        OBVIOUS
      <4>1. CASE x = o /\ k = i
        <5>1. Later([positions[x][k] EXCEPT !.claimed = v], positions[x][k])
          BY <2>0, <3>2, <4>1, LaterIs
        <5>2. positions'[x][k] = [positions[x][k] EXCEPT !.claimed = v]
          BY <3>3, <4>1
        <5> QED
          BY <5>1, <5>2, Zenon
      <4>2. CASE ~(x = o /\ k = i)
        BY <2>0, <3>3, <4>2, LaterIs
      <4> QED
        BY <4>1, <4>2
    <3> QED
      BY <2>2, <3>1, <3>4
  <2>5. ASSUME NEW o \in Owners, ClaimAll(o) PROVE Positions /\ Totals
    <3>1. /\ positions' = [positions EXCEPT ![o] = [i \in PositionsOf(o) |->
                 [positions[o][i] EXCEPT !.claimed = Vested(positions[o][i])]]]
          /\ UNCHANGED markets
      BY <2>5 DEF ClaimAll, book
    <3>2. \A x \in Owners : \A k \in PositionsOf(x) :
              positions'[x][k] = IF x = o THEN [positions[x][k] EXCEPT !.claimed = Vested(positions[x][k])]
                                 ELSE positions[x][k]
      BY <2>0, <3>1 DEF TypeOK
    <3>3. Positions
      <4> SUFFICES ASSUME NEW x \in Owners, NEW k \in PositionsOf(x)
                   PROVE  Later(positions'[x][k], positions[x][k])
        OBVIOUS
      <4>1. CASE x = o
        <5> DEFINE v == Vested(positions[x][k])
        <5>1. v \in Nat /\ positions[x][k].claimed <= v /\ positions[x][k] \in Position
          BY <2>0
        <5>2. positions'[x][k] = [positions[x][k] EXCEPT !.claimed = v]
          BY <3>2, <4>1
        <5> HIDE DEF v
        <5>3. Later([positions[x][k] EXCEPT !.claimed = v], positions[x][k])
          BY <5>1, LaterIs
        <5> QED
          BY <5>2, <5>3, Zenon
      <4>2. CASE x # o
        BY <2>0, <3>2, <4>2, LaterIs
      <4> QED
        BY <4>1, <4>2
    <3> QED
      BY <2>2, <3>1, <3>3
  <2>6. CASE Govern
    <3>0. UNCHANGED positions
      BY <2>6 DEF Govern, RemoveCollateral, AddCollateral, SetMarketOpen, SetCapBpsPerEpoch,
         SetEpochSeconds, SetDailyCapBps, SetVestSeconds
    <3>1. ASSUME NEW k \in 1 .. Len(markets), NEW r, markets' = [markets EXCEPT ![k] = r],
                 r.total = markets[k].total
          PROVE  Totals
      <4>1. \A i \in 1 .. Len(markets) : markets'[i] = IF i = k THEN r ELSE markets[i]
        BY <2>0, <3>1 DEF TypeOK
      <4> QED
        BY <2>m, <3>1, <4>1
    <3>2. ASSUME NEW k \in 1 .. Len(markets), NEW open, markets' = [markets EXCEPT ![k].open = open]
          PROVE  Totals
      <4> DEFINE r == [markets[k] EXCEPT !.open = open]
      <4>1. r.total = markets[k].total
        BY <2>m DEF Market
      <4>2. markets' = [markets EXCEPT ![k] = r]
        BY <3>2
      <4> HIDE DEF r
      <4> QED
        BY <3>1, <4>1, <4>2
    <3>3. ASSUME NEW c \in Collaterals, RemoveCollateral(c) PROVE Totals
      <4>1. marketIdOf[c] \in 1 .. Len(markets)
            /\ markets' = [markets EXCEPT ![marketIdOf[c]].open = FALSE]
        BY <3>3 DEF RemoveCollateral, ShellInv
      <4> QED
        BY <3>2, <4>1
    <3>4. ASSUME NEW c \in Collaterals, NEW cap \in Caps, NEW open \in BOOLEAN,
                 AddCollateral(c, cap, open)
          PROVE  Totals
      <4> DEFINE r == [collateral |-> c, open |-> open, cap |-> cap, epochStart |-> now,
                       issued |-> 0, total |-> 0]
      <4>1. markets' = Extend(markets, r) /\ Listing(markets)
        BY <3>4 DEF AddCollateral, Extend, ShellInv
      <4> HIDE DEF r
      <4>2. \A i \in 1 .. Len(markets) : markets'[i] = markets[i]
        BY <4>1, Extended
      <4> QED
        BY <2>m, <4>2
    <3>5. ASSUME NEW m, NEW open \in BOOLEAN, SetMarketOpen(m, open) PROVE Totals
      BY <3>2, <3>5 DEF SetMarketOpen
    <3>6. ASSUME NEW m, NEW cap \in Caps, SetCapBpsPerEpoch(m, cap) PROVE Totals
      <4> DEFINE r == [markets[m] EXCEPT !.cap = cap]
      <4>1. m \in 1 .. Len(markets) /\ markets' = [markets EXCEPT ![m] = r]
        BY <3>6 DEF SetCapBpsPerEpoch
      <4>2. r.total = markets[m].total
        BY <2>m, <4>1 DEF Market
      <4> HIDE DEF r
      <4> QED
        BY <3>1, <4>1, <4>2
    <3>7. ASSUME \/ \E v \in EpochLengths : SetEpochSeconds(v)
                 \/ \E v \in DailyCaps : SetDailyCapBps(v)
                 \/ \E v \in VestLengths : SetVestSeconds(v)
          PROVE  Totals
      <4>1. markets' = markets
        BY <3>7 DEF SetEpochSeconds, SetDailyCapBps, SetVestSeconds, book
      <4> HIDE DEF Totals
      <4> QED
        BY <2>2, <4>1
    <3>8. Totals
      <4> HIDE DEF Totals
      <4> QED
        BY <2>6, <3>3, <3>4, <3>5, <3>6, <3>7 DEF Govern
    <3> QED
      BY <2>1, <3>0, <3>8
  <2>7. CASE (\E a \in Burns : Burn(a)) \/ Tick
    BY <2>1, <2>2, <2>7 DEF Burn, Tick, book
  <2> QED
    BY <2>3, <2>4, <2>5, <2>6, <2>7 DEF Next, Hold
<1> HIDE DEF Positions, Totals
<1>2. ShellInv /\ BookInv /\ [Next]_vars => [Positions /\ Totals]_vars
  BY <1>1
<1> QED
  BY <1>2, ShellInvariant, BooksBalance, PTL DEF Spec, TermsAreSold, Positions, Totals

---------------------------------------------------------------------------
(* The registry over it.                                                    *)

(* A constituent's record, as far as its status and its rollout go.        *)
Filed(c) ==
    c \in [status : Statuses, target : {c.target}, rollout : {c.rollout}, frozen : {c.frozen},
           market : {c.market}, passedBeta : {c.passedBeta}]

(* The inductive invariant.  RetiredStaysShut needs the shell's: a hand is  *)
(* taken off a market by its id, and only Attribution says that no other    *)
(* name's market has that id.                                               *)
IndexInv ==
    /\ ShellInv
    /\ index = [n \in Names |-> index[n]]
    /\ \A n \in Names : Filed(index[n])
    /\ RetiredStaysShut

LEMMA IndexInitial == ASSUME TimeAssumption, IndexInit PROVE IndexInv
<1>1. index = [n \in Names |-> Unlisted]
  BY DEF IndexInit
<1>2. Filed(Unlisted) /\ Unlisted.status = "none"
  BY DEF Filed, Unlisted, Statuses
<1> HIDE DEF Unlisted
<1>3. \A n \in Names : index[n] = Unlisted
  BY <1>1
<1> QED
  BY <1>1, <1>2, <1>3, ShellInit DEF IndexInit, IndexInv, RetiredStaysShut, RetiredStaysClosed,
     RetiredRollsNothing

(* Two collaterals never share a market. *)
LEMMA OwnMarket ==
    ASSUME ShellInv, NEW c \in Collaterals, NEW d \in Collaterals,
           marketIdOf[c] = marketIdOf[d], marketIdOf[c] # 0
    PROVE  c = d
  BY DEF ShellInv, Attribution

(* What switching one market does to the others: nothing. *)
LEMMA Switched ==
    ASSUME ShellInv, NEW m, m \in 1 .. Len(markets), NEW open \in BOOLEAN,
           markets' = [markets EXCEPT ![m].open = open]
    PROVE  /\ markets'[m].open = open /\ Len(markets') = Len(markets)
           /\ \A i \in 1 .. Len(markets) : i # m => markets'[i] = markets[i]
<1> DEFINE r == [markets[m] EXCEPT !.open = open]
<1>1. Shaped(markets[m], now) /\ Listing(markets)
  BY DEF ShellInv
<1>2. r.open = open
  BY <1>1 DEF Shaped
<1> HIDE DEF r
<1>3. markets' = Replace(markets, m, r)
  BY DEF Replace, r
<1> QED
  BY <1>1, <1>2, <1>3, Replaced

(* The registry's hand: it moves the market the shell attributes to the     *)
(* name, and every market keeps its owner.                                  *)
LEMMA Toggling ==
    ASSUME ShellInv, NamesAssumption, NEW n \in Names, NEW open \in BOOLEAN,
           markets' = Toggled(n, open), UNCHANGED <<now, govern, marketIdOf>>
    PROVE  /\ ShellInv' /\ (OpenMarket(n)' => open)
           /\ \A d \in Names : d # n => (OpenMarket(d)' => OpenMarket(d))
<1> DEFINE m == marketIdOf[n]
<1>1. n \in Collaterals /\ m \in 0 .. Len(markets) /\ Names \subseteq Collaterals
      /\ Len(markets) \in Nat /\ UNCHANGED <<now, epochSeconds, marketIdOf>>
  BY DEF NamesAssumption, ShellInv, govern, Listing
<1>2. CASE m = 0
  <2>1. markets' = markets /\ ~OpenMarket(n)'
    BY <1>1, <1>2 DEF Toggled, Driven, OpenMarket
  <2>2. ShellInv'
    BY <1>1, <2>1, Aside DEF ShellInv, book
  <2> QED
    BY <1>1, <2>1, <2>2 DEF OpenMarket
<1>3. CASE m # 0
  <2>1. m \in 1 .. Len(markets) /\ markets' = [markets EXCEPT ![m].open = open]
    BY <1>1, <1>3 DEF Toggled, Driven
  <2>2. marketIdOf[markets[m].collateral] = m
    BY <1>1, <1>3 DEF ShellInv, Attribution
  <2>3. ShellInv'
    BY <1>1, <2>1, <2>2, Switching
  <2>4. OpenMarket(n)' => open
    BY <1>1, <2>1, Switched DEF OpenMarket
  <2>5. ASSUME NEW d \in Names, d # n, OpenMarket(d)' PROVE OpenMarket(d)
    <3>1. marketIdOf[d] # m /\ marketIdOf[d] \in 1 .. Len(markets)
      BY <1>1, <1>3, <2>5, OwnMarket DEF OpenMarket, ShellInv
    <3> QED
      BY <1>1, <2>1, <2>5, <3>1, Switched DEF OpenMarket
  <2> QED
    BY <2>3, <2>4, <2>5
<1> QED
  BY <1>2, <1>3

(* The shell's listing, from either contract. *)
LEMMA Listed_New ==
    ASSUME ShellInv, NamesAssumption, TimeAssumption, NEW c \in Collaterals, NEW cap \in Caps,
           NEW open \in BOOLEAN, AddCollateral(c, cap, open)
    PROVE  /\ ShellInv'
           /\ \A d \in Names : d # c => (OpenMarket(d)' => OpenMarket(d) /\ marketIdOf'[d] = marketIdOf[d])
<1>1. ShellInv'
  BY Adding
<1>2. ASSUME NEW d \in Names, d # c, OpenMarket(d)'
      PROVE  OpenMarket(d) /\ marketIdOf'[d] = marketIdOf[d]
  <2> DEFINE r == [collateral |-> c, open |-> open, cap |-> cap, epochStart |-> now,
                   issued |-> 0, total |-> 0]
  <2>1. markets' = Extend(markets, r) /\ Listing(markets)
    BY DEF AddCollateral, Extend, ShellInv
  <2> HIDE DEF r
  <2>2. marketIdOf'[d] = marketIdOf[d] /\ marketIdOf[d] \in 0 .. Len(markets)
    BY <1>2 DEF AddCollateral, ShellInv, NamesAssumption
  <2>3. /\ Len(markets) \in Nat
        /\ \A i \in 1 .. Len(markets) : markets'[i] = markets[i]
    BY <2>1, Extended
  <2> QED
    BY <1>2, <2>2, <2>3 DEF OpenMarket
<1> QED
  BY <1>1, <1>2

(* How a change of one name's record keeps the index on file. *)
LEMMA Refiled ==
    ASSUME IndexInv, NEW n \in Names, NEW c, Filed(c), index' = [index EXCEPT ![n] = c]
    PROVE  /\ index' = [x \in Names |-> index'[x]] /\ \A x \in Names : Filed(index'[x])
           /\ index'[n] = c /\ \A x \in Names : x # n => index'[x] = index[x]
  BY DEF IndexInv

---------------------------------------------------------------------------
(* The steps, one by one.                                                   *)

LEMMA Enlists ==
    ASSUME IndexInv, NamesAssumption, TimeAssumption, NEW n \in Names, NEW t, NEW r,
           NEW b \in BOOLEAN, NEW o \in BOOLEAN, AddConstituent(n, t, r, b, o)
    PROVE  IndexInv'
<1> DEFINE c == [status |-> "active", target |-> t, rollout |-> r, frozen |-> FALSE,
                 market |-> IF o THEN Len(markets) + 1 ELSE 0, passedBeta |-> b]
<1>1. Filed(c) /\ c.status = "active"
  BY DEF Filed, Statuses
<1>2. index' = [index EXCEPT ![n] = c] /\ byHand' = byHand
  BY DEF AddConstituent
<1> HIDE DEF c
<1>3. /\ index' = [x \in Names |-> index'[x]] /\ \A x \in Names : Filed(index'[x])
      /\ index'[n] = c /\ \A x \in Names : x # n => index'[x] = index[x]
  BY <1>1, <1>2, Refiled
<1>4. /\ ShellInv'
      /\ \A d \in Names : d # n => (OpenMarket(d)' => OpenMarket(d) /\ marketIdOf'[d] = marketIdOf[d])
  <2>1. CASE o
    <3>1. AddCollateral(n, DefaultCap, TRUE) /\ n \in Collaterals /\ DefaultCap \in Caps
      BY <2>1 DEF AddConstituent, NamesAssumption
    <3> QED
      BY <3>1, Listed_New DEF IndexInv
  <2>2. CASE ~o
    <3>1. UNCHANGED vars
      BY <2>2 DEF AddConstituent
    <3>2. ShellInv'
      BY <3>1 DEF vars, govern, book, IndexInv, ShellInv, Attribution, OpenIsAttributed
    <3> QED
      BY <3>1, <3>2 DEF OpenMarket, vars, book
  <2> QED
    BY <2>1, <2>2
<1> QED
  BY <1>1, <1>2, <1>3, <1>4 DEF IndexInv, RetiredStaysShut, RetiredStaysClosed, RetiredRollsNothing

(* Retirement and reinstatement: the one record, the one market. *)
LEMMA Moves ==
    ASSUME IndexInv, NamesAssumption, NEW n \in Names, NEW open \in BOOLEAN, NEW c, Filed(c),
           index' = [index EXCEPT ![n] = c],
           \/ c.status = "retired" /\ c.rollout = 0 /\ ~open
           \/ c.status = "active",
           markets' = Toggled(n, open), byHand' = byHand \ {Driven(n)},
           UNCHANGED <<now, govern, marketIdOf>>
    PROVE  IndexInv' /\ (OpenMarket(n)' => open)
<1>1. /\ index' = [x \in Names |-> index'[x]] /\ \A x \in Names : Filed(index'[x])
      /\ index'[n] = c /\ \A x \in Names : x # n => index'[x] = index[x]
  BY Refiled
<1>2. /\ ShellInv' /\ (OpenMarket(n)' => open)
      /\ \A d \in Names : d # n => (OpenMarket(d)' => OpenMarket(d))
  BY Toggling DEF IndexInv
<1>3. \A d \in Names : d # n /\ OpenMarket(d) => marketIdOf[d] # Driven(n)
  BY OwnMarket DEF IndexInv, OpenMarket, Driven, NamesAssumption
<1>4. RetiredStaysClosed'
  <2> SUFFICES ASSUME NEW d \in Names, index'[d].status = "retired", OpenMarket(d)'
               PROVE  marketIdOf'[d] \in byHand'
    BY DEF RetiredStaysClosed
  <2>1. d # n
    BY <1>1, <1>2
  <2>2. OpenMarket(d) /\ index[d].status = "retired" /\ marketIdOf'[d] = marketIdOf[d]
    BY <1>1, <1>2, <2>1
  <2>3. marketIdOf[d] \in byHand
    BY <2>2 DEF IndexInv, RetiredStaysShut, RetiredStaysClosed
  <2> QED
    BY <1>3, <2>1, <2>2, <2>3
<1>5. RetiredRollsNothing'
  BY <1>1 DEF IndexInv, RetiredStaysShut, RetiredRollsNothing
<1>6. RetiredStaysShut'
  BY <1>4, <1>5 DEF RetiredStaysShut
<1> QED
  BY <1>1, <1>2, <1>6 DEF IndexInv

LEMMA Retires ==
    ASSUME IndexInv, NamesAssumption, NEW n \in Names, RetireConstituent(n)
    PROVE  IndexInv' /\ ~OpenMarket(n)'
<1> DEFINE c == [index[n] EXCEPT !.status = "retired", !.rollout = 0, !.market = Adopted(n)]
<1>1. Filed(c) /\ c.status = "retired" /\ c.rollout = 0
  BY DEF IndexInv, Filed, Statuses
<1>2. index' = [index EXCEPT ![n] = c]
  BY DEF RetireConstituent
<1> HIDE DEF c
<1> QED
  BY <1>1, <1>2, Moves DEF RetireConstituent

LEMMA Returns ==
    ASSUME IndexInv, NamesAssumption, NEW n \in Names, NEW r, ReinstateConstituent(n, r)
    PROVE  IndexInv' /\ index'[n].status = "active" /\ \A x \in Names : x # n => index'[x] = index[x]
<1> DEFINE c == [index[n] EXCEPT !.status = "active", !.rollout = r, !.market = Adopted(n)]
<1>1. Filed(c) /\ c.status = "active"
  BY DEF IndexInv, Filed, Statuses
<1>2. index' = [index EXCEPT ![n] = c]
  BY DEF ReinstateConstituent
<1> HIDE DEF c
<1>3. index'[n] = c /\ \A x \in Names : x # n => index'[x] = index[x]
  BY <1>1, <1>2, Refiled
<1> QED
  BY <1>1, <1>2, <1>3, Moves DEF ReinstateConstituent

(* A step of the registry that leaves the shell and every status alone.    *)
LEMMA Weighs ==
    ASSUME IndexInv, NamesAssumption,
           \/ \E n \in Names : \E t, r, f : ReconfigureConstituent(n, t, r, f)
           \/ \E w : SetIndexWeights(w)
    PROVE  IndexInv' /\ \A x \in Names : index'[x].status = index[x].status
<1>1. UNCHANGED <<vars, byHand>>
  BY DEF ReconfigureConstituent, SetIndexWeights
<1>2. ShellInv'
  BY <1>1 DEF vars, govern, book, IndexInv, ShellInv, Attribution, OpenIsAttributed
<1>3. /\ index' = [x \in Names |-> index'[x]]
      /\ \A x \in Names : /\ Filed(index'[x]) /\ index'[x].status = index[x].status
                          /\ index'[x].rollout # 0 =>
                                index'[x].rollout = index[x].rollout \/ index[x].status = "active"
  <2>1. ASSUME NEW n \in Names, NEW t, NEW r, NEW f, ReconfigureConstituent(n, t, r, f)
        PROVE  <1>3!:
    <3> DEFINE c == [index[n] EXCEPT !.target = t, !.rollout = r, !.frozen = f]
    <3>1. Filed(c) /\ c.status = index[n].status /\ c.rollout = r
      BY DEF IndexInv, Filed
    <3>2. index' = [index EXCEPT ![n] = c] /\ (r # 0 => index[n].status = "active")
      BY <2>1 DEF ReconfigureConstituent, Active
    <3> HIDE DEF c
    <3> QED
      BY <3>1, <3>2, Refiled DEF IndexInv
  <2>2. ASSUME NEW w, SetIndexWeights(w) PROVE <1>3!:
    <3>1. index' = [n \in Names |->
               IF n \in DOMAIN w THEN [index[n] EXCEPT !.target = w[n]] ELSE index[n]]
      BY <2>2 DEF SetIndexWeights
    <3>2. \A n \in Names : /\ Filed([index[n] EXCEPT !.target = w[n]])
                           /\ [index[n] EXCEPT !.target = w[n]].status = index[n].status
                           /\ [index[n] EXCEPT !.target = w[n]].rollout = index[n].rollout
      BY DEF IndexInv, Filed
    <3> QED
      BY <3>1, <3>2 DEF IndexInv
  <2> QED
    BY <2>1, <2>2
<1>4. RetiredStaysClosed'
  BY <1>1, <1>3 DEF IndexInv, RetiredStaysShut, RetiredStaysClosed, OpenMarket, vars, book
<1>5. RetiredRollsNothing'
  BY <1>3 DEF IndexInv, RetiredStaysShut, RetiredRollsNothing
<1> QED
  BY <1>2, <1>3, <1>4, <1>5 DEF IndexInv, RetiredStaysShut

(* The timelock at the shell itself. *)
LEMMA Hands ==
    ASSUME IndexInv, NamesAssumption, TimeAssumption, MarketGovernance
    PROVE  IndexInv' /\ UNCHANGED index
<1>0. UNCHANGED index /\ Names \subseteq Collaterals
  BY DEF MarketGovernance, DelistMarket, ListMarket, SwitchMarket, registry, NamesAssumption
<1>1. ShellInv' /\ RetiredStaysClosed'
  <2>1. ASSUME NEW c \in Collaterals, DelistMarket(c) PROVE ShellInv' /\ RetiredStaysClosed'
    <3> DEFINE k == marketIdOf[c]
               r == [markets[k] EXCEPT !.open = FALSE]
    <3>1. ShellInv'
      BY <2>1, Removing DEF DelistMarket, IndexInv
    <3>2. /\ k \in 1 .. Len(markets) /\ Listing(markets) /\ markets' = Replace(markets, k, r)
          /\ marketIdOf'[c] = 0 /\ \A d \in Collaterals : d # c => marketIdOf'[d] = marketIdOf[d]
          /\ byHand' = byHand \ {k}
      BY <2>1 DEF DelistMarket, RemoveCollateral, IndexInv, ShellInv, Listing, Replace
    <3> HIDE DEF r, k
    <3>3. \A i \in 1 .. Len(markets) : i # k => markets'[i] = markets[i]
      BY <3>2, Replaced
    <3>4. ASSUME NEW d \in Names, OpenMarket(d)'
          PROVE  OpenMarket(d) /\ marketIdOf'[d] = marketIdOf[d] /\ marketIdOf[d] # k
      <4>1. d # c /\ marketIdOf'[d] = marketIdOf[d] /\ marketIdOf[d] # 0
        BY <1>0, <3>2, <3>4 DEF OpenMarket
      <4>2. marketIdOf[d] # k /\ marketIdOf[d] \in 1 .. Len(markets)
        BY <1>0, <4>1, OwnMarket DEF k, IndexInv, ShellInv
      <4> QED
        BY <3>3, <3>4, <4>1, <4>2 DEF OpenMarket
    <3> QED
      BY <1>0, <3>1, <3>2, <3>4 DEF IndexInv, RetiredStaysShut, RetiredStaysClosed
  <2>2. ASSUME NEW c \in Collaterals, NEW cap \in Caps, NEW open \in BOOLEAN, ListMarket(c, cap, open)
        PROVE  ShellInv' /\ RetiredStaysClosed'
    <3>1. AddCollateral(c, cap, open) /\ byHand' = byHand
          /\ (c \in Names => index[c].status = "active")
      BY <2>2 DEF ListMarket, Active
    <3>2. /\ ShellInv'
          /\ \A d \in Names : d # c =>
                (OpenMarket(d)' => OpenMarket(d) /\ marketIdOf'[d] = marketIdOf[d])
      BY <3>1, Listed_New DEF IndexInv
    <3> QED
      BY <1>0, <3>1, <3>2 DEF IndexInv, RetiredStaysShut, RetiredStaysClosed
  <2>3. ASSUME NEW m \in MarketIds, NEW open \in BOOLEAN, SwitchMarket(m, open)
        PROVE  ShellInv' /\ RetiredStaysClosed'
    <3>1. /\ m \in 1 .. Len(markets) /\ markets' = [markets EXCEPT ![m].open = open]
          /\ open => marketIdOf[markets[m].collateral] = m
          /\ UNCHANGED <<now, epochSeconds, marketIdOf>>
          /\ byHand' = IF open THEN byHand \union {m} ELSE byHand \ {m}
      BY <2>3 DEF SwitchMarket, SetMarketOpen, govern
    <3>2. ShellInv'
      BY <3>1, Switching DEF IndexInv
    <3>3. /\ markets'[m].open = open
          /\ \A i \in 1 .. Len(markets) : i # m => markets'[i] = markets[i]
      BY <3>1, Switched DEF IndexInv
    <3>4. ASSUME NEW d \in Names, index'[d].status = "retired", OpenMarket(d)'
          PROVE  marketIdOf'[d] \in byHand'
      <4>1. marketIdOf'[d] = marketIdOf[d] /\ marketIdOf[d] \in 1 .. Len(markets)
        BY <1>0, <3>1, <3>4 DEF OpenMarket, IndexInv, ShellInv
      <4>2. CASE marketIdOf[d] = m
        BY <3>1, <3>3, <3>4, <4>1, <4>2 DEF OpenMarket
      <4>3. CASE marketIdOf[d] # m
        BY <1>0, <3>1, <3>3, <3>4, <4>1, <4>3 DEF OpenMarket, IndexInv, RetiredStaysShut,
           RetiredStaysClosed
      <4> QED
        BY <4>2, <4>3
    <3> QED
      BY <3>2, <3>4 DEF RetiredStaysClosed
  <2> QED
    BY <2>1, <2>2, <2>3 DEF MarketGovernance
<1> QED
  BY <1>0, <1>1 DEF IndexInv, RetiredStaysShut, RetiredRollsNothing

LEMMA IndexStep ==
    ASSUME IndexInv, NamesAssumption, TimeAssumption, [IndexNext]_indexVars
    PROVE  IndexInv'
<1>1. CASE UNCHANGED indexVars
  <2>1. ShellInv'
    BY <1>1 DEF indexVars, vars, govern, book, IndexInv, ShellInv, Attribution, OpenIsAttributed
  <2> QED
    BY <1>1, <2>1 DEF indexVars, registry, vars, book, IndexInv, RetiredStaysShut,
       RetiredStaysClosed, RetiredRollsNothing, OpenMarket
<1>2. CASE Lifecycle
  BY <1>2, Enlists, Retires, Returns, Weighs DEF Lifecycle
<1>3. CASE Reweigh
  BY <1>3, Weighs DEF Reweigh
<1>4. CASE MarketGovernance
  BY <1>4, Hands
<1> QED
  BY <1>1, <1>2, <1>3, <1>4 DEF IndexNext

(* Registry and shell in step: the shell's invariant holds under every     *)
(* operation of the timelock at either contract, and what a retirement     *)
(* took away stays away.                                                   *)
THEOREM IndexInvariant ==
    ASSUME TimeAssumption, NamesAssumption PROVE IndexSpec => []IndexInv
  BY IndexInitial, IndexStep, PTL DEF IndexSpec

(* RetiredStaysShut: a retired name has no rollout weight, and no open      *)
(* market but one the timelock opened by hand at the shell.                 *)
THEOREM RetiredIsShut ==
    ASSUME TimeAssumption, NamesAssumption PROVE IndexSpec => []RetiredStaysShut
<1>1. IndexInv => RetiredStaysShut
  BY DEF IndexInv
<1> QED
  BY <1>1, IndexInvariant, PTL

(* RetirementCloses: _liveMarketId finds the market to close, whatever id   *)
(* the token came to have since the registry wrote one down.                *)
THEOREM RetirementShuts ==
    ASSUME TimeAssumption, NamesAssumption PROVE IndexSpec => RetirementCloses
<1> DEFINE Closes == \A n \in Names : index'[n].status = "retired" /\ n \in Active => ~OpenMarket(n)'
<1>1. IndexInv /\ [IndexNext]_indexVars => [Closes]_indexVars
  <2> SUFFICES ASSUME IndexInv, IndexNext, NEW n \in Names,
                      index'[n].status = "retired", n \in Active
               PROVE  ~OpenMarket(n)'
    OBVIOUS
  <2>0. index[n].status = "active"
    BY DEF Active
  <2>1. ASSUME NEW x \in Names, RetireConstituent(x) PROVE ~OpenMarket(n)'
    <3>1. index'[x].status = "retired" /\ \A y \in Names : y # x => index'[y] = index[y]
      BY <2>1 DEF RetireConstituent, IndexInv, Filed
    <3> QED
      BY <2>0, <2>1, <3>1, Retires
  <2>2. ASSUME NEW x \in Names, NEW t, NEW r, NEW b \in BOOLEAN, NEW o \in BOOLEAN,
               AddConstituent(x, t, r, b, o)
        PROVE  FALSE
    BY <2>0, <2>2 DEF AddConstituent, IndexInv
  <2>3. ASSUME NEW x \in Names, NEW r, ReinstateConstituent(x, r) PROVE FALSE
    BY <2>0, <2>3, Returns
  <2>4. CASE \/ \E x \in Names : \E t, r, f : ReconfigureConstituent(x, t, r, f)
             \/ \E w : SetIndexWeights(w)
    BY <2>0, <2>4, Weighs
  <2>5. CASE MarketGovernance
    BY <2>0, <2>5, Hands
  <2> QED
    BY <2>1, <2>2, <2>3, <2>4, <2>5 DEF IndexNext, Lifecycle, Reweigh
<1> QED
  BY <1>1, IndexInvariant, PTL DEF IndexSpec, RetirementCloses
=============================================================================
