--------------------------- MODULE IndexerProofs ---------------------------
(***************************************************************************)
(* The indexer's tables against the chain it folds, for any owners, prices *)
(* and epochs, any packing of transactions into blocks, and any failed     *)
(* reads, restarts and reorganisations.                                    *)
(***************************************************************************)
EXTENDS Indexer, SumLemmas

---------------------------------------------------------------------------
(* What a step may say, and what a contract may hold.                      *)

Levels == Navs \cup {0}

Events == {"GenesisMinted", "Genesis", "CollateralAdded", "EpochRolled", "BurnQueued", "Burn",
           "VestingMinted", "NavCheckpoint", "RefCheckpoint", "Bond", "Claim", "Redeem",
           "Placement", "Compound", "PriceMoved"}

Fields == {"launch", "listed", "supply", "queued", "nav", "live", "pRef", "marked",
           "drifts", "epochStart", "epochIssued", "issued", "sales", "vests"}

Sale == [before : Levels, after : Levels]
Vest == [principal : Nat, claimed : Nat]

ChainOK(c) ==
    /\ DOMAIN c = Fields
    /\ c.launch \in {None, "minted", "open"}
    /\ c.supply \in Nat /\ c.queued \in Nat /\ c.issued \in Nat /\ c.epochIssued \in Nat
    /\ c.nav \in Levels /\ c.live \in Levels /\ c.pRef \in Nat
    /\ c.listed \in BOOLEAN /\ c.marked \in BOOLEAN
    /\ c.sales \in Seq(Sale) /\ c.vests \in [Owners -> Seq(Vest)]
    /\ c.launch = None => c.supply = 0
    /\ c.launch = "minted" => c.supply = S0
    /\ c.launch = "open" => c.live # 0

Steps == [ev : Events, who : Owners \cup {None}, to : Owners \cup {None},
          id : Nat, n : Nat, live : Levels]

Settling(c) == \A i \in DOMAIN c.sales : c.sales[i].after # 0

(* A step whose turn it is.                                                *)
Timely(c, s) ==
    /\ s.ev = "GenesisMinted" <=> c.launch = None
    /\ s.ev = "Genesis" => c.launch = "minted"
    /\ c.launch = "minted" =>
           s.ev \in {"Genesis", "CollateralAdded", "NavCheckpoint", "RefCheckpoint"}
    /\ s.ev \in {"Bond", "EpochRolled"} => c.listed
    /\ s.ev = "NavCheckpoint" => s.live # 0 \/ c.live # 0
    /\ s.ev = "Burn" => s.n = 1
    /\ s.ev = "Redeem" => s.n <= 1

Single == {"Genesis", "Burn", "Redeem", "Bond", "Compound"}
Is(s, i, ev) == i \in 1 .. Len(s) /\ s[i].ev = ev
Has(s, ev) == \E i \in 1 .. Len(s) : s[i].ev = ev
One(s, ev) == IF Has(s, ev) THEN 1 ELSE 0

(* What is left of a transaction can be run: every step in its turn, a     *)
(* reference and a sale after a checkpoint, burns within the supply.       *)
Runs(s, c) ==
    /\ s \in Seq(Steps)
    /\ c.launch = None => Len(s) <= 1
    /\ \A i \in 1 .. Len(s) : Timely(c, s[i])
    /\ \A i \in 1 .. Len(s) : s[i].ev = "RefCheckpoint" =>
           s[i].n # 0 \/ c.nav # 0 \/ \E j \in 1 .. i - 1 : s[j].ev = "NavCheckpoint"
    /\ \A i \in 1 .. Len(s) : s[i].ev = "Genesis" =>
           c.live # 0 \/ \E j \in 1 .. i - 1 : s[j].ev = "NavCheckpoint"
    /\ \A i \in 1 .. Len(s) : s[i].ev = "Bond" =>
           Settling(c) \/ \E j \in 1 .. i - 1 : s[j].ev = "NavCheckpoint"
    /\ \A i \in 1 .. Len(s) : s[i].ev = "NavCheckpoint" =>
           \E j \in i + 1 .. Len(s) : s[j].ev = "RefCheckpoint"
    /\ \A i, j \in 1 .. Len(s) : s[i].ev = s[j].ev /\ s[i].ev \in Single => i = j
    /\ c.queued + One(s, "Burn") + One(s, "Redeem") <= c.supply

---------------------------------------------------------------------------
(* What a step does.                                                       *)

LEMMA EffectShape ==
    ASSUME NEW c, DOMAIN c = Fields, NEW s
    PROVE  DOMAIN Effect(c, s) = Fields
BY DEF Effect, Fields

LEMMA EffectSupply ==
    ASSUME NEW c, DOMAIN c = Fields, NEW s
    PROVE  /\ Effect(c, s).supply =
                  IF s.ev = "GenesisMinted" THEN S0
                  ELSE IF s.ev = "BurnQueued" THEN c.supply - c.queued
                  ELSE IF s.ev = "Burn" THEN c.supply - s.n
                  ELSE IF s.ev = "VestingMinted" THEN c.supply + s.n ELSE c.supply
           /\ Effect(c, s).queued =
                  IF s.ev = "BurnQueued" THEN 0
                  ELSE IF s.ev = "Redeem" THEN c.queued + s.n ELSE c.queued
BY DEF Effect, Fields

LEMMA EffectLaunch ==
    ASSUME NEW c, DOMAIN c = Fields, NEW s
    PROVE  /\ Effect(c, s).launch =
                  IF s.ev = "GenesisMinted" THEN "minted"
                  ELSE IF s.ev = "Genesis" THEN "open" ELSE c.launch
           /\ Effect(c, s).listed = IF s.ev = "CollateralAdded" THEN TRUE ELSE c.listed
BY DEF Effect, Fields

LEMMA EffectNav ==
    ASSUME NEW c, DOMAIN c = Fields, NEW s
    PROVE  /\ Effect(c, s).live = IF s.live = 0 THEN c.live ELSE s.live
           /\ Effect(c, s).nav = IF s.ev = "NavCheckpoint" THEN Effect(c, s).live ELSE c.nav
           /\ Effect(c, s).pRef =
                  IF s.ev = "RefCheckpoint" THEN (IF s.n = 0 THEN c.nav ELSE s.n) ELSE c.pRef
BY DEF Effect, Fields

LEMMA EffectIssue ==
    ASSUME NEW c, DOMAIN c = Fields, NEW s
    PROVE  /\ Effect(c, s).issued = IF s.ev = "Bond" THEN c.issued + s.n ELSE c.issued
           /\ Effect(c, s).epochIssued =
                  IF s.ev = "EpochRolled" THEN 0
                  ELSE IF s.ev = "Bond" THEN c.epochIssued + s.n ELSE c.epochIssued
BY DEF Effect, Fields

LEMMA EffectMark ==
    ASSUME NEW c, DOMAIN c = Fields, NEW s
    PROVE  /\ Effect(c, s).marked =
                  IF s.ev = "NavCheckpoint" THEN FALSE
                  ELSE IF s.ev \in {"Bond", "Redeem", "Placement", "Compound", "PriceMoved"}
                  THEN TRUE ELSE c.marked
           /\ Effect(c, s).drifts =
                  IF s.ev = "NavCheckpoint" /\ c.nav > Effect(c, s).live /\ ~c.marked
                  THEN c.drifts \cup {<<height, Len(block) + 1>>} ELSE c.drifts
BY DEF Effect, Fields, Fell

LEMMA EffectSales ==
    ASSUME NEW c, DOMAIN c = Fields, NEW s
    PROVE  /\ s.ev = "NavCheckpoint" =>
                  Effect(c, s).sales =
                      [i \in DOMAIN c.sales |->
                          IF c.sales[i].after = 0
                          THEN [c.sales[i] EXCEPT !.after = Effect(c, s).live]
                          ELSE c.sales[i]]
           /\ s.ev = "Bond" =>
                  Effect(c, s).sales = Append(c.sales, [before |-> c.nav, after |-> 0])
           /\ s.ev \notin {"NavCheckpoint", "Bond"} => Effect(c, s).sales = c.sales
BY DEF Effect, Fields

LEMMA EffectVests ==
    ASSUME NEW c, DOMAIN c = Fields, c.vests \in [Owners -> Seq(Vest)], NEW s \in Steps
    PROVE  Effect(c, s).vests \in [Owners -> Seq(Vest)]
<1> DEFINE v == c.vests
<1>0. s.n \in Nat /\ s.id \in Nat
  BY DEF Steps
<1>d. v \in [Owners -> Seq(Vest)]
  OBVIOUS
<1>1. CASE s.ev = "Bond"
  <2> DEFINE x == [principal |-> s.n, claimed |-> 0]
  <2>1. Effect(c, s).vests = [v EXCEPT ![s.to] = Append(@, x)]
    BY <1>1 DEF Effect, Fields
  <2>2. x \in Vest
    BY <1>0 DEF Vest
  <2> HIDE DEF x, v
  <2>3. \A o \in Owners : Append(v[o], x) \in Seq(Vest)
    BY <1>d, <2>2
  <2>4. [v EXCEPT ![s.to] = Append(@, x)] \in [Owners -> Seq(Vest)]
    BY <1>d, <2>3
  <2> QED
    BY <2>1, <2>4, Zenon
<1>2. CASE s.ev = "Claim"
  <2> DEFINE more(y) == [y EXCEPT !.claimed = @ + s.n]
             claim(q) == [q EXCEPT ![s.id + 1] = more(@)]
  <2>1. Effect(c, s).vests = [v EXCEPT ![s.who] = claim(@)]
    BY <1>2 DEF Effect, Fields
  <2>2. \A y \in Vest : more(y) \in Vest
    BY <1>0 DEF Vest
  <2> HIDE DEF more, v
  <2>3. \A q \in Seq(Vest) : claim(q) \in Seq(Vest)
    <3> SUFFICES ASSUME NEW q \in Seq(Vest) PROVE claim(q) \in Seq(Vest)
      OBVIOUS
    <3>1. q \in [1 .. Len(q) -> Vest] /\ Len(q) \in Nat
      OBVIOUS
    <3>2. claim(q) \in [1 .. Len(q) -> Vest]
      BY <2>2, <3>1
    <3> HIDE DEF claim
    <3> QED
      BY <3>1, <3>2
  <2> HIDE DEF claim
  <2>4. \A o \in Owners : claim(v[o]) \in Seq(Vest)
    BY <1>d, <2>3
  <2>5. [v EXCEPT ![s.who] = claim(@)] \in [Owners -> Seq(Vest)]
    BY <1>d, <2>4
  <2> QED
    BY <2>1, <2>5, Zenon
<1>3. CASE s.ev \notin {"Bond", "Claim"}
  <2>1. Effect(c, s).vests = v
    BY <1>3 DEF Effect, Fields
  <2> QED
    BY <1>d, <2>1
<1> QED
  BY <1>1, <1>2, <1>3

LEMMA Settles ==
    ASSUME NEW c, ChainOK(c), NEW s \in Steps, Timely(c, s)
    PROVE  /\ Effect(c, s).sales \in Seq(Sale)
           /\ Effect(c, s).live \in Levels
           /\ s.ev = "NavCheckpoint" => Settling(Effect(c, s)) /\ Effect(c, s).nav # 0
                                         /\ Effect(c, s).live # 0
           /\ s.ev # "Bond" /\ Settling(c) => Settling(Effect(c, s))
<1> DEFINE d == Effect(c, s)
<1>0. /\ DOMAIN c = Fields /\ c.sales \in Seq(Sale) /\ c.live \in Levels /\ c.nav \in Levels
      /\ s.live \in Levels /\ 0 \in Levels
  BY DEF ChainOK, Steps, Levels
<1>1. d.live \in Levels
  BY <1>0, EffectNav
<1>2. CASE s.ev = "NavCheckpoint"
  <2>1. d.live # 0
    BY <1>0, <1>2, EffectNav DEF Timely
  <2> DEFINE turn(x) == IF x.after = 0 THEN [x EXCEPT !.after = d.live] ELSE x
  <2>2. \A x \in Sale : turn(x) \in Sale /\ turn(x).after # 0
    BY <1>1, <2>1 DEF Sale
  <2>3. d.sales = [i \in DOMAIN c.sales |-> turn(c.sales[i])]
    BY <1>0, <1>2, EffectSales
  <2>4. \A i \in 1 .. Len(c.sales) : c.sales[i] \in Sale
    BY <1>0
  <2>5. DOMAIN c.sales = 1 .. Len(c.sales) /\ Len(c.sales) \in Nat
    BY <1>0
  <2> HIDE DEF turn
  <2>6. \A i \in 1 .. Len(c.sales) : turn(c.sales[i]) \in Sale /\ turn(c.sales[i]).after # 0
    BY <2>2, <2>4
  <2>7. d.sales \in Seq(Sale)
    <3>1. d.sales \in [1 .. Len(c.sales) -> Sale]
      BY <2>3, <2>5, <2>6
    <3> QED
      BY <2>5, <3>1
  <2>8. Settling(d)
    BY <2>3, <2>5, <2>6 DEF Settling
  <2>9. d.nav # 0
    BY <1>0, <1>2, <2>1, EffectNav
  <2> QED
    BY <1>1, <1>2, <2>1, <2>7, <2>8, <2>9
<1>3. CASE s.ev = "Bond"
  <2>1. d.sales = Append(c.sales, [before |-> c.nav, after |-> 0])
    BY <1>0, <1>3, EffectSales
  <2>2. [before |-> c.nav, after |-> 0] \in Sale
    BY <1>0 DEF Sale
  <2> QED
    BY <1>0, <1>1, <1>3, <2>1, <2>2
<1>4. CASE s.ev \notin {"NavCheckpoint", "Bond"}
  <2>1. d.sales = c.sales
    BY <1>0, <1>4, EffectSales
  <2> QED
    BY <1>0, <1>1, <1>4, <2>1 DEF Settling
<1> QED
  BY <1>2, <1>3, <1>4

(* A step whose turn it is, and that leaves the supply its burns.          *)
LEMMA EffectOK ==
    ASSUME NEW c, ChainOK(c), NEW s \in Steps, Timely(c, s),
           s.ev = "Burn" => s.n + c.queued <= c.supply,
           c.queued <= c.supply, s.ev = "Genesis" => c.live # 0
    PROVE  ChainOK(Effect(c, s))
<1> DEFINE d == Effect(c, s)
<1>0. DOMAIN c = Fields /\ s.n \in Nat /\ s.live \in Levels /\ Levels \subseteq Nat /\ S0 \in Nat
  BY IndexerAssumption DEF ChainOK, Steps, Levels
<1>1. DOMAIN d = Fields
  BY <1>0, EffectShape
<1>2. d.supply \in Nat /\ d.queued \in Nat
  BY <1>0, EffectSupply DEF ChainOK
<1>3. d.launch \in {None, "minted", "open"} /\ d.listed \in BOOLEAN
  BY <1>0, EffectLaunch DEF ChainOK
<1>4. d.nav \in Levels /\ d.live \in Levels /\ d.pRef \in Nat
  <2>1. c.nav \in Levels /\ c.pRef \in Nat /\ d.live \in Levels
    BY Settles DEF ChainOK
  <2>2. d.nav = c.nav \/ d.nav = d.live
    BY <1>0, EffectNav
  <2>3. d.pRef = c.nav \/ d.pRef = s.n \/ d.pRef = c.pRef
    BY <1>0, EffectNav
  <2> QED
    BY <1>0, <2>1, <2>2, <2>3
<1>5. d.issued \in Nat /\ d.epochIssued \in Nat
  BY <1>0, EffectIssue DEF ChainOK
<1>6. d.marked \in BOOLEAN
  BY <1>0, EffectMark DEF ChainOK
<1>7. d.sales \in Seq(Sale)
  BY Settles
<1>8. (d.launch = None => d.supply = 0) /\ (d.launch = "minted" => d.supply = S0)
  BY <1>0, EffectSupply, EffectLaunch DEF ChainOK, Timely, None
<1>9. d.launch = "open" => d.live # 0
  BY <1>0, EffectLaunch, EffectNav DEF ChainOK, Timely, None
<1>10. d.vests \in [Owners -> Seq(Vest)]
  BY <1>0, EffectVests DEF ChainOK
<1> QED
  BY <1>1, <1>2, <1>3, <1>4, <1>5, <1>6, <1>7, <1>8, <1>9, <1>10 DEF ChainOK

---------------------------------------------------------------------------
(* What is left after a step.                                              *)

LEMMA TailIs ==
    ASSUME NEW s \in Seq(Steps), s # <<>>
    PROVE  /\ Head(s) \in Steps /\ Head(s) = s[1] /\ Len(s) \in Nat /\ Len(s) >= 1
           /\ Tail(s) \in Seq(Steps) /\ Len(Tail(s)) = Len(s) - 1
           /\ \A i \in 1 .. Len(Tail(s)) : Tail(s)[i] = s[i + 1] /\ i + 1 \in 1 .. Len(s)
           /\ \A i \in 1 .. Len(s) : i # 1 => i - 1 \in 1 .. Len(Tail(s)) /\ Tail(s)[i - 1] = s[i]
OBVIOUS

(* The budget: a burn or a redemption that is done no longer waits.        *)
LEMMA BudgetIs ==
    ASSUME NEW s \in Seq(Steps), s # <<>>, NEW ev \in Single,
           \A i, j \in 1 .. Len(s) : s[i].ev = s[j].ev /\ s[i].ev \in Single => i = j
    PROVE  One(s, ev) = One(Tail(s), ev) + (IF Head(s).ev = ev THEN 1 ELSE 0)
<1>1. CASE Head(s).ev = ev
  <2>1. Has(s, ev) /\ ~Has(Tail(s), ev)
    BY <1>1, TailIs DEF Has
  <2> QED
    BY <1>1, <2>1 DEF One
<1>2. CASE Head(s).ev # ev
  <2>1. ASSUME Has(s, ev) PROVE Has(Tail(s), ev)
    <3>1. PICK i \in 1 .. Len(s) : s[i].ev = ev
      BY <2>1 DEF Has
    <3>2. i # 1
      BY <1>2, <3>1, TailIs
    <3> QED
      BY <3>1, <3>2, TailIs DEF Has
  <2>2. ASSUME Has(Tail(s), ev) PROVE Has(s, ev)
    BY <2>2, TailIs DEF Has
  <2> QED
    BY <1>2, <2>1, <2>2 DEF One
<1> QED
  BY <1>1, <1>2

\* The first step is one whose turn it is.
LEMMA RunsHead ==
    ASSUME NEW c, ChainOK(c), NEW s, Runs(s, c), s # <<>>
    PROVE  /\ Head(s) \in Steps /\ Timely(c, Head(s))
           /\ Head(s).ev = "Burn" => Head(s).n + c.queued <= c.supply
           /\ c.queued <= c.supply
           /\ Head(s).ev = "Genesis" => c.live # 0
           /\ Head(s).ev = "RefCheckpoint" => Head(s).n # 0 \/ c.nav # 0
           /\ Head(s).ev = "Bond" => Settling(c)
           /\ Head(s).ev = "NavCheckpoint" => Has(Tail(s), "RefCheckpoint")
<1>0. /\ s \in Seq(Steps) /\ Head(s) = s[1] /\ 1 \in 1 .. Len(s) /\ Len(s) \in Nat
      /\ Head(s) \in Steps
  BY TailIs DEF Runs
<1>1. Timely(c, Head(s))
  BY <1>0 DEF Runs
<1>2. One(s, "Burn") \in {0, 1} /\ One(s, "Redeem") \in {0, 1}
  BY DEF One
<1>3. c.queued \in Nat /\ c.supply \in Nat /\ c.queued + One(s, "Burn") + One(s, "Redeem") <= c.supply
  BY DEF Runs, ChainOK
<1>4. c.queued <= c.supply
  BY <1>2, <1>3
<1>5. ASSUME Head(s).ev = "Burn" PROVE Head(s).n + c.queued <= c.supply
  <2>1. One(s, "Burn") = 1
    BY <1>0, <1>5 DEF One, Has
  <2>2. Head(s).n = 1
    BY <1>1, <1>5 DEF Timely
  <2> QED
    BY <1>2, <1>3, <2>1, <2>2
<1>6. 1 .. 1 - 1 = {}
  OBVIOUS
<1>7. /\ Head(s).ev = "Genesis" => c.live # 0
      /\ Head(s).ev = "RefCheckpoint" => Head(s).n # 0 \/ c.nav # 0
      /\ Head(s).ev = "Bond" => Settling(c)
  BY <1>0, <1>6 DEF Runs
<1>8. ASSUME Head(s).ev = "NavCheckpoint" PROVE Has(Tail(s), "RefCheckpoint")
  <2>1. PICK j \in 1 + 1 .. Len(s) : s[j].ev = "RefCheckpoint"
    BY <1>0, <1>8 DEF Runs
  <2>2. j \in 1 .. Len(s) /\ j # 1
    BY <1>0, <2>1
  <2> QED
    BY <1>0, <2>1, <2>2, TailIs DEF Has
<1> QED
  BY <1>0, <1>1, <1>4, <1>5, <1>7, <1>8

\* What a step, or a step with nothing to do, leaves of the contracts.
Onward(c, h, d) ==
    /\ ChainOK(d)
    /\ c.launch # None => d.launch # None
    /\ c.launch # None /\ d.launch # c.launch => d.launch = "open"
    /\ c.launch # None /\ h.ev # "Genesis" => d.launch = c.launch
    /\ c.listed => d.listed
    /\ c.live # 0 => d.live # 0
    /\ c.nav # 0 => d.nav # 0
    /\ h.ev = "NavCheckpoint" => d.nav # 0 /\ d.live # 0
    /\ h.ev = "NavCheckpoint" \/ (Settling(c) /\ h.ev # "Bond") => Settling(d)

LEMMA RunsTail ==
    ASSUME NEW c, ChainOK(c), NEW s, Runs(s, c), s # <<>>, NEW d, Onward(c, Head(s), d),
           d.queued + One(Tail(s), "Burn") + One(Tail(s), "Redeem") <= d.supply
    PROVE  Runs(Tail(s), d)
<1> DEFINE r == Tail(s)
           h == Head(s)
<1>0. /\ s \in Seq(Steps) /\ r \in Seq(Steps) /\ Len(r) = Len(s) - 1 /\ Len(s) \in Nat
      /\ Len(s) >= 1 /\ h = s[1]
      /\ \A i \in 1 .. Len(r) : r[i] = s[i + 1] /\ i + 1 \in 1 .. Len(s)
      /\ \A i \in 1 .. Len(s) : i # 1 => i - 1 \in 1 .. Len(r) /\ r[i - 1] = s[i]
  BY TailIs DEF Runs
<1> HIDE DEF r, h
<1>1. ASSUME NEW i \in 1 .. Len(r), NEW ev, \E j \in 1 .. (i + 1) - 1 : s[j].ev = ev, h.ev # ev
      PROVE  \E j \in 1 .. i - 1 : r[j].ev = ev
  <2>1. PICK j \in 1 .. (i + 1) - 1 : s[j].ev = ev
    BY <1>1
  <2>2. j # 1 /\ j \in 1 .. Len(s)
    BY <1>0, <1>1, <2>1
  <2>3. j - 1 \in 1 .. i - 1 /\ r[j - 1].ev = ev
    BY <1>0, <2>1, <2>2
  <2> QED
    BY <2>3
<1>2. CASE c.launch = None
  <2>1. Len(r) = 0 /\ 1 .. Len(r) = {}
    BY <1>0, <1>2 DEF Runs
  <2>2. \A i \in 1 .. Len(r) : FALSE
    BY <2>1
  <2>3. Len(r) <= 1
    BY <2>1
  <2> QED
    BY <1>0, <2>2, <2>3 DEF Runs, r
<1>3. CASE c.launch # None
  <2>1. d.launch # None
    BY <1>3 DEF Onward, h
  <2>2. ASSUME NEW i \in 1 .. Len(r) PROVE Timely(d, r[i])
    <3>1. r[i] = s[i + 1] /\ i + 1 \in 1 .. Len(s) /\ i + 1 # 1 /\ 1 \in 1 .. Len(s)
      BY <1>0, <2>2
    <3>2. Timely(c, r[i])
      BY <3>1 DEF Runs
    <3>3. r[i].ev = "Genesis" => h.ev # "Genesis"
      BY <1>0, <3>1 DEF Runs, Single
    <3> QED
      BY <1>3, <2>1, <3>2, <3>3 DEF Timely, Onward, h, None
  <2>3. ASSUME NEW i \in 1 .. Len(r), r[i].ev = "RefCheckpoint"
        PROVE  r[i].n # 0 \/ d.nav # 0 \/ \E j \in 1 .. i - 1 : r[j].ev = "NavCheckpoint"
    <3>1. r[i].n # 0 \/ c.nav # 0 \/ \E j \in 1 .. (i + 1) - 1 : s[j].ev = "NavCheckpoint"
      BY <1>0, <2>3 DEF Runs
    <3> QED
      BY <1>1, <2>3, <3>1 DEF Onward, h
  <2>4. ASSUME NEW i \in 1 .. Len(r), r[i].ev = "Genesis"
        PROVE  d.live # 0 \/ \E j \in 1 .. i - 1 : r[j].ev = "NavCheckpoint"
    <3>1. c.live # 0 \/ \E j \in 1 .. (i + 1) - 1 : s[j].ev = "NavCheckpoint"
      BY <1>0, <2>4 DEF Runs
    <3> QED
      BY <1>1, <2>4, <3>1 DEF Onward, h
  <2>5. ASSUME NEW i \in 1 .. Len(r), r[i].ev = "Bond"
        PROVE  Settling(d) \/ \E j \in 1 .. i - 1 : r[j].ev = "NavCheckpoint"
    <3>1. Settling(c) \/ \E j \in 1 .. (i + 1) - 1 : s[j].ev = "NavCheckpoint"
      BY <1>0, <2>5 DEF Runs
    <3>2. h.ev # "Bond"
      <4>1. i + 1 # 1 /\ i + 1 \in 1 .. Len(s) /\ 1 \in 1 .. Len(s) /\ s[i + 1].ev = "Bond"
        BY <1>0, <2>5
      <4> QED
        BY <1>0, <4>1 DEF Runs, Single
    <3> QED
      BY <1>1, <2>5, <3>1, <3>2 DEF Onward, h
  <2>6. ASSUME NEW i \in 1 .. Len(r), r[i].ev = "NavCheckpoint"
        PROVE  \E j \in i + 1 .. Len(r) : r[j].ev = "RefCheckpoint"
    <3>1. PICK j \in (i + 1) + 1 .. Len(s) : s[j].ev = "RefCheckpoint"
      BY <1>0, <2>6 DEF Runs
    <3>2. j \in 1 .. Len(s) /\ j # 1 /\ j - 1 \in i + 1 .. Len(r)
      BY <1>0, <3>1
    <3> QED
      BY <1>0, <3>1, <3>2
  <2>7. ASSUME NEW i \in 1 .. Len(r), NEW j \in 1 .. Len(r), r[i].ev = r[j].ev, r[i].ev \in Single
        PROVE  i = j
    <3>1. /\ i + 1 \in 1 .. Len(s) /\ j + 1 \in 1 .. Len(s)
          /\ s[i + 1].ev = s[j + 1].ev /\ s[i + 1].ev \in Single
      BY <1>0, <2>7
    <3>2. i + 1 = j + 1
      BY <3>1 DEF Runs
    <3> QED
      BY <2>7, <3>2
  <2> QED
    BY <1>0, <2>1, <2>2, <2>3, <2>4, <2>5, <2>6, <2>7 DEF Runs, r
<1> QED
  BY <1>2, <1>3

LEMMA StepRuns ==
    ASSUME NEW c, ChainOK(c), NEW s, Runs(s, c), s # <<>>
    PROVE  /\ ChainOK(Effect(c, Head(s))) /\ Runs(Tail(s), Effect(c, Head(s)))
           /\ Idle(c, Head(s)) => Runs(Tail(s), c)
<1> DEFINE h == Head(s)
           d == Effect(c, h)
<1>0. /\ DOMAIN c = Fields /\ h \in Steps /\ Timely(c, h) /\ s \in Seq(Steps)
      /\ c.queued \in Nat /\ c.supply \in Nat /\ h.n \in Nat
  BY RunsHead DEF ChainOK, Runs, Steps
<1>1. ChainOK(d)
  BY RunsHead, EffectOK
<1>2. /\ One(s, "Burn") = One(Tail(s), "Burn") + (IF h.ev = "Burn" THEN 1 ELSE 0)
      /\ One(s, "Redeem") = One(Tail(s), "Redeem") + (IF h.ev = "Redeem" THEN 1 ELSE 0)
  BY <1>0, BudgetIs DEF Runs, Single
<1>3. /\ One(Tail(s), "Burn") \in {0, 1} /\ One(Tail(s), "Redeem") \in {0, 1}
      /\ c.queued + One(s, "Burn") + One(s, "Redeem") <= c.supply
  BY DEF One, Runs
<1> HIDE DEF h
<1>4. Onward(c, h, d)
  <2>1. /\ c.launch # None => d.launch # None
        /\ c.launch # None /\ d.launch # c.launch => d.launch = "open"
        /\ c.launch # None /\ h.ev # "Genesis" => d.launch = c.launch
        /\ c.listed => d.listed
    BY <1>0, EffectLaunch DEF Timely, None
  <2>2. c.live # 0 => d.live # 0
    BY <1>0, EffectNav
  <2>3. /\ h.ev = "NavCheckpoint" => Settling(d) /\ d.nav # 0 /\ d.live # 0
        /\ h.ev # "Bond" /\ Settling(c) => Settling(d)
    BY <1>0, Settles
  <2>4. h.ev # "NavCheckpoint" => d.nav = c.nav
    BY <1>0, EffectNav
  <2> QED
    BY <1>1, <2>1, <2>2, <2>3, <2>4 DEF Onward
<1>5. d.queued + One(Tail(s), "Burn") + One(Tail(s), "Redeem") <= d.supply
  <2>1. CASE h.ev = "Redeem"
    <3>1. h.n <= 1 /\ d.queued = c.queued + h.n /\ d.supply = c.supply
      BY <1>0, <2>1, EffectSupply DEF Timely
    <3> QED
      BY <1>0, <1>2, <1>3, <2>1, <3>1
  <2>2. CASE h.ev = "Burn"
    <3>1. h.n = 1 /\ d.queued = c.queued /\ d.supply = c.supply - h.n
      BY <1>0, <2>2, EffectSupply DEF Timely
    <3> QED
      BY <1>0, <1>2, <1>3, <2>2, <3>1
  <2>3. CASE h.ev = "GenesisMinted"
    <3>1. Len(s) <= 1 /\ Len(Tail(s)) = Len(s) - 1 /\ Len(s) \in Nat
      BY <1>0, <2>3, TailIs DEF Timely, Runs
    <3>2. ~Has(Tail(s), "Burn") /\ ~Has(Tail(s), "Redeem")
      BY <3>1 DEF Has
    <3>3. d.queued = c.queued /\ d.supply = S0 /\ c.supply = 0 /\ S0 \in Nat
      BY <1>0, <2>3, EffectSupply, IndexerAssumption DEF Timely, ChainOK
    <3> QED
      BY <1>0, <1>3, <3>2, <3>3 DEF One
  <2>4. CASE h.ev = "BurnQueued"
    <3>1. d.queued = 0 /\ d.supply = c.supply - c.queued
      BY <1>0, <2>4, EffectSupply
    <3> QED
      BY <1>0, <1>2, <1>3, <2>4, <3>1
  <2>5. CASE h.ev \notin {"Redeem", "Burn", "GenesisMinted", "BurnQueued"}
    <3>1. d.queued = c.queued /\ (d.supply = c.supply \/ d.supply = c.supply + h.n)
      BY <1>0, <2>5, EffectSupply
    <3> QED
      BY <1>0, <1>2, <1>3, <2>5, <3>1
  <2> QED
    BY <2>1, <2>2, <2>3, <2>4, <2>5
<1>6. Runs(Tail(s), d)
  BY <1>4, <1>5, RunsTail DEF h
<1>7. ASSUME Idle(c, h) PROVE Runs(Tail(s), c)
  <2>1. h.ev \in {"BurnQueued", "EpochRolled"}
    BY <1>7 DEF Idle
  <2>2. Onward(c, h, c)
    BY <2>1 DEF Onward
  <2>3. c.queued + One(Tail(s), "Burn") + One(Tail(s), "Redeem") <= c.supply
    BY <1>2, <1>3, <2>1
  <2> QED
    BY <2>2, <2>3, RunsTail DEF h
<1> QED
  BY <1>1, <1>6, <1>7 DEF h

---------------------------------------------------------------------------
(* The scripts.                                                            *)

LEMMA CheckpointingIs ==
    /\ Checkpointing \in Seq(Steps) /\ Len(Checkpointing) = 3
    /\ Checkpointing[1].ev = "BurnQueued" /\ Checkpointing[2].ev = "NavCheckpoint"
    /\ Checkpointing[3].ev = "RefCheckpoint"
    /\ \A i \in 1 .. 3 : Checkpointing[i].live = 0
<1>1. /\ Step("BurnQueued") \in Steps /\ Step("NavCheckpoint") \in Steps /\ Step("RefCheckpoint") \in Steps
      /\ Step("BurnQueued").ev = "BurnQueued" /\ Step("BurnQueued").live = 0
      /\ Step("NavCheckpoint").ev = "NavCheckpoint" /\ Step("NavCheckpoint").live = 0
      /\ Step("RefCheckpoint").ev = "RefCheckpoint" /\ Step("RefCheckpoint").live = 0
  BY DEF Step, Steps, Levels, Events
<1> QED
  BY <1>1 DEF Checkpointing

LEMMA Joined ==
    ASSUME NEW s \in Seq(Steps), NEW t \in Seq(Steps)
    PROVE  /\ s \o t \in Seq(Steps) /\ Len(s \o t) = Len(s) + Len(t)
           /\ Len(s) \in Nat /\ Len(t) \in Nat
           /\ \A i \in 1 .. Len(s) : (s \o t)[i] = s[i]
           /\ \A i \in 1 .. Len(t) : (s \o t)[Len(s) + i] = t[i]
OBVIOUS

LEMMA CheckpointRuns ==
    ASSUME NEW c, ChainOK(c), c.launch = "open", c.queued <= c.supply
    PROVE  Runs(Checkpointing, c)
<1> DEFINE s == Checkpointing
<1>0. /\ s \in Seq(Steps) /\ Len(s) = 3 /\ s[1].ev = "BurnQueued" /\ s[2].ev = "NavCheckpoint"
      /\ s[3].ev = "RefCheckpoint"
  BY CheckpointingIs
<1> HIDE DEF s
<1>1. \A i \in 1 .. Len(s) : i = 1 \/ i = 2 \/ i = 3
  BY <1>0
<1>2. \A i \in 1 .. Len(s) : Timely(c, s[i])
  BY <1>0, <1>1 DEF Timely, ChainOK, None
<1> QED
  BY <1>0, <1>1, <1>2 DEF Runs, One, Has, ChainOK, None, Single, s

BondScript(a) == <<Step("EpochRolled")>> \o Checkpointing \o <<Sized("VestingMinted", 1), a>>

LEMMA BondRuns ==
    ASSUME NEW c, ChainOK(c), c.launch = "open", c.queued <= c.supply, c.listed,
           NEW a \in Steps, a.ev = "Bond"
    PROVE  Runs(BondScript(a), c)
<1> DEFINE s == BondScript(a)
<1>0. /\ s \in Seq(Steps) /\ Len(s) = 6 /\ s[1].ev = "EpochRolled" /\ s[2].ev = "BurnQueued"
      /\ s[3].ev = "NavCheckpoint" /\ s[4].ev = "RefCheckpoint" /\ s[5].ev = "VestingMinted"
      /\ s[6].ev = "Bond"
  <2>1. /\ Step("EpochRolled") \in Steps /\ Step("EpochRolled").ev = "EpochRolled"
        /\ Sized("VestingMinted", 1) \in Steps /\ Sized("VestingMinted", 1).ev = "VestingMinted"
    BY DEF Step, Sized, Steps, Levels, Events
  <2> DEFINE u == <<Step("EpochRolled")>> \o Checkpointing
             t == <<Sized("VestingMinted", 1), a>>
  <2>2. /\ <<Step("EpochRolled")>> \in Seq(Steps) /\ Len(<<Step("EpochRolled")>>) = 1
        /\ <<Step("EpochRolled")>>[1].ev = "EpochRolled"
        /\ t \in Seq(Steps) /\ Len(t) = 2 /\ t[1].ev = "VestingMinted" /\ t[2].ev = "Bond"
    BY <2>1
  <2>3. /\ u \in Seq(Steps) /\ Len(u) = 4 /\ u[1].ev = "EpochRolled" /\ u[2].ev = "BurnQueued"
        /\ u[3].ev = "NavCheckpoint" /\ u[4].ev = "RefCheckpoint"
    <3> DEFINE e == <<Step("EpochRolled")>>
    <3>1. e \in Seq(Steps) /\ Len(e) = 1 /\ e[1].ev = "EpochRolled" /\ u = e \o Checkpointing
      BY <2>2
    <3> HIDE DEF e, u
    <3>2. /\ u \in Seq(Steps) /\ Len(u) = 4
          /\ \A i \in 1 .. 1 : u[i] = e[i]
          /\ \A i \in 1 .. 3 : u[1 + i] = Checkpointing[i]
      <4>1. Checkpointing \in Seq(Steps) /\ Len(Checkpointing) = 3
        BY CheckpointingIs
      <4>2. e \in Seq(Steps)
        BY <3>1
      <4>3. /\ e \o Checkpointing \in Seq(Steps)
            /\ Len(e \o Checkpointing) = Len(e) + Len(Checkpointing)
            /\ \A i \in 1 .. Len(e) : (e \o Checkpointing)[i] = e[i]
            /\ \A i \in 1 .. Len(Checkpointing) : (e \o Checkpointing)[Len(e) + i] = Checkpointing[i]
        BY ONLY <4>1, <4>2, Joined, Zenon
      <4>4. u = e \o Checkpointing
        BY <3>1
      <4>5. /\ u \in Seq(Steps) /\ Len(u) = Len(e) + Len(Checkpointing)
            /\ \A i \in 1 .. Len(e) : u[i] = e[i]
            /\ \A i \in 1 .. Len(Checkpointing) : u[Len(e) + i] = Checkpointing[i]
        BY ONLY <4>3, <4>4, Zenon
      <4> QED
        BY <3>1, <4>1, <4>5
    <3>3. u[1] = e[1] /\ u[1 + 1] = Checkpointing[1] /\ u[1 + 2] = Checkpointing[2] /\ u[1 + 3] = Checkpointing[3]
      BY <3>2
    <3> QED
      BY <3>1, <3>2, <3>3, CheckpointingIs
  <2> HIDE DEF u, t
  <2>4. /\ u \o t \in Seq(Steps) /\ Len(u \o t) = 6
        /\ \A i \in 1 .. 4 : (u \o t)[i] = u[i]
        /\ \A i \in 1 .. 2 : (u \o t)[4 + i] = t[i]
    <3>1. /\ u \o t \in Seq(Steps) /\ Len(u \o t) = Len(u) + Len(t)
          /\ \A i \in 1 .. Len(u) : (u \o t)[i] = u[i]
          /\ \A i \in 1 .. Len(t) : (u \o t)[Len(u) + i] = t[i]
      BY <2>2, <2>3, Joined, Zenon
    <3> QED
      BY <2>2, <2>3, <3>1
  <2>5. s = u \o t
    BY DEF BondScript, u, t
  <2>6. /\ (u \o t)[1] = u[1] /\ (u \o t)[2] = u[2] /\ (u \o t)[3] = u[3] /\ (u \o t)[4] = u[4]
        /\ (u \o t)[4 + 1] = t[1] /\ (u \o t)[4 + 2] = t[2]
    BY <2>4
  <2> QED
    BY <2>2, <2>3, <2>4, <2>5, <2>6
<1> HIDE DEF s
<1>1. \A i \in 1 .. Len(s) : i = 1 \/ i = 2 \/ i = 3 \/ i = 4 \/ i = 5 \/ i = 6
  BY <1>0
<1>2. \A i \in 1 .. Len(s) : Timely(c, s[i])
  BY <1>0, <1>1 DEF Timely, ChainOK, None
<1>3. c.queued + One(s, "Burn") + One(s, "Redeem") <= c.supply
  <2>1. ~Has(s, "Burn") /\ ~Has(s, "Redeem")
    BY <1>0, <1>1 DEF Has
  <2> QED
    BY <2>1 DEF One, ChainOK
<1>4. c.launch # None
  BY DEF None
<1>5. \A i, j \in 1 .. Len(s) : s[i].ev = s[j].ev /\ s[i].ev \in Single => i = j
  BY <1>0, <1>1 DEF Single
<1>6. /\ \A i \in 1 .. Len(s) : s[i].ev = "RefCheckpoint" =>
             s[i].n # 0 \/ c.nav # 0 \/ \E j \in 1 .. i - 1 : s[j].ev = "NavCheckpoint"
      /\ \A i \in 1 .. Len(s) : s[i].ev = "Genesis" =>
             c.live # 0 \/ \E j \in 1 .. i - 1 : s[j].ev = "NavCheckpoint"
      /\ \A i \in 1 .. Len(s) : s[i].ev = "Bond" =>
             Settling(c) \/ \E j \in 1 .. i - 1 : s[j].ev = "NavCheckpoint"
      /\ \A i \in 1 .. Len(s) : s[i].ev = "NavCheckpoint" =>
             \E j \in i + 1 .. Len(s) : s[j].ev = "RefCheckpoint"
  BY <1>0, <1>1
<1>7. Runs(s, c)
  BY <1>0, <1>2, <1>3, <1>4, <1>5, <1>6, Zenon DEF Runs
<1> QED
  BY <1>7 DEF s

LEMMA RedeemRuns ==
    ASSUME NEW c, ChainOK(c), c.launch = "open", c.supply > c.queued + 2, NEW n \in {0, 1}
    PROVE  Runs(<<Step("BurnQueued"), Sized("Burn", 1), Sized("Redeem", n)>>, c)
<1> DEFINE s == <<Step("BurnQueued"), Sized("Burn", 1), Sized("Redeem", n)>>
<1>0. /\ s \in Seq(Steps) /\ Len(s) = 3 /\ s[1].ev = "BurnQueued" /\ s[2].ev = "Burn"
      /\ s[2].n = 1 /\ s[3].ev = "Redeem" /\ s[3].n <= 1
  <2>1. /\ Step("BurnQueued") \in Steps /\ Step("BurnQueued").ev = "BurnQueued"
        /\ Sized("Burn", 1) \in Steps /\ Sized("Burn", 1).ev = "Burn" /\ Sized("Burn", 1).n = 1
        /\ Sized("Redeem", n) \in Steps /\ Sized("Redeem", n).ev = "Redeem" /\ Sized("Redeem", n).n = n
    BY DEF Step, Sized, Steps, Levels, Events
  <2> QED
    BY <2>1
<1> HIDE DEF s
<1>1. \A i \in 1 .. Len(s) : i = 1 \/ i = 2 \/ i = 3
  BY <1>0
<1>2. \A i \in 1 .. Len(s) : Timely(c, s[i])
  BY <1>0, <1>1 DEF Timely, ChainOK, None
<1>3. c.queued + One(s, "Burn") + One(s, "Redeem") <= c.supply
  BY DEF One, ChainOK
<1>4. c.launch # None
  BY DEF None
<1>5. /\ \A i \in 1 .. Len(s) : s[i].ev \notin {"RefCheckpoint", "Genesis", "Bond", "NavCheckpoint"}
      /\ \A i, j \in 1 .. Len(s) : s[i].ev = s[j].ev /\ s[i].ev \in Single => i = j
  BY <1>0, <1>1 DEF Single
<1>6. Runs(s, c)
  BY <1>0, <1>2, <1>3, <1>4, <1>5, Zenon DEF Runs
<1> QED
  BY <1>6 DEF s

\* One step that is neither a checkpoint, a burn nor a sale.
LEMMA PlainRuns ==
    ASSUME NEW c, ChainOK(c), c.launch = "open", c.queued <= c.supply,
           NEW a \in Steps, a.ev \in {"Claim", "PriceMoved"}
    PROVE  Runs(<<a>>, c)
<1> DEFINE s == <<a>>
<1>0. s \in Seq(Steps) /\ Len(s) = 1 /\ s[1] = a
  OBVIOUS
<1> HIDE DEF s
<1>1. \A i \in 1 .. Len(s) : i = 1
  BY <1>0
<1>2. \A i \in 1 .. Len(s) : Timely(c, s[i])
  BY <1>0, <1>1 DEF Timely, ChainOK, None
<1>3. c.queued + One(s, "Burn") + One(s, "Redeem") <= c.supply
  <2>1. ~Has(s, "Burn") /\ ~Has(s, "Redeem")
    BY <1>0, <1>1 DEF Has
  <2> QED
    BY <2>1 DEF One, ChainOK
<1>4. c.launch # None
  BY DEF None
<1>5. /\ \A i \in 1 .. Len(s) : s[i].ev \notin {"RefCheckpoint", "Genesis", "Bond", "NavCheckpoint"}
      /\ \A i, j \in 1 .. Len(s) : s[i].ev = s[j].ev /\ s[i].ev \in Single => i = j
  BY <1>0, <1>1 DEF Single
<1>6. Runs(s, c)
  BY <1>0, <1>2, <1>3, <1>4, <1>5, Zenon DEF Runs
<1> QED
  BY <1>6 DEF s

LEMMA MintRuns ==
    ASSUME NEW c, ChainOK(c), c.launch = None, c.queued <= c.supply
    PROVE  Runs(<<Step("GenesisMinted")>>, c)
<1> DEFINE s == <<Step("GenesisMinted")>>
<1>0. s \in Seq(Steps) /\ Len(s) = 1 /\ s[1].ev = "GenesisMinted"
  BY DEF Step, Steps, Levels, Events
<1> HIDE DEF s
<1>1. \A i \in 1 .. Len(s) : i = 1
  BY <1>0
<1>2. \A i \in 1 .. Len(s) : Timely(c, s[i])
  BY <1>0, <1>1 DEF Timely, None
<1> QED
  BY <1>0, <1>1, <1>2 DEF Runs, One, Has, ChainOK, s

OpeningScript(n) ==
    <<[Step("NavCheckpoint") EXCEPT !.live = n], Step("RefCheckpoint"),
      Sized("RefCheckpoint", IF P0 < n THEN n ELSE P0), Step("Genesis"), Step("CollateralAdded")>>

LEMMA OpeningRuns ==
    ASSUME NEW c, ChainOK(c), c.launch = "minted", c.queued <= c.supply, NEW n \in Navs
    PROVE  Runs(OpeningScript(n), c)
<1> DEFINE s == OpeningScript(n)
<1>0. /\ s \in Seq(Steps) /\ Len(s) = 5 /\ s[1].ev = "NavCheckpoint" /\ s[1].live # 0
      /\ s[2].ev = "RefCheckpoint" /\ s[3].ev = "RefCheckpoint" /\ s[4].ev = "Genesis"
      /\ s[5].ev = "CollateralAdded"
  <2>1. /\ [Step("NavCheckpoint") EXCEPT !.live = n] \in Steps
        /\ [Step("NavCheckpoint") EXCEPT !.live = n].ev = "NavCheckpoint"
        /\ [Step("NavCheckpoint") EXCEPT !.live = n].live # 0
    BY IndexerAssumption DEF Step, Steps, Levels, Events
  <2>2. /\ Step("RefCheckpoint") \in Steps /\ Step("RefCheckpoint").ev = "RefCheckpoint"
        /\ Step("Genesis") \in Steps /\ Step("Genesis").ev = "Genesis"
        /\ Step("CollateralAdded") \in Steps /\ Step("CollateralAdded").ev = "CollateralAdded"
    BY DEF Step, Steps, Levels, Events
  <2>3. \A m \in Nat : Sized("RefCheckpoint", m) \in Steps /\ Sized("RefCheckpoint", m).ev = "RefCheckpoint"
    BY DEF Step, Sized, Steps, Levels, Events
  <2>4. (IF P0 < n THEN n ELSE P0) \in Nat
    BY IndexerAssumption
  <2> QED
    <3>1. \E a, b, e, f, g \in Steps :
             /\ s = <<a, b, e, f, g>> /\ a.ev = "NavCheckpoint" /\ a.live # 0
             /\ b.ev = "RefCheckpoint" /\ e.ev = "RefCheckpoint" /\ f.ev = "Genesis"
             /\ g.ev = "CollateralAdded"
      BY <2>1, <2>2, <2>3, <2>4 DEF OpeningScript
    <3> HIDE DEF s
    <3> QED
      BY <3>1
<1> HIDE DEF s
<1>1. \A i \in 1 .. Len(s) : i = 1 \/ i = 2 \/ i = 3 \/ i = 4 \/ i = 5
  BY <1>0
<1>2. \A i \in 1 .. Len(s) : Timely(c, s[i])
  BY <1>0, <1>1 DEF Timely, ChainOK, None
<1> QED
  BY <1>0, <1>1, <1>2 DEF Runs, One, Has, ChainOK, None, Single, s

CompoundScript(works, l) ==
    Checkpointing
    \o (IF works THEN <<[Sized("Burn", 1) EXCEPT !.live = l], Step("Placement")>> ELSE <<>>)
    \o Checkpointing \o <<Step("Compound")>>

CompoundShape(s, works, l) ==
    /\ s \in Seq(Steps)
    /\ works => /\ Len(s) = 9
                /\ s[1].ev = "BurnQueued" /\ s[2].ev = "NavCheckpoint" /\ s[3].ev = "RefCheckpoint"
                /\ s[4].ev = "Burn" /\ s[4].n = 1 /\ s[4].live = l /\ s[5].ev = "Placement"
                /\ s[6].ev = "BurnQueued" /\ s[7].ev = "NavCheckpoint" /\ s[8].ev = "RefCheckpoint"
                /\ s[9].ev = "Compound"
                /\ \A i \in 1 .. 9 : i # 4 => s[i].live = 0
    /\ ~works => /\ Len(s) = 7
                 /\ s[1].ev = "BurnQueued" /\ s[2].ev = "NavCheckpoint" /\ s[3].ev = "RefCheckpoint"
                 /\ s[4].ev = "BurnQueued" /\ s[5].ev = "NavCheckpoint" /\ s[6].ev = "RefCheckpoint"
                 /\ s[7].ev = "Compound"
                 /\ \A i \in 1 .. 7 : s[i].live = 0

LEMMA CompoundIs ==
    ASSUME NEW works \in BOOLEAN, NEW l \in Levels, NEW s, s = CompoundScript(works, l)
    PROVE  CompoundShape(s, works, l)
<1> DEFINE C == Checkpointing
           m == IF works THEN <<[Sized("Burn", 1) EXCEPT !.live = l], Step("Placement")>> ELSE <<>>
           z == <<Step("Compound")>>
<1>1. /\ C \in Seq(Steps) /\ Len(C) = 3 /\ C[1].ev = "BurnQueued" /\ C[2].ev = "NavCheckpoint"
      /\ C[3].ev = "RefCheckpoint" /\ C[1].live = 0 /\ C[2].live = 0 /\ C[3].live = 0
  BY CheckpointingIs
<1>2. /\ z \in Seq(Steps) /\ Len(z) = 1 /\ z[1].ev = "Compound" /\ z[1].live = 0
  <2>1. Step("Compound") \in Steps /\ Step("Compound").ev = "Compound" /\ Step("Compound").live = 0
    BY DEF Step, Steps, Levels, Events
  <2> QED
    BY <2>1
<1>3. /\ m \in Seq(Steps)
      /\ works => /\ Len(m) = 2 /\ m[1].ev = "Burn" /\ m[1].n = 1 /\ m[1].live = l
                  /\ m[2].ev = "Placement" /\ m[2].live = 0
      /\ ~works => Len(m) = 0
  <2>1. /\ [Sized("Burn", 1) EXCEPT !.live = l] \in Steps
        /\ [Sized("Burn", 1) EXCEPT !.live = l].ev = "Burn"
        /\ [Sized("Burn", 1) EXCEPT !.live = l].n = 1
        /\ [Sized("Burn", 1) EXCEPT !.live = l].live = l
    BY DEF Step, Sized, Steps, Levels, Events
  <2>2. Step("Placement") \in Steps /\ Step("Placement").ev = "Placement" /\ Step("Placement").live = 0
    BY DEF Step, Steps, Levels, Events
  <2> QED
    BY <2>1, <2>2
<1>4. s = ((C \o m) \o C) \o z
  BY DEF CompoundScript
<1> HIDE DEF C, m, z
<1> DEFINE u == C \o m
           v == u \o C
<1>5. /\ u \in Seq(Steps) /\ Len(u) = Len(C) + Len(m)
      /\ \A i \in 1 .. Len(C) : u[i] = C[i]
      /\ \A i \in 1 .. Len(m) : u[Len(C) + i] = m[i]
  BY <1>1, <1>3, Joined, Zenon
<1>6. s = v \o z
  BY <1>4
<1> HIDE DEF u
<1>7. /\ v \in Seq(Steps) /\ Len(v) = Len(u) + Len(C)
      /\ \A i \in 1 .. Len(u) : v[i] = u[i]
      /\ \A i \in 1 .. Len(C) : v[Len(u) + i] = C[i]
  BY <1>1, <1>5, Joined, Zenon
<1> HIDE DEF v
<1>8. /\ s \in Seq(Steps) /\ Len(s) = Len(v) + Len(z)
      /\ \A i \in 1 .. Len(v) : s[i] = v[i]
      /\ \A i \in 1 .. Len(z) : s[Len(v) + i] = z[i]
  <2>1. /\ v \o z \in Seq(Steps) /\ Len(v \o z) = Len(v) + Len(z)
        /\ \A i \in 1 .. Len(v) : (v \o z)[i] = v[i]
        /\ \A i \in 1 .. Len(z) : (v \o z)[Len(v) + i] = z[i]
    BY <1>2, <1>7, Joined, Zenon
  <2> QED
    BY <1>6, <2>1, Zenon
<1>9. CASE works
  <2>0. /\ Len(m) = 2 /\ m[1].ev = "Burn" /\ m[1].n = 1 /\ m[1].live = l
        /\ m[2].ev = "Placement" /\ m[2].live = 0
    BY <1>3, <1>9, Zenon
  <2>1. /\ Len(u) = 5 /\ Len(v) = 8 /\ Len(s) = 9
    BY <1>1, <1>2, <1>5, <1>7, <1>8, <2>0
  <2>2. /\ u[1] = C[1] /\ u[2] = C[2] /\ u[3] = C[3] /\ u[3 + 1] = m[1] /\ u[3 + 2] = m[2]
    BY <1>1, <1>5, <2>0
  <2>3. /\ v[1] = u[1] /\ v[2] = u[2] /\ v[3] = u[3] /\ v[4] = u[4] /\ v[5] = u[5]
        /\ v[5 + 1] = C[1] /\ v[5 + 2] = C[2] /\ v[5 + 3] = C[3]
    BY <1>1, <1>7, <2>1
  <2>4. /\ s[1] = v[1] /\ s[2] = v[2] /\ s[3] = v[3] /\ s[4] = v[4] /\ s[5] = v[5] /\ s[6] = v[6]
        /\ s[7] = v[7] /\ s[8] = v[8] /\ s[8 + 1] = z[1]
    BY <1>2, <1>8, <2>1
  <2>5. /\ s[1].ev = "BurnQueued" /\ s[2].ev = "NavCheckpoint" /\ s[3].ev = "RefCheckpoint"
        /\ s[4].ev = "Burn" /\ s[4].n = 1 /\ s[4].live = l /\ s[5].ev = "Placement"
        /\ s[6].ev = "BurnQueued" /\ s[7].ev = "NavCheckpoint" /\ s[8].ev = "RefCheckpoint"
        /\ s[9].ev = "Compound"
    BY <1>1, <1>2, <2>0, <2>2, <2>3, <2>4
  <2>6. /\ s[1].live = 0 /\ s[2].live = 0 /\ s[3].live = 0 /\ s[5].live = 0 /\ s[6].live = 0
        /\ s[7].live = 0 /\ s[8].live = 0 /\ s[9].live = 0
    BY <1>1, <1>2, <2>0, <2>2, <2>3, <2>4
  <2>7. \A i \in 1 .. 9 : i # 4 => s[i].live = 0
    BY <2>6
  <2> QED
    BY <1>8, <1>9, <2>1, <2>5, <2>7, Zenon DEF CompoundShape
<1>10. CASE ~works
  <2>1. /\ Len(u) = 3 /\ Len(v) = 6 /\ Len(s) = 7
    BY <1>1, <1>2, <1>3, <1>5, <1>7, <1>8, <1>10
  <2>2. /\ u[1] = C[1] /\ u[2] = C[2] /\ u[3] = C[3]
    BY <1>1, <1>5
  <2>3. /\ v[1] = u[1] /\ v[2] = u[2] /\ v[3] = u[3]
        /\ v[3 + 1] = C[1] /\ v[3 + 2] = C[2] /\ v[3 + 3] = C[3]
    BY <1>1, <1>7, <2>1
  <2>4. /\ s[1] = v[1] /\ s[2] = v[2] /\ s[3] = v[3] /\ s[4] = v[4] /\ s[5] = v[5] /\ s[6] = v[6]
        /\ s[6 + 1] = z[1]
    BY <1>2, <1>8, <2>1
  <2> QED
    BY <1>1, <1>2, <1>8, <1>10, <2>1, <2>2, <2>3, <2>4 DEF CompoundShape
<1> QED
  BY <1>9, <1>10

LEMMA CompoundRuns ==
    ASSUME NEW c, ChainOK(c), c.launch = "open", c.queued <= c.supply,
           NEW works \in BOOLEAN, works => c.supply > c.queued + 1, NEW l \in Levels
    PROVE  Runs(CompoundScript(works, l), c)
<1> DEFINE s == CompoundScript(works, l)
<1>0. CompoundShape(s, works, l)
  BY CompoundIs
<1> HIDE DEF s
<1>1. CASE works
  <2>1. /\ s \in Seq(Steps) /\ Len(s) = 9
        /\ s[1].ev = "BurnQueued" /\ s[2].ev = "NavCheckpoint" /\ s[3].ev = "RefCheckpoint"
        /\ s[4].ev = "Burn" /\ s[4].n = 1 /\ s[5].ev = "Placement"
        /\ s[6].ev = "BurnQueued" /\ s[7].ev = "NavCheckpoint" /\ s[8].ev = "RefCheckpoint"
        /\ s[9].ev = "Compound"
    BY <1>0, <1>1, Zenon DEF CompoundShape
  <2>2. \A i \in 1 .. Len(s) : i \in {1, 2, 3, 4, 5, 6, 7, 8, 9}
    BY <2>1
  <2>3. \A i \in 1 .. Len(s) : Timely(c, s[i])
    BY <2>1, <2>2 DEF Timely, ChainOK, None
  <2>4. c.queued + One(s, "Burn") + One(s, "Redeem") <= c.supply
    <3>1. ~Has(s, "Redeem")
      BY <2>1, <2>2 DEF Has
    <3> QED
      BY <1>1, <3>1 DEF One, ChainOK
  <2>5. \A i, j \in 1 .. Len(s) : s[i].ev = s[j].ev /\ s[i].ev \in Single => i = j
    <3>1. \A i \in 1 .. Len(s) : s[i].ev \in Single => i \in {4, 9}
      BY <2>1, <2>2 DEF Single
    <3> QED
      BY <2>1, <3>1
  <2>6. \A i \in 1 .. Len(s) : s[i].ev = "RefCheckpoint" =>
            \E j \in 1 .. i - 1 : s[j].ev = "NavCheckpoint"
    BY <2>1, <2>2
  <2>7. \A i \in 1 .. Len(s) : s[i].ev = "NavCheckpoint" =>
            \E j \in i + 1 .. Len(s) : s[j].ev = "RefCheckpoint"
    <3>1. \A i \in 1 .. Len(s) : s[i].ev = "NavCheckpoint" => i <= 7
      BY <2>1, <2>2
    <3>2. 8 \in 1 .. Len(s) /\ \A i \in 1 .. Len(s) : i <= 7 => 8 \in i + 1 .. Len(s)
      BY <2>1
    <3> QED
      BY <2>1, <3>1, <3>2
  <2>8. \A i \in 1 .. Len(s) : s[i].ev \notin {"Bond", "Genesis"}
    BY <2>1, <2>2
  <2>9. c.launch # None
    BY DEF None
  <2>10. /\ \A i \in 1 .. Len(s) : s[i].ev = "RefCheckpoint" =>
                s[i].n # 0 \/ c.nav # 0 \/ \E j \in 1 .. i - 1 : s[j].ev = "NavCheckpoint"
         /\ \A i \in 1 .. Len(s) : s[i].ev = "Genesis" =>
                c.live # 0 \/ \E j \in 1 .. i - 1 : s[j].ev = "NavCheckpoint"
         /\ \A i \in 1 .. Len(s) : s[i].ev = "Bond" =>
                Settling(c) \/ \E j \in 1 .. i - 1 : s[j].ev = "NavCheckpoint"
    BY <2>6, <2>8
  <2>11. s \in Seq(Steps)
    BY <2>1
  <2>12. Runs(s, c)
    BY <2>3, <2>4, <2>5, <2>7, <2>9, <2>10, <2>11, Zenon DEF Runs
  <2> QED
    BY <2>12 DEF s
<1>2. CASE ~works
  <2>1. /\ s \in Seq(Steps) /\ Len(s) = 7
        /\ s[1].ev = "BurnQueued" /\ s[2].ev = "NavCheckpoint" /\ s[3].ev = "RefCheckpoint"
        /\ s[4].ev = "BurnQueued" /\ s[5].ev = "NavCheckpoint" /\ s[6].ev = "RefCheckpoint"
        /\ s[7].ev = "Compound"
    BY <1>0, <1>2, Zenon DEF CompoundShape
  <2>2. \A i \in 1 .. Len(s) : i \in {1, 2, 3, 4, 5, 6, 7}
    BY <2>1
  <2>3. \A i \in 1 .. Len(s) : Timely(c, s[i])
    BY <2>1, <2>2 DEF Timely, ChainOK, None
  <2>4. c.queued + One(s, "Burn") + One(s, "Redeem") <= c.supply
    <3>1. ~Has(s, "Redeem") /\ ~Has(s, "Burn")
      BY <2>1, <2>2 DEF Has
    <3> QED
      BY <3>1 DEF One, ChainOK
  <2>5. \A i, j \in 1 .. Len(s) : s[i].ev = s[j].ev /\ s[i].ev \in Single => i = j
    <3>1. \A i \in 1 .. Len(s) : s[i].ev \in Single => i = 7
      BY <2>1, <2>2 DEF Single
    <3> QED
      BY <3>1
  <2>6. \A i \in 1 .. Len(s) : s[i].ev = "RefCheckpoint" =>
            \E j \in 1 .. i - 1 : s[j].ev = "NavCheckpoint"
    BY <2>1, <2>2
  <2>7. \A i \in 1 .. Len(s) : s[i].ev = "NavCheckpoint" =>
            \E j \in i + 1 .. Len(s) : s[j].ev = "RefCheckpoint"
    <3>1. \A i \in 1 .. Len(s) : s[i].ev = "NavCheckpoint" => i <= 5
      BY <2>1, <2>2
    <3>2. 6 \in 1 .. Len(s) /\ \A i \in 1 .. Len(s) : i <= 5 => 6 \in i + 1 .. Len(s)
      BY <2>1
    <3> QED
      BY <2>1, <3>1, <3>2
  <2>8. \A i \in 1 .. Len(s) : s[i].ev \notin {"Bond", "Genesis"}
    BY <2>1, <2>2
  <2>9. c.launch # None
    BY DEF None
  <2>10. /\ \A i \in 1 .. Len(s) : s[i].ev = "RefCheckpoint" =>
                s[i].n # 0 \/ c.nav # 0 \/ \E j \in 1 .. i - 1 : s[j].ev = "NavCheckpoint"
         /\ \A i \in 1 .. Len(s) : s[i].ev = "Genesis" =>
                c.live # 0 \/ \E j \in 1 .. i - 1 : s[j].ev = "NavCheckpoint"
         /\ \A i \in 1 .. Len(s) : s[i].ev = "Bond" =>
                Settling(c) \/ \E j \in 1 .. i - 1 : s[j].ev = "NavCheckpoint"
    BY <2>6, <2>8
  <2>11. s \in Seq(Steps)
    BY <2>1
  <2>12. Runs(s, c)
    BY <2>3, <2>4, <2>5, <2>7, <2>9, <2>10, <2>11, Zenon DEF Runs
  <2> QED
    BY <2>12 DEF s
<1> QED
  BY <1>1, <1>2 DEF s

---------------------------------------------------------------------------
(* The block.                                                              *)

After(i) == IF i = 0 THEN base.chain ELSE block[i].after

(* What log i of a block says of the contracts before and after it, but    *)
(* for what NAV would be, which moves without a log.                       *)
FollowsSupply(c, l, d) ==
    /\ l.ev = "GenesisMinted" <=> c.launch = None
    /\ d.launch # None
    /\ l.ev = "GenesisMinted" => d.supply = S0
    /\ l.ev = "Genesis" => c.supply = S0
    /\ l.ev = "Burn" => d.supply = c.supply - l.n
    /\ l.ev = "VestingMinted" => d.supply = c.supply + l.n
    /\ l.ev \notin {"GenesisMinted", "Burn", "VestingMinted"} => d.supply = c.supply

FollowsNav(c, l, d) ==
    /\ l.ev = "NavCheckpoint" => d.nav = d.live /\ d.nav # 0
    /\ l.ev # "NavCheckpoint" => d.nav = c.nav
    /\ l.ev = "RefCheckpoint" => d.pRef # 0
    /\ l.ev # "RefCheckpoint" => d.pRef = c.pRef

FollowsIssue(c, l, d) ==
    /\ l.ev \in {"Bond", "EpochRolled"} => c.listed
    /\ l.ev = "CollateralAdded" => d.listed
    /\ l.ev # "CollateralAdded" => d.listed = c.listed
    /\ l.ev = "Bond" => d.issued = c.issued + l.n /\ d.epochIssued = c.epochIssued + l.n
    /\ l.ev # "Bond" => d.issued = c.issued
    /\ l.ev = "EpochRolled" => d.epochIssued = 0
    /\ l.ev \notin {"Bond", "EpochRolled"} => d.epochIssued = c.epochIssued

FollowsMark(c, l, d, i, h) ==
    /\ l.ev = "NavCheckpoint" => ~d.marked
    /\ l.ev \in {"Bond", "Redeem", "Placement", "Compound", "PriceMoved"} => d.marked
    /\ l.ev \notin {"NavCheckpoint", "Bond", "Redeem", "Placement", "Compound", "PriceMoved"} =>
           d.marked = c.marked
    /\ d.drifts = IF l.ev = "NavCheckpoint" /\ c.nav > d.live /\ ~c.marked
                  THEN c.drifts \cup {<<h, i>>} ELSE c.drifts

FollowsSales(c, l, d) ==
    /\ l.ev = "NavCheckpoint" =>
           /\ DOMAIN d.sales = DOMAIN c.sales
           /\ \A i \in DOMAIN c.sales :
                  /\ d.sales[i].before = c.sales[i].before
                  /\ d.sales[i].after = IF c.sales[i].after = 0 THEN d.live ELSE c.sales[i].after
    /\ l.ev = "Bond" => Settling(c) /\ d.sales = Append(c.sales, [before |-> c.nav, after |-> 0])
    /\ l.ev \notin {"NavCheckpoint", "Bond"} => d.sales = c.sales

Follows(c, l, i, h) ==
    /\ ChainOK(l.after) /\ l.ev \in Events \ {"BurnQueued"} /\ l.n \in Nat
    /\ FollowsSupply(c, l, l.after) /\ FollowsNav(c, l, l.after) /\ FollowsIssue(c, l, l.after)
    /\ FollowsMark(c, l, l.after, i, h) /\ FollowsSales(c, l, l.after)

Level(c, d) == DOMAIN c = Fields /\ \A k \in Fields \ {"live"} : c[k] = d[k]

LEMMA LevelIs ==
    ASSUME NEW c, NEW d, Level(c, d)
    PROVE  /\ c.launch = d.launch /\ c.listed = d.listed /\ c.supply = d.supply /\ c.queued = d.queued
           /\ c.nav = d.nav /\ c.pRef = d.pRef /\ c.marked = d.marked /\ c.drifts = d.drifts
           /\ c.epochIssued = d.epochIssued /\ c.issued = d.issued /\ c.sales = d.sales
BY DEF Level, Fields

LEMMA LogFollows ==
    ASSUME NEW c, ChainOK(c), NEW s, Runs(s, c), s # <<>>, ~Idle(c, Head(s)),
           NEW p, Level(p, c), NEW l, l = LogOf(c, Head(s))
    PROVE  Follows(p, l, Len(block) + 1, height) /\ l.after = Effect(c, Head(s))
<1> DEFINE h == Head(s)
           d == Effect(c, h)
<1>0. /\ DOMAIN c = Fields /\ h \in Steps /\ Timely(c, h) /\ h.n \in Nat
      /\ h.ev \in Events /\ c.queued \in Nat /\ c.supply \in Nat /\ ChainOK(d)
  <2>1. h \in Steps /\ Timely(c, h) /\ ChainOK(d)
    BY RunsHead, StepRuns
  <2>2. h.n \in Nat /\ h.ev \in Events
    BY <2>1 DEF Steps
  <2>3. DOMAIN c = Fields /\ c.queued \in Nat /\ c.supply \in Nat
    BY DEF ChainOK
  <2> QED
    BY <2>1, <2>2, <2>3, Zenon
<1>1. /\ l.ev = (IF h.ev = "BurnQueued" THEN "Burn" ELSE h.ev)
      /\ l.n = (IF h.ev = "BurnQueued" THEN c.queued ELSE h.n)
      /\ l.after = d
  BY DEF LogOf
<1>r. /\ h.ev = "Genesis" => c.live # 0
      /\ h.ev = "RefCheckpoint" => h.n # 0 \/ c.nav # 0
      /\ h.ev = "Bond" => Settling(c)
  BY RunsHead
<1> HIDE DEF h
<1>p. /\ p.launch = c.launch /\ p.listed = c.listed /\ p.supply = c.supply /\ p.queued = c.queued
      /\ p.nav = c.nav /\ p.pRef = c.pRef /\ p.marked = c.marked /\ p.drifts = c.drifts
      /\ p.epochIssued = c.epochIssued /\ p.issued = c.issued /\ p.sales = c.sales
  BY LevelIs
<1>2. FollowsSupply(p, l, d)
  <2>1. d.supply = IF h.ev = "GenesisMinted" THEN S0
                   ELSE IF h.ev = "BurnQueued" THEN c.supply - c.queued
                   ELSE IF h.ev = "Burn" THEN c.supply - h.n
                   ELSE IF h.ev = "VestingMinted" THEN c.supply + h.n ELSE c.supply
    BY <1>0, EffectSupply
  <2>2. h.ev = "GenesisMinted" <=> c.launch = None
    BY <1>0 DEF Timely
  <2>3. h.ev = "Genesis" => c.supply = S0
    BY <1>0 DEF Timely, ChainOK
  <2>4. d.launch # None
    BY <1>0, <2>2, EffectLaunch DEF None
  <2> QED
    BY <1>1, <1>p, <2>1, <2>2, <2>3, <2>4 DEF FollowsSupply
<1>3. FollowsNav(p, l, d)
  <2>1. h.ev = "NavCheckpoint" => d.nav = d.live /\ d.nav # 0
    BY <1>0, Settles, EffectNav
  <2>2. h.ev = "RefCheckpoint" => d.pRef # 0
    BY <1>0, <1>r, EffectNav
  <2>3. /\ h.ev # "NavCheckpoint" => d.nav = c.nav
        /\ h.ev # "RefCheckpoint" => d.pRef = c.pRef
    BY <1>0, EffectNav
  <2> QED
    BY <1>1, <1>p, <2>1, <2>2, <2>3 DEF FollowsNav
<1>4. FollowsIssue(p, l, d)
  <2>1. h.ev \in {"Bond", "EpochRolled"} => c.listed
    BY <1>0 DEF Timely
  <2>2. d.listed = IF h.ev = "CollateralAdded" THEN TRUE ELSE c.listed
    BY <1>0, EffectLaunch
  <2>3. /\ d.issued = IF h.ev = "Bond" THEN c.issued + h.n ELSE c.issued
        /\ d.epochIssued = IF h.ev = "EpochRolled" THEN 0
                           ELSE IF h.ev = "Bond" THEN c.epochIssued + h.n ELSE c.epochIssued
    BY <1>0, EffectIssue
  <2> QED
    BY <1>1, <1>p, <2>1, <2>2, <2>3 DEF FollowsIssue
<1>5. FollowsMark(p, l, d, Len(block) + 1, height)
  <2>1. /\ d.marked = IF h.ev = "NavCheckpoint" THEN FALSE
                      ELSE IF h.ev \in {"Bond", "Redeem", "Placement", "Compound", "PriceMoved"}
                      THEN TRUE ELSE c.marked
        /\ d.drifts = IF h.ev = "NavCheckpoint" /\ c.nav > d.live /\ ~c.marked
                      THEN c.drifts \cup {<<height, Len(block) + 1>>} ELSE c.drifts
    BY <1>0, EffectMark
  <2> HIDE DEF d
  <2>2. d.marked = IF l.ev = "NavCheckpoint" THEN FALSE
                   ELSE IF l.ev \in {"Bond", "Redeem", "Placement", "Compound", "PriceMoved"}
                   THEN TRUE ELSE p.marked
    BY <1>1, <1>p, <2>1
  <2>3. d.drifts = IF l.ev = "NavCheckpoint" /\ p.nav > d.live /\ ~p.marked
                   THEN p.drifts \cup {<<height, Len(block) + 1>>} ELSE p.drifts
    BY <1>1, <1>p, <2>1
  <2> QED
    BY <2>2, <2>3 DEF FollowsMark
<1>6. FollowsSales(p, l, d)
  <2>1. CASE h.ev = "NavCheckpoint"
    <3>1. d.sales = [i \in DOMAIN c.sales |->
                        IF c.sales[i].after = 0 THEN [c.sales[i] EXCEPT !.after = d.live]
                        ELSE c.sales[i]]
      BY <1>0, <2>1, EffectSales
    <3>2. \A i \in DOMAIN c.sales : c.sales[i] \in Sale
      BY DEF ChainOK
    <3>3. /\ DOMAIN d.sales = DOMAIN c.sales
          /\ \A i \in DOMAIN c.sales :
                 /\ d.sales[i].before = c.sales[i].before
                 /\ d.sales[i].after = IF c.sales[i].after = 0 THEN d.live ELSE c.sales[i].after
      BY <3>1, <3>2 DEF Sale
    <3> QED
      BY <1>1, <1>p, <2>1, <3>3 DEF FollowsSales
  <2>2. CASE h.ev = "Bond"
    <3>1. d.sales = Append(c.sales, [before |-> c.nav, after |-> 0])
      BY <1>0, <2>2, EffectSales
    <3>2. Settling(p)
      BY <1>p, <1>r, <2>2 DEF Settling
    <3> QED
      BY <1>1, <1>p, <2>2, <3>1, <3>2 DEF FollowsSales
  <2>3. CASE h.ev \notin {"NavCheckpoint", "Bond"}
    <3>1. d.sales = c.sales
      BY <1>0, <2>3, EffectSales
    <3> QED
      BY <1>1, <1>p, <2>3, <3>1 DEF FollowsSales
  <2> QED
    BY <2>1, <2>2, <2>3
<1>7. l.ev \in Events \ {"BurnQueued"} /\ l.n \in Nat
  BY <1>0, <1>1 DEF Events
<1> QED
  BY <1>0, <1>1, <1>2, <1>3, <1>4, <1>5, <1>6, <1>7 DEF Follows, h


---------------------------------------------------------------------------
(* The contracts and the block along every behaviour.                      *)

Shape ==
    /\ phase \in {"mining", "indexing", "polled"} /\ halted \in BOOLEAN
    /\ height \in 1 .. MaxHeight /\ txs \in 0 .. MaxTxs /\ faults \in 0 .. MaxFaults
    /\ unread \subseteq 1 .. MaxHeight
    /\ at \in 0 .. Len(block)
    /\ phase = "mining" => at = 0
    /\ phase # "mining" => todo = <<>>

ChainInv ==
    /\ ChainOK(base.chain) /\ base.chain.queued <= base.chain.supply
    /\ ChainOK(chain) /\ Runs(todo, chain)
    /\ \E S : block \in Seq(S)
    /\ \A i \in 1 .. Len(block) : Follows(After(i - 1), block[i], i, height)
    /\ Level(After(Len(block)), chain)

LEMMA RunsNone ==
    ASSUME NEW c, ChainOK(c), c.queued <= c.supply
    PROVE  Runs(<<>>, c)
<1> DEFINE s == <<>>
<1>1. s \in Seq(Steps) /\ Len(s) = 0 /\ \A i \in 1 .. Len(s) : FALSE
  OBVIOUS
<1> HIDE DEF s
<1>2. One(s, "Burn") = 0 /\ One(s, "Redeem") = 0
  BY <1>1 DEF One, Has
<1>3. Len(s) <= 1
  BY <1>1
<1>4. c.queued + One(s, "Burn") + One(s, "Redeem") <= c.supply
  BY <1>2 DEF ChainOK
<1>5. Runs(s, c)
  BY <1>1, <1>3, <1>4, Zenon DEF Runs
<1> QED
  BY <1>5 DEF s

LEMMA QueuedFits ==
    ASSUME NEW c, ChainOK(c), NEW s, Runs(s, c)
    PROVE  c.queued <= c.supply
BY DEF Runs, One, ChainOK

LEMMA UnbornOK == ChainOK(Unborn) /\ Unborn.queued <= Unborn.supply
<1> DEFINE u == Unborn
<1>1. DOMAIN u = Fields
  BY DEF Unborn, Fields
<1>2. <<>> \in Seq(Sale) /\ [o \in Owners |-> <<>>] \in [Owners -> Seq(Vest)]
  OBVIOUS
<1>3. /\ u.launch = None /\ u.supply = 0 /\ u.queued = 0 /\ u.issued = 0 /\ u.epochIssued = 0
      /\ u.nav = 0 /\ u.live = 0 /\ u.pRef = 0 /\ u.listed = FALSE /\ u.marked = FALSE
  BY DEF Unborn
<1>4. u.sales = <<>> /\ u.vests = [o \in Owners |-> <<>>]
  BY DEF Unborn
<1>5. u.sales \in Seq(Sale) /\ u.vests \in [Owners -> Seq(Vest)]
  BY <1>2, <1>4, Zenon
<1> HIDE DEF u
<1>6. /\ u.supply \in Nat /\ u.queued \in Nat /\ u.issued \in Nat /\ u.epochIssued \in Nat
      /\ u.nav \in Levels /\ u.live \in Levels /\ u.pRef \in Nat /\ u.queued <= u.supply
      /\ u.launch # "minted" /\ u.launch # "open"
  BY <1>3 DEF Levels, None
<1>7. ChainOK(u)
  BY <1>1, <1>3, <1>5, <1>6, Zenon DEF ChainOK
<1> QED
  BY <1>6, <1>7 DEF u

\* A transaction starts.
LEMMA ChainStarts ==
    ASSUME ChainInv, UNCHANGED <<chain, height, block, base>>, Runs(todo', chain)
    PROVE  ChainInv'
<1>1. \A i : After(i)' = After(i)
  BY DEF After
<1> QED
  BY <1>1 DEF ChainInv

\* Nothing of the chain's moves.
LEMMA ChainRests ==
    ASSUME ChainInv, UNCHANGED <<chain, height, todo, block>>, UNCHANGED base
    PROVE  ChainInv'
<1>1. Runs(todo', chain)
  BY DEF ChainInv
<1> QED
  BY <1>1, ChainStarts

\* A step is taken, with a log or without one.
LEMMA ChainEmits ==
    ASSUME ChainInv, Emit
    PROVE  ChainInv'
<1> DEFINE h == Head(todo)
           n == Len(block)
<1>1. /\ ChainOK(chain) /\ Runs(todo, chain) /\ todo # <<>> /\ todo' = Tail(todo)
      /\ base' = base /\ height' = height
  BY DEF ChainInv, Emit
<1>2. CASE Idle(chain, h)
  <2>1. chain' = chain /\ block' = block
    BY <1>2 DEF Emit
  <2>2. Runs(todo', chain)
    BY <1>1, <1>2, StepRuns
  <2> QED
    BY <1>1, <2>1, <2>2, ChainStarts
<1>3. CASE ~Idle(chain, h)
  <2> DEFINE l == LogOf(chain, h)
             p == After(n)
  <2>1. chain' = Effect(chain, h) /\ block' = Append(block, l)
    BY <1>3 DEF Emit
  <2>2. PICK S : block \in Seq(S)
    BY DEF ChainInv
  <2>3. Level(p, chain)
    BY DEF ChainInv
  <2>4. Follows(p, l, n + 1, height) /\ l.after = Effect(chain, h)
    BY <1>1, <1>3, <2>3, LogFollows
  <2>5. ChainOK(chain') /\ Runs(todo', chain')
    BY <1>1, <2>1, StepRuns
  <2> HIDE DEF l, h
  <2>6. /\ n \in Nat /\ block' \in Seq(S \cup {l}) /\ Len(block') = n + 1
        /\ block'[n + 1] = l /\ \A i \in 1 .. n : block'[i] = block[i]
    BY <2>1, <2>2
  <2>7. \A i \in 0 .. n : After(i)' = After(i)
    BY <1>1, <2>6 DEF After
  <2>8. After(Len(block))' = l.after
    BY <2>6 DEF After
  <2>9. ASSUME NEW i \in 1 .. n + 1 PROVE Follows(After(i - 1)', block'[i], i, height')
    <3>1. CASE i \in 1 .. n
      <4>1. i - 1 \in 0 .. n
        BY <2>6, <3>1
      <4>2. Follows(After(i - 1), block[i], i, height)
        BY <3>1 DEF ChainInv
      <4> QED
        BY <1>1, <2>6, <2>7, <3>1, <4>1, <4>2
    <3>2. CASE i = n + 1
      <4>1. i - 1 = n /\ n \in 0 .. n
        BY <2>6, <3>2
      <4>2. After(i - 1)' = p
        BY <2>7, <4>1
      <4> QED
        BY <1>1, <2>4, <2>6, <3>2, <4>2
    <3> QED
      BY <2>6, <3>1, <3>2
  <2>10. Level(chain', chain')
    BY <2>5 DEF Level, ChainOK
  <2>11. After(Len(block))' = chain'
    BY <2>1, <2>4, <2>8
  <2> QED
    BY <1>1, <2>5, <2>6, <2>9, <2>10, <2>11 DEF ChainInv
<1> QED
  BY <1>2, <1>3

\* NAV converges without a log.
LEMMA ChainConverges ==
    ASSUME ChainInv, Shape, Converge
    PROVE  ChainInv'
<1> DEFINE l == chain.live - 1
<1>1. /\ ChainOK(chain) /\ todo = <<>> /\ chain.launch = "open" /\ l \in Navs
      /\ chain' = [chain EXCEPT !.live = l] /\ UNCHANGED <<height, todo, block, base>>
      /\ Runs(todo, chain)
  BY DEF ChainInv, Converge, Between
<1>2. l # 0 /\ l \in Levels
  BY <1>1, IndexerAssumption DEF Levels
<1> HIDE DEF l
<1>3. DOMAIN chain = Fields
  BY <1>1 DEF ChainOK
<1>4. /\ DOMAIN chain' = Fields /\ chain'.live = l
      /\ \A k \in Fields \ {"live"} : chain'[k] = chain[k]
  BY <1>1, <1>3 DEF Fields
<1>5. ChainOK(chain') /\ chain'.queued = chain.queued /\ chain'.supply = chain.supply
  BY <1>1, <1>2, <1>4 DEF ChainOK, Fields
<1>6. Runs(todo', chain')
  BY <1>1, <1>5, RunsNone, QueuedFits
<1>7. \A i : After(i)' = After(i)
  BY <1>1 DEF After
<1>8. Level(After(Len(block)), chain')
  BY <1>4 DEF ChainInv, Level
<1> QED
  BY <1>1, <1>5, <1>6, <1>7, <1>8 DEF ChainInv

\* A block is closed, or taken back.
LEMMA ChainTurns ==
    ASSUME ChainInv, Shape, Close \/ Reorg
    PROVE  ChainInv'
<1>1. block' = <<>> /\ base'.chain = chain' /\ todo' = <<>>
  BY DEF Close, Reorg, Shape
<1>2. ChainOK(chain') /\ chain'.queued <= chain'.supply
  BY QueuedFits DEF ChainInv, Close, Reorg, RollBack
<1>3. Runs(todo', chain')
  BY <1>1, <1>2, RunsNone
<1>4. block' \in Seq({}) /\ Len(block') = 0
  BY <1>1
<1>5. After(Len(block))' = chain' /\ Level(chain', chain')
  BY <1>1, <1>2, <1>4 DEF After, Level, ChainOK
<1>6. \A i \in 1 .. Len(block') : FALSE
  BY <1>4
<1> QED
  BY <1>1, <1>2, <1>3, <1>4, <1>5, <1>6 DEF ChainInv


\* Every script can be run by the contracts it is written for.
LEMMA ScriptsRun ==
    ASSUME ChainInv,
           \/ GenesisMint \/ GenesisPlace \/ CheckpointTx \/ BondTx \/ ClaimTx \/ RedeemTx
           \/ CompoundTx \/ MarketTx
    PROVE  UNCHANGED <<chain, height, block, base>> /\ Runs(todo', chain)
<1> DEFINE Starts(script) == UNCHANGED <<chain, height, block, base>> /\ todo' = script
<1>0. ChainOK(chain) /\ chain.queued <= chain.supply
  BY QueuedFits DEF ChainInv
<1>1. \A script : Transact(script) => Starts(script) /\ chain.launch = "open"
  BY DEF Transact, Run
<1>2. CASE GenesisMint
  <2>1. Starts(<<Step("GenesisMinted")>>) /\ chain.launch = None
    BY <1>2 DEF GenesisMint, Run
  <2> QED
    BY <1>0, <2>1, MintRuns
<1>3. CASE GenesisPlace
  <2>1. PICK n \in Navs : Starts(OpeningScript(n)) /\ chain.launch = "minted"
    BY <1>3 DEF GenesisPlace, Run, OpeningScript
  <2> QED
    BY <1>0, <2>1, OpeningRuns
<1>4. CASE CheckpointTx
  <2>1. Starts(Checkpointing) /\ chain.launch = "open"
    BY <1>1, <1>4 DEF CheckpointTx
  <2> QED
    BY <1>0, <2>1, CheckpointRuns
<1> DEFINE lift == Raised
<1>5. lift \in Levels
  BY <1>0 DEF Raised, ChainOK, Levels
<1>6. CASE BondTx
  <2>1. PICK payer \in Owners, to \in Owners :
           /\ chain.listed
           /\ Transact(<<Step("EpochRolled")>> \o Checkpointing \o
                       <<Sized("VestingMinted", 1),
                         [Sized("Bond", 1) EXCEPT !.who = payer, !.to = to, !.live = Raised]>>)
    BY <1>6 DEF BondTx
  <2> DEFINE a == [Sized("Bond", 1) EXCEPT !.who = payer, !.to = to, !.live = lift]
  <2>2. a \in Steps /\ a.ev = "Bond"
    <3> HIDE DEF lift
    <3> QED
      BY <1>5 DEF Sized, Step, Steps, Events
  <2>3. Transact(BondScript(a))
    BY <2>1 DEF BondScript
  <2>4. Starts(BondScript(a)) /\ chain.launch = "open"
    BY <1>1, <2>3
  <2> QED
    BY <1>0, <2>1, <2>2, <2>4, BondRuns
<1>7. CASE ClaimTx
  <2>1. PICK o \in Owners : \E i \in DOMAIN chain.vests[o] :
           Transact(<<[By("Claim", o) EXCEPT !.id = i - 1, !.n = 1]>>)
    BY <1>7 DEF ClaimTx
  <2>2. PICK i \in DOMAIN chain.vests[o] :
           Transact(<<[By("Claim", o) EXCEPT !.id = i - 1, !.n = 1]>>)
    BY <2>1
  <2> DEFINE a == [By("Claim", o) EXCEPT !.id = i - 1, !.n = 1]
  <2>3. i - 1 \in Nat
    <3>1. chain.vests[o] \in Seq(Vest)
      BY <1>0 DEF ChainOK
    <3> QED
      BY <2>2, <3>1
  <2>4. a \in Steps /\ a.ev = "Claim"
    BY <2>3 DEF By, Step, Steps, Events, Levels
  <2>5. Starts(<<a>>) /\ chain.launch = "open"
    BY <1>1, <2>2
  <2> QED
    BY <1>0, <2>4, <2>5, PlainRuns
<1>8. CASE RedeemTx
  <2>1. PICK n \in {0, 1} : /\ chain.supply > chain.queued + 2
                            /\ Transact(<<Step("BurnQueued"), Sized("Burn", 1), Sized("Redeem", n)>>)
    BY <1>8 DEF RedeemTx
  <2> QED
    BY <1>0, <1>1, <2>1, RedeemRuns
<1>9. CASE CompoundTx
  <2>1. PICK works \in BOOLEAN :
           /\ works => chain.supply > chain.queued + 1
           /\ Transact(CompoundScript(works, lift))
    BY <1>9 DEF CompoundTx, CompoundScript
  <2> QED
    BY <1>0, <1>1, <1>5, <2>1, CompoundRuns
<1>10. CASE MarketTx
  <2>1. PICK v \in Navs : Transact(<<[Step("PriceMoved") EXCEPT !.live = v]>>)
    BY <1>10 DEF MarketTx
  <2> DEFINE a == [Step("PriceMoved") EXCEPT !.live = v]
  <2>2. a \in Steps /\ a.ev = "PriceMoved"
    BY DEF Step, Steps, Events, Levels
  <2>3. Starts(<<a>>) /\ chain.launch = "open"
    BY <1>1, <2>1
  <2> QED
    BY <1>0, <2>2, <2>3, PlainRuns
<1> QED
  BY <1>2, <1>3, <1>4, <1>6, <1>7, <1>8, <1>9, <1>10

Handlers == \/ OnGenesisMinted \/ OnGenesis \/ OnNavCheckpoint \/ OnRefCheckpoint \/ OnBurn
            \/ OnVestingMinted \/ OnRedeem \/ OnMarked \/ OnCompound \/ OnCollateralAdded
            \/ OnEpochRolled \/ OnBond \/ OnClaim

LEMMA HandlersHandle ==
    ASSUME Handlers
    PROVE  /\ Handling /\ at' = at + 1 /\ UNCHANGED <<chainVars, phase, halted, base, txs>>
           /\ \/ UNCHANGED <<faults, unread>>
              \/ faults < MaxFaults /\ faults' = faults + 1 /\ unread' \subseteq unread \cup {height}
BY DEF Handlers, OnGenesisMinted, OnGenesis, OnNavCheckpoint, OnRefCheckpoint, OnBurn,
       OnVestingMinted, OnRedeem, OnMarked, OnCompound, OnCollateralAdded, OnEpochRolled, OnBond,
       OnClaim, Handle, Store, ReconcileWith, ReconcileAgain

LEMMA ChainKept ==
    ASSUME ChainInv, Shape, [Next]_vars
    PROVE  ChainInv'
<1>1. CASE \/ GenesisMint \/ GenesisPlace \/ CheckpointTx \/ BondTx \/ ClaimTx \/ RedeemTx
           \/ CompoundTx \/ MarketTx
  BY <1>1, ScriptsRun, ChainStarts
<1>2. CASE Converge
  BY <1>2, ChainConverges
<1>3. CASE Emit
  BY <1>3, ChainEmits
<1>4. CASE Seal \/ Handlers \/ OnBondFails \/ Poll \/ Restart \/ UNCHANGED vars
  <2>1. UNCHANGED <<chain, height, todo, block>> /\ UNCHANGED base
    BY <1>4, HandlersHandle DEF Seal, OnBondFails, Poll, Restart, RollBack, vars, chainVars
  <2> QED
    BY <2>1, ChainRests
<1>5. CASE Close \/ Reorg
  BY <1>5, ChainTurns
<1> QED
  BY <1>1, <1>2, <1>3, <1>4, <1>5 DEF Next, Mine, Index, Handlers

LEMMA ShapeKept ==
    ASSUME ChainInv, Shape, [Next]_vars
    PROVE  Shape'
<1>0. MaxHeight \in Nat /\ MaxTxs \in Nat /\ MaxFaults \in Nat /\ Len(block) \in Nat
  BY IndexerAssumption DEF ChainInv
<1>1. CASE \/ GenesisMint \/ GenesisPlace \/ CheckpointTx \/ BondTx \/ ClaimTx \/ RedeemTx
           \/ CompoundTx \/ MarketTx
  <2>1. /\ phase = "mining" /\ UNCHANGED <<phase, halted, height, faults, unread, at, block>>
        /\ txs' = txs \/ (txs < MaxTxs /\ txs' = txs + 1)
    BY <1>1 DEF GenesisMint, GenesisPlace, CheckpointTx, BondTx, ClaimTx, RedeemTx, CompoundTx,
                MarketTx, Transact, Run, Between
  <2> QED
    BY <1>0, <2>1 DEF Shape
<1>2. CASE Converge
  BY <1>0, <1>2 DEF Converge, Between, Shape
<1>3. CASE Emit
  <2>1. phase = "mining" /\ at = 0 /\ UNCHANGED <<phase, halted, height, faults, unread, at, txs>>
    BY <1>3 DEF Emit, Shape
  <2>2. PICK S : block \in Seq(S)
    BY DEF ChainInv
  <2> DEFINE l == LogOf(chain, Head(todo))
  <2>3. block' = block \/ block' = Append(block, l)
    BY <1>3 DEF Emit
  <2> HIDE DEF l
  <2>4. Len(block') \in Nat
    BY <2>2, <2>3
  <2> QED
    BY <2>1, <2>4 DEF Shape
<1>4. CASE Seal \/ OnBondFails \/ UNCHANGED vars
  BY <1>4 DEF Seal, OnBondFails, Between, vars, chainVars, Shape
<1>5. CASE Handlers
  <2>1. /\ at < Len(block) /\ phase = "indexing" /\ at' = at + 1
        /\ UNCHANGED <<chain, height, todo, block, phase, halted, base, txs>>
        /\ \/ UNCHANGED <<faults, unread>>
           \/ faults < MaxFaults /\ faults' = faults + 1 /\ unread' \subseteq unread \cup {height}
    BY <1>5, HandlersHandle DEF Handling, chainVars
  <2>2. unread' \subseteq 1 .. MaxHeight /\ faults' \in 0 .. MaxFaults
    <3>1. height \in 1 .. MaxHeight /\ unread \subseteq 1 .. MaxHeight /\ faults \in 0 .. MaxFaults
      BY DEF Shape
    <3>2. \A x \in unread' : x \in unread \/ x = height
      BY <2>1
    <3>3. faults' = faults \/ (faults < MaxFaults /\ faults' = faults + 1)
      BY <2>1
    <3>4. \A x \in unread' : x \in 1 .. MaxHeight
      BY <3>1, <3>2
    <3>5. faults' \in 0 .. MaxFaults
      BY <1>0, <3>1, <3>3
    <3> QED
      BY <3>4, <3>5
  <2> QED
    BY <1>0, <2>1, <2>2 DEF Shape
<1>6. CASE Poll
  <2>1. /\ phase = "indexing" /\ phase' = "polled" /\ UNCHANGED <<todo, block, height, at, halted, txs>>
        /\ \/ UNCHANGED <<faults, unread>>
           \/ faults < MaxFaults /\ faults' = faults + 1 /\ unread' \subseteq unread \cup {height}
    BY <1>6 DEF Poll, ReconcileWith, chainVars
  <2>2. unread' \subseteq 1 .. MaxHeight /\ faults' \in 0 .. MaxFaults
    <3>1. height \in 1 .. MaxHeight /\ unread \subseteq 1 .. MaxHeight /\ faults \in 0 .. MaxFaults
      BY DEF Shape
    <3>2. \A x \in unread' : x \in unread \/ x = height
      BY <2>1
    <3>3. faults' = faults \/ (faults < MaxFaults /\ faults' = faults + 1)
      BY <2>1
    <3>4. \A x \in unread' : x \in 1 .. MaxHeight
      BY <3>1, <3>2
    <3>5. faults' \in 0 .. MaxFaults
      BY <1>0, <3>1, <3>3
    <3> QED
      BY <3>4, <3>5
  <2> QED
    BY <1>0, <2>1, <2>2 DEF Shape
<1>7. CASE Close
  <2>1. /\ height < MaxHeight /\ height' = height + 1 /\ at' = 0 /\ block' = <<>>
        /\ phase' = "mining" /\ UNCHANGED <<halted, txs, faults, unread>>
    BY <1>7 DEF Close
  <2>2. Len(block') = 0
    BY <2>1
  <2> QED
    BY <1>0, <2>1, <2>2 DEF Shape
<1>8. CASE Restart
  <2>1. /\ phase # "mining" /\ phase' = "indexing" /\ at' = 0 /\ faults < MaxFaults
        /\ faults' = faults + 1 /\ unread' = unread \ {height}
        /\ UNCHANGED <<todo, block, height, halted, txs>>
    BY <1>8 DEF Restart, RollBack, chainVars
  <2> QED
    BY <1>0, <2>1 DEF Shape
<1>9. CASE Reorg
  <2>1. /\ phase' = "mining" /\ at' = 0 /\ faults < MaxFaults /\ block' = <<>>
        /\ faults' = faults + 1 /\ unread' = unread \ {height}
        /\ UNCHANGED <<height, halted, txs>>
    BY <1>9 DEF Reorg, RollBack
  <2>2. Len(block') = 0
    BY <2>1
  <2> QED
    BY <1>0, <2>1, <2>2 DEF Shape
<1> QED
  BY <1>1, <1>2, <1>3, <1>4, <1>5, <1>6, <1>7, <1>8, <1>9 DEF Next, Mine, Index, Handlers

LEMMA ChainInit ==
    ASSUME Init
    PROVE  ChainInv /\ Shape
<1>1. /\ base.chain = chain /\ chain = Unborn /\ todo = <<>> /\ block = <<>> /\ Len(block) = 0
      /\ block \in Seq({}) /\ \A i \in 1 .. Len(block) : FALSE
  BY DEF Init
<1>2. ChainOK(chain) /\ chain.queued <= chain.supply
  BY <1>1, UnbornOK
<1>3. Runs(todo, chain)
  BY <1>1, <1>2, RunsNone
<1>4. Level(After(Len(block)), chain)
  BY <1>1, <1>2 DEF After, Level, ChainOK
<1>5. Shape
  <2>1. 1 \in 1 .. MaxHeight /\ 0 \in 0 .. MaxTxs /\ 0 \in 0 .. MaxFaults /\ 0 \in 0 .. 0
    BY IndexerAssumption
  <2> QED
    BY <1>1, <2>1 DEF Init, Shape
<1> QED
  BY <1>1, <1>2, <1>3, <1>4, <1>5 DEF ChainInv


---------------------------------------------------------------------------
(* The tables.                                                             *)

TableFields ==
    {"supplyEvented", "netSupply", "nav", "prevNav", "pRef", "supply", "navMoved", "listed",
     "epochStart", "issuedThisEpoch", "issued", "gain", "epochs", "days", "flywheel",
     "purchases", "pending", "pendingSupply", "positions", "alerts", "reconciled"}

Purchase == [day : Int, before : Levels, after : Levels, gain : Int]

TablesOK(t, h) ==
    /\ DOMAIN t = TableFields
    /\ t.netSupply \in Int /\ t.supplyEvented \in Nat
    /\ t.nav \in Levels /\ t.prevNav \in Levels
    /\ t.supply \in Nat /\ t.pendingSupply \in Nat
    /\ t.navMoved \in BOOLEAN /\ t.listed \in BOOLEAN /\ t.reconciled \in BOOLEAN
    /\ t.purchases \in Seq(Purchase) /\ t.pending \in 0 .. Len(t.purchases)
    /\ \A a \in t.alerts : a.block \in 1 .. h

(* A comparison touches the alerts and the reconciliation row only.        *)
Same(t, u) == DOMAIN u = TableFields /\ \A k \in TableFields \ {"alerts", "reconciled"} : u[k] = t[k]

LEMMA SameIs ==
    ASSUME NEW t, NEW u, Same(t, u)
    PROVE  /\ DOMAIN u = TableFields
           /\ u.supplyEvented = t.supplyEvented /\ u.netSupply = t.netSupply
           /\ u.nav = t.nav /\ u.prevNav = t.prevNav /\ u.pRef = t.pRef /\ u.supply = t.supply
           /\ u.navMoved = t.navMoved /\ u.listed = t.listed /\ u.epochStart = t.epochStart
           /\ u.issuedThisEpoch = t.issuedThisEpoch /\ u.issued = t.issued /\ u.gain = t.gain
           /\ u.epochs = t.epochs /\ u.days = t.days /\ u.flywheel = t.flywheel
           /\ u.purchases = t.purchases /\ u.pending = t.pending
           /\ u.pendingSupply = t.pendingSupply /\ u.positions = t.positions
BY DEF Same, TableFields

LEMMA ComparedIs ==
    ASSUME NEW t, DOMAIN t = TableFields
    PROVE  /\ Same(t, t) /\ Same(t, Reconciled(t))
           /\ Reconciled(t).alerts =
                  IF t.nav = 0 \/ t.pRef = 0 THEN t.alerts
                  ELSE IF Agrees(t) THEN t.alerts \ {Divergence} ELSE t.alerts \cup {Divergence}
           /\ Reconciled(t).reconciled =
                  IF t.nav = 0 \/ t.pRef = 0 THEN t.reconciled ELSE TRUE
<1> DEFINE a == IF Agrees(t) THEN t.alerts \ {Divergence} ELSE t.alerts \cup {Divergence}
<1>1. Reconciled(t) = IF t.nav = 0 \/ t.pRef = 0 THEN t
                      ELSE [t EXCEPT !.reconciled = TRUE, !.alerts = a]
  BY DEF Reconciled
<1> HIDE DEF a
<1>2. /\ Same(t, t) /\ Same(t, Reconciled(t))
      /\ Reconciled(t).alerts = IF t.nav = 0 \/ t.pRef = 0 THEN t.alerts ELSE a
      /\ Reconciled(t).reconciled = IF t.nav = 0 \/ t.pRef = 0 THEN t.reconciled ELSE TRUE
  BY <1>1 DEF Same, TableFields
<1> QED
  BY <1>2 DEF a

(* What a handler makes of its log.                                        *)
FoldsSupply(t, l, u) ==
    /\ l.ev \in {"GenesisMinted", "Genesis"} => u.supplyEvented = S0
    /\ l.ev = "Burn" => u.supplyEvented = t.supplyEvented - l.n /\ u.netSupply = t.netSupply - l.n
    /\ l.ev = "VestingMinted" =>
           u.supplyEvented = t.supplyEvented + l.n /\ u.netSupply = t.netSupply + l.n
    /\ l.ev \notin {"GenesisMinted", "Genesis", "Burn", "VestingMinted"} =>
           u.supplyEvented = t.supplyEvented
    /\ l.ev \notin {"Burn", "VestingMinted"} => u.netSupply = t.netSupply

FoldsNav(t, l, u) ==
    /\ u.nav = IF l.ev \in {"NavCheckpoint", "Genesis"} THEN l.after.nav ELSE t.nav
    /\ u.pRef = IF l.ev \in {"RefCheckpoint", "Genesis"} THEN l.after.pRef ELSE t.pRef
    /\ u.prevNav = IF l.ev = "NavCheckpoint" THEN t.nav ELSE t.prevNav
    /\ u.supply = IF l.ev \in {"GenesisMinted", "Genesis"} THEN S0
                  ELSE IF l.ev = "NavCheckpoint" THEN l.after.supply ELSE t.supply
    /\ l.ev = "NavCheckpoint" => u.navMoved = FALSE
    /\ l.ev \in {"Bond", "Redeem", "Placement", "Compound", "PriceMoved"} => u.navMoved = TRUE
    /\ l.ev \notin {"NavCheckpoint", "Bond", "Redeem", "Placement", "Compound", "PriceMoved"} =>
           u.navMoved = t.navMoved

FoldsIssue(t, l, u) ==
    /\ l.ev = "CollateralAdded" => u.listed = TRUE
    /\ l.ev # "CollateralAdded" => u.listed = t.listed
    /\ u.issued = IF l.ev = "Bond" /\ t.listed THEN t.issued + l.n ELSE t.issued
    /\ l.ev = "Bond" =>
           u.issuedThisEpoch = IF t.listed THEN t.issuedThisEpoch + l.n ELSE t.issuedThisEpoch
    /\ l.ev = "EpochRolled" => u.issuedThisEpoch = IF t.listed THEN 0 ELSE t.issuedThisEpoch
    /\ l.ev \notin {"Bond", "EpochRolled"} => u.issuedThisEpoch = t.issuedThisEpoch

Folds(t, l, u) ==
    /\ DOMAIN u = TableFields
    /\ FoldsSupply(t, l, u) /\ FoldsNav(t, l, u) /\ FoldsIssue(t, l, u)

LEMMA SettledIs ==
    ASSUME NEW t, DOMAIN t = TableFields, NEW nav, NEW u, u = Settled(t, nav)
    PROVE  /\ DOMAIN u = TableFields
           /\ u.supplyEvented = t.supplyEvented /\ u.netSupply = t.netSupply
           /\ u.nav = t.nav /\ u.prevNav = t.prevNav /\ u.pRef = t.pRef /\ u.supply = t.supply
           /\ u.navMoved = t.navMoved /\ u.listed = t.listed /\ u.epochStart = t.epochStart
           /\ u.issuedThisEpoch = t.issuedThisEpoch /\ u.issued = t.issued
           /\ u.pending = 0 /\ u.pendingSupply = t.pendingSupply
           /\ u.alerts = t.alerts /\ u.reconciled = t.reconciled
BY DEF Settled, TableFields

LEMMA HandlersFold ==
    ASSUME DOMAIN tables = TableFields, Handlers
    PROVE  Folds(tables, Log, tables')
<1> SUFFICES ASSUME NEW t, t = tables, NEW l, l = Log, NEW u, u = tables'
             PROVE  Folds(t, l, u)
  OBVIOUS
<1>1. CASE OnGenesisMinted
  <2>1. u = [t EXCEPT !.supplyEvented = S0, !.supply = S0] /\ l.ev = "GenesisMinted"
    BY <1>1 DEF OnGenesisMinted, Store, Handle
  <2> QED
    BY <2>1 DEF Folds, FoldsSupply, FoldsNav, FoldsIssue, TableFields
<1>2. CASE OnGenesis
  <2>1. /\ u = [t EXCEPT !.nav = l.after.nav, !.pRef = l.after.pRef, !.supply = S0,
                         !.supplyEvented = S0]
        /\ l.ev = "Genesis"
    BY <1>2 DEF OnGenesis, Store, Handle
  <2> QED
    BY <2>1 DEF Folds, FoldsSupply, FoldsNav, FoldsIssue, TableFields
<1>3. CASE OnNavCheckpoint
  <2> DEFINE raised == IF Drifted(t, l.after.nav)
                       THEN t.alerts \cup {Alert("nav-drift", at + 1)} ELSE t.alerts
             seen == [t EXCEPT !.alerts = raised, !.prevNav = t.nav, !.nav = l.after.nav,
                               !.supply = l.after.supply, !.navMoved = FALSE]
  <2>1. u = Settled(seen, l.after.nav) /\ l.ev = "NavCheckpoint"
    BY <1>3 DEF OnNavCheckpoint, Store, Handle
  <2> HIDE DEF raised
  <2>2. /\ DOMAIN seen = TableFields
        /\ seen.prevNav = t.nav /\ seen.nav = l.after.nav /\ seen.supply = l.after.supply
        /\ seen.navMoved = FALSE /\ seen.supplyEvented = t.supplyEvented
        /\ seen.netSupply = t.netSupply /\ seen.pRef = t.pRef /\ seen.listed = t.listed
        /\ seen.issued = t.issued /\ seen.issuedThisEpoch = t.issuedThisEpoch
    BY DEF TableFields
  <2> HIDE DEF seen
  <2> QED
    BY <2>1, <2>2, SettledIs DEF Folds, FoldsSupply, FoldsNav, FoldsIssue
<1>4. CASE OnRefCheckpoint
  <2> DEFINE x == [t EXCEPT !.pRef = l.after.pRef]
  <2>1. (u = x \/ u = Reconciled(x)) /\ l.ev = "RefCheckpoint"
    BY <1>4 DEF OnRefCheckpoint, ReconcileWith, Handle
  <2>2. DOMAIN x = TableFields
    BY DEF TableFields
  <2>3. Folds(t, l, x)
    BY <2>1 DEF Folds, FoldsSupply, FoldsNav, FoldsIssue, TableFields
  <2> HIDE DEF x
  <2>4. Same(x, u)
    BY <2>1, <2>2, ComparedIs
  <2> QED
    BY <2>3, <2>4, SameIs DEF Folds, FoldsSupply, FoldsNav, FoldsIssue
<1>5. CASE OnBurn
  <2> DEFINE x == [t EXCEPT !.supplyEvented = @ - l.n, !.netSupply = @ - l.n]
  <2>1. (u = x \/ u = Reconciled(x)) /\ l.ev = "Burn"
    BY <1>5 DEF OnBurn, ReconcileAgain, ReconcileWith, Handle
  <2>2. DOMAIN x = TableFields
    BY DEF TableFields
  <2>3. Folds(t, l, x)
    BY <2>1 DEF Folds, FoldsSupply, FoldsNav, FoldsIssue, TableFields
  <2> HIDE DEF x
  <2>4. Same(x, u)
    BY <2>1, <2>2, ComparedIs
  <2> QED
    BY <2>3, <2>4, SameIs DEF Folds, FoldsSupply, FoldsNav, FoldsIssue
<1>6. CASE OnVestingMinted
  <2> DEFINE x == [t EXCEPT !.supplyEvented = @ + l.n, !.netSupply = @ + l.n]
  <2>1. (u = x \/ u = Reconciled(x)) /\ l.ev = "VestingMinted"
    BY <1>6 DEF OnVestingMinted, ReconcileAgain, ReconcileWith, Handle
  <2>2. DOMAIN x = TableFields
    BY DEF TableFields
  <2>3. Folds(t, l, x)
    BY <2>1 DEF Folds, FoldsSupply, FoldsNav, FoldsIssue, TableFields
  <2> HIDE DEF x
  <2>4. Same(x, u)
    BY <2>1, <2>2, ComparedIs
  <2> QED
    BY <2>3, <2>4, SameIs DEF Folds, FoldsSupply, FoldsNav, FoldsIssue
<1>7. CASE OnRedeem
  <2>1. /\ \E x : u = [t EXCEPT !.navMoved = TRUE, !.alerts = x]
        /\ l.ev = "Redeem"
    BY <1>7 DEF OnRedeem, Handle
  <2> QED
    BY <2>1 DEF Folds, FoldsSupply, FoldsNav, FoldsIssue, TableFields
<1>8. CASE OnMarked
  <2>1. u = [t EXCEPT !.navMoved = TRUE] /\ l.ev \in {"Placement", "PriceMoved"}
    BY <1>8 DEF OnMarked, Store, Handle
  <2> QED
    BY <2>1 DEF Folds, FoldsSupply, FoldsNav, FoldsIssue, TableFields
<1>9. CASE OnCompound
  <2>1. /\ \E x : u = [t EXCEPT !.navMoved = TRUE, !.alerts = x]
        /\ l.ev = "Compound"
    BY <1>9 DEF OnCompound, Store, Handle
  <2> QED
    BY <2>1 DEF Folds, FoldsSupply, FoldsNav, FoldsIssue, TableFields
<1>10. CASE OnCollateralAdded
  <2>1. u = [t EXCEPT !.listed = TRUE] /\ l.ev = "CollateralAdded"
    BY <1>10 DEF OnCollateralAdded, Store, Handle
  <2> QED
    BY <2>1 DEF Folds, FoldsSupply, FoldsNav, FoldsIssue, TableFields
<1>11. CASE OnEpochRolled
  <2>1. /\ l.ev = "EpochRolled"
        /\ u = IF t.listed THEN [t EXCEPT !.epochStart = l.after.epochStart, !.issuedThisEpoch = 0]
               ELSE t
    BY <1>11 DEF OnEpochRolled, Store, Handle
  <2> QED
    BY <2>1 DEF Folds, FoldsSupply, FoldsNav, FoldsIssue, TableFields
<1>12. CASE OnBond
  <2>1. u = Bought /\ l.ev = "Bond"
    BY <1>12 DEF OnBond, Store, Handle
  <2> DEFINE fresh == [issued |-> 0, gain |-> 0]
             bump(f, k) == Upsert(f, k, [Row(f, k, fresh) EXCEPT !.issued = @ + l.n])
             purchases == Append(t.purchases, [day |-> Day, before |-> t.nav, after |-> 0, gain |-> 0])
             pending == Len(t.purchases) + 1
             positions == Upsert(t.positions, KeyOf(l), [principal |-> l.n, claimed |-> 0])
             epochs == bump(t.epochs, t.epochStart)
             days == bump(t.days, Day)
             issued == IF t.listed THEN t.issued + l.n ELSE t.issued
             thisEpoch == IF t.listed THEN t.issuedThisEpoch + l.n ELSE t.issuedThisEpoch
  <2>2. u = [t EXCEPT !.navMoved = TRUE, !.purchases = purchases, !.pending = pending,
                      !.pendingSupply = t.supply, !.positions = positions,
                      !.issued = issued, !.issuedThisEpoch = thisEpoch,
                      !.epochs = epochs, !.days = days]
    BY <2>1, Zenon DEF Bought
  <2> HIDE DEF purchases, pending, positions, epochs, days, issued, thisEpoch
  <2>3. /\ DOMAIN u = TableFields /\ u.issued = issued /\ u.issuedThisEpoch = thisEpoch
        /\ u.navMoved = TRUE /\ u.listed = t.listed
        /\ u.supplyEvented = t.supplyEvented /\ u.netSupply = t.netSupply
        /\ u.nav = t.nav /\ u.pRef = t.pRef /\ u.prevNav = t.prevNav /\ u.supply = t.supply
    BY ONLY <2>2, DOMAIN t = TableFields DEF TableFields
  <2>4. FoldsSupply(t, l, u) /\ FoldsNav(t, l, u)
    BY <2>1, <2>3 DEF FoldsSupply, FoldsNav
  <2> QED
    BY <2>1, <2>3, <2>4 DEF Folds, FoldsIssue, issued, thisEpoch
<1>13. CASE OnClaim
  <2>1. /\ u = t \/ \E x : u = [t EXCEPT !.positions = x]
        /\ l.ev = "Claim"
    BY <1>13 DEF OnClaim, Store, Handle
  <2> QED
    BY <2>1 DEF Folds, FoldsSupply, FoldsNav, FoldsIssue, TableFields
<1> QED
  BY <1>1, <1>2, <1>3, <1>4, <1>5, <1>6, <1>7, <1>8, <1>9, <1>10, <1>11, <1>12, <1>13 DEF Handlers


(* What a handler makes of the sale that waits, and of a new one.          *)
Fresh == [issued |-> 0, gain |-> 0]
Bump(f, k, n) == Upsert(f, k, [Row(f, k, Fresh) EXCEPT !.issued = @ + n])
Gained(t, nav) == (nav - t.purchases[t.pending].before) * t.pendingSupply

SettlesSale(t, nav, u) ==
    LET p == t.purchases[t.pending]
        g == Gained(t, nav)
    IN /\ u.purchases = [t.purchases EXCEPT ![t.pending] = [p EXCEPT !.after = nav, !.gain = g]]
       /\ u.pending = 0
       /\ u.gain = IF t.listed THEN t.gain + g ELSE t.gain
       /\ \/ u.epochs = t.epochs
          \/ /\ t.epochStart \in DOMAIN t.epochs
             /\ u.epochs = Credit(t.epochs, t.epochStart, g)
       /\ u.days = Credit(t.days, p.day, g)
       /\ u.flywheel = Upsert(t.flywheel, Day, Row(t.flywheel, Day, 0) + g)

BooksSale(t, n, u) ==
    /\ u.purchases = Append(t.purchases, [day |-> Day, before |-> t.nav, after |-> 0, gain |-> 0])
    /\ u.pending = Len(t.purchases) + 1
    /\ u.gain = t.gain /\ u.flywheel = t.flywheel
    /\ u.epochs = Bump(t.epochs, t.epochStart, n)
    /\ u.days = Bump(t.days, Day, n)

KeepsSales(t, u) ==
    /\ u.purchases = t.purchases /\ u.pending = t.pending /\ u.gain = t.gain
    /\ u.flywheel = t.flywheel /\ u.epochs = t.epochs /\ u.days = t.days

FoldsSales(t, l, u) ==
    /\ l.ev = "NavCheckpoint" /\ t.pending # 0 => SettlesSale(t, l.after.nav, u)
    /\ l.ev = "NavCheckpoint" /\ t.pending = 0 => KeepsSales(t, u)
    /\ l.ev = "Bond" => BooksSale(t, l.n, u)
    /\ l.ev \notin {"NavCheckpoint", "Bond"} => KeepsSales(t, u)
    /\ u.pendingSupply = IF l.ev = "Bond" THEN t.supply ELSE t.pendingSupply

LEMMA SettledSells ==
    ASSUME NEW t, DOMAIN t = TableFields, t.listed \in BOOLEAN, NEW nav, NEW u, u = Settled(t, nav)
    PROVE  /\ t.pending # 0 => SettlesSale(t, nav, u)
           /\ t.pending = 0 => u = t
<1> DEFINE p == t.purchases[t.pending]
           g == Gained(t, nav)
           purchases == [t.purchases EXCEPT ![t.pending] = [p EXCEPT !.after = nav, !.gain = g]]
           gain == IF t.listed THEN t.gain + g ELSE t.gain
           epochs == IF t.listed /\ t.epochStart \in DOMAIN t.epochs
                     THEN Credit(t.epochs, t.epochStart, g) ELSE t.epochs
           days == Credit(t.days, p.day, g)
           flywheel == Upsert(t.flywheel, Day, Row(t.flywheel, Day, 0) + g)
<1>1. ASSUME t.pending = 0 PROVE u = t
  BY <1>1 DEF Settled
<1>2. ASSUME t.pending # 0 PROVE SettlesSale(t, nav, u)
  <2>1. u.purchases = purchases
    BY <1>2 DEF Settled, Gained, TableFields
  <2>2. u.gain = gain
    <3>1. CASE t.listed
      <4>1. u.gain = t.gain + g
        BY <1>2, <3>1 DEF Settled, Gained, TableFields
      <4> QED
        BY <3>1, <4>1, Zenon DEF gain
    <3>2. CASE ~t.listed
      <4>1. u.gain = t.gain
        BY <1>2, <3>2 DEF Settled, Gained, TableFields
      <4> QED
        BY <3>2, <4>1, Zenon DEF gain
    <3> QED
      BY <3>1, <3>2
  <2>3. u.epochs = epochs
    <3> DEFINE kept == t.listed /\ t.epochStart \in DOMAIN t.epochs
    <3>1. CASE kept
      <4>1. u.epochs = Credit(t.epochs, t.epochStart, g)
        BY <1>2, <3>1 DEF Settled, Gained, TableFields
      <4> QED
        BY <3>1, <4>1, Zenon DEF epochs
    <3>2. CASE ~kept
      <4>1. u.epochs = t.epochs
        BY <1>2, <3>2 DEF Settled, Gained, TableFields
      <4> QED
        BY <3>2, <4>1, Zenon DEF epochs
    <3> QED
      BY <3>1, <3>2
  <2>4. u.days = days
    BY <1>2 DEF Settled, Gained, TableFields
  <2>5. u.flywheel = flywheel
    BY <1>2 DEF Settled, Gained, TableFields
  <2>6. u.pending = 0
    BY <1>2 DEF Settled, TableFields
  <2>7. \/ epochs = t.epochs
        \/ t.epochStart \in DOMAIN t.epochs /\ epochs = Credit(t.epochs, t.epochStart, g)
    BY Zenon DEF epochs
  <2> HIDE DEF purchases, gain, epochs, days, flywheel
  <2> QED
    BY <2>1, <2>2, <2>3, <2>4, <2>5, <2>6, <2>7, Zenon DEF SettlesSale, purchases, gain, days, flywheel
<1> QED
  BY <1>1, <1>2

LEMMA HandlersSell ==
    ASSUME DOMAIN tables = TableFields, tables.listed \in BOOLEAN, Handlers
    PROVE  FoldsSales(tables, Log, tables')
<1> SUFFICES ASSUME NEW t, t = tables, NEW l, l = Log, NEW u, u = tables'
             PROVE  FoldsSales(t, l, u)
  OBVIOUS
<1>1. CASE OnGenesisMinted
  <2>1. u = [t EXCEPT !.supplyEvented = S0, !.supply = S0] /\ l.ev = "GenesisMinted"
    BY <1>1 DEF OnGenesisMinted, Store, Handle
  <2> QED
    BY <2>1 DEF FoldsSales, KeepsSales, TableFields
<1>2. CASE OnGenesis
  <2>1. /\ u = [t EXCEPT !.nav = l.after.nav, !.pRef = l.after.pRef, !.supply = S0,
                         !.supplyEvented = S0]
        /\ l.ev = "Genesis"
    BY <1>2 DEF OnGenesis, Store, Handle
  <2> QED
    BY <2>1 DEF FoldsSales, KeepsSales, TableFields
<1>3. CASE OnNavCheckpoint
  <2> DEFINE raised == IF Drifted(t, l.after.nav)
                       THEN t.alerts \cup {Alert("nav-drift", at + 1)} ELSE t.alerts
             seen == [t EXCEPT !.alerts = raised, !.prevNav = t.nav, !.nav = l.after.nav,
                               !.supply = l.after.supply, !.navMoved = FALSE]
  <2>1. u = Settled(seen, l.after.nav) /\ l.ev = "NavCheckpoint"
    BY <1>3 DEF OnNavCheckpoint, Store, Handle
  <2> HIDE DEF raised
  <2>2. /\ DOMAIN seen = TableFields
        /\ seen.purchases = t.purchases /\ seen.pending = t.pending /\ seen.gain = t.gain
        /\ seen.flywheel = t.flywheel /\ seen.epochs = t.epochs /\ seen.days = t.days
        /\ seen.listed = t.listed /\ seen.epochStart = t.epochStart
        /\ seen.pendingSupply = t.pendingSupply
    BY DEF TableFields
  <2> HIDE DEF seen
  <2>3. /\ t.pending # 0 => SettlesSale(seen, l.after.nav, u)
        /\ t.pending = 0 => u = seen
        /\ u.pendingSupply = t.pendingSupply
    BY <2>1, <2>2, SettledSells, SettledIs
  <2>4. SettlesSale(seen, l.after.nav, u) => SettlesSale(t, l.after.nav, u)
    BY <2>2, Zenon DEF SettlesSale, Gained
  <2>5. u = seen => KeepsSales(t, u)
    BY <2>2, Zenon DEF KeepsSales
  <2> HIDE DEF SettlesSale, KeepsSales
  <2>6. (t.pending # 0 => SettlesSale(t, l.after.nav, u)) /\ (t.pending = 0 => KeepsSales(t, u))
    BY <2>3, <2>4, <2>5, Zenon
  <2> QED
    BY <2>1, <2>3, <2>6 DEF FoldsSales
<1>4. CASE OnRefCheckpoint
  <2> DEFINE x == [t EXCEPT !.pRef = l.after.pRef]
  <2>1. (u = x \/ u = Reconciled(x)) /\ l.ev = "RefCheckpoint"
    BY <1>4 DEF OnRefCheckpoint, ReconcileWith, Handle
  <2>2. DOMAIN x = TableFields
    BY DEF TableFields
  <2>3. KeepsSales(t, x) /\ x.pendingSupply = t.pendingSupply
    BY DEF TableFields, KeepsSales
  <2> HIDE DEF x
  <2>c. Same(x, x) /\ Same(x, Reconciled(x))
    BY <2>2, ComparedIs
  <2>4. Same(x, u)
    BY <2>1, <2>c, Zenon
  <2> QED
    BY <2>1, <2>3, <2>4, SameIs DEF FoldsSales, KeepsSales
<1>5. CASE OnBurn
  <2> DEFINE x == [t EXCEPT !.supplyEvented = @ - l.n, !.netSupply = @ - l.n]
  <2>1. (u = x \/ u = Reconciled(x)) /\ l.ev = "Burn"
    BY <1>5 DEF OnBurn, ReconcileAgain, ReconcileWith, Handle
  <2>2. DOMAIN x = TableFields
    BY DEF TableFields
  <2>3. KeepsSales(t, x) /\ x.pendingSupply = t.pendingSupply
    BY DEF TableFields, KeepsSales
  <2> HIDE DEF x
  <2>c. Same(x, x) /\ Same(x, Reconciled(x))
    BY <2>2, ComparedIs
  <2>4. Same(x, u)
    BY <2>1, <2>c, Zenon
  <2> QED
    BY <2>1, <2>3, <2>4, SameIs DEF FoldsSales, KeepsSales
<1>6. CASE OnVestingMinted
  <2> DEFINE x == [t EXCEPT !.supplyEvented = @ + l.n, !.netSupply = @ + l.n]
  <2>1. (u = x \/ u = Reconciled(x)) /\ l.ev = "VestingMinted"
    BY <1>6 DEF OnVestingMinted, ReconcileAgain, ReconcileWith, Handle
  <2>2. DOMAIN x = TableFields
    BY DEF TableFields
  <2>3. KeepsSales(t, x) /\ x.pendingSupply = t.pendingSupply
    BY DEF TableFields, KeepsSales
  <2> HIDE DEF x
  <2>c. Same(x, x) /\ Same(x, Reconciled(x))
    BY <2>2, ComparedIs
  <2>4. Same(x, u)
    BY <2>1, <2>c, Zenon
  <2> QED
    BY <2>1, <2>3, <2>4, SameIs DEF FoldsSales, KeepsSales
<1>7. CASE OnRedeem \/ OnMarked \/ OnCompound
  <2>1. /\ (\E x : u = [t EXCEPT !.navMoved = TRUE, !.alerts = x]) \/ u = [t EXCEPT !.navMoved = TRUE]
        /\ l.ev \in {"Redeem", "Placement", "PriceMoved", "Compound"}
    BY <1>7 DEF OnRedeem, OnMarked, OnCompound, Store, Handle
  <2> QED
    BY <2>1 DEF FoldsSales, KeepsSales, TableFields
<1>8. CASE OnCollateralAdded
  <2>1. u = [t EXCEPT !.listed = TRUE] /\ l.ev = "CollateralAdded"
    BY <1>8 DEF OnCollateralAdded, Store, Handle
  <2> QED
    BY <2>1 DEF FoldsSales, KeepsSales, TableFields
<1>9. CASE OnEpochRolled
  <2>1. /\ l.ev = "EpochRolled"
        /\ u = IF t.listed THEN [t EXCEPT !.epochStart = l.after.epochStart, !.issuedThisEpoch = 0]
               ELSE t
    BY <1>9 DEF OnEpochRolled, Store, Handle
  <2> QED
    BY <2>1 DEF FoldsSales, KeepsSales, TableFields
<1>10. CASE OnBond
  <2>1. u = Bought /\ l.ev = "Bond"
    BY <1>10 DEF OnBond, Store, Handle
  <2> DEFINE purchases == Append(t.purchases, [day |-> Day, before |-> t.nav, after |-> 0, gain |-> 0])
             pending == Len(t.purchases) + 1
             positions == Upsert(t.positions, KeyOf(l), [principal |-> l.n, claimed |-> 0])
             epochs == Bump(t.epochs, t.epochStart, l.n)
             days == Bump(t.days, Day, l.n)
             issued == IF t.listed THEN t.issued + l.n ELSE t.issued
             thisEpoch == IF t.listed THEN t.issuedThisEpoch + l.n ELSE t.issuedThisEpoch
  <2>2. u = [t EXCEPT !.navMoved = TRUE, !.purchases = purchases, !.pending = pending,
                      !.pendingSupply = t.supply, !.positions = positions,
                      !.issued = issued, !.issuedThisEpoch = thisEpoch,
                      !.epochs = epochs, !.days = days]
    BY <2>1, Zenon DEF Bought, Bump, Fresh
  <2> HIDE DEF purchases, pending, positions, epochs, days, issued, thisEpoch
  <2>3. /\ u.purchases = purchases /\ u.pending = pending /\ u.pendingSupply = t.supply
        /\ u.gain = t.gain /\ u.flywheel = t.flywheel /\ u.epochs = epochs /\ u.days = days
    BY ONLY <2>2, DOMAIN t = TableFields DEF TableFields
  <2>4. BooksSale(t, l.n, u)
    BY <2>3, Zenon DEF BooksSale, purchases, pending, epochs, days
  <2> HIDE DEF BooksSale
  <2> QED
    BY <2>1, <2>3, <2>4 DEF FoldsSales
<1>11. CASE OnClaim
  <2>1. /\ u = t \/ \E x : u = [t EXCEPT !.positions = x]
        /\ l.ev = "Claim"
    BY <1>11 DEF OnClaim, Store, Handle
  <2> QED
    BY <2>1 DEF FoldsSales, KeepsSales, TableFields
<1> QED
  BY <1>1, <1>2, <1>3, <1>4, <1>5, <1>6, <1>7, <1>8, <1>9, <1>10, <1>11 DEF Handlers


(* What a handler makes of the alerts, the books standing as in u.         *)
Compares(t, u) ==
    \/ /\ u.alerts = IF u.nav = 0 \/ u.pRef = 0 THEN t.alerts
                     ELSE IF Agrees(u) THEN t.alerts \ {Divergence} ELSE t.alerts \cup {Divergence}
       /\ u.reconciled = IF u.nav = 0 \/ u.pRef = 0 THEN t.reconciled ELSE TRUE
       /\ unread' = unread
    \/ /\ u.alerts = t.alerts /\ u.reconciled = t.reconciled
       /\ unread' = unread \cup {height}

KeepsAlerts(t, u) == u.alerts = t.alerts /\ u.reconciled = t.reconciled /\ unread' = unread

Warns(t, u, warned, kind) ==
    /\ u.alerts = IF warned THEN t.alerts \cup {Alert(kind, at + 1)} ELSE t.alerts
    /\ u.reconciled = t.reconciled /\ unread' = unread

FoldsAlerts(t, l, u) ==
    /\ l.ev = "NavCheckpoint" => Warns(t, u, Drifted(t, l.after.nav), "nav-drift")
    /\ l.ev = "Compound" => Warns(t, u, t.prevNav > 0 /\ t.nav < t.prevNav, "nav-bleed")
    /\ l.ev = "Redeem" => \E short \in BOOLEAN : Warns(t, u, short, "redeem-gap")
    /\ l.ev = "RefCheckpoint" => Compares(t, u)
    /\ l.ev \in {"Burn", "VestingMinted"} => IF t.reconciled THEN Compares(t, u) ELSE KeepsAlerts(t, u)
    /\ l.ev \notin {"NavCheckpoint", "Compound", "Redeem", "RefCheckpoint", "Burn", "VestingMinted"} =>
           KeepsAlerts(t, u)

LEMMA ComparedCompares ==
    ASSUME NEW t, NEW x, DOMAIN x = TableFields, x.alerts = t.alerts, x.reconciled = t.reconciled,
           NEW u, u = tables', ReconcileWith(x)
    PROVE  Compares(t, u)
<1>1. CASE u = Reconciled(x) /\ unread' = unread
  <2>c. Same(x, Reconciled(x))
    BY ComparedIs
  <2>1. Same(x, u)
    BY <1>1, <2>c, Zenon
  <2>2. /\ u.alerts = IF x.nav = 0 \/ x.pRef = 0 THEN x.alerts
                      ELSE IF Agrees(x) THEN x.alerts \ {Divergence} ELSE x.alerts \cup {Divergence}
        /\ u.reconciled = IF x.nav = 0 \/ x.pRef = 0 THEN x.reconciled ELSE TRUE
    BY <1>1, ComparedIs, Zenon
  <2>3. u.nav = x.nav /\ u.pRef = x.pRef /\ u.supplyEvented = x.supplyEvented
    BY <2>1, SameIs
  <2>4. Agrees(u) <=> Agrees(x)
    BY <2>3 DEF Agrees
  <2>5. /\ u.alerts = IF u.nav = 0 \/ u.pRef = 0 THEN t.alerts
                      ELSE IF Agrees(u) THEN t.alerts \ {Divergence} ELSE t.alerts \cup {Divergence}
        /\ u.reconciled = IF u.nav = 0 \/ u.pRef = 0 THEN t.reconciled ELSE TRUE
    BY <2>2, <2>3, <2>4, Zenon
  <2> QED
    BY <1>1, <2>5, Zenon DEF Compares
<1>2. CASE u = x /\ unread' = unread \cup {height}
  BY <1>2, Zenon DEF Compares
<1> QED
  BY <1>1, <1>2, Zenon DEF ReconcileWith

LEMMA HandlersAlert ==
    ASSUME DOMAIN tables = TableFields, Handlers
    PROVE  FoldsAlerts(tables, Log, tables')
<1> SUFFICES ASSUME NEW t, t = tables, NEW l, l = Log, NEW u, u = tables'
             PROVE  FoldsAlerts(t, l, u)
  OBVIOUS
<1>1. CASE OnGenesisMinted
  <2>1. /\ u = [t EXCEPT !.supplyEvented = S0, !.supply = S0] /\ l.ev = "GenesisMinted"
        /\ unread' = unread
    BY <1>1 DEF OnGenesisMinted, Store, Handle
  <2> QED
    BY <2>1 DEF FoldsAlerts, KeepsAlerts, TableFields
<1>2. CASE OnGenesis
  <2>1. /\ u = [t EXCEPT !.nav = l.after.nav, !.pRef = l.after.pRef, !.supply = S0,
                         !.supplyEvented = S0]
        /\ l.ev = "Genesis" /\ unread' = unread
    BY <1>2 DEF OnGenesis, Store, Handle
  <2> QED
    BY <2>1 DEF FoldsAlerts, KeepsAlerts, TableFields
<1>3. CASE OnNavCheckpoint
  <2> DEFINE raised == IF Drifted(t, l.after.nav)
                       THEN t.alerts \cup {Alert("nav-drift", at + 1)} ELSE t.alerts
             seen == [t EXCEPT !.alerts = raised, !.prevNav = t.nav, !.nav = l.after.nav,
                               !.supply = l.after.supply, !.navMoved = FALSE]
  <2>1. u = Settled(seen, l.after.nav) /\ l.ev = "NavCheckpoint" /\ unread' = unread
    BY <1>3 DEF OnNavCheckpoint, Store, Handle
  <2> HIDE DEF raised
  <2>2. DOMAIN seen = TableFields /\ seen.alerts = raised /\ seen.reconciled = t.reconciled
    BY DEF TableFields
  <2> HIDE DEF seen
  <2>3. u.alerts = raised /\ u.reconciled = t.reconciled
    BY <2>1, <2>2, SettledIs
  <2>4. Warns(t, u, Drifted(t, l.after.nav), "nav-drift")
    BY <2>1, <2>3, Zenon DEF Warns, raised
  <2> HIDE DEF Warns
  <2> QED
    BY <2>1, <2>4 DEF FoldsAlerts
<1>4. CASE OnRefCheckpoint
  <2> DEFINE x == [t EXCEPT !.pRef = l.after.pRef]
  <2>1. ReconcileWith(x) /\ l.ev = "RefCheckpoint"
    BY <1>4, Zenon DEF OnRefCheckpoint, Handle
  <2>2. DOMAIN x = TableFields /\ x.alerts = t.alerts /\ x.reconciled = t.reconciled
    BY DEF TableFields
  <2> HIDE DEF x
  <2>3. Compares(t, u)
    BY <2>1, <2>2, ComparedCompares
  <2> QED
    BY <2>1, <2>3 DEF FoldsAlerts
<1>5. CASE OnBurn
  <2> DEFINE x == [t EXCEPT !.supplyEvented = @ - l.n, !.netSupply = @ - l.n]
  <2>1. ReconcileAgain(x) /\ l.ev = "Burn"
    BY <1>5, Zenon DEF OnBurn, Handle
  <2>2. DOMAIN x = TableFields /\ x.alerts = t.alerts /\ x.reconciled = t.reconciled
    BY DEF TableFields
  <2> HIDE DEF x
  <2>3. IF t.reconciled THEN Compares(t, u) ELSE KeepsAlerts(t, u)
    BY <2>1, <2>2, ComparedCompares DEF ReconcileAgain, KeepsAlerts
  <2> QED
    BY <2>1, <2>3 DEF FoldsAlerts
<1>6. CASE OnVestingMinted
  <2> DEFINE x == [t EXCEPT !.supplyEvented = @ + l.n, !.netSupply = @ + l.n]
  <2>1. ReconcileAgain(x) /\ l.ev = "VestingMinted"
    BY <1>6, Zenon DEF OnVestingMinted, Handle
  <2>2. DOMAIN x = TableFields /\ x.alerts = t.alerts /\ x.reconciled = t.reconciled
    BY DEF TableFields
  <2> HIDE DEF x
  <2>3. IF t.reconciled THEN Compares(t, u) ELSE KeepsAlerts(t, u)
    BY <2>1, <2>2, ComparedCompares DEF ReconcileAgain, KeepsAlerts
  <2> QED
    BY <2>1, <2>3 DEF FoldsAlerts
<1>7. CASE OnRedeem
  <2>1. PICK short \in BOOLEAN :
            /\ u = [t EXCEPT !.navMoved = TRUE,
                             !.alerts = IF short THEN @ \cup {Alert("redeem-gap", at + 1)} ELSE @]
            /\ l.ev = "Redeem" /\ unread' = unread
    BY <1>7 DEF OnRedeem, Handle
  <2> DEFINE x == IF short THEN t.alerts \cup {Alert("redeem-gap", at + 1)} ELSE t.alerts
  <2>2. u = [t EXCEPT !.navMoved = TRUE, !.alerts = x]
    BY <2>1, Zenon
  <2> HIDE DEF x
  <2>3. u.alerts = x /\ u.reconciled = t.reconciled
    BY <2>2 DEF TableFields
  <2>4. Warns(t, u, short, "redeem-gap")
    BY <2>1, <2>3, Zenon DEF Warns, x
  <2> HIDE DEF Warns
  <2> QED
    BY <2>1, <2>4 DEF FoldsAlerts
<1>8. CASE OnMarked
  <2>1. u = [t EXCEPT !.navMoved = TRUE] /\ l.ev \in {"Placement", "PriceMoved"} /\ unread' = unread
    BY <1>8 DEF OnMarked, Store, Handle
  <2> QED
    BY <2>1 DEF FoldsAlerts, KeepsAlerts, TableFields
<1>9. CASE OnCompound
  <2> DEFINE x == IF t.prevNav > 0 /\ t.nav < t.prevNav
                  THEN t.alerts \cup {Alert("nav-bleed", at + 1)} ELSE t.alerts
  <2>1. u = [t EXCEPT !.navMoved = TRUE, !.alerts = x] /\ l.ev = "Compound" /\ unread' = unread
    BY <1>9, Zenon DEF OnCompound, Store, Handle
  <2> HIDE DEF x
  <2>3. u.alerts = x /\ u.reconciled = t.reconciled
    BY <2>1 DEF TableFields
  <2>4. Warns(t, u, t.prevNav > 0 /\ t.nav < t.prevNav, "nav-bleed")
    BY <2>1, <2>3, Zenon DEF Warns, x
  <2> HIDE DEF Warns
  <2> QED
    BY <2>1, <2>4 DEF FoldsAlerts
<1>10. CASE OnCollateralAdded
  <2>1. u = [t EXCEPT !.listed = TRUE] /\ l.ev = "CollateralAdded" /\ unread' = unread
    BY <1>10 DEF OnCollateralAdded, Store, Handle
  <2> QED
    BY <2>1 DEF FoldsAlerts, KeepsAlerts, TableFields
<1>11. CASE OnEpochRolled
  <2>1. /\ l.ev = "EpochRolled" /\ unread' = unread
        /\ u = IF t.listed THEN [t EXCEPT !.epochStart = l.after.epochStart, !.issuedThisEpoch = 0]
               ELSE t
    BY <1>11 DEF OnEpochRolled, Store, Handle
  <2> QED
    BY <2>1 DEF FoldsAlerts, KeepsAlerts, TableFields
<1>12. CASE OnBond
  <2>1. u = Bought /\ l.ev = "Bond" /\ unread' = unread
    BY <1>12 DEF OnBond, Store, Handle
  <2> DEFINE purchases == Append(t.purchases, [day |-> Day, before |-> t.nav, after |-> 0, gain |-> 0])
             pending == Len(t.purchases) + 1
             positions == Upsert(t.positions, KeyOf(l), [principal |-> l.n, claimed |-> 0])
             epochs == Bump(t.epochs, t.epochStart, l.n)
             days == Bump(t.days, Day, l.n)
             issued == IF t.listed THEN t.issued + l.n ELSE t.issued
             thisEpoch == IF t.listed THEN t.issuedThisEpoch + l.n ELSE t.issuedThisEpoch
  <2>2. u = [t EXCEPT !.navMoved = TRUE, !.purchases = purchases, !.pending = pending,
                      !.pendingSupply = t.supply, !.positions = positions,
                      !.issued = issued, !.issuedThisEpoch = thisEpoch,
                      !.epochs = epochs, !.days = days]
    BY <2>1, Zenon DEF Bought, Bump, Fresh
  <2> HIDE DEF purchases, pending, positions, epochs, days, issued, thisEpoch
  <2>3. u.alerts = t.alerts /\ u.reconciled = t.reconciled
    BY ONLY <2>2, DOMAIN t = TableFields DEF TableFields
  <2> QED
    BY <2>1, <2>3 DEF FoldsAlerts, KeepsAlerts
<1>13. CASE OnClaim
  <2>1. /\ u = t \/ \E x : u = [t EXCEPT !.positions = x]
        /\ l.ev = "Claim" /\ unread' = unread
    BY <1>13 DEF OnClaim, Store, Handle
  <2> QED
    BY <2>1 DEF FoldsAlerts, KeepsAlerts, TableFields
<1> QED
  BY <1>1, <1>2, <1>3, <1>4, <1>5, <1>6, <1>7, <1>8, <1>9, <1>10, <1>11, <1>12, <1>13 DEF Handlers


---------------------------------------------------------------------------
(* The books.                                                              *)

Books(t, c) ==
    /\ t.supplyEvented = c.supply
    /\ IF c.launch = None THEN t.netSupply = 0 ELSE S0 + t.netSupply = c.supply
    /\ t.nav = c.nav /\ t.pRef = c.pRef
    /\ t.listed = c.listed /\ t.navMoved = c.marked
    /\ t.issuedThisEpoch = c.epochIssued /\ t.issued = c.issued

(* The tables stand at a log, and at the boundary they may go back to.     *)
TablesInv ==
    /\ TablesOK(tables, height) /\ TablesOK(base.tables, height)
    /\ Books(tables, After(at)) /\ Books(base.tables, base.chain)
    /\ phase = "mining" => tables = base.tables
    /\ base.tables.reconciled = FALSE

LEMMA Numbers == /\ S0 \in Nat /\ DaySeconds \in Nat \ {0} /\ 0 \in Levels
                 /\ \A x \in Levels : x \in Nat /\ x \in Int
<1>1. S0 \in Nat /\ DaySeconds \in Nat \ {0}
  BY IndexerAssumption
<1>2. \A x \in Navs : x \in Nat
  BY IndexerAssumption
<1> QED
  BY <1>1, <1>2 DEF Levels

\* What the chain went through since the log before shows in the books.
LEMMA BooksFollow ==
    ASSUME NEW t, NEW h, TablesOK(t, h), NEW c, ChainOK(c), Books(t, c),
           NEW l, NEW i, Follows(c, l, i, h), NEW u, Folds(t, l, u)
    PROVE  Books(u, l.after)
<1> DEFINE d == l.after
<1>0. /\ t.netSupply \in Int /\ c.supply \in Nat /\ l.n \in Nat /\ S0 \in Nat
      /\ t.listed \in BOOLEAN /\ t.navMoved \in BOOLEAN /\ c.listed \in BOOLEAN /\ c.marked \in BOOLEAN
      /\ d.listed \in BOOLEAN /\ d.marked \in BOOLEAN /\ l.ev \in Events
  BY IndexerAssumption DEF TablesOK, ChainOK, Follows
<1>1. u.supplyEvented = d.supply
  BY <1>0 DEF Books, Follows, FollowsSupply, Folds, FoldsSupply
<1>2. IF d.launch = None THEN u.netSupply = 0 ELSE S0 + u.netSupply = d.supply
  <2>1. CASE l.ev = "GenesisMinted"
    BY <1>0, <2>1 DEF Books, Follows, FollowsSupply, Folds, FoldsSupply
  <2>2. CASE l.ev # "GenesisMinted"
    BY <1>0, <2>2 DEF Books, Follows, FollowsSupply, Folds, FoldsSupply
  <2> QED
    BY <2>1, <2>2
<1>3. u.nav = d.nav /\ u.pRef = d.pRef
  BY DEF Books, Follows, FollowsNav, Folds, FoldsNav
<1>4. u.listed = d.listed
  BY <1>0 DEF Books, Follows, FollowsIssue, Folds, FoldsIssue
<1>5. u.navMoved = d.marked
  BY <1>0 DEF Books, Follows, FollowsMark, Folds, FoldsNav
<1>6. u.issuedThisEpoch = d.epochIssued /\ u.issued = d.issued
  BY <1>0 DEF Books, Follows, FollowsIssue, Folds, FoldsIssue
<1> QED
  BY <1>1, <1>2, <1>3, <1>4, <1>5, <1>6 DEF Books

LEMMA TablesFollow ==
    ASSUME NEW t, TablesOK(t, height), NEW c, ChainOK(c), Books(t, c),
           NEW l, NEW i, Follows(c, l, i, height),
           NEW u, Folds(t, l, u), FoldsSales(t, l, u), FoldsAlerts(t, l, u), height \in Nat \ {0}
    PROVE  TablesOK(u, height)
<1> DEFINE d == l.after
<1>0. /\ t.netSupply \in Int /\ l.n \in Nat /\ S0 \in Nat /\ t.supply \in Nat /\ t.pendingSupply \in Nat
      /\ t.listed \in BOOLEAN /\ t.navMoved \in BOOLEAN /\ t.reconciled \in BOOLEAN
      /\ t.nav \in Levels /\ t.prevNav \in Levels /\ DOMAIN u = TableFields
  BY Numbers DEF TablesOK, Folds, Follows
<1>d. ChainOK(d) /\ d.nav \in Levels /\ d.supply \in Nat
  BY DEF ChainOK, Follows
<1>v. 0 \in Levels /\ \A x \in Levels : x \in Nat /\ x \in Int
  BY Numbers
<1>1. u.netSupply \in Int
  BY <1>0 DEF Folds, FoldsSupply
<1>2. u.supplyEvented \in Nat
  <2>1. Books(u, d)
    BY BooksFollow
  <2> QED
    BY <1>d, <2>1 DEF Books
<1>3. u.nav \in Levels /\ u.prevNav \in Levels /\ u.supply \in Nat
  BY <1>0, <1>d DEF Folds, FoldsNav
<1>4. u.navMoved \in BOOLEAN
  BY <1>0 DEF Folds, FoldsNav
<1>5. u.listed \in BOOLEAN
  BY <1>0 DEF Folds, FoldsIssue
<1>6. u.pendingSupply \in Nat
  BY <1>0 DEF FoldsSales
<1>7. u.purchases \in Seq(Purchase) /\ u.pending \in 0 .. Len(u.purchases)
  <2>0. t.purchases \in Seq(Purchase) /\ t.pending \in 0 .. Len(t.purchases)
    BY DEF TablesOK
  <2>1. CASE KeepsSales(t, u)
    BY <2>0, <2>1 DEF KeepsSales
  <2>2. CASE l.ev = "Bond"
    <3>1. now \in Int /\ Day \in Int
      <4>1. now % DaySeconds \in Nat
        BY IndexerAssumption DEF now
      <4> QED
        BY <4>1 DEF Day, now
    <3>2. [day |-> Day, before |-> t.nav, after |-> 0, gain |-> 0] \in Purchase
      BY <1>0, <1>v, <3>1 DEF Purchase
    <3> DEFINE x == [day |-> Day, before |-> t.nav, after |-> 0, gain |-> 0]
    <3>3. u.purchases = Append(t.purchases, x) /\ u.pending = Len(t.purchases) + 1
      BY <2>2 DEF FoldsSales, BooksSale
    <3> HIDE DEF x
    <3>4. x \in Purchase
      BY <3>2 DEF x
    <3> QED
      BY <2>0, <3>3, <3>4
  <2>3. CASE l.ev = "NavCheckpoint" /\ t.pending # 0
    <3> DEFINE p == t.purchases[t.pending]
               g == Gained(t, d.nav)
               y == [p EXCEPT !.after = d.nav, !.gain = g]
    <3>1. t.pending \in 1 .. Len(t.purchases) /\ p \in Purchase
      BY <2>0, <2>3
    <3>2. g \in Int
      <4>0. p.before \in Levels
        BY <3>1 DEF Purchase
      <4>1. p.before \in Int /\ d.nav \in Int /\ t.pendingSupply \in Int
        BY <1>0, <1>d, <1>v, <4>0
      <4>2. \A a, b, e \in Int : (a - b) * e \in Int
        OBVIOUS
      <4> QED
        BY <4>1, <4>2 DEF Gained
    <3> HIDE DEF g
    <3>3. y \in Purchase
      BY <1>d, <3>1, <3>2 DEF Purchase
    <3>4. u.purchases = [t.purchases EXCEPT ![t.pending] = y] /\ u.pending = 0
      BY <2>3, Zenon DEF FoldsSales, SettlesSale, g
    <3> HIDE DEF y, p
    <3> QED
      BY <2>0, <3>1, <3>3, <3>4
  <2> QED
    BY <2>1, <2>2, <2>3 DEF FoldsSales
<1>8. u.reconciled \in BOOLEAN
  <2>1. u.reconciled = t.reconciled \/ u.reconciled = TRUE
    BY DEF FoldsAlerts, Warns, Compares, KeepsAlerts
  <2> QED
    BY <1>0, <2>1
<1>9. \A a \in u.alerts : a.block \in 1 .. height
  <2>1. \A a \in t.alerts : a.block \in 1 .. height
    BY DEF TablesOK
  <2>2. height \in 1 .. height
    OBVIOUS
  <2>3. \A kind, j : Alert(kind, j).block = height
    BY DEF Alert
  <2>4. Divergence.block = height
    BY <2>3 DEF Divergence
  <2>5. \A a \in u.alerts : a \in t.alerts \/ a = Divergence \/ \E kind, j : a = Alert(kind, j)
    BY DEF FoldsAlerts, Warns, Compares, KeepsAlerts
  <2> QED
    BY <2>1, <2>2, <2>3, <2>4, <2>5
<1> QED
  BY <1>0, <1>1, <1>2, <1>3, <1>4, <1>5, <1>6, <1>7, <1>8, <1>9 DEF TablesOK


\* The log at hand says what it should.
LEMMA LogHere ==
    ASSUME ChainInv, Shape, Handling
    PROVE  /\ at + 1 \in 1 .. Len(block) /\ at \in Nat
           /\ Follows(After(at), Log, at + 1, height) /\ ChainOK(After(at))
           /\ After(at + 1) = Log.after
<1>1. at \in Nat /\ at + 1 \in 1 .. Len(block) /\ (at + 1) - 1 = at /\ at + 1 # 0 /\ Len(block) \in Nat
  BY DEF ChainInv, Shape, Handling
<1>2. Follows(After((at + 1) - 1), block[at + 1], at + 1, height)
  BY <1>1 DEF ChainInv
<1>3. Follows(After(at), Log, at + 1, height)
  BY <1>1, <1>2 DEF Log
<1>4. ChainOK(After(at))
  <2>1. CASE at = 0
    BY <2>1 DEF After, ChainInv
  <2>2. CASE at # 0
    <3>1. at \in 1 .. Len(block)
      BY <1>1, <2>2
    <3>2. Follows(After(at - 1), block[at], at, height)
      BY <3>1 DEF ChainInv
    <3> QED
      BY <2>2, <3>2 DEF After, Follows
  <2> QED
    BY <2>1, <2>2
<1>5. After(at + 1) = Log.after
  BY <1>1 DEF After, Log
<1> QED
  BY <1>1, <1>3, <1>4, <1>5

LEMMA HandlersBook ==
    ASSUME ChainInv, Shape, TablesInv, Handlers
    PROVE  TablesInv'
<1>1. /\ Handling /\ at' = at + 1 /\ base' = base /\ height' = height /\ block' = block
      /\ phase' = phase
  BY HandlersHandle DEF chainVars
<1>2. /\ Follows(After(at), Log, at + 1, height) /\ ChainOK(After(at))
      /\ After(at + 1) = Log.after /\ height \in Nat \ {0}
  BY <1>1, LogHere DEF Shape
<1>3. TablesOK(tables, height) /\ Books(tables, After(at))
  BY DEF TablesInv
<1>4. DOMAIN tables = TableFields /\ tables.listed \in BOOLEAN
  BY <1>3 DEF TablesOK
<1>5. Folds(tables, Log, tables') /\ FoldsSales(tables, Log, tables') /\ FoldsAlerts(tables, Log, tables')
  BY <1>4, HandlersFold, HandlersSell, HandlersAlert
<1>6. Books(tables', Log.after)
  BY <1>2, <1>3, <1>5, BooksFollow
<1>7. TablesOK(tables', height)
  BY <1>2, <1>3, <1>5, TablesFollow
<1>8. After(at)' = Log.after
  <2>1. After(at)' = After(at + 1)
    BY <1>1 DEF After
  <2> QED
    BY <1>2, <2>1
<1>9. phase' # "mining"
  BY <1>1 DEF Handling
<1> QED
  BY <1>1, <1>6, <1>7, <1>8, <1>9 DEF TablesInv

\* A comparison at the end of the block.
LEMMA PollBooks ==
    ASSUME ChainInv, Shape, TablesInv, Poll
    PROVE  TablesInv'
<1>1. /\ base' = base /\ height' = height /\ block' = block /\ at' = at /\ phase' = "polled"
      /\ height \in Nat \ {0} /\ ReconcileWith(tables)
  BY DEF Poll, chainVars, Shape
<1>2. TablesOK(tables, height) /\ Books(tables, After(at))
  BY DEF TablesInv
<1>3. Compares(tables, tables') /\ Same(tables, tables')
  <2>1. DOMAIN tables = TableFields
    BY <1>2 DEF TablesOK
  <2>2. Same(tables, tables) /\ Same(tables, Reconciled(tables))
    BY <2>1, ComparedIs
  <2>3. tables' = tables \/ tables' = Reconciled(tables)
    BY <1>1 DEF ReconcileWith
  <2>4. Same(tables, tables')
    BY <2>2, <2>3, Zenon
  <2> QED
    BY <1>1, <2>1, <2>4, ComparedCompares
<1>4. TablesOK(tables', height)
  <2>1. \A a \in tables'.alerts : a.block \in 1 .. height
    <3>1. \A a \in tables'.alerts : a \in tables.alerts \/ a = Divergence
      BY <1>3 DEF Compares
    <3>2. height \in 1 .. height /\ Divergence.block = height
      BY <1>1 DEF Divergence, Alert
    <3> QED
      BY <1>2, <3>1, <3>2 DEF TablesOK
  <2>2. tables'.reconciled \in BOOLEAN
    BY <1>2, <1>3 DEF Compares, TablesOK
  <2> QED
    BY <1>2, <1>3, <2>1, <2>2, SameIs DEF TablesOK
<1>5. After(at)' = After(at)
  BY <1>1 DEF After
<1>6. Books(tables', After(at))
  BY <1>2, <1>3, SameIs DEF Books
<1> QED
  BY <1>1, <1>4, <1>5, <1>6 DEF TablesInv

\* A block is closed.
LEMMA CloseBooks ==
    ASSUME ChainInv, Shape, TablesInv, Close
    PROVE  TablesInv'
<1>1. /\ height' = height + 1 /\ at' = 0 /\ phase' = "mining" /\ at = Len(block)
      /\ tables' = [tables EXCEPT !.reconciled = FALSE]
      /\ base'.chain = chain /\ base'.tables = tables' /\ height \in Nat
  BY DEF Close, Shape
<1>2. TablesOK(tables, height) /\ Books(tables, After(Len(block))) /\ Level(After(Len(block)), chain)
  BY <1>1 DEF TablesInv, ChainInv
<1>3. DOMAIN tables = TableFields
  BY <1>2 DEF TablesOK
<1>4. Same(tables, tables') /\ tables'.alerts = tables.alerts /\ tables'.reconciled = FALSE
  BY <1>1, <1>3 DEF Same, TableFields
<1>5. TablesOK(tables', height')
  <2>1. \A a \in tables'.alerts : a.block \in 1 .. height'
    BY <1>1, <1>2, <1>4 DEF TablesOK
  <2>2. tables'.reconciled \in BOOLEAN
    BY <1>4
  <2> QED
    BY <1>2, <1>4, <2>1, <2>2, SameIs DEF TablesOK
<1>6. Books(tables, chain)
  BY <1>2, LevelIs DEF Books
<1>7. Books(tables', chain)
  BY <1>4, <1>6, SameIs DEF Books
<1>8. After(at)' = chain
  BY <1>1 DEF After
<1> QED
  BY <1>1, <1>4, <1>5, <1>7, <1>8 DEF TablesInv

LEMMA TablesKept ==
    ASSUME ChainInv, Shape, TablesInv, [Next]_vars
    PROVE  TablesInv'
<1>1. CASE \/ GenesisMint \/ GenesisPlace \/ CheckpointTx \/ BondTx \/ ClaimTx \/ RedeemTx
           \/ CompoundTx \/ MarketTx \/ Converge \/ Emit
  <2>1. /\ phase = "mining" /\ at = 0 /\ UNCHANGED <<phase, height, at, base, tables>>
    BY <1>1 DEF GenesisMint, GenesisPlace, CheckpointTx, BondTx, ClaimTx, RedeemTx, CompoundTx,
                MarketTx, Transact, Run, Between, Converge, Emit, Shape
  <2>2. After(at)' = After(at)
    BY <2>1 DEF After
  <2> QED
    BY <2>1, <2>2 DEF TablesInv
<1>2. CASE Seal \/ OnBondFails \/ UNCHANGED vars
  <2>1. UNCHANGED <<height, block, at, base, tables>> /\ (phase' = "mining" => phase = "mining")
    BY <1>2 DEF Seal, OnBondFails, Between, vars, chainVars
  <2>2. After(at)' = After(at)
    BY <2>1 DEF After
  <2> QED
    BY <2>1, <2>2 DEF TablesInv
<1>3. CASE Handlers
  BY <1>3, HandlersBook
<1>4. CASE Poll
  BY <1>4, PollBooks
<1>5. CASE Close
  BY <1>5, CloseBooks
<1>6. CASE Restart \/ Reorg
  <2>1. tables' = base.tables /\ at' = 0 /\ base' = base /\ height' = height
    BY <1>6 DEF Restart, Reorg, RollBack, chainVars
  <2>2. After(at)' = base.chain
    BY <2>1 DEF After
  <2> QED
    BY <2>1, <2>2 DEF TablesInv
<1> QED
  BY <1>1, <1>2, <1>3, <1>4, <1>5, <1>6 DEF Next, Mine, Index, Handlers

LEMMA TablesInit ==
    ASSUME Init
    PROVE  TablesInv
<1> DEFINE t == EmptyTables
<1>1. tables = t /\ base.tables = t /\ base.chain = Unborn /\ at = 0 /\ height = 1
  BY DEF Init
<1>2. /\ DOMAIN t = TableFields /\ t.netSupply = 0 /\ t.supplyEvented = 0 /\ t.nav = 0 /\ t.prevNav = 0
      /\ t.supply = 0 /\ t.pendingSupply = 0 /\ t.navMoved = FALSE /\ t.listed = FALSE
      /\ t.reconciled = FALSE /\ t.pending = 0 /\ t.alerts = {} /\ t.pRef = 0
      /\ t.issuedThisEpoch = 0 /\ t.issued = 0
  BY DEF EmptyTables, TableFields
<1>3. t.purchases \in Seq(Purchase) /\ 0 \in 0 .. Len(t.purchases)
  <2>1. t.purchases = <<>>
    BY DEF EmptyTables
  <2>2. <<>> \in Seq(Purchase) /\ 0 \in 0 .. Len(<<>>)
    OBVIOUS
  <2> QED
    BY <2>1, <2>2, Zenon
<1> HIDE DEF t
<1>4. TablesOK(t, 1)
  BY <1>2, <1>3, Numbers DEF TablesOK
<1>5. Books(t, Unborn)
  BY <1>2 DEF Books, Unborn
<1>6. After(at) = Unborn
  BY <1>1 DEF After
<1> QED
  BY <1>1, <1>2, <1>4, <1>5, <1>6 DEF TablesInv

IndexerInv == ChainInv /\ Shape /\ TablesInv

LEMMA IndexerInvariant == Spec => []IndexerInv
<1>1. Init => IndexerInv
  BY ChainInit, TablesInit DEF IndexerInv
<1>2. IndexerInv /\ [Next]_vars => IndexerInv'
  BY ChainKept, ShapeKept, TablesKept DEF IndexerInv
<1> QED
  BY <1>1, <1>2, PTL DEF Spec

(* After every log the sums over logs are the chain's own figures at that  *)
(* log, through queued burns, replays and reorganisations, whatever the    *)
(* transactions and however they are packed (Indexer.BooksFollowChain).    *)
THEOREM BooksAreFollowed == Spec => []BooksFollowChain
<1>1. IndexerInv => BooksFollowChain
  <2> SUFFICES ASSUME IndexerInv PROVE BooksFollowChain
    OBVIOUS
  <2>1. Seen = After(at)
    BY DEF Seen, After
  <2>2. /\ TablesOK(tables, height) /\ Books(tables, After(at)) /\ ChainOK(chain)
    BY DEF IndexerInv, TablesInv, ChainInv
  <2>3. TypeOK
    <3>1. /\ chain.launch \in {None, "minted", "open"}
          /\ {chain.supply, chain.queued, chain.issued} \subseteq Nat
          /\ chain.live \in Navs \cup {0}
      BY <2>2 DEF ChainOK, Levels
    <3>2. /\ at \in 0 .. Len(block) /\ phase \in {"mining", "indexing", "polled"} /\ halted \in BOOLEAN
          /\ height \in 1 .. MaxHeight /\ txs \in 0 .. MaxTxs /\ faults \in 0 .. MaxFaults
          /\ unread \subseteq 1 .. MaxHeight
      BY DEF IndexerInv, Shape
    <3>3. /\ tables.pending \in 0 .. Len(tables.purchases)
          /\ {tables.navMoved, tables.listed, tables.reconciled, halted} \subseteq BOOLEAN
          /\ {tables.nav, tables.prevNav} \subseteq Navs \cup {0}
          /\ \A a \in tables.alerts : a.block \in 1 .. height
      BY <2>2, <3>2 DEF TablesOK, Levels
    <3> QED
      BY <3>1, <3>2, <3>3, Zenon DEF TypeOK
  <2> QED
    BY <2>1, <2>2, <2>3 DEF Books, BooksFollowChain
<1> QED
  BY <1>1, IndexerInvariant, PTL


---------------------------------------------------------------------------
(* What the tables add up to.                                              *)

LedgerRow == [issued : Int, gain : Int]
Ledger(f) == IsFiniteSet(DOMAIN f) /\ f \in [DOMAIN f -> LedgerRow]

\* A sum grows by what one of its entries does, new or old.
LEMMA TotalGrows ==
    ASSUME NEW f, IsFiniteSet(DOMAIN f), \A x \in DOMAIN f : f[x] \in Int,
           NEW k, NEW n \in Int, NEW h, \A x : x \in DOMAIN h <=> x \in DOMAIN f \/ x = k,
           \A x \in DOMAIN f : x # k => h[x] = f[x],
           k \in DOMAIN f => h[k] = f[k] + n, k \notin DOMAIN f => h[k] = n
    PROVE  IsFiniteSet(DOMAIN h) /\ Total(h) = Total(f) + n /\ Total(f) \in Int
<1> DEFINE D == DOMAIN f
           E == DOMAIN h
           R == D \ {k}
<1>0. IsFiniteSet(D) /\ IsFiniteSet(R)
  BY FS_Subset
<1>1. /\ Total(f) = SumFunctionOnSet(f, D) /\ Total(h) = SumFunctionOnSet(h, E)
      /\ SumFunctionOnSet(f, D) \in Int /\ SumFunctionOnSet(f, R) \in Int
  BY <1>0, SumInt DEF Total
<1>2. SumFunctionOnSet(h, R) = SumFunctionOnSet(f, R)
  <2>1. \A x \in R : h[x] = f[x]
    OBVIOUS
  <2> QED
    BY <1>0, <2>1, SumSame
<1>3. \A x \in E : h[x] \in Int
  OBVIOUS
<1>4. E = R \cup {k} /\ k \notin R
  OBVIOUS
<1>5. SumFunctionOnSet(h, E) = SumFunctionOnSet(h, R) + h[k] /\ IsFiniteSet(E)
  <2>1. \A x \in R \cup {k} : h[x] \in Int
    BY <1>3, <1>4
  <2>2. SumFunctionOnSet(h, R \cup {k}) = SumFunctionOnSet(h, R) + h[k]
    BY <1>0, <1>4, <2>1, SumPutsIn
  <2>3. IsFiniteSet(R \cup {k})
    BY <1>0, FS_AddElement
  <2> HIDE DEF E, R
  <2> QED
    BY <1>4, <2>2, <2>3, Zenon
<1>6. CASE k \in D
  <2>1. SumFunctionOnSet(f, D) = f[k] + SumFunctionOnSet(f, R)
    BY <1>0, <1>6, SumTakesOut
  <2>2. h[k] = f[k] + n /\ f[k] \in Int
    BY <1>6
  <2> QED
    BY <1>1, <1>2, <1>5, <2>1, <2>2
<1>7. CASE k \notin D
  <2>1. R = D
    BY <1>7
  <2>2. h[k] = n
    BY <1>7
  <2>3. SumFunctionOnSet(f, R) = SumFunctionOnSet(f, D)
    BY <2>1, Zenon
  <2> QED
    BY <1>1, <1>2, <1>5, <2>2, <2>3
<1> QED
  BY <1>6, <1>7

\* And stands when none of them changes.
LEMMA TotalStands ==
    ASSUME NEW f, IsFiniteSet(DOMAIN f), NEW h, DOMAIN h = DOMAIN f,
           \A x \in DOMAIN f : h[x] = f[x]
    PROVE  Total(h) = Total(f)
BY SumSame DEF Total

LEMMA CreditAdds ==
    ASSUME NEW f, Ledger(f), NEW k \in DOMAIN f, NEW g \in Int, NEW h, h = Credit(f, k, g)
    PROVE  /\ Ledger(h) /\ DOMAIN h = DOMAIN f
           /\ Gains(h) = Gains(f) + g /\ Gains(f) \in Int /\ Issued(h) = Issued(f)
<1>1. /\ DOMAIN h = DOMAIN f
      /\ \A x \in DOMAIN f : /\ f[x] \in LedgerRow
                             /\ x # k => h[x] = f[x]
                             /\ h[x].issued = f[x].issued
      /\ h[k].gain = f[k].gain + g /\ \A x \in DOMAIN f : h[x] \in LedgerRow
      /\ h \in [DOMAIN f -> LedgerRow]
  BY DEF Credit, Ledger, LedgerRow
<1> DEFINE fg == [x \in DOMAIN f |-> f[x].gain]
           hg == [x \in DOMAIN h |-> h[x].gain]
           fi == [x \in DOMAIN f |-> f[x].issued]
           hi == [x \in DOMAIN h |-> h[x].issued]
<1>2. /\ DOMAIN fg = DOMAIN f /\ DOMAIN hg = DOMAIN f /\ DOMAIN fi = DOMAIN f /\ DOMAIN hi = DOMAIN f
      /\ \A x \in DOMAIN f : /\ fg[x] = f[x].gain /\ hg[x] = h[x].gain
                             /\ hi[x] = fi[x] /\ f[x].gain \in Int
  BY <1>1 DEF LedgerRow
<1>3. IsFiniteSet(DOMAIN f)
  BY DEF Ledger
<1>4. Gains(f) = Total(fg) /\ Gains(h) = Total(hg) /\ Issued(f) = Total(fi) /\ Issued(h) = Total(hi)
  BY Zenon DEF Gains, Issued
<1> HIDE DEF fg, hg, fi, hi
<1>5. /\ IsFiniteSet(DOMAIN fg) /\ \A x \in DOMAIN fg : fg[x] \in Int
      /\ \A x : x \in DOMAIN hg <=> x \in DOMAIN fg \/ x = k
      /\ \A x \in DOMAIN fg : x # k => hg[x] = fg[x]
      /\ k \in DOMAIN fg /\ hg[k] = fg[k] + g
  BY <1>1, <1>2, <1>3
<1>6. Total(hg) = Total(fg) + g /\ Total(fg) \in Int
  BY <1>5, TotalGrows
<1>7. Total(hi) = Total(fi)
  BY <1>2, <1>3, TotalStands
<1>8. Ledger(h)
  BY <1>1, <1>3 DEF Ledger
<1> QED
  BY <1>1, <1>4, <1>6, <1>7, <1>8

LEMMA BumpAdds ==
    ASSUME NEW f, Ledger(f), NEW k, NEW n \in Int, NEW h, h = Bump(f, k, n)
    PROVE  /\ Ledger(h) /\ \A x : x \in DOMAIN h <=> x \in DOMAIN f \/ x = k
           /\ Issued(h) = Issued(f) + n /\ Issued(f) \in Int /\ Gains(h) = Gains(f)
           /\ Gains(f) \in Int
<1> DEFINE row == [Row(f, k, Fresh) EXCEPT !.issued = @ + n]
<1>1. /\ \A x : x \in DOMAIN h <=> x \in DOMAIN f \/ x = k
      /\ DOMAIN h = DOMAIN f \cup {k} /\ h[k] = row
      /\ \A x \in DOMAIN f : x # k => h[x] = f[x]
      /\ h = [x \in DOMAIN h |-> h[x]]
  <2>1. h = [x \in DOMAIN f \cup {k} |-> IF x = k THEN row ELSE f[x]]
    BY Zenon DEF Bump, Upsert
  <2> HIDE DEF row
  <2> QED
    BY <2>1
<1>2. /\ \A x \in DOMAIN f : f[x] \in LedgerRow
      /\ Row(f, k, Fresh) = IF k \in DOMAIN f THEN f[k] ELSE Fresh
      /\ Fresh \in LedgerRow /\ Fresh.issued = 0 /\ Fresh.gain = 0
  BY DEF Ledger, Row, Fresh, LedgerRow
<1>3. /\ row \in LedgerRow
      /\ k \in DOMAIN f => row.issued = f[k].issued + n /\ row.gain = f[k].gain
      /\ k \notin DOMAIN f => row.issued = n /\ row.gain = 0
  BY <1>2 DEF LedgerRow
<1> HIDE DEF row
<1>4. \A x \in DOMAIN h : h[x] \in LedgerRow
  BY <1>1, <1>2, <1>3
<1> DEFINE fg == [x \in DOMAIN f |-> f[x].gain]
           hg == [x \in DOMAIN h |-> h[x].gain]
           fi == [x \in DOMAIN f |-> f[x].issued]
           hi == [x \in DOMAIN h |-> h[x].issued]
<1>5. /\ DOMAIN fg = DOMAIN f /\ DOMAIN hg = DOMAIN h /\ DOMAIN fi = DOMAIN f /\ DOMAIN hi = DOMAIN h
      /\ \A x \in DOMAIN f : /\ fg[x] = f[x].gain /\ fi[x] = f[x].issued
                             /\ f[x].gain \in Int /\ f[x].issued \in Int
      /\ \A x \in DOMAIN h : hg[x] = h[x].gain /\ hi[x] = h[x].issued
  BY <1>2 DEF LedgerRow
<1>6. Gains(f) = Total(fg) /\ Gains(h) = Total(hg) /\ Issued(f) = Total(fi) /\ Issued(h) = Total(hi)
  BY Zenon DEF Gains, Issued
<1>7. IsFiniteSet(DOMAIN f)
  BY DEF Ledger
<1> HIDE DEF fg, hg, fi, hi
<1>8. /\ IsFiniteSet(DOMAIN fi) /\ \A x \in DOMAIN fi : fi[x] \in Int
      /\ \A x : x \in DOMAIN hi <=> x \in DOMAIN fi \/ x = k
      /\ \A x \in DOMAIN fi : x # k => hi[x] = fi[x]
      /\ k \in DOMAIN fi => hi[k] = fi[k] + n
      /\ k \notin DOMAIN fi => hi[k] = n
  BY <1>1, <1>3, <1>5, <1>7
<1>9. Total(hi) = Total(fi) + n /\ Total(fi) \in Int /\ IsFiniteSet(DOMAIN hi)
  BY <1>8, TotalGrows
<1>z. PICK z \in Int : z = 0
  OBVIOUS
<1>10. /\ IsFiniteSet(DOMAIN fg) /\ \A x \in DOMAIN fg : fg[x] \in Int
       /\ \A x : x \in DOMAIN hg <=> x \in DOMAIN fg \/ x = k
       /\ \A x \in DOMAIN fg : x # k => hg[x] = fg[x]
       /\ k \in DOMAIN fg => hg[k] = fg[k] + z
       /\ k \notin DOMAIN fg => hg[k] = z
  BY <1>1, <1>3, <1>5, <1>7, <1>z
<1>11. Total(hg) = Total(fg) + z /\ Total(fg) \in Int
  BY <1>10, TotalGrows
<1>12. Ledger(h)
  <2>1. h \in [DOMAIN h -> LedgerRow]
    BY <1>1, <1>4
  <2> QED
    BY <1>5, <1>9, <2>1 DEF Ledger
<1> QED
  BY <1>1, <1>6, <1>9, <1>11, <1>12, <1>z

LEMMA UpsertAdds ==
    ASSUME NEW f, IsFiniteSet(DOMAIN f), f \in [DOMAIN f -> Int], NEW k, NEW g \in Int,
           NEW h, h = Upsert(f, k, Row(f, k, 0) + g)
    PROVE  /\ IsFiniteSet(DOMAIN h) /\ h \in [DOMAIN h -> Int]
           /\ Total(h) = Total(f) + g /\ Total(f) \in Int
<1> DEFINE row == Row(f, k, 0) + g
<1>1. /\ \A x : x \in DOMAIN h <=> x \in DOMAIN f \/ x = k
      /\ h[k] = row /\ \A x \in DOMAIN f : x # k => h[x] = f[x]
      /\ h = [x \in DOMAIN h |-> h[x]]
  <2>1. h = [x \in DOMAIN f \cup {k} |-> IF x = k THEN row ELSE f[x]]
    BY Zenon DEF Upsert
  <2> HIDE DEF row
  <2> QED
    BY <2>1
<1>2. /\ row \in Int
      /\ k \in DOMAIN f => row = f[k] + g
      /\ k \notin DOMAIN f => row = g
  BY DEF Row
<1> HIDE DEF row
<1>3. \A x \in DOMAIN f : f[x] \in Int
  OBVIOUS
<1>4. IsFiniteSet(DOMAIN h) /\ Total(h) = Total(f) + g /\ Total(f) \in Int
  BY <1>1, <1>2, <1>3, TotalGrows
<1>5. \A x \in DOMAIN h : h[x] \in Int
  BY <1>1, <1>2, <1>3
<1> QED
  BY <1>1, <1>4, <1>5


LEMMA GainsGrow ==
    ASSUME NEW f, IsFiniteSet(DOMAIN f), \A x \in DOMAIN f : f[x].gain \in Int,
           NEW k, NEW n \in Int, NEW h, \A x : x \in DOMAIN h <=> x \in DOMAIN f \/ x = k,
           \A x \in DOMAIN f : x # k => h[x].gain = f[x].gain,
           k \in DOMAIN f => h[k].gain = f[k].gain + n, k \notin DOMAIN f => h[k].gain = n
    PROVE  Gains(h) = Gains(f) + n /\ Gains(f) \in Int
<1> DEFINE fg == [x \in DOMAIN f |-> f[x].gain]
           hg == [x \in DOMAIN h |-> h[x].gain]
<1>1. /\ DOMAIN fg = DOMAIN f /\ DOMAIN hg = DOMAIN h
      /\ \A x \in DOMAIN f : fg[x] = f[x].gain
      /\ \A x \in DOMAIN h : hg[x] = h[x].gain
  OBVIOUS
<1>2. Gains(f) = Total(fg) /\ Gains(h) = Total(hg)
  BY Zenon DEF Gains
<1> HIDE DEF fg, hg
<1>3. /\ IsFiniteSet(DOMAIN fg) /\ \A x \in DOMAIN fg : fg[x] \in Int
      /\ \A x : x \in DOMAIN hg <=> x \in DOMAIN fg \/ x = k
      /\ \A x \in DOMAIN fg : x # k => hg[x] = fg[x]
      /\ k \in DOMAIN fg => hg[k] = fg[k] + n
      /\ k \notin DOMAIN fg => hg[k] = n
  BY <1>1
<1>4. Total(hg) = Total(fg) + n /\ Total(fg) \in Int
  BY ONLY <1>3, n \in Int, TotalGrows
<1> QED
  BY <1>2, <1>4

LEMMA GainsStand ==
    ASSUME NEW f, IsFiniteSet(DOMAIN f), \A x \in DOMAIN f : f[x].gain \in Int,
           NEW k, k \notin DOMAIN f, NEW h, \A x : x \in DOMAIN h <=> x \in DOMAIN f \/ x = k,
           \A x \in DOMAIN f : h[x].gain = f[x].gain, h[k].gain = 0
    PROVE  Gains(h) = Gains(f)
<1> DEFINE fg == [x \in DOMAIN f |-> f[x].gain]
           hg == [x \in DOMAIN h |-> h[x].gain]
<1>1. /\ DOMAIN fg = DOMAIN f /\ DOMAIN hg = DOMAIN h
      /\ \A x \in DOMAIN f : fg[x] = f[x].gain
      /\ \A x \in DOMAIN h : hg[x] = h[x].gain
  OBVIOUS
<1>2. Gains(f) = Total(fg) /\ Gains(h) = Total(hg)
  BY Zenon DEF Gains
<1> HIDE DEF fg, hg
<1>z. PICK z \in Int : z = 0
  OBVIOUS
<1>3. /\ IsFiniteSet(DOMAIN fg) /\ \A x \in DOMAIN fg : fg[x] \in Int
      /\ \A x : x \in DOMAIN hg <=> x \in DOMAIN fg \/ x = k
      /\ \A x \in DOMAIN fg : x # k => hg[x] = fg[x]
      /\ k \in DOMAIN fg => hg[k] = fg[k] + z
      /\ k \notin DOMAIN fg => hg[k] = z
  BY <1>1, <1>z
<1>4. Total(hg) = Total(fg) + z /\ Total(fg) \in Int
  BY <1>3, TotalGrows
<1> QED
  BY <1>2, <1>4, <1>z

(* The ledgers add up to the market's own figures, the purchases are the   *)
(* chain's sales, and the one that waits is the only one not settled.      *)
Sums(t) ==
    /\ Ledger(t.days) /\ Ledger(t.epochs)
    /\ IsFiniteSet(DOMAIN t.flywheel) /\ t.flywheel \in [DOMAIN t.flywheel -> Int]
    /\ Gains(t.purchases) = t.gain /\ Gains(t.days) = t.gain /\ Total(t.flywheel) = t.gain
    /\ Issued(t.epochs) = t.issued /\ Issued(t.days) = t.issued

Sold(t, c) ==
    /\ Len(t.purchases) = Len(c.sales)
    /\ \A i \in 1 .. Len(t.purchases) :
           /\ t.purchases[i].before = c.sales[i].before
           /\ t.purchases[i].after = c.sales[i].after
           /\ t.purchases[i].after = 0 <=> i = t.pending
           /\ t.purchases[i].after = 0 => t.purchases[i].gain = 0
           /\ t.purchases[i].day \in DOMAIN t.days
    /\ t.purchases # <<>> => t.listed

LEMMA SalesKept ==
    ASSUME NEW t, Sums(t), NEW c, Sold(t, c), NEW u, KeepsSales(t, u), u.issued = t.issued,
           t.listed => u.listed, NEW d, d.sales = c.sales
    PROVE  Sums(u) /\ Sold(u, d)
BY DEF Sums, Sold, KeepsSales

\* A checkpoint when nothing waits.
LEMMA SalesSettledBefore ==
    ASSUME NEW t, TablesOK(t, height), Sums(t), NEW c, ChainOK(c), Sold(t, c), t.pending = 0,
           NEW u, KeepsSales(t, u), u.issued = t.issued, t.listed => u.listed,
           NEW l, l.ev = "NavCheckpoint", ChainOK(l.after), FollowsSales(c, l, l.after)
    PROVE  Sums(u) /\ Sold(u, l.after)
<1> DEFINE d == l.after
<1>0. /\ c.sales \in Seq(Sale) /\ d.sales \in Seq(Sale) /\ t.purchases \in Seq(Purchase)
      /\ DOMAIN d.sales = DOMAIN c.sales
      /\ \A i \in DOMAIN c.sales :
             /\ d.sales[i].before = c.sales[i].before
             /\ d.sales[i].after = IF c.sales[i].after = 0 THEN d.live ELSE c.sales[i].after
  BY DEF ChainOK, TablesOK, FollowsSales
<1> HIDE DEF d
<1>1. Len(d.sales) = Len(c.sales) /\ DOMAIN c.sales = 1 .. Len(c.sales)
  BY <1>0
<1>2. \A i \in 1 .. Len(t.purchases) : i # 0 /\ t.purchases[i].after # 0
  BY <1>0 DEF Sold
<1>3. Sold(u, d)
  BY <1>0, <1>1, <1>2 DEF Sold, KeepsSales
<1> QED
  BY <1>3 DEF Sums, KeepsSales, d

\* A checkpoint settles the sale that waits.
LEMMA SalesSettled ==
    ASSUME NEW t, TablesOK(t, height), Sums(t), NEW c, ChainOK(c), Sold(t, c), t.pending # 0,
           NEW l, l.ev = "NavCheckpoint", ChainOK(l.after), FollowsSales(c, l, l.after),
           FollowsNav(c, l, l.after),
           NEW u, SettlesSale(t, l.after.nav, u), u.issued = t.issued, u.listed = t.listed
    PROVE  Sums(u) /\ Sold(u, l.after)
<1> DEFINE d == l.after
           k == t.pending
           p == t.purchases[k]
           g == Gained(t, d.nav)
           y == [p EXCEPT !.after = d.nav, !.gain = g]
<1>0. /\ c.sales \in Seq(Sale) /\ d.sales \in Seq(Sale) /\ t.purchases \in Seq(Purchase)
      /\ DOMAIN d.sales = DOMAIN c.sales /\ d.nav = d.live /\ d.nav # 0 /\ d.nav \in Levels
      /\ \A i \in DOMAIN c.sales :
             /\ d.sales[i].before = c.sales[i].before
             /\ d.sales[i].after = IF c.sales[i].after = 0 THEN d.live ELSE c.sales[i].after
      /\ k \in 1 .. Len(t.purchases) /\ t.pendingSupply \in Nat
  BY DEF ChainOK, TablesOK, FollowsSales, FollowsNav
<1>1. p \in Purchase
  BY <1>0
<1>2. g \in Int
  <2>1. p.before \in Int /\ d.nav \in Int /\ t.pendingSupply \in Int
    <3>1. p.before \in Levels
      BY <1>1 DEF Purchase
    <3> QED
      BY <1>0, <3>1, Numbers
  <2>2. \A a, b, e \in Int : (a - b) * e \in Int
    OBVIOUS
  <2> QED
    BY <2>1, <2>2 DEF Gained
<1>3. /\ u.purchases = [t.purchases EXCEPT ![k] = y] /\ u.pending = 0
      /\ u.gain = IF t.listed THEN t.gain + g ELSE t.gain
      /\ \/ u.epochs = t.epochs
         \/ /\ t.epochStart \in DOMAIN t.epochs
            /\ u.epochs = Credit(t.epochs, t.epochStart, g)
      /\ u.days = Credit(t.days, p.day, g)
      /\ u.flywheel = Upsert(t.flywheel, Day, Row(t.flywheel, Day, 0) + g)
  BY Zenon DEF SettlesSale
<1> HIDE DEF d, g
<1>4. /\ y.before = p.before /\ y.day = p.day /\ y.after = d.nav /\ y.gain = g
  BY <1>1 DEF Purchase
<1>5. /\ p.after = 0 /\ p.gain = 0 /\ p.day \in DOMAIN t.days /\ t.listed
  <2>1. t.purchases # <<>>
    BY <1>0
  <2> QED
    BY <1>0, <2>1 DEF Sold
<1> HIDE DEF y, p
<1>6. /\ Len(u.purchases) = Len(t.purchases) /\ DOMAIN u.purchases = DOMAIN t.purchases
      /\ DOMAIN t.purchases = 1 .. Len(t.purchases) /\ Len(t.purchases) \in Nat
      /\ u.purchases[k] = y /\ \A i \in 1 .. Len(t.purchases) : i # k => u.purchases[i] = t.purchases[i]
  BY <1>0, <1>3
<1>7. Gains(u.purchases) = Gains(t.purchases) + g /\ Gains(t.purchases) \in Int
  <2>1. IsFiniteSet(DOMAIN t.purchases)
    BY <1>6, FS_Interval
  <2>2. \A i \in DOMAIN t.purchases : t.purchases[i].gain \in Int
    <3>1. \A i \in DOMAIN t.purchases : t.purchases[i] \in Purchase
      BY <1>0, <1>6
    <3> QED
      BY <3>1 DEF Purchase
  <2>3. \A i : i \in DOMAIN u.purchases <=> i \in DOMAIN t.purchases \/ i = k
    BY <1>0, <1>6
  <2>4. k \in DOMAIN t.purchases /\ t.purchases[k].gain = 0
    BY <1>0, <1>5, <1>6 DEF p
  <2>5. u.purchases[k].gain = t.purchases[k].gain + g
    BY <1>2, <1>4, <1>6, <2>4
  <2>6. \A i \in DOMAIN t.purchases : i # k => u.purchases[i].gain = t.purchases[i].gain
    BY <1>6
  <2> HIDE DEF k
  <2>7. /\ k \in DOMAIN t.purchases => u.purchases[k].gain = t.purchases[k].gain + g
        /\ k \notin DOMAIN t.purchases => u.purchases[k].gain = g
    BY ONLY <2>4, <2>5
  <2> DEFINE f == t.purchases
             h == u.purchases
  <2>8. /\ IsFiniteSet(DOMAIN f) /\ g \in Int /\ \A x \in DOMAIN f : f[x].gain \in Int
        /\ \A x : x \in DOMAIN h <=> x \in DOMAIN f \/ x = k
        /\ \A x \in DOMAIN f : x # k => h[x].gain = f[x].gain
        /\ k \in DOMAIN f => h[k].gain = f[k].gain + g
        /\ k \notin DOMAIN f => h[k].gain = g
    BY ONLY <1>2, <2>1, <2>2, <2>3, <2>6, <2>7
  <2> HIDE DEF f, h
  <2>9. Gains(h) = Gains(f) + g /\ Gains(f) \in Int
    BY ONLY <2>8, GainsGrow
  <2> QED
    BY ONLY <2>9 DEF f, h
<1>8. /\ Ledger(t.days) /\ Ledger(t.epochs) /\ IsFiniteSet(DOMAIN t.flywheel)
      /\ t.flywheel \in [DOMAIN t.flywheel -> Int]
      /\ Gains(t.purchases) = t.gain /\ Gains(t.days) = t.gain /\ Total(t.flywheel) = t.gain
      /\ Issued(t.epochs) = t.issued /\ Issued(t.days) = t.issued
  BY DEF Sums
<1>9. /\ Ledger(u.days) /\ DOMAIN u.days = DOMAIN t.days
      /\ Gains(u.days) = Gains(t.days) + g /\ Issued(u.days) = Issued(t.days)
  BY <1>2, <1>3, <1>5, <1>8, CreditAdds
<1>10. Ledger(u.epochs) /\ Issued(u.epochs) = Issued(t.epochs)
  <2>1. CASE u.epochs = t.epochs
    BY <1>8, <2>1
  <2>2. CASE t.epochStart \in DOMAIN t.epochs /\ u.epochs = Credit(t.epochs, t.epochStart, g)
    BY <1>2, <1>8, <2>2, CreditAdds
  <2> QED
    BY <1>3, <2>1, <2>2
<1>11. /\ IsFiniteSet(DOMAIN u.flywheel) /\ u.flywheel \in [DOMAIN u.flywheel -> Int]
       /\ Total(u.flywheel) = Total(t.flywheel) + g
  BY <1>2, <1>3, <1>8, UpsertAdds
<1>12. u.gain = t.gain + g
  BY <1>3, <1>5
<1>13. Sums(u)
  BY <1>7, <1>8, <1>9, <1>10, <1>11, <1>12 DEF Sums
<1>14. Sold(u, d)
  <2>1. Len(u.purchases) = Len(d.sales) /\ DOMAIN c.sales = 1 .. Len(c.sales)
        /\ Len(c.sales) = Len(t.purchases)
    BY <1>0, <1>6 DEF Sold
  <2>2. ASSUME NEW i \in 1 .. Len(u.purchases)
        PROVE  /\ u.purchases[i].before = d.sales[i].before
               /\ u.purchases[i].after = d.sales[i].after
               /\ u.purchases[i].after # 0 /\ i # 0
               /\ u.purchases[i].day \in DOMAIN u.days
    <3>0. /\ i \in 1 .. Len(t.purchases) /\ i \in DOMAIN c.sales /\ i # 0
          /\ t.purchases[i].before = c.sales[i].before
          /\ t.purchases[i].after = c.sales[i].after
          /\ t.purchases[i].after = 0 <=> i = k
          /\ t.purchases[i].day \in DOMAIN t.days
      BY <1>6, <2>1 DEF Sold
    <3>1. CASE i = k
      BY <1>0, <1>4, <1>5, <1>6, <1>9, <3>0, <3>1 DEF p
    <3>2. CASE i # k
      BY <1>0, <1>6, <1>9, <3>0, <3>2
    <3> QED
      BY <3>1, <3>2
  <2>3. u.listed
    BY <1>5
  <2> QED
    BY <1>3, <2>1, <2>2, <2>3 DEF Sold
<1> QED
  BY <1>13, <1>14 DEF d

\* A sale is booked.
LEMMA SalesBooked ==
    ASSUME NEW t, TablesOK(t, height), Sums(t), NEW c, ChainOK(c), Sold(t, c), t.nav = c.nav,
           NEW l, l.ev = "Bond", l.n \in Nat, ChainOK(l.after), FollowsSales(c, l, l.after),
           NEW u, BooksSale(t, l.n, u), u.issued = t.issued + l.n, u.listed
    PROVE  Sums(u) /\ Sold(u, l.after)
<1> DEFINE d == l.after
           n == l.n
           k == Len(t.purchases) + 1
           x == [day |-> Day, before |-> t.nav, after |-> 0, gain |-> 0]
           y == [before |-> c.nav, after |-> 0]
<1>0. /\ c.sales \in Seq(Sale) /\ d.sales \in Seq(Sale) /\ t.purchases \in Seq(Purchase)
      /\ Settling(c) /\ d.sales = Append(c.sales, y) /\ n \in Int
  BY DEF ChainOK, TablesOK, FollowsSales
<1>1. /\ u.purchases = Append(t.purchases, x) /\ u.pending = k
      /\ u.gain = t.gain /\ u.flywheel = t.flywheel
      /\ u.epochs = Bump(t.epochs, t.epochStart, n)
      /\ u.days = Bump(t.days, Day, n)
  BY Zenon DEF BooksSale
<1>2. x.day = Day /\ x.before = t.nav /\ x.after = 0 /\ x.gain = 0
  OBVIOUS
<1>3. y.before = c.nav /\ y.after = 0
  OBVIOUS
<1> HIDE DEF d, x, y, n
<1>4. /\ Len(u.purchases) = k /\ Len(t.purchases) \in Nat
      /\ DOMAIN u.purchases = 1 .. k /\ DOMAIN t.purchases = 1 .. Len(t.purchases)
      /\ u.purchases[k] = x /\ \A i \in 1 .. Len(t.purchases) : u.purchases[i] = t.purchases[i]
  BY <1>0, <1>1
<1>5. /\ Len(c.sales) = Len(t.purchases) /\ Len(d.sales) = k /\ d.sales[k] = y
      /\ \A i \in 1 .. Len(t.purchases) : d.sales[i] = c.sales[i] /\ c.sales[i].after # 0
  BY <1>0, <1>4 DEF Sold, Settling
<1>6. Gains(u.purchases) = Gains(t.purchases)
  <2>1. IsFiniteSet(DOMAIN t.purchases)
    BY <1>4, FS_Interval
  <2>2. \A i \in DOMAIN t.purchases : t.purchases[i].gain \in Int
    <3>1. \A i \in DOMAIN t.purchases : t.purchases[i] \in Purchase
      BY <1>0, <1>4
    <3> QED
      BY <3>1 DEF Purchase
  <2>3. \A i : i \in DOMAIN u.purchases <=> i \in DOMAIN t.purchases \/ i = k
    BY <1>4
  <2>4. k \notin DOMAIN t.purchases /\ u.purchases[k].gain = 0
    BY <1>2, <1>4
  <2>5. \A i \in DOMAIN t.purchases : u.purchases[i].gain = t.purchases[i].gain
    BY <1>4
  <2> HIDE DEF k
  <2> QED
    BY ONLY <2>1, <2>2, <2>3, <2>4, <2>5, GainsStand
<1>8. /\ Ledger(t.days) /\ Ledger(t.epochs) /\ IsFiniteSet(DOMAIN t.flywheel)
      /\ t.flywheel \in [DOMAIN t.flywheel -> Int]
      /\ Gains(t.purchases) = t.gain /\ Gains(t.days) = t.gain /\ Total(t.flywheel) = t.gain
      /\ Issued(t.epochs) = t.issued /\ Issued(t.days) = t.issued
  BY DEF Sums
<1>9. /\ Ledger(u.days) /\ \A j : j \in DOMAIN u.days <=> j \in DOMAIN t.days \/ j = Day
      /\ Issued(u.days) = Issued(t.days) + n /\ Gains(u.days) = Gains(t.days)
  BY <1>0, <1>1, <1>8, BumpAdds
<1>10. Ledger(u.epochs) /\ Issued(u.epochs) = Issued(t.epochs) + n
  BY <1>0, <1>1, <1>8, BumpAdds
<1>11. u.issued = t.issued + n
  BY DEF n
<1>12. Sums(u)
  BY <1>1, <1>6, <1>8, <1>9, <1>10, <1>11 DEF Sums
<1>13. Sold(u, d)
  <2>1. ASSUME NEW i \in 1 .. k
        PROVE  /\ u.purchases[i].before = d.sales[i].before
               /\ u.purchases[i].after = d.sales[i].after
               /\ u.purchases[i].after = 0 <=> i = k
               /\ u.purchases[i].after = 0 => u.purchases[i].gain = 0
               /\ u.purchases[i].day \in DOMAIN u.days
    <3>1. CASE i = k
      BY <1>2, <1>3, <1>4, <1>5, <1>9, <3>1
    <3>2. CASE i # k
      <4>1. i \in 1 .. Len(t.purchases)
        BY <1>4, <3>2
      <4>2. /\ t.purchases[i].before = c.sales[i].before
            /\ t.purchases[i].after = c.sales[i].after
            /\ t.purchases[i].day \in DOMAIN t.days
        BY <4>1 DEF Sold
      <4> QED
        BY <1>4, <1>5, <1>9, <3>2, <4>1, <4>2
    <3> QED
      BY <3>1, <3>2
  <2> QED
    BY <1>1, <1>4, <1>5, <2>1 DEF Sold
<1> QED
  BY <1>12, <1>13 DEF d


(* As TablesInv, for the sums.                                             *)
SalesInv ==
    /\ Sums(tables) /\ Sold(tables, After(at))
    /\ Sums(base.tables) /\ Sold(base.tables, base.chain)

LEMMA HandlersTally ==
    ASSUME IndexerInv, SalesInv, Handlers
    PROVE  SalesInv'
<1> DEFINE t == tables
           u == tables'
           l == Log
           c == After(at)
<1>1. /\ Handling /\ at' = at + 1 /\ base' = base /\ block' = block
      /\ ChainInv /\ Shape /\ TablesInv /\ TablesOK(t, height) /\ Books(t, c)
  BY HandlersHandle DEF chainVars, IndexerInv, TablesInv
<1>2. Follows(c, l, at + 1, height) /\ ChainOK(c) /\ After(at + 1) = l.after
  BY <1>1, LogHere
<1>3. DOMAIN t = TableFields /\ t.listed \in BOOLEAN
  BY <1>1 DEF TablesOK
<1>4. Folds(t, l, u) /\ FoldsSales(t, l, u)
  BY <1>3, HandlersFold, HandlersSell
<1>5. Sums(t) /\ Sold(t, c)
  BY DEF SalesInv
<1>6. Books(u, l.after)
  BY <1>1, <1>2, <1>4, BooksFollow
<1>7. /\ ChainOK(l.after) /\ FollowsSales(c, l, l.after) /\ FollowsNav(c, l, l.after)
      /\ FollowsIssue(c, l, l.after) /\ l.n \in Nat
  BY <1>2 DEF Follows
<1>8. /\ l.ev # "Bond" => u.issued = t.issued
      /\ l.ev = "Bond" => u.issued = t.issued + l.n /\ u.listed /\ t.listed
      /\ t.listed => u.listed
      /\ l.ev # "CollateralAdded" => u.listed = t.listed
      /\ t.nav = c.nav
  BY <1>1, <1>4, <1>7 DEF Folds, FoldsIssue, Books, FollowsIssue
<1> HIDE DEF t, u, l, c
<1>9. ASSUME l.ev \notin {"NavCheckpoint", "Bond"}
      PROVE  Sums(u) /\ Sold(u, l.after)
  <2>1. KeepsSales(t, u) /\ l.after.sales = c.sales
    BY <1>4, <1>7, <1>9 DEF FoldsSales, FollowsSales
  <2>2. u.issued = t.issued
    BY <1>8, <1>9
  <2> QED
    BY <1>5, <1>8, <2>1, <2>2, SalesKept
<1>10. ASSUME l.ev = "NavCheckpoint" /\ t.pending = 0
       PROVE  Sums(u) /\ Sold(u, l.after)
  <2>1. KeepsSales(t, u)
    BY <1>4, <1>10, Zenon DEF FoldsSales
  <2>2. u.issued = t.issued
    BY <1>8, <1>10
  <2> QED
    BY <1>1, <1>2, <1>5, <1>7, <1>8, <1>10, <2>1, <2>2, SalesSettledBefore
<1>11. ASSUME l.ev = "NavCheckpoint" /\ t.pending # 0
       PROVE  Sums(u) /\ Sold(u, l.after)
  <2>1. SettlesSale(t, l.after.nav, u)
    BY <1>4, <1>11, Zenon DEF FoldsSales
  <2>2. u.issued = t.issued /\ u.listed = t.listed
    BY <1>8, <1>11
  <2> QED
    BY <1>1, <1>2, <1>5, <1>7, <1>11, <2>1, <2>2, SalesSettled
<1>12. ASSUME l.ev = "Bond"
       PROVE  Sums(u) /\ Sold(u, l.after)
  <2>1. BooksSale(t, l.n, u)
    BY <1>4, <1>12, Zenon DEF FoldsSales
  <2> QED
    BY <1>1, <1>2, <1>5, <1>7, <1>8, <1>12, <2>1, SalesBooked
<1>13. Sums(u) /\ Sold(u, l.after)
  BY <1>9, <1>10, <1>11, <1>12
<1>14. After(at)' = l.after
  <2>1. After(at)' = After(at + 1)
    BY <1>1 DEF After
  <2> QED
    BY <1>2, <2>1
<1> QED
  BY <1>1, <1>5, <1>13, <1>14 DEF SalesInv, u

\* A step that leaves the ledgers alone.
LEMMA TallyRests ==
    ASSUME NEW t, Sums(t), NEW c, Sold(t, c), NEW u, Same(t, u), NEW d, d.sales = c.sales
    PROVE  Sums(u) /\ Sold(u, d)
<1>1. KeepsSales(t, u) /\ u.issued = t.issued /\ (t.listed => u.listed)
  BY SameIs DEF KeepsSales
<1> QED
  BY <1>1, SalesKept

LEMMA SalesStep ==
    ASSUME IndexerInv, SalesInv, [Next]_vars
    PROVE  SalesInv'
<1>0. ChainInv /\ Shape /\ TablesInv /\ TablesOK(tables, height) /\ DOMAIN tables = TableFields
  BY DEF IndexerInv, TablesInv, TablesOK
<1>1. CASE \/ GenesisMint \/ GenesisPlace \/ CheckpointTx \/ BondTx \/ ClaimTx \/ RedeemTx
           \/ CompoundTx \/ MarketTx \/ Converge \/ Emit
  <2>1. at = 0 /\ UNCHANGED <<at, base, tables>>
    BY <1>0, <1>1 DEF GenesisMint, GenesisPlace, CheckpointTx, BondTx, ClaimTx, RedeemTx, CompoundTx,
                MarketTx, Transact, Run, Between, Converge, Emit, Shape
  <2>2. After(at)' = After(at)
    BY <2>1 DEF After
  <2> QED
    BY <2>1, <2>2 DEF SalesInv
<1>2. CASE Seal \/ OnBondFails \/ UNCHANGED vars
  <2>1. UNCHANGED <<block, at, base, tables>>
    BY <1>2 DEF Seal, OnBondFails, Between, vars, chainVars
  <2>2. After(at)' = After(at)
    BY <2>1 DEF After
  <2> QED
    BY <2>1, <2>2 DEF SalesInv
<1>3. CASE Handlers
  BY <1>3, HandlersTally
<1>4. CASE Poll
  <2>1. UNCHANGED <<block, at, base>> /\ (tables' = tables \/ tables' = Reconciled(tables))
    BY <1>4 DEF Poll, ReconcileWith, chainVars
  <2>2. Same(tables, tables) /\ Same(tables, Reconciled(tables))
    BY <1>0, ComparedIs
  <2>3. Same(tables, tables')
    BY <2>1, <2>2, Zenon
  <2>4. After(at)' = After(at)
    BY <2>1 DEF After
  <2>5. Sums(tables') /\ Sold(tables', After(at))
    BY <2>3, TallyRests DEF SalesInv
  <2> QED
    BY <2>1, <2>4, <2>5 DEF SalesInv
<1>5. CASE Close
  <2>1. /\ at' = 0 /\ at = Len(block) /\ tables' = [tables EXCEPT !.reconciled = FALSE]
        /\ base'.chain = chain /\ base'.tables = tables'
    BY <1>5 DEF Close
  <2>2. Same(tables, tables')
    BY <1>0, <2>1 DEF Same, TableFields
  <2>3. chain.sales = After(at).sales
    BY <1>0, <2>1, LevelIs DEF ChainInv
  <2>4. Sums(tables') /\ Sold(tables', chain)
    BY <2>2, <2>3, TallyRests DEF SalesInv
  <2>5. After(at)' = chain
    BY <2>1 DEF After
  <2> QED
    BY <2>1, <2>4, <2>5 DEF SalesInv
<1>6. CASE Restart \/ Reorg
  <2>1. tables' = base.tables /\ at' = 0 /\ base' = base
    BY <1>6 DEF Restart, Reorg, RollBack
  <2>2. After(at)' = base.chain
    BY <2>1 DEF After
  <2> QED
    BY <2>1, <2>2 DEF SalesInv
<1> QED
  BY <1>1, <1>2, <1>3, <1>4, <1>5, <1>6 DEF Next, Mine, Index, Handlers

LEMMA SalesInit ==
    ASSUME Init
    PROVE  SalesInv
<1> DEFINE t == EmptyTables
           e == <<>>
           none == [k \in {} |-> 0]
<1>1. tables = t /\ base.tables = t /\ base.chain = Unborn /\ at = 0
  BY DEF Init
<1>2. /\ t.days = e /\ t.epochs = e /\ t.flywheel = e /\ t.purchases = e
      /\ t.gain = 0 /\ t.issued = 0 /\ Unborn.sales = e
  BY DEF EmptyTables, Unborn
<1>3. /\ DOMAIN e = {} /\ Len(e) = 0 /\ \A i \in 1 .. Len(e) : FALSE
      /\ \A S : e \in [DOMAIN e -> S]
  OBVIOUS
<1>4. IsFiniteSet({}) /\ \A f : DOMAIN f = {} => Total(f) = 0
  BY FS_EmptySet, SumEmpty DEF Total
<1>5. Gains(e) = 0 /\ Issued(e) = 0 /\ Total(e) = 0
  <2>1. \A f : DOMAIN f = {} => DOMAIN [k \in DOMAIN f |-> f[k].gain] = {}
                             /\ DOMAIN [k \in DOMAIN f |-> f[k].issued] = {}
    OBVIOUS
  <2> QED
    BY <1>3, <1>4, <2>1, Zenon DEF Gains, Issued
<1>6. Ledger(e)
  BY <1>3, <1>4, Zenon DEF Ledger
<1> HIDE DEF t, e
<1>7. Sums(t)
  BY <1>2, <1>3, <1>4, <1>5, <1>6, Zenon DEF Sums
<1>8. Sold(t, Unborn)
  <2>1. Len(t.purchases) = Len(Unborn.sales) /\ \A i \in 1 .. Len(t.purchases) : FALSE
    BY <1>2, <1>3, Zenon
  <2>2. t.purchases = <<>>
    BY <1>2 DEF e
  <2> QED
    BY <2>1, <2>2, Zenon DEF Sold
<1>9. After(at) = Unborn
  BY <1>1 DEF After
<1> QED
  BY <1>1, <1>7, <1>8, <1>9 DEF SalesInv

LEMMA SalesInvariant == Spec => [](IndexerInv /\ SalesInv)
<1>1. Init => SalesInv
  BY SalesInit
<1>2. IndexerInv /\ SalesInv /\ [Next]_vars => SalesInv'
  BY SalesStep
<1> QED
  BY <1>1, <1>2, IndexerInvariant, PTL DEF Spec

(* Every sale is settled once, by the first checkpoint after it and no     *)
(* other, and what the market, the days, the flywheel and the epochs book  *)
(* is the sum of the sales (Indexer.TablesAddUp).                          *)
THEOREM LedgersAddUp == Spec => []TablesAddUp
<1>1. IndexerInv /\ SalesInv => TablesAddUp
  <2> SUFFICES ASSUME IndexerInv, SalesInv PROVE TablesAddUp
    OBVIOUS
  <2>1. Seen = After(at)
    BY DEF Seen, After
  <2> DEFINE c == After(at)
             b == tables.purchases
  <2>2. Sums(tables) /\ Sold(tables, c) /\ Books(tables, c) /\ TablesOK(tables, height)
    BY DEF SalesInv, IndexerInv, TablesInv
  <2>3. ChainOK(c)
    <3>1. ChainInv /\ Shape
      BY DEF IndexerInv
    <3>2. CASE at = 0
      BY <3>1, <3>2 DEF After, ChainInv
    <3>3. CASE at # 0
      <4>1. at \in 1 .. Len(block)
        BY <3>1, <3>3 DEF Shape
      <4>2. Follows(After(at - 1), block[at], at, height)
        BY <3>1, <4>1 DEF ChainInv
      <4> QED
        BY <3>3, <4>2 DEF After, Follows
    <3> QED
      BY <3>2, <3>3
  <2>4. b \in Seq(Purchase) /\ c.sales \in Seq(Sale)
    BY <2>2, <2>3 DEF TablesOK, ChainOK
  <2>5. DOMAIN b = 1 .. Len(b) /\ DOMAIN c.sales = 1 .. Len(c.sales)
    BY <2>4
  <2> HIDE DEF c
  <2>6. DOMAIN b = DOMAIN c.sales
    BY <2>2, <2>5 DEF Sold
  <2>7. \A i \in DOMAIN b : /\ b[i].before = c.sales[i].before
                            /\ b[i].after = c.sales[i].after
                            /\ i # tables.pending => b[i].after # 0
    BY <2>2, <2>5 DEF Sold
  <2>8. /\ tables.gain = Gains(b) /\ Gains(tables.days) = Gains(b) /\ Total(tables.flywheel) = Gains(b)
        /\ Issued(tables.epochs) = c.issued /\ Issued(tables.days) = c.issued
    BY <2>2 DEF Sums, Books
  <2>9. Seen = c
    BY <2>1 DEF c
  <2> QED
    BY <2>6, <2>7, <2>8, <2>9 DEF TablesAddUp
<1> QED
  BY <1>1, SalesInvariant, PTL

---------------------------------------------------------------------------
(* The alerts.  What they are about spans several logs of a block: the     *)
(* checkpoints of a compound, and the reference that follows a checkpoint. *)

NavAt(b, c, i) == IF i = 0 THEN c.nav ELSE b[i].after.nav
LastNav(b, j, i) == b[j].ev = "NavCheckpoint" /\ \A k \in j + 1 .. i : b[k].ev # "NavCheckpoint"

(* NAV did not fall at the last checkpoint before the i-th log.            *)
Rose(b, c, i) == \E j \in 1 .. i : LastNav(b, j, i) /\ NavAt(b, c, j - 1) <= NavAt(b, c, j)

(* What a compound has still to do: its second checkpoint is no lower than *)
(* the first.                                                              *)
Twice(s) == \E i, j \in 1 .. Len(s) : i < j /\ Is(s, i, "NavCheckpoint") /\ Is(s, j, "NavCheckpoint")
Rises(s, d) == \A i \in 1 .. Len(s) : s[i].live # 0 => s[i].ev = "Burn" /\ d.live <= s[i].live
Rising(b, c, s, d) ==
    /\ \A i \in 1 .. Len(s) : s[i].ev = "Compound" => i = Len(s)
    /\ Rises(s, d)
    /\ \/ Twice(s)
       \/ Has(s, "NavCheckpoint") /\ d.nav <= d.live
       \/ ~Has(s, "NavCheckpoint") /\ Rose(b, c, Len(b))

Referred(b, s) ==
    \A i \in 1 .. Len(b) : b[i].ev = "NavCheckpoint" =>
        Has(s, "RefCheckpoint") \/ \E j \in i + 1 .. Len(b) : b[j].ev = "RefCheckpoint"
Compounded(b, c) == \A i \in 1 .. Len(b) : b[i].ev = "Compound" => Rose(b, c, i)

Mined(b, c, s, d) ==
    Referred(b, s) /\ Compounded(b, c) /\ (Has(s, "Compound") => Rising(b, c, s, d))

LEMMA Appended ==
    ASSUME NEW S, NEW b \in Seq(S), NEW l
    PROVE  /\ Len(b) \in Nat /\ Len(Append(b, l)) = Len(b) + 1 /\ Append(b, l)[Len(b) + 1] = l
           /\ \A i \in 1 .. Len(b) : Append(b, l)[i] = b[i]
<1>1. b \in Seq(S \cup {l}) /\ l \in S \cup {l}
  OBVIOUS
<1> QED
  BY <1>1

LEMMA RoseGrows ==
    ASSUME NEW S, NEW b \in Seq(S), NEW l, NEW c, NEW i \in 1 .. Len(b), Rose(b, c, i)
    PROVE  Rose(Append(b, l), c, i)
<1> DEFINE d == Append(b, l)
           n == Len(b)
<1>1. n \in Nat /\ \A k \in 1 .. n : d[k] = b[k]
  BY Appended
<1>2. PICK j \in 1 .. i : LastNav(b, j, i) /\ NavAt(b, c, j - 1) <= NavAt(b, c, j)
  BY DEF Rose
<1> HIDE DEF d, n
<1>3. j \in 1 .. n /\ (j - 1 = 0 \/ j - 1 \in 1 .. n) /\ j + 1 .. i \subseteq 1 .. n /\ j # 0
  BY <1>1, <1>2 DEF n
<1>4. NavAt(d, c, j - 1) = NavAt(b, c, j - 1) /\ NavAt(d, c, j) = NavAt(b, c, j)
  BY <1>1, <1>3 DEF NavAt
<1>5. LastNav(d, j, i)
  BY <1>1, <1>2, <1>3 DEF LastNav
<1>6. Rose(d, c, i)
  BY <1>2, <1>4, <1>5 DEF Rose
<1> QED
  BY <1>6 DEF d

LEMMA RoseGoesOn ==
    ASSUME NEW S, NEW b \in Seq(S), NEW l, l.ev # "NavCheckpoint", NEW c, Rose(b, c, Len(b))
    PROVE  Rose(Append(b, l), c, Len(b) + 1)
<1> DEFINE d == Append(b, l)
           n == Len(b)
<1>1. n \in Nat /\ d[n + 1] = l /\ \A k \in 1 .. n : d[k] = b[k]
  BY Appended
<1>2. PICK j \in 1 .. n : LastNav(b, j, n) /\ NavAt(b, c, j - 1) <= NavAt(b, c, j)
  BY DEF Rose
<1> HIDE DEF d, n
<1>3. j \in 1 .. n + 1 /\ (j - 1 = 0 \/ j - 1 \in 1 .. n) /\ j # 0
  BY <1>1, <1>2
<1>4. NavAt(d, c, j - 1) = NavAt(b, c, j - 1) /\ NavAt(d, c, j) = NavAt(b, c, j)
  BY <1>1, <1>2, <1>3 DEF NavAt
<1>5. LastNav(d, j, n + 1)
  <2>1. ASSUME NEW k \in j + 1 .. n + 1 PROVE d[k].ev # "NavCheckpoint"
    <3>1. CASE k = n + 1
      BY <1>1, <3>1
    <3>2. CASE k # n + 1
      <4>1. k \in j + 1 .. n /\ k \in 1 .. n
        BY <1>1, <1>2, <3>2
      <4> QED
        BY <1>1, <1>2, <4>1 DEF LastNav
    <3> QED
      BY <3>1, <3>2
  <2> QED
    BY <1>1, <1>2, <2>1 DEF LastNav
<1>6. Rose(d, c, n + 1)
  BY <1>2, <1>3, <1>4, <1>5 DEF Rose
<1> QED
  BY <1>6 DEF d, n

LEMMA RoseNow ==
    ASSUME NEW S, NEW b \in Seq(S), NEW l, l.ev = "NavCheckpoint", NEW c,
           NavAt(b, c, Len(b)) <= l.after.nav
    PROVE  Rose(Append(b, l), c, Len(b) + 1)
<1> DEFINE d == Append(b, l)
           n == Len(b)
<1>1. n \in Nat /\ d[n + 1] = l /\ \A k \in 1 .. n : d[k] = b[k]
  BY Appended
<1> HIDE DEF d, n
<1>2. NavAt(b, c, n) <= l.after.nav
  BY DEF n
<1>3. n + 1 \in 1 .. n + 1 /\ (n + 1) - 1 = n /\ (n = 0 \/ n \in 1 .. n) /\ n + 1 # 0
      /\ (n + 1) + 1 .. n + 1 = {}
  BY <1>1
<1>4. NavAt(d, c, n) = NavAt(b, c, n) /\ NavAt(d, c, n + 1) = l.after.nav
  BY <1>1, <1>3 DEF NavAt
<1>5. LastNav(d, n + 1, n + 1)
  BY <1>1, <1>3 DEF LastNav
<1>6. Rose(d, c, n + 1)
  BY <1>2, <1>3, <1>4, <1>5 DEF Rose
<1> QED
  BY <1>6 DEF d, n

\* What a compound has left, a step later.
LEMMA TwiceTail ==
    ASSUME NEW s \in Seq(Steps), s # <<>>, Twice(s)
    PROVE  /\ Head(s).ev # "NavCheckpoint" => Twice(Tail(s))
           /\ Has(Tail(s), "NavCheckpoint")
<1> DEFINE r == Tail(s)
<1>1. PICK i, j \in 1 .. Len(s) : i < j /\ Is(s, i, "NavCheckpoint") /\ Is(s, j, "NavCheckpoint")
  BY DEF Twice
<1>2. /\ Len(s) \in Nat /\ Head(s) = s[1]
      /\ \A k \in 1 .. Len(s) : k # 1 => k - 1 \in 1 .. Len(r) /\ r[k - 1] = s[k]
  BY TailIs
<1> HIDE DEF r
<1>3. j # 1 /\ j - 1 \in 1 .. Len(r) /\ r[j - 1] = s[j]
  BY <1>1, <1>2
<1>4. Has(r, "NavCheckpoint")
  BY <1>1, <1>3 DEF Has, Is
<1>5. ASSUME Head(s).ev # "NavCheckpoint" PROVE Twice(r)
  <2>1. i # 1
    BY <1>1, <1>2, <1>5 DEF Is
  <2>2. i - 1 \in 1 .. Len(r) /\ r[i - 1] = s[i] /\ i - 1 < j - 1
    BY <1>1, <1>2, <2>1
  <2> QED
    BY <1>1, <1>3, <2>2 DEF Twice, Is
<1> QED
  BY <1>4, <1>5 DEF r

LEMMA HasTail ==
    ASSUME NEW s \in Seq(Steps), s # <<>>, NEW ev
    PROVE  /\ Has(Tail(s), ev) => Has(s, ev)
           /\ Has(s, ev) /\ Head(s).ev # ev => Has(Tail(s), ev)
<1> DEFINE r == Tail(s)
<1>1. /\ Len(s) \in Nat /\ Head(s) = s[1]
      /\ \A k \in 1 .. Len(r) : r[k] = s[k + 1] /\ k + 1 \in 1 .. Len(s)
      /\ \A k \in 1 .. Len(s) : k # 1 => k - 1 \in 1 .. Len(r) /\ r[k - 1] = s[k]
  BY TailIs
<1> HIDE DEF r
<1>2. Has(r, ev) => Has(s, ev)
  BY <1>1 DEF Has
<1>3. ASSUME Has(s, ev), Head(s).ev # ev PROVE Has(r, ev)
  <2>1. PICK k \in 1 .. Len(s) : s[k].ev = ev
    BY <1>3 DEF Has
  <2>2. k # 1
    BY <1>1, <1>3, <2>1
  <2> QED
    BY <1>1, <2>1, <2>2 DEF Has
<1> QED
  BY <1>2, <1>3 DEF r

LEMMA RisesTail ==
    ASSUME NEW d, ChainOK(d), NEW s, Runs(s, d), s # <<>>, Rises(s, d), NEW e, e.live \in Levels,
           e.live = IF Head(s).live = 0 THEN d.live ELSE Head(s).live
    PROVE  Rises(Tail(s), e) /\ d.live <= e.live
<1> DEFINE r == Tail(s)
           h == Head(s)
<1>0. s \in Seq(Steps)
  BY DEF Runs
<1>1. /\ h \in Steps /\ h = s[1] /\ 1 \in 1 .. Len(s) /\ Len(s) \in Nat /\ Len(r) \in Nat
      /\ \A k \in 1 .. Len(r) : r[k] = s[k + 1] /\ k + 1 \in 1 .. Len(s)
  BY <1>0, TailIs
<1>2. d.live \in Nat /\ e.live \in Nat
  BY Numbers DEF ChainOK
<1>3. h.live # 0 => h.ev = "Burn" /\ d.live <= h.live
  BY <1>1 DEF Rises
<1>4. ASSUME NEW k \in 1 .. Len(r), r[k].live # 0
      PROVE  r[k].ev = "Burn" /\ e.live <= r[k].live
  <2>1. s[k + 1].ev = "Burn" /\ d.live <= s[k + 1].live
    BY <1>1, <1>4 DEF Rises
  <2>2. h.live = 0
    <3>1. SUFFICES ASSUME h.live # 0 PROVE FALSE
      OBVIOUS
    <3>2. s[1].ev = s[k + 1].ev /\ s[1].ev \in Single
      BY <1>1, <1>3, <2>1, <3>1 DEF Single
    <3>3. 1 = k + 1
      BY <1>1, <1>4, <3>2 DEF Runs
    <3> QED
      BY <1>1, <3>3
  <2> QED
    BY <1>1, <1>4, <2>1, <2>2
<1>5. d.live <= e.live
  BY <1>2, <1>3
<1> QED
  BY <1>4, <1>5 DEF Rises

LEMMA RisingTail ==
    ASSUME NEW d, ChainOK(d), NEW s, Runs(s, d), s # <<>>, NEW b, NEW c, Rising(b, c, s, d),
           NEW e, e.live \in Levels, e.live = IF Head(s).live = 0 THEN d.live ELSE Head(s).live,
           e.nav = IF Head(s).ev = "NavCheckpoint" THEN e.live ELSE d.nav,
           NEW f, Head(s).ev = "NavCheckpoint" /\ d.nav <= e.live => Rose(f, c, Len(f)),
           Head(s).ev # "NavCheckpoint" /\ Rose(b, c, Len(b)) => Rose(f, c, Len(f))
    PROVE  Rising(f, c, Tail(s), e)
<1> DEFINE r == Tail(s)
           h == Head(s)
           nav == "NavCheckpoint"
<1>0. s \in Seq(Steps)
  BY DEF Runs
<1>1. /\ Len(r) = Len(s) - 1 /\ Len(s) \in Nat
      /\ \A k \in 1 .. Len(r) : r[k] = s[k + 1] /\ k + 1 \in 1 .. Len(s)
  BY <1>0, TailIs
<1>2. Rises(r, e) /\ d.live <= e.live
  BY RisesTail DEF Rising
<1>3. d.live \in Nat /\ e.live \in Nat /\ d.nav \in Nat
  BY Numbers DEF ChainOK
<1>4. \A k \in 1 .. Len(r) : r[k].ev = "Compound" => k = Len(r)
  <2>1. \A k \in 1 .. Len(s) : s[k].ev = "Compound" => k = Len(s)
    BY DEF Rising
  <2> HIDE DEF r
  <2>2. ASSUME NEW k \in 1 .. Len(r), r[k].ev = "Compound" PROVE k = Len(r)
    <3>1. k + 1 = Len(s)
      BY <1>1, <2>1, <2>2
    <3> QED
      BY <1>1, <3>1
  <2> QED
    BY <2>2
<1>5. h.ev # nav => (Has(r, nav) <=> Has(s, nav))
  BY <1>0, HasTail
<1>6. /\ Twice(s) /\ h.ev # nav => Twice(r)
      /\ Twice(s) => Has(r, nav)
  BY <1>0, TwiceTail
<1>8. CASE h.ev = nav
  <2>1. e.nav = e.live
    BY <1>8
  <2>2. CASE Has(r, nav)
    BY <1>2, <1>3, <1>4, <2>1, <2>2 DEF Rising
  <2>3. CASE ~Has(r, nav)
    <3>1. Has(s, nav)
      BY <1>0, <1>8, TailIs DEF Has
    <3>2. d.nav <= d.live
      BY <1>6, <2>3, <3>1 DEF Rising
    <3>3. d.nav <= e.live
      BY <1>2, <1>3, <3>2
    <3> QED
      BY <1>2, <1>4, <1>8, <2>3, <3>3 DEF Rising
  <2> QED
    BY <2>2, <2>3
<1>9. CASE h.ev # nav
  <2>1. e.nav = d.nav
    BY <1>9
  <2>2. CASE Twice(s)
    BY <1>2, <1>4, <1>6, <1>9, <2>2 DEF Rising
  <2>3. CASE Has(s, nav) /\ d.nav <= d.live
    <3>1. e.nav <= e.live
      BY <1>2, <1>3, <2>1, <2>3
    <3> QED
      BY <1>2, <1>4, <1>5, <1>9, <2>3, <3>1 DEF Rising
  <2>4. CASE ~Has(s, nav) /\ Rose(b, c, Len(b))
    BY <1>2, <1>4, <1>5, <1>9, <2>4 DEF Rising
  <2> QED
    BY <2>2, <2>3, <2>4 DEF Rising
<1> QED
  BY <1>8, <1>9

\* A step without a log.
LEMMA MinesOn ==
    ASSUME NEW d, ChainOK(d), NEW s, Runs(s, d), s # <<>>, Idle(d, Head(s)), NEW b, NEW c,
           Mined(b, c, s, d)
    PROVE  Mined(b, c, Tail(s), d)
<1> DEFINE r == Tail(s)
           h == Head(s)
<1>0. s \in Seq(Steps)
  BY DEF Runs
<1>1. h.ev \in {"BurnQueued", "EpochRolled"}
  BY DEF Idle
<1>2. \A ev : Has(r, ev) => Has(s, ev)
  BY <1>0, HasTail
<1>3. Has(s, "RefCheckpoint") => Has(r, "RefCheckpoint")
  BY <1>0, <1>1, HasTail
<1>4. Referred(b, r)
  BY <1>3 DEF Mined, Referred
<1>5. ASSUME Has(r, "Compound") PROVE Rising(b, c, r, d)
  <2>1. Rising(b, c, s, d)
    BY <1>2, <1>5 DEF Mined
  <2>2. h = s[1] /\ 1 \in 1 .. Len(s)
    BY <1>0, TailIs
  <2>3. h.live = 0
    BY <1>1, <2>1, <2>2 DEF Rising, Rises
  <2>4. d.live \in Levels /\ h.ev # "NavCheckpoint"
    BY <1>1 DEF ChainOK
  <2> QED
    BY <2>1, <2>3, <2>4, RisingTail
<1> QED
  BY <1>4, <1>5 DEF Mined

\* A step with its log.
LEMMA MinesMore ==
    ASSUME NEW d, ChainOK(d), NEW s, Runs(s, d), s # <<>>, NEW S, NEW b \in Seq(S), NEW c,
           Mined(b, c, s, d), NavAt(b, c, Len(b)) = d.nav,
           NEW l, l.ev = IF Head(s).ev = "BurnQueued" THEN "Burn" ELSE Head(s).ev,
           NEW e, e = Effect(d, Head(s)), l.after = e
    PROVE  Mined(Append(b, l), c, Tail(s), e)
<1> DEFINE r == Tail(s)
           h == Head(s)
           f == Append(b, l)
           n == Len(b)
           nav == "NavCheckpoint"
           ref == "RefCheckpoint"
<1>0. /\ s \in Seq(Steps) /\ h = s[1] /\ 1 \in 1 .. Len(s) /\ Len(s) \in Nat /\ h \in Steps
      /\ h.ev = nav => Has(r, ref)
  <2>1. s \in Seq(Steps)
    BY DEF Runs
  <2>2. h.ev = nav => Has(r, ref)
    BY RunsHead
  <2> QED
    BY <2>1, <2>2, TailIs
<1>1. n \in Nat /\ Len(f) = n + 1 /\ f[n + 1] = l /\ \A i \in 1 .. n : f[i] = b[i]
  BY Appended
<1>2. (l.ev = nav <=> h.ev = nav) /\ (l.ev = ref <=> h.ev = ref) /\ (l.ev = "Compound" <=> h.ev = "Compound")
  OBVIOUS
<1>3. /\ e.live = IF h.live = 0 THEN d.live ELSE h.live
      /\ e.nav = IF h.ev = nav THEN e.live ELSE d.nav
      /\ e.live \in Levels
  <2>1. DOMAIN d = Fields /\ d.live \in Levels
    BY DEF ChainOK
  <2>2. h.live \in Levels
    BY <1>0 DEF Steps
  <2> HIDE DEF h
  <2>3. /\ e.live = IF h.live = 0 THEN d.live ELSE h.live
        /\ e.nav = IF h.ev = nav THEN e.live ELSE d.nav
    <3>1. e = Effect(d, h)
      BY DEF h
    <3>2. /\ Effect(d, h).live = IF h.live = 0 THEN d.live ELSE h.live
          /\ Effect(d, h).nav = IF h.ev = nav THEN Effect(d, h).live ELSE d.nav
      BY <2>1, EffectNav
    <3> QED
      BY <3>1, <3>2, Zenon
  <2> QED
    BY <2>1, <2>2, <2>3
<1>4. /\ h.ev = nav /\ d.nav <= e.live => Rose(f, c, n + 1)
      /\ h.ev # nav /\ Rose(b, c, n) => Rose(f, c, n + 1)
  BY <1>2, <1>3, RoseNow, RoseGoesOn
<1>5. \A i \in 1 .. n : Rose(b, c, i) => Rose(f, c, i)
  BY RoseGrows
<1>6. ASSUME NEW i \in 1 .. n + 1, f[i].ev = nav
      PROVE  Has(r, ref) \/ \E j \in i + 1 .. n + 1 : f[j].ev = ref
  <2>1. CASE i = n + 1
    BY <1>0, <1>1, <1>2, <1>6, <2>1
  <2>2. CASE i # n + 1
    <3>1. i \in 1 .. n /\ b[i].ev = nav
      BY <1>1, <1>6, <2>2
    <3>2. CASE \E j \in i + 1 .. n : b[j].ev = ref
      <4>1. PICK j \in i + 1 .. n : b[j].ev = ref
        BY <3>2
      <4>2. j \in i + 1 .. n + 1 /\ f[j].ev = ref
        BY <1>1, <3>1, <4>1
      <4> QED
        BY <4>2
    <3>3. CASE Has(s, ref)
      <4>1. CASE h.ev = ref
        <5>1. n + 1 \in i + 1 .. n + 1 /\ f[n + 1].ev = ref
          BY <1>1, <1>2, <3>1, <4>1
        <5> QED
          BY <5>1
      <4>2. CASE h.ev # ref
        BY <1>0, <3>3, <4>2, HasTail
      <4> QED
        BY <4>1, <4>2
    <3> QED
      BY <3>1, <3>2, <3>3 DEF Mined, Referred
  <2> QED
    BY <2>1, <2>2
<1>7. Referred(f, r)
  BY <1>1, <1>6 DEF Referred
<1>8. ASSUME NEW i \in 1 .. n + 1, f[i].ev = "Compound" PROVE Rose(f, c, i)
  <2>1. CASE i = n + 1
    <3>1. h.ev = "Compound"
      BY <1>1, <1>2, <1>8, <2>1
    <3>2. Has(s, "Compound") /\ Rising(b, c, s, d)
      BY <1>0, <3>1 DEF Mined, Has
    <3>3. Len(s) = 1
      BY <1>0, <3>1, <3>2 DEF Rising
    <3>4. ~Has(s, nav) /\ ~Twice(s)
      BY <1>0, <3>1, <3>3 DEF Has, Twice, Is
    <3>5. Rose(b, c, n)
      BY <3>2, <3>4 DEF Rising
    <3> QED
      BY <1>4, <2>1, <3>1, <3>5
  <2>2. CASE i # n + 1
    BY <1>1, <1>5, <1>8, <2>2 DEF Mined, Compounded
  <2> QED
    BY <2>1, <2>2
<1>9. Compounded(f, c)
  BY <1>1, <1>8 DEF Compounded
<1>10. ASSUME Has(r, "Compound") PROVE Rising(f, c, r, e)
  <2>1. Rising(b, c, s, d)
    BY <1>0, <1>10, HasTail DEF Mined
  <2> QED
    BY <1>1, <1>3, <1>4, <2>1, RisingTail
<1> QED
  BY <1>7, <1>9, <1>10 DEF Mined

MinedInv == Mined(block, base.chain, todo, chain)

\* Only a compound writes its log, and as it starts it has both checkpoints before it.
Plain == {x \in Steps : x.ev # "Compound"}

LEMMA PlainHas ==
    ASSUME NEW s \in Seq(Plain)
    PROVE  ~Has(s, "Compound")
BY DEF Has, Plain

LEMMA PlainSteps ==
    /\ Step("GenesisMinted") \in Plain /\ Step("Genesis") \in Plain /\ Step("CollateralAdded") \in Plain
    /\ Step("EpochRolled") \in Plain /\ Step("BurnQueued") \in Plain /\ Step("NavCheckpoint") \in Plain
    /\ Step("RefCheckpoint") \in Plain
    /\ \A n \in Nat : /\ Sized("RefCheckpoint", n) \in Plain /\ Sized("Burn", n) \in Plain
                      /\ Sized("VestingMinted", n) \in Plain /\ Sized("Redeem", n) \in Plain
BY DEF Step, Sized, Steps, Levels, Events, Plain

LEMMA PlainCheckpoint == Checkpointing \in Seq(Plain)
BY PlainSteps DEF Checkpointing

LEMMA ScriptsRise ==
    ASSUME ChainInv,
           \/ GenesisMint \/ GenesisPlace \/ CheckpointTx \/ BondTx \/ ClaimTx \/ RedeemTx
           \/ CompoundTx \/ MarketTx
    PROVE  todo = <<>> /\ (Has(todo', "Compound") => Rising(block, base.chain, todo', chain))
<1>0. todo = <<>> /\ ChainOK(chain)
  BY DEF GenesisMint, GenesisPlace, CheckpointTx, BondTx, ClaimTx, RedeemTx, CompoundTx, MarketTx,
         Transact, Run, Between, ChainInv
<1>1. CASE GenesisMint
  <2>1. todo' \in Seq(Plain)
    BY <1>1, PlainSteps DEF GenesisMint, Run
  <2> QED
    BY <1>0, <2>1, PlainHas
<1>2. CASE GenesisPlace
  <2>1. PICK n \in Navs : todo' = OpeningScript(n)
    BY <1>2 DEF GenesisPlace, Run, OpeningScript
  <2>2. [Step("NavCheckpoint") EXCEPT !.live = n] \in Plain
    BY DEF Step, Steps, Levels, Events, Plain
  <2>3. (IF P0 < n THEN n ELSE P0) \in Nat
    BY IndexerAssumption
  <2>4. todo' \in Seq(Plain)
    BY <2>1, <2>2, <2>3, PlainSteps DEF OpeningScript
  <2> QED
    BY <1>0, <2>4, PlainHas
<1>3. CASE CheckpointTx
  BY <1>0, <1>3, PlainCheckpoint, PlainHas DEF CheckpointTx, Transact, Run
<1> DEFINE lift == Raised
<1>4. lift \in Levels /\ chain.live <= lift
  <2>1. chain.live \in Levels /\ chain.live \in Nat
    BY <1>0, Numbers DEF ChainOK
  <2> QED
    BY <2>1 DEF Raised, Levels
<1>5. CASE BondTx
  <2>1. PICK payer \in Owners, to \in Owners :
           Transact(<<Step("EpochRolled")>> \o Checkpointing \o
                    <<Sized("VestingMinted", 1),
                      [Sized("Bond", 1) EXCEPT !.who = payer, !.to = to, !.live = Raised]>>)
    BY <1>5 DEF BondTx
  <2> DEFINE a == [Sized("Bond", 1) EXCEPT !.who = payer, !.to = to, !.live = lift]
  <2>2. a \in Plain
    <3> HIDE DEF lift
    <3> QED
      BY <1>4 DEF Sized, Step, Steps, Events, Plain
  <2>3. todo' = <<Step("EpochRolled")>> \o Checkpointing \o <<Sized("VestingMinted", 1), a>>
    BY <2>1 DEF Transact, Run
  <2> HIDE DEF a
  <2>4. /\ <<Step("EpochRolled")>> \in Seq(Plain)
        /\ <<Sized("VestingMinted", 1), a>> \in Seq(Plain)
    BY <2>2, PlainSteps
  <2>5. todo' \in Seq(Plain)
    BY <2>3, <2>4, PlainCheckpoint
  <2> QED
    BY <1>0, <2>5, PlainHas
<1>6. CASE ClaimTx
  <2>1. PICK o \in Owners : \E i \in DOMAIN chain.vests[o] :
           Transact(<<[By("Claim", o) EXCEPT !.id = i - 1, !.n = 1]>>)
    BY <1>6 DEF ClaimTx
  <2>2. PICK i \in DOMAIN chain.vests[o] :
           Transact(<<[By("Claim", o) EXCEPT !.id = i - 1, !.n = 1]>>)
    BY <2>1
  <2>3. i - 1 \in Nat
    <3>1. chain.vests[o] \in Seq(Vest)
      BY <1>0 DEF ChainOK
    <3> QED
      BY <2>2, <3>1
  <2>4. [By("Claim", o) EXCEPT !.id = i - 1, !.n = 1] \in Plain
    BY <2>3 DEF By, Step, Steps, Events, Levels, Plain
  <2>5. todo' \in Seq(Plain)
    BY <2>2, <2>4 DEF Transact, Run
  <2> QED
    BY <1>0, <2>5, PlainHas
<1>7. CASE RedeemTx
  <2>1. PICK n \in {0, 1} : Transact(<<Step("BurnQueued"), Sized("Burn", 1), Sized("Redeem", n)>>)
    BY <1>7 DEF RedeemTx
  <2>2. todo' \in Seq(Plain)
    BY <2>1, PlainSteps DEF Transact, Run
  <2> QED
    BY <1>0, <2>2, PlainHas
<1>8. CASE CompoundTx
  <2>1. PICK works \in BOOLEAN : Transact(CompoundScript(works, lift))
    BY <1>8 DEF CompoundTx, CompoundScript
  <2> DEFINE s == CompoundScript(works, lift)
  <2>2. todo' = s /\ CompoundShape(s, works, lift)
    BY <1>4, <2>1, CompoundIs DEF Transact, Run
  <2> HIDE DEF s, lift
  <2>3. CASE works
    <3>1. /\ Len(s) = 9 /\ s[2].ev = "NavCheckpoint" /\ s[7].ev = "NavCheckpoint"
          /\ s[4].ev = "Burn" /\ s[4].live = lift /\ \A i \in 1 .. 9 : i # 4 => s[i].live = 0
          /\ \A i \in 1 .. 9 : s[i].ev = "Compound" => i = 9
      BY <2>2, <2>3 DEF CompoundShape
    <3>2. Twice(s)
      BY <3>1 DEF Twice, Is
    <3>3. Rises(s, chain)
      BY <1>4, <3>1 DEF Rises
    <3> QED
      BY <1>0, <2>2, <3>1, <3>2, <3>3 DEF Rising
  <2>4. CASE ~works
    <3>1. /\ Len(s) = 7 /\ s[2].ev = "NavCheckpoint" /\ s[5].ev = "NavCheckpoint"
          /\ \A i \in 1 .. 7 : s[i].live = 0
          /\ \A i \in 1 .. 7 : s[i].ev = "Compound" => i = 7
      BY <2>2, <2>4 DEF CompoundShape
    <3>2. Twice(s)
      BY <3>1 DEF Twice, Is
    <3>3. Rises(s, chain)
      BY <3>1 DEF Rises
    <3> QED
      BY <1>0, <2>2, <3>1, <3>2, <3>3 DEF Rising
  <2> QED
    BY <2>3, <2>4
<1>9. CASE MarketTx
  <2>1. PICK v \in Navs : Transact(<<[Step("PriceMoved") EXCEPT !.live = v]>>)
    BY <1>9 DEF MarketTx
  <2>2. [Step("PriceMoved") EXCEPT !.live = v] \in Plain
    BY DEF Step, Steps, Levels, Events, Plain
  <2>3. todo' \in Seq(Plain)
    BY <2>1, <2>2 DEF Transact, Run
  <2> QED
    BY <1>0, <2>3, PlainHas
<1> QED
  BY <1>1, <1>2, <1>3, <1>5, <1>6, <1>7, <1>8, <1>9

LEMMA MinedKept ==
    ASSUME ChainInv, Shape, MinedInv, [Next]_vars
    PROVE  MinedInv'
<1> DEFINE b == block
           c == base.chain
<1>0. /\ Referred(b, todo) /\ Compounded(b, c)
      /\ Has(todo, "Compound") => Rising(b, c, todo, chain)
  BY DEF MinedInv, Mined
<1>1. CASE \/ GenesisMint \/ GenesisPlace \/ CheckpointTx \/ BondTx \/ ClaimTx \/ RedeemTx
           \/ CompoundTx \/ MarketTx
  <2>1. UNCHANGED <<chain, block, base>>
    BY <1>1, ScriptsRun
  <2>2. todo = <<>> /\ (Has(todo', "Compound") => Rising(b, c, todo', chain))
    BY <1>1, ScriptsRise
  <2>3. ~Has(todo, "RefCheckpoint")
    BY <2>2 DEF Has
  <2>4. Referred(b, todo')
    BY <1>0, <2>3 DEF Referred
  <2>5. Mined(b, c, todo', chain)
    BY <1>0, <2>2, <2>4 DEF Mined
  <2> QED
    BY <2>1, <2>5 DEF MinedInv
<1>2. CASE Converge
  <2>1. todo = <<>> /\ UNCHANGED <<todo, block, base>>
    BY <1>2 DEF Converge, Between
  <2>2. ~Has(todo, "Compound")
    BY <2>1 DEF Has
  <2>3. Mined(b, c, todo, chain')
    BY <1>0, <2>2 DEF Mined
  <2> QED
    BY <2>1, <2>3 DEF MinedInv
<1>3. CASE Emit
  <2> DEFINE h == Head(todo)
             l == LogOf(chain, h)
  <2>1. /\ ChainOK(chain) /\ Runs(todo, chain) /\ todo # <<>> /\ todo' = Tail(todo) /\ base' = base
        /\ IF Idle(chain, h) THEN chain' = chain /\ block' = block
           ELSE chain' = Effect(chain, h) /\ block' = Append(block, l)
    BY <1>3 DEF ChainInv, Emit
  <2>2. CASE Idle(chain, h)
    <3>1. Mined(b, c, Tail(todo), chain)
      BY <2>1, <2>2, MinesOn DEF MinedInv
    <3> QED
      BY <2>1, <2>2, <3>1 DEF MinedInv
  <2>3. CASE ~Idle(chain, h)
    <3>1. l.ev = (IF h.ev = "BurnQueued" THEN "Burn" ELSE h.ev) /\ l.after = Effect(chain, h)
      BY DEF LogOf
    <3>2. NavAt(b, c, Len(b)) = chain.nav
      <4>1. Level(After(Len(b)), chain)
        BY DEF ChainInv
      <4>2. After(Len(b)).nav = chain.nav
        BY <4>1, LevelIs
      <4> QED
        BY <4>2 DEF After, NavAt
    <3>3. PICK S : b \in Seq(S)
      BY DEF ChainInv
    <3> HIDE DEF l, h
    <3>4. Mined(Append(b, l), c, Tail(todo), Effect(chain, h))
      BY <2>1, <3>1, <3>2, <3>3, MinesMore DEF MinedInv, h
    <3> QED
      BY <2>1, <2>3, <3>4 DEF MinedInv
  <2> QED
    BY <2>2, <2>3
<1>4. CASE Seal \/ Handlers \/ OnBondFails \/ Poll \/ Restart \/ UNCHANGED vars
  <2>1. UNCHANGED <<chain, todo, block, base>>
    BY <1>4, HandlersHandle DEF Seal, OnBondFails, Poll, Restart, RollBack, vars, chainVars
  <2> QED
    BY <2>1 DEF MinedInv
<1>5. CASE Close \/ Reorg
  <2>1. block' = <<>> /\ todo' = <<>>
    BY <1>5 DEF Close, Reorg, Shape
  <2>2. Len(block') = 0 /\ ~Has(todo', "Compound")
    BY <2>1 DEF Has
  <2>3. Referred(block', todo') /\ Compounded(block', base'.chain)
    BY <2>2 DEF Referred, Compounded
  <2> QED
    BY <2>2, <2>3 DEF MinedInv, Mined
<1> QED
  BY <1>1, <1>2, <1>3, <1>4, <1>5 DEF Next, Mine, Index, Handlers

LEMMA MinedInit ==
    ASSUME Init
    PROVE  MinedInv
<1>1. block = <<>> /\ todo = <<>>
  BY DEF Init
<1>2. Len(block) = 0 /\ ~Has(todo, "Compound")
  BY <1>1 DEF Has
<1> QED
  BY <1>2 DEF MinedInv, Mined, Referred, Compounded

(* The warnings in the tables are those the chain earned, and the handlers *)
(* know NAV before the last checkpoint.                                    *)
Drifts(t) == {<<a.block, a.log>> : a \in {x \in t.alerts : x.kind = "nav-drift"}}
Warned(t, c) == Drifts(t) = c.drifts /\ \A a \in t.alerts : a.kind # "nav-bleed"

WarnInv ==
    /\ Warned(tables, After(at)) /\ Warned(base.tables, base.chain)
    /\ \A j \in 1 .. at : LastNav(block, j, at) =>
           tables.prevNav = NavAt(block, base.chain, j - 1) /\ tables.nav = NavAt(block, base.chain, j)

LEMMA DriftsStand ==
    ASSUME NEW t, NEW u, \A a : a.kind \in {"nav-drift", "nav-bleed"} => (a \in u.alerts <=> a \in t.alerts)
    PROVE  /\ Drifts(u) = Drifts(t)
           /\ (\A a \in t.alerts : a.kind # "nav-bleed") => \A a \in u.alerts : a.kind # "nav-bleed"
<1>1. {x \in u.alerts : x.kind = "nav-drift"} = {x \in t.alerts : x.kind = "nav-drift"}
  OBVIOUS
<1> QED
  BY <1>1 DEF Drifts

LEMMA DriftsGrow ==
    ASSUME NEW t, NEW u, NEW k, u.alerts = t.alerts \cup {Alert("nav-drift", k)}
    PROVE  /\ Drifts(u) = Drifts(t) \cup {<<height, k>>}
           /\ (\A a \in t.alerts : a.kind # "nav-bleed") => \A a \in u.alerts : a.kind # "nav-bleed"
<1> DEFINE n == Alert("nav-drift", k)
<1>1. n.kind = "nav-drift" /\ n.block = height /\ n.log = k
  BY DEF Alert
<1> HIDE DEF n
<1>2. u.alerts = t.alerts \cup {n}
  BY DEF n
<1>3. {x \in u.alerts : x.kind = "nav-drift"} = {x \in t.alerts : x.kind = "nav-drift"} \cup {n}
  BY <1>1, <1>2
<1>4. Drifts(u) = Drifts(t) \cup {<<n.block, n.log>>}
  BY <1>3 DEF Drifts
<1> QED
  BY <1>1, <1>2, <1>4

LEMMA OtherAlerts ==
    \A a : a.kind \in {"nav-drift", "nav-bleed"} =>
        a # Divergence /\ \A k : a # Alert("redeem-gap", k)
BY DEF Divergence, Alert

LEMMA ComparesWarns ==
    ASSUME NEW t, NEW u, Compares(t, u), NEW c, Warned(t, c)
    PROVE  Warned(u, c)
<1>1. \/ u.alerts = t.alerts \/ u.alerts = t.alerts \ {Divergence}
      \/ u.alerts = t.alerts \cup {Divergence}
  BY DEF Compares
<1>2. \A a : a.kind \in {"nav-drift", "nav-bleed"} => (a \in u.alerts <=> a \in t.alerts)
  BY <1>1, OtherAlerts
<1> QED
  BY <1>2, DriftsStand DEF Warned

LEMMA HandlersWarn ==
    ASSUME IndexerInv, MinedInv, WarnInv, Handlers
    PROVE  WarnInv'
<1> DEFINE t == tables
           u == tables'
           l == Log
           c == After(at)
           nav == "NavCheckpoint"
           b == block
           o == base.chain
<1>1. /\ Handling /\ at' = at + 1 /\ base' = base /\ block' = block /\ height' = height
      /\ ChainInv /\ Shape /\ TablesInv /\ TablesOK(t, height) /\ Books(t, c)
  BY HandlersHandle DEF chainVars, IndexerInv, TablesInv
<1>2. Follows(c, l, at + 1, height) /\ ChainOK(c) /\ After(at + 1) = l.after
      /\ at \in Nat /\ at + 1 \in 1 .. Len(block) /\ b[at + 1] = l
  BY <1>1, LogHere DEF Log
<1>3. DOMAIN t = TableFields
  BY <1>1 DEF TablesOK
<1>4. FoldsAlerts(t, l, u) /\ Folds(t, l, u)
  BY <1>3, HandlersAlert, HandlersFold
<1>5. Warned(t, c) /\ Warned(base.tables, o)
      /\ \A j \in 1 .. at : LastNav(b, j, at) =>
             t.prevNav = NavAt(b, o, j - 1) /\ t.nav = NavAt(b, o, j)
  BY DEF WarnInv
<1>6. Books(u, l.after)
  BY <1>1, <1>2, <1>4, BooksFollow
<1>7. /\ t.nav = c.nav /\ u.nav = l.after.nav /\ t.navMoved = c.marked
      /\ NavAt(b, o, at) = c.nav /\ NavAt(b, o, at + 1) = l.after.nav
  BY <1>1, <1>2, <1>6 DEF Books, NavAt, After
<1>8. /\ u.prevNav = IF l.ev = nav THEN t.nav ELSE t.prevNav
      /\ l.ev # nav => l.after.nav = c.nav
      /\ l.ev = nav => l.after.nav = l.after.live
      /\ l.after.drifts = IF l.ev = nav /\ c.nav > l.after.live /\ ~c.marked
                          THEN c.drifts \cup {<<height, at + 1>>} ELSE c.drifts
  BY <1>2, <1>4 DEF Folds, FoldsNav, Follows, FollowsNav, FollowsMark
<1> HIDE DEF t, u, l, c, b, o
<1>9. ASSUME NEW j \in 1 .. at + 1, LastNav(b, j, at + 1)
      PROVE  u.prevNav = NavAt(b, o, j - 1) /\ u.nav = NavAt(b, o, j)
  <2>1. CASE j = at + 1
    <3>1. j - 1 = at /\ l.ev = nav
      BY <1>2, <1>9, <2>1 DEF LastNav
    <3> QED
      BY <1>7, <1>8, <2>1, <3>1
  <2>2. CASE j # at + 1
    <3>1. j \in 1 .. at /\ at + 1 \in j + 1 .. at + 1 /\ j + 1 .. at \subseteq j + 1 .. at + 1
      BY <1>2, <2>2
    <3>2. l.ev # nav /\ LastNav(b, j, at)
      BY <1>2, <1>9, <3>1 DEF LastNav
    <3> QED
      BY <1>5, <1>7, <1>8, <3>1, <3>2
  <2> QED
    BY <2>1, <2>2
<1>10. ASSUME l.ev = nav PROVE Warned(u, l.after)
  <2>1. Drifted(t, l.after.nav) <=> l.ev = nav /\ c.nav > l.after.live /\ ~c.marked
    BY <1>7, <1>8, <1>10 DEF Drifted
  <2>2. Warns(t, u, Drifted(t, l.after.nav), "nav-drift")
    BY <1>4, <1>10 DEF FoldsAlerts
  <2>3. CASE Drifted(t, l.after.nav)
    <3>1. u.alerts = t.alerts \cup {Alert("nav-drift", at + 1)}
      BY <2>2, <2>3, Zenon DEF Warns
    <3>2. l.after.drifts = c.drifts \cup {<<height, at + 1>>}
      BY <1>8, <2>1, <2>3
    <3> QED
      BY <1>5, <3>1, <3>2, DriftsGrow DEF Warned
  <2>4. CASE ~Drifted(t, l.after.nav)
    <3>1. u.alerts = t.alerts
      BY <2>2, <2>4, Zenon DEF Warns
    <3>2. l.after.drifts = c.drifts
      BY <1>8, <2>1, <2>4
    <3> QED
      BY <1>5, <3>1, <3>2, DriftsStand DEF Warned
  <2> QED
    BY <2>3, <2>4
<1>11. ASSUME l.ev = "Compound" PROVE Warned(u, l.after)
  <2>1. Rose(b, o, at + 1)
    BY <1>2, <1>11 DEF MinedInv, Mined, Compounded, b, o
  <2>2. PICK j \in 1 .. at + 1 : LastNav(b, j, at + 1) /\ NavAt(b, o, j - 1) <= NavAt(b, o, j)
    BY <2>1 DEF Rose
  <2>3. j # at + 1
    BY <1>2, <1>11, <2>2 DEF LastNav
  <2>4. j \in 1 .. at /\ j + 1 .. at \subseteq j + 1 .. at + 1
    BY <1>2, <2>2, <2>3
  <2>5. LastNav(b, j, at)
    BY <2>2, <2>4 DEF LastNav
  <2>6. t.prevNav <= t.nav
    BY <1>5, <2>2, <2>4, <2>5
  <2>7. ~(t.nav < t.prevNav)
    <3>1. t.nav \in Nat /\ t.prevNav \in Nat
      BY <1>1, Numbers DEF TablesOK
    <3> QED
      BY <2>6, <3>1
  <2>8. Warns(t, u, t.prevNav > 0 /\ t.nav < t.prevNav, "nav-bleed")
    BY <1>4, <1>11 DEF FoldsAlerts
  <2>9. u.alerts = t.alerts
    BY <2>7, <2>8, Zenon DEF Warns
  <2> QED
    BY <1>5, <1>8, <1>11, <2>9, DriftsStand DEF Warned
<1>12. ASSUME l.ev \notin {nav, "Compound"} PROVE Warned(u, l.after)
  <2>1. l.after.drifts = c.drifts
    BY <1>8, <1>12
  <2>2. \/ Compares(t, u) \/ KeepsAlerts(t, u)
        \/ \E short \in BOOLEAN : Warns(t, u, short, "redeem-gap")
    BY <1>4, <1>12 DEF FoldsAlerts
  <2>3. CASE Compares(t, u)
    <3>1. Warned(u, c)
      BY <1>5, <2>3, ComparesWarns
    <3> QED
      BY <2>1, <3>1 DEF Warned
  <2>4. CASE KeepsAlerts(t, u)
    BY <1>5, <2>1, <2>4, DriftsStand DEF Warned, KeepsAlerts
  <2>5. CASE \E short \in BOOLEAN : Warns(t, u, short, "redeem-gap")
    <3>1. u.alerts = t.alerts \/ u.alerts = t.alerts \cup {Alert("redeem-gap", at + 1)}
      BY <2>5 DEF Warns
    <3>2. \A a : a.kind \in {"nav-drift", "nav-bleed"} => (a \in u.alerts <=> a \in t.alerts)
      BY <3>1, OtherAlerts
    <3> QED
      BY <1>5, <2>1, <3>2, DriftsStand DEF Warned
  <2> QED
    BY <2>2, <2>3, <2>4, <2>5
<1>13. Warned(u, l.after)
  BY <1>10, <1>11, <1>12
<1>14. After(at)' = l.after
  <2>1. After(at)' = After(at + 1)
    BY <1>1 DEF After
  <2> QED
    BY <1>2, <2>1
<1>15. Warned(tables', After(at)')
  BY <1>13, <1>14 DEF u
<1> QED
  BY <1>1, <1>5, <1>9, <1>15 DEF WarnInv, u, b, o

LEMMA WarnKept ==
    ASSUME IndexerInv, MinedInv, WarnInv, [Next]_vars
    PROVE  WarnInv'
<1> DEFINE o == base.chain
<1>0. /\ ChainInv /\ Shape /\ TablesInv /\ DOMAIN tables = TableFields
      /\ Warned(tables, After(at)) /\ Warned(base.tables, o)
      /\ \A j \in 1 .. at : LastNav(block, j, at) =>
             tables.prevNav = NavAt(block, o, j - 1) /\ tables.nav = NavAt(block, o, j)
  BY DEF IndexerInv, TablesInv, TablesOK, WarnInv
<1>1. CASE \/ GenesisMint \/ GenesisPlace \/ CheckpointTx \/ BondTx \/ ClaimTx \/ RedeemTx
           \/ CompoundTx \/ MarketTx \/ Converge \/ Emit
  <2>1. at = 0 /\ UNCHANGED <<at, base, tables>>
    BY <1>0, <1>1 DEF GenesisMint, GenesisPlace, CheckpointTx, BondTx, ClaimTx, RedeemTx, CompoundTx,
                MarketTx, Transact, Run, Between, Converge, Emit, Shape
  <2>2. After(at)' = After(at)
    BY <2>1 DEF After
  <2>3. \A j \in 1 .. at' : FALSE
    BY <2>1
  <2> QED
    BY <1>0, <2>1, <2>2, <2>3 DEF WarnInv
<1>2. CASE Seal \/ OnBondFails \/ UNCHANGED vars
  <2>1. UNCHANGED <<block, at, base, tables>>
    BY <1>2 DEF Seal, OnBondFails, Between, vars, chainVars
  <2>2. After(at)' = After(at)
    BY <2>1 DEF After
  <2> QED
    BY <1>0, <2>1, <2>2 DEF WarnInv
<1>3. CASE Handlers
  BY <1>3, HandlersWarn
<1>4. CASE Poll
  <2>1. UNCHANGED <<block, at, base>> /\ ReconcileWith(tables)
    BY <1>4 DEF Poll, chainVars
  <2>2. Compares(tables, tables')
    BY <1>0, <2>1, ComparedCompares
  <2>3. tables'.prevNav = tables.prevNav /\ tables'.nav = tables.nav
    <3>1. Same(tables, tables) /\ Same(tables, Reconciled(tables))
      BY <1>0, ComparedIs
    <3>2. tables' = tables \/ tables' = Reconciled(tables)
      BY <2>1 DEF ReconcileWith
    <3>3. Same(tables, tables')
      BY <3>1, <3>2, Zenon
    <3> QED
      BY <3>3, SameIs
  <2>4. After(at)' = After(at)
    BY <2>1 DEF After
  <2>5. Warned(tables', After(at))
    BY <1>0, <2>2, ComparesWarns
  <2> QED
    BY <1>0, <2>1, <2>3, <2>4, <2>5 DEF WarnInv
<1>5. CASE Close
  <2>1. /\ at' = 0 /\ at = Len(block) /\ tables' = [tables EXCEPT !.reconciled = FALSE]
        /\ base'.chain = chain /\ base'.tables = tables'
    BY <1>5 DEF Close
  <2>2. tables'.alerts = tables.alerts
    BY <1>0, <2>1 DEF TableFields
  <2>3. chain.drifts = After(at).drifts
    BY <1>0, <2>1, LevelIs DEF ChainInv
  <2>4. Warned(tables', chain)
    BY <1>0, <2>2, <2>3, DriftsStand DEF Warned
  <2>5. After(at)' = chain
    BY <2>1 DEF After
  <2>6. \A j \in 1 .. at' : FALSE
    BY <2>1
  <2> QED
    BY <2>1, <2>4, <2>5, <2>6 DEF WarnInv
<1>6. CASE Restart \/ Reorg
  <2>1. tables' = base.tables /\ at' = 0 /\ base' = base
    BY <1>6 DEF Restart, Reorg, RollBack
  <2>2. After(at)' = o
    BY <2>1 DEF After
  <2>3. \A j \in 1 .. at' : FALSE
    BY <2>1
  <2> QED
    BY <1>0, <2>1, <2>2, <2>3 DEF WarnInv
<1> QED
  BY <1>1, <1>2, <1>3, <1>4, <1>5, <1>6 DEF Next, Mine, Index, Handlers

LEMMA WarnInit ==
    ASSUME Init
    PROVE  WarnInv
<1> DEFINE t == EmptyTables
<1>1. tables = t /\ base.tables = t /\ base.chain = Unborn /\ at = 0
  BY DEF Init
<1>2. t.alerts = {} /\ Unborn.drifts = {}
  BY DEF EmptyTables, Unborn
<1> HIDE DEF t
<1>3. Warned(t, Unborn)
  BY <1>2 DEF Warned, Drifts
<1>4. After(at) = Unborn /\ \A j \in 1 .. at : FALSE
  BY <1>1 DEF After
<1> QED
  BY <1>1, <1>3, <1>4 DEF WarnInv

LEMMA WarnInvariant == Spec => [](IndexerInv /\ MinedInv /\ WarnInv)
<1>1. Init => MinedInv /\ WarnInv
  BY MinedInit, WarnInit
<1>2. IndexerInv /\ MinedInv /\ [Next]_vars => MinedInv'
  BY MinedKept DEF IndexerInv
<1>3. IndexerInv /\ MinedInv /\ WarnInv /\ [Next]_vars => WarnInv'
  BY WarnKept
<1> QED
  BY <1>1, <1>2, <1>3, IndexerInvariant, PTL DEF Spec

(* A drift warning is raised for exactly the checkpoints whose fall no log *)
(* explains, and a compound is never said to have bled, however the        *)
(* transactions are packed and whatever is replayed                        *)
(* (Indexer.WarningsAreEarned).                                            *)
THEOREM WarningsEarned == Spec => []WarningsAreEarned
<1>1. WarnInv => WarningsAreEarned
  <2> SUFFICES ASSUME WarnInv PROVE WarningsAreEarned
    OBVIOUS
  <2>1. Seen = After(at)
    BY DEF Seen, After
  <2>2. Warned(tables, After(at))
    BY DEF WarnInv
  <2>3. {a \in tables.alerts : a.kind = "nav-bleed"} = {}
    BY <2>2 DEF Warned
  <2> QED
    BY <2>1, <2>2, <2>3 DEF Warned, Drifts, WarningsAreEarned
<1> QED
  BY <1>1, WarnInvariant, PTL

(* A disagreement stands in the middle of a block only while a later log   *)
(* of the block will have the comparison run again.                        *)
Reruns == {"RefCheckpoint", "Burn", "VestingMinted"}
RunsAgain(i) == \E j \in i + 1 .. Len(block) : block[j].ev \in Reruns

Excused(a) == a.block < height /\ a.block \in unread
AlertsInv ==
    /\ \A a \in base.tables.alerts : a.kind = "reconciliation" => Excused(a)
    /\ \A a \in tables.alerts : a.kind = "reconciliation" => Excused(a) \/ a = Divergence
    /\ Divergence \in tables.alerts /\ height \notin unread =>
           tables.reconciled /\ tables.nav # 0 /\ tables.pRef # 0 /\ RunsAgain(at)

\* With no such log left, what is compared is what it will be at the end of the block.
LEMMA Steady ==
    ASSUME ChainInv, MinedInv, todo = <<>>, NEW i \in 1 .. Len(block), ~RunsAgain(i)
    PROVE  /\ After(i).nav = chain.nav /\ After(i).pRef = chain.pRef
           /\ After(i).supply = chain.supply
<1> DEFINE n == Len(block)
           b == block
           nav == "NavCheckpoint"
           Still(k) == /\ After(k).launch # None
                       /\ After(k).nav = After(i).nav /\ After(k).pRef = After(i).pRef
                       /\ After(k).supply = After(i).supply
           G == {m \in Nat : i + m <= n => Still(i + m)}
<1>1. n \in Nat /\ i \in Nat /\ i # 0
  BY DEF ChainInv
<1>2. \A k \in 1 .. n : Follows(After(k - 1), b[k], k, height) /\ After(k) = b[k].after
  BY DEF ChainInv, After
<1>3. \A j \in i + 1 .. n : b[j].ev \notin Reruns
  BY DEF RunsAgain
<1>4. \A j \in i + 1 .. n : b[j].ev # nav
  <2>1. ~Has(todo, "RefCheckpoint")
    BY DEF Has
  <2>2. ASSUME NEW j \in i + 1 .. n, b[j].ev = nav PROVE FALSE
    <3>1. j \in 1 .. n /\ j + 1 .. n \subseteq i + 1 .. n
      BY <1>1
    <3>2. PICK k \in j + 1 .. n : b[k].ev = "RefCheckpoint"
      BY <2>1, <2>2, <3>1 DEF MinedInv, Mined, Referred
    <3> QED
      BY <1>3, <3>1, <3>2 DEF Reruns
  <2> QED
    BY <2>2
<1>5. Still(i)
  BY <1>2 DEF Follows, FollowsSupply
<1>6. ASSUME NEW k \in i + 1 .. n, Still(k - 1) PROVE Still(k)
  <2>1. k \in 1 .. n
    BY <1>1
  <2>2. /\ FollowsSupply(After(k - 1), b[k], After(k)) /\ FollowsNav(After(k - 1), b[k], After(k))
    BY <1>2, <2>1 DEF Follows
  <2>3. b[k].ev \notin {nav, "RefCheckpoint", "Burn", "VestingMinted", "GenesisMinted"}
    BY <1>3, <1>4, <1>6, <2>2 DEF FollowsSupply, Reruns
  <2>4. After(k).launch # None /\ After(k).supply = After(k - 1).supply
    BY <2>2, <2>3 DEF FollowsSupply
  <2>5. After(k).nav = After(k - 1).nav /\ After(k).pRef = After(k - 1).pRef
    BY <2>2, <2>3 DEF FollowsNav
  <2> QED
    BY <1>6, <2>4, <2>5
<1> HIDE DEF Still, n
<1>7. 0 \in G
  BY <1>1, <1>5
<1>8. ASSUME NEW m \in Nat, m \in G PROVE m + 1 \in G
  <2>1. SUFFICES ASSUME i + (m + 1) <= n PROVE Still(i + (m + 1))
    OBVIOUS
  <2>2. i + (m + 1) \in i + 1 .. n /\ (i + (m + 1)) - 1 = i + m /\ i + m <= n
    BY <1>1, <2>1
  <2>3. Still((i + (m + 1)) - 1)
    BY <1>8, <2>2
  <2> QED
    BY <1>6, <2>2, <2>3
<1>9. n - i \in G /\ n - i \in Nat /\ i + (n - i) = n
  <2>1. n - i \in Nat /\ i + (n - i) = n
    BY <1>1 DEF n
  <2>2. \A m \in Nat : m \in G
    <3> HIDE DEF G
    <3> QED
      BY <1>7, <1>8, Counting
  <2> QED
    BY <2>1, <2>2
<1>10. Still(n)
  BY <1>1, <1>9
<1>11. Level(After(n), chain)
  BY DEF ChainInv, n
<1> QED
  BY <1>10, <1>11, LevelIs DEF Still

\* Only a comparison adds such an alert, and only the one of this block.
LEMMA NotDivergence ==
    /\ Divergence.kind = "reconciliation" /\ Divergence.block = height
    /\ \A kind \in {"nav-drift", "nav-bleed", "redeem-gap"} : \A k :
           Alert(kind, k).kind # "reconciliation" /\ Alert(kind, k) # Divergence
BY DEF Divergence, Alert

LEMMA RaisedHere ==
    ASSUME NEW t, NEW u,
           \/ Compares(t, u) \/ KeepsAlerts(t, u)
           \/ \E warned \in BOOLEAN, kind \in {"nav-drift", "nav-bleed", "redeem-gap"} :
                  Warns(t, u, warned, kind)
    PROVE  /\ \A a \in u.alerts : a.kind = "reconciliation" => a \in t.alerts \/ a = Divergence
           /\ unread' = unread \/ unread' = unread \cup {height}
<1>1. CASE Compares(t, u)
  <2>1. \/ u.alerts = t.alerts \/ u.alerts = t.alerts \ {Divergence}
        \/ u.alerts = t.alerts \cup {Divergence}
    BY <1>1 DEF Compares
  <2> QED
    BY <1>1, <2>1 DEF Compares
<1>2. CASE KeepsAlerts(t, u)
  BY <1>2 DEF KeepsAlerts
<1>3. ASSUME NEW warned \in BOOLEAN, NEW kind \in {"nav-drift", "nav-bleed", "redeem-gap"},
             Warns(t, u, warned, kind)
      PROVE  /\ \A a \in u.alerts : a.kind = "reconciliation" => a \in t.alerts
             /\ unread' = unread
  <2>1. u.alerts = t.alerts \/ u.alerts = t.alerts \cup {Alert(kind, at + 1)}
    BY <1>3 DEF Warns
  <2> QED
    BY <1>3, <2>1, NotDivergence DEF Warns
<1> QED
  BY <1>1, <1>2, <1>3

LEMMA HandlersExcuse ==
    ASSUME IndexerInv, MinedInv, AlertsInv, Handlers
    PROVE  AlertsInv'
<1> DEFINE t == tables
           u == tables'
           l == Log
           c == After(at)
           d == l.after
<1>1. /\ Handling /\ at' = at + 1 /\ base' = base /\ block' = block /\ height' = height
      /\ phase' = phase
      /\ ChainInv /\ Shape /\ TablesInv /\ TablesOK(t, height) /\ Books(t, c)
  BY HandlersHandle DEF chainVars, IndexerInv, TablesInv
<1>2. Follows(c, l, at + 1, height) /\ ChainOK(c) /\ After(at + 1) = d
      /\ at \in Nat /\ at + 1 \in 1 .. Len(block)
  BY <1>1, LogHere
<1>3. DOMAIN t = TableFields
  BY <1>1 DEF TablesOK
<1>4. FoldsAlerts(t, l, u) /\ Folds(t, l, u)
  BY <1>3, HandlersAlert, HandlersFold
<1>5. Books(u, d)
  BY <1>1, <1>2, <1>4, BooksFollow
<1>6. /\ \A a \in base.tables.alerts : a.kind = "reconciliation" => Excused(a)
      /\ \A a \in t.alerts : a.kind = "reconciliation" => Excused(a) \/ a = Divergence
      /\ Divergence \in t.alerts /\ height \notin unread =>
             t.reconciled /\ t.nav # 0 /\ t.pRef # 0 /\ RunsAgain(at)
  BY DEF AlertsInv
<1>7. \/ Compares(t, u) \/ KeepsAlerts(t, u)
      \/ \E warned \in BOOLEAN, kind \in {"nav-drift", "nav-bleed", "redeem-gap"} :
             Warns(t, u, warned, kind)
  <2>1. CASE l.ev = "NavCheckpoint"
    <3>1. Warns(t, u, Drifted(t, l.after.nav), "nav-drift")
      BY <1>4, <2>1 DEF FoldsAlerts
    <3>2. Drifted(t, l.after.nav) \in BOOLEAN
      BY DEF Drifted
    <3> HIDE DEF t, u, l
    <3> QED
      BY <3>1, <3>2
  <2>2. CASE l.ev = "Compound"
    <3>1. Warns(t, u, t.prevNav > 0 /\ t.nav < t.prevNav, "nav-bleed")
      BY <1>4, <2>2 DEF FoldsAlerts
    <3>2. (t.prevNav > 0 /\ t.nav < t.prevNav) \in BOOLEAN
      OBVIOUS
    <3> HIDE DEF t, u, l
    <3> QED
      BY <3>1, <3>2
  <2>3. CASE l.ev = "Redeem"
    BY <1>4, <2>3 DEF FoldsAlerts
  <2>4. CASE l.ev \notin {"NavCheckpoint", "Compound", "Redeem"}
    BY <1>4, <2>4 DEF FoldsAlerts
  <2> QED
    BY <2>1, <2>2, <2>3, <2>4
<1>8. /\ \A a \in u.alerts : a.kind = "reconciliation" => a \in t.alerts \/ a = Divergence
      /\ unread' = unread \/ unread' = unread \cup {height}
  <2> HIDE DEF t, u, l
  <2> QED
    BY <1>7, RaisedHere
<1>9. Divergence' = Divergence /\ \A a : Excused(a) => Excused(a)'
  BY <1>1, <1>8 DEF Divergence, Alert, Excused
<1>10. u.nav = d.nav /\ u.pRef = d.pRef /\ u.supplyEvented = d.supply
       /\ t.nav = c.nav /\ t.pRef = c.pRef
  BY <1>1, <1>5 DEF Books
<1>11. (t.nav # 0 => u.nav # 0) /\ (t.pRef # 0 => u.pRef # 0)
  BY <1>2, <1>10 DEF Follows, FollowsNav
<1>12. ASSUME Divergence \in u.alerts, height \notin unread'
       PROVE  u.reconciled /\ u.nav # 0 /\ u.pRef # 0 /\ RunsAgain(at + 1)
  <2>1. CASE Compares(t, u)
    <3>1. /\ u.alerts = IF u.nav = 0 \/ u.pRef = 0 THEN t.alerts
                        ELSE IF Agrees(u) THEN t.alerts \ {Divergence} ELSE t.alerts \cup {Divergence}
          /\ u.reconciled = IF u.nav = 0 \/ u.pRef = 0 THEN t.reconciled ELSE TRUE
          /\ unread' = unread
      <4> HIDE DEF t, u
      <4> QED
        BY <1>12, <2>1, Zenon DEF Compares
    <3>2. u.nav # 0 /\ u.pRef # 0
      <4>1. SUFFICES ASSUME u.nav = 0 \/ u.pRef = 0 PROVE FALSE
        OBVIOUS
      <4>2. Divergence \in t.alerts
        BY <1>12, <3>1, <4>1
      <4> QED
        BY <1>6, <1>11, <1>12, <3>1, <4>1, <4>2
    <3>3. ~Agrees(u) /\ u.reconciled = TRUE
      BY <1>12, <3>1, <3>2
    <3>4. RunsAgain(at + 1)
      <4>1. SUFFICES ASSUME ~RunsAgain(at + 1) PROVE FALSE
        OBVIOUS
      <4>2. todo = <<>>
        BY <1>1 DEF Handling, Shape
      <4>3. d.nav = chain.nav /\ d.pRef = chain.pRef /\ d.supply = chain.supply
        BY <1>1, <1>2, <4>1, <4>2, Steady
      <4> HIDE DEF u, d
      <4> QED
        BY <1>10, <3>3, <4>3 DEF Agrees
    <3> QED
      BY <3>2, <3>3, <3>4
  <2>2. CASE ~Compares(t, u)
    <3>1. /\ u.reconciled = t.reconciled /\ unread' = unread /\ Divergence \in t.alerts
      <4>1. CASE KeepsAlerts(t, u)
        BY <1>12, <4>1 DEF KeepsAlerts
      <4>2. ASSUME NEW warned \in BOOLEAN,
                   NEW kind \in {"nav-drift", "nav-bleed", "redeem-gap"},
                   Warns(t, u, warned, kind)
            PROVE  u.reconciled = t.reconciled /\ unread' = unread /\ Divergence \in t.alerts
        <5>1. u.alerts = t.alerts \/ u.alerts = t.alerts \cup {Alert(kind, at + 1)}
          BY <4>2 DEF Warns
        <5> QED
          BY <1>12, <4>2, <5>1, NotDivergence DEF Warns
      <4> QED
        BY <1>7, <2>2, <4>1, <4>2
    <3>2. t.reconciled /\ t.nav # 0 /\ t.pRef # 0 /\ RunsAgain(at)
      BY <1>6, <1>12, <3>1
    <3>3. l.ev \notin Reruns
      BY <1>4, <2>2, <3>2 DEF FoldsAlerts, Reruns
    <3>4. RunsAgain(at + 1)
      <4>1. PICK j \in at + 1 .. Len(block) : block[j].ev \in Reruns
        BY <3>2 DEF RunsAgain
      <4>2. j # at + 1
        BY <3>3, <4>1 DEF Log
      <4>3. j \in (at + 1) + 1 .. Len(block)
        BY <1>2, <4>1, <4>2
      <4> QED
        BY <4>1, <4>3 DEF RunsAgain
    <3> QED
      BY <1>11, <3>1, <3>2, <3>4
  <2> QED
    BY <2>1, <2>2
<1>13. RunsAgain(at + 1) => RunsAgain(at)'
  BY <1>1 DEF RunsAgain
<1>14. \A a \in base'.tables.alerts : a.kind = "reconciliation" => Excused(a)'
  BY <1>1, <1>6, <1>9
<1>15. \A a \in tables'.alerts : a.kind = "reconciliation" => Excused(a)' \/ a = Divergence'
  BY <1>6, <1>8, <1>9
<1>16. Divergence' \in tables'.alerts /\ height' \notin unread' =>
           tables'.reconciled /\ tables'.nav # 0 /\ tables'.pRef # 0 /\ RunsAgain(at)'
  BY <1>1, <1>9, <1>12, <1>13
<1> QED
  BY <1>14, <1>15, <1>16 DEF AlertsInv

LEMMA PollExcuses ==
    ASSUME IndexerInv, AlertsInv, Poll
    PROVE  AlertsInv'
<1> DEFINE t == tables
           u == tables'
           c == After(at)
<1>1. /\ at = Len(block) /\ at' = at /\ base' = base /\ block' = block /\ height' = height
      /\ ChainInv /\ Shape /\ TablesInv /\ TablesInv' /\ TablesOK(t, height)
      /\ ReconcileWith(t)
  BY PollBooks DEF Poll, chainVars, IndexerInv, TablesInv
<1>2. Compares(t, u)
  <2>1. DOMAIN t = TableFields
    BY <1>1 DEF TablesOK
  <2> QED
    BY <1>1, <2>1, ComparedCompares
<1>3. Books(t, c) /\ Books(u, c)
  <2>1. After(at)' = c
    BY <1>1 DEF After
  <2> QED
    BY <1>1, <2>1 DEF TablesInv
<1>4. Agrees(u)
  <2>1. Level(c, chain)
    BY <1>1 DEF ChainInv
  <2>2. c.nav = chain.nav /\ c.pRef = chain.pRef /\ c.supply = chain.supply
    BY <2>1, LevelIs
  <2> HIDE DEF u, c
  <2> QED
    BY <1>3, <2>2 DEF Books, Agrees
<1>5. /\ \A a \in base.tables.alerts : a.kind = "reconciliation" => Excused(a)
      /\ \A a \in t.alerts : a.kind = "reconciliation" => Excused(a) \/ a = Divergence
      /\ Divergence \in t.alerts /\ height \notin unread => t.nav # 0 /\ t.pRef # 0
  BY DEF AlertsInv
<1> HIDE DEF t, u, c
<1>6. /\ \A a \in u.alerts : a.kind = "reconciliation" => a \in t.alerts \/ a = Divergence
      /\ unread' = unread \/ unread' = unread \cup {height}
  BY <1>2, RaisedHere
<1>7. Divergence' = Divergence /\ \A a : Excused(a) => Excused(a)'
  BY <1>1, <1>6 DEF Divergence, Alert, Excused
<1>8. ~(Divergence \in u.alerts /\ height \notin unread')
  <2>1. SUFFICES ASSUME Divergence \in u.alerts, height \notin unread' PROVE FALSE
    OBVIOUS
  <2>2. /\ u.alerts = IF u.nav = 0 \/ u.pRef = 0 THEN t.alerts ELSE t.alerts \ {Divergence}
        /\ unread' = unread
    BY <1>2, <1>4, <2>1 DEF Compares
  <2>3. Divergence \in t.alerts /\ (u.nav = 0 \/ u.pRef = 0)
    BY <2>1, <2>2
  <2>4. t.nav # 0 /\ t.pRef # 0
    BY <1>5, <2>1, <2>2, <2>3
  <2> QED
    BY <1>3, <2>3, <2>4 DEF Books
<1>9. \A a \in base'.tables.alerts : a.kind = "reconciliation" => Excused(a)'
  BY <1>1, <1>5, <1>7
<1>10. \A a \in tables'.alerts : a.kind = "reconciliation" => Excused(a)' \/ a = Divergence'
  BY <1>5, <1>6, <1>7 DEF u
<1>11. ~(Divergence' \in tables'.alerts /\ height' \notin unread')
  BY <1>1, <1>7, <1>8 DEF u
<1> QED
  BY <1>9, <1>10, <1>11 DEF AlertsInv

LEMMA CloseExcuses ==
    ASSUME IndexerInv, AlertsInv, Close
    PROVE  AlertsInv'
<1>1. /\ height' = height + 1 /\ at = Len(block) /\ tables' = [tables EXCEPT !.reconciled = FALSE]
      /\ base'.tables = tables' /\ unread' = unread /\ height \in Nat
      /\ DOMAIN tables = TableFields /\ Len(block) \in Nat
  BY DEF Close, IndexerInv, Shape, TablesInv, TablesOK, ChainInv
<1>2. tables'.alerts = tables.alerts
  BY <1>1 DEF TableFields
<1>3. ~RunsAgain(at)
  BY <1>1 DEF RunsAgain
<1>4. ASSUME NEW a \in tables.alerts, a.kind = "reconciliation"
      PROVE  a.block < height + 1 /\ a.block \in unread
  <2>1. Excused(a) \/ a = Divergence
    BY <1>4 DEF AlertsInv
  <2>2. CASE Excused(a)
    <3>1. a.block \in Nat
      BY <1>4 DEF IndexerInv, TablesInv, TablesOK
    <3> QED
      BY <1>1, <2>2, <3>1 DEF Excused
  <2>3. CASE a = Divergence
    <3>1. height \in unread
      BY <1>3, <1>4, <2>3 DEF AlertsInv
    <3> QED
      BY <1>1, <2>3, <3>1, NotDivergence
  <2> QED
    BY <2>1, <2>2, <2>3
<1>5. \A a \in tables'.alerts : a.kind = "reconciliation" => Excused(a)'
  BY <1>1, <1>2, <1>4 DEF Excused
<1>6. Divergence' \notin tables'.alerts
  <2>1. Divergence'.kind = "reconciliation" /\ Divergence'.block = height'
    BY DEF Divergence, Alert
  <2>2. ~(height' < height')
    BY <1>1
  <2> QED
    BY <1>5, <2>1, <2>2 DEF Excused
<1> QED
  BY <1>1, <1>5, <1>6 DEF AlertsInv

\* At the block boundary no such alert is this block's.
LEMMA BoundaryClear ==
    ASSUME AlertsInv, Shape
    PROVE  Divergence \notin base.tables.alerts
<1>1. ~(height < height)
  BY DEF Shape
<1> QED
  BY <1>1, NotDivergence DEF AlertsInv, Excused

LEMMA AlertsKept ==
    ASSUME IndexerInv, MinedInv, AlertsInv, [Next]_vars
    PROVE  AlertsInv'
<1>0. /\ Shape /\ TablesInv /\ Divergence \notin base.tables.alerts
      /\ \A a \in base.tables.alerts : a.kind = "reconciliation" => Excused(a)
  BY BoundaryClear DEF IndexerInv, AlertsInv
<1>1. CASE \/ GenesisMint \/ GenesisPlace \/ CheckpointTx \/ BondTx \/ ClaimTx \/ RedeemTx
           \/ CompoundTx \/ MarketTx \/ Converge \/ Emit
  <2>1. phase = "mining" /\ UNCHANGED <<base, tables, height, unread>>
    BY <1>0, <1>1 DEF GenesisMint, GenesisPlace, CheckpointTx, BondTx, ClaimTx, RedeemTx, CompoundTx,
                MarketTx, Transact, Run, Between, Converge, Emit, Shape
  <2>2. tables = base.tables
    BY <1>0, <2>1 DEF TablesInv
  <2>3. Divergence' = Divergence /\ \A a : Excused(a) => Excused(a)'
    BY <2>1 DEF Divergence, Alert, Excused
  <2> QED
    BY <1>0, <2>1, <2>2, <2>3 DEF AlertsInv
<1>2. CASE Seal \/ OnBondFails \/ UNCHANGED vars
  <2>1. UNCHANGED <<block, at, base, tables, height, unread>>
    BY <1>2 DEF Seal, OnBondFails, vars, chainVars
  <2> QED
    BY <2>1 DEF AlertsInv, Excused, RunsAgain, Divergence, Alert
<1>3. CASE Handlers
  BY <1>3, HandlersExcuse
<1>4. CASE Poll
  BY <1>4, PollExcuses
<1>5. CASE Close
  BY <1>5, CloseExcuses
<1>6. CASE Restart \/ Reorg
  <2>1. /\ tables' = base.tables /\ base' = base /\ height' = height
        /\ unread' = unread \ {height}
    BY <1>6 DEF Restart, Reorg, RollBack, chainVars
  <2>2. ~(height < height)
    BY <1>0 DEF Shape
  <2>3. Divergence' = Divergence /\ \A a : Excused(a) => Excused(a)'
    BY <2>1, <2>2 DEF Divergence, Alert, Excused
  <2> QED
    BY <1>0, <2>1, <2>3 DEF AlertsInv
<1> QED
  BY <1>1, <1>2, <1>3, <1>4, <1>5, <1>6 DEF Next, Mine, Index, Handlers

LEMMA AlertsInit ==
    ASSUME Init
    PROVE  AlertsInv
<1> DEFINE t == EmptyTables
<1>1. tables = t /\ base.tables = t
  BY DEF Init
<1>2. t.alerts = {}
  BY DEF EmptyTables
<1> HIDE DEF t
<1> QED
  BY <1>1, <1>2 DEF AlertsInv

(* A block that is through has no reconciliation alert unless a read       *)
(* failed in it: a comparison in the middle of a block that finds the      *)
(* chain elsewhere is run again once the logs that took it there are       *)
(* handled (Indexer.AlertsStandForDisagreement).                           *)
THEOREM DisagreementsAreReal == Spec => []AlertsStandForDisagreement
<1>1. Init => AlertsInv
  BY AlertsInit
<1>2. IndexerInv /\ MinedInv /\ AlertsInv /\ [Next]_vars => AlertsInv'
  BY AlertsKept
<1>3. IndexerInv /\ AlertsInv => AlertsStandForDisagreement
  <2> SUFFICES ASSUME IndexerInv, AlertsInv,
                      NEW a \in tables.alerts, a.kind = "reconciliation", Through(a.block)
               PROVE  a.block \in unread
    BY DEF AlertsStandForDisagreement
  <2>1. Excused(a) \/ a = Divergence
    BY DEF AlertsInv
  <2>2. CASE a = Divergence
    <3>1. a.block = height /\ ~(height < height) /\ Len(block) \in Nat
      BY <2>2, NotDivergence DEF IndexerInv, Shape, ChainInv
    <3>2. at = Len(block)
      BY <3>1 DEF Through
    <3>3. ~RunsAgain(at)
      BY <3>1, <3>2 DEF RunsAgain
    <3> QED
      BY <2>2, <3>1, <3>3 DEF AlertsInv
  <2> QED
    BY <2>1, <2>2 DEF Excused
<1> QED
  BY <1>1, <1>2, <1>3, WarnInvariant, PTL DEF Spec
=============================================================================
