---------------------------- MODULE OracleProofs ----------------------------
(***************************************************************************)
(* What the protocol is told, for every parameter and any number of steps.  *)
(* Bond prices, over every series of rounds, policy and amount: a bond      *)
(* never issues below the accretion floor, and never lowers the NAV per     *)
(* share at the aggregator's own answer.  The gate, for every number of     *)
(* pools and every band: its watchdog trips on missing blocks only, also    *)
(* across the wrap of the block number; its breaker remembers the first     *)
(* poke outside the bound; and the vault's doors nest.                      *)
(***************************************************************************)
EXTENDS BondPricing, OracleGate, TLAPS

---------------------------------------------------------------------------
(* Arithmetic.                                                              *)

(* Integer division rounds down, by less than one.                          *)
LEMMA DivisionFloors ==
    ASSUME NEW a \in Nat, NEW b \in Nat, b > 0
    PROVE  a \div b \in Nat /\ b * (a \div b) <= a /\ a < b * (a \div b) + b
BY Z3

LEMMA ProductMonotone ==
    ASSUME NEW a \in Nat, NEW b \in Nat, NEW c \in Nat, b <= c
    PROVE  a * b <= a * c
BY Z3

LEMMA ProductCancels ==
    ASSUME NEW a \in Nat, NEW b \in Int, NEW c \in Int, a > 0, a * b <= a * c
    PROVE  b <= c
BY Z3

LEMMA ProductIsNat ==
    ASSUME NEW a \in Nat, NEW b \in Nat
    PROVE  a * b \in Nat
BY Z3

(* A bound on a product is a bound on the quotient.                         *)
LEMMA QuotientAtLeast ==
    ASSUME NEW n \in Nat, NEW b \in Nat, b > 0, NEW a \in Nat, n * b <= a
    PROVE  n <= a \div b
<1> DEFINE q == a \div b
<1>1. q \in Nat /\ a < b * q + b
  BY DivisionFloors
<1> HIDE DEF q
<1>2. b * n < b * (q + 1)
  BY <1>1, Z3
<1>3. n < q + 1
  <2> SUFFICES ASSUME q + 1 <= n PROVE FALSE
    BY <1>1
  <2>1. b * (q + 1) <= b * n
    BY <1>1, ProductMonotone
  <2>2. b * n \in Nat /\ b * (q + 1) \in Nat
    BY <1>1, ProductIsNat
  <2> QED BY <2>1, <2>2, <1>2
<1> QED BY <1>1, <1>3 DEF q

(* Rounding up: the quotient covers the dividend.                           *)
LEMMA CeilingCovers ==
    ASSUME NEW a \in Nat, NEW b \in Nat, b > 0
    PROVE  CeilDiv(a, b) \in Nat /\ a <= b * CeilDiv(a, b)
<1>1. a + b - 1 \in Nat
  OBVIOUS
<1>2. CeilDiv(a, b) \in Nat /\ a + b - 1 < b * CeilDiv(a, b) + b
  BY <1>1, DivisionFloors DEF CeilDiv
<1>3. b * CeilDiv(a, b) \in Nat
  BY <1>2, ProductIsNat
<1> QED BY <1>2, <1>3

(* What the floor says: at any quote up to it the shares issued, at the NAV *)
(* and the accretion, are worth no more than the deposit after the haircut. *)
LEMMA FloorBoundsIssue ==
    ASSUME NEW p \in Nat, NEW n \in Nat, NEW h \in Nat, NEW amount \in Nat,
           NEW q \in Nat, n > 0, q <= Floor(p, n, h),
           NEW out, out = (amount * q) \div W, out > 0
    PROVE  /\ out \in Nat /\ h < BPS
           /\ out * n * (BPS + MinAccretion) <= amount * p * (BPS - h)
<1> USE FeedAssumption, PricingAssumption
<1>0. amount * q \in Nat /\ W \in Nat /\ W > 0 /\ BPS \in Nat /\ BPS > 0
  BY ProductIsNat
<1>1. out \in Nat /\ W * out <= amount * q
  BY <1>0, DivisionFloors
<1>2. h < BPS
  <2> SUFFICES ASSUME h >= BPS PROVE FALSE
    OBVIOUS
  <2>1. q = 0
    BY DEF Floor
  <2>2. W * out <= 0 /\ out >= 1
    BY <2>1, <1>1
  <2>3. W * out > 0
    BY <2>2, <1>0, <1>1, Z3
  <2> QED BY <2>2, <2>3, <1>0, <1>1
<1> DEFINE k == BPS - h
           m == BPS + MinAccretion
           u == (p * k) \div BPS
           d == CeilDiv(n * m, BPS)
           f == (u * W) \div d
<1>3. k \in Nat /\ m \in Nat /\ m > 0 /\ p * k \in Nat /\ n * m \in Nat /\ n * m > 0
  <2>1. k \in Nat /\ m \in Nat /\ m > 0
    BY <1>2
  <2> HIDE DEF k, m
  <2> QED BY <2>1, Z3
<1>4. u \in Nat /\ BPS * u <= p * k
  BY <1>0, <1>3, DivisionFloors
<1>5. d \in Nat /\ n * m <= BPS * d
  BY <1>0, <1>3, CeilingCovers
<1>f. Floor(p, n, h) = f
  BY <1>2 DEF Floor
<1> HIDE DEF k, m, u, d, f
<1>6. d > 0
  <2> SUFFICES ASSUME d = 0 PROVE FALSE
    BY <1>5
  <2>1. BPS * d = 0
    BY <1>0
  <2> QED BY <2>1, <1>5, <1>3
<1>7. f \in Nat /\ d * f <= u * W
  <2>1. u * W \in Nat
    BY <1>0, <1>4, ProductIsNat
  <2> QED BY <2>1, <1>5, <1>6, DivisionFloors DEF f
<1>8. q <= f
  BY <1>f
<1>9. W * (out * (n * m)) <= W * (amount * (p * k))
  <2>1. out * (n * m) <= out * (BPS * d)
    BY <1>0, <1>1, <1>3, <1>5, ProductMonotone, ProductIsNat
  <2>2. W * (out * (n * m)) <= W * (out * (BPS * d))
    BY <2>1, <1>0, <1>1, <1>3, <1>5, ProductMonotone, ProductIsNat
  <2>3. W * (out * (BPS * d)) = (BPS * d) * (W * out)
    BY <1>0, <1>1, <1>5, Z3
  <2>4. (BPS * d) * (W * out) <= (BPS * d) * (amount * q)
    BY <1>0, <1>1, <1>5, ProductMonotone, ProductIsNat
  <2>5. (BPS * d) * (amount * q) = (BPS * amount) * (d * q)
    BY <1>0, <1>5, Z3
  <2>6. d * q <= d * f
    BY <1>5, <1>7, <1>8, ProductMonotone
  <2>7. d * q <= u * W
    BY <2>6, <1>0, <1>4, <1>5, <1>7, ProductIsNat
  <2>8. (BPS * amount) * (d * q) <= (BPS * amount) * (u * W)
    BY <2>7, <1>0, <1>4, <1>5, ProductMonotone, ProductIsNat
  <2>9. (BPS * amount) * (u * W) = (W * amount) * (BPS * u)
    BY <1>0, <1>4, Z3
  <2>10. (W * amount) * (BPS * u) <= (W * amount) * (p * k)
    BY <1>0, <1>3, <1>4, ProductMonotone, ProductIsNat
  <2>11. (W * amount) * (p * k) = W * (amount * (p * k))
    BY <1>0, <1>3, Z3
  <2> DEFINE x1 == W * (out * (n * m))
             x2 == (BPS * d) * (W * out)
             x3 == (BPS * amount) * (d * q)
             x4 == (W * amount) * (BPS * u)
             x5 == W * (amount * (p * k))
  <2>12. x1 <= x2 /\ x2 <= x3 /\ x3 <= x4 /\ x4 <= x5
    BY <2>2, <2>3, <2>4, <2>5, <2>8, <2>9, <2>10, <2>11
  <2>13. x1 \in Nat /\ x2 \in Nat /\ x3 \in Nat /\ x4 \in Nat /\ x5 \in Nat
    BY <1>0, <1>1, <1>3, <1>4, <1>5, ProductIsNat
  <2> HIDE DEF x1, x2, x3, x4, x5
  <2>14. x1 <= x5
    BY <2>12, <2>13
  <2> QED BY <2>14 DEF x1, x5
<1>10. out * (n * m) <= amount * (p * k)
  <2>1. out * (n * m) \in Nat /\ amount * (p * k) \in Nat
    BY <1>1, <1>3, ProductIsNat
  <2> QED BY <2>1, <1>0, <1>9, ProductCancels
<1>11. out * n * m <= amount * p * k
  <2>1. out * n * m = out * (n * m) /\ amount * p * k = amount * (p * k)
    BY <1>1, <1>3, Z3
  <2> QED BY <2>1, <1>10
<1> QED BY <1>1, <1>2, <1>11 DEF m, k

---------------------------------------------------------------------------
(* What the registry reports.                                               *)

LEMMA RoundsAreRounds ==
    ASSUME FeedTypeOK, NEW id \in 1 .. Len(rounds)
    PROVE  rounds[id] \in Round /\ rounds[id].answer \in Nat /\ rounds[id].at \in Nat
<1>1. rounds \in Seq(Round)
  BY DEF FeedTypeOK
<1>2. rounds[id] \in Round
  BY <1>1
<1> QED BY <1>2 DEF Round

(* While the aggregator answers, the reported answer never exceeds its own, *)
(* and is its own unless the answer is held back.                           *)
LEMMA AnswerUnderstates ==
    ASSUME FeedTypeOK
    PROVE  /\ Answer \in Nat /\ Candidate.answer \in Nat
           /\ Usable(Live) => Answer <= Candidate.answer
           /\ Usable(Live) /\ ~ HeldBack => Answer = Candidate.answer
<1>1. \A id \in 1 .. Len(rounds) : rounds[id] \in Round /\ rounds[id].answer \in Nat
  BY RoundsAreRounds
<1>2. Len(rounds) \in Nat /\ Len(rounds) \in 1 .. Len(rounds)
  BY DEF FeedTypeOK
<1>3. Candidate.answer \in Nat
  BY <1>1, <1>2 DEF Candidate, Live
<1>4. accepted.answer \in Nat
  BY DEF FeedTypeOK, Accepted
<1>5. HeldBack => Level \in Nat
  <2>1. HeldBack /\ ~ OnLatch => Live - 1 \in 1 .. Len(rounds)
    BY DEF HeldBack, HeldByHistory, Usable, Live
  <2> QED BY <2>1, <1>1, <1>4 DEF Level
<1> QED
  BY <1>3, <1>4, <1>5 DEF Answer, Lower

(* The books' types, and what the shell computes from them.                 *)
LEMMA PricesAreNat ==
    ASSUME TypeOK, NEW c \in Collaterals
    PROVE  Price(c) \in Nat /\ Haircut(c) \in Nat
<1>1. Answer \in Nat
  BY AnswerUnderstates DEF TypeOK
<1> QED
  BY <1>1, PricingAssumption DEF Price, Haircut, SessionHaircut

LEMMA WorthFloors ==
    ASSUME NEW b \in Nat, NEW p \in Nat
    PROVE  Worth(b, p) \in Nat /\ W * Worth(b, p) <= b * p /\ b * p < W * Worth(b, p) + W
BY PricingAssumption, ProductIsNat, DivisionFloors DEF Worth

LEMMA AssetsAreNat ==
    ASSUME NEW h \in [Collaterals -> Nat], NEW price \in Nat
    PROVE  AssetsAt(h, price) \in Nat
<1>1. "stock" \in Collaterals /\ "dollar" \in Collaterals /\ W \in Nat
  BY PricingAssumption DEF Collaterals
<1>2. h["stock"] \in Nat /\ h["dollar"] \in Nat
  BY <1>1
<1>3. Worth(h["stock"], price) \in Nat /\ Worth(h["dollar"], W) \in Nat
  BY <1>1, <1>2, WorthFloors
<1> QED BY <1>3 DEF AssetsAt

LEMMA NavFloors ==
    ASSUME NEW a \in Nat, NEW t \in Nat
    PROVE  NavOf(a, t) \in Nat /\ (t + VirtualShares) * NavOf(a, t) <= (a + 1) * W
<1>1. (a + 1) * W \in Nat /\ t + VirtualShares \in Nat /\ t + VirtualShares > 0
  BY PricingAssumption, ProductIsNat
<1> QED BY <1>1, DivisionFloors DEF NavOf

LEMMA NavIsNat ==
    ASSUME TypeOK
    PROVE  Nav \in Nat
BY AnswerUnderstates, AssetsAreNat, NavFloors DEF TypeOK, Nav

---------------------------------------------------------------------------
(* Types.                                                                   *)

LEMMA InitFeedTypes == FeedInit => FeedTypeOK
<1> SUFFICES ASSUME FeedInit PROVE FeedTypeOK
  OBVIOUS
<1>1. PICK a \in Answers : rounds = <<[answer |-> a, at |-> 0]>>
  BY DEF FeedInit
<1>2. a \in Nat
  BY FeedAssumption
<1>3. rounds \in Seq(Round) /\ rounds # <<>> /\ Len(rounds) = 1 /\ rounds[1].answer = a
  BY <1>1, <1>2 DEF Round
<1>4. accepted \in Accepted /\ accepted.round <= 1
  <2>1. CASE alive /\ rounds[1].answer # 0
    BY <2>1, <1>2, <1>3 DEF FeedInit, Accepted
  <2>2. CASE ~ (alive /\ rounds[1].answer # 0)
    BY <2>2 DEF FeedInit, Accepted, NoAnswer
  <2> QED BY <2>1, <2>2
<1>5. pending \in Pending /\ pending.round <= 1
  BY DEF FeedInit, Pending, NoPending
<1> QED
  BY <1>3, <1>4, <1>5 DEF FeedInit, FeedTypeOK

LEMMA FeedStepTypes == FeedTypeOK /\ [FeedNext]_feedVars => FeedTypeOK'
<1> SUFFICES ASSUME FeedTypeOK, [FeedNext]_feedVars PROVE FeedTypeOK'
  OBVIOUS
<1>1. now \in Nat /\ Len(rounds) \in Nat /\ Len(rounds) >= 1
  BY DEF FeedTypeOK
<1>2. Candidate.answer \in Nat /\ Candidate.at \in Nat
  BY <1>1, RoundsAreRounds DEF Candidate, Live
<1>3. CASE Refresh
  BY <1>1, <1>2, <1>3
     DEF FeedTypeOK, Refresh, Recorded, Latched, NoPending, Accepted, Pending, Live, market
<1>4. ASSUME NEW a \in Answers, SetFeed(a) PROVE FeedTypeOK'
  <2>1. a \in Nat
    BY FeedAssumption
  <2>2. rounds' \in Seq(Round) /\ rounds' # <<>> /\ Len(rounds') = 1
    BY <1>1, <1>4, <2>1 DEF SetFeed, Round
  <2> QED
    BY <1>1, <1>4, <2>1, <2>2
       DEF FeedTypeOK, SetFeed, NoAnswer, NoPending, Accepted, Pending
<1>5. ASSUME NEW a \in Answers, Publish(a) PROVE FeedTypeOK'
  <2>1. a \in Nat
    BY FeedAssumption
  <2>2. [answer |-> a, at |-> now] \in Round
    BY <1>1, <2>1 DEF Round
  <2>3. rounds' \in Seq(Round) /\ rounds' # <<>> /\ Len(rounds') = Len(rounds) + 1
    BY <1>5, <2>2 DEF FeedTypeOK, Publish
  <2> QED
    BY <1>1, <1>5, <2>3 DEF FeedTypeOK, Publish, Accepted, Pending
<1>6. CASE Outage
  BY <1>6 DEF FeedTypeOK, Outage
<1>7. CASE OpenClose
  BY <1>7 DEF FeedTypeOK, OpenClose
<1>8. CASE FeedTick
  BY <1>1, <1>8 DEF FeedTypeOK, FeedTick, market
<1>9. CASE UNCHANGED feedVars
  BY <1>9 DEF FeedTypeOK, feedVars, market
<1> QED
  BY <1>3, <1>4, <1>5, <1>6, <1>7, <1>8, <1>9 DEF FeedNext

LEMMA ReadingTypes ==
    ASSUME TypeOK
    PROVE  Reading \in [nav : Nat, unconfirmed : BOOLEAN]
BY NavIsNat DEF Reading

(* Every variable keeps its type, and what the registry recorded is of the  *)
(* series it reads, however series are replaced.                            *)
THEOREM TypesHold == Spec => []TypeOK
<1>1. Init => TypeOK
  <2> SUFFICES ASSUME Init PROVE TypeOK
    OBVIOUS
  <2>1. FeedTypeOK
    BY InitFeedTypes DEF Init
  <2>2. holding \in [Collaterals -> Nat] /\ supply \in Nat
    BY PricingAssumption DEF Init
  <2>3. Nav \in Nat
    BY <2>1, <2>2, AnswerUnderstates, AssetsAreNat, NavFloors DEF Nav
  <2> QED
    BY <2>1, <2>2, <2>3 DEF Init, TypeOK, Reading
<1>2. TypeOK /\ [Next]_vars => TypeOK'
  <2> SUFFICES ASSUME TypeOK, [Next]_vars PROVE TypeOK'
    OBVIOUS
  <2>1. ASSUME [FeedNext]_feedVars PROVE FeedTypeOK'
    BY <2>1, FeedStepTypes DEF TypeOK
  <2>2. Reading \in [nav : Nat, unconfirmed : BOOLEAN]
    BY ReadingTypes
  <2>3. CASE FeedNext /\ UNCHANGED books
    BY <2>1, <2>3 DEF TypeOK, books
  <2>4. ASSUME NEW c \in Collaterals, NEW amount \in Deposits, NEW q \in Quotes,
               Bond(c, amount, q)
        PROVE  TypeOK'
    <3>1. amount \in Nat /\ q \in Nat
      BY PricingAssumption
    <3>2. (amount * q) \div W \in Nat
      BY <3>1, PricingAssumption, ProductIsNat, DivisionFloors
    <3>3. holding' \in [Collaterals -> Nat]
      BY <2>4, <3>1 DEF TypeOK, Bond, Deposited
    <3>4. supply' \in Nat
      BY <2>4, <3>2 DEF TypeOK, Bond, Issued
    <3>5. FeedTypeOK'
      BY <2>1, <2>4 DEF Bond
    <3> QED BY <2>2, <2>4, <3>3, <3>4, <3>5 DEF TypeOK, Bond
  <2>5. ASSUME NEW amount \in Deposits, Donate(amount) PROVE TypeOK'
    <3>1. amount \in Nat /\ "stock" \in Collaterals
      BY PricingAssumption DEF Collaterals
    <3>2. holding' \in [Collaterals -> Nat]
      BY <2>5, <3>1 DEF TypeOK, Donate, Deposited
    <3>3. FeedTypeOK'
      BY <2>1, <2>5 DEF Donate
    <3> QED BY <2>5, <3>2, <3>3 DEF TypeOK, Donate
  <2>6. CASE Checkpoint
    <3>1. FeedTypeOK'
      BY <2>1, <2>6 DEF Checkpoint
    <3> QED BY <2>2, <2>6, <3>1 DEF TypeOK, Checkpoint
  <2>7. CASE UNCHANGED vars
    BY <2>1, <2>7 DEF TypeOK, vars, books
  <2> QED BY <2>3, <2>4, <2>5, <2>6, <2>7 DEF Next
<1> QED BY <1>1, <1>2, PTL DEF Spec

---------------------------------------------------------------------------
(* The accretion floor.                                                     *)

(* The supply grows only by a bond.                                         *)
LEMMA SupplyGrowsByBonds ==
    ASSUME TypeOK, [Next]_vars, supply' > supply
    PROVE  \E c \in Collaterals, amount \in Deposits, q \in Quotes : Bond(c, amount, q)
<1>1. supply \in Nat
  BY DEF TypeOK
<1>2. supply' # supply
  BY <1>1
<1> QED BY <1>2 DEF Next, vars, books, Checkpoint, Donate

LEMMA BondIssuesByTheFloor ==
    ASSUME TypeOK, NEW c \in Collaterals, NEW amount \in Deposits, NEW q \in Quotes,
           Bond(c, amount, q)
    PROVE  /\ amount \in Nat /\ amount > 0 /\ holding'[c] - holding[c] = amount
           /\ supply' - supply \in Nat /\ Haircut(c) < BPS
           /\ (supply' - supply) * Nav * (BPS + MinAccretion)
                  <= amount * Price(c) * (BPS - Haircut(c))
<1>1. amount \in Nat /\ q \in Nat /\ amount > 0
  BY PricingAssumption DEF Bond
<1>2. holding'[c] - holding[c] = amount
  BY <1>1 DEF TypeOK, Bond, Deposited
<1>3. Price(c) \in Nat /\ Haircut(c) \in Nat /\ Nav \in Nat
  BY PricesAreNat, NavIsNat
<1>4. Nav > 0 /\ q <= Floor(Price(c), Nav, Haircut(c))
  BY <1>3 DEF Bond, Reading
<1> DEFINE out == (amount * q) \div W
<1>5. out \in Nat
  BY <1>1, PricingAssumption, ProductIsNat, DivisionFloors
<1>6. supply' = supply + out /\ supply < supply'
  BY DEF Bond, Issued
<1>7. out > 0 /\ supply' - supply = out
  <2> HIDE DEF out
  <2> QED BY <1>5, <1>6 DEF TypeOK
<1>8. /\ out \in Nat /\ Haircut(c) < BPS
      /\ out * Nav * (BPS + MinAccretion) <= amount * Price(c) * (BPS - Haircut(c))
  BY <1>1, <1>3, <1>4, <1>7, FloorBoundsIssue
<1> HIDE DEF out
<1> QED BY <1>1, <1>2, <1>7, <1>8

(* I27: no bond issues below the floor, whatever the policy, the feed and   *)
(* the records.                                                             *)
THEOREM FloorRespected == Spec => BondRespectsFloor
<1> DEFINE A == supply' > supply =>
                  \E c \in Collaterals :
                      (supply' - supply) * Nav * (BPS + MinAccretion)
                          <= (holding'[c] - holding[c]) * Price(c) * (BPS - Haircut(c))
<1>1. TypeOK /\ [Next]_vars => A
  <2> SUFFICES ASSUME TypeOK, [Next]_vars, supply' > supply
               PROVE  \E c \in Collaterals :
                          (supply' - supply) * Nav * (BPS + MinAccretion)
                              <= (holding'[c] - holding[c]) * Price(c) * (BPS - Haircut(c))
    OBVIOUS
  <2>1. PICK c \in Collaterals, amount \in Deposits, q \in Quotes : Bond(c, amount, q)
    BY SupplyGrowsByBonds
  <2>2. /\ holding'[c] - holding[c] = amount
        /\ (supply' - supply) * Nav * (BPS + MinAccretion)
               <= amount * Price(c) * (BPS - Haircut(c))
    BY <2>1, BondIssuesByTheFloor
  <2> QED BY <2>2
<1>2. TypeOK /\ [Next]_vars => [A]_vars
  BY <1>1
<1> QED BY <1>2, TypesHold, PTL DEF Spec, BondRespectsFloor

---------------------------------------------------------------------------
(* The NAV at the aggregator's own answer.                                  *)

(* What c is worth when the stock is at a given price.                      *)
PriceAt(c, price) == IF c = "stock" THEN price ELSE W

(* A deposit adds its worth to the vault's, but for a wei.                  *)
LEMMA DepositAddsItsWorth ==
    ASSUME NEW h \in [Collaterals -> Nat], NEW price \in Nat, NEW c \in Collaterals,
           NEW amount \in Nat,
           NEW h2, h2 = [h EXCEPT ![c] = @ + amount]
    PROVE  /\ h2 \in [Collaterals -> Nat]
           /\ W * AssetsAt(h, price) + amount * PriceAt(c, price)
                  <= W * AssetsAt(h2, price) + W
<1> DEFINE p == PriceAt(c, price)
           old == Worth(h[c], p)
           new == Worth(h[c] + amount, p)
<1>1. p \in Nat /\ h[c] \in Nat /\ h[c] + amount \in Nat /\ W \in Nat
  BY PricingAssumption DEF PriceAt
<1>2. old \in Nat /\ W * old <= h[c] * p
  BY <1>1, WorthFloors
<1>3. new \in Nat /\ (h[c] + amount) * p < W * new + W
  BY <1>1, WorthFloors
<1>4. h2 \in [Collaterals -> Nat]
  OBVIOUS
<1>5. AssetsAt(h2, price) = AssetsAt(h, price) - old + new
  <2>1. CASE c = "stock"
    <3>1. h2["stock"] = h[c] + amount /\ h2["dollar"] = h["dollar"] /\ p = price
      BY <2>1 DEF PriceAt, Collaterals
    <3>2. Worth(h["dollar"], W) \in Nat
      BY WorthFloors, <1>1 DEF Collaterals
    <3> HIDE DEF p
    <3> QED BY <1>2, <1>3, <2>1, <3>1, <3>2 DEF AssetsAt
  <2>2. CASE c = "dollar"
    <3>1. h2["dollar"] = h[c] + amount /\ h2["stock"] = h["stock"] /\ p = W
      BY <2>2 DEF PriceAt, Collaterals
    <3>2. Worth(h["stock"], price) \in Nat
      BY WorthFloors DEF Collaterals
    <3> HIDE DEF p
    <3> QED BY <1>2, <1>3, <2>2, <3>1, <3>2 DEF AssetsAt
  <2> QED BY <2>1, <2>2 DEF Collaterals
<1>6. AssetsAt(h, price) \in Nat
  BY AssetsAreNat
<1>7. (h[c] + amount) * p = h[c] * p + amount * p
  BY <1>1, Z3
<1>8. W * (AssetsAt(h, price) - old + new) = W * AssetsAt(h, price) - W * old + W * new
  <2> HIDE DEF old, new
  <2> QED BY <1>1, <1>2, <1>3, <1>6, Z3
<1> QED
  <2> HIDE DEF old, new, p
  <2>1. amount * p \in Nat /\ h[c] * p \in Nat /\ W * old \in Nat /\ W * new \in Nat
        /\ W * AssetsAt(h, price) \in Nat
    BY <1>1, <1>2, <1>3, <1>6, ProductIsNat
  <2>2. W * AssetsAt(h, price) + amount * p <= W * AssetsAt(h2, price) + W
    BY <2>1, <1>2, <1>3, <1>5, <1>7, <1>8, <1>1
  <2> QED BY <2>2, <1>4 DEF p

(* Dividing by what the requirement exceeds the haircut by.                 *)
LEMMA AccretionCancels ==
    ASSUME NEW x \in Nat, NEW y \in Nat, NEW m \in Nat, NEW k \in Nat,
           m > 0, k <= m, x * m <= y * k
    PROVE  x <= y
<1>1. y * k <= y * m
  BY ProductMonotone
<1>2. m * x <= m * y
  <2>1. m * x = x * m /\ m * y = y * m
    BY Z3
  <2>2. x * m \in Nat /\ y * k \in Nat /\ y * m \in Nat
    BY ProductIsNat
  <2> QED BY <1>1, <2>1, <2>2
<1> QED BY <1>2, ProductCancels

(* Issuing no more than a deposit is worth keeps the NAV, but for a wei.    *)
LEMMA IssueKeepsNav ==
    ASSUME NEW a \in Nat, NEW b \in Nat, NEW t \in Nat, NEW out \in Nat, NEW worth \in Nat,
           W * a + worth <= W * b + W,
           out * NavOf(a, t) <= worth
    PROVE  NavOf(b + 1, t + out) >= NavOf(a, t)
<1> DEFINE n == NavOf(a, t)
           N == t + VirtualShares
<1>1. n \in Nat /\ N \in Nat /\ N > 0 /\ W \in Nat /\ N * n <= (a + 1) * W
  BY NavFloors, PricingAssumption
<1> HIDE DEF n
<1>2. n * (N + out) = N * n + out * n
  BY <1>1, Z3
<1>3. (a + 1) * W = W * a + W /\ (b + 1 + 1) * W = W * b + W + W
  BY <1>1, Z3
<1>4. n * (N + out) <= (b + 1 + 1) * W
  <2>1. N * n \in Nat /\ out * n \in Nat /\ W * a \in Nat /\ W * b \in Nat
    BY <1>1, ProductIsNat
  <2>2. out * n <= worth
    BY DEF n
  <2> HIDE DEF N
  <2> QED BY <1>1, <1>2, <1>3, <2>1, <2>2
<1>5. N + out = t + out + VirtualShares
  BY PricingAssumption
<1>6. (b + 1 + 1) * W \in Nat /\ N + out \in Nat /\ N + out > 0
  BY <1>1, ProductIsNat
<1>7. n <= ((b + 1 + 1) * W) \div (N + out)
  <2> HIDE DEF N
  <2> QED BY <1>1, <1>4, <1>6, QuotientAtLeast
<1>8. n <= NavOf(b + 1, t + out)
  BY <1>5, <1>7 DEF NavOf
<1>9. NavOf(b + 1, t + out) \in Nat
  <2>1. b + 1 \in Nat /\ t + out \in Nat
    OBVIOUS
  <2> QED BY <2>1, NavFloors
<1> QED BY <1>1, <1>8, <1>9 DEF n

(* Where the shell prices, the vault is valued at the aggregator's answer.  *)
LEMMA PricedVaultIsLive ==
    ASSUME TypeOK, Usable(Live), ~ Reading.unconfirmed
    PROVE  LiveNav(0) = Nav
<1>1. Answer \in Nat /\ Candidate.answer \in Nat /\ (~ HeldBack => Answer = Candidate.answer)
  BY AnswerUnderstates DEF TypeOK
<1>2. CASE holding["stock"] = 0
  <2>1. \A x \in Nat : Worth(0, x) = 0
    BY WorthFloors, PricingAssumption DEF Worth
  <2>2. AssetsAt(holding, Candidate.answer) = AssetsAt(holding, Answer)
    BY <1>1, <1>2, <2>1 DEF AssetsAt
  <2>3. AssetsAt(holding, Candidate.answer) \in Nat
    BY <1>1, AssetsAreNat DEF TypeOK
  <2> QED BY <2>2, <2>3 DEF LiveNav, Nav
<1>3. CASE holding["stock"] # 0
  <2>1. Fresh
    BY <1>3 DEF Reading, Confirmed, Collaterals
  <2>2. Answer = Candidate.answer
    BY <2>1, <1>1 DEF Fresh
  <2>3. AssetsAt(holding, Candidate.answer) \in Nat
    BY <1>1, AssetsAreNat DEF TypeOK
  <2> QED BY <2>2, <2>3 DEF LiveNav, Nav
<1> QED BY <1>2, <1>3

LEMMA BondKeepsNav ==
    ASSUME TypeOK, NEW c \in Collaterals, NEW amount \in Deposits, NEW q \in Quotes,
           Bond(c, amount, q), Usable(Live)
    PROVE  LiveNav(1)' >= LiveNav(0)
<1> DEFINE price == Candidate.answer
           out == supply' - supply
           m == BPS + MinAccretion
           k == BPS - Haircut(c)
<1>1. /\ amount \in Nat /\ out \in Nat /\ Haircut(c) < BPS
      /\ out * Nav * m <= amount * Price(c) * k
  BY BondIssuesByTheFloor
<1>2. price \in Nat /\ Answer \in Nat /\ Answer <= price
  BY AnswerUnderstates DEF TypeOK
<1>3. Price(c) \in Nat /\ Haircut(c) \in Nat /\ Nav \in Nat
  BY PricesAreNat, NavIsNat
<1>4. PriceAt(c, price) \in Nat /\ Price(c) <= PriceAt(c, price)
  BY <1>2, PricingAssumption DEF Price, PriceAt
<1>5. m \in Nat /\ m > 0 /\ k \in Nat /\ k <= m
  BY <1>1, <1>3, FeedAssumption, PricingAssumption
<1>6. out * Nav \in Nat /\ amount * Price(c) \in Nat
  BY <1>1, <1>3, ProductIsNat
<1>7. out * Nav <= amount * PriceAt(c, price)
  <2> HIDE DEF out, m, k
  <2>1. out * Nav <= amount * Price(c)
    BY <1>1, <1>5, <1>6, AccretionCancels
  <2>2. amount * Price(c) <= amount * PriceAt(c, price)
    BY <1>1, <1>3, <1>4, ProductMonotone
  <2>3. amount * PriceAt(c, price) \in Nat
    BY <1>1, <1>4, ProductIsNat
  <2> QED BY <2>1, <2>2, <2>3, <1>6
<1>8. LiveNav(0) = Nav /\ Nav = NavOf(AssetsAt(holding, Answer), supply)
  BY PricedVaultIsLive DEF Bond, Nav
<1>9. holding' = [holding EXCEPT ![c] = @ + amount] /\ holding \in [Collaterals -> Nat]
      /\ supply \in Nat
  BY DEF Bond, Deposited, TypeOK
<1>10. /\ holding' \in [Collaterals -> Nat]
       /\ W * AssetsAt(holding, price) + amount * PriceAt(c, price)
              <= W * AssetsAt(holding', price) + W
  BY <1>1, <1>2, <1>9, DepositAddsItsWorth
<1>11. AssetsAt(holding, price) \in Nat /\ AssetsAt(holding', price) \in Nat
       /\ amount * PriceAt(c, price) \in Nat
  BY <1>1, <1>2, <1>4, <1>9, <1>10, AssetsAreNat, ProductIsNat
<1>12. NavOf(AssetsAt(holding, price), supply) = Nav
  <2>1. LiveNav(0) = NavOf(AssetsAt(holding, price), supply)
    BY <1>11 DEF LiveNav
  <2> QED BY <2>1, <1>8
<1>13. NavOf(AssetsAt(holding', price) + 1, supply + out) >= NavOf(AssetsAt(holding, price), supply)
  <2> HIDE DEF price, out
  <2> QED BY <1>1, <1>7, <1>9, <1>10, <1>11, <1>12, IssueKeepsNav
<1>14. supply + out = supply'
  <2>1. supply' - supply \in Nat /\ supply \in Nat
    BY <1>1, <1>9
  <2>2. supply' = supply + (amount * q) \div W
    BY DEF Bond, Issued
  <2>3. (amount * q) \div W \in Nat
    BY <1>1, PricingAssumption, ProductIsNat, DivisionFloors
  <2> QED BY <1>9, <2>2, <2>3
<1>15. LiveNav(1)' = NavOf(AssetsAt(holding', price) + 1, supply')
  <2>1. Candidate' = Candidate
    BY DEF Bond, feedVars, market, Candidate, Live
  <2> QED BY <2>1 DEF LiveNav, NavOf, AssetsAt, Worth
<1> QED BY <1>8, <1>12, <1>13, <1>14, <1>15

(* SP-05's consequence, at the aggregator's answer: bonds do not dilute,    *)
(* whichever answers the registry holds back meanwhile.                     *)
THEOREM LiveNavKept == Spec => BondKeepsLiveNav
<1> DEFINE A == supply' > supply /\ Usable(Live) => LiveNav(1)' >= LiveNav(0)
<1>1. TypeOK /\ [Next]_vars => A
  BY SupplyGrowsByBonds, BondKeepsNav
<1>2. TypeOK /\ [Next]_vars => [A]_vars
  BY <1>1
<1> QED BY <1>2, TypesHold, PTL DEF Spec, BondKeepsLiveNav

---------------------------------------------------------------------------
(* The two-confirmation rule.                                               *)

(* A step of the whole system is a step of the feed or leaves it alone. *)
LEMMA FeedSteps == [Next]_vars => [FeedNext]_feedVars
  BY DEF Next, Bond, Donate, Checkpoint, vars, feedVars

(* What a refresh records of the live round does not confirm it, and what   *)
(* it latches was reported already.                                         *)
LEMMA RefreshIsQuiet ==
    ASSUME FeedTypeOK, Refresh
    PROVE  Answer' = Answer /\ UpdatedAt' = UpdatedAt /\ Fresh' = Fresh
<1>1. /\ UNCHANGED <<now, rounds, alive, closed>> /\ Usable(Live) /\ Usable(Live)' /\ Live' = Live
      /\ Candidate' = Candidate /\ UpdatedAt' = UpdatedAt
  BY DEF Refresh, market, Usable, Live, Candidate, UpdatedAt
<1>2. /\ now \in Nat /\ Live \in Nat /\ Live >= 1 /\ Confirm \in Nat /\ Confirm > 0
      /\ Candidate \in Round /\ Candidate.answer # 0
  BY <1>1, RoundsAreRounds, FeedAssumption DEF FeedTypeOK, Usable, Live, Candidate
<1>3. CASE HeldBack /\ OnLatch /\ pending' = Recorded /\ UNCHANGED accepted
  <2>1. OnLatch' /\ ~ Agrees(accepted.answer, Candidate.answer)
    BY <1>1, <1>3 DEF OnLatch, HeldBack, HeldByLatch
  <2>2. ~ JumpConfirmed'
    BY <1>1, <1>2, <1>3 DEF JumpConfirmed, Recorded
  <2>3. HeldBack'
    BY <1>1, <1>3, <2>1, <2>2 DEF HeldBack, HeldByLatch
  <2>4. Level' = Level
    BY <1>1, <1>3, <2>1 DEF Level
  <2> QED
    BY <1>1, <1>3, <2>3, <2>4 DEF Answer, Fresh
<1>4. CASE ~ HeldBack /\ accepted' = Latched
  <2>1. ~ HeldBack'
    BY <1>1, <1>2, <1>4 DEF HeldBack, Latched
  <2>2. Answer' = Answer
    BY <1>1, <1>4, <2>1 DEF Answer
  <2> QED
    BY <1>1, <1>4, <2>1, <2>2 DEF Fresh
<1> QED
  BY <1>3, <1>4 DEF Refresh

(* RefreshMovesNoPrice: refresh() is free to anybody at any moment and      *)
(* changes nothing a caller of latestAnswer sees, at any parameters of the  *)
(* registry whose confirmation time is not zero (CONFIRM_SECONDS_MIN).      *)
THEOREM LatchIsQuiet == Spec => RefreshMovesNoPrice
<1> DEFINE Quiet == UNCHANGED <<now, market>> =>
                        Answer' = Answer /\ UpdatedAt' = UpdatedAt /\ Fresh' = Fresh
<1>1. TypeOK /\ [Next]_vars => [Quiet]_feedVars
  <2> SUFFICES ASSUME TypeOK, FeedNext, UNCHANGED <<now, market>>
               PROVE  Answer' = Answer /\ UpdatedAt' = UpdatedAt /\ Fresh' = Fresh
    BY FeedSteps
  <2>1. FeedTypeOK /\ now \in Nat /\ rounds \in Seq(Round) /\ alive \in BOOLEAN /\ closed \in BOOLEAN
    BY DEF TypeOK, FeedTypeOK
  <2>2. ASSUME NEW a \in Answers, SetFeed(a) \/ Publish(a) PROVE Len(rounds') # Len(rounds)
    <3>1. [answer |-> a, at |-> now] \in Round
      BY <2>1, FeedAssumption DEF Round
    <3>2. CASE Publish(a)
      BY <2>1, <3>1, <3>2 DEF Publish
    <3>3. CASE SetFeed(a)
      <4>1. Len(rounds') = 1 /\ Len(rounds) > 1
        BY <3>3 DEF SetFeed
      <4> QED
        BY <4>1
    <3> QED
      BY <2>2, <3>2, <3>3
  <2>3. ~ (\E a \in Answers : SetFeed(a) \/ Publish(a))
    BY <2>2 DEF market
  <2>4. ~ Outage /\ ~ OpenClose /\ ~ FeedTick
    BY <2>1 DEF Outage, OpenClose, FeedTick, market
  <2> QED
    BY <2>1, <2>3, <2>4, RefreshIsQuiet DEF FeedNext
<1> QED
  BY <1>1, TypesHold, PTL DEF Spec, RefreshMovesNoPrice

(* What stands behind the live round.                                       *)
Corroborated ==
    \/ Live = 1 \/ rounds[Live - 1].answer = 0
    \/ ~ Within(rounds[Live - 1].at, Candidate.at)
    \/ \E id \in 1 .. Live - 1 : Agrees(rounds[id].answer, Candidate.answer)
    \/ now >= Candidate.at + Confirm

(* FreshIsCorroborated is not inductive: it does not say where the latch    *)
(* and the record come from.  Both are rounds of the series being read, the *)
(* record no older than its round, and a latched live round had something   *)
(* behind it when it was latched.                                           *)
RecordsAreRounds ==
    /\ \A id \in 1 .. Live : rounds[id].at <= now
    /\ accepted.answer # 0 =>
          accepted.round \in 1 .. Live /\ rounds[accepted.round].answer = accepted.answer
    /\ pending.round # 0 =>
          /\ pending.round \in 1 .. Live /\ rounds[pending.round].answer = pending.answer
          /\ rounds[pending.round].at <= pending.seen
    /\ accepted.answer # 0 /\ accepted.round = Live => Corroborated

(* An answer the registry does not hold back has something behind it. *)
LEMMA UnheldIsCorroborated ==
    ASSUME FeedTypeOK, RecordsAreRounds, Usable(Live), ~ HeldBack PROVE Corroborated
<1>1. /\ Live \in Nat /\ Live >= 1 /\ rounds \in Seq(Round) /\ now \in Nat
      /\ Confirm \in Nat /\ Candidate = rounds[Live] /\ alive
      /\ accepted \in Accepted /\ pending \in Pending
  BY FeedAssumption DEF FeedTypeOK, Live, Candidate, Usable
<1>2. \A id \in 1 .. Live : rounds[id] \in Round
  BY <1>1 DEF Live
<1>3. CASE accepted.answer # 0 /\ accepted.round = Live
  BY <1>3 DEF RecordsAreRounds
<1>4. CASE ~ (accepted.answer # 0 /\ accepted.round = Live) /\ OnLatch
  <2>1. accepted.round \in 1 .. Live - 1 /\ rounds[accepted.round].answer = accepted.answer
    BY <1>1, <1>4 DEF RecordsAreRounds, OnLatch, Accepted
  <2>2. CASE Agrees(accepted.answer, Candidate.answer)
    BY <2>1, <2>2 DEF Corroborated
  <2>3. CASE JumpConfirmed
    <3>1. /\ pending.round \in 1 .. Live /\ rounds[pending.round].answer = pending.answer
          /\ rounds[pending.round].at <= pending.seen
          /\ Agrees(pending.answer, Candidate.answer)
          /\ pending.round < Live \/ now >= pending.seen + Confirm
      BY <2>3 DEF JumpConfirmed, RecordsAreRounds
    <3>2. CASE pending.round < Live
      <4>1. pending.round \in 1 .. Live - 1
        BY <1>1, <3>1, <3>2
      <4> QED
        BY <3>1, <4>1 DEF Corroborated
    <3>3. CASE pending.round = Live /\ now >= pending.seen + Confirm
      <4>1. Candidate.at \in Nat /\ pending.seen \in Nat /\ Candidate.at <= pending.seen
        BY <1>1, <1>2, <3>1, <3>3 DEF Round, Pending
      <4> QED
        BY <1>1, <3>3, <4>1 DEF Corroborated
    <3> QED
      BY <1>1, <3>1, <3>2, <3>3
  <2> QED
    BY <1>4, <2>2, <2>3 DEF HeldBack, HeldByLatch
<1>5. CASE ~ (accepted.answer # 0 /\ accepted.round = Live) /\ ~ OnLatch
  <2>1. ~ HeldByHistory
    BY <1>5 DEF HeldBack
  <2>2. CASE Live = 1 \/ ~ Usable(Live - 1)
    BY <1>1, <2>2 DEF Usable, Corroborated
  <2>3. CASE Live # 1 /\ Usable(Live - 1)
    <3>1. Live - 1 \in 1 .. Live - 1
      BY <1>1, <2>3
    <3>2. CASE Usable(Live - 2) /\ Agrees(rounds[Live - 2].answer, Candidate.answer)
      <4>1. Live - 2 \in 1 .. Live - 1
        BY <1>1, <3>2 DEF Usable
      <4> QED
        BY <3>2, <4>1 DEF Corroborated
    <3>3. Candidate.at + Confirm \in Nat
      BY <1>1, <1>2 DEF Round
    <3> QED
      BY <1>1, <2>1, <2>3, <3>1, <3>2, <3>3 DEF HeldByHistory, Corroborated
  <2> QED
    BY <2>2, <2>3
<1> QED
  BY <1>3, <1>4, <1>5

LEMMA RecordsInit == FeedInit => RecordsAreRounds
  BY DEF FeedInit, RecordsAreRounds, Corroborated, Live, NoAnswer, NoPending

LEMMA RecordsStep == FeedTypeOK /\ RecordsAreRounds /\ [FeedNext]_feedVars => RecordsAreRounds'
<1> SUFFICES ASSUME FeedTypeOK, RecordsAreRounds, [FeedNext]_feedVars PROVE RecordsAreRounds'
  OBVIOUS
<1>1. /\ Live \in Nat /\ Live >= 1 /\ rounds \in Seq(Round) /\ now \in Nat
      /\ Candidate \in Round /\ Confirm \in Nat /\ Candidate.at \in Nat
      /\ accepted \in Accepted /\ pending \in Pending /\ Candidate = rounds[Live]
      /\ accepted.round <= Live /\ pending.round <= Live
  BY FeedAssumption, RoundsAreRounds DEF FeedTypeOK, Live, Candidate, Round
<1>2. CASE Refresh
  <2>1. UNCHANGED <<now, rounds>> /\ Usable(Live)
    BY <1>2 DEF Refresh, market
  <2>2. Corroborated => Corroborated'
    BY <2>1 DEF Corroborated, Live, Candidate
  <2>3. CASE pending' = Recorded /\ UNCHANGED accepted
    <3>1. Candidate.at <= now
      BY <1>1 DEF RecordsAreRounds
    <3> QED
      BY <1>1, <2>1, <2>2, <2>3, <3>1 DEF RecordsAreRounds, Recorded, Live
  <2>4. CASE ~ HeldBack /\ accepted' = Latched /\ pending' = NoPending
    <3>1. Corroborated'
      BY <2>1, <2>2, <2>4, UnheldIsCorroborated
    <3> QED
      BY <1>1, <2>1, <2>4, <3>1 DEF RecordsAreRounds, Latched, NoPending, Live
  <2> QED
    BY <1>2, <2>3, <2>4 DEF Refresh
<1>3. ASSUME NEW a \in Answers, SetFeed(a) PROVE RecordsAreRounds'
  <2>1. a \in Nat /\ [answer |-> a, at |-> now] \in Round
    BY <1>1, FeedAssumption DEF Round
  <2>2. Live' = 1 /\ rounds'[1].answer = a /\ rounds'[1].at = now /\ now' = now
    BY <1>3, <2>1 DEF SetFeed, Live
  <2>3. \/ accepted' = NoAnswer
        \/ accepted' = [answer |-> a, at |-> now, round |-> 1]
    BY <1>3 DEF SetFeed
  <2>4. accepted'.answer # 0 => accepted'.answer = a /\ accepted'.round = 1
    BY <2>3 DEF NoAnswer
  <2>5. pending'.round = 0
    BY <1>3 DEF SetFeed, NoPending
  <2>6. Corroborated'
    BY <2>2 DEF Corroborated
  <2> QED
    BY <1>1, <2>2, <2>4, <2>5, <2>6 DEF RecordsAreRounds
<1>4. ASSUME NEW a \in Answers, Publish(a) PROVE RecordsAreRounds'
  <2>1. [answer |-> a, at |-> now] \in Round
    BY <1>1, FeedAssumption DEF Round
  <2>2. Live' = Live + 1 /\ \A id \in 1 .. Live : rounds'[id] = rounds[id]
    BY <1>1, <1>4, <2>1 DEF Publish, Live
  <2>3. UNCHANGED <<now, accepted, pending>> /\ rounds'[Live + 1].at = now
    BY <1>1, <1>4, <2>1 DEF Publish, Live
  <2>4. \A id \in 1 .. Live' : rounds'[id].at <= now'
    <3>1. \A id \in 1 .. Live : rounds'[id].at <= now'
      BY <2>2, <2>3 DEF RecordsAreRounds
    <3> QED
      BY <1>1, <2>2, <2>3, <3>1
  <2>5. accepted'.answer # 0 =>
            accepted'.round \in 1 .. Live' /\ rounds'[accepted'.round].answer = accepted'.answer
    BY <1>1, <2>2, <2>3 DEF RecordsAreRounds
  <2>6. pending'.round # 0 =>
            /\ pending'.round \in 1 .. Live' /\ rounds'[pending'.round].answer = pending'.answer
            /\ rounds'[pending'.round].at <= pending'.seen
    BY <1>1, <2>2, <2>3 DEF RecordsAreRounds
  <2>7. accepted'.round # Live'
    BY <1>1, <2>2, <2>3
  <2> QED
    BY <2>4, <2>5, <2>6, <2>7 DEF RecordsAreRounds
<1>5. CASE Outage \/ OpenClose \/ UNCHANGED feedVars
  <2>1. UNCHANGED <<now, rounds, accepted, pending>>
    BY <1>5 DEF Outage, OpenClose, feedVars, market
  <2> QED
    BY <2>1 DEF RecordsAreRounds, Corroborated, Live, Candidate
<1>6. CASE FeedTick
  <2>1. UNCHANGED <<rounds, accepted, pending>> /\ now' = now + 1
    BY <1>6 DEF FeedTick, market
  <2>2. now >= Candidate.at + Confirm => now' >= Candidate.at + Confirm
    BY <1>1, <2>1
  <2>3. Corroborated => Corroborated'
    BY <2>1, <2>2 DEF Corroborated, Live, Candidate
  <2>4. \A id \in 1 .. Live' : rounds'[id].at <= now'
    <3>1. ASSUME NEW id \in 1 .. Live PROVE rounds[id].at <= now + 1
      <4>1. rounds[id].at \in Nat /\ rounds[id].at <= now
        BY RoundsAreRounds DEF RecordsAreRounds, Live
      <4> QED
        BY <1>1, <4>1
    <3> QED
      BY <2>1, <3>1 DEF Live
  <2> QED
    BY <2>1, <2>3, <2>4 DEF RecordsAreRounds, Live
<1> QED
  BY <1>2, <1>3, <1>4, <1>5, <1>6 DEF FeedNext

(* FreshIsCorroborated: a lone spike is never reported fresh, whatever      *)
(* refreshes, outages, replaced feeds and other jumps fall in between.      *)
THEOREM SpikesAreNotFresh == Spec => []FreshIsCorroborated
<1>1. Init => RecordsAreRounds
  BY RecordsInit DEF Init
<1>2. TypeOK /\ RecordsAreRounds /\ [Next]_vars => RecordsAreRounds'
  BY FeedSteps, RecordsStep DEF TypeOK
<1>3. TypeOK /\ RecordsAreRounds => FreshIsCorroborated
  BY UnheldIsCorroborated DEF FreshIsCorroborated, Fresh, Corroborated, TypeOK
<1> QED
  BY <1>1, <1>2, <1>3, TypesHold, PTL DEF Spec

---------------------------------------------------------------------------
(* The gate.                                                                *)

(* Arithmetic.                                                              *)

LEMMA RemainderOfSmall ==
    ASSUME NEW m \in Nat, NEW x \in Nat, x < m
    PROVE  x % m = x
BY Z3

LEMMA RemainderOnce ==
    ASSUME NEW m \in Nat, NEW x \in Int, m > 0, m <= x, x < 2 * m
    PROVE  x % m = x - m
BY Z3

LEMMA RemainderOfNegative ==
    ASSUME NEW m \in Nat, NEW x \in Int, m > 0, x < 0, -m <= x
    PROVE  x % m = x + m
BY Z3

LEMMA QuotientAtMost ==
    ASSUME NEW a \in Nat, NEW b \in Nat, NEW c \in Nat, b > 0, a <= c * b
    PROVE  a \div b <= c
BY Z3

(* A count kept modulo m and read back modulo m is the count, wherever it   *)
(* started, while it stays below m.                                         *)
LEMMA DifferenceSurvivesTheWrap ==
    ASSUME NEW m \in Nat, m > 0, NEW a \in 0 .. m - 1, NEW k \in 0 .. m - 1
    PROVE  (((a + k) % m) - a) % m = k
<1>1. CASE a + k < m
  <2>1. (a + k) % m = a + k
    BY <1>1, RemainderOfSmall
  <2>2. ((a + k) % m) - a = k
    BY <2>1
  <2>3. k % m = k
    BY RemainderOfSmall
  <2> QED BY <2>2, <2>3
<1>2. CASE m <= a + k
  <2>1. (a + k) % m = (a + k) - m
    BY <1>2, RemainderOnce
  <2>2. ((a + k) % m) - a = k - m
    BY <2>1
  <2>3. (k - m) % m = (k - m) + m
    BY RemainderOfNegative
  <2> QED BY <2>2, <2>3
<1> QED BY <1>1, <1>2

LEMMA RemainderStep ==
    ASSUME NEW m \in Nat, m > 0, NEW a \in 0 .. m - 1, NEW k \in 0 .. m - 1, k + 1 < m
    PROVE  (((a + k) % m) + 1) % m = (a + (k + 1)) % m
<1>1. CASE a + k < m
  <2>1. (a + k) % m = a + k
    BY <1>1, RemainderOfSmall
  <2> QED BY <2>1
<1>2. CASE m <= a + k
  <2>1. (a + k) % m = (a + k) - m
    BY <1>2, RemainderOnce
  <2>2. (a + (k + 1)) % m = (a + (k + 1)) - m
    BY <1>2, RemainderOnce
  <2>3. ((a + k) % m) + 1 \in Nat /\ ((a + k) % m) + 1 < m
    BY <2>1, <1>2
  <2>4. (((a + k) % m) + 1) % m = ((a + k) % m) + 1
    BY <2>3, RemainderOfSmall
  <2> QED BY <2>1, <2>2, <2>4
<1> QED BY <1>1, <1>2

---------------------------------------------------------------------------
(* The inductive invariant: the types; the stamp, the block number and the  *)
(* clock against what happened since; each timer against its pokes.         *)

(* The block number is the stamp's, moved on by the blocks since, and the   *)
(* time since is no more than so many of the slowest of them.               *)
ChainInv ==
    /\ block = (stamp.block + produced) % BlockMod
    /\ stamp.time <= now
    /\ now - stamp.time <= produced * longest

FirstOf(since, times) ==
    IF times = {} THEN since = 0
    ELSE since \in times /\ \A t \in times : since <= t

TimerInv == \A p \in Pools : FirstOf(divergedSince[p], outside[p])

GateInv == GateTypeOK /\ ChainInv /\ TimerInv

LEMMA InitGateInv == GateInit => GateInv
<1> SUFFICES ASSUME GateInit PROVE GateInv
  OBVIOUS
<1> USE GateAssumption DEF GateInit
<1>1. GateTypeOK
  BY DEF GateTypeOK, Stamps, Pools
<1>2. ChainInv
  <2>1. (block + 0) % BlockMod = block
    BY RemainderOfSmall
  <2>2. /\ stamp.block = block /\ stamp.time = now
        /\ produced = 0 /\ longest = 0 /\ now \in Nat
    OBVIOUS
  <2>3. block = (stamp.block + produced) % BlockMod
    BY <2>1, <2>2
  <2>4. stamp.time <= now /\ now - stamp.time <= produced * longest
    BY <2>2
  <2> QED BY <2>3, <2>4 DEF ChainInv
<1>3. TimerInv
  BY DEF TimerInv, FirstOf
<1> QED BY <1>1, <1>2, <1>3 DEF GateInv

(* A stamp starts both histories afresh, here and now.                      *)
LEMMA WriteStampKeeps ==
    ASSUME GateInv, WriteStamp
    PROVE  /\ ChainInv'
           /\ stamp' \in Stamps /\ produced' \in 0 .. BlockMod - 1 /\ longest' \in Nat
           /\ now' = now /\ block' = block
<1> USE GateAssumption DEF GateInv, GateTypeOK, WriteStamp, Stamp, Stamps
<1>1. (block + 0) % BlockMod = block
  <2>1. block \in Nat /\ block < BlockMod /\ BlockMod \in Nat /\ block + 0 = block
    OBVIOUS
  <2>2. block % BlockMod = block
    BY ONLY <2>1, RemainderOfSmall
  <2> QED BY ONLY <2>1, <2>2
<1>2. stamp'.block = block /\ stamp'.time = now /\ produced' = 0 /\ longest' = 0
  OBVIOUS
<1>3. ChainInv'
  BY <1>1, <1>2 DEF ChainInv
<1> QED BY <1>3

LEMMA NextBlockKeeps ==
    ASSUME GateInv, NEW seconds \in Steps, NextBlock(seconds)
    PROVE  GateInv'
<1> USE GateAssumption
<1>1. /\ now \in Nat \ {0} /\ stamp.block \in 0 .. BlockMod - 1 /\ stamp.time \in Nat
      /\ produced \in 0 .. BlockMod - 1 /\ longest \in Nat /\ seconds \in Nat
      /\ BlockMod \in Nat /\ BlockMod > 0
  BY DEF GateInv, GateTypeOK, Stamps
<1>2. /\ now' = now + seconds /\ stamp' = stamp /\ produced' = produced + 1
      /\ produced + 1 < BlockMod /\ block' = (block + 1) % BlockMod
      /\ longest' = IF seconds > longest THEN seconds ELSE longest
  BY DEF NextBlock
<1>3. GateTypeOK'
  <2>1. block' \in 0 .. BlockMod - 1
    <3>1. block \in 0 .. BlockMod - 1
      BY DEF GateInv, GateTypeOK
    <3>2. CASE block + 1 < BlockMod
      BY <1>1, <1>2, <3>1, <3>2, RemainderOfSmall
    <3>3. CASE BlockMod <= block + 1
      BY <1>1, <1>2, <3>1, <3>3, RemainderOnce
    <3> QED BY <1>1, <3>1, <3>2, <3>3
  <2>2. now' \in Nat \ {0} /\ produced' \in 0 .. BlockMod - 1 /\ longest' \in Nat
    BY <1>1, <1>2
  <2>3. 0 .. now + FreezeMax \subseteq 0 .. now' + FreezeMax
        /\ 0 .. now \subseteq 0 .. now' /\ 1 .. now \subseteq 1 .. now'
    BY <1>1, <1>2
  <2>4. nameFreezeUntil' \in [Names -> 0 .. now' + FreezeMax]
    BY <2>3 DEF GateInv, GateTypeOK, NextBlock, freezes
  <2>5. divergedSince' \in [Pools -> 0 .. now'] /\ outside' \in [Pools -> SUBSET (1 .. now')]
    BY <2>3 DEF GateInv, GateTypeOK, NextBlock, timers
  <2>6. protocolFreezeUntil' \in 0 .. now' + FreezeMax
    BY <2>3 DEF GateInv, GateTypeOK, NextBlock, freezes
  <2> QED BY <2>1, <2>2, <2>4, <2>5, <2>6
      DEF GateInv, GateTypeOK, NextBlock, params
<1>4. ChainInv'
  <2>1. block' = (stamp'.block + produced') % BlockMod
    BY <1>1, <1>2, RemainderStep DEF GateInv, ChainInv
  <2>2. produced * longest <= produced * longest'
    BY <1>1, <1>2, ProductMonotone
  <2>3. longest' \in Nat /\ seconds <= longest' /\ produced' * longest' = produced * longest' + longest'
    BY <1>1, <1>2, Z3
  <2>4. produced * longest \in Nat /\ produced * longest' \in Nat
    <3>1. produced \in Nat /\ longest \in Nat /\ longest' \in Nat
      BY <1>1, <2>3
    <3> QED BY ONLY <3>1, ProductIsNat
  <2>5. stamp.time <= now /\ now - stamp.time <= produced * longest
    BY DEF GateInv, ChainInv
  <2>6. now' - stamp'.time <= produced' * longest'
    BY <1>1, <1>2, <2>2, <2>3, <2>4, <2>5
  <2>7. stamp'.time <= now'
    BY <1>1, <1>2, <2>5
  <2> QED BY <2>1, <2>6, <2>7 DEF ChainInv
<1>5. TimerInv'
  BY DEF GateInv, TimerInv, NextBlock, timers
<1> QED BY <1>3, <1>4, <1>5 DEF GateInv

LEMMA PokePoolKeeps ==
    ASSUME GateInv, NEW p \in Pools, NEW d \in Measures, PokePool(p, d)
    PROVE  GateInv'
<1> USE GateAssumption
<1>1. /\ WriteStamp
      /\ divergedSince' = [divergedSince EXCEPT ![p] = Rearmed(@, d)]
      /\ outside' = [outside EXCEPT ![p] =
             IF d = Unknown THEN @ ELSE IF d > divergenceBps THEN @ \cup {now} ELSE {}]
      /\ UNCHANGED <<params, freezes>>
  BY DEF PokePool
<1>2. /\ ChainInv'
      /\ stamp' \in Stamps /\ produced' \in 0 .. BlockMod - 1 /\ longest' \in Nat
      /\ now' = now /\ block' = block
  BY <1>1, WriteStampKeeps
<1>3. /\ now \in Nat \ {0} /\ divergedSince \in [Pools -> 0 .. now]
      /\ outside \in [Pools -> SUBSET (1 .. now)]
  BY DEF GateInv, GateTypeOK
<1>4. Rearmed(divergedSince[p], d) \in 0 .. now
  BY <1>3 DEF Rearmed
<1>5. GateTypeOK'
  <2>1. divergedSince' \in [Pools -> 0 .. now]
    BY <1>1, <1>3, <1>4
  <2>2. outside' \in [Pools -> SUBSET (1 .. now)]
    BY <1>1, <1>3
  <2> QED BY <1>1, <1>2, <2>1, <2>2 DEF GateInv, GateTypeOK, params, freezes
<1>6. TimerInv'
  <2> SUFFICES ASSUME NEW q \in Pools PROVE FirstOf(divergedSince'[q], outside'[q])
    BY DEF TimerInv
  <2>1. FirstOf(divergedSince[q], outside[q])
    BY DEF GateInv, TimerInv
  <2>2. CASE q # p
    BY <1>1, <1>3, <2>1, <2>2
  <2>3. CASE q = p
    <3>1. divergedSince'[p] = Rearmed(divergedSince[p], d)
      BY <1>1, <1>3
    <3>2. outside'[p] = IF d = Unknown THEN outside[p]
                        ELSE IF d > divergenceBps THEN outside[p] \cup {now} ELSE {}
      BY <1>1, <1>3
    <3>3. outside[p] \subseteq 1 .. now /\ divergedSince[p] \in 0 .. now
      BY <1>3
    <3>4. CASE IsOutside(d) /\ divergedSince[p] = 0
      BY <1>3, <2>1, <2>3, <3>1, <3>2, <3>3, <3>4 DEF Rearmed, IsOutside, FirstOf
    <3>5. CASE IsOutside(d) /\ divergedSince[p] # 0
      BY <1>3, <2>1, <2>3, <3>1, <3>2, <3>3, <3>5 DEF Rearmed, IsOutside, FirstOf
    <3>6. CASE ~IsOutside(d)
      BY <2>1, <2>3, <3>1, <3>2, <3>6 DEF Rearmed, IsOutside, FirstOf
    <3> QED BY <3>4, <3>5, <3>6
  <2> QED BY <2>2, <2>3
<1> QED BY <1>2, <1>5, <1>6 DEF GateInv

(* A bare poke and the vault's upkeep write the stamp and nothing else.     *)
LEMMA StampOnlyKeeps ==
    ASSUME GateInv, WriteStamp, UNCHANGED <<params, freezes, timers>>
    PROVE  GateInv'
<1>1. /\ ChainInv'
      /\ stamp' \in Stamps /\ produced' \in 0 .. BlockMod - 1 /\ longest' \in Nat
      /\ now' = now /\ block' = block
  BY WriteStampKeeps
<1>2. GateTypeOK'
  BY <1>1 DEF GateInv, GateTypeOK, params, freezes, timers
<1>3. TimerInv'
  BY DEF GateInv, TimerInv, timers
<1> QED BY <1>1, <1>2, <1>3 DEF GateInv

(* A freeze or a setter leaves the chain, the stamp and the timers alone.   *)
LEMMA TypesSuffice ==
    ASSUME GateInv, UNCHANGED <<chain, stamp, timers>>, GateTypeOK'
    PROVE  GateInv'
BY DEF GateInv, ChainInv, TimerInv, chain, timers

LEMMA FreezeKeeps ==
    ASSUME GateInv, NEW until \in 1 .. now + FreezeMax, NEW n,
           \/ FreezeProtocol(until)
           \/ n \in Names /\ FreezeConstituent(n, until)
           \/ UnfreezeProtocol
           \/ n \in Names /\ UnfreezeConstituent(n)
    PROVE  GateInv'
<1> USE GateAssumption
<1>1. /\ now \in Nat \ {0} /\ FreezeMax \in Nat
      /\ nameFreezeUntil \in [Names -> 0 .. now + FreezeMax]
      /\ 0 \in 0 .. now + FreezeMax /\ until \in 0 .. now + FreezeMax
  BY DEF GateInv, GateTypeOK
<1>2. UNCHANGED <<chain, stamp, params, timers>>
  BY DEF FreezeProtocol, FreezeConstituent, UnfreezeProtocol, UnfreezeConstituent
<1>3. protocolFreezeUntil' \in 0 .. now + FreezeMax
  BY <1>1 DEF GateInv, GateTypeOK, FreezeProtocol, FreezeConstituent, UnfreezeProtocol,
      UnfreezeConstituent
<1>4. nameFreezeUntil' \in [Names -> 0 .. now + FreezeMax]
  BY <1>1 DEF FreezeProtocol, FreezeConstituent, UnfreezeProtocol, UnfreezeConstituent
<1>5. GateTypeOK'
  BY <1>2, <1>3, <1>4 DEF GateInv, GateTypeOK, chain, params, timers
<1> QED BY <1>2, <1>5, TypesSuffice

LEMMA SettersKeep ==
    ASSUME GateInv,
           \/ \E value \in GraceBand : SetGraceSeconds(value)
           \/ \E value \in GapBand : SetGapSeconds(value)
           \/ \E bps \in DivergenceBand, seconds \in SustainBand : SetDivergence(bps, seconds)
    PROVE  GateInv'
<1>1. UNCHANGED <<chain, stamp, freezes, timers>>
  BY DEF SetGraceSeconds, SetGapSeconds, SetDivergence
<1>2. /\ graceSeconds' \in GraceBand /\ gapSeconds' \in GapBand /\ gapSeconds' < graceSeconds'
      /\ sustain' \in SustainBand /\ divergenceBps' \in DivergenceBand
  BY DEF GateInv, GateTypeOK, SetGraceSeconds, SetGapSeconds, SetDivergence
<1>3. GateTypeOK'
  BY <1>1, <1>2 DEF GateInv, GateTypeOK, chain, freezes, timers
<1> QED BY <1>1, <1>3, TypesSuffice

LEMMA StepGateInv == GateInv /\ [GateNext]_gateVars => GateInv'
<1> SUFFICES ASSUME GateInv, [GateNext]_gateVars PROVE GateInv'
  OBVIOUS
<1>1. ASSUME NEW seconds \in Steps, NextBlock(seconds) PROVE GateInv'
  BY <1>1, NextBlockKeeps
<1>2. CASE Poke
  BY <1>2, StampOnlyKeeps DEF Poke
<1>3. ASSUME NEW p \in Pools, NEW d \in Measures, PokePool(p, d) PROVE GateInv'
  BY <1>3, PokePoolKeeps
<1>4. ASSUME NEW m \in Markets, NEW readable \in BOOLEAN, Upkeep(m, readable) PROVE GateInv'
  BY <1>4, StampOnlyKeeps DEF Upkeep
<1>5. ASSUME NEW until \in 1 .. now + FreezeMax, FreezeProtocol(until) PROVE GateInv'
  BY <1>5, FreezeKeeps
<1>6. ASSUME NEW n \in Names, NEW until \in 1 .. now + FreezeMax,
             FreezeConstituent(n, until)
      PROVE  GateInv'
  BY <1>6, FreezeKeeps
<1>7. 1 \in 1 .. now + FreezeMax
  BY GateAssumption DEF GateInv, GateTypeOK
<1>8. CASE UnfreezeProtocol
  BY <1>7, <1>8, FreezeKeeps
<1>9. ASSUME NEW n \in Names, UnfreezeConstituent(n) PROVE GateInv'
  BY <1>7, <1>9, FreezeKeeps
<1>10. ASSUME \/ \E value \in GraceBand : SetGraceSeconds(value)
              \/ \E value \in GapBand : SetGapSeconds(value)
              \/ \E bps \in DivergenceBand, seconds \in SustainBand : SetDivergence(bps, seconds)
       PROVE  GateInv'
  BY <1>10, SettersKeep
<1>11. CASE UNCHANGED gateVars
  <2>1. UNCHANGED <<chain, stamp, params, freezes, timers>>
    BY <1>11 DEF gateVars
  <2>2. GateTypeOK'
    BY <2>1 DEF GateInv, GateTypeOK, chain, params, freezes, timers
  <2> QED BY <2>1, <2>2, TypesSuffice
<1> QED BY <1>1, <1>2, <1>3, <1>4, <1>5, <1>6, <1>8, <1>9, <1>10, <1>11 DEF GateNext

(* The invariant of the gate: types, the stamp against the chain, every     *)
(* timer against its pokes (OracleGate's storage, all its entry points).    *)
THEOREM GateInvariant == GateSpec => []GateInv
BY InitGateInv, StepGateInv, PTL DEF GateSpec

---------------------------------------------------------------------------
(* What the invariant is for.                                               *)

LEMMA BlocksAreCounted == GateInv => BlocksAdvanced(stamp) = produced
<1> SUFFICES ASSUME GateInv PROVE BlocksAdvanced(stamp) = produced
  OBVIOUS
<1>1. /\ BlockMod \in Nat /\ BlockMod > 0 /\ stamp.block \in 0 .. BlockMod - 1
      /\ produced \in 0 .. BlockMod - 1
      /\ block = (stamp.block + produced) % BlockMod
  BY GateAssumption DEF GateInv, GateTypeOK, ChainInv, Stamps
<1>2. (((stamp.block + produced) % BlockMod) - stamp.block) % BlockMod = produced
  BY <1>1, DifferenceSurvivesTheWrap
<1> QED BY <1>1, <1>2 DEF BlocksAdvanced

(* Whatever the bands, the wrap of the block number and the division: if no *)
(* block since the stamp took longer than the gap, the watchdog stays quiet *)
(* (OracleGate._watchdogTripped).                                           *)
THEOREM NoFalseTrip == GateSpec => []TripMeansOutage
<1>1. GateInv => TripMeansOutage
  <2> SUFFICES ASSUME GateInv, Tripped(stamp), ~ (longest > gapSeconds) PROVE FALSE
    BY DEF TripMeansOutage
  <2>1. /\ produced \in Nat /\ longest \in Nat /\ gapSeconds \in Nat /\ gapSeconds > 0
        /\ now \in Nat /\ stamp.time \in Nat
    BY GateAssumption DEF GateInv, GateTypeOK, Stamps
  <2>2. stamp.time <= now /\ now - stamp.time <= produced * longest
    BY DEF GateInv, ChainInv
  <2>3. Elapsed(stamp) \in Nat /\ Elapsed(stamp) = now - stamp.time
    BY <2>1, <2>2 DEF Elapsed
  <2>4. longest <= gapSeconds
    BY <2>1
  <2>5. produced * longest <= produced * gapSeconds
    BY <2>1, <2>4, ProductMonotone
  <2>6. produced * longest \in Nat /\ produced * gapSeconds \in Nat
    BY <2>1, ProductIsNat
  <2>7. Elapsed(stamp) <= produced * gapSeconds
    BY <2>1, <2>2, <2>3, <2>5, <2>6
  <2>8. Elapsed(stamp) \div gapSeconds <= produced
    BY <2>1, <2>3, <2>7, QuotientAtMost
  <2>9. produced < Elapsed(stamp) \div gapSeconds
    BY BlocksAreCounted DEF Tripped
  <2>10. Elapsed(stamp) \div gapSeconds \in Int
    BY <2>1, <2>3
  <2> QED BY <2>1, <2>8, <2>9, <2>10
<1> QED BY <1>1, GateInvariant, PTL

(* For every threshold, sustain and sequence of pokes: a pool is diverged   *)
(* exactly when it is outside now and was poked outside a sustain ago with  *)
(* no poke inside since; unknown readings count for nothing                 *)
(* (OracleGate._updateDivergence and _snapshot).                            *)
THEOREM BreakerMemory == GateSpec => []BreakerRemembers
<1>1. GateInv => BreakerRemembers
  <2> SUFFICES ASSUME GateInv, NEW p \in Pools, NEW d \in Measures
               PROVE  Diverged(p, d) <=>
                          /\ IsOutside(d)
                          /\ \E t \in outside[p] : t + sustain <= now
    BY DEF BreakerRemembers
  <2>1. /\ now \in Nat /\ sustain \in Nat /\ divergedSince[p] \in 0 .. now
        /\ outside[p] \subseteq 1 .. now
    BY GateAssumption DEF GateInv, GateTypeOK
  <2>2. FirstOf(divergedSince[p], outside[p])
    BY DEF GateInv, TimerInv
  <2>3. (divergedSince[p] # 0 /\ now >= divergedSince[p] + sustain)
            <=> \E t \in outside[p] : t + sustain <= now
    <3>1. CASE outside[p] = {}
      BY <2>2, <3>1 DEF FirstOf
    <3>2. CASE outside[p] # {}
      <4>1. divergedSince[p] \in outside[p] /\ \A t \in outside[p] : divergedSince[p] <= t
        BY <2>2, <3>2 DEF FirstOf
      <4>2. ASSUME NEW t \in outside[p], t + sustain <= now
            PROVE  divergedSince[p] # 0 /\ now >= divergedSince[p] + sustain
        BY <2>1, <4>1, <4>2
      <4>3. ASSUME now >= divergedSince[p] + sustain
            PROVE  \E t \in outside[p] : t + sustain <= now
        BY <2>1, <4>1, <4>3
      <4> QED BY <4>2, <4>3
    <3> QED BY <3>1, <3>2
  <2> QED BY <2>3 DEF Diverged
<1> QED BY <1>1, GateInvariant, PTL

(* The doors nest in every state and for every reading: the order of        *)
(* _requireGate's two reads and the pool's own check leave nothing to be    *)
(* gained from a verdict that cannot be read, but for management.           *)
THEOREM NestedDoors == GateSpec => []DoorsNest
<1>1. DoorsNest
  <2> USE GateAssumption DEF VaultRefuses, Refused, ProtocolVerdict
  <2> SUFFICES ASSUME NEW m \in Markets
      PROVE /\ \A p \in Pools, r \in Readings : PlacementOpen(p, stamp, m, r, FALSE) =>
                   /\ PlacementOpen(p, stamp, m, r, TRUE)
                   /\ ManagementOpen(stamp, m, TRUE)
                   /\ p \in Names => BondOpen(p, stamp, m, r, TRUE)
            /\ \A n \in Names, r \in Readings :
                   BondOpen(n, stamp, m, r, FALSE) => BondOpen(n, stamp, m, r, TRUE)
            /\ BondOpen(Protocol, stamp, m, NoReading, FALSE) =>
                   BondOpen(Protocol, stamp, m, NoReading, TRUE)
            /\ ProtocolFrozen => ~ManagementOpen(stamp, m, FALSE)
    BY DEF DoorsNest
  <2>1. Protocol \notin Pools /\ Protocol \notin Names
    BY DEF Pools
  <2>2. Verdict(Protocol, stamp, m, NoReading) =
            IF ProtocolFrozen THEN "SCHEDULED_FREEZE"
            ELSE IF Tripped(stamp) \/ m.hub = "uncovered" THEN "WATCHDOG"
            ELSE IF m.closed THEN "DEGRADED"
            ELSE IF m.hub = "apart" THEN "REF_DIVERGED"
            ELSE "GREEN"
    BY <2>1 DEF Verdict, Frozen, Diverged, FeedStale
  <2>3. ASSUME ~ProtocolFrozen
        PROVE  ~VaultRefuses("bonds", stamp, m, TRUE)
    BY <2>2, <2>3
  <2>4. ASSUME NEW id, NEW r, BondOpen(id, stamp, m, r, FALSE)
        PROVE  BondOpen(id, stamp, m, r, TRUE)
    BY <2>3, <2>4 DEF BondOpen
  <2>5. ASSUME NEW p \in Pools, NEW r \in Readings, PlacementOpen(p, stamp, m, r, FALSE)
        PROVE  /\ PlacementOpen(p, stamp, m, r, TRUE)
               /\ ManagementOpen(stamp, m, TRUE)
               /\ BondOpen(p, stamp, m, r, TRUE)
    <3>1. /\ ~ProtocolFrozen /\ ~Tripped(stamp) /\ m.hub # "uncovered" /\ ~m.closed
          /\ Verdict(p, stamp, m, r) \in {"GREEN", "REF_DIVERGED"}
      BY <2>5 DEF PlacementOpen, Verdict, Frozen
    <3>2. Verdict(Protocol, stamp, m, NoReading) \in {"GREEN", "REF_DIVERGED"}
      BY <2>2, <3>1
    <3> QED BY <3>1, <3>2 DEF PlacementOpen, ManagementOpen, BondOpen
  <2>6. ProtocolFrozen => ~ManagementOpen(stamp, m, FALSE)
    BY DEF ManagementOpen
  <2> QED BY <2>4, <2>5, <2>6
<1> QED BY <1>1, PTL

=============================================================================
