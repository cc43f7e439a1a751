---------------------------- MODULE LadderProofs ----------------------------
(***************************************************************************)
(* What a burnback may burn, for every grid, cap, budget and amount: an    *)
(* ask under the high-water mark was sold.  The figures of liquidity play  *)
(* no part; what does is where the prices and the mark stand to the cells. *)
(***************************************************************************)
EXTENDS Ladder, SumLemmas, TLAPS

PoolShape(P) ==
    P \in [tick : {P.tick}, trunc : {P.trunc}, anchor : {P.anchor}, mark : {P.mark},
           cells : {P.cells}, record : {P.record}, placed : {P.placed}]

CellShape(c) == c \in [liquidity : {c.liquidity}, above : {c.above}, sold : {c.sold}]

(* The truncated price follows the price, and never by more than the cap.  *)
Prices(P) ==
    /\ P.tick \in Ticks /\ P.trunc \in Ticks /\ P.anchor \in Ticks /\ P.mark \in Ticks
    /\ P.trunc - P.anchor <= Cap /\ P.anchor - P.trunc <= Cap
    /\ P.tick - P.trunc <= MaxLag /\ P.trunc - P.tick <= MaxLag

(* An ask that was never sold stands above the mark, and above the price   *)
(* the next write may lift the mark to.                                    *)
AboveTheMark(P) ==
    \A m \in Grid : IsAsk(P, m) /\ ~P.cells[m].sold => P.mark < Upper(m) /\ P.trunc < Upper(m)

Shapes(P) ==
    /\ PoolShape(P)
    /\ P.cells = [m \in Grid |-> P.cells[m]]
    /\ \A m \in Grid : CellShape(P.cells[m])

PoolInv(P) == Shapes(P) /\ Prices(P) /\ AboveTheMark(P)

BookInv(b) ==
    /\ b \in [pool : {b.pool}, live : {b.live}, idle : {b.idle}]
    /\ b.pool = [p \in Pools |-> b.pool[p]]
    /\ \A p \in Pools : PoolInv(b.pool[p])

LadderInv == BookInv(Book)

---------------------------------------------------------------------------
(* The grid.                                                               *)

LEMMA Bounds ==
    /\ Cells \in Nat /\ Width \in Nat /\ Width > 0 /\ Cap \in Nat /\ MaxLag \in Nat
    /\ MaxLag < Width /\ Cells * Width \in Nat
    /\ Ticks = 0 .. Cells * Width
  BY LadderAssumption DEF Ticks

LEMMA CellBounds ==
    ASSUME NEW m \in Int PROVE Lower(m) \in Int /\ Upper(m) = Lower(m) + Width
  BY Bounds DEF Lower, Upper

LEMMA TopOfCell == ASSUME NEW m \in Grid PROVE Upper(m) \in Int /\ Upper(m) > 0
<1>1. m \in Int /\ m + 1 >= 1
  BY Bounds DEF Grid
<1>2. \A n \in Nat : n >= 1 => n * Width \in Int /\ n * Width > 0
  BY Bounds
<1> QED
  BY <1>1, <1>2 DEF Upper

(* Rounding up, the cell starts at the tick or above.                      *)
LEMMA CeilReaches ==
    ASSUME NEW a \in Nat, NEW m \in Int, m >= CeilDiv(a, Width)
    PROVE  Lower(m) >= a
<1> DEFINE q == (a + Width - 1) \div Width
<1>1. q \in Int /\ a + Width - 1 < Width * q + Width
  BY Bounds
<1>2. m >= q
  BY DEF CeilDiv
<1> HIDE DEF q
<1>3. (m - q) * Width >= 0
  BY <1>1, <1>2, Bounds
<1>4. m * Width = (m - q) * Width + Width * q
  BY <1>1, Bounds
<1>5. Width * q \in Int /\ (m - q) * Width \in Int
  BY <1>1, Bounds
<1> QED
  BY <1>1, <1>3, <1>4, <1>5, Bounds DEF Lower

---------------------------------------------------------------------------
(* The price, and the memory of it.                                        *)

LEMMA TruncatedBounds ==
    ASSUME NEW t \in Ticks, NEW a \in Ticks
    PROVE  LET c == Truncated(t, a)
           IN  /\ c \in Ticks
               /\ c - a <= Cap /\ a - c <= Cap
               /\ c <= t \/ c <= a - Cap \/ c = 0
               /\ t <= c \/ c >= a + Cap
  BY Bounds DEF Truncated, Greater, Lesser

LEMMA SoldMarked ==
    ASSUME NEW c, CellShape(c), NEW x
    PROVE  LET d == [c EXCEPT !.sold = x]
           IN  /\ CellShape(d)
               /\ d.liquidity = c.liquidity /\ d.above = c.above /\ d.sold = x
  BY DEF CellShape

LEMMA WrittenKeeps ==
    ASSUME NEW P, PoolInv(P), NEW t \in Ticks,
           t - P.trunc <= MaxLag, P.trunc - t <= MaxLag
    PROVE  PoolInv(Written(P, t))
<1> DEFINE Q == Written(P, t)
           c == Truncated(t, P.anchor)
<1>1. /\ PoolShape(P) /\ P.cells = [m \in Grid |-> P.cells[m]]
      /\ \A m \in Grid : CellShape(P.cells[m])
  BY DEF PoolInv, Shapes
<1> DEFINE D == [m \in Grid |->
                    [P.cells[m] EXCEPT !.sold = P.cells[m].sold \/ (IsAsk(P, m) /\ Upper(m) <= t)]]
<1>13. Q = [P EXCEPT !.tick = t, !.trunc = c, !.mark = Greater(P.mark, c), !.cells = D]
  BY DEF Written
<1>14. \A m \in Grid : /\ CellShape(D[m])
                         /\ D[m].liquidity = P.cells[m].liquidity /\ D[m].above = P.cells[m].above
                         /\ D[m].sold = (P.cells[m].sold \/ (IsAsk(P, m) /\ Upper(m) <= t))
  <2> SUFFICES ASSUME NEW m \in Grid
               PROVE  /\ CellShape(D[m])
                      /\ D[m].liquidity = P.cells[m].liquidity /\ D[m].above = P.cells[m].above
                      /\ D[m].sold = (P.cells[m].sold \/ (IsAsk(P, m) /\ Upper(m) <= t))
    OBVIOUS
  <2> DEFINE x == P.cells[m].sold \/ (IsAsk(P, m) /\ Upper(m) <= t)
             a == P.cells[m]
  <2>1. D[m] = [a EXCEPT !.sold = x] /\ CellShape(a)
    BY <1>1
  <2> HIDE DEF x, a, D
  <2>2. /\ CellShape(D[m]) /\ D[m].liquidity = a.liquidity /\ D[m].above = a.above
        /\ D[m].sold = x
    BY ONLY <2>1, SoldMarked
  <2> QED
    BY <2>2 DEF x, a
<1>8. D = [m \in Grid |-> D[m]]
  OBVIOUS
<1> HIDE DEF D, Q, c
<1>2. /\ Q.tick = t /\ Q.trunc = c /\ Q.anchor = P.anchor /\ Q.mark = Greater(P.mark, c)
      /\ Q.cells = D /\ PoolShape(Q)
  BY ONLY <1>1, <1>13 DEF PoolShape
<1>11. \A m \in Grid : IsAsk(Q, m) => IsAsk(P, m)
  BY <1>2, <1>14 DEF IsAsk
<1>4. /\ P.tick \in Ticks /\ P.trunc \in Ticks /\ P.anchor \in Ticks /\ P.mark \in Ticks
      /\ P.trunc - P.anchor <= Cap /\ P.anchor - P.trunc <= Cap
  BY DEF PoolInv, Prices
<1>5. /\ c \in Ticks /\ c - P.anchor <= Cap /\ P.anchor - c <= Cap
      /\ c <= t \/ c <= P.anchor - Cap \/ c = 0
      /\ t <= c \/ c >= P.anchor + Cap
  BY <1>4, TruncatedBounds DEF c
<1>6. Prices(Q)
  <2>1. Q.mark \in Ticks
    BY <1>2, <1>4, <1>5 DEF Greater
  <2>2. t - c <= MaxLag /\ c - t <= MaxLag
    <3>1. /\ t \in Int /\ c \in Int /\ P.trunc \in Int /\ P.anchor \in Int
          /\ Cap \in Nat /\ MaxLag \in Nat
      BY <1>4, <1>5, Bounds
    <3>2. t <= c \/ c >= P.trunc
      BY <1>4, <1>5, <3>1
    <3>3. c <= t \/ c <= P.trunc \/ c = 0
      BY <1>4, <1>5, <3>1
    <3>4. t >= 0
      BY Bounds
    <3> QED
      BY <3>1, <3>2, <3>3, <3>4
  <2> QED
    BY <1>2, <1>4, <1>5, <2>1, <2>2 DEF Prices
<1>7. AboveTheMark(Q)
  <2> SUFFICES ASSUME NEW m \in Grid, IsAsk(Q, m), ~Q.cells[m].sold
               PROVE  Q.mark < Upper(m) /\ Q.trunc < Upper(m)
    BY DEF AboveTheMark
  <2>1. /\ P.mark < Upper(m) /\ P.trunc < Upper(m) /\ ~(Upper(m) <= t)
    BY <1>2, <1>11, <1>14 DEF PoolInv, AboveTheMark
  <2>2. Upper(m) \in Int /\ Upper(m) > 0
    BY TopOfCell
  <2>3. c < Upper(m)
    BY <1>4, <1>5, <2>1, <2>2, Bounds
  <2> QED
    BY <1>2, <1>4, <1>5, <2>1, <2>2, <2>3, Bounds DEF Greater
<1>9. PoolInv(Q)
  BY <1>2, <1>6, <1>7, <1>8, <1>14 DEF PoolInv, Shapes
<1> QED
  BY <1>9 DEF Q

(* After a reset the mark is no higher than either price, so what has been *)
(* laid above the prices is above the mark.                                *)
LEMMA ResetClears ==
    ASSUME NEW P, Shapes(P), Prices(P),
           \A m \in Grid : IsAsk(P, m) /\ ~P.cells[m].sold => P.trunc < Upper(m)
    PROVE  PoolInv(Reset(P))
<1> DEFINE Q == Reset(P)
<1>1. /\ Q.tick = P.tick /\ Q.trunc = P.trunc /\ Q.anchor = P.anchor
      /\ Q.mark = Lesser(P.trunc, P.tick) /\ Q.cells = P.cells /\ PoolShape(Q)
  BY DEF Reset, Shapes, PoolShape
<1> HIDE DEF Q
<1>2. Prices(Q)
  BY <1>1, Bounds DEF Prices, Lesser
<1>3. AboveTheMark(Q)
  <2> SUFFICES ASSUME NEW m \in Grid, IsAsk(Q, m), ~Q.cells[m].sold
               PROVE  Q.mark < Upper(m) /\ Q.trunc < Upper(m)
    BY DEF AboveTheMark
  <2>1. P.trunc < Upper(m) /\ P.trunc \in Ticks /\ P.tick \in Ticks /\ Upper(m) \in Int
    BY <1>1, TopOfCell DEF IsAsk, Prices
  <2> QED
    BY <1>1, <2>1, Bounds DEF Lesser
<1>4. PoolInv(Q)
  BY <1>1, <1>2, <1>3 DEF PoolInv, Shapes
<1> QED
  BY <1>4 DEF Q

LEMMA ResetKeeps == ASSUME NEW P, PoolInv(P) PROVE PoolInv(Reset(P))
  BY ResetClears DEF PoolInv, AboveTheMark

---------------------------------------------------------------------------
(* The operations on the book.                                             *)

LEMMA BookWith ==
    ASSUME NEW b, BookInv(b), NEW p \in Pools, NEW Q, PoolInv(Q), NEW R,
           R \in [pool : {R.pool}, live : {R.live}, idle : {R.idle}],
           R.pool = [b.pool EXCEPT ![p] = Q]
    PROVE  BookInv(R)
  BY DEF BookInv

LEMMA EmptyShape == CellShape(Empty) /\ Empty.liquidity = 0
  BY DEF Empty, CellShape

LEMMA ClearedKeeps ==
    ASSUME NEW b, BookInv(b), NEW p \in Pools, NEW S
    PROVE  BookInv(Cleared(b, p, S)) /\ Cleared(b, p, S).pool[p].tick = b.pool[p].tick
<1> DEFINE P == b.pool[p]
           D == [m \in Grid |-> IF m \in S THEN Empty ELSE P.cells[m]]
           Q == [P EXCEPT !.cells = D]
           R == Cleared(b, p, S)
<1>1. PoolInv(P) /\ Shapes(P)
  BY DEF BookInv, PoolInv
<1>2. /\ Q.tick = P.tick /\ Q.trunc = P.trunc /\ Q.anchor = P.anchor /\ Q.mark = P.mark
      /\ Q.cells = D /\ PoolShape(Q)
  BY <1>1 DEF Shapes, PoolShape
<1>3. \A m \in Grid : CellShape(D[m])
  BY <1>1, EmptyShape DEF Shapes
<1>4. Shapes(Q) /\ Prices(Q)
  BY <1>1, <1>2, <1>3 DEF Shapes, Prices, PoolInv
<1>5. AboveTheMark(Q)
  BY <1>1, <1>2, EmptyShape DEF AboveTheMark, IsAsk, PoolInv
<1>6. /\ R \in [pool : {R.pool}, live : {R.live}, idle : {R.idle}]
      /\ R.pool = [b.pool EXCEPT ![p] = Q]
  BY DEF Cleared, BookInv
<1>7. R.pool[p] = Q
  BY <1>6 DEF BookInv
<1> HIDE DEF R, Q, D
<1>8. BookInv(R)
  BY <1>4, <1>5, <1>6, BookWith DEF PoolInv
<1> QED
  BY <1>2, <1>7, <1>8 DEF R

LEMMA StampedKeeps ==
    ASSUME NEW b, BookInv(b), NEW p \in Pools
    PROVE  BookInv(Stamped(b, p))
<1> DEFINE P == b.pool[p]
           Q == [P EXCEPT !.placed = now]
           R == Stamped(b, p)
<1>1. PoolInv(P)
  BY DEF BookInv
<1>2. /\ Q.tick = P.tick /\ Q.trunc = P.trunc /\ Q.anchor = P.anchor /\ Q.mark = P.mark
      /\ Q.cells = P.cells /\ PoolShape(Q)
  BY <1>1 DEF PoolInv, Shapes, PoolShape
<1>3. PoolInv(Q)
  BY <1>1, <1>2 DEF PoolInv, Shapes, Prices, AboveTheMark, IsAsk
<1>4. /\ R \in [pool : {R.pool}, live : {R.live}, idle : {R.idle}]
      /\ R.pool = [b.pool EXCEPT ![p] = Q]
  BY DEF Stamped, BookInv
<1> HIDE DEF R, Q
<1>5. BookInv(R)
  BY <1>3, <1>4, BookWith
<1> QED
  BY <1>5 DEF R

(* Asks are laid where the price has not been, bids are no asks.           *)
LEMMA TargetsAbove ==
    ASSUME NEW P, Prices(P), NEW at \in Ticks, NEW m \in Grid, m \in Targets(P, TRUE, at)
    PROVE  P.tick <= Lower(m) /\ P.trunc < Upper(m)
<1>1. P.tick \in Nat /\ at \in Nat /\ P.trunc \in Int /\ m \in Int /\ P.trunc - P.tick <= MaxLag
  BY Bounds DEF Prices, Grid
<1>2. CeilDiv(P.tick, Width) \in Int /\ CeilDiv(at, Width) \in Int
  BY <1>1, Bounds DEF CeilDiv
<1> DEFINE f == CeilDiv(P.tick, Width)
           g == CeilDiv(at, Width)
<1>3. Targets(P, TRUE, at) = Greater(g, f) .. Lesser(Greater(g, f) + Buckets, Cells) - 1
  BY DEF Targets
<1>4. Greater(g, f) >= f /\ Greater(g, f) \in Int
  BY <1>2 DEF Greater
<1> HIDE DEF f, g
<1>5. Lesser(Greater(g, f) + Buckets, Cells) - 1 \in Int
  BY <1>4, LadderAssumption DEF Lesser
<1>6. m >= Greater(g, f)
  <2> DEFINE lo == Greater(g, f)
             hi == Lesser(lo + Buckets, Cells) - 1
  <2>1. m \in lo .. hi
    BY <1>3
  <2>2. lo \in Int /\ hi \in Int
    BY <1>4, <1>5
  <2> HIDE DEF lo, hi
  <2>3. m >= lo
    BY <2>1, <2>2
  <2> QED
    BY <2>3 DEF lo
<1>7. m >= f
  BY <1>1, <1>2, <1>4, <1>6 DEF f
<1>8. Lower(m) >= P.tick
  BY <1>1, <1>7, CeilReaches DEF f
<1>9. Lower(m) \in Int /\ Upper(m) = Lower(m) + Width
  BY <1>1, CellBounds
<1> QED
  BY <1>1, <1>8, <1>9, Bounds

LEMMA FilledInTargets ==
    ASSUME NEW b, NEW p, NEW above, NEW amount, NEW at
    PROVE  Filled(b, p, above, amount, at) \subseteq Targets(b.pool[p], above, at)
  BY DEF Filled, Opened, Openable, Merged

LEMMA LaidKeeps ==
    ASSUME NEW b, BookInv(b), NEW p \in Pools, NEW above \in BOOLEAN, NEW amount, NEW at \in Ticks
    PROVE  BookInv(Laid(b, p, above, amount, at))
<1> DEFINE P   == b.pool[p]
           S   == Targets(P, above, at)
           new == Opened(b, p, S, above, amount)
           all == Filled(b, p, above, amount, at)
           D   == [m \in Grid |-> IF m \notin all THEN P.cells[m]
                     ELSE [liquidity |-> P.cells[m].liquidity + Share(S, amount, m),
                           above |-> above, sold |-> FALSE]]
           O   == Appended(P, new, above)
           Q   == [P EXCEPT !.cells = D, !.record = O]
           T   == IF above /\ all # {} THEN Reset(Q) ELSE Q
           R   == Laid(b, p, above, amount, at)
<1>1. PoolInv(P) /\ Shapes(P)
  BY DEF BookInv, PoolInv
<1>2. /\ R \in [pool : {R.pool}, live : {R.live}, idle : {R.idle}]
      /\ R.pool = [b.pool EXCEPT ![p] = T]
  BY DEF Laid, BookInv
<1>3. all \subseteq S
  BY FilledInTargets
<1> HIDE DEF R, O, S, new
<1>4. \A m \in Grid : CellShape(D[m])
  BY <1>1 DEF Shapes, CellShape
<1>5. \A m \in Grid : m \notin all => D[m] = P.cells[m]
  OBVIOUS
<1>6. \A m \in Grid : m \in all => D[m].above = above
  OBVIOUS
<1>7. D = [m \in Grid |-> D[m]]
  OBVIOUS
<1> HIDE DEF D, all
<1>8. /\ Q.tick = P.tick /\ Q.trunc = P.trunc /\ Q.anchor = P.anchor /\ Q.mark = P.mark
      /\ Q.cells = D /\ PoolShape(Q)
  BY <1>1 DEF Shapes, PoolShape
<1> HIDE DEF Q
<1>9. Shapes(Q) /\ Prices(Q)
  BY <1>1, <1>4, <1>7, <1>8 DEF Shapes, Prices, PoolInv
<1>10. \A m \in Grid : m \notin all => (IsAsk(Q, m) <=> IsAsk(P, m)) /\ Q.cells[m] = P.cells[m]
  BY <1>5, <1>8 DEF IsAsk
<1>11. CASE above /\ all # {}
  <2>1. ASSUME NEW m \in Grid, IsAsk(Q, m), ~Q.cells[m].sold PROVE Q.trunc < Upper(m)
    <3>1. CASE m \in all
      BY <1>1, <1>3, <1>8, <1>11, <3>1, TargetsAbove DEF PoolInv, S
    <3>2. CASE m \notin all
      BY <1>1, <1>8, <1>10, <2>1, <3>2 DEF PoolInv, AboveTheMark
    <3> QED
      BY <3>1, <3>2
  <2>2. PoolInv(Reset(Q))
    BY <1>9, <2>1, ResetClears
  <2> QED
    BY <1>2, <1>11, <2>2, BookWith DEF R
<1>12. CASE ~(above /\ all # {})
  <2>1. \A m \in Grid : IsAsk(Q, m) => m \notin all
    BY <1>6, <1>8, <1>12 DEF IsAsk
  <2>2. AboveTheMark(Q)
    BY <1>1, <1>8, <1>10, <2>1 DEF PoolInv, AboveTheMark
  <2> QED
    BY <1>2, <1>9, <1>12, <2>2, BookWith DEF R, PoolInv
<1> QED
  BY <1>11, <1>12

LEMMA PlacedKeeps ==
    ASSUME NEW b, BookInv(b), NEW p \in Pools, NEW above \in BOOLEAN, NEW amount, NEW at \in Ticks
    PROVE  BookInv(Placed(b, p, above, amount, at))
<1> DEFINE burned == IF above THEN BoughtBack(b.pool[p]) ELSE {}
           clear  == Cleared(b, p, burned)
           laid   == Laid(clear, p, above, amount, at)
<1>1. BookInv(clear)
  BY ClearedKeeps
<1> HIDE DEF clear
<1>2. BookInv(laid)
  BY <1>1, LaidKeeps
<1> HIDE DEF laid
<1>3. BookInv(Stamped(laid, p))
  BY <1>2, StampedKeeps
<1>4. Placed(b, p, above, amount, at) = laid \/ Placed(b, p, above, amount, at) = Stamped(laid, p)
  BY DEF Placed, laid, clear
<1> QED
  BY <1>2, <1>3, <1>4

LEMMA ResetAt ==
    ASSUME NEW b, BookInv(b), NEW p \in Pools
    PROVE  BookInv([b EXCEPT !.pool[p] = Reset(@)])
<1> DEFINE Q == Reset(b.pool[p])
           R == [b EXCEPT !.pool[p] = Reset(b.pool[p])]
<1>1. PoolInv(Q)
  BY ResetKeeps DEF BookInv
<1>2. /\ R \in [pool : {R.pool}, live : {R.live}, idle : {R.idle}]
      /\ R.pool = [b.pool EXCEPT ![p] = Q]
  BY DEF BookInv
<1> HIDE DEF Q, R
<1>3. BookInv(R)
  BY <1>1, <1>2, BookWith
<1> QED
  BY <1>3 DEF R

LEMMA IdleKeeps ==
    ASSUME NEW b, BookInv(b), NEW x
    PROVE  BookInv([b EXCEPT !.idle = x])
  BY DEF BookInv

(* A harvest takes from asks above the mark, and leaves the others alone.  *)
Left(P, wanted) ==
    [m \in Grid |-> [P.cells[m] EXCEPT !.liquidity = P.cells[m].liquidity - Given(P, wanted, m)]]

LEMMA LeftKeeps ==
    ASSUME NEW b, BookInv(b), NEW p \in Pools, NEW wanted
    PROVE  BookInv([b EXCEPT !.pool[p].cells = Left(b.pool[p], wanted)])
<1> DEFINE P    == b.pool[p]
           left == Left(P, wanted)
           Q    == [P EXCEPT !.cells = left]
           R    == [b EXCEPT !.pool[p].cells = left]
<1>1. PoolInv(P) /\ Shapes(P)
  BY DEF BookInv, PoolInv
<1>2. \A m \in Grid : /\ CellShape(left[m])
                       /\ left[m].above = P.cells[m].above /\ left[m].sold = P.cells[m].sold
                       /\ left[m].liquidity = P.cells[m].liquidity - Given(P, wanted, m)
  BY <1>1 DEF Shapes, CellShape, Left
<1>3. \A m \in Grid : m \notin Movable(P) => Given(P, wanted, m) = 0
  BY DEF Given
<1>4. left = [m \in Grid |-> left[m]]
  BY DEF Left
<1> HIDE DEF left
<1>6. /\ Q.tick = P.tick /\ Q.trunc = P.trunc /\ Q.anchor = P.anchor /\ Q.mark = P.mark
      /\ Q.cells = left /\ PoolShape(Q)
  BY <1>1 DEF Shapes, PoolShape
<1>7. /\ R \in [pool : {R.pool}, live : {R.live}, idle : {R.idle}]
      /\ R.pool = [b.pool EXCEPT ![p] = Q]
  BY DEF BookInv
<1> HIDE DEF Q, R
<1>8. Shapes(Q) /\ Prices(Q)
  BY <1>1, <1>2, <1>4, <1>6 DEF Shapes, Prices, PoolInv
<1>9. \A m \in Grid : IsAsk(Q, m) => IsAsk(P, m)
  <2> SUFFICES ASSUME NEW m \in Grid, IsAsk(Q, m) PROVE IsAsk(P, m)
    OBVIOUS
  <2>1. Q.cells[m].above /\ P.cells[m].above /\ Q.cells[m].liquidity # 0
    BY <1>2, <1>6 DEF IsAsk
  <2>2. CASE m \in Movable(P)
    BY <2>2 DEF Movable
  <2>3. CASE m \notin Movable(P)
    <3>1. Q.cells[m].liquidity = P.cells[m].liquidity - 0
      BY <1>2, <1>3, <1>6, <2>3
    <3>2. P.cells[m].liquidity # 0
      BY <2>1, <3>1
    <3> QED
      BY <2>1, <3>2 DEF IsAsk
  <2> QED
    BY <2>2, <2>3
<1>10. AboveTheMark(Q)
  BY <1>1, <1>2, <1>6, <1>9 DEF AboveTheMark, PoolInv
<1>11. BookInv(R)
  BY <1>7, <1>8, <1>10, BookWith DEF PoolInv
<1> QED
  BY <1>11 DEF R, left

LEMMA HarvestedKeeps ==
    ASSUME NEW b, BookInv(b), NEW p \in Pools, NEW wanted
    PROVE  BookInv(Harvested(b, p, wanted))
<1> DEFINE P    == b.pool[p]
           L    == [b EXCEPT !.pool[p].cells = Left(P, wanted)]
           spent == {m \in Movable(P) : Left(P, wanted)[m].liquidity = 0}
           C    == Cleared(L, p, spent)
<1>1. Harvested(b, p, wanted) = [C EXCEPT !.idle = C.idle + wanted]
  BY DEF Harvested, Left
<1>2. BookInv(L)
  BY LeftKeeps
<1> HIDE DEF L, spent
<1>3. BookInv(C)
  BY <1>2, ClearedKeeps
<1> HIDE DEF C
<1> QED
  BY <1>1, <1>3, IdleKeeps

---------------------------------------------------------------------------
(* The steps.                                                              *)

LEMMA LadderInit == Init => LadderInv
<1> SUFFICES ASSUME Init PROVE LadderInv
  OBVIOUS
<1>1. \A p \in Pools : PoolInv(pool[p])
  <2> SUFFICES ASSUME NEW p \in Pools PROVE PoolInv(pool[p])
    OBVIOUS
  <2>1. /\ pool[p].tick = Start[p] /\ pool[p].trunc = Start[p] /\ pool[p].anchor = Start[p]
        /\ pool[p].mark = Start[p] /\ pool[p].cells = [m \in Grid |-> Empty]
        /\ PoolShape(pool[p])
    BY DEF Init, PoolShape
  <2>2. Start[p] \in Ticks
    BY LadderAssumption
  <2>3. Shapes(pool[p]) /\ AboveTheMark(pool[p])
    BY <2>1, EmptyShape DEF Shapes, AboveTheMark, IsAsk
  <2>4. Prices(pool[p])
    BY <2>1, <2>2, Bounds DEF Prices
  <2> QED
    BY <2>3, <2>4 DEF PoolInv
<1> QED
  BY <1>1 DEF Init, LadderInv, BookInv, Book

LEMMA BecomesInv == ASSUME NEW b, BookInv(b), Becomes(b) PROVE LadderInv'
  BY DEF Becomes, BookInv, LadderInv, Book

LEMMA PlaceInv ==
    ASSUME LadderInv, NEW p \in Pools, NEW above \in BOOLEAN, NEW amount, NEW at \in Ticks,
           Place(p, above, amount, at)
    PROVE  LadderInv'
<1>1. BookInv(Placed(Book, p, above, amount, at))
  BY PlacedKeeps DEF LadderInv
<1>2. Becomes(Placed(Book, p, above, amount, at))
  BY DEF Place
<1> QED
  BY <1>1, <1>2, BecomesInv

LEMMA CompoundInv ==
    ASSUME LadderInv, NEW p \in Pools, NEW fees, NEW at \in Ticks, Compound(p, fees, at)
    PROVE  LadderInv'
<1> DEFINE burned == BoughtBack(pool[p])
           clear  == Burnback(Book, p)
           laid   == Laid(clear, p, FALSE, fees, at)
           reset  == [laid EXCEPT !.pool[p] = Reset(@)]
           after  == IF burned = {} THEN laid ELSE reset
           moved  == burned # {} \/ Filled(clear, p, FALSE, fees, at) # {}
<1>1. BookInv(clear)
  BY ClearedKeeps DEF LadderInv, Burnback
<1>2. Becomes(IF moved THEN Stamped(after, p) ELSE after)
  BY DEF Compound
<1> HIDE DEF clear, burned, moved
<1>3. BookInv(laid)
  BY <1>1, LaidKeeps
<1> HIDE DEF laid
<1>4. BookInv(reset)
  BY <1>3, ResetAt
<1> HIDE DEF reset
<1>5. BookInv(after)
  BY <1>3, <1>4
<1> HIDE DEF after
<1>6. BookInv(Stamped(after, p))
  BY <1>5, StampedKeeps
<1> QED
  BY <1>2, <1>5, <1>6, BecomesInv

LEMMA SpokeInv ==
    ASSUME LadderInv,
           \/ \E amount \in Bonded, at \in Anchors : DeployBonded(amount, at)
           \/ WithdrawRetiredBids
    PROVE  LadderInv'
<1> Spoke \in Pools
  BY DEF Pools
<1>1. ASSUME NEW amount \in Bonded, NEW at \in Anchors, DeployBonded(amount, at) PROVE LadderInv'
  <2>1. BookInv(Placed(Book, Spoke, FALSE, amount, at))
    BY PlacedKeeps, LadderAssumption DEF LadderInv
  <2>2. Becomes(Placed(Book, Spoke, FALSE, amount, at))
    BY <1>1 DEF DeployBonded
  <2> QED
    BY <2>1, <2>2, BecomesInv
<1>2. CASE WithdrawRetiredBids
  <2> DEFINE P    == pool[Spoke]
             bids == {m \in Grid : IsBid(P, m)}
             C    == Cleared(Book, Spoke, bids)
             x    == C.idle + Sum([m \in Grid |-> AmpsIn(P, m)], bids)
             R    == [C EXCEPT !.idle = x]
  <2>1. Becomes(Stamped(R, Spoke))
    BY <1>2 DEF WithdrawRetiredBids
  <2>2. BookInv(C)
    BY ClearedKeeps DEF LadderInv
  <2> HIDE DEF C, x
  <2>3. BookInv(R)
    BY <2>2, IdleKeeps
  <2> HIDE DEF R
  <2>4. BookInv(Stamped(R, Spoke))
    BY <2>3, StampedKeeps
  <2> QED
    BY <2>1, <2>4, BecomesInv
<1> QED
  BY <1>1, <1>2

LEMMA RolloutInv ==
    ASSUME LadderInv, NEW amount, NEW at \in Ticks, NEW back \in Ticks, Rollout(amount, at, back)
    PROVE  LadderInv'
<1> Spoke \in Pools /\ Hub \in Pools
  BY DEF Pools
<1> DEFINE freed == Harvested(Book, Hub, amount)
           there == Placed(freed, Spoke, TRUE, amount, at)
           rest  == amount - Taken(freed, Spoke, TRUE, amount, at)
           again == Placed(there, Hub, TRUE, rest, back)
           home  == IF rest = 0 THEN there ELSE again
<1>1. Becomes(Stamped(home, Hub))
  BY DEF Rollout
<1>2. BookInv(freed)
  BY HarvestedKeeps DEF LadderInv
<1> HIDE DEF freed, rest
<1>3. BookInv(there)
  BY <1>2, PlacedKeeps
<1> HIDE DEF there
<1>4. BookInv(again)
  BY <1>3, PlacedKeeps
<1> HIDE DEF again
<1>5. BookInv(home)
  BY <1>3, <1>4
<1> HIDE DEF home
<1>6. BookInv(Stamped(home, Hub))
  BY <1>5, StampedKeeps
<1> QED
  BY <1>1, <1>6, BecomesInv

LEMMA SwapInv ==
    ASSUME LadderInv, NEW p \in Pools, NEW t \in Ticks, Swap(p, t) PROVE LadderInv'
<1>1. PoolInv(Written(pool[p], t))
  BY WrittenKeeps DEF LadderInv, BookInv, Book, Swap
<1>2. pool' = [pool EXCEPT ![p] = Written(pool[p], t)]
  BY DEF Swap
<1> QED
  BY <1>1, <1>2 DEF LadderInv, BookInv, Book

(* A block moves the anchor to where the truncated price stands.           *)
LEMMA TickInv == ASSUME LadderInv, Tick PROVE LadderInv'
<1>1. pool' = [p \in Pools |-> [pool[p] EXCEPT !.anchor = pool[p].trunc]]
  BY DEF Tick
<1>2. ASSUME NEW p \in Pools PROVE PoolInv(pool'[p])
  <2> DEFINE P == pool[p]
             Q == [P EXCEPT !.anchor = P.trunc]
  <2>1. PoolInv(P)
    BY DEF LadderInv, BookInv, Book
  <2>2. /\ Q.tick = P.tick /\ Q.trunc = P.trunc /\ Q.anchor = P.trunc /\ Q.mark = P.mark
        /\ Q.cells = P.cells /\ PoolShape(Q)
    BY <2>1 DEF PoolInv, Shapes, PoolShape
  <2>3. pool'[p] = Q
    BY <1>1
  <2> HIDE DEF Q
  <2>4. Shapes(Q) /\ AboveTheMark(Q)
    BY <2>1, <2>2 DEF PoolInv, Shapes, AboveTheMark, IsAsk
  <2>5. Prices(Q)
    BY <2>1, <2>2, Bounds DEF PoolInv, Prices
  <2> QED
    BY <2>3, <2>4, <2>5 DEF PoolInv
<1> QED
  BY <1>1, <1>2 DEF LadderInv, BookInv, Book

LEMMA LadderStep == LadderInv /\ [Next]_vars => LadderInv'
<1> SUFFICES ASSUME LadderInv, [Next]_vars PROVE LadderInv'
  OBVIOUS
<1> Anchors \subseteq Ticks /\ Traded \subseteq Pools
  BY LadderAssumption
<1>1. CASE \E p \in Pools, above \in BOOLEAN, amount \in Amounts, at \in Anchors :
             Place(p, above, amount, at)
  BY <1>1, PlaceInv
<1>2. CASE \E p \in Traded, fees \in Fees, at \in Anchors : Compound(p, fees, at)
  BY <1>2, CompoundInv
<1>3. CASE \/ \E amount \in Bonded, at \in Anchors : DeployBonded(amount, at)
           \/ WithdrawRetiredBids
  BY <1>3, SpokeInv
<1>4. CASE \E amount \in 1 .. Allowance, at \in Anchors, back \in Anchors : Rollout(amount, at, back)
  BY <1>4, RolloutInv
<1>5. CASE \E p \in Traded, t \in Ticks : Swap(p, t)
  BY <1>5, SwapInv
<1>6. CASE Retire \/ UNCHANGED vars
  BY <1>6 DEF Retire, vars, LadderInv, BookInv, Book
<1>7. CASE Tick
  BY <1>7, TickInv
<1> QED
  BY <1>1, <1>2, <1>3, <1>4, <1>5, <1>6, <1>7 DEF Next

(* The inductive invariant: prices that follow each other, and asks above  *)
(* the mark and the truncated price until they are sold.                   *)
THEOREM LadderInvariant == Spec => []LadderInv
  BY LadderInit, LadderStep, PTL DEF Spec

(* What a burnback burns was sold and bought back, whatever the ladders,   *)
(* caps and budgets, and however placements, rollouts, compounds and swaps *)
(* interleave (VaultPlacementLib._burnback, TruncatedOracleLib).           *)
THEOREM OnlySoldIsBurned == Spec => []MarkedMeansSold
<1>1. LadderInv => MarkedMeansSold
  <2> SUFFICES ASSUME LadderInv, NEW p \in Pools, NEW m \in Grid, IsAsk(pool[p], m),
                      Upper(m) <= pool[p].mark, ~pool[p].cells[m].sold
               PROVE  FALSE
    BY DEF MarkedMeansSold
  <2>1. PoolInv(pool[p])
    BY DEF LadderInv, BookInv, Book
  <2>2. pool[p].mark < Upper(m) /\ pool[p].mark \in Int /\ Upper(m) \in Int
    BY <2>1, TopOfCell, Bounds DEF PoolInv, AboveTheMark, Prices
  <2> QED
    BY <2>2
<1> QED
  BY <1>1, LadderInvariant, PTL

---------------------------------------------------------------------------
(* The counts.                                                             *)

Lit(P) == {m \in Grid : P.cells[m].liquidity # 0}

(* Records are numbered without a gap reused, and liquidity has a record.  *)
Filed(P) ==
    /\ P.record \in [Grid -> Nat]
    /\ \A m \in Grid : P.record[m] <= Cardinality(Recorded(P))
    /\ \A m, n \in Recorded(P) : P.record[m] = P.record[n] => m = n
    /\ Lit(P) \subseteq Recorded(P)

Stocked(P) == (\A m \in Grid : P.cells[m] \in Cell) /\ P.placed \in Nat /\ Filed(P)

LitOf(b) == Cardinality(Lit(b.pool[Hub])) + Cardinality(Lit(b.pool[Spoke]))

Counted(b) ==
    /\ \A p \in Pools : Stocked(b.pool[p])
    /\ b.live = LitOf(b) /\ b.live <= MaxLive /\ b.idle \in Nat

LEMMA GridFinite ==
    /\ IsFiniteSet(Grid) /\ Grid \subseteq Nat
    /\ \A S \in SUBSET Grid : IsFiniteSet(S) /\ Cardinality(S) \in Nat
<1>1. IsFiniteSet(Grid) /\ Grid \subseteq Nat
  BY Bounds, FS_Interval DEF Grid
<1> QED
  BY <1>1, FS_Subset, FS_CardinalityType

LEMMA LitFinite ==
    ASSUME NEW P
    PROVE  /\ Lit(P) \in SUBSET Grid /\ IsFiniteSet(Lit(P)) /\ Cardinality(Lit(P)) \in Nat
           /\ Recorded(P) \in SUBSET Grid /\ IsFiniteSet(Recorded(P))
           /\ Cardinality(Recorded(P)) \in Nat
  BY GridFinite DEF Lit, Recorded

(* What is lit apart, and what is lit and put out.                         *)
LEMMA CardJoins ==
    ASSUME NEW A \in SUBSET Grid, NEW B \in SUBSET Grid, A \cap B = {}
    PROVE  Cardinality(A \cup B) = Cardinality(A) + Cardinality(B)
<1>1. Cardinality(A \cup B) = Cardinality(A) + Cardinality(B) - Cardinality(A \cap B)
  BY GridFinite, FS_Union
<1>2. Cardinality(A \cap B) = 0
  BY FS_EmptySet
<1> QED
  BY <1>1, <1>2, GridFinite

LEMMA CardParts ==
    ASSUME NEW A \in SUBSET Grid, NEW B \in SUBSET A
    PROVE  Cardinality(A \ B) = Cardinality(A) - Cardinality(B)
<1>1. (A \ B) \cup B = A /\ (A \ B) \cap B = {} /\ A \ B \in SUBSET Grid /\ B \in SUBSET Grid
  OBVIOUS
<1>2. Cardinality((A \ B) \cup B) = Cardinality(A \ B) + Cardinality(B)
  BY <1>1, CardJoins
<1> QED
  BY <1>1, <1>2, GridFinite

(* Of two books that differ in one pool, the counts differ as that pool's. *)
Elsewhere(b, c, p) == \A q \in Pools : q # p => c.pool[q] = b.pool[q]

LEMMA CountMoves ==
    ASSUME NEW b, Counted(b), NEW c, NEW p \in Pools, Elsewhere(b, c, p),
           c.live = b.live - Cardinality(Lit(b.pool[p])) + Cardinality(Lit(c.pool[p])),
           Stocked(c.pool[p]), c.live <= MaxLive, c.idle \in Nat
    PROVE  Counted(c)
<1>1. Hub # Spoke /\ Hub \in Pools /\ Spoke \in Pools /\ (p = Hub \/ p = Spoke)
  BY LadderAssumption DEF Pools
<1>2. /\ \A q \in Pools : Stocked(c.pool[q])
      /\ \A q \in Pools : q # p => Lit(c.pool[q]) = Lit(b.pool[q])
  BY DEF Elsewhere, Counted
<1>3. \A q \in Pools : Cardinality(Lit(b.pool[q])) \in Nat /\ Cardinality(Lit(c.pool[q])) \in Nat
  BY LitFinite
<1>4. b.live = Cardinality(Lit(b.pool[Hub])) + Cardinality(Lit(b.pool[Spoke]))
  BY DEF Counted, LitOf
<1>5. c.live = Cardinality(Lit(c.pool[Hub])) + Cardinality(Lit(c.pool[Spoke]))
  <2>1. CASE p = Hub
    BY <1>1, <1>2, <1>3, <1>4, <2>1
  <2>2. CASE p = Spoke
    BY <1>1, <1>2, <1>3, <1>4, <2>2
  <2> QED
    BY <1>1, <2>1, <2>2
<1> QED
  BY <1>2, <1>5 DEF Counted, LitOf

(* What the operations do to a book, field by field.                       *)
LEMMA ClearedMeans ==
    ASSUME NEW b, BookInv(b), NEW p \in Pools, NEW S
    PROVE  LET P == b.pool[p]
               R == Cleared(b, p, S)
               Q == R.pool[p]
           IN  /\ Elsewhere(b, R, p)
               /\ \A m \in Grid : Q.cells[m] = IF m \in S THEN Empty ELSE P.cells[m]
               /\ Q.record = P.record /\ Q.placed = P.placed
               /\ Q.tick = P.tick /\ Q.trunc = P.trunc /\ Q.mark = P.mark
               /\ R.live = b.live - Cardinality(S) /\ R.idle = b.idle
<1> DEFINE P == b.pool[p]
           D == [m \in Grid |-> IF m \in S THEN Empty ELSE P.cells[m]]
           Q == [P EXCEPT !.cells = D]
           R == Cleared(b, p, S)
<1>1. PoolShape(P)
  BY DEF BookInv, PoolInv, Shapes
<1>2. /\ R.pool = [b.pool EXCEPT ![p] = Q]
      /\ R.live = b.live - Cardinality(S) /\ R.idle = b.idle
  BY DEF Cleared, BookInv
<1>3. R.pool[p] = Q /\ Elsewhere(b, R, p)
  BY <1>2 DEF BookInv, Elsewhere
<1>4. \A m \in Grid : D[m] = IF m \in S THEN Empty ELSE P.cells[m]
  OBVIOUS
<1> HIDE DEF D
<1>5. /\ Q.cells = D /\ Q.record = P.record /\ Q.placed = P.placed
      /\ Q.tick = P.tick /\ Q.trunc = P.trunc /\ Q.mark = P.mark
  BY <1>1 DEF PoolShape
<1> HIDE DEF Q, R
<1>6. \A m \in Grid : R.pool[p].cells[m] = IF m \in S THEN Empty ELSE P.cells[m]
  BY <1>3, <1>4, <1>5
<1> QED
  BY <1>2, <1>3, <1>5, <1>6 DEF R

LEMMA EmptyIsCell == Empty \in Cell /\ Empty.liquidity = 0
  BY DEF Empty, Cell

LEMMA ClearedCounts ==
    ASSUME NEW b, BookInv(b), Counted(b), NEW p \in Pools, NEW S \in SUBSET Lit(b.pool[p])
    PROVE  Counted(Cleared(b, p, S))
<1> DEFINE P == b.pool[p]
           R == Cleared(b, p, S)
           Q == R.pool[p]
<1>1. /\ Elsewhere(b, R, p)
      /\ \A m \in Grid : Q.cells[m] = IF m \in S THEN Empty ELSE P.cells[m]
      /\ Q.record = P.record /\ Q.placed = P.placed
      /\ R.live = b.live - Cardinality(S) /\ R.idle = b.idle
  BY ClearedMeans
<1> HIDE DEF R
<1>2. Lit(Q) = Lit(P) \ S
  BY <1>1, EmptyIsCell DEF Lit
<1>3. Cardinality(Lit(Q)) = Cardinality(Lit(P)) - Cardinality(S)
  BY <1>2, CardParts, LitFinite
<1>4. /\ Cardinality(S) \in Nat /\ Cardinality(Lit(P)) \in Nat
      /\ b.live \in Nat /\ b.live <= MaxLive /\ MaxLive \in Nat
  BY LitFinite, GridFinite, LadderAssumption DEF Counted, LitOf
<1>5. Stocked(Q)
  <2>1. Stocked(P)
    BY DEF Counted
  <2>2. \A m \in Grid : Q.cells[m] \in Cell
    BY <1>1, <2>1, EmptyIsCell DEF Stocked
  <2>3. Recorded(Q) = Recorded(P)
    BY <1>1 DEF Recorded
  <2>4. Filed(Q)
    BY <1>1, <1>2, <2>1, <2>3 DEF Filed, Stocked
  <2> QED
    BY <1>1, <2>1, <2>2, <2>4 DEF Stocked
<1>6. R.live = b.live - Cardinality(Lit(P)) + Cardinality(Lit(Q)) /\ R.live <= MaxLive
  BY <1>1, <1>3, <1>4
<1>7. R.idle \in Nat
  BY <1>1 DEF Counted
<1> QED
  BY <1>1, <1>5, <1>6, <1>7, CountMoves DEF R

LEMMA StampedMeans ==
    ASSUME NEW b, BookInv(b), NEW p \in Pools
    PROVE  LET P == b.pool[p]
               R == Stamped(b, p)
               Q == R.pool[p]
           IN  /\ Elsewhere(b, R, p)
               /\ Q.cells = P.cells /\ Q.record = P.record /\ Q.placed = now
               /\ Q.tick = P.tick /\ Q.trunc = P.trunc /\ Q.mark = P.mark
               /\ R.live = b.live /\ R.idle = b.idle
<1> DEFINE P == b.pool[p]
           Q == [P EXCEPT !.placed = now]
           R == Stamped(b, p)
<1>1. PoolShape(P)
  BY DEF BookInv, PoolInv, Shapes
<1>2. R.pool = [b.pool EXCEPT ![p] = Q] /\ R.live = b.live /\ R.idle = b.idle
  BY DEF Stamped, BookInv
<1>3. R.pool[p] = Q /\ Elsewhere(b, R, p)
  BY <1>2 DEF BookInv, Elsewhere
<1>4. /\ Q.cells = P.cells /\ Q.record = P.record /\ Q.placed = now
      /\ Q.tick = P.tick /\ Q.trunc = P.trunc /\ Q.mark = P.mark
  BY <1>1 DEF PoolShape
<1> HIDE DEF Q, R
<1> QED
  BY <1>2, <1>3, <1>4 DEF R

LEMMA SameCounts ==
    ASSUME NEW b, Counted(b), NEW c, NEW p \in Pools, Elsewhere(b, c, p),
           c.pool[p].cells = b.pool[p].cells, c.pool[p].record = b.pool[p].record,
           c.pool[p].placed \in Nat, c.live = b.live, c.idle \in Nat
    PROVE  Counted(c)
<1> DEFINE P == b.pool[p]
           Q == c.pool[p]
<1>1. Lit(Q) = Lit(P) /\ Recorded(Q) = Recorded(P)
  BY DEF Lit, Recorded
<1>2. Stocked(Q)
  BY <1>1 DEF Counted, Stocked, Filed
<1>3. /\ Cardinality(Lit(P)) \in Nat /\ b.live \in Nat /\ b.live <= MaxLive
  BY LitFinite DEF Counted, LitOf
<1> QED
  BY <1>1, <1>2, <1>3, CountMoves

LEMMA StampedCounts ==
    ASSUME NEW b, BookInv(b), Counted(b), NEW p \in Pools, now \in Nat
    PROVE  Counted(Stamped(b, p))
  BY StampedMeans, SameCounts DEF Counted

(* Equal weights, the remainder in the highest cell: the shares of a row   *)
(* are what is placed, and those of a part no more.                        *)
LEMMA SharesAddUp ==
    ASSUME NEW lo \in Int, NEW hi \in Int, NEW S, S = lo .. hi, NEW amount \in Nat,
           NEW T \in SUBSET S
    PROVE  /\ \A m \in S : Share(S, amount, m) \in Nat
           /\ Sum([m \in S |-> Share(S, amount, m)], T) \in 0 .. amount
<1>1. CASE S = {}
  <2>1. T = {}
    BY <1>1
  <2> QED
    BY <1>1, <2>1, SumEmpty DEF Sum
<1>2. CASE S # {}
  <2> DEFINE n    == Cardinality(S)
             each == amount \div n
             f    == [m \in S |-> Share(S, amount, m)]
  <2>0. lo <= hi /\ hi \in S
    BY <1>2
  <2>1. hi \in S /\ IsFiniteSet(S) /\ n \in Nat /\ n > 0
    BY <2>0, FS_Interval
  <2>2. \A m \in S : (\E x \in S : x > m) <=> m # hi
    BY <2>0
  <2>3. \A m \in S : f[m] = IF m # hi THEN each ELSE amount - (n - 1) * each
    BY <2>2 DEF Share
  <2> HIDE DEF n
  <2>4. each \in Nat /\ n * each <= amount /\ (n - 1) * each = n * each - each
        /\ n * each \in Nat
    <3>1. each \in Nat /\ n * each <= amount
      BY <2>1
    <3> HIDE DEF each
    <3> QED
      BY <2>1, <3>1
  <2>5. \A m \in S : f[m] = Share(S, amount, m)
    OBVIOUS
  <2>6. IsFiniteSet(S \ {hi}) /\ Cardinality(S \ {hi}) = n - 1
    BY <2>1, FS_RemoveElement DEF n
  <2> HIDE DEF each, f
  <2>7. \A m \in S : f[m] \in Nat /\ f[m] \in Int
    <3>1. amount - (n - 1) * each \in Nat
      BY <2>4
    <3> QED
      BY <2>3, <2>4, <3>1
  <2>8. SumFunctionOnSet(f, S) = f[hi] + SumFunctionOnSet(f, S \ {hi})
    BY <2>1, <2>7, SumTakesOut
  <2>9. SumFunctionOnSet(f, S \ {hi}) = Cardinality(S \ {hi}) * each
    <3>1. /\ each \in Int /\ IsFiniteSet(S \ {hi})
          /\ \A m \in S \ {hi} : f[m] = each
      BY <2>3, <2>4, <2>6
    <3> QED
      BY ONLY <3>1, SumConstant
  <2>10. SumFunctionOnSet(f, S) = amount
    BY <2>1, <2>3, <2>4, <2>6, <2>8, <2>9
  <2>11. SumFunctionOnSet(f, T) <= SumFunctionOnSet(f, S)
    BY <2>1, <2>7, SumOfPartAtMost
  <2>12. SumFunctionOnSet(f, T) \in Nat
    BY <2>1, <2>7, SumNat, FS_Subset
  <2> QED
    BY <2>5, <2>7, <2>10, <2>11, <2>12 DEF f, Sum
<1> QED
  BY <1>1, <1>2

(* What a ladder aims at is a row of cells of the grid.                    *)
LEMMA TargetsAreRow ==
    ASSUME NEW P, P.tick \in Ticks, NEW above \in BOOLEAN, NEW at \in Ticks
    PROVE  /\ Targets(P, above, at) \in SUBSET Grid
           /\ \E lo, hi \in Int : Targets(P, above, at) = lo .. hi
<1>1. P.tick \in Nat /\ at \in Nat /\ Cells \in Nat /\ Buckets \in Nat
  BY Bounds, LadderAssumption
<1>2. CASE above
  <2> DEFINE f == CeilDiv(at, Width)
             g == CeilDiv(P.tick, Width)
             lo == Greater(f, g)
             hi == Lesser(lo + Buckets, Cells) - 1
  <2>1. f \in Nat /\ g \in Nat
    BY <1>1, Bounds DEF CeilDiv
  <2>2. Targets(P, above, at) = lo .. hi
    BY <1>2 DEF Targets
  <2> HIDE DEF f, g
  <2>3. lo \in Nat
    BY <2>1 DEF Greater
  <2>4. hi \in Int /\ hi <= Cells - 1
    BY <1>1, <2>3 DEF Lesser
  <2> HIDE DEF lo, hi
  <2>5. lo .. hi \subseteq Grid
    BY <1>1, <2>3, <2>4 DEF Grid
  <2> QED
    BY <2>2, <2>3, <2>4, <2>5
<1>3. CASE ~above
  <2> DEFINE f == at \div Width
             g == P.tick \div Width
             hi == Lesser(Lesser(f, g), Cells) - 1
             lo == Greater(hi - Buckets + 1, 0)
  <2>1. f \in Nat /\ g \in Nat
    BY <1>1, Bounds
  <2>2. Targets(P, above, at) = lo .. hi
    BY <1>3 DEF Targets
  <2> HIDE DEF f, g
  <2>3. hi \in Int /\ hi <= Cells - 1
    BY <1>1, <2>1 DEF Lesser
  <2> HIDE DEF hi
  <2>4. lo \in Nat
    BY <1>1, <2>3 DEF Greater
  <2> HIDE DEF lo
  <2>5. lo .. hi \subseteq Grid
    BY <1>1, <2>3, <2>4 DEF Grid
  <2> QED
    BY <2>2, <2>3, <2>4, <2>5
<1> QED
  BY <1>2, <1>3

(* The cell a ladder would come to last.                                   *)
LEMMA FurthestCell ==
    ASSUME NEW T \in SUBSET Grid, T # {}, NEW above \in BOOLEAN
    PROVE  \E m \in T : \A x \in T : x # m => Nearer(above, x, m)
<1>0. \A m \in T : m \in Nat /\ m < Cells /\ Cells - m \in Nat
  BY Bounds DEF Grid
<1>1. CASE above
  <2> DEFINE U == {n \in Nat : \E m \in T : n = Cells - m}
  <2>1. U # {} /\ U \in SUBSET Nat
    BY <1>0
  <2>2. PICK n \in U : \A k \in U : n <= k
    BY <2>1, LeastElement
  <2>3. PICK m \in T : n = Cells - m
    OBVIOUS
  <2>4. \A x \in T : Cells - x \in U
    BY <1>0
  <2>5. \A x \in T : x <= m
    <3> SUFFICES ASSUME NEW x \in T PROVE x <= m
      OBVIOUS
    <3>1. n <= Cells - x
      BY <2>2, <2>4
    <3>2. x \in Nat /\ m \in Nat /\ Cells \in Nat
      BY <1>0, Bounds
    <3> QED
      BY <2>3, <3>1, <3>2
  <2> QED
    BY <1>0, <1>1, <2>5 DEF Nearer
<1>2. CASE ~above
  <2>1. T \in SUBSET Nat
    BY <1>0
  <2>2. PICK m \in T : \A x \in T : m <= x
    BY <2>1, LeastElement
  <2> QED
    BY <1>0, <1>2, <2>2 DEF Nearer
<1> QED
  BY <1>1, <1>2

(* Cells are opened while the budget lasts, and no longer.                 *)
LEMMA OpenedFits ==
    ASSUME NEW b, b.live \in Nat, b.live <= MaxLive, NEW p, NEW S \in SUBSET Grid,
           NEW above \in BOOLEAN, NEW amount
    PROVE  LET new == Opened(b, p, S, above, amount)
           IN  /\ new \in SUBSET S /\ Cardinality(new) \in Nat
               /\ \A m \in new : b.pool[p].cells[m].liquidity = 0 /\ Share(S, amount, m) # 0
               /\ b.live + Cardinality(new) <= MaxLive
<1> DEFINE new == Opened(b, p, S, above, amount)
           free == Openable(b.pool[p], S, amount)
<1>1. /\ free \in SUBSET S /\ new \in SUBSET free /\ free \in SUBSET Grid
      /\ \A m \in new : b.pool[p].cells[m].liquidity = 0 /\ Share(S, amount, m) # 0
      /\ \A m \in new : b.live + Cardinality({x \in free : Nearer(above, x, m)}) < MaxLive
  BY DEF Opened, Openable
<1> HIDE DEF new, free
<1>2. IsFiniteSet(new) /\ Cardinality(new) \in Nat /\ MaxLive \in Nat
  BY <1>1, GridFinite, LadderAssumption
<1>3. b.live + Cardinality(new) <= MaxLive
  <2>1. CASE new = {}
    BY <1>2, <2>1, FS_EmptySet
  <2>2. CASE new # {}
    <3>1. PICK m \in new : \A x \in new : x # m => Nearer(above, x, m)
      BY <1>1, <2>2, FurthestCell
    <3> DEFINE N == {x \in free : Nearer(above, x, m)}
    <3>2. new \ {m} \in SUBSET N /\ N \in SUBSET Grid
      BY <1>1, <3>1
    <3>3. b.live + Cardinality(N) < MaxLive
      BY <1>1
    <3> HIDE DEF N
    <3>4. Cardinality(new \ {m}) <= Cardinality(N) /\ Cardinality(N) \in Nat
      BY <3>2, GridFinite, FS_Subset
    <3>5. Cardinality(new \ {m}) = Cardinality(new) - 1
      BY <1>2, FS_RemoveElement
    <3> QED
      BY <1>2, <3>3, <3>4, <3>5
  <2> QED
    BY <2>1, <2>2
<1> QED
  BY <1>1, <1>2, <1>3 DEF new

(* The records appended are numbered on from those there are.              *)
LEMMA RankRises ==
    ASSUME NEW F \in SUBSET Grid, NEW above \in BOOLEAN, NEW m \in F, NEW n \in F,
           Nearer(above, m, n)
    PROVE  /\ Cardinality({x \in F : Nearer(above, x, m)}) \in Nat
           /\ Cardinality({x \in F : Nearer(above, x, m)})
                < Cardinality({x \in F : Nearer(above, x, n)})
<1> DEFINE A == {x \in F : Nearer(above, x, m)}
           B == {x \in F : Nearer(above, x, n)}
<1>1. \A x \in F : x \in Int
  BY Bounds DEF Grid
<1>2. /\ A \in SUBSET Grid /\ B \in SUBSET Grid /\ m \in B /\ m \notin A /\ A \cup {m} \in SUBSET B
  BY <1>1 DEF Nearer
<1> HIDE DEF A, B
<1>3. Cardinality(A \cup {m}) = Cardinality(A) + 1
  BY <1>2, GridFinite, FS_AddElement
<1>4. Cardinality(A \cup {m}) <= Cardinality(B)
  BY <1>2, GridFinite, FS_Subset
<1> QED
  BY <1>2, <1>3, <1>4, GridFinite DEF A, B

LEMMA AppendedFiles ==
    ASSUME NEW P, Filed(P), NEW new \in SUBSET Grid, NEW above \in BOOLEAN,
           NEW Q, Q.record = Appended(P, new, above), Lit(Q) = Lit(P) \cup new
    PROVE  Filed(Q)
<1> DEFINE F == new \ Recorded(P)
           N == Cardinality(Recorded(P))
           rank(m) == Cardinality({x \in F : Nearer(above, x, m)})
<1>1. /\ P.record \in [Grid -> Nat] /\ \A m \in Grid : P.record[m] <= N
      /\ \A m, n \in Recorded(P) : P.record[m] = P.record[n] => m = n
      /\ Lit(P) \subseteq Recorded(P) /\ Recorded(P) \in SUBSET Grid /\ N \in Nat
  BY LitFinite DEF Filed
<1>2. F \in SUBSET Grid /\ F \cap Recorded(P) = {} /\ F \subseteq new
      /\ Cardinality(F) \in Nat /\ IsFiniteSet(F)
  BY GridFinite
<1>3. /\ Q.record = [m \in Grid |-> IF m \notin F THEN P.record[m] ELSE N + 1 + rank(m)]
  BY DEF Appended
<1>4. \A m \in F : rank(m) \in Nat /\ rank(m) < Cardinality(F)
  <2> SUFFICES ASSUME NEW m \in F PROVE rank(m) \in Nat /\ rank(m) < Cardinality(F)
    OBVIOUS
  <2> DEFINE B == {x \in F : Nearer(above, x, m)}
  <2>1. m \in Int
    BY <1>2, Bounds DEF Grid
  <2>2. B \in SUBSET (F \ {m}) /\ B \in SUBSET Grid
    BY <1>2, <2>1 DEF Nearer
  <2> HIDE DEF B
  <2>3. Cardinality(F \ {m}) = Cardinality(F) - 1 /\ IsFiniteSet(F \ {m})
    <3>1. IsFiniteSet(F) /\ m \in F
      BY <1>2
    <3> QED
      BY ONLY <3>1, FS_RemoveElement
  <2>4. Cardinality(B) <= Cardinality(F \ {m}) /\ Cardinality(B) \in Nat
    BY <2>2, <2>3, FS_Subset, GridFinite
  <2> QED
    BY <1>2, <2>3, <2>4 DEF B
<1>5. \A m, n \in F : m # n => rank(m) # rank(n)
  <2> SUFFICES ASSUME NEW m \in F, NEW n \in F, m # n PROVE rank(m) # rank(n)
    OBVIOUS
  <2>1. m \in Int /\ n \in Int
    BY <1>2, Bounds DEF Grid
  <2>2. Nearer(above, m, n) \/ Nearer(above, n, m)
    BY <2>1 DEF Nearer
  <2>3. CASE Nearer(above, m, n)
    <3>1. rank(m) < rank(n) /\ rank(m) \in Nat /\ rank(n) \in Nat
      BY <1>2, <1>4, <2>3, RankRises
    <3> QED
      BY <3>1
  <2>4. CASE Nearer(above, n, m)
    <3>1. rank(n) < rank(m) /\ rank(n) \in Nat /\ rank(m) \in Nat
      BY <1>2, <1>4, <2>4, RankRises
    <3> QED
      BY <3>1
  <2> QED
    BY <2>2, <2>3, <2>4
<1> HIDE DEF F, rank
<1>6. \A m \in Grid : Q.record[m] = IF m \notin F THEN P.record[m] ELSE N + 1 + rank(m)
  BY <1>3
<1>7. Q.record \in [Grid -> Nat]
  BY <1>1, <1>2, <1>3, <1>4
<1>8. Recorded(Q) = Recorded(P) \cup F
  <2>1. \A m \in F : Q.record[m] # 0
    BY <1>1, <1>2, <1>4, <1>6
  <2>2. \A m \in Grid \ F : Q.record[m] = P.record[m]
    BY <1>6
  <2> QED
    BY <1>2, <2>1, <2>2 DEF Recorded
<1>9. Cardinality(Recorded(Q)) = N + Cardinality(F)
  BY <1>1, <1>2, <1>8, CardJoins
<1> HIDE DEF N
<1>10. \A m \in Grid : Q.record[m] <= Cardinality(Recorded(Q))
  <2> SUFFICES ASSUME NEW m \in Grid PROVE Q.record[m] <= Cardinality(Recorded(Q))
    OBVIOUS
  <2>1. CASE m \in F
    BY <1>1, <1>2, <1>4, <1>6, <1>9, <2>1
  <2>2. CASE m \notin F
    BY <1>1, <1>2, <1>6, <1>9, <2>2
  <2> QED
    BY <2>1, <2>2
<1>11. \A m, n \in Recorded(Q) : Q.record[m] = Q.record[n] => m = n
  <2> SUFFICES ASSUME NEW m \in Recorded(Q), NEW n \in Recorded(Q), Q.record[m] = Q.record[n], m # n
               PROVE  FALSE
    OBVIOUS
  <2>1. m \in Grid /\ n \in Grid /\ P.record[m] \in Nat /\ P.record[n] \in Nat
        /\ P.record[m] <= N /\ P.record[n] <= N
    BY <1>1, <1>2, <1>8
  <2>2. CASE m \in F /\ n \in F
    BY <1>1, <1>4, <1>5, <1>6, <2>1, <2>2
  <2>3. CASE m \notin F /\ n \notin F
    BY <1>1, <1>6, <1>8, <2>1, <2>3
  <2>4. CASE m \in F /\ n \notin F
    BY <1>1, <1>4, <1>6, <2>1, <2>4
  <2>5. CASE m \notin F /\ n \in F
    BY <1>1, <1>4, <1>6, <2>1, <2>5
  <2> QED
    BY <2>2, <2>3, <2>4, <2>5
<1>12. Lit(Q) \subseteq Recorded(Q)
  BY <1>1, <1>8 DEF F
<1> QED
  BY <1>7, <1>10, <1>11, <1>12 DEF Filed

LEMMA PlacedBounds ==
    ASSUME NEW b, NEW p, b.pool[p].tick \in Ticks, NEW above \in BOOLEAN, NEW amount \in Nat,
           NEW at \in Ticks
    PROVE  /\ PlacedBy(b, p, above, amount, at) \in 0 .. amount
           /\ \A m \in Targets(b.pool[p], above, at) :
                  Share(Targets(b.pool[p], above, at), amount, m) \in Nat
<1> DEFINE S == Targets(b.pool[p], above, at)
           T == Filled(b, p, above, amount, at)
<1>1. PICK lo \in Int, hi \in Int : S = lo .. hi
  BY TargetsAreRow
<1>2. T \in SUBSET S
  BY FilledInTargets
<1>3. PlacedBy(b, p, above, amount, at) = Sum([m \in S |-> Share(S, amount, m)], T)
  BY DEF PlacedBy
<1> HIDE DEF S, T
<1> QED
  BY <1>1, <1>2, <1>3, SharesAddUp DEF S

LEMMA LaidMeans ==
    ASSUME NEW b, BookInv(b), NEW p \in Pools, NEW above \in BOOLEAN, NEW amount, NEW at
    PROVE  LET P   == b.pool[p]
               S   == Targets(P, above, at)
               all == Filled(b, p, above, amount, at)
               new == Opened(b, p, S, above, amount)
               R   == Laid(b, p, above, amount, at)
               Q   == R.pool[p]
           IN  /\ Elsewhere(b, R, p)
               /\ \A m \in Grid : Q.cells[m] =
                      IF m \notin all THEN P.cells[m]
                      ELSE [liquidity |-> P.cells[m].liquidity + Share(S, amount, m),
                            above |-> above, sold |-> FALSE]
               /\ Q.record = Appended(P, new, above) /\ Q.placed = P.placed
               /\ Q.tick = P.tick /\ Q.trunc = P.trunc
               /\ Q.mark = IF above /\ all # {} THEN Lesser(P.trunc, P.tick) ELSE P.mark
               /\ R.live = b.live + Cardinality(new)
               /\ R.idle = IF above THEN b.idle - PlacedBy(b, p, above, amount, at) ELSE b.idle
<1> DEFINE P   == b.pool[p]
           S   == Targets(P, above, at)
           new == Opened(b, p, S, above, amount)
           all == Filled(b, p, above, amount, at)
           D   == [m \in Grid |-> IF m \notin all THEN P.cells[m]
                     ELSE [liquidity |-> P.cells[m].liquidity + Share(S, amount, m),
                           above |-> above, sold |-> FALSE]]
           O   == Appended(P, new, above)
           Q   == [P EXCEPT !.cells = D, !.record = O]
           T   == IF above /\ all # {} THEN Reset(Q) ELSE Q
           R   == Laid(b, p, above, amount, at)
<1>1. PoolShape(P)
  BY DEF BookInv, PoolInv, Shapes
<1>2. /\ R.pool = [b.pool EXCEPT ![p] = T]
      /\ R.live = b.live + Cardinality(new)
      /\ R.idle = IF above THEN b.idle - PlacedBy(b, p, above, amount, at) ELSE b.idle
  BY DEF Laid, BookInv
<1>3. R.pool[p] = T /\ Elsewhere(b, R, p)
  BY <1>2 DEF BookInv, Elsewhere
<1>4. \A m \in Grid : D[m] =
          IF m \notin all THEN P.cells[m]
          ELSE [liquidity |-> P.cells[m].liquidity + Share(S, amount, m),
                above |-> above, sold |-> FALSE]
  OBVIOUS
<1> HIDE DEF D, O, all, new, S
<1>5. /\ Q.cells = D /\ Q.record = O /\ Q.placed = P.placed
      /\ Q.tick = P.tick /\ Q.trunc = P.trunc /\ Q.mark = P.mark /\ PoolShape(Q)
  BY <1>1 DEF PoolShape
<1> HIDE DEF Q
<1>6. /\ T.cells = D /\ T.record = O /\ T.placed = P.placed
      /\ T.tick = P.tick /\ T.trunc = P.trunc
      /\ T.mark = IF above /\ all # {} THEN Lesser(P.trunc, P.tick) ELSE P.mark
  BY <1>5 DEF Reset, PoolShape
<1> HIDE DEF T, R
<1>7. \A m \in Grid : R.pool[p].cells[m] = D[m]
  BY <1>3, <1>6
<1> QED
  BY <1>2, <1>3, <1>4, <1>6, <1>7 DEF R, O, new, all, S

(* What a ladder fills: cells that were dark, and cells of its own side.   *)
LEMMA FilledIs ==
    ASSUME NEW b, NEW p, NEW above, NEW amount, NEW at, NEW m,
           m \in Filled(b, p, above, amount, at)
    PROVE  LET P == b.pool[p]
               S == Targets(P, above, at)
           IN  /\ m \in S /\ Share(S, amount, m) # 0
               /\ \/ m \in Opened(b, p, S, above, amount) /\ P.cells[m].liquidity = 0
                  \/ P.cells[m].liquidity # 0 /\ P.cells[m].above = above
  BY DEF Filled, Opened, Openable, Merged

LEMMA LaidCounts ==
    ASSUME NEW b, BookInv(b), Counted(b), NEW p \in Pools, NEW above \in BOOLEAN,
           NEW amount \in Nat, NEW at \in Ticks, above => amount <= b.idle
    PROVE  Counted(Laid(b, p, above, amount, at))
<1> DEFINE P   == b.pool[p]
           S   == Targets(P, above, at)
           new == Opened(b, p, S, above, amount)
           all == Filled(b, p, above, amount, at)
           R   == Laid(b, p, above, amount, at)
           Q   == R.pool[p]
           by  == PlacedBy(b, p, above, amount, at)
<1>1. /\ Elsewhere(b, R, p)
      /\ \A m \in Grid : Q.cells[m] =
             IF m \notin all THEN P.cells[m]
             ELSE [liquidity |-> P.cells[m].liquidity + Share(S, amount, m),
                   above |-> above, sold |-> FALSE]
      /\ Q.record = Appended(P, new, above) /\ Q.placed = P.placed
      /\ R.live = b.live + Cardinality(new)
      /\ R.idle = IF above THEN b.idle - by ELSE b.idle
  BY LaidMeans
<1>2. /\ P.tick \in Ticks /\ Stocked(P) /\ b.idle \in Nat
      /\ b.live \in Nat /\ b.live <= MaxLive
  BY LitFinite DEF BookInv, PoolInv, Prices, Counted, LitOf
<1>3. S \in SUBSET Grid /\ by \in 0 .. amount /\ \A m \in S : Share(S, amount, m) \in Nat
  BY <1>2, TargetsAreRow, PlacedBounds
<1>4. /\ new \in SUBSET S /\ Cardinality(new) \in Nat /\ b.live + Cardinality(new) <= MaxLive
      /\ \A m \in new : P.cells[m].liquidity = 0 /\ Share(S, amount, m) # 0
  BY <1>2, <1>3, OpenedFits
<1>5. /\ new \subseteq all /\ all \subseteq S
      /\ \A m \in all : /\ Share(S, amount, m) # 0
                        /\ m \in new \/ P.cells[m].liquidity # 0
  <2>1. new \subseteq all
    BY DEF Filled
  <2> QED
    BY <2>1, FilledInTargets, FilledIs
<1> HIDE DEF R, all, new, S, by
<1>6. \A m \in Grid : P.cells[m] \in Cell /\ P.cells[m].liquidity \in Nat
  BY <1>2 DEF Stocked, Cell
<1>7. \A m \in all : m \in Grid /\ Q.cells[m] \in Cell /\ Q.cells[m].liquidity # 0
  <2> SUFFICES ASSUME NEW m \in all
               PROVE  m \in Grid /\ Q.cells[m] \in Cell /\ Q.cells[m].liquidity # 0
    OBVIOUS
  <2>1. m \in Grid /\ Share(S, amount, m) \in Nat /\ Share(S, amount, m) # 0
    BY <1>3, <1>5
  <2>2. /\ P.cells[m].liquidity + Share(S, amount, m) \in Nat
        /\ P.cells[m].liquidity + Share(S, amount, m) # 0
    BY <1>6, <2>1
  <2>3. Q.cells[m] = [liquidity |-> P.cells[m].liquidity + Share(S, amount, m),
                      above |-> above, sold |-> FALSE]
    BY <1>1, <2>1
  <2> HIDE DEF Q
  <2> QED
    BY <2>1, <2>2, <2>3 DEF Cell
<1>8. Lit(Q) = Lit(P) \cup new
  <2>1. \A m \in Grid : m \in Lit(Q) => m \in Lit(P) \/ m \in new
    BY <1>1, <1>5 DEF Lit
  <2>2. \A m \in Lit(P) : m \in Lit(Q)
    BY <1>1, <1>7 DEF Lit
  <2>3. \A m \in new : m \in Lit(Q)
    BY <1>5, <1>7 DEF Lit
  <2> QED
    BY <2>1, <2>2, <2>3 DEF Lit
<1>9. Cardinality(Lit(Q)) = Cardinality(Lit(P)) + Cardinality(new)
  <2>1. Lit(P) \in SUBSET Grid /\ new \in SUBSET Grid /\ Lit(P) \cap new = {}
    BY <1>3, <1>4 DEF Lit
  <2> QED
    BY <1>8, <2>1, CardJoins
<1>10. Stocked(Q)
  <2>1. \A m \in Grid : Q.cells[m] \in Cell
    BY <1>1, <1>6, <1>7
  <2>2. Filed(Q)
    BY <1>1, <1>2, <1>3, <1>4, <1>8, AppendedFiles DEF Stocked
  <2> QED
    BY <1>1, <1>2, <2>1, <2>2 DEF Stocked
<1>11. R.idle \in Nat
  BY <1>1, <1>2, <1>3
<1>12. R.live = b.live - Cardinality(Lit(P)) + Cardinality(Lit(Q)) /\ R.live <= MaxLive
  BY <1>1, <1>2, <1>4, <1>9, LitFinite
<1> QED
  BY <1>1, <1>10, <1>11, <1>12, CountMoves DEF R

(* A placement is counted, and spends what it says it has taken.           *)
Burned(b, p, above) == IF above THEN BoughtBack(b.pool[p]) ELSE {}

LEMMA BoughtBackIsLit == ASSUME NEW P PROVE BoughtBack(P) \in SUBSET Lit(P)
  BY DEF BoughtBack, IsAsk, Lit

LEMMA PlacedCounts ==
    ASSUME NEW b, BookInv(b), Counted(b), now \in Nat, NEW p \in Pools, NEW above \in BOOLEAN,
           NEW amount \in Nat, NEW at \in Ticks, above => amount <= b.idle
    PROVE  LET R == Placed(b, p, above, amount, at)
           IN  /\ Counted(R) /\ Elsewhere(b, R, p)
               /\ Taken(b, p, above, amount, at) \in 0 .. amount
               /\ R.idle = IF above THEN b.idle - Taken(b, p, above, amount, at) ELSE b.idle
<1> DEFINE C == Cleared(b, p, Burned(b, p, above))
           L == Laid(C, p, above, amount, at)
           R == Placed(b, p, above, amount, at)
           n == Taken(b, p, above, amount, at)
<1>1. Burned(b, p, above) \in SUBSET Lit(b.pool[p])
  BY BoughtBackIsLit DEF Burned
<1>2. BookInv(C) /\ Counted(C) /\ Elsewhere(b, C, p) /\ C.idle = b.idle
  BY <1>1, ClearedKeeps, ClearedCounts, ClearedMeans
<1>3. n = PlacedBy(C, p, above, amount, at)
  BY DEF Taken, Burned
<1>4. R = L \/ R = Stamped(L, p)
  BY DEF Placed, Burned
<1> HIDE DEF C, R, n
<1>5. BookInv(L) /\ Counted(L)
  BY <1>2, LaidKeeps, LaidCounts
<1>6. Elsewhere(C, L, p) /\ L.idle = IF above THEN C.idle - n ELSE C.idle
  BY <1>2, <1>3, LaidMeans
<1>7. n \in 0 .. amount
  BY <1>2, <1>3, PlacedBounds DEF BookInv, PoolInv, Prices
<1> HIDE DEF L
<1>8. /\ Counted(Stamped(L, p)) /\ Elsewhere(L, Stamped(L, p), p)
      /\ Stamped(L, p).idle = L.idle
  BY <1>5, StampedCounts, StampedMeans
<1>9. Counted(R) /\ R.idle = L.idle /\ Elsewhere(L, R, p)
  BY <1>4, <1>5, <1>8 DEF Elsewhere
<1>10. Elsewhere(b, R, p)
  BY <1>2, <1>6, <1>9 DEF Elsewhere
<1> QED
  BY <1>2, <1>6, <1>7, <1>9, <1>10 DEF R, n

LEMMA PlacedAsks ==
    ASSUME NEW b, BookInv(b), Counted(b), now \in Nat, NEW p \in Pools,
           NEW amount \in Nat, NEW at \in Ticks, amount <= b.idle
    PROVE  LET R == Placed(b, p, TRUE, amount, at)
               n == Taken(b, p, TRUE, amount, at)
           IN  /\ BookInv(R) /\ Counted(R) /\ Elsewhere(b, R, p)
               /\ n \in 0 .. amount /\ R.idle = b.idle - n
<1> DEFINE R(above) == Placed(b, p, above, amount, at)
           n(above) == Taken(b, p, above, amount, at)
<1>1. ASSUME NEW above \in BOOLEAN
      PROVE  /\ BookInv(R(above)) /\ Counted(R(above)) /\ Elsewhere(b, R(above), p)
             /\ n(above) \in 0 .. amount
             /\ R(above).idle = IF above THEN b.idle - n(above) ELSE b.idle
  BY PlacedKeeps, PlacedCounts
<1> HIDE DEF R, n
<1>2. /\ BookInv(R(TRUE)) /\ Counted(R(TRUE)) /\ Elsewhere(b, R(TRUE), p)
      /\ n(TRUE) \in 0 .. amount /\ R(TRUE).idle = b.idle - n(TRUE)
  BY <1>1
<1> QED
  BY <1>2 DEF R, n

(* A harvest takes from a cell what is there at most, and nothing from one *)
(* that may not be moved.                                                  *)
LEMMA GivenBounds ==
    ASSUME NEW P, Stocked(P), NEW wanted \in Nat, NEW m \in Grid
    PROVE  /\ Given(P, wanted, m) \in Nat /\ Given(P, wanted, m) <= P.cells[m].liquidity
           /\ m \notin Movable(P) => Given(P, wanted, m) = 0
<1> DEFINE f == [x \in Grid |-> P.cells[x].liquidity]
           T == Movable(P) \cap After(P, m)
           before == Sum(f, T)
<1>1. \A x \in Grid : f[x] \in Int
  BY DEF Stocked, Cell
<1>2. T \in SUBSET Grid
  BY DEF Movable
<1>3. Given(P, wanted, m) = IF m \notin Movable(P) THEN 0
                            ELSE Greater(0, Lesser(P.cells[m].liquidity, wanted - before))
  BY DEF Given
<1>4. P.cells[m].liquidity \in Nat
  BY DEF Stocked, Cell
<1> HIDE DEF f, T
<1>5. before \in Int
  BY <1>1, <1>2, SumInt, FS_Subset, GridFinite DEF Sum
<1> HIDE DEF before
<1> QED
  BY <1>3, <1>4, <1>5 DEF Greater, Lesser

Spent(P, wanted) == {m \in Movable(P) : P.cells[m].liquidity = Given(P, wanted, m)}

LEMMA HarvestedMeans ==
    ASSUME NEW b, BookInv(b), NEW p \in Pools, Stocked(b.pool[p]), NEW wanted \in Nat
    PROVE  LET P == b.pool[p]
               R == Harvested(b, p, wanted)
               Q == R.pool[p]
               spent == Spent(P, wanted)
           IN  /\ Elsewhere(b, R, p)
               /\ \A m \in Grid :
                      /\ Q.cells[m].liquidity = P.cells[m].liquidity - Given(P, wanted, m)
                      /\ m \notin spent => Q.cells[m].above = P.cells[m].above
                      /\ Q.cells[m] \in Cell
               /\ Q.record = P.record /\ Q.placed = P.placed
               /\ Q.tick = P.tick /\ Q.trunc = P.trunc /\ Q.mark = P.mark
               /\ R.live = b.live - Cardinality(spent) /\ R.idle = b.idle + wanted
<1> DEFINE P    == b.pool[p]
           left == Left(P, wanted)
           S    == {m \in Movable(P) : left[m].liquidity = 0}
           spent == Spent(P, wanted)
           Q    == [P EXCEPT !.cells = left]
           L    == [b EXCEPT !.pool[p].cells = left]
           C    == Cleared(L, p, S)
           R    == Harvested(b, p, wanted)
<1>1. PoolShape(P)
  BY DEF BookInv, PoolInv, Shapes
<1>2. \A m \in Grid : /\ P.cells[m] \in Cell /\ P.cells[m].liquidity \in Nat
                      /\ Given(P, wanted, m) \in Nat /\ Given(P, wanted, m) <= P.cells[m].liquidity
  BY GivenBounds DEF Stocked, Cell
<1>3. \A m \in Grid : /\ left[m].liquidity = P.cells[m].liquidity - Given(P, wanted, m)
                      /\ left[m].above = P.cells[m].above /\ left[m] \in Cell
  BY <1>2 DEF Cell, Left
<1>4. R = [C EXCEPT !.idle = C.idle + wanted]
  BY DEF Harvested, Left
<1>5. BookInv(L)
  BY LeftKeeps
<1>6. L.pool = [b.pool EXCEPT ![p] = Q] /\ L.live = b.live /\ L.idle = b.idle
  BY DEF BookInv
<1>7. L.pool[p] = Q /\ Elsewhere(b, L, p)
  BY <1>6 DEF BookInv, Elsewhere
<1> HIDE DEF left
<1>8. /\ Q.cells = left /\ Q.record = P.record /\ Q.placed = P.placed
      /\ Q.tick = P.tick /\ Q.trunc = P.trunc /\ Q.mark = P.mark
  BY <1>1 DEF PoolShape
<1>9. \A m \in Movable(P) : left[m].liquidity = 0 <=> P.cells[m].liquidity = Given(P, wanted, m)
  <2> SUFFICES ASSUME NEW m \in Movable(P)
               PROVE  left[m].liquidity = 0 <=> P.cells[m].liquidity = Given(P, wanted, m)
    OBVIOUS
  <2>1. m \in Grid
    BY DEF Movable
  <2> QED
    BY <1>2, <1>3, <2>1
<1>10. S = spent
  BY <1>9 DEF Spent
<1> HIDE DEF L, Q, S, spent
<1>11. /\ Elsewhere(L, C, p)
       /\ \A m \in Grid : C.pool[p].cells[m] = IF m \in S THEN Empty ELSE L.pool[p].cells[m]
       /\ C.pool[p].record = Q.record /\ C.pool[p].placed = Q.placed
       /\ C.pool[p].tick = Q.tick /\ C.pool[p].trunc = Q.trunc /\ C.pool[p].mark = Q.mark
       /\ C.live = L.live - Cardinality(S) /\ C.idle = L.idle
  BY <1>5, <1>7, ClearedMeans
<1>12. C \in [pool : {C.pool}, live : {C.live}, idle : {C.idle}]
  BY <1>5, ClearedKeeps DEF BookInv
<1> HIDE DEF C, R
<1>13. R.pool = C.pool /\ R.live = C.live /\ R.idle = C.idle + wanted
  BY <1>4, <1>12
<1>14. \A m \in S : left[m].liquidity = 0
  BY DEF S
<1>15. \A m \in Grid : /\ R.pool[p].cells[m].liquidity = P.cells[m].liquidity - Given(P, wanted, m)
                       /\ m \notin spent => R.pool[p].cells[m].above = P.cells[m].above
                       /\ R.pool[p].cells[m] \in Cell
  BY <1>3, <1>7, <1>8, <1>10, <1>11, <1>13, <1>14, EmptyIsCell
<1>16. Elsewhere(b, R, p)
  BY <1>7, <1>11, <1>13 DEF Elsewhere
<1> QED
  BY <1>6, <1>8, <1>10, <1>11, <1>13, <1>15, <1>16 DEF R, spent

LEMMA HarvestedCounts ==
    ASSUME NEW b, BookInv(b), Counted(b), NEW p \in Pools, NEW wanted \in Nat
    PROVE  Counted(Harvested(b, p, wanted))
<1> DEFINE P == b.pool[p]
           R == Harvested(b, p, wanted)
           Q == R.pool[p]
           spent == Spent(P, wanted)
<1>1. Stocked(P) /\ b.idle \in Nat /\ b.live <= MaxLive /\ b.live \in Nat /\ MaxLive \in Nat
  BY LitFinite, LadderAssumption DEF Counted, LitOf
<1>2. /\ Elsewhere(b, R, p)
      /\ \A m \in Grid :
             /\ Q.cells[m].liquidity = P.cells[m].liquidity - Given(P, wanted, m)
             /\ m \notin spent => Q.cells[m].above = P.cells[m].above
             /\ Q.cells[m] \in Cell
      /\ Q.record = P.record /\ Q.placed = P.placed
      /\ R.live = b.live - Cardinality(spent) /\ R.idle = b.idle + wanted
  BY <1>1, HarvestedMeans
<1>3. \A m \in Grid : /\ P.cells[m].liquidity \in Nat
                      /\ Given(P, wanted, m) \in Nat /\ Given(P, wanted, m) <= P.cells[m].liquidity
                      /\ m \notin Movable(P) => Given(P, wanted, m) = 0
  BY <1>1, GivenBounds DEF Stocked, Cell
<1>4. Movable(P) \subseteq Lit(P) /\ spent \subseteq Movable(P)
  BY DEF Movable, Lit, IsAsk, Spent
<1>5. \A m \in Grid : m \in spent <=> m \in Movable(P) /\ P.cells[m].liquidity = Given(P, wanted, m)
  BY DEF Spent
<1> HIDE DEF R, spent
<1>6. Lit(Q) = Lit(P) \ spent
  <2>1. \A m \in Lit(P) : m \in Grid /\ P.cells[m].liquidity # 0
    BY DEF Lit
  <2>2. \A m \in Grid : Q.cells[m].liquidity # 0 <=> P.cells[m].liquidity # 0 /\ m \notin spent
    <3> SUFFICES ASSUME NEW m \in Grid
                 PROVE  Q.cells[m].liquidity # 0 <=> P.cells[m].liquidity # 0 /\ m \notin spent
      OBVIOUS
    <3>1. CASE m \in Movable(P)
      BY <1>2, <1>3, <1>4, <1>5, <2>1, <3>1
    <3>2. CASE m \notin Movable(P)
      BY <1>2, <1>3, <1>5, <3>2
    <3> QED
      BY <3>1, <3>2
  <2> QED
    BY <2>2 DEF Lit
<1>7. Cardinality(Lit(Q)) = Cardinality(Lit(P)) - Cardinality(spent)
      /\ Cardinality(spent) \in Nat
  BY <1>4, <1>6, CardParts, LitFinite, GridFinite
<1>8. Stocked(Q)
  <2>1. Recorded(Q) = Recorded(P)
    BY <1>2 DEF Recorded
  <2>2. Filed(Q)
    BY <1>1, <1>2, <1>6, <2>1 DEF Filed, Stocked
  <2> QED
    BY <1>1, <1>2, <2>2 DEF Stocked
<1>9. R.live = b.live - Cardinality(Lit(P)) + Cardinality(Lit(Q)) /\ R.live <= MaxLive
      /\ R.idle \in Nat
  BY <1>1, <1>2, <1>7, LitFinite
<1> QED
  BY <1>2, <1>8, <1>9, CountMoves DEF R

---------------------------------------------------------------------------
(* The pace of the rollout.  While the window decays, a block takes off it *)
(* no more than Slope / Day, what a charge rounds away included: so what   *)
(* was drained since any block is what the window still holds and Slope /  *)
(* Day for each block since.                                               *)

Slope == Allowance + Day - 1

DrainedIn(d, a, z) == Sum(d, a .. z)

(* The window m opened at s, of what d drained.                            *)
Since(d, s, m) ==
    \A a \in 1 .. MaxTime : a <= s => Day * DrainedIn(d, a, s) <= Day * m + (s - a) * Slope

Always(d) ==
    \A a, z \in 1 .. MaxTime : a <= z => Day * DrainedIn(d, a, z) <= Day * Allowance + (z - a) * Slope

Pace(d, s, m) ==
    /\ d \in [1 .. MaxTime -> Nat] /\ s \in Nat /\ m \in Nat /\ m <= Allowance
    /\ \A t \in 1 .. MaxTime : t > s => d[t] = 0
    /\ Since(d, s, m) /\ Always(d)

DecayedOf(m, k) == IF k >= Day THEN 0 ELSE (m * (Day - k)) \div Day

LEMMA PaceBounds == Day \in Nat /\ Day > 0 /\ Allowance \in Nat /\ Slope \in Nat /\ Slope >= Allowance
                    /\ MaxTime \in Nat /\ MaxTime >= 1
  BY LadderAssumption DEF Slope

LEMMA DivisionIs ==
    ASSUME NEW x \in Nat
    PROVE  /\ x \div Day \in Nat /\ Day * (x \div Day) <= x /\ x < Day * (x \div Day) + Day
  BY PaceBounds

LEMMA Mult ==
    ASSUME NEW x \in Nat, NEW y \in Nat, NEW z \in Nat, x <= y
    PROVE  x * z <= y * z /\ x * z \in Nat /\ y * z \in Nat
<1>1. (y - x) * z >= 0 /\ (y - x) * z = y * z - x * z
  <2>1. y - x \in Nat
    OBVIOUS
  <2>2. (y - x) * z \in Nat
    BY <2>1
  <2> QED
    BY <2>2
<1>2. x * z \in Nat /\ y * z \in Nat
  OBVIOUS
<1> QED
  BY <1>1, <1>2

(* What decays in k blocks.                                                *)
LEMMA DecayIsPaced ==
    ASSUME NEW m \in Nat, m <= Allowance, NEW k \in Nat
    PROVE  /\ DecayedOf(m, k) \in Nat /\ DecayedOf(m, k) <= m
           /\ Day * m <= Day * DecayedOf(m, k) + k * Slope
<1>1. CASE k >= Day
  <2>1. Day * Slope <= k * Slope
    BY <1>1, PaceBounds, Mult
  <2>2. Allowance * Day <= Slope * Day /\ m * Day <= Allowance * Day
    BY PaceBounds, Mult
  <2>3. DecayedOf(m, k) = 0
    BY <1>1 DEF DecayedOf
  <2>4. Day * m = m * Day /\ Slope * Day = Day * Slope
    BY PaceBounds
  <2>5. m * Day <= k * Slope
    <3>1. m * Day \in Nat /\ Allowance * Day \in Nat /\ Slope * Day \in Nat /\ k * Slope \in Nat
      BY PaceBounds
    <3>2. Slope * Day <= k * Slope
      BY <2>1, <2>4
    <3> QED
      BY <2>2, <3>1, <3>2
  <2> QED
    BY <2>3, <2>4, <2>5, PaceBounds
<1>2. CASE k < Day
  <2> DEFINE x == m * (Day - k)
             f == x \div Day
  <2>1. Day - k \in Nat /\ x \in Nat
    BY <1>2, PaceBounds
  <2>2. f \in Nat /\ Day * f <= x /\ x < Day * f + Day
    BY <2>1, DivisionIs
  <2>3. x = Day * m - m * k
    BY <2>1, PaceBounds
  <2>4. DecayedOf(m, k) = f
    BY <1>2, PaceBounds DEF DecayedOf
  <2> HIDE DEF x, f
  <2>5. m * k <= Allowance * k /\ m * k \in Nat /\ Allowance * k \in Nat
    BY PaceBounds, Mult
  <2>6. f <= m
    <3>1. Day * f <= Day * m /\ Day * m \in Nat /\ Day * f \in Nat
      BY <2>1, <2>2, <2>3, <2>5, PaceBounds
    <3>2. ASSUME f >= m + 1 PROVE FALSE
      <4>1. (m + 1) * Day <= f * Day
        BY <2>2, <3>2, PaceBounds, Mult
      <4>2. (m + 1) * Day = Day * m + Day /\ f * Day = Day * f
        BY <2>2, PaceBounds
      <4> QED
        BY <3>1, <4>1, <4>2, PaceBounds
    <3> QED
      BY <2>2, <3>2
  <2>7. Day * m <= Day * f + k * Slope
    <3>1. CASE k = 0
      <4>1. x = Day * m
        BY <2>3, <3>1, PaceBounds
      <4>2. Day * m < Day * f + Day
        BY <2>2, <4>1
      <4>3. ASSUME f < m PROVE FALSE
        <5>1. (f + 1) * Day <= m * Day
          BY <2>2, <4>3, PaceBounds, Mult
        <5>2. (f + 1) * Day = Day * f + Day /\ m * Day = Day * m
          BY <2>2, PaceBounds
        <5> QED
          BY <2>2, <4>2, <5>1, <5>2, PaceBounds
      <4>4. f = m
        BY <2>2, <2>6, <4>3
      <4> QED
        BY <3>1, <4>4, PaceBounds
    <3>2. CASE k > 0
      <4>1. 1 * (Day - 1) <= k * (Day - 1)
        BY <3>2, PaceBounds, Mult
      <4>2. k * Slope = Allowance * k + k * (Day - 1)
        BY PaceBounds DEF Slope
      <4>3. k * (Day - 1) \in Nat /\ Day * m \in Nat /\ Day * f \in Nat
        BY <2>2, PaceBounds
      <4> QED
        BY <2>1, <2>2, <2>3, <2>5, <4>1, <4>2, <4>3, PaceBounds
    <3> QED
      BY <3>1, <3>2
  <2> QED
    BY <2>2, <2>4, <2>6, <2>7
<1> QED
  BY <1>1, <1>2, PaceBounds

(* Sums of what was drained.                                               *)

LEMMA BlocksFinite ==
    ASSUME NEW a \in 1 .. MaxTime, NEW z \in 0 .. MaxTime
    PROVE  IsFiniteSet(a .. z) /\ \A t \in a .. z : t \in 1 .. MaxTime /\ a <= t /\ t <= z
<1>1. a \in Int /\ z \in Int /\ a >= 1 /\ z <= MaxTime /\ MaxTime \in Nat
  BY PaceBounds
<1>2. IsFiniteSet(a .. z)
  BY <1>1, FS_Interval
<1> QED
  BY <1>1, <1>2

LEMMA DrainedSums ==
    ASSUME NEW d \in [1 .. MaxTime -> Nat], NEW a \in 1 .. MaxTime, NEW z \in 0 .. MaxTime
    PROVE  DrainedIn(d, a, z) \in Nat
<1> DEFINE S == a .. z
<1>1. IsFiniteSet(S) /\ \A t \in S : d[t] \in Nat
  BY BlocksFinite
<1> HIDE DEF S
<1>2. SumFunctionOnSet(d, S) \in Nat
  BY <1>1, SumNat
<1> QED
  BY <1>2 DEF DrainedIn, Sum, S

(* Blocks in which nothing was drained add nothing.                        *)
LEMMA QuietBlocks ==
    ASSUME NEW d \in [1 .. MaxTime -> Nat], NEW a \in 1 .. MaxTime, NEW z \in 0 .. MaxTime,
           NEW s \in Nat, s <= z, \A t \in 1 .. MaxTime : t > s => d[t] = 0
    PROVE  DrainedIn(d, a, z) = DrainedIn(d, a, s)
<1> DEFINE S == a .. z
           T == a .. s
<1>1. IsFiniteSet(S) /\ \A t \in S : t \in 1 .. MaxTime /\ d[t] \in Int
  BY BlocksFinite
<1>2. T \in SUBSET S
  BY PaceBounds
<1>3. \A t \in S \ T : d[t] = 0
  <2> SUFFICES ASSUME NEW t \in S, t \notin T PROVE d[t] = 0
    OBVIOUS
  <2>1. t \in 1 .. MaxTime /\ a <= t
    BY BlocksFinite
  <2>2. t > s
    BY <2>1, PaceBounds
  <2> QED
    BY <2>1, <2>2
<1> HIDE DEF S, T
<1>4. SumFunctionOnSet(d, S) = SumFunctionOnSet(d, T)
  BY <1>1, <1>2, <1>3, SumOfPart
<1> QED
  BY <1>4 DEF DrainedIn, Sum, S, T

LEMMA NoBlocks ==
    ASSUME NEW d, NEW a \in Int, NEW z \in Int, a > z
    PROVE  DrainedIn(d, a, z) = 0
<1>1. a .. z = {}
  OBVIOUS
<1> QED
  BY <1>1, SumEmpty DEF DrainedIn, Sum

LEMMA ZeroBlocks ==
    ASSUME NEW d, NEW a \in 1 .. MaxTime, NEW z \in 0 .. MaxTime,
           \A t \in 1 .. MaxTime : a <= t => d[t] = 0
    PROVE  DrainedIn(d, a, z) = 0
<1> DEFINE S == a .. z
<1>1. IsFiniteSet(S) /\ \A t \in S : d[t] = 0
  BY BlocksFinite
<1> HIDE DEF S
<1>2. SumFunctionOnSet(d, S) = 0
  BY <1>1, SumZero
<1> QED
  BY <1>2 DEF DrainedIn, Sum, S

LEMMA SameBlocks ==
    ASSUME NEW d, NEW e, NEW a \in 1 .. MaxTime, NEW z \in 0 .. MaxTime,
           \A t \in 1 .. MaxTime : t <= z => e[t] = d[t]
    PROVE  DrainedIn(e, a, z) = DrainedIn(d, a, z)
<1> DEFINE S == a .. z
<1>1. IsFiniteSet(S) /\ \A t \in S : e[t] = d[t]
  BY BlocksFinite
<1> HIDE DEF S
<1>2. SumFunctionOnSet(e, S) = SumFunctionOnSet(d, S)
  BY <1>1, SumSame
<1> QED
  BY <1>2 DEF DrainedIn, Sum, S

LEMMA LastBlock ==
    ASSUME NEW d, \A x \in 1 .. MaxTime : d[x] \in Nat,
           NEW e, \A x \in 1 .. MaxTime : e[x] \in Nat,
           NEW a \in 1 .. MaxTime, NEW t \in 1 .. MaxTime, a <= t, NEW gone \in Nat,
           e[t] = d[t] + gone, \A x \in 1 .. MaxTime : x # t => e[x] = d[x]
    PROVE  DrainedIn(e, a, t) = DrainedIn(d, a, t) + gone
<1> DEFINE S == a .. t
<1>0. t \in 0 .. MaxTime
  OBVIOUS
<1>1. IsFiniteSet(S) /\ \A x \in S : x \in 1 .. MaxTime
  BY <1>0, BlocksFinite
<1>2. t \in S
  BY PaceBounds
<1> HIDE DEF S
<1>3. \A x \in S : d[x] \in Int
  BY <1>1
<1>5. \A x \in S : x # t => e[x] = d[x]
  BY <1>1
<1>6. d[t] \in Int /\ e[t] \in Int /\ e[t] = d[t] + gone
  OBVIOUS
<1>7. \A x \in S : e[x] \in Int
  BY <1>1
<1> DEFINE T == S \ {t}
<1>8. IsFiniteSet(T) /\ \A x \in T : e[x] = d[x] /\ d[x] \in Int
  BY <1>1, <1>3, <1>5, FS_Subset
<1>10. /\ SumFunctionOnSet(d, S) = d[t] + SumFunctionOnSet(d, T)
       /\ SumFunctionOnSet(e, S) = e[t] + SumFunctionOnSet(e, T)
  BY <1>1, <1>2, <1>3, <1>7, SumTakesOut
<1> HIDE DEF T
<1>11. SumFunctionOnSet(e, T) = SumFunctionOnSet(d, T) /\ SumFunctionOnSet(d, T) \in Int
  BY <1>8, SumSame, SumInt
<1>9. SumFunctionOnSet(e, S) = SumFunctionOnSet(d, S) + gone
  BY <1>6, <1>10, <1>11
<1> QED
  BY <1>9 DEF DrainedIn, Sum, S

LEMMA ChargeKeepsPace ==
    ASSUME NEW d, NEW s, NEW m, Pace(d, s, m), NEW t \in 1 .. MaxTime, s <= t, NEW gone \in Nat,
           DecayedOf(m, t - s) + gone <= Allowance,
           NEW e, e = [d EXCEPT ![t] = d[t] + gone]
    PROVE  Pace(e, t, DecayedOf(m, t - s) + gone)
<1> DEFINE k == t - s
           f == DecayedOf(m, k)
           n == f + gone
<1>1. /\ d \in [1 .. MaxTime -> Nat] /\ s \in Nat /\ m \in Nat /\ m <= Allowance
      /\ \A x \in 1 .. MaxTime : x > s => d[x] = 0
  BY DEF Pace
<1>2. k \in Nat /\ t \in Nat /\ s = t - k /\ t \in 0 .. MaxTime
  BY <1>1, PaceBounds
<1>3. f \in Nat /\ f <= m /\ Day * m <= Day * f + k * Slope
  BY <1>1, <1>2, DecayIsPaced
<1> HIDE DEF k, f
<1>4. e \in [1 .. MaxTime -> Nat] /\ e[t] = d[t] + gone
      /\ \A x \in 1 .. MaxTime : x # t => e[x] = d[x]
  BY <1>1
<1>5. \A x \in 1 .. MaxTime : x > t => e[x] = 0
  BY <1>1, <1>2, <1>4, PaceBounds
<1>6. n \in Nat /\ n <= Allowance /\ Day * n = Day * f + Day * gone /\ Day * n \in Nat
  BY <1>3, PaceBounds DEF f, k
<1>7. ASSUME NEW a \in 1 .. MaxTime, a <= t
      PROVE  Day * DrainedIn(e, a, t) <= Day * n + (t - a) * Slope
  <2>1. DrainedIn(d, a, t) \in Nat
    BY <1>1, <1>2, DrainedSums
  <2>3. DrainedIn(e, a, t) = DrainedIn(d, a, t) + gone
    <3>1. /\ \A x \in 1 .. MaxTime : d[x] \in Nat
          /\ \A x \in 1 .. MaxTime : e[x] \in Nat
          /\ a \in 1 .. MaxTime /\ t \in 1 .. MaxTime /\ gone \in Nat /\ a <= t
          /\ e[t] = d[t] + gone /\ \A x \in 1 .. MaxTime : x # t => e[x] = d[x]
      BY <1>1, <1>4, <1>7
    <3> QED
      BY ONLY <3>1, LastBlock
  <2>4. DrainedIn(d, a, t) = DrainedIn(d, a, s)
    BY <1>1, <1>2, QuietBlocks
  <2> DEFINE X == DrainedIn(d, a, s)
  <2>5. X \in Nat
    BY <2>1, <2>4
  <2>6. (t - a) * Slope \in Nat
    BY <1>2, <1>7, PaceBounds
  <2>7. CASE a <= s
    <3>1. Day * X <= Day * m + (s - a) * Slope
      BY <1>1, <2>7 DEF Pace, Since
    <3> HIDE DEF X
    <3>2. (s - a) * Slope + k * Slope = (t - a) * Slope
      <4>1. (s - a) + k = t - a /\ s - a \in Int /\ k \in Int /\ Slope \in Int
        BY <1>1, <1>2, PaceBounds
      <4> HIDE DEF k
      <4>2. ((s - a) + k) * Slope = (s - a) * Slope + k * Slope
        BY <4>1
      <4> QED
        BY <4>1, <4>2
    <3>3. Day * (X + gone) = Day * X + Day * gone
      BY <2>5, PaceBounds
    <3>4. /\ Day * X \in Int /\ Day * m \in Int /\ Day * f \in Int /\ Day * gone \in Int
          /\ (s - a) * Slope \in Int /\ k * Slope \in Int
      BY <1>1, <1>2, <1>3, <2>5, PaceBounds
    <3> QED
      BY <1>3, <1>6, <2>3, <2>4, <3>1, <3>2, <3>3, <3>4 DEF X
  <2>8. CASE a > s
    <3>1. X = 0
      BY <1>1, <2>8, NoBlocks
    <3>2. DrainedIn(e, a, t) = gone
      BY <2>3, <2>4, <3>1
    <3>3. Day * f \in Nat
      BY <1>3, PaceBounds
    <3> QED
      BY <1>6, <2>6, <3>2, <3>3, PaceBounds
  <2> QED
    BY <1>1, <2>7, <2>8
<1>8. ASSUME NEW a \in 1 .. MaxTime, NEW z \in 1 .. MaxTime, a <= z
      PROVE  Day * DrainedIn(e, a, z) <= Day * Allowance + (z - a) * Slope
  <2>1. (z - a) * Slope \in Nat /\ Day * Allowance \in Nat
    BY <1>8, PaceBounds
  <2>2. CASE z < t
    <3>1. \A x \in 1 .. MaxTime : x <= z => e[x] = d[x]
      BY <1>2, <1>4, <2>2, PaceBounds
    <3>2. DrainedIn(e, a, z) = DrainedIn(d, a, z)
      <4>1. z \in 0 .. MaxTime
        BY PaceBounds
      <4> QED
        BY ONLY <3>1, <4>1, a \in 1 .. MaxTime, SameBlocks
    <3> QED
      BY <1>8, <3>2 DEF Pace, Always
  <2>3. CASE z >= t /\ a <= t
    <3>1. DrainedIn(e, a, z) = DrainedIn(e, a, t)
      <4>1. z \in 0 .. MaxTime /\ t <= z
        BY <1>2, <2>3, PaceBounds
      <4> QED
        BY ONLY <1>2, <1>4, <1>5, <4>1, a \in 1 .. MaxTime, QuietBlocks
    <3>2. Day * DrainedIn(e, a, t) <= Day * n + (t - a) * Slope
      BY <1>7, <2>3
    <3>3. n * Day <= Allowance * Day /\ (t - a) * Slope <= (z - a) * Slope
      <4>1. t - a \in Nat /\ z - a \in Nat /\ t - a <= z - a
        BY <1>2, <2>3, PaceBounds
      <4> QED
        BY <1>6, <4>1, Mult, PaceBounds
    <3>4. n * Day = Day * n /\ Allowance * Day = Day * Allowance
      BY <1>6, PaceBounds
    <3>5. (t - a) * Slope \in Int /\ Day * DrainedIn(e, a, t) \in Int
      <4>1. DrainedIn(e, a, t) \in Nat
        BY <1>2, <1>4, DrainedSums
      <4> QED
        BY <1>2, <4>1, PaceBounds
    <3> HIDE DEF n
    <3> QED
      BY <1>6, <2>1, <3>1, <3>2, <3>3, <3>4, <3>5
  <2>4. CASE a > t
    <3>1. /\ DrainedIn(e, a, z) = 0
      <4>1. \A x \in 1 .. MaxTime : a <= x => e[x] = 0
        BY <1>2, <1>5, <2>4, PaceBounds
      <4> QED
        <5>1. z \in 0 .. MaxTime
          BY PaceBounds
        <5> QED
          BY <4>1, <5>1, ZeroBlocks
    <3> QED
      BY <2>1, <3>1, PaceBounds
  <2> QED
    BY <1>2, <2>2, <2>3, <2>4
<1>9. Since(e, t, n) /\ Always(e)
  BY <1>7, <1>8 DEF Since, Always
<1>10. Pace(e, t, n)
  BY <1>2, <1>4, <1>5, <1>6, <1>9 DEF Pace
<1> QED
  BY <1>10 DEF f, k

---------------------------------------------------------------------------
(* The steps, counted.                                                     *)

Dated ==
    /\ now \in 1 .. MaxTime /\ retired \in BOOLEAN
    /\ window \in [moved : Nat, start : Nat] /\ window.start <= now

Paced == Pace(drained, window.start, window.moved)

CountInv == LadderInv /\ Counted(Book) /\ Dated /\ Paced

LEMMA BecomesCounts == ASSUME NEW b, Counted(b), Becomes(b) PROVE Counted(Book)'
  BY DEF Becomes, Counted, LitOf, Book

LEMMA CountInit == Init => Counted(Book) /\ Dated /\ Paced
<1> SUFFICES ASSUME Init PROVE Counted(Book) /\ Dated /\ Paced
  OBVIOUS
<1>1. \A p \in Pools : /\ pool[p].cells = [m \in Grid |-> Empty]
                       /\ pool[p].record = [m \in Grid |-> 0] /\ pool[p].placed = 0
  BY DEF Init
<1>2. \A p \in Pools : Lit(pool[p]) = {} /\ Recorded(pool[p]) = {}
  BY <1>1, EmptyIsCell DEF Lit, Recorded
<1>3. ASSUME NEW p \in Pools PROVE Stocked(pool[p])
  <2> DEFINE P == pool[p]
  <2>1. /\ P.record \in [Grid -> Nat] /\ \A m \in Grid : P.record[m] = 0
        /\ \A m \in Grid : P.cells[m] = Empty
        /\ Lit(P) = {} /\ Recorded(P) = {} /\ P.placed \in Nat
    BY <1>1, <1>2
  <2> HIDE DEF P
  <2>2. Filed(P)
    BY <2>1, FS_EmptySet DEF Filed
  <2>3. Stocked(P)
    BY <2>1, <2>2, EmptyIsCell DEF Stocked
  <2> QED
    BY <2>3 DEF P
<1>4. Counted(Book)
  <2>1. LitOf(Book) = 0
    <3>1. Lit(Book.pool[Hub]) = {} /\ Lit(Book.pool[Spoke]) = {}
      BY <1>2 DEF Book, Pools
    <3>2. Cardinality({}) = 0
      BY FS_EmptySet
    <3> QED
      BY <3>1, <3>2 DEF LitOf
  <2>2. Book.live = 0 /\ Book.idle = Stock /\ Book.pool = pool
    BY DEF Book, Init
  <2>3. MaxLive \in Nat /\ Stock \in Nat
    BY LadderAssumption
  <2> QED
    BY <1>3, <2>1, <2>2, <2>3 DEF Counted
<1>5. Dated
  <2>1. now = 1 /\ window = [moved |-> 0, start |-> 0] /\ retired = FALSE
    BY DEF Init
  <2>2. MaxTime \in Nat /\ MaxTime > 0
    BY LadderAssumption
  <2>3. window \in [moved : Nat, start : Nat] /\ window.start = 0
    BY <2>1
  <2>4. retired \in BOOLEAN
    BY <2>1
  <2>5. now \in 1 .. MaxTime /\ 0 <= now
    BY <2>1, <2>2
  <2> QED
    BY <2>3, <2>4, <2>5 DEF Dated
<1>6. Paced
  <2>1. /\ drained \in [1 .. MaxTime -> Nat] /\ \A t \in 1 .. MaxTime : drained[t] = 0
        /\ window.start = 0 /\ window.moved = 0
    BY DEF Init
  <2>2. ASSUME NEW a \in 1 .. MaxTime, NEW z \in 1 .. MaxTime, a <= z
        PROVE  Day * DrainedIn(drained, a, z) <= Day * Allowance + (z - a) * Slope
    <3>1. z \in 0 .. MaxTime
      BY PaceBounds
    <3>2. DrainedIn(drained, a, z) = 0
      BY <2>1, <3>1, ZeroBlocks
    <3>3. Day * Allowance \in Nat /\ (z - a) * Slope \in Nat
      BY <2>2, PaceBounds
    <3> QED
      BY <3>2, <3>3, PaceBounds
  <2> QED
    BY <2>1, <2>2, PaceBounds DEF Paced, Pace, Since, Always
<1> QED
  BY <1>4, <1>5, <1>6

LEMMA PlaceCounts ==
    ASSUME CountInv, NEW p \in Pools, NEW above \in BOOLEAN, NEW amount \in Nat, NEW at \in Ticks,
           Place(p, above, amount, at)
    PROVE  Counted(Book)'
<1>1. BookInv(Book) /\ Counted(Book) /\ now \in Nat /\ (above => amount <= Book.idle)
  BY DEF CountInv, LadderInv, Dated, Place, Book
<1>2. Becomes(Placed(Book, p, above, amount, at))
  BY DEF Place
<1>3. Counted(Placed(Book, p, above, amount, at))
  BY <1>1, PlacedCounts
<1> QED
  BY <1>2, <1>3, BecomesCounts

LEMMA ResetCounts ==
    ASSUME NEW b, BookInv(b), Counted(b), NEW p \in Pools
    PROVE  Counted([b EXCEPT !.pool[p] = Reset(@)])
<1> DEFINE P == b.pool[p]
           R == [b EXCEPT !.pool[p] = Reset(@)]
<1>1. PoolShape(P)
  BY DEF BookInv, PoolInv, Shapes
<1>2. R.pool = [b.pool EXCEPT ![p] = Reset(P)] /\ R.live = b.live /\ R.idle = b.idle
  BY DEF BookInv
<1>3. R.pool[p] = Reset(P) /\ Elsewhere(b, R, p)
  BY <1>2 DEF BookInv, Elsewhere
<1>4. Reset(P).cells = P.cells /\ Reset(P).record = P.record /\ Reset(P).placed = P.placed
  BY <1>1 DEF PoolShape, Reset
<1> HIDE DEF R
<1>5. b.idle \in Nat /\ P.placed \in Nat
  BY DEF Counted, Stocked
<1> QED
  BY <1>2, <1>3, <1>4, <1>5, SameCounts DEF R

LEMMA CompoundCounts ==
    ASSUME CountInv, NEW p \in Pools, NEW fees \in Nat, NEW at \in Ticks, Compound(p, fees, at)
    PROVE  Counted(Book)'
<1> DEFINE burned == BoughtBack(pool[p])
           clear  == Burnback(Book, p)
           laid   == Laid(clear, p, FALSE, fees, at)
           reset  == [laid EXCEPT !.pool[p] = Reset(@)]
           after  == IF burned = {} THEN laid ELSE reset
           moved  == burned # {} \/ Filled(clear, p, FALSE, fees, at) # {}
<1>0. BookInv(Book) /\ Counted(Book) /\ now \in Nat
  BY DEF CountInv, LadderInv, Dated
<1>1. BookInv(clear) /\ Counted(clear)
  BY <1>0, BoughtBackIsLit, ClearedKeeps, ClearedCounts DEF Burnback, Book
<1>2. Becomes(IF moved THEN Stamped(after, p) ELSE after)
  BY DEF Compound
<1> HIDE DEF clear, burned, moved
<1>3. BookInv(laid) /\ Counted(laid)
  BY <1>1, LaidKeeps, LaidCounts
<1> HIDE DEF laid
<1>4. BookInv(reset) /\ Counted(reset)
  BY <1>3, ResetAt, ResetCounts
<1> HIDE DEF reset
<1>5. BookInv(after) /\ Counted(after)
  BY <1>3, <1>4
<1> HIDE DEF after
<1>6. Counted(Stamped(after, p))
  BY <1>0, <1>5, StampedCounts
<1> QED
  BY <1>2, <1>5, <1>6, BecomesCounts

(* What a bid's position returns in AMPS is not negative.                  *)
LEMMA AmpsInIsNat ==
    ASSUME NEW P, PoolInv(P), Stocked(P), NEW m \in Grid
    PROVE  AmpsIn(P, m) \in Nat
<1>1. m \in Int /\ P.tick \in Int /\ P.cells[m].liquidity \in Nat /\ Width \in Nat /\ Width > 0
  BY Bounds DEF Grid, PoolInv, Prices, Stocked, Cell
<1>2. Lower(m) \in Int /\ Upper(m) = Lower(m) + Width
  BY <1>1, CellBounds
<1> DEFINE x == Upper(m) - Greater(Lower(m), Lesser(P.tick, Upper(m)))
<1>3. x \in Nat
  BY <1>1, <1>2 DEF Greater, Lesser
<1>4. AmpsIn(P, m) = (P.cells[m].liquidity * x) \div Width
  BY DEF AmpsIn
<1> HIDE DEF x
<1>5. P.cells[m].liquidity * x \in Nat
  BY <1>1, <1>3
<1> QED
  BY <1>1, <1>4, <1>5

LEMMA SpokeCounts ==
    ASSUME CountInv,
           \/ \E amount \in Bonded, at \in Anchors : DeployBonded(amount, at)
           \/ WithdrawRetiredBids
    PROVE  Counted(Book)'
<1>0. BookInv(Book) /\ Counted(Book) /\ now \in Nat /\ Spoke \in Pools
  BY DEF CountInv, LadderInv, Dated, Pools
<1>1. ASSUME NEW amount \in Bonded, NEW at \in Anchors, DeployBonded(amount, at)
      PROVE  Counted(Book)'
  <2>1. amount \in Nat /\ at \in Ticks
    BY LadderAssumption
  <2>2. Counted(Placed(Book, Spoke, FALSE, amount, at))
    BY <1>0, <2>1, PlacedCounts
  <2>3. Becomes(Placed(Book, Spoke, FALSE, amount, at))
    BY <1>1 DEF DeployBonded
  <2> QED
    BY <2>2, <2>3, BecomesCounts
<1>2. CASE WithdrawRetiredBids
  <2> DEFINE P    == pool[Spoke]
             bids == {m \in Grid : IsBid(P, m)}
             C    == Cleared(Book, Spoke, bids)
             f    == [m \in Grid |-> AmpsIn(P, m)]
             x    == C.idle + Sum(f, bids)
             R    == [C EXCEPT !.idle = x]
  <2>1. Becomes(Stamped(R, Spoke))
    BY <1>2 DEF WithdrawRetiredBids
  <2>2. bids \in SUBSET Lit(Book.pool[Spoke])
    BY DEF IsBid, Lit, Book
  <2>3. BookInv(C) /\ Counted(C)
    BY <1>0, <2>2, ClearedKeeps, ClearedCounts
  <2>4. \A m \in bids : f[m] \in Nat
    <3>1. PoolInv(P) /\ Stocked(P)
      BY <1>0 DEF BookInv, Counted, Book
    <3> QED
      BY <3>1, AmpsInIsNat
  <2>5. bids \in SUBSET Grid
    OBVIOUS
  <2> HIDE DEF C, bids, f
  <2>6. x \in Nat
    <3>1. Sum(f, bids) \in Nat
      BY <2>4, <2>5, SumNat, GridFinite DEF Sum
    <3> QED
      BY <2>3, <3>1 DEF Counted
  <2> HIDE DEF x
  <2>7. BookInv(R)
    BY <2>3, IdleKeeps
  <2>8. R.pool = C.pool /\ R.live = C.live /\ R.idle = x
    BY <2>3 DEF BookInv
  <2>9. Counted(R)
    BY <2>3, <2>6, <2>8 DEF Counted, LitOf
  <2> HIDE DEF R
  <2>10. Counted(Stamped(R, Spoke))
    BY <1>0, <2>7, <2>9, StampedCounts
  <2> QED
    BY <2>1, <2>10, BecomesCounts
<1> QED
  BY <1>1, <1>2

LEMMA DecayedIs == Dated => Decayed = DecayedOf(window.moved, now - window.start)
  BY DEF Decayed, DecayedOf

(* What a rollout drains is charged, and fits what the window leaves.      *)
LEMMA RolloutCounts ==
    ASSUME CountInv, NEW amount \in Nat, NEW at \in Ticks, NEW back \in Ticks,
           Rollout(amount, at, back)
    PROVE  /\ Counted(Book)'
           /\ \E gone \in 0 .. amount :
                  window' = Charged(gone) /\ drained' = [drained EXCEPT ![now] = @ + gone]
<1> DEFINE freed == Harvested(Book, Hub, amount)
           there == Placed(freed, Spoke, TRUE, amount, at)
           took  == Taken(freed, Spoke, TRUE, amount, at)
           rest  == amount - took
           again == Placed(there, Hub, TRUE, rest, back)
           kept  == Taken(there, Hub, TRUE, rest, back)
           home  == IF rest = 0 THEN there ELSE again
           gone  == amount - (IF rest = 0 THEN 0 ELSE kept)
<1>0. BookInv(Book) /\ Counted(Book) /\ now \in Nat /\ Spoke \in Pools /\ Hub \in Pools
  BY DEF CountInv, LadderInv, Dated, Pools
<1>1. /\ Becomes(Stamped(home, Hub)) /\ window' = Charged(gone)
      /\ drained' = [drained EXCEPT ![now] = @ + gone]
  BY DEF Rollout
<1>2. BookInv(freed) /\ Counted(freed) /\ freed.idle = Book.idle + amount
  <2>1. Stocked(Book.pool[Hub])
    BY <1>0 DEF Counted
  <2> QED
    BY <1>0, <2>1, HarvestedKeeps, HarvestedCounts, HarvestedMeans
<1>3. Book.idle \in Nat
  BY <1>0 DEF Counted
<1> HIDE DEF freed
<1>a. amount <= freed.idle
  BY <1>2, <1>3
<1>4. /\ BookInv(there) /\ Counted(there) /\ took \in 0 .. amount
      /\ there.idle = freed.idle - took
  BY <1>0, <1>2, <1>a, PlacedAsks
<1> HIDE DEF there, took
<1>5. rest \in Nat /\ rest <= amount /\ rest <= there.idle
  BY <1>2, <1>3, <1>4
<1> HIDE DEF rest
<1>6. BookInv(again) /\ Counted(again) /\ kept \in 0 .. rest
  BY <1>0, <1>4, <1>5, PlacedAsks
<1> HIDE DEF again, kept
<1>7. BookInv(home) /\ Counted(home)
  BY <1>4, <1>6
<1>8. gone \in 0 .. amount
  BY <1>5, <1>6
<1> HIDE DEF home, gone
<1>9. Counted(Stamped(home, Hub))
  BY <1>0, <1>7, StampedCounts
<1> QED
  BY <1>1, <1>8, <1>9, BecomesCounts

LEMMA SwapCounts ==
    ASSUME CountInv, NEW p \in Pools, NEW t \in Ticks, Swap(p, t)
    PROVE  Counted(Book)'
<1> DEFINE P == pool[p]
           Q == Written(P, t)
           D == [m \in Grid |-> [P.cells[m] EXCEPT
                   !.sold = P.cells[m].sold \/ (IsAsk(P, m) /\ Upper(m) <= t)]]
<1>1. BookInv(Book) /\ Counted(Book) /\ PoolShape(P) /\ Stocked(P)
  BY DEF CountInv, LadderInv, BookInv, PoolInv, Shapes, Counted, Book
<1>2. pool' = [pool EXCEPT ![p] = Q] /\ live' = live /\ idle' = idle
  BY DEF Swap
<1>3. Q = [P EXCEPT !.tick = t, !.trunc = Truncated(t, P.anchor),
                    !.mark = Greater(P.mark, Truncated(t, P.anchor)), !.cells = D]
  BY DEF Written
<1>4. \A m \in Grid : D[m] \in Cell /\ D[m].liquidity = P.cells[m].liquidity
  <2> SUFFICES ASSUME NEW m \in Grid
               PROVE  D[m] \in Cell /\ D[m].liquidity = P.cells[m].liquidity
    OBVIOUS
  <2>1. P.cells[m] \in Cell
    BY <1>1 DEF Stocked
  <2>2. P.cells[m].sold \/ (IsAsk(P, m) /\ Upper(m) <= t) \in BOOLEAN
    OBVIOUS
  <2> QED
    BY <2>1, <2>2 DEF Cell
<1> HIDE DEF D, Q
<1>5. Q.cells = D /\ Q.record = P.record /\ Q.placed = P.placed
  BY <1>1, <1>3 DEF PoolShape
<1>6. Lit(Q) = Lit(P) /\ Recorded(Q) = Recorded(P)
  BY <1>4, <1>5 DEF Lit, Recorded
<1>7. Stocked(Q)
  BY <1>1, <1>4, <1>5, <1>6 DEF Stocked, Filed
<1> DEFINE c == [pool |-> pool', live |-> live', idle |-> idle']
<1>8. c.pool[p] = Q /\ Elsewhere(Book, c, p) /\ c.live = Book.live /\ c.idle = Book.idle
  BY <1>1, <1>2 DEF BookInv, Book, Elsewhere
<1>9. Becomes(c)
  BY DEF Becomes
<1> HIDE DEF c
<1>10. /\ Cardinality(Lit(P)) \in Nat /\ Book.live \in Nat /\ Book.live <= MaxLive
       /\ Book.idle \in Nat /\ Book.pool[p] = P
  BY <1>1, LitFinite DEF Counted, LitOf, Book
<1>11. Counted(c)
  BY <1>1, <1>6, <1>7, <1>8, <1>10, CountMoves
<1> QED
  BY <1>9, <1>11, BecomesCounts

LEMMA TickCounts == ASSUME CountInv, Tick PROVE Counted(Book)'
<1>1. /\ pool' = [p \in Pools |-> [pool[p] EXCEPT !.anchor = pool[p].trunc]]
      /\ live' = live /\ idle' = idle
  BY DEF Tick
<1>2. ASSUME NEW p \in Pools
      PROVE  Stocked(pool'[p]) /\ Lit(pool'[p]) = Lit(pool[p])
  <2> DEFINE P == pool[p]
             Q == [P EXCEPT !.anchor = P.trunc]
  <2>1. PoolShape(P) /\ Stocked(P)
    BY DEF CountInv, LadderInv, BookInv, PoolInv, Shapes, Counted, Book
  <2>2. Q.cells = P.cells /\ Q.record = P.record /\ Q.placed = P.placed
    BY <2>1 DEF PoolShape
  <2>3. pool'[p] = Q
    BY <1>1
  <2> HIDE DEF Q
  <2>4. Lit(Q) = Lit(P) /\ Recorded(Q) = Recorded(P)
    BY <2>2 DEF Lit, Recorded
  <2> QED
    BY <2>1, <2>2, <2>3, <2>4 DEF Stocked, Filed
<1>3. Hub \in Pools /\ Spoke \in Pools
  BY DEF Pools
<1> QED
  BY <1>1, <1>2, <1>3 DEF CountInv, Counted, LitOf, Book

(* The clock and the window, apart from a rollout.                         *)
LEMMA PaceOfNow == ASSUME CountInv PROVE Dated /\ Paced /\ drained \in [1 .. MaxTime -> Nat]
  BY DEF CountInv, Paced, Pace

LEMMA QuietStep ==
    ASSUME CountInv, UNCHANGED <<now, window, drained>>, retired' \in BOOLEAN
    PROVE  Dated' /\ Paced'
  BY DEF CountInv, Dated, Paced

LEMMA RolloutPace ==
    ASSUME CountInv, NEW amount \in 1 .. Allowance, NEW at \in Ticks, NEW back \in Ticks,
           Rollout(amount, at, back)
    PROVE  Dated' /\ Paced'
<1> DEFINE s == window.start
           m == window.moved
<1>0. Dated /\ Paced
  BY DEF CountInv
<1>1. /\ now \in 1 .. MaxTime /\ s \in Nat /\ m \in Nat /\ s <= now /\ retired \in BOOLEAN
      /\ Pace(drained, s, m) /\ Decayed = DecayedOf(m, now - s)
  BY <1>0, DecayedIs DEF Dated, Paced
<1>2. amount \in Nat /\ Allowance \in Nat
  BY PaceBounds
<1>3. amount <= Allowance - Decayed /\ now' = now /\ retired' = retired
  BY DEF Rollout
<1>4. PICK gone \in 0 .. amount :
          window' = Charged(gone) /\ drained' = [drained EXCEPT ![now] = @ + gone]
  BY <1>2, RolloutCounts
<1>5. drained \in [1 .. MaxTime -> Nat]
  BY <1>1 DEF Pace
<1>6. CASE gone = 0
  <2>1. window' = window
    BY <1>4, <1>6 DEF Charged
  <2>2. drained' = drained
    BY <1>1, <1>4, <1>5, <1>6
  <2> QED
    BY <1>3, <1>0, <2>1, <2>2 DEF Dated, Paced
<1>7. CASE gone # 0
  <2> DEFINE f == DecayedOf(m, now - s)
             e == drained'
  <2>1. f \in Nat /\ now - s \in Nat
    <3>1. now - s \in Nat /\ m <= Allowance
      BY <1>1 DEF Pace
    <3> QED
      BY <1>1, <3>1, DecayIsPaced
  <2>2. window' = [moved |-> f + gone, start |-> now]
    BY <1>1, <1>4, <1>7 DEF Charged
  <2>3. f + gone <= Allowance /\ gone \in Nat
    BY <1>1, <1>2, <1>3, <1>4, <2>1
  <2>4. e = [drained EXCEPT ![now] = drained[now] + gone]
    BY <1>4
  <2> HIDE DEF e, s, m
  <2>5. Pace(e, now, f + gone)
    BY ONLY <1>1, <2>3, <2>4, ChargeKeepsPace
  <2>6. Dated'
    BY <1>1, <1>3, <2>1, <2>2, <2>3 DEF Dated
  <2>7. Paced'
    <3>1. window'.start = now /\ window'.moved = f + gone
      BY <2>2
    <3> QED
      BY <2>5, <3>1 DEF Paced, e
  <2> QED
    BY <2>6, <2>7
<1> QED
  BY <1>6, <1>7

LEMMA CountStep == CountInv /\ [Next]_vars => CountInv'
<1> SUFFICES ASSUME CountInv, [Next]_vars PROVE CountInv'
  OBVIOUS
<1>1. LadderInv'
  BY LadderStep DEF CountInv
<1>2. Counted(Book)' /\ Dated' /\ Paced'
  <2>0. Amounts \subseteq Nat /\ Fees \subseteq Nat /\ Bonded \subseteq Nat
        /\ Anchors \subseteq Ticks /\ Traded \subseteq Pools /\ Allowance \in Nat
    BY LadderAssumption
  <2>d. retired \in BOOLEAN
    BY PaceOfNow DEF Dated
  <2>1. ASSUME NEW p \in Pools, NEW above \in BOOLEAN, NEW amount \in Amounts,
               NEW at \in Anchors, Place(p, above, amount, at)
        PROVE  Counted(Book)' /\ Dated' /\ Paced'
    <3>1. UNCHANGED <<now, window, drained, retired>>
      BY <2>1 DEF Place
    <3>2. amount \in Nat /\ at \in Ticks
      BY <2>0
    <3> QED
      BY <2>1, <2>d, <3>1, <3>2, PlaceCounts, QuietStep
  <2>2. ASSUME NEW p \in Traded, NEW fees \in Fees, NEW at \in Anchors, Compound(p, fees, at)
        PROVE  Counted(Book)' /\ Dated' /\ Paced'
    <3>1. UNCHANGED <<now, window, drained, retired>>
      BY <2>2 DEF Compound
    <3>2. p \in Pools /\ fees \in Nat /\ at \in Ticks
      BY <2>0
    <3> QED
      BY <2>2, <2>d, <3>1, <3>2, CompoundCounts, QuietStep
  <2>3. CASE \/ \E amount \in Bonded, at \in Anchors : DeployBonded(amount, at)
             \/ WithdrawRetiredBids
    <3>1. UNCHANGED <<now, window, drained, retired>>
      BY <2>3 DEF DeployBonded, WithdrawRetiredBids
    <3> QED
      BY <2>3, <2>d, <3>1, SpokeCounts, QuietStep
  <2>4. ASSUME NEW amount \in 1 .. Allowance, NEW at \in Anchors, NEW back \in Anchors,
               Rollout(amount, at, back)
        PROVE  Counted(Book)' /\ Dated' /\ Paced'
    <3>1. amount \in Nat /\ at \in Ticks /\ back \in Ticks
      BY <2>0
    <3> QED
      BY <2>4, <3>1, RolloutCounts, RolloutPace
  <2>5. ASSUME NEW p \in Traded, NEW t \in Ticks, Swap(p, t)
        PROVE  Counted(Book)' /\ Dated' /\ Paced'
    <3>1. UNCHANGED <<now, window, drained, retired>>
      BY <2>5 DEF Swap
    <3>2. p \in Pools
      BY <2>0
    <3> QED
      BY <2>5, <2>d, <3>1, <3>2, SwapCounts, QuietStep
  <2>6. CASE Retire
    <3>1. UNCHANGED <<now, window, drained, pool, live, idle>> /\ retired' \in BOOLEAN
      BY <2>6 DEF Retire
    <3>2. Counted(Book)'
      BY <3>1 DEF CountInv, Book
    <3> QED
      BY <3>1, <3>2, QuietStep
  <2>7. CASE Tick
    <3>1. /\ now' = now + 1 /\ now < MaxTime
          /\ UNCHANGED <<window, drained, retired>>
      BY <2>7 DEF Tick
    <3>2. Dated' /\ Paced'
      BY <3>1, PaceOfNow, PaceBounds DEF Dated, Paced
    <3> QED
      BY <2>7, <3>2, TickCounts
  <2>8. CASE UNCHANGED vars
    <3>1. UNCHANGED <<now, window, drained, pool, live, idle, retired>>
      BY <2>8 DEF vars
    <3>2. Counted(Book)'
      BY <3>1 DEF CountInv, Book
    <3> QED
      BY <2>d, <3>1, <3>2, QuietStep
  <2> QED
    BY <2>1, <2>2, <2>3, <2>4, <2>5, <2>6, <2>7, <2>8 DEF Next
<1> QED
  BY <1>1, <1>2 DEF CountInv

(* The count of live cells, the records and the window of the rollout      *)
(* stand together: no one of them is kept by the operations alone.         *)
THEOREM CountInvariant == Spec => []CountInv
<1>1. Init => CountInv
  BY LadderInit, CountInit DEF CountInv
<1> QED
  BY <1>1, CountStep, PTL DEF Spec

(* The cells of the two pools that hold liquidity, counted one pool at a   *)
(* time.                                                                   *)
LEMMA LitCells ==
    Cardinality({x \in Pools \X Grid : pool[x[1]].cells[x[2]].liquidity # 0})
        = Cardinality(Lit(pool[Hub])) + Cardinality(Lit(pool[Spoke]))
<1> DEFINE H == {Hub} \X Lit(pool[Hub])
           S == {Spoke} \X Lit(pool[Spoke])
           U == {x \in Pools \X Grid : pool[x[1]].cells[x[2]].liquidity # 0}
<1>1. U = H \cup S
  BY DEF Pools, Lit
<1>2. H \cap S = {}
  BY LadderAssumption
<1>3. ASSUME NEW p, NEW P
      PROVE  /\ IsFiniteSet({p} \X Lit(P))
             /\ Cardinality({p} \X Lit(P)) = Cardinality(Lit(P))
  <2>1. IsFiniteSet({p}) /\ Cardinality({p}) = 1
    BY FS_Singleton
  <2>2. IsFiniteSet(Lit(P)) /\ Cardinality(Lit(P)) \in Nat
    BY LitFinite
  <2>3. /\ IsFiniteSet({p} \X Lit(P))
        /\ Cardinality({p} \X Lit(P)) = Cardinality({p}) * Cardinality(Lit(P))
    BY <2>1, <2>2, FS_Product
  <2> QED
    BY <2>1, <2>2, <2>3
<1>4. /\ IsFiniteSet(H) /\ Cardinality(H) = Cardinality(Lit(pool[Hub]))
      /\ IsFiniteSet(S) /\ Cardinality(S) = Cardinality(Lit(pool[Spoke]))
  BY <1>3
<1> HIDE DEF H, S, U
<1>5. Cardinality(H \cup S) = Cardinality(H) + Cardinality(S) - Cardinality(H \cap S)
  BY <1>4, FS_Union
<1>6. Cardinality(H \cap S) = 0
  BY <1>2, FS_EmptySet
<1>7. Cardinality(U) = Cardinality(Lit(pool[Hub])) + Cardinality(Lit(pool[Spoke]))
  BY <1>1, <1>4, <1>5, <1>6, LitFinite
<1> QED
  BY <1>7 DEF U

(* Every pool is of its type.                                              *)
LEMMA PoolTyped == ASSUME NEW P, PoolInv(P), Stocked(P) PROVE P \in Pool
<1>1. /\ P \in [tick : {P.tick}, trunc : {P.trunc}, anchor : {P.anchor}, mark : {P.mark},
                 cells : {P.cells}, record : {P.record}, placed : {P.placed}]
      /\ P.tick \in Ticks /\ P.trunc \in Ticks /\ P.anchor \in Ticks /\ P.mark \in Ticks
      /\ P.cells = [m \in Grid |-> P.cells[m]] /\ P.record \in [Grid -> Nat] /\ P.placed \in Nat
      /\ \A m \in Grid : P.cells[m] \in Cell
  BY DEF PoolInv, Shapes, PoolShape, Prices, Stocked, Filed
<1>2. P.cells \in [Grid -> Cell]
  BY <1>1
<1> QED
  BY <1>1, <1>2 DEF Pool

(* The count of live cells, which bounds what a redemption must walk, is   *)
(* of the cells that hold liquidity and within its budget, for every grid, *)
(* budget and ladder (LiveCellsAreCounted): the records of a pool are      *)
(* numbered one after another, so no cell is entered twice and counted     *)
(* twice, and a harvest counts out exactly the cells it empties.           *)
THEOREM LiveCellsCounted == Spec => []LiveCellsAreCounted
<1>1. CountInv => LiveCellsAreCounted
  <2> SUFFICES ASSUME CountInv PROVE LiveCellsAreCounted
    OBVIOUS
  <2>1. /\ BookInv(Book) /\ Counted(Book) /\ Dated /\ Paced
        /\ Book.pool = pool /\ Book.live = live /\ Book.idle = idle
    BY DEF CountInv, LadderInv, Book
  <2>2. pool \in [Pools -> Pool]
    <3>1. \A p \in Pools : pool[p] \in Pool
      BY <2>1, PoolTyped DEF BookInv, Counted
    <3>2. pool = [p \in Pools |-> pool[p]]
      BY <2>1 DEF BookInv
    <3> QED
      BY <3>1, <3>2
  <2>3. /\ live = Cardinality(Lit(pool[Hub])) + Cardinality(Lit(pool[Spoke]))
        /\ live <= MaxLive /\ idle \in Nat /\ live \in Nat
    BY <2>1, LitFinite DEF Counted, LitOf
  <2>4. LadderTypeOK
    BY <2>1, <2>2, <2>3, PaceOfNow DEF LadderTypeOK, Dated
  <2> QED
    BY <2>3, <2>4, LitCells DEF LiveCellsAreCounted
<1> QED
  BY <1>1, CountInvariant, PTL

(* However rollouts are timed, no stretch of blocks drains the Hub of more *)
(* than one allowance and those blocks' share of another (RolloutIsPaced): *)
(* the window, decayed to now and charged, bounds what was drained since   *)
(* any earlier block.                                                      *)
THEOREM RolloutPaced == Spec => []RolloutIsPaced
<1>1. CountInv => RolloutIsPaced
  <2> SUFFICES ASSUME CountInv, NEW a \in 1 .. MaxTime, NEW z \in 1 .. MaxTime, a <= z
               PROVE  Sum(drained, a .. z) <= Allowance + ((z - a) * (Allowance + Day - 1)) \div Day
    BY DEF RolloutIsPaced
  <2> DEFINE x == DrainedIn(drained, a, z)
             y == (z - a) * Slope
  <2>1. Day * x <= Day * Allowance + y
    BY PaceOfNow DEF Paced, Pace, Always
  <2>2. x \in Nat
    <3>1. z \in 0 .. MaxTime
      BY PaceBounds
    <3> QED
      BY <3>1, PaceOfNow, DrainedSums
  <2>3. y \in Nat
    BY PaceBounds
  <2> HIDE DEF x, y
  <2>4. /\ y \div Day \in Nat /\ y < Day * (y \div Day) + Day
    BY <2>3, DivisionIs
  <2> DEFINE q == y \div Day
  <2>5. x <= Allowance + q
    <3> HIDE DEF q
    <3>1. Day * x < Day * Allowance + Day * q + Day
      BY <2>1, <2>2, <2>3, <2>4, PaceBounds DEF q
    <3>2. Day * Allowance + Day * q + Day = Day * (Allowance + q + 1)
      BY <2>4, PaceBounds DEF q
    <3>3. ~(Allowance + q + 1 <= x)
      <4> SUFFICES ASSUME Allowance + q + 1 <= x PROVE FALSE
        OBVIOUS
      <4>1. Allowance + q + 1 \in Nat /\ Day \in Nat /\ q \in Nat
        BY <2>4, PaceBounds DEF q
      <4>2. (Allowance + q + 1) * Day <= x * Day
        BY <2>2, <4>1, Mult
      <4>3. (Allowance + q + 1) * Day = Day * (Allowance + q + 1) /\ x * Day = Day * x
        BY <2>2, <4>1
      <4>4. Day * x \in Nat /\ Day * (Allowance + q + 1) \in Nat
        BY <2>2, <4>1
      <4> QED
        BY <3>1, <3>2, <4>2, <4>3, <4>4
    <3>4. q \in Nat /\ Allowance \in Nat
      BY <2>4, PaceBounds DEF q
    <3> QED
      BY <2>2, <3>3, <3>4
  <2> QED
    BY <2>5 DEF x, y, DrainedIn, Slope
<1> QED
  BY <1>1, CountInvariant, PTL

---------------------------------------------------------------------------
(* The floor of the entry pool.                                            *)

Liquidity(P) == [m \in Grid |-> P.cells[m].liquidity]

Asked(P) == {m \in Grid : P.cells[m].above /\ Lower(m) > P.tick /\ Upper(m) > P.mark}

QuoteOf(P) == Sum(Liquidity(P), Asked(P))

LEMMA LiquidityIs ==
    ASSUME NEW P, Stocked(P)
    PROVE  /\ \A m \in Grid : Liquidity(P)[m] = P.cells[m].liquidity /\ Liquidity(P)[m] \in Nat
           /\ \A m \in Grid : P.cells[m].liquidity \in Nat /\ P.cells[m].above \in BOOLEAN
           /\ Movable(P) \in SUBSET Grid /\ Asked(P) \in SUBSET Grid
  BY DEF Liquidity, Stocked, Cell, Movable, Asked

LEMMA GridSums ==
    ASSUME NEW f, \A m \in Grid : f[m] \in Nat, NEW A \in SUBSET Grid
    PROVE  Sum(f, A) \in Nat
  BY SumNat, GridFinite DEF Sum

(* What could be sold before can be sold after.                            *)
StillAsked(P, Q) ==
    \A m \in Asked(P) :
        P.cells[m].liquidity # 0 =>
            m \in Asked(Q) /\ P.cells[m].liquidity <= Q.cells[m].liquidity

LEMMA QuoteGrows ==
    ASSUME NEW P, Stocked(P), NEW Q, Stocked(Q), StillAsked(P, Q)
    PROVE  QuoteOf(P) <= QuoteOf(Q)
<1> DEFINE f == Liquidity(P)
           g == Liquidity(Q)
           T == {m \in Asked(P) : P.cells[m].liquidity # 0}
<1>1. /\ \A m \in Grid : f[m] = P.cells[m].liquidity /\ f[m] \in Nat
      /\ \A m \in Grid : g[m] = Q.cells[m].liquidity /\ g[m] \in Nat
      /\ Asked(P) \in SUBSET Grid /\ Asked(Q) \in SUBSET Grid
  BY LiquidityIs
<1> HIDE DEF f, g
<1>2. T \in SUBSET Asked(P) /\ \A m \in Asked(P) \ T : f[m] = 0
  BY <1>1
<1>3. T \in SUBSET Asked(Q) /\ \A m \in T : f[m] <= g[m]
  BY <1>1 DEF StillAsked
<1> HIDE DEF T
<1>4. /\ IsFiniteSet(Asked(P)) /\ IsFiniteSet(Asked(Q)) /\ IsFiniteSet(T)
      /\ T \in SUBSET Grid
  BY <1>1, <1>2, GridFinite
<1>5. SumFunctionOnSet(f, Asked(P)) = SumFunctionOnSet(f, T)
  <2>1. \A m \in Asked(P) : f[m] \in Int
    BY <1>1
  <2> QED
    BY <1>2, <1>4, <2>1, SumOfPart
<1>6. SumFunctionOnSet(f, T) <= SumFunctionOnSet(g, T)
  <2>1. \A m \in T : f[m] \in Int /\ g[m] \in Int /\ f[m] <= g[m]
    BY <1>1, <1>3, <1>4
  <2> QED
    BY <1>4, <2>1, SumAtMost
<1>7. SumFunctionOnSet(g, T) <= SumFunctionOnSet(g, Asked(Q))
  <2>1. \A m \in Asked(Q) : g[m] \in Nat
    BY <1>1
  <2> QED
    BY <1>3, <1>4, <2>1, SumOfPartAtMost
<1>8. /\ Sum(f, T) \in Nat /\ Sum(g, T) \in Nat /\ Sum(g, Asked(Q)) \in Nat
  BY <1>1, <1>4, GridSums
<1> QED
  BY <1>5, <1>6, <1>7, <1>8 DEF QuoteOf, Sum, f, g

(* The cell whose record is the earliest of some.                          *)
LEMMA EarliestRecord ==
    ASSUME NEW P, Filed(P), NEW A \in SUBSET Lit(P), A # {}
    PROVE  \E m \in A : \A x \in A : x # m => P.record[x] > P.record[m]
<1>1. /\ A \in SUBSET Grid /\ A \in SUBSET Recorded(P)
      /\ \A m \in A : P.record[m] \in Nat
      /\ \A m, n \in A : P.record[m] = P.record[n] => m = n
  BY LitFinite DEF Filed
<1> DEFINE N == {k \in Nat : \E m \in A : k = P.record[m]}
<1>2. N # {} /\ N \in SUBSET Nat
  BY <1>1
<1>3. PICK k \in N : \A j \in N : k <= j
  BY <1>2, LeastElement
<1>4. PICK m \in A : k = P.record[m]
  OBVIOUS
<1>5. \A x \in A : x # m => P.record[x] > P.record[m]
  <2> SUFFICES ASSUME NEW x \in A, x # m PROVE P.record[x] > P.record[m]
    OBVIOUS
  <2>1. P.record[x] \in N /\ P.record[x] \in Nat /\ P.record[m] \in Nat
    BY <1>1
  <2>2. k <= P.record[x] /\ P.record[x] # P.record[m]
    BY <1>1, <1>3, <2>1
  <2> QED
    BY <1>4, <2>1, <2>2
<1> QED
  BY <1>5

(* A harvest gives no more than is wanted: each cell, what the cells       *)
(* entered after it leave over.                                            *)
LEMMA GivenAddsUp ==
    ASSUME NEW P, Stocked(P), NEW wanted \in Nat
    PROVE  Sum([m \in Grid |-> Given(P, wanted, m)], Movable(P)) <= wanted
<1> DEFINE M == Movable(P)
           f == Liquidity(P)
           g == [m \in Grid |-> Given(P, wanted, m)]
           Closed(A) == \A m \in A : \A x \in M : P.record[x] > P.record[m] => x \in A
           G == {A \in SUBSET M : Closed(A) => SumFunctionOnSet(g, A) <= wanted}
<1>1. /\ \A m \in Grid : f[m] = P.cells[m].liquidity /\ f[m] \in Nat
      /\ \A m \in Grid : g[m] = Given(P, wanted, m) /\ g[m] \in Nat /\ g[m] <= f[m]
      /\ M \in SUBSET Grid /\ M \in SUBSET Lit(P) /\ IsFiniteSet(M)
  BY LiquidityIs, GivenBounds, GridFinite DEF Movable, IsAsk, Lit
<1>2. \A m \in M : g[m] = Greater(0, Lesser(f[m], wanted - Sum(f, M \cap After(P, m))))
  BY <1>1 DEF Given, Liquidity
<1> HIDE DEF f, g, M
<1>3. ASSUME NEW A \in SUBSET M, \A x \in A : A \ {x} \in G
      PROVE  A \in G
  <2> SUFFICES ASSUME Closed(A) PROVE SumFunctionOnSet(g, A) <= wanted
    OBVIOUS
  <2>1. CASE A = {}
    <3>1. SumFunctionOnSet(g, A) = 0
      BY <2>1, SumEmpty
    <3> QED
      BY <3>1
  <2>2. CASE A # {}
    <3>1. Filed(P) /\ A \in SUBSET Lit(P)
      BY <1>1 DEF Stocked
    <3>2. PICK m \in A : \A x \in A : x # m => P.record[x] > P.record[m]
      BY <2>2, <3>1, EarliestRecord
    <3> DEFINE B == A \ {m}
    <3>a. B \in SUBSET Grid /\ m \in Grid /\ A \in SUBSET Grid /\ \A x \in Grid : P.record[x] \in Nat
      BY <1>1, <3>1 DEF Filed
    <3>3. M \cap After(P, m) = B
      <4>1. m \notin After(P, m)
        BY <3>a DEF After
      <4>2. \A x \in M : x \in After(P, m) => x \in A
        BY <3>2 DEF After
      <4>3. \A x \in B : x \in M /\ x \in After(P, m)
        BY <3>2, <3>a DEF After
      <4> QED
        BY <4>1, <4>2, <4>3
    <3>4. Closed(B)
      <4> SUFFICES ASSUME NEW y \in B, NEW x \in M, P.record[x] > P.record[y] PROVE x \in B
        OBVIOUS
      <4>1. x \in A /\ P.record[y] > P.record[m]
        BY <3>2
      <4>2. P.record[x] \in Nat /\ P.record[y] \in Nat /\ P.record[m] \in Nat
        BY <3>a, <1>1
      <4>3. x # m
        BY <4>1, <4>2
      <4> QED
        BY <4>1, <4>3
    <3>5. SumFunctionOnSet(g, B) <= wanted
      BY <1>3, <3>4
    <3> DEFINE u == SumFunctionOnSet(g, B)
               v == SumFunctionOnSet(f, B)
    <3>6. IsFiniteSet(A) /\ IsFiniteSet(B) /\ \A x \in A : g[x] \in Int
      BY <1>1, <3>a, GridFinite
    <3>7. SumFunctionOnSet(g, A) = g[m] + u
      BY <3>6, SumTakesOut
    <3> HIDE DEF B
    <3>8. u \in Nat /\ v \in Nat
      BY <1>1, <3>a, GridSums DEF Sum
    <3>9. u <= v
      <4>1. \A x \in B : g[x] \in Int /\ f[x] \in Int /\ g[x] <= f[x]
        BY <1>1, <3>a
      <4> QED
        BY <3>6, <4>1, SumAtMost
    <3>10. g[m] = Greater(0, Lesser(f[m], wanted - v)) /\ f[m] \in Nat
      BY <1>1, <1>2, <3>3, <3>a DEF Sum
    <3> HIDE DEF u, v
    <3> QED
      BY <3>5, <3>7, <3>8, <3>9, <3>10 DEF Greater, Lesser, u
  <2> QED
    BY <2>1, <2>2
<1> HIDE DEF G
<1>b. IsFiniteSet(M) /\ \A A \in SUBSET M : (\A x \in A : A \ {x} \in G) => A \in G
  BY <1>1, <1>3
<1>4. M \in G
  BY ONLY <1>b, SetInductionDown
<1>5. SumFunctionOnSet(g, M) <= wanted
  BY <1>4 DEF G
<1> QED
  BY <1>5 DEF Sum, g, M

(* What a harvest leaves can still be sold.                                *)
LEMMA HarvestLeaves ==
    ASSUME NEW b, BookInv(b), NEW p \in Pools, Stocked(b.pool[p]), NEW wanted \in Nat,
           Stocked(Harvested(b, p, wanted).pool[p])
    PROVE  Inventory(b.pool[p]) <= QuoteOf(Harvested(b, p, wanted).pool[p]) + wanted
<1> DEFINE P == b.pool[p]
           Q == Harvested(b, p, wanted).pool[p]
           M == Movable(P)
           f == Liquidity(P)
           g == [m \in Grid |-> Given(P, wanted, m)]
           h == Liquidity(Q)
           T == M \ Spent(P, wanted)
<1>1. /\ \A m \in Grid : /\ Q.cells[m].liquidity = P.cells[m].liquidity - Given(P, wanted, m)
                         /\ m \notin Spent(P, wanted) => Q.cells[m].above = P.cells[m].above
      /\ Q.tick = P.tick /\ Q.mark = P.mark
  BY HarvestedMeans
<1>2. /\ \A m \in Grid : f[m] = P.cells[m].liquidity /\ f[m] \in Nat
      /\ \A m \in Grid : g[m] = Given(P, wanted, m) /\ g[m] \in Nat
      /\ M \in SUBSET Grid /\ IsFiniteSet(M)
  BY LiquidityIs, GivenBounds, GridFinite
<1>3. Inventory(P) = SumFunctionOnSet(f, M)
  BY DEF Inventory, Sum, Liquidity
<1>4. SumFunctionOnSet(g, M) <= wanted
  BY GivenAddsUp DEF Sum
<1> HIDE DEF Q
<1>5. \A m \in Grid : h[m] = Q.cells[m].liquidity /\ h[m] \in Nat
  BY LiquidityIs DEF Q
<1>6. \A m \in Grid : f[m] = h[m] + g[m]
  <2> SUFFICES ASSUME NEW m \in Grid PROVE f[m] = h[m] + g[m]
    OBVIOUS
  <2>1. h[m] = f[m] - g[m] /\ f[m] \in Nat /\ g[m] \in Nat
    BY <1>1, <1>2, <1>5
  <2> HIDE DEF f, g, h
  <2> QED
    BY <2>1
<1>7. T \in SUBSET Asked(Q) /\ T \in SUBSET M
  <2>1. \A m \in M : P.cells[m].above /\ P.tick < Lower(m) /\ P.mark < Upper(m)
    BY DEF Movable, IsAsk
  <2>2. P.tick \in Int /\ P.mark \in Int
    BY Bounds DEF BookInv, PoolInv, Prices
  <2>3. \A m \in Grid : Lower(m) \in Int /\ Upper(m) \in Int
    <3> SUFFICES ASSUME NEW m \in Grid PROVE Lower(m) \in Int /\ Upper(m) \in Int
      OBVIOUS
    <3>1. m \in Int /\ Width \in Int
      BY Bounds DEF Grid
    <3> QED
      BY <3>1, CellBounds
  <2> QED
    BY <1>1, <1>2, <2>1, <2>2, <2>3 DEF Asked
<1>8. \A m \in M \ T : h[m] = 0
  <2> SUFFICES ASSUME NEW m \in M \ T PROVE h[m] = 0
    OBVIOUS
  <2>1. P.cells[m].liquidity = Given(P, wanted, m) /\ m \in Grid
    BY <1>2 DEF Spent
  <2> QED
    BY <1>1, <1>2, <1>5, <2>1
<1> HIDE DEF f, g, h, M, T
<1>9. SumFunctionOnSet(f, M) = SumFunctionOnSet(h, M) + SumFunctionOnSet(g, M)
  <2>1. \A m \in M : h[m] \in Int /\ g[m] \in Int /\ f[m] = h[m] + g[m]
    BY <1>2, <1>5, <1>6
  <2> QED
    BY <1>2, <2>1, SumPlus
<1>10. SumFunctionOnSet(h, M) = SumFunctionOnSet(h, T)
  <2>1. \A m \in M : h[m] \in Int
    BY <1>2, <1>5
  <2> QED
    BY <1>2, <1>7, <1>8, <2>1, SumOfPart
<1>11. SumFunctionOnSet(h, T) <= SumFunctionOnSet(h, Asked(Q))
  <2>1. Asked(Q) \in SUBSET Grid /\ IsFiniteSet(Asked(Q)) /\ \A m \in Asked(Q) : h[m] \in Nat
    BY <1>5, GridFinite DEF Asked
  <2> QED
    BY <1>7, <2>1, SumOfPartAtMost
<1>12. /\ SumFunctionOnSet(f, M) \in Nat /\ SumFunctionOnSet(g, M) \in Nat
       /\ SumFunctionOnSet(h, T) \in Nat /\ SumFunctionOnSet(h, Asked(Q)) \in Nat
  <2>1. M \in SUBSET Grid /\ T \in SUBSET Grid /\ Asked(Q) \in SUBSET Grid
    BY <1>2, <1>7 DEF Asked
  <2> QED
    BY <1>2, <1>5, <2>1, GridSums DEF Sum
<1>13. QuoteOf(Q) = SumFunctionOnSet(h, Asked(Q))
  BY DEF QuoteOf, Sum, h
<1> QED
  BY <1>3, <1>4, <1>9, <1>10, <1>11, <1>12, <1>13 DEF Q

LEMMA LaidAdds ==
    ASSUME NEW b, BookInv(b), NEW p \in Pools, NEW above \in BOOLEAN, NEW amount, NEW at
    PROVE  LET P   == b.pool[p]
               S   == Targets(P, above, at)
               all == Filled(b, p, above, amount, at)
               Q   == Laid(b, p, above, amount, at).pool[p]
           IN  /\ \A m \in Grid : m \notin all => Q.cells[m] = P.cells[m]
               /\ \A m \in Grid : m \in all =>
                      /\ Q.cells[m].above = above
                      /\ Q.cells[m].liquidity = P.cells[m].liquidity + Share(S, amount, m)
               /\ Q.tick = P.tick
               /\ Q.mark = P.mark \/ Q.mark = Lesser(P.trunc, P.tick)
<1> DEFINE P   == b.pool[p]
           S   == Targets(P, above, at)
           all == Filled(b, p, above, amount, at)
           R   == Laid(b, p, above, amount, at)
           Q   == R.pool[p]
<1>1. /\ \A m \in Grid : Q.cells[m] =
             IF m \notin all THEN P.cells[m]
             ELSE [liquidity |-> P.cells[m].liquidity + Share(S, amount, m),
                   above |-> above, sold |-> FALSE]
      /\ Q.tick = P.tick
  BY LaidMeans
<1>4. Q.mark = P.mark \/ Q.mark = Lesser(P.trunc, P.tick)
  BY LaidMeans
<1> HIDE DEF P, Q, S, all, R
<1>2. \A m \in Grid : m \notin all => Q.cells[m] = P.cells[m]
  BY <1>1
<1>3. ASSUME NEW m \in Grid, m \in all
      PROVE  /\ Q.cells[m].above = above
             /\ Q.cells[m].liquidity = P.cells[m].liquidity + Share(S, amount, m)
  <2>1. Q.cells[m] = [liquidity |-> P.cells[m].liquidity + Share(S, amount, m),
                      above |-> above, sold |-> FALSE]
    BY <1>1, <1>3
  <2> QED
    BY <2>1
<1> QED
  BY <1>1, <1>2, <1>3, <1>4 DEF P, Q, S, all, R

LEMMA CellEnds ==
    ASSUME NEW m \in Grid
    PROVE  Lower(m) \in Int /\ Upper(m) \in Int /\ Lower(m) < Upper(m)
<1>1. m \in Int /\ Width \in Nat /\ Width > 0
  BY Bounds DEF Grid
<1> QED
  BY <1>1, CellBounds

(* Laying asks takes nothing that could be sold off the market: the mark   *)
(* drops to no more than a price that stands below what can be sold.       *)
LEMMA LaidKeepsQuote ==
    ASSUME NEW b, BookInv(b), Counted(b), NEW p \in Pools, NEW above \in BOOLEAN,
           NEW amount \in Nat, NEW at \in Ticks, above => amount <= b.idle
    PROVE  above => QuoteOf(b.pool[p]) <= QuoteOf(Laid(b, p, above, amount, at).pool[p])
<1> DEFINE P   == b.pool[p]
           L   == Laid(b, p, above, amount, at)
           Q   == L.pool[p]
           T   == Targets(P, above, at)
           all == Filled(b, p, above, amount, at)
<1>1. /\ \A m \in Grid : m \notin all => Q.cells[m] = P.cells[m]
      /\ \A m \in Grid : m \in all =>
             /\ Q.cells[m].above = above
             /\ Q.cells[m].liquidity = P.cells[m].liquidity + Share(T, amount, m)
      /\ Q.tick = P.tick
      /\ Q.mark = P.mark \/ Q.mark = Lesser(P.trunc, P.tick)
  BY LaidAdds
<1>2. P.tick \in Ticks /\ P.mark \in Int /\ P.tick \in Int /\ P.trunc \in Int
  BY Bounds DEF BookInv, PoolInv, Prices
<1>3. \A m \in T : Share(T, amount, m) \in Nat
  BY <1>2, PlacedBounds
<1>4. all \subseteq T
  BY FilledInTargets
<1>5. Stocked(P) /\ Stocked(Q)
  <2>1. Counted(L)
    BY LaidCounts
  <2> HIDE DEF L
  <2> QED
    BY <2>1 DEF Counted
<1>6. \A m \in Grid : P.cells[m].liquidity \in Nat
  BY <1>5, LiquidityIs
<1> HIDE DEF L, Q, T, all, P
<1>7. ASSUME above, NEW m \in Asked(P)
      PROVE  m \in Asked(Q) /\ P.cells[m].liquidity <= Q.cells[m].liquidity
  <2>1. m \in Grid /\ P.cells[m].above /\ Lower(m) > P.tick /\ Upper(m) > P.mark
    BY DEF Asked
  <2>2. Q.cells[m].above /\ P.cells[m].liquidity <= Q.cells[m].liquidity
    <3>1. CASE m \notin all
      <4>1. Q.cells[m] = P.cells[m]
        BY <1>1, <2>1, <3>1
      <4> QED
        BY <1>6, <2>1, <4>1
    <3>2. CASE m \in all
      <4>1. Q.cells[m].above /\ Q.cells[m].liquidity = P.cells[m].liquidity + Share(T, amount, m)
        BY <1>1, <1>7, <2>1, <3>2
      <4>2. Share(T, amount, m) \in Nat
        BY <1>3, <1>4, <3>2
      <4> QED
        BY <1>6, <2>1, <4>1, <4>2
    <3> QED
      BY <3>1, <3>2
  <2>3. Upper(m) > Q.mark
    BY <1>1, <1>2, <2>1, CellEnds DEF Lesser
  <2> QED
    BY <1>1, <2>1, <2>2, <2>3 DEF Asked
<1>8. above => StillAsked(P, Q)
  BY <1>7 DEF StillAsked
<1> QED
  BY <1>5, <1>8, QuoteGrows DEF P, Q, L

(* Nor does the burn before it: what it clears is under the mark.          *)
LEMMA PlacedKeepsQuote ==
    ASSUME NEW b, BookInv(b), Counted(b), now \in Nat, NEW p \in Pools, NEW above \in BOOLEAN,
           NEW amount \in Nat, NEW at \in Ticks, above => amount <= b.idle
    PROVE  above => QuoteOf(b.pool[p]) <= QuoteOf(Placed(b, p, above, amount, at).pool[p])
<1> DEFINE P == b.pool[p]
           C == Cleared(b, p, Burned(b, p, above))
           L == Laid(C, p, above, amount, at)
           S == Stamped(L, p)
           R == Placed(b, p, above, amount, at)
<1>1. Burned(b, p, above) \in SUBSET Lit(P) /\ Burned(b, p, above) \subseteq BoughtBack(P)
  BY BoughtBackIsLit DEF Burned
<1>2. BookInv(C) /\ Counted(C) /\ C.idle = b.idle
  BY <1>1, ClearedKeeps, ClearedCounts, ClearedMeans
<1>3. R = L \/ R = S
  BY DEF Placed, Burned
<1>4. QuoteOf(P) <= QuoteOf(C.pool[p])
  <2> DEFINE Q == C.pool[p]
  <2>1. /\ \A m \in Grid : Q.cells[m] = IF m \in Burned(b, p, above) THEN Empty ELSE P.cells[m]
        /\ Q.tick = P.tick /\ Q.mark = P.mark
    BY ClearedMeans
  <2>2. P.mark \in Int
    BY Bounds DEF BookInv, PoolInv, Prices
  <2>3. \A m \in Asked(P) : m \in Grid /\ m \notin Burned(b, p, above)
    BY <1>1, <2>2, CellEnds DEF Asked, BoughtBack
  <2>4. Stocked(P) /\ Stocked(Q)
    BY <1>2 DEF Counted
  <2>5. \A m \in Grid : P.cells[m].liquidity \in Nat
    BY <2>4, LiquidityIs
  <2> HIDE DEF C, Q, P
  <2>6. StillAsked(P, Q)
    BY <2>1, <2>3, <2>5 DEF StillAsked, Asked
  <2> QED
    BY <2>4, <2>6, QuoteGrows DEF Q
<1> HIDE DEF C, R
<1>5. BookInv(L) /\ Counted(L)
  BY <1>2, LaidKeeps, LaidCounts
<1>6. above => QuoteOf(C.pool[p]) <= QuoteOf(L.pool[p])
  BY <1>2, LaidKeepsQuote
<1> HIDE DEF L
<1>7. QuoteOf(S.pool[p]) = QuoteOf(L.pool[p])
  <2>1. /\ S.pool[p].cells = L.pool[p].cells /\ S.pool[p].tick = L.pool[p].tick
        /\ S.pool[p].mark = L.pool[p].mark
    BY <1>5, StampedMeans
  <2> HIDE DEF S
  <2> QED
    BY <2>1 DEF QuoteOf, Asked, Liquidity
<1> HIDE DEF S
<1>8. /\ QuoteOf(P) \in Nat /\ QuoteOf(C.pool[p]) \in Nat /\ QuoteOf(L.pool[p]) \in Nat
  <2>1. ASSUME NEW O, Stocked(O) PROVE QuoteOf(O) \in Nat
    BY <2>1, LiquidityIs, GridSums DEF QuoteOf
  <2> QED
    BY <1>2, <1>5, <2>1 DEF Counted
<1>9. QuoteOf(R.pool[p]) = QuoteOf(L.pool[p])
  <2>1. CASE R = L
    BY <2>1
  <2>2. CASE R = S
    BY <1>7, <2>2
  <2> QED
    BY <1>3, <2>1, <2>2
<1>10. above => QuoteOf(P) <= QuoteOf(L.pool[p])
  BY <1>4, <1>6, <1>8
<1> QED
  BY <1>9, <1>10 DEF R

(* A rollout that its own reading of the floor let through leaves it.      *)
LEMMA RolloutFloor ==
    ASSUME CountInv, NEW amount \in 1 .. Allowance, NEW at \in Ticks, NEW back \in Ticks,
           Rollout(amount, at, back)
    PROVE  Quotable(Hub)' >= Floor
<1> DEFINE freed == Harvested(Book, Hub, amount)
           there == Placed(freed, Spoke, TRUE, amount, at)
           took  == Taken(freed, Spoke, TRUE, amount, at)
           rest  == amount - took
           again == Placed(there, Hub, TRUE, rest, back)
           home  == IF rest = 0 THEN there ELSE again
           last  == Stamped(home, Hub)
<1>0. /\ BookInv(Book) /\ Counted(Book) /\ now \in Nat /\ Spoke \in Pools /\ Hub \in Pools
      /\ Hub # Spoke /\ amount \in Nat /\ Book.idle \in Nat /\ Floor \in Nat /\ TRUE \in BOOLEAN
  BY PaceBounds, LadderAssumption DEF CountInv, LadderInv, Dated, Pools, Counted
<1>1. Becomes(last) /\ amount <= Inventory(pool[Hub]) - Floor
  BY DEF Rollout
<1>2. /\ BookInv(freed) /\ Counted(freed) /\ freed.idle = Book.idle + amount
  <2>1. Stocked(Book.pool[Hub])
    BY <1>0 DEF Counted
  <2> QED
    BY <1>0, <2>1, HarvestedKeeps, HarvestedCounts, HarvestedMeans
<1>3. Inventory(pool[Hub]) <= QuoteOf(freed.pool[Hub]) + amount
  <2>1. Stocked(Book.pool[Hub]) /\ Stocked(freed.pool[Hub]) /\ Book.pool = pool
    BY <1>0, <1>2 DEF Counted, Book
  <2> QED
    BY <1>0, <2>1, HarvestLeaves
<1> HIDE DEF freed
<1>a. amount <= freed.idle
  BY <1>0, <1>2
<1>5. /\ BookInv(there) /\ Counted(there) /\ Elsewhere(freed, there, Spoke)
      /\ took \in 0 .. amount /\ there.idle = freed.idle - took
  BY <1>0, <1>2, <1>a, PlacedAsks
<1> HIDE DEF there, took
<1>6. there.pool[Hub] = freed.pool[Hub]
  BY <1>0, <1>5 DEF Elsewhere
<1>7. rest \in Nat /\ rest <= there.idle /\ (TRUE => rest <= there.idle)
  BY <1>0, <1>2, <1>5
<1> HIDE DEF rest
<1>8. BookInv(again) /\ Counted(again)
  BY <1>0, <1>5, <1>7, PlacedAsks
<1>9. TRUE => QuoteOf(there.pool[Hub]) <= QuoteOf(again.pool[Hub])
  BY <1>0, <1>5, <1>7, PlacedKeepsQuote
<1> HIDE DEF again
<1>10. ASSUME NEW b, Counted(b) PROVE QuoteOf(b.pool[Hub]) \in Nat
  BY <1>0, <1>10, LiquidityIs, GridSums DEF QuoteOf, Counted
<1>11. QuoteOf(freed.pool[Hub]) <= QuoteOf(home.pool[Hub])
  BY <1>2, <1>5, <1>6, <1>9, <1>10
<1>12. BookInv(home) /\ Counted(home)
  BY <1>5, <1>8
<1> HIDE DEF home
<1>13. /\ last.pool[Hub].cells = home.pool[Hub].cells /\ last.pool[Hub].tick = home.pool[Hub].tick
       /\ last.pool[Hub].mark = home.pool[Hub].mark
  BY <1>0, <1>12, StampedMeans
<1> HIDE DEF last
<1>14. pool'[Hub] = last.pool[Hub]
  BY <1>1 DEF Becomes
<1>15. Quotable(Hub)' = QuoteOf(home.pool[Hub])
  BY <1>13, <1>14 DEF Quotable, QuoteOf, Asked, Liquidity
<1>16. Inventory(pool[Hub]) \in Int
  BY <1>0, LiquidityIs, GridSums DEF Inventory, Liquidity, Counted, Book
<1>17. QuoteOf(home.pool[Hub]) \in Nat /\ QuoteOf(freed.pool[Hub]) \in Nat
  BY <1>2, <1>10, <1>12
<1> QED
  BY <1>0, <1>1, <1>3, <1>11, <1>15, <1>16, <1>17

(* A rollout that drains the entry pool leaves the floor of what can still *)
(* be sold there (EntryFloorHolds): the harvest gives no more than it was  *)
(* asked for, the asks it leaves stand clear of the price and of the mark, *)
(* and laying the rest back takes none of them off the market.             *)
THEOREM FloorHolds == Spec => EntryFloorHolds
<1> DEFINE Goal == drained' # drained => Quotable(Hub)' >= Floor
<1>1. CountInv /\ [Next]_vars => [Goal]_vars
  <2> SUFFICES ASSUME CountInv, Next PROVE Goal
    OBVIOUS
  <2>1. ASSUME NEW amount \in 1 .. Allowance, NEW at \in Anchors, NEW back \in Anchors,
               Rollout(amount, at, back)
        PROVE  Goal
    <3>1. at \in Ticks /\ back \in Ticks
      BY LadderAssumption
    <3> QED
      BY <2>1, <3>1, RolloutFloor
  <2> HIDE DEF Goal
  <2>g. drained' = drained => Goal
    BY DEF Goal
  <2>2. ASSUME NEW p \in Pools, NEW above \in BOOLEAN, NEW amount \in Amounts,
               NEW at \in Anchors, Place(p, above, amount, at)
        PROVE  Goal
    BY <2>2, <2>g DEF Place
  <2>3. ASSUME NEW p \in Traded, NEW fees \in Fees, NEW at \in Anchors, Compound(p, fees, at)
        PROVE  Goal
    BY <2>3, <2>g DEF Compound
  <2>4. ASSUME NEW amount \in Bonded, NEW at \in Anchors, DeployBonded(amount, at)
        PROVE  Goal
    BY <2>4, <2>g DEF DeployBonded
  <2>5. ASSUME NEW p \in Traded, NEW t \in Ticks, Swap(p, t)
        PROVE  Goal
    BY <2>5, <2>g DEF Swap
  <2>6. CASE WithdrawRetiredBids
    BY <2>6, <2>g DEF WithdrawRetiredBids
  <2>7. CASE Retire \/ Tick
    BY <2>7, <2>g DEF Retire, Tick
  <2> QED
    BY <2>1, <2>2, <2>3, <2>4, <2>5, <2>6, <2>7 DEF Next
<1> HIDE DEF Goal
<1>2. Spec => [][Goal]_vars
  BY <1>1, CountInvariant, PTL DEF Spec
<1> QED
  BY <1>2 DEF EntryFloorHolds, Goal
=============================================================================
