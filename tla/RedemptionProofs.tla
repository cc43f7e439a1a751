-------------------------- MODULE RedemptionProofs --------------------------
(***************************************************************************)
(* The inventory-burn stream and the ungated floor around it, for every     *)
(* day, fee, amount, ladder cell and number of steps.  The schedule of the  *)
(* stream is always defined, its queue is exactly what is still owed, and a *)
(* queue moves the deadline by its weight only.  The floor's books balance, *)
(* its view is exact and can be paid, those who stay do not lose, and the   *)
(* stream inside it is BurnStream.                                          *)
(***************************************************************************)
EXTENDS Redemption, TLAPS

---------------------------------------------------------------------------
(* Arithmetic.                                                              *)

(* Integer division rounds down, by less than one.                          *)
LEMMA DivisionFloors ==
    ASSUME NEW a \in Nat, NEW b \in Nat, b > 0
    PROVE  a \div b \in Nat /\ b * (a \div b) <= a /\ a < b * (a \div b) + b
BY Z3

LEMMA ProductMonotone ==
    ASSUME NEW a \in Nat, NEW b \in Nat, NEW c \in Nat, b <= c
    PROVE  a * b <= a * c
BY Z3

LEMMA ProductCancels ==
    ASSUME NEW a \in Nat, NEW b \in Int, NEW c \in Int, a > 0, a * b <= a * c
    PROVE  b <= c
BY Z3

(* The sum of the two floors that re-open a window lies between the two     *)
(* instants, but for one, and moves by the weight of what was added.        *)
LEMMA WeightedOpening ==
    ASSUME NEW o \in Nat, NEW n \in Nat, NEW p \in Nat, NEW a \in Nat,
           o <= n, p > 0, a > 0,
           NEW q, q = ((o * p) \div (p + a)) + ((n * a) \div (p + a))
    PROVE  /\ q \in Nat /\ q <= n /\ o - 1 <= q
           /\ (q - o) * (p + a) <= a * (n - o)
<1> DEFINE c == p + a
           u == (o * p) \div c
           v == (n * a) \div c
<1>q. q = u + v
  OBVIOUS
<1>1. c \in Nat /\ c > 0 /\ o * p \in Nat /\ n * a \in Nat
  BY Z3
<1>2. u \in Nat /\ c * u <= o * p /\ o * p < c * u + c
  BY <1>1, DivisionFloors
<1>3. v \in Nat /\ c * v <= n * a /\ n * a < c * v + c
  BY <1>1, DivisionFloors
<1>4. q \in Nat /\ c * q = c * u + c * v
  <2> HIDE DEF c, u, v
  <2> QED BY <1>q, <1>1, <1>2, <1>3, Z3
<1>5. c * o = o * p + o * a /\ c * n = n * p + n * a
  BY Z3
<1>6. o * p <= n * p /\ o * a <= n * a
  BY Z3
<1> HIDE DEF u, v
<1>7. q <= n
  <2>1. c * q <= c * n
    <3> HIDE DEF c
    <3> QED BY <1>1, <1>2, <1>3, <1>4, <1>5, <1>6, Z3
  <2> QED BY <2>1, <1>1, <1>4, ProductCancels
<1>8. o - 1 <= q
  <2>1. c * (o - 2) < c * q
    <3>1. c * (o - 2) = c * o - 2 * c
      BY <1>1, Z3
    <3> HIDE DEF c
    <3> QED BY <3>1, <1>1, <1>2, <1>3, <1>4, <1>5, <1>6, Z3
  <2>2. q < o - 1 => c * q <= c * (o - 2)
    <3> HIDE DEF c
    <3> QED BY <1>1, <1>4, Z3
  <2> HIDE DEF c
  <2> QED BY <2>1, <2>2, <1>1, <1>4, Z3
<1>9. (q - o) * c <= a * (n - o)
  <2>1. (q - o) * c = c * q - c * o /\ a * (n - o) = n * a - o * a
    BY <1>1, <1>4, Z3
  <2> HIDE DEF c
  <2> QED BY <2>1, <1>1, <1>2, <1>3, <1>4, <1>5, Z3
<1> QED BY <1>4, <1>7, <1>8, <1>9

---------------------------------------------------------------------------
(* The operators of the stream.                                             *)

(* A stream dated no later than now.                                        *)
Dated(s) == s \in Streams /\ s.start <= now /\ s.last <= now

(* What is due is defined, and never exceeds what is pending.               *)
LEMMA DueWithinPending ==
    ASSUME now \in Nat, NEW s, Dated(s)
    PROVE  Due(s) \in Nat /\ Due(s) <= s.pending
<1> USE StreamAssumption
<1>1. s.pending \in Nat /\ s.start \in Nat /\ s.last \in Nat /\ End(s) \in Nat
  BY DEF Dated, Streams, End
<1>2. CASE s.pending = 0 \/ now >= End(s)
  BY <1>1, <1>2 DEF Due
<1>3. CASE s.pending # 0 /\ ~ (now >= End(s))
  <2> DEFINE x == now - s.last
             y == End(s) - s.last
  <2>1. x \in Nat /\ y \in Nat /\ y > 0 /\ x <= y
    BY <1>1, <1>3 DEF Dated
  <2>2. Due(s) = (s.pending * x) \div y
    BY <1>3 DEF Due
  <2> HIDE DEF x, y
  <2>3. s.pending * x \in Nat /\ s.pending * x <= y * s.pending
    BY <2>1, <1>1, Z3
  <2>4. Due(s) \in Nat /\ y * Due(s) <= s.pending * x
    BY <2>1, <2>2, <2>3, DivisionFloors
  <2>5. y * Due(s) <= y * s.pending
    BY <2>1, <2>3, <2>4, <1>1, Z3
  <2> QED BY <2>1, <2>4, <2>5, <1>1, ProductCancels
<1> QED BY <1>2, <1>3

(* A settlement burns no more than is held and pending, takes it off the    *)
(* queue, and leaves the opening where it was.                              *)
LEMMA SettledSound ==
    ASSUME now \in Nat, NEW s, Dated(s), NEW b \in Nat
    PROVE  /\ Burnable(s, b) \in Nat
           /\ Burnable(s, b) <= b /\ Burnable(s, b) <= s.pending
           /\ Dated(Settled(s, b))
           /\ Settled(s, b).pending = s.pending - Burnable(s, b)
           /\ Settled(s, b).start = s.start
<1>1. s.pending \in Nat /\ s.start \in Nat /\ s.last \in Nat
  BY DEF Dated, Streams
<1>2. Due(s) \in Nat /\ Due(s) <= s.pending
  BY DueWithinPending
<1>3. Burnable(s, b) \in Nat /\ Burnable(s, b) <= b /\ Burnable(s, b) <= s.pending
  BY <1>1, <1>2 DEF Burnable
<1>4. CASE s.pending = 0
  BY <1>1, <1>3, <1>4 DEF Settled
<1>5. CASE s.pending # 0
  <2> DEFINE d == s.pending - Burnable(s, b)
             l == IF Burnable(s, b) = Due(s) THEN now ELSE s.last
  <2>1. Settled(s, b) = [pending |-> d, start |-> s.start, last |-> l]
    BY <1>5 DEF Settled, Dated, Streams
  <2>2. d \in Nat /\ l \in Nat /\ l <= now
    BY <1>1, <1>3 DEF Dated
  <2> HIDE DEF d, l
  <2>3. Dated(Settled(s, b)) /\ Settled(s, b).pending = d /\ Settled(s, b).start = s.start
    BY <2>1, <2>2, <1>1 DEF Dated, Streams
  <2> QED BY <2>3, <1>3 DEF d
<1> QED BY <1>4, <1>5

(* A queue adds its amount, is dated no later than now, and moves the       *)
(* opening by its weight.                                                   *)
LEMMA EnqueuedSound ==
    ASSUME now \in Nat, NEW s, Dated(s), NEW a \in Nat
    PROVE  /\ Dated(Enqueued(s, a))
           /\ Enqueued(s, a).pending = s.pending + a
           /\ a # 0 =>
                /\ s.start - 1 <= Enqueued(s, a).start
                /\ s.pending # 0 =>
                      (Enqueued(s, a).start - s.start) * (s.pending + a)
                          <= a * (now - s.start)
<1>1. s.pending \in Nat /\ s.start \in Nat /\ s.last \in Nat /\ s.start <= now
  BY DEF Dated, Streams
<1>2. CASE a = 0
  BY <1>1, <1>2 DEF Enqueued
<1>3. CASE a # 0
  <2> DEFINE q == Opening(s, a)
  <2>1. Enqueued(s, a) = [pending |-> s.pending + a, start |-> q, last |-> now]
    BY <1>3 DEF Enqueued
  <2>2. /\ q \in Nat /\ q <= now /\ s.start - 1 <= q
        /\ s.pending # 0 => (q - s.start) * (s.pending + a) <= a * (now - s.start)
    <3>1. CASE s.pending = 0
      BY <1>1, <3>1 DEF Opening
    <3>2. CASE s.pending # 0
      <4>1. s.pending > 0 /\ a > 0
        BY <1>1, <1>3, <3>2
      <4>2. q = ((s.start * s.pending) \div (s.pending + a))
                    + ((now * a) \div (s.pending + a))
        BY <3>2 DEF Opening
      <4> HIDE DEF q
      <4> QED BY <4>1, <4>2, <1>1, WeightedOpening
    <3> QED BY <3>1, <3>2
  <2> HIDE DEF q
  <2> QED BY <2>1, <2>2, <1>1 DEF Dated, Streams
<1> QED BY <1>2, <1>3

---------------------------------------------------------------------------
(* The inductive invariant: the types, a schedule dated in the past, and a  *)
(* queue that is what was queued less what was burned.                      *)
StreamInv ==
    /\ StreamTypeOK
    /\ Dated(stream)
    /\ PendingIsQueuedMinusBurned

LEMMA StreamInvInit == StreamInit => StreamInv
BY StreamAssumption
   DEF StreamInit, StreamInv, StreamTypeOK, Dated, Streams, PendingIsQueuedMinusBurned

(* A settlement.                                                            *)
LEMMA SettleKeeps ==
    ASSUME StreamInv, Settle
    PROVE  StreamInv'
<1>1. now \in Nat /\ Dated(stream) /\ idle \in Nat
  BY DEF StreamInv, StreamTypeOK
<1> DEFINE b == Burnable(stream, idle)
<1>2. /\ b \in Nat /\ b <= idle /\ Dated(Settled(stream, idle))
      /\ Settled(stream, idle).pending = stream.pending - b
  BY <1>1, SettledSound
<1>3. /\ stream' = Settled(stream, idle) /\ idle' = idle - b /\ burned' = burned + b
      /\ now' = now /\ queued' = queued /\ anchor' = anchor
  BY DEF Settle
<1>4. Dated(stream)'
  BY <1>2, <1>3 DEF Dated
<1> HIDE DEF b
<1>5. StreamTypeOK'
  BY <1>1, <1>2, <1>3, <1>4 DEF StreamInv, StreamTypeOK, Dated
<1>6. PendingIsQueuedMinusBurned'
  <2>1. stream'.pending = stream.pending - b
    BY <1>2, <1>3
  <2> QED BY <2>1, <1>2, <1>3 DEF StreamInv, StreamTypeOK, Streams, PendingIsQueuedMinusBurned
<1> QED BY <1>4, <1>5, <1>6 DEF StreamInv

(* A redemption: two settlements and a queue.                               *)
LEMMA RedeemKeeps ==
    ASSUME StreamInv, NEW freed \in Amounts, NEW amount \in Amounts,
           Redeem(freed, amount)
    PROVE  StreamInv' /\ (queued' # queued =>
               /\ stream.start - 1 <= stream'.start /\ stream'.start <= now
               /\ \/ anchor'.amount = queued' - queued
                  \/ (stream'.start - stream.start) * anchor'.amount
                        <= (queued' - queued) * (now - stream.start))
<1> DEFINE b     == Burnable(stream, idle)
           first == Settled(stream, idle)
           held  == idle - b + freed
           again == IF amount = 0 THEN 0 ELSE Burnable(first, held)
           last  == IF amount = 0 THEN first ELSE Settled(first, held)
<1>1. /\ now \in Nat /\ Dated(stream) /\ idle \in Nat /\ freed \in Nat /\ amount \in Nat
      /\ stream.pending \in Nat /\ stream.start \in Nat
      /\ queued \in Nat /\ burned \in Nat /\ stream.pending = queued - burned
  BY StreamAssumption
     DEF StreamInv, StreamTypeOK, Streams, PendingIsQueuedMinusBurned
<1>2. /\ b \in Nat /\ b <= idle /\ b <= stream.pending /\ Dated(first)
      /\ first.pending = stream.pending - b /\ first.start = stream.start
  BY <1>1, SettledSound
<1>3. held \in Nat
  BY <1>1, <1>2
<1>4. /\ again \in Nat /\ again <= held /\ Dated(last)
      /\ last.pending = first.pending - again /\ last.start = stream.start
  <2>1. /\ Burnable(first, held) \in Nat /\ Burnable(first, held) <= held
        /\ Dated(Settled(first, held))
        /\ Settled(first, held).pending = first.pending - Burnable(first, held)
        /\ Settled(first, held).start = first.start
    <3> HIDE DEF first, held
    <3> QED BY <1>1, <1>2, <1>3, SettledSound
  <2>2. first.pending \in Nat
    BY <1>2 DEF Dated, Streams
  <2> HIDE DEF first, held
  <2> QED BY <2>1, <2>2, <1>2, <1>3
<1>5. /\ stream' = Enqueued(last, amount) /\ idle' = held - again
      /\ burned' = burned + b + again /\ queued' = queued + amount /\ now' = now
      /\ anchor' = IF amount = 0 THEN anchor
                   ELSE [amount |-> last.pending + amount, at |-> now]
  BY DEF Redeem
<1>6. last.pending \in Nat
  BY <1>4 DEF Dated, Streams
<1> HIDE DEF b, first, held, again, last
<1>7. /\ Dated(Enqueued(last, amount))
      /\ Enqueued(last, amount).pending = last.pending + amount
      /\ amount # 0 =>
            /\ last.start - 1 <= Enqueued(last, amount).start
            /\ last.pending # 0 =>
                  (Enqueued(last, amount).start - last.start) * (last.pending + amount)
                      <= amount * (now - last.start)
  BY <1>1, <1>4, EnqueuedSound
<1>8. Dated(stream)'
  BY <1>5, <1>7 DEF Dated
<1>9. StreamTypeOK'
  <2>1. stream' \in Streams /\ anchor' \in [amount : Nat, at : Nat]
    BY <1>1, <1>5, <1>6, <1>8 DEF StreamInv, StreamTypeOK, Dated
  <2> QED BY <2>1, <1>1, <1>2, <1>3, <1>4, <1>5 DEF StreamTypeOK
<1>10. PendingIsQueuedMinusBurned'
  <2>1. stream'.pending = stream.pending - b - again + amount
    BY <1>1, <1>2, <1>4, <1>5, <1>7
  <2> QED BY <2>1, <1>1, <1>2, <1>4, <1>5 DEF PendingIsQueuedMinusBurned
<1>11. ASSUME queued' # queued
       PROVE  /\ stream.start - 1 <= stream'.start /\ stream'.start <= now
              /\ \/ anchor'.amount = queued' - queued
                 \/ (stream'.start - stream.start) * anchor'.amount
                       <= (queued' - queued) * (now - stream.start)
  <2>1. amount # 0 /\ queued' - queued = amount
    BY <1>1, <1>5, <1>11
  <2>2. anchor'.amount = last.pending + amount
    BY <1>5, <2>1
  <2>3. stream.start - 1 <= stream'.start /\ stream'.start <= now
    BY <1>4, <1>5, <1>7, <2>1 DEF Dated
  <2>4. CASE last.pending = 0
    BY <2>1, <2>2, <2>3, <2>4, <1>1
  <2>5. CASE last.pending # 0
    <3>1. (Enqueued(last, amount).start - last.start) * (last.pending + amount)
              <= amount * (now - last.start)
      BY <1>7, <2>1, <2>5
    <3>2. stream'.start = Enqueued(last, amount).start /\ last.start = stream.start
      BY <1>4, <1>5
    <3>3. (stream'.start - stream.start) * anchor'.amount
              <= (queued' - queued) * (now - stream.start)
      BY <3>1, <3>2, <2>1, <2>2, Zenon
    <3> QED BY <3>3, <2>3
  <2> QED BY <2>4, <2>5
<1> QED BY <1>8, <1>9, <1>10, <1>11 DEF StreamInv

(* A placement: two settlements around what it spends.                      *)
LEMMA SpendKeeps ==
    ASSUME StreamInv, NEW amount \in Amounts, Spend(amount)
    PROVE  StreamInv'
<1> DEFINE b     == Burnable(stream, idle)
           first == Settled(stream, idle)
           left  == idle - b - amount
           again == Burnable(first, left)
<1>1. /\ now \in Nat /\ Dated(stream) /\ idle \in Nat /\ amount \in Nat
      /\ queued \in Nat /\ burned \in Nat /\ stream.pending = queued - burned
  BY StreamAssumption DEF StreamInv, StreamTypeOK, PendingIsQueuedMinusBurned
<1>2. /\ b \in Nat /\ b <= idle /\ Dated(first)
      /\ first.pending = stream.pending - b
  BY <1>1, SettledSound
<1>3. left \in Nat
  BY <1>1, <1>2 DEF Spend
<1>4. /\ again \in Nat /\ again <= left /\ Dated(Settled(first, left))
      /\ Settled(first, left).pending = first.pending - again
  <2> HIDE DEF first, left
  <2> QED BY <1>1, <1>2, <1>3, SettledSound
<1>5. /\ stream' = Settled(first, left) /\ idle' = left - again
      /\ burned' = burned + b + again
      /\ now' = now /\ queued' = queued /\ anchor' = anchor
  BY DEF Spend
<1> HIDE DEF b, first, left, again
<1>6. Dated(stream)'
  BY <1>4, <1>5 DEF Dated
<1>7. StreamTypeOK'
  BY <1>1, <1>2, <1>3, <1>4, <1>5, <1>6 DEF StreamInv, StreamTypeOK, Dated
<1>8. PendingIsQueuedMinusBurned'
  <2>1. stream'.pending = stream.pending - b - again
    BY <1>2, <1>4, <1>5
  <2>2. stream'.pending = queued - (burned + b + again)
    BY <2>1, <1>1, <1>2, <1>4
  <2> QED BY <2>2, <1>5, Zenon DEF PendingIsQueuedMinusBurned
<1> QED BY <1>6, <1>7, <1>8 DEF StreamInv

(* A transfer in, and the clock.                                            *)
LEMMA GainAndTickKeep ==
    ASSUME StreamInv, (\E amount \in Amounts : Gain(amount)) \/ StreamTick
    PROVE  StreamInv'
<1> USE StreamAssumption
<1>1. CASE \E amount \in Amounts : Gain(amount)
  BY <1>1 DEF Gain, StreamInv, StreamTypeOK, Dated, PendingIsQueuedMinusBurned
<1>2. CASE StreamTick
  BY <1>2 DEF StreamTick, StreamInv, StreamTypeOK, Dated, Streams, PendingIsQueuedMinusBurned
<1> QED BY <1>1, <1>2

LEMMA StreamInvStep == StreamInv /\ [StreamNext]_streamVars => StreamInv'
<1> SUFFICES ASSUME StreamInv, [StreamNext]_streamVars
             PROVE  StreamInv'
  OBVIOUS
<1>1. CASE Settle
  BY <1>1, SettleKeeps
<1>2. CASE \E freed \in Amounts, amount \in Amounts : Redeem(freed, amount)
  BY <1>2, RedeemKeeps
<1>3. CASE \E amount \in Amounts : Spend(amount)
  BY <1>3, SpendKeeps
<1>4. CASE (\E amount \in Amounts : Gain(amount)) \/ StreamTick
  BY <1>4, GainAndTickKeep
<1>5. CASE UNCHANGED streamVars
  BY <1>5 DEF streamVars, StreamInv, StreamTypeOK, Dated, PendingIsQueuedMinusBurned
<1> QED BY <1>1, <1>2, <1>3, <1>4, <1>5 DEF StreamNext

THEOREM StreamInvariant == StreamSpec => []StreamInv
<1> QED BY StreamInvInit, StreamInvStep, PTL DEF StreamSpec

(* What the vault reports as pending is, in every reachable state, what     *)
(* redemptions queued less what settlements burned: queueInventoryBurn and  *)
(* settleBurnStream lose nothing and burn nothing twice.                    *)
THEOREM QueueIsOwed == StreamSpec => []PendingIsQueuedMinusBurned
<1>1. StreamInv => PendingIsQueuedMinusBurned
  BY DEF StreamInv
<1> QED BY <1>1, StreamInvariant, PTL

(* _burnStreamDue never divides by zero, never subtracts below zero and     *)
(* never asks for more than is pending.                                     *)
THEOREM ScheduleSound == StreamSpec => []ScheduleIsSound
<1>1. StreamInv => ScheduleIsSound
  BY DueWithinPending DEF StreamInv, StreamTypeOK, Dated, ScheduleIsSound
<1> QED BY <1>1, StreamInvariant, PTL

(* A redemption moves the deadline of the queue in proportion to what it    *)
(* adds to it, whatever the sizes, the day's length and the state of the    *)
(* window: queueInventoryBurn's re-opening is weighted.                     *)
THEOREM DeadlineByWeight == StreamSpec => DeadlineMovesByWeight
<1> DEFINE Moved == queued' # queued =>
               /\ stream.start - 1 <= stream'.start /\ stream'.start <= now
               /\ \/ anchor'.amount = queued' - queued
                  \/ (stream'.start - stream.start) * anchor'.amount
                        <= (queued' - queued) * (now - stream.start)
<1>1. StreamInv /\ [StreamNext]_streamVars => [Moved]_streamVars
  <2> SUFFICES ASSUME StreamInv, StreamNext
               PROVE  Moved
    OBVIOUS
  <2>1. CASE \E freed \in Amounts, amount \in Amounts : Redeem(freed, amount)
    BY <2>1, RedeemKeeps
  <2>2. CASE queued' = queued
    BY <2>2
  <2> QED BY <2>1, <2>2 DEF StreamNext, Settle, Spend, Gain, StreamTick
<1> QED BY <1>1, StreamInvariant, PTL DEF StreamSpec, DeadlineMovesByWeight

---------------------------------------------------------------------------
(* The line.                                                                *)

LEMMA IntProductMonotone ==
    ASSUME NEW a \in Nat, NEW b \in Int, NEW c \in Int, b <= c
    PROVE  a * b <= a * c
BY Z3

LEMMA ThreeOff ==
    ASSUME NEW a \in Int, NEW b \in Int, NEW c \in Int, NEW d \in Int, NEW n \in Int
    PROVE  (a - b - c - d) * n = a * n - b * n - c * n - d * n
BY Z3

(* One paid settlement, from an instant l before the deadline e to a later  *)
(* one t: what is left over the line by one unit per instant stays so.      *)
LEMMA LineGoesOn ==
    ASSUME NEW a \in Nat, NEW l \in Nat, NEW t \in Nat, NEW e \in Nat,
           NEW p \in Nat, NEW m \in Nat, NEW d \in Nat,
           a <= l, l < t, t < e, d = (p * (t - l)) \div (e - l),
           (p - (l - a)) * (e - a) <= m * (e - l)
    PROVE  (p - d - (t - a)) * (e - a) <= m * (e - t)
<1> DEFINE x == t - l
           y == e - l
           z == e - t
           k == l - a
           w == e - a
           q == p - d - (t - a)
<1>1. /\ x \in Nat /\ y \in Nat /\ z \in Nat /\ k \in Nat /\ w \in Nat /\ q \in Int
      /\ x >= 1 /\ y > 0 /\ z > 0 /\ y = x + z /\ t - a = k + x /\ p - k \in Int
  OBVIOUS
<1>2. p * x < y * d + y
  <2>1. p * x \in Nat
    BY <1>1, Z3
  <2> QED
    BY <1>1, <2>1, DivisionFloors
<1>3. q = p - d - k - x /\ (p - k) * w <= m * y
  BY <1>1
<1> HIDE DEF x, y, z, k, w, q
<1>4. q * y <= (p - k) * z
  <2>1. q * y = p * y - d * y - k * y - x * y
    <3>1. p \in Int /\ d \in Int /\ k \in Int /\ x \in Int /\ y \in Int
      BY <1>1
    <3>2. q * y = (p - d - k - x) * y
      BY <1>3
    <3>3. (p - d - k - x) * y = p * y - d * y - k * y - x * y
      BY <3>1, ThreeOff
    <3> QED
      BY <3>2, <3>3
  <2>2. p * y = p * x + p * z /\ d * y = y * d
    BY <1>1, Z3
  <2>3. y <= x * y /\ k * z <= k * y
    BY <1>1, Z3
  <2>4. (p - k) * z = p * z - k * z
    BY <1>1, Z3
  <2>5. /\ p * x \in Int /\ p * z \in Int /\ y * d \in Int /\ k * y \in Int /\ k * z \in Int
        /\ x * y \in Int
    BY <1>1, Z3
  <2> QED
    BY <1>1, <1>2, <2>1, <2>2, <2>3, <2>4, <2>5
<1>5. y * (q * w) <= y * (m * z)
  <2>1. w * (q * y) <= w * ((p - k) * z)
    <3>1. q * y \in Int /\ (p - k) * z \in Int
      BY <1>1, Z3
    <3> QED
      BY <1>1, <1>4, <3>1, IntProductMonotone
  <2>2. z * ((p - k) * w) <= z * (m * y)
    <3>1. (p - k) * w \in Int /\ m * y \in Int
      BY <1>1, Z3
    <3> QED
      BY <1>1, <1>3, <3>1, IntProductMonotone
  <2>3. /\ w * (q * y) = y * (q * w) /\ w * ((p - k) * z) = z * ((p - k) * w)
        /\ z * (m * y) = y * (m * z)
    BY <1>1, Z3
  <2>4. y * (q * w) \in Int /\ z * ((p - k) * w) \in Int /\ y * (m * z) \in Int
    BY <1>1, Z3
  <2> QED
    BY <2>1, <2>2, <2>3, <2>4
<1>6. q * w <= m * z
  <2>1. q * w \in Int /\ m * z \in Int
    BY <1>1, Z3
  <2> QED
    BY <1>1, <1>5, <2>1, ProductCancels
<1> QED
  BY <1>6 DEF q, w, z

(* NeverBehindTheLine speaks of a stream just settled.  It is kept between  *)
(* settlements as what was left at the last one, which one the balance cut  *)
(* short only lowers.                                                       *)
OnLine(s, a) ==
    /\ a.at <= s.last
    /\ s.last < End(s) =>
           (s.pending - (s.last - a.at)) * (End(s) - a.at) <= a.amount * (End(s) - s.last)

LEMMA SettledStaysOnLine ==
    ASSUME now \in Nat, NEW s, Dated(s), NEW b \in Nat, NEW a \in [amount : Nat, at : Nat],
           OnLine(s, a)
    PROVE  OnLine(Settled(s, b), a)
<1> USE StreamAssumption
<1> DEFINE r == Settled(s, b)
<1>1. /\ s.pending \in Nat /\ s.start \in Nat /\ s.last \in Nat /\ s.last <= now
      /\ End(s) \in Nat /\ a.at \in Nat /\ a.amount \in Nat /\ a.at <= s.last
  BY DEF Dated, Streams, End, OnLine
<1>2. /\ Burnable(s, b) \in Nat /\ Burnable(s, b) <= s.pending /\ Due(s) \in Nat
      /\ r.pending = s.pending - Burnable(s, b) /\ r.start = s.start
  BY SettledSound, DueWithinPending
<1>3. CASE s.pending = 0
  BY <1>3 DEF Settled
<1>4. CASE s.pending # 0
  <2>1. r.last = IF Burnable(s, b) = Due(s) THEN now ELSE s.last
    BY <1>4 DEF Settled, Dated, Streams
  <2>2. End(r) = End(s)
    BY <1>2 DEF End
  <2>3. CASE r.last = s.last
    <3> SUFFICES ASSUME s.last < End(s)
                 PROVE  (r.pending - (s.last - a.at)) * (End(s) - a.at)
                            <= a.amount * (End(s) - s.last)
      BY <1>1, <2>2, <2>3 DEF OnLine
    <3> DEFINE u == r.pending - (s.last - a.at)
               v == s.pending - (s.last - a.at)
               w == End(s) - a.at
    <3>1. w \in Nat /\ u \in Int /\ v \in Int /\ u <= v
      BY <1>1, <1>2
    <3>2. v * w <= a.amount * (End(s) - s.last)
      BY DEF OnLine
    <3>3. a.amount * (End(s) - s.last) \in Int
      BY <1>1, Z3
    <3> HIDE DEF u, v, w
    <3>4. w * u <= w * v /\ w * u = u * w /\ w * v = v * w /\ u * w \in Int /\ v * w \in Int
      BY <3>1, IntProductMonotone, Z3
    <3>5. u * w <= a.amount * (End(s) - s.last)
      BY <3>2, <3>3, <3>4
    <3> QED
      BY <3>5 DEF u, w
  <2>4. CASE r.last = now /\ now # s.last /\ Burnable(s, b) = Due(s)
    <3> SUFFICES ASSUME now < End(s)
                 PROVE  (r.pending - (now - a.at)) * (End(s) - a.at)
                            <= a.amount * (End(s) - now)
      BY <1>1, <2>2, <2>4 DEF OnLine
    <3>1. Due(s) = (s.pending * (now - s.last)) \div (End(s) - s.last)
      BY <1>1, <1>4 DEF Due
    <3>2. s.last < now /\ s.last < End(s)
      BY <1>1, <2>4
    <3>3. (s.pending - (s.last - a.at)) * (End(s) - a.at) <= a.amount * (End(s) - s.last)
      BY <3>2 DEF OnLine
    <3>4. (s.pending - Due(s) - (now - a.at)) * (End(s) - a.at) <= a.amount * (End(s) - now)
      BY <1>1, <1>2, <3>1, <3>2, <3>3, LineGoesOn
    <3> QED
      BY <1>2, <2>4, <3>4
  <2> QED
    BY <2>1, <2>3, <2>4
<1> QED
  BY <1>3, <1>4

LineInv == OnLine(stream, anchor)

LEMMA LineStep == StreamInv /\ LineInv /\ [StreamNext]_streamVars => LineInv'
<1> SUFFICES ASSUME StreamInv, LineInv, [StreamNext]_streamVars PROVE LineInv'
  OBVIOUS
<1>1. /\ now \in Nat /\ Dated(stream) /\ idle \in Nat /\ anchor \in [amount : Nat, at : Nat]
      /\ OnLine(stream, anchor)
  BY DEF StreamInv, StreamTypeOK, LineInv
<1> DEFINE b     == Burnable(stream, idle)
           first == Settled(stream, idle)
<1>2. b \in Nat /\ b <= idle /\ Dated(first) /\ OnLine(first, anchor)
  BY <1>1, SettledSound, SettledStaysOnLine
<1>3. CASE Settle
  <2>1. stream' = first /\ anchor' = anchor
    BY <1>3 DEF Settle
  <2> HIDE DEF first
  <2> QED
    BY <1>2, <2>1 DEF LineInv
<1>4. ASSUME NEW amount \in Amounts, Spend(amount) PROVE LineInv'
  <2> DEFINE left == idle - b - amount
  <2>1. left \in Nat
    BY <1>1, <1>2, <1>4, StreamAssumption DEF Spend
  <2>2. stream' = Settled(first, left) /\ anchor' = anchor
    BY <1>4 DEF Spend
  <2> HIDE DEF first, left
  <2> QED
    BY <1>1, <1>2, <2>1, <2>2, SettledStaysOnLine DEF LineInv
<1>5. ASSUME NEW freed \in Amounts, NEW amount \in Amounts, Redeem(freed, amount) PROVE LineInv'
  <2> DEFINE held == idle - b + freed
             last == IF amount = 0 THEN first ELSE Settled(first, held)
  <2>1. held \in Nat /\ amount \in Nat
    BY <1>1, <1>2, StreamAssumption
  <2>2. /\ stream' = Enqueued(last, amount)
        /\ anchor' = IF amount = 0 THEN anchor ELSE [amount |-> last.pending + amount, at |-> now]
    BY <1>5 DEF Redeem
  <2>3. CASE amount = 0
    <3>1. stream' = first /\ anchor' = anchor
      BY <2>2, <2>3 DEF Enqueued
    <3> HIDE DEF first
    <3> QED
      BY <1>2, <3>1 DEF LineInv
  <2>4. CASE amount # 0
    <3>1. Dated(last)
      <4> HIDE DEF first, held
      <4> QED
        BY <1>1, <1>2, <2>1, SettledSound
    <3> HIDE DEF last
    <3> DEFINE p == last.pending + amount
               o == Opening(last, amount)
    <3>2. stream' = [pending |-> p, start |-> o, last |-> now] /\ anchor' = [amount |-> p, at |-> now]
      BY <2>2, <2>4 DEF Enqueued
    <3>3. p \in Nat
      BY <2>1, <3>1 DEF Dated, Streams
    <3>4. Dated(Enqueued(last, amount)) /\ Enqueued(last, amount).start = o
      BY <1>1, <2>1, <2>4, <3>1, EnqueuedSound DEF Enqueued
    <3>5. o \in Nat
      BY <3>4 DEF Dated, Streams
    <3> HIDE DEF p, o
    <3>6. (p - (now - now)) * ((o + Day) - now) <= p * ((o + Day) - now)
      BY <1>1, <3>3, <3>5, StreamAssumption
    <3> QED
      BY <1>1, <3>2, <3>6 DEF LineInv, OnLine, End
  <2> QED
    BY <2>3, <2>4
<1>6. CASE (\E amount \in Amounts : Gain(amount)) \/ StreamTick \/ UNCHANGED streamVars
  BY <1>6 DEF Gain, StreamTick, streamVars, LineInv
<1> QED
  BY <1>3, <1>4, <1>5, <1>6 DEF StreamNext

(* NeverBehindTheLine: however often the stream is settled, whenever the    *)
(* vault is empty and whatever is queued, at any day's length, what is left *)
(* after a paid settlement is on the straight line, up to one unit an       *)
(* instant of rounding.                                                     *)
THEOREM NeverBehind == StreamSpec => []NeverBehindTheLine
<1>1. StreamInit => LineInv
  BY StreamAssumption DEF StreamInit, LineInv, OnLine, End
<1>2. LineInv => NeverBehindTheLine
  BY DEF LineInv, OnLine, NeverBehindTheLine
<1> QED
  BY <1>1, <1>2, LineStep, StreamInvariant, PTL DEF StreamSpec

---------------------------------------------------------------------------
(* The floor.                                                               *)

(* The inductive invariant.  Types alone are not inductive: that shares do  *)
(* not exceed the settled supply needs every unit of AMPS accounted for,    *)
(* and that a settlement burns no more than is held and pending needs the   *)
(* schedule dated in the past.                                              *)
RedInv ==
    /\ RedTypeOK
    /\ SupplyIsHeld
    /\ Dated(stream)

---------------------------------------------------------------------------
(* Arithmetic of shares and fees.                                           *)

LEMMA FloorsAdd ==
    ASSUME NEW a \in Nat, NEW b \in Nat, NEW c \in Nat, NEW n \in Nat, n > 0, a + b <= c
    PROVE  (a \div n) + (b \div n) <= c \div n
<1> DEFINE u == a \div n
           v == b \div n
           w == c \div n
<1>1. /\ u \in Nat /\ n * u <= a /\ v \in Nat /\ n * v <= b
      /\ w \in Nat /\ c < n * w + n
  BY DivisionFloors
<1> HIDE DEF u, v, w
<1>2. n * (u + v) = n * u + n * v /\ n * (w + 1) = n * w + n
  BY <1>1, Z3
<1>3. n * (u + v) < n * (w + 1)
  <2>1. n * u \in Int /\ n * v \in Int /\ n * w \in Int
    BY <1>1, Z3
  <2> QED
    BY <1>1, <1>2, <2>1
<1>4. ~(w + 1 <= u + v)
  <2>1. w + 1 <= u + v => n * (w + 1) <= n * (u + v)
    BY <1>1, ProductMonotone
  <2>2. n * (w + 1) \in Int /\ n * (u + v) \in Int
    BY <1>1, Z3
  <2> QED
    BY <1>3, <2>1, <2>2
<1> QED
  BY <1>1, <1>4 DEF u, v, w

LEMMA WholeDivides == ASSUME NEW x \in Nat, NEW n \in Nat, n > 0 PROVE (x * n) \div n = x
  BY Z3

(* A share of x is a part of it, and s of t of it at most.                  *)
LEMMA ShareBounds ==
    ASSUME NEW x \in Nat, NEW s \in Nat, NEW t \in Nat, t > 0, s <= t
    PROVE  ShareOf(x, s, t) \in 0 .. x /\ t * ShareOf(x, s, t) <= x * s
<1>1. x * s \in Nat /\ x * s <= t * x
  BY Z3
<1> DEFINE q == ShareOf(x, s, t)
<1>2. q \in Nat /\ t * q <= x * s
  BY <1>1, DivisionFloors DEF ShareOf
<1> HIDE DEF q
<1>3. t * q <= t * x
  <2>1. t * q \in Int /\ t * x \in Int
    BY <1>2, Z3
  <2> QED
    BY <1>1, <1>2, <2>1
<1>4. q <= x
  BY <1>2, <1>3, ProductCancels
<1> QED
  BY <1>2, <1>4 DEF q

(* All the shares are all there is, and two slices are no more than one.    *)
LEMMA ShareWhole == ASSUME NEW x \in Nat, NEW t \in Nat, t > 0 PROVE ShareOf(x, t, t) = x
  BY WholeDivides DEF ShareOf

LEMMA SharesAdd ==
    ASSUME NEW x \in Nat, NEW a \in Nat, NEW b \in Nat, NEW t \in Nat, t > 0
    PROVE  ShareOf(x, a, t) + ShareOf(x, b, t) <= ShareOf(x, a + b, t)
<1>1. x * a \in Nat /\ x * b \in Nat /\ x * (a + b) \in Nat /\ x * a + x * b <= x * (a + b)
  BY Z3
<1> QED
  BY <1>1, FloorsAdd DEF ShareOf

(* The fee.                                                                 *)
AfterFee(g) == (g * (BPS - FeeBps)) \div BPS

LEMMA FeeTakes == ASSUME NEW g \in Nat PROVE AfterFee(g) \in 0 .. g
<1>1. BPS \in Nat /\ BPS > 0 /\ BPS - FeeBps \in Nat /\ BPS - FeeBps <= BPS
  BY RedemptionAssumption
<1>2. AfterFee(g) = ShareOf(g, BPS - FeeBps, BPS)
  BY DEF AfterFee, ShareOf
<1> QED
  BY <1>1, <1>2, ShareBounds

LEMMA FeesAdd ==
    ASSUME NEW g \in Nat, NEW h \in Nat, NEW k \in Nat, g + h <= k
    PROVE  AfterFee(g) + AfterFee(h) <= AfterFee(k)
<1> DEFINE r == BPS - FeeBps
<1>1. BPS \in Nat /\ BPS > 0 /\ r \in Nat
  BY RedemptionAssumption
<1> HIDE DEF r
<1>2. g * r \in Nat /\ h * r \in Nat /\ k * r \in Nat
  BY <1>1, Z3
<1>3. g * r + h * r <= k * r
  <2>1. r * (g + h) <= r * k
    BY <1>1, ProductMonotone
  <2>2. r * (g + h) = g * r + h * r /\ r * k = k * r
    BY <1>1, Z3
  <2> QED
    BY <2>1, <2>2
<1>4. ((g * r) \div BPS) + ((h * r) \div BPS) <= (k * r) \div BPS
  BY <1>1, <1>2, <1>3, FloorsAdd
<1> QED
  BY <1>4 DEF r, AfterFee

LEMMA NetIsAfterFee ==
    ASSUME NEW x, NEW s, NEW t, NEW r PROVE Net(x, s, t, r) = AfterFee(ShareOf(x, s, t) + r)
  BY DEF Net, AfterFee

---------------------------------------------------------------------------
(* The vault.                                                               *)

Cells == [liquidity : 0 .. MaxLiquidity, side : {"ask", "bid"}, feeAmps : 0 .. 1, feeCounter : 0 .. 1]

(* The cell once s of t shares of it, and its fees, have been taken out.    *)
Left(s, t) ==
    [cell EXCEPT !.liquidity = @ - Removed(s, t), !.feeAmps = @ - Unwound(s, t).feeAmps,
                 !.feeCounter = @ - Unwound(s, t).feeCounter]

LEMMA CellHolds ==
    ASSUME NEW c \in Cells
    PROVE  /\ AmpsIn(c) \in 0 .. MaxLiquidity * UnitAmps /\ CounterIn(c) \in Nat
           /\ AmpsIn(c) = 0 \/ CounterIn(c) = 0
<1>1. /\ c.liquidity \in Nat /\ c.liquidity <= MaxLiquidity /\ c.side \in {"ask", "bid"}
      /\ UnitAmps \in Nat /\ UnitCounter \in Nat /\ MaxLiquidity \in Nat
  BY RedemptionAssumption DEF Cells
<1>2. /\ c.liquidity * UnitAmps \in Nat /\ c.liquidity * UnitCounter \in Nat
      /\ MaxLiquidity * UnitAmps \in Nat /\ c.liquidity * UnitAmps <= MaxLiquidity * UnitAmps
  BY <1>1, Z3
<1> QED
  BY <1>1, <1>2 DEF AmpsIn, CounterIn

(* What an unwind takes out of the cell is gone from it, and no more than   *)
(* the share of it.                                                         *)
LEMMA UnwoundSound ==
    ASSUME cell \in Cells, NEW s \in Nat, NEW t \in Nat, t > 0, s <= t
    PROVE  /\ Left(s, t) \in Cells
           /\ Unwound(s, t).amps \in 0 .. AmpsIn(cell)
           /\ Unwound(s, t).counter \in 0 .. CounterIn(cell)
           /\ Unwound(s, t).feeAmps \in 0 .. cell.feeAmps
           /\ Unwound(s, t).feeCounter \in 0 .. cell.feeCounter
           /\ AmpsIn(Left(s, t)) = AmpsIn(cell) - Unwound(s, t).amps
           /\ CounterIn(Left(s, t)) = CounterIn(cell) - Unwound(s, t).counter
           /\ Left(s, t).feeAmps = cell.feeAmps - Unwound(s, t).feeAmps
           /\ t * Unwound(s, t).counter <= CounterIn(cell) * s
<1> DEFINE l == cell.liquidity
           r == Removed(s, t)
           u == Unwound(s, t)
<1>1. /\ l \in Nat /\ l <= MaxLiquidity /\ cell.side \in {"ask", "bid"}
      /\ cell.feeAmps \in 0 .. 1 /\ cell.feeCounter \in 0 .. 1
      /\ UnitAmps \in Nat /\ UnitCounter \in Nat /\ MaxLiquidity \in Nat
  BY RedemptionAssumption DEF Cells
<1>2. r \in 0 .. l /\ t * r <= l * s
  BY <1>1, ShareBounds DEF Removed
<1>3. /\ u.amps = (IF cell.side = "ask" THEN r * UnitAmps ELSE 0)
      /\ u.counter = (IF cell.side = "bid" THEN r * UnitCounter ELSE 0)
      /\ u.feeAmps = (IF r = 0 THEN 0 ELSE cell.feeAmps)
      /\ u.feeCounter = (IF r = 0 THEN 0 ELSE cell.feeCounter)
  BY DEF Unwound, AmpsIn, CounterIn, Cells
<1>4. /\ AmpsIn(cell) = (IF cell.side = "ask" THEN l * UnitAmps ELSE 0)
      /\ CounterIn(cell) = (IF cell.side = "bid" THEN l * UnitCounter ELSE 0)
  BY DEF AmpsIn, CounterIn
<1>5. Left(s, t) = [liquidity |-> l - r, side |-> cell.side, feeAmps |-> cell.feeAmps - u.feeAmps,
                    feeCounter |-> cell.feeCounter - u.feeCounter]
  <2> DEFINE x == l - r
             y == cell.feeAmps - u.feeAmps
             z == cell.feeCounter - u.feeCounter
  <2>1. Left(s, t) = [cell EXCEPT !.liquidity = x, !.feeAmps = y, !.feeCounter = z]
    BY DEF Left
  <2> HIDE DEF x, y, z
  <2>2. Left(s, t) = [liquidity |-> x, side |-> cell.side, feeAmps |-> y, feeCounter |-> z]
    BY <2>1 DEF Cells
  <2> QED
    BY <2>2 DEF x, y, z
<1>6. /\ AmpsIn(Left(s, t)) = (IF cell.side = "ask" THEN (l - r) * UnitAmps ELSE 0)
      /\ CounterIn(Left(s, t)) = (IF cell.side = "bid" THEN (l - r) * UnitCounter ELSE 0)
  BY <1>5 DEF AmpsIn, CounterIn
<1> HIDE DEF l, r, u
<1>7. /\ r * UnitAmps \in Nat /\ r * UnitAmps <= l * UnitAmps /\ l * UnitAmps \in Nat
      /\ r * UnitCounter \in Nat /\ r * UnitCounter <= l * UnitCounter /\ l * UnitCounter \in Nat
      /\ (l - r) * UnitAmps = l * UnitAmps - r * UnitAmps
      /\ (l - r) * UnitCounter = l * UnitCounter - r * UnitCounter
  BY <1>1, <1>2, Z3
<1>8. t * (r * UnitCounter) <= (l * UnitCounter) * s
  <2>1. UnitCounter * (t * r) <= UnitCounter * (l * s)
    <3>1. t * r \in Nat /\ l * s \in Nat
      BY <1>1, <1>2, Z3
    <3> QED
      BY <1>1, <1>2, <3>1, ProductMonotone
  <2>2. UnitCounter * (t * r) = t * (r * UnitCounter) /\ UnitCounter * (l * s) = (l * UnitCounter) * s
    BY <1>1, <1>2, Z3
  <2> QED
    BY <2>1, <2>2
<1>9. u.feeAmps \in 0 .. cell.feeAmps /\ u.feeCounter \in 0 .. cell.feeCounter
  BY <1>1, <1>3
<1>10. Left(s, t) \in Cells
  BY <1>1, <1>2, <1>5, <1>9 DEF Cells
<1>11. u.amps \in 0 .. AmpsIn(cell) /\ u.counter \in 0 .. CounterIn(cell)
  BY <1>3, <1>4, <1>7
<1>12. /\ AmpsIn(Left(s, t)) = AmpsIn(cell) - u.amps
       /\ CounterIn(Left(s, t)) = CounterIn(cell) - u.counter
  BY <1>1, <1>3, <1>4, <1>6, <1>7
<1>13. t * u.counter <= CounterIn(cell) * s
  BY <1>1, <1>3, <1>4, <1>8
<1>14. Left(s, t).feeAmps = cell.feeAmps - u.feeAmps
  BY <1>5
<1> QED
  BY <1>9, <1>10, <1>11, <1>12, <1>13, <1>14 DEF u

LEMMA FlowTyped == Flow \in Nat
<1>1. MaxLiquidity \in Nat /\ UnitAmps \in Nat /\ Idle \in Nat /\ MaxQueued \in Nat /\ MaxClaim \in Nat
  BY RedemptionAssumption, StreamAssumption
<1>2. MaxLiquidity * UnitAmps \in Nat
  BY <1>1, Z3
<1> QED
  BY <1>1, <1>2 DEF Flow

(* The supply a redemption divides by, the AMPS it frees, and what it queues.*)
T == supply - Burnable(stream, idle)
Freed(s) == claim + (Unwound(s, T).amps + Unwound(s, T).feeAmps)
Queue(s) ==
    Released(idle - Burnable(stream, idle) + Freed(s), Unwound(s, T).amps + Unwound(s, T).feeAmps,
             Opened.pending, s, T, Unwound(s, T).amps) + Unwound(s, T).feeAmps

LEMMA Typed ==
    ASSUME RedInv
    PROVE  /\ now \in Nat /\ stream \in Streams /\ idle \in Nat /\ queued \in Nat /\ burned \in Nat
           /\ anchor \in [amount : Nat, at : Nat] /\ outside \in Nat /\ supply \in Nat
           /\ claim \in 0 .. MaxClaim /\ asset \in [claim : Nat, idle : Nat] /\ cell \in Cells
           /\ Dated(stream)
  BY DEF RedInv, RedTypeOK, StreamTypeOK, Cells

(* After the settlement at its head, whatever it burned, there are at least *)
(* as many shares as anybody outside can redeem.                            *)
LEMMA OpenedSound ==
    ASSUME RedInv
    PROVE  /\ Burnable(stream, idle) \in 0 .. idle /\ Burnable(stream, idle) <= stream.pending
           /\ Dated(Opened) /\ Opened.pending = stream.pending - Burnable(stream, idle)
           /\ T \in Nat /\ outside <= T
           /\ T = outside + (idle - Burnable(stream, idle)) + claim + AmpsIn(cell) + cell.feeAmps
<1>1. Burnable(stream, idle) \in 0 .. idle /\ Burnable(stream, idle) <= stream.pending
      /\ Dated(Opened) /\ Opened.pending = stream.pending - Burnable(stream, idle)
  <2>1. now \in Nat /\ Dated(stream) /\ idle \in Nat
    BY Typed
  <2>2. /\ Burnable(stream, idle) \in Nat /\ Burnable(stream, idle) <= idle
        /\ Burnable(stream, idle) <= stream.pending
        /\ Dated(Settled(stream, idle))
        /\ Settled(stream, idle).pending = stream.pending - Burnable(stream, idle)
    BY <2>1, SettledSound
  <2> QED
    BY <2>1, <2>2 DEF Opened
<1>2. AmpsIn(cell) \in Nat /\ cell.feeAmps \in Nat /\ claim \in Nat
  <2>1. cell \in Cells /\ claim \in 0 .. MaxClaim /\ MaxLiquidity * UnitAmps \in Int /\ MaxClaim \in Nat
    <3>1. MaxLiquidity \in Nat /\ UnitAmps \in Nat
      BY RedemptionAssumption
    <3>2. MaxLiquidity * UnitAmps \in Int
      BY <3>1, Z3
    <3> QED
      BY <3>2, Typed, RedemptionAssumption
  <2>2. AmpsIn(cell) \in 0 .. MaxLiquidity * UnitAmps
    BY <2>1, CellHolds
  <2> QED
    BY <2>1, <2>2 DEF Cells
<1>3. supply = outside + idle + claim + AmpsIn(cell) + cell.feeAmps
  BY DEF RedInv, SupplyIsHeld
<1> QED
  BY <1>1, <1>2, <1>3, Typed DEF T

(* What is freed and queued: no more than can be had, and never more than   *)
(* the vault then holds.                                                    *)
LEMMA Quantities ==
    ASSUME RedInv, NEW s \in Nat, 0 < s, s <= T
    PROVE  /\ T \in Nat /\ T > 0
           /\ Freed(s) \in 0 .. Flow
           /\ Queue(s) \in 0 .. idle - Burnable(stream, idle) + Freed(s)
           /\ Queue(s) = ShareOf(Less(idle + claim, stream.pending), s, T)
                            + Unwound(s, T).amps + Unwound(s, T).feeAmps
<1> DEFINE due == Burnable(stream, idle)
           u == Unwound(s, T)
           a == u.amps
           f == u.feeAmps
           p == Opened.pending
           y == Less(idle + claim, stream.pending)
<1>1. /\ due \in 0 .. idle /\ due <= stream.pending /\ p = stream.pending - due
      /\ T \in Nat /\ T > 0 /\ idle \in Nat /\ claim \in 0 .. MaxClaim /\ MaxClaim \in Nat
      /\ stream.pending \in Nat /\ Idle \in Nat /\ MaxQueued \in Nat
  BY OpenedSound, Typed, RedemptionAssumption, StreamAssumption DEF Streams
<1>2. a \in 0 .. AmpsIn(cell) /\ f \in 0 .. cell.feeAmps /\ cell.feeAmps \in 0 .. 1
  BY <1>1, Typed, UnwoundSound DEF Cells
<1>3. AmpsIn(cell) \in 0 .. MaxLiquidity * UnitAmps /\ MaxLiquidity * UnitAmps \in Nat
  <2>1. MaxLiquidity \in Nat /\ UnitAmps \in Nat
    BY RedemptionAssumption
  <2>2. MaxLiquidity * UnitAmps \in Nat
    BY <2>1, Z3
  <2> QED
    BY <2>2, Typed, CellHolds
<1>4. Freed(s) = claim + (a + f)
  BY DEF Freed
<1>5. Queue(s) = ShareOf(Less(Less(idle - due + (claim + (a + f)), a + f), p), s, T) + a + f
  BY <1>4 DEF Queue, Released
<1> HIDE DEF due, u, a, f, p
<1>6. a \in Nat /\ f \in Nat /\ a + f <= MaxLiquidity * UnitAmps + 1
  BY <1>2, <1>3
<1>7. Less(Less(idle - due + (claim + (a + f)), a + f), p) = y /\ y \in 0 .. (idle - due + claim)
  BY <1>1, <1>6 DEF Less
<1> HIDE DEF y
<1>8. y \in Nat /\ ShareOf(y, s, T) \in 0 .. y
  BY <1>1, <1>7, ShareBounds
<1>9. Freed(s) \in 0 .. Flow
  BY <1>1, <1>3, <1>4, <1>6 DEF Flow
<1>10. Queue(s) = ShareOf(y, s, T) + a + f
  BY <1>5, <1>7
<1>11. Queue(s) \in 0 .. idle - due + Freed(s)
  BY <1>1, <1>4, <1>6, <1>7, <1>8, <1>10
<1> QED
  BY <1>1, <1>9, <1>10, <1>11 DEF due, u, a, f, y

Holdings == [claim : Nat, idle : Nat]

LEMMA PaidOutSound ==
    ASSUME NEW h \in Holdings, NEW out \in 0 .. h.claim + h.idle
    PROVE  /\ PaidOut(h, out) \in Holdings
           /\ PaidOut(h, out).claim + PaidOut(h, out).idle = h.claim + h.idle - out
<1>1. h.claim \in Nat /\ h.idle \in Nat /\ out \in Nat
  BY DEF Holdings
<1> QED
  BY <1>1 DEF PaidOut, Lesser, Less, Holdings

LEMMA SweepKeeps ==
    ASSUME NEW h \in Holdings, SweepClean(h)
    PROVE  asset' \in Holdings /\ asset'.claim + asset'.idle = h.claim + h.idle
  BY DEF SweepClean, Holdings

(* What a redemption pays out of the asset, and what it pays it from.       *)
Out(s) == AfterFee(ShareOf(asset.claim + asset.idle, s, T) + Unwound(s, T).counter)
Paying(s) == [asset EXCEPT !.claim = @ + Unwound(s, T).counter + Unwound(s, T).feeCounter]

LEMMA PayingSound ==
    ASSUME RedInv, NEW s \in Nat, 0 < s, s <= T
    PROVE  /\ Paying(s) \in Holdings
           /\ Paying(s).claim + Paying(s).idle
                = asset.claim + asset.idle + Unwound(s, T).counter + Unwound(s, T).feeCounter
           /\ Unwound(s, T).feeCounter \in Nat /\ Unwound(s, T).counter \in Nat
           /\ Out(s) \in 0 .. asset.claim + asset.idle + Unwound(s, T).counter
           /\ Out(s) <= ShareOf(asset.claim + asset.idle, s, T) + Unwound(s, T).counter
<1> DEFINE u == Unwound(s, T)
           n == asset.claim + asset.idle
<1>1. T \in Nat /\ T > 0 /\ cell \in Cells /\ asset \in [claim : Nat, idle : Nat]
  BY OpenedSound, Typed
<1>2. u.counter \in Nat /\ u.feeCounter \in Nat
  <2>1. CounterIn(cell) \in Nat /\ cell.feeCounter \in 0 .. 1
    BY <1>1, CellHolds DEF Cells
  <2>2. u.counter \in 0 .. CounterIn(cell) /\ u.feeCounter \in 0 .. cell.feeCounter
    BY <1>1, UnwoundSound
  <2> HIDE DEF u
  <2> QED
    BY <2>1, <2>2
<1> HIDE DEF u
<1>3. n \in Nat
  BY <1>1
<1> HIDE DEF n
<1>4. ShareOf(n, s, T) \in 0 .. n
  BY <1>1, <1>3, ShareBounds
<1>5. AfterFee(ShareOf(n, s, T) + u.counter) \in 0 .. (ShareOf(n, s, T) + u.counter)
  BY <1>2, <1>3, <1>4, FeeTakes
<1>6. Out(s) = AfterFee(ShareOf(n, s, T) + u.counter)
  BY DEF Out, n, u
<1>7. Paying(s) = [asset EXCEPT !.claim = asset.claim + u.counter + u.feeCounter]
  BY DEF Paying, u
<1>8. Paying(s) = [claim |-> asset.claim + u.counter + u.feeCounter, idle |-> asset.idle]
  BY <1>1, <1>7
<1> QED
  BY <1>1, <1>2, <1>3, <1>4, <1>5, <1>6, <1>8 DEF Holdings, n, u

(* A redemption, in these terms.                                            *)
LEMMA RedeemMeans ==
    ASSUME RedInv, NEW s \in Slices, RedeemProRata(s),
           NEW held, held = idle - Burnable(stream, idle) + Freed(s),
           NEW again, again = IF Queue(s) = 0 THEN 0 ELSE Burnable(Opened, held),
           NEW last, last = IF Queue(s) = 0 THEN Opened ELSE Settled(Opened, held)
    PROVE  /\ s \in Nat /\ 0 < s /\ s <= outside /\ s <= T
           /\ queued + Queue(s) <= MaxQueued
           /\ stream' = Enqueued(last, Queue(s))
           /\ idle' = held - again /\ claim' = 0
           /\ burned' = burned + Burnable(stream, idle) + again
           /\ queued' = queued + Queue(s)
           /\ anchor' = IF Queue(s) = 0 THEN anchor
                        ELSE [amount |-> last.pending + Queue(s), at |-> now]
           /\ outside' = outside - s /\ supply' = T - s - again
           /\ cell' = Left(s, T)
           /\ SweepClean(PaidOut(Paying(s), Out(s)))
           /\ receipt' = [shares |-> s, out |-> Out(s), queued |-> Queue(s)]
           /\ now' = now
<1>1. s \in Nat /\ 0 < s /\ s <= outside
  BY RedemptionAssumption DEF RedeemProRata
<1>2. s <= T
  BY <1>1, OpenedSound, Typed
<1> DEFINE u == Unwound(s, T)
           h == idle - Burnable(stream, idle) + claim + (u.amps + u.feeAmps)
           q == Released(h, u.amps + u.feeAmps, Opened.pending, s, T, u.amps) + u.feeAmps
           o == Net(Base(asset, u.counter + u.feeCounter), s, T, u.counter)
<1>3. h = held
  <2>1. u.amps \in Nat /\ u.feeAmps \in Nat
    <3>1. T \in Nat /\ T > 0 /\ cell \in Cells
      BY <1>1, <1>2, OpenedSound, Typed
    <3>2. u.amps \in 0 .. AmpsIn(cell) /\ u.feeAmps \in 0 .. cell.feeAmps
      BY <1>1, <1>2, <3>1, UnwoundSound
    <3> HIDE DEF u
    <3> QED
      BY <3>2
  <2>2. idle \in Nat /\ claim \in 0 .. MaxClaim /\ MaxClaim \in Nat /\ Burnable(stream, idle) \in Int
    BY Typed, OpenedSound, RedemptionAssumption
  <2>3. held = idle - Burnable(stream, idle) + (claim + (u.amps + u.feeAmps))
    BY DEF Freed
  <2> HIDE DEF u
  <2> QED
    BY <2>1, <2>2, <2>3
<1>4. q = Queue(s)
  <2>1. Queue(s) = Released(held, u.amps + u.feeAmps, Opened.pending, s, T, u.amps) + u.feeAmps
    BY DEF Queue
  <2> HIDE DEF u, h
  <2> QED
    BY <1>3, <2>1
<1>5. o = Out(s)
  BY NetIsAfterFee DEF Out, Base
<1>6. /\ queued + q <= MaxQueued
      /\ stream' = Enqueued(IF q = 0 THEN Opened ELSE Settled(Opened, h), q)
      /\ idle' = h - (IF q = 0 THEN 0 ELSE Burnable(Opened, h)) /\ claim' = 0
      /\ burned' = burned + Burnable(stream, idle) + (IF q = 0 THEN 0 ELSE Burnable(Opened, h))
      /\ queued' = queued + q
      /\ anchor' = IF q = 0 THEN anchor
                   ELSE [amount |-> (IF q = 0 THEN Opened ELSE Settled(Opened, h)).pending + q,
                         at |-> now]
      /\ outside' = outside - s
      /\ supply' = T - s - (IF q = 0 THEN 0 ELSE Burnable(Opened, h))
      /\ cell' = Left(s, T)
      /\ SweepClean(PaidOut(Paying(s), o))
      /\ receipt' = [shares |-> s, out |-> o, queued |-> q]
      /\ now' = now
  BY DEF RedeemProRata, T, Left, Paying
<1> HIDE DEF u, h, q, o
<1> QED
  BY <1>1, <1>2, <1>3, <1>4, <1>5, <1>6

---------------------------------------------------------------------------
(* Every step keeps the invariant, and is a step of BurnStream.             *)

(* The stream as the instance sees it: the same operators.                  *)
LEMMA SameSettled ==
    ASSUME NEW s, NEW b
    PROVE  Stream!Settled(s, b) = Settled(s, b) /\ Stream!Burnable(s, b) = Burnable(s, b)
  BY DEF Stream!Settled, Settled, Stream!Burnable, Burnable, Stream!Due, Due, Stream!End, End

LEMMA SameEnqueued == ASSUME NEW s, NEW a PROVE Stream!Enqueued(s, a) = Enqueued(s, a)
  BY DEF Stream!Enqueued, Enqueued, Stream!Opening, Opening

(* What a redemption burns, frees and queues, added up.                     *)
LEMMA BooksAdd ==
    ASSUME NEW o \in Int, NEW i \in Int, NEW d \in Int, NEW c \in Int, NEW a \in Int,
           NEW f \in Int, NEW x \in Int, NEW y \in Int, NEW s \in Int, NEW g \in Int
    PROVE  (o + (i - d) + c + a + f) - s - g
             = (o - s) + ((i - d + (c + (x + y))) - g) + 0 + (a - x) + (f - y)
  OBVIOUS

LEMMA RedeemFollows ==
    ASSUME RedInv, NEW s \in Slices, RedeemProRata(s)
    PROVE  RedInv' /\ Stream!StreamNext
<1> DEFINE due   == Burnable(stream, idle)
           held  == idle - due + Freed(s)
           q     == Queue(s)
           again == IF q = 0 THEN 0 ELSE Burnable(Opened, held)
           last  == IF q = 0 THEN Opened ELSE Settled(Opened, held)
           u     == Unwound(s, T)
<1>1. /\ s \in Nat /\ 0 < s /\ s <= outside /\ s <= T
      /\ queued + q <= MaxQueued
      /\ stream' = Enqueued(last, q)
      /\ idle' = held - again /\ claim' = 0
      /\ burned' = burned + due + again
      /\ queued' = queued + q
      /\ anchor' = IF q = 0 THEN anchor ELSE [amount |-> last.pending + q, at |-> now]
      /\ outside' = outside - s /\ supply' = T - s - again
      /\ cell' = Left(s, T)
      /\ SweepClean(PaidOut(Paying(s), Out(s)))
      /\ now' = now
  BY RedeemMeans
<1>2. /\ now \in Nat /\ idle \in Nat /\ queued \in Nat /\ burned \in Nat /\ outside \in Nat
      /\ claim \in Nat /\ MaxClaim \in Nat /\ cell \in Cells
      /\ anchor \in [amount : Nat, at : Nat] /\ asset \in Holdings
  BY Typed, RedemptionAssumption DEF Holdings
<1>3. /\ due \in 0 .. idle /\ Dated(Opened) /\ T \in Nat
      /\ T = outside + (idle - due) + claim + AmpsIn(cell) + cell.feeAmps
  BY OpenedSound
<1>4. T > 0 /\ Freed(s) \in 0 .. Flow /\ q \in 0 .. held
  BY <1>1, Quantities
<1>5. Flow \in Nat
  BY FlowTyped
<1>6. /\ u.amps \in 0 .. AmpsIn(cell) /\ u.feeAmps \in 0 .. cell.feeAmps
      /\ Left(s, T) \in Cells /\ AmpsIn(Left(s, T)) = AmpsIn(cell) - u.amps
      /\ Left(s, T).feeAmps = cell.feeAmps - u.feeAmps
      /\ Freed(s) = claim + (u.amps + u.feeAmps)
  BY <1>1, <1>2, <1>3, <1>4, UnwoundSound DEF Freed
<1>7. cell.feeAmps \in 0 .. 1 /\ AmpsIn(cell) \in Nat
  <2>1. AmpsIn(cell) \in 0 .. MaxLiquidity * UnitAmps
    BY <1>2, CellHolds
  <2>2. MaxLiquidity \in Nat /\ UnitAmps \in Nat
    BY RedemptionAssumption
  <2>3. MaxLiquidity * UnitAmps \in Nat
    BY <2>2, Z3
  <2> QED
    BY <1>2, <2>1, <2>3 DEF Cells
<1> HIDE DEF due, q, u
<1>8. held \in Nat
  BY <1>2, <1>3, <1>4, <1>5
<1> HIDE DEF held
<1>9. /\ again \in 0 .. held /\ Dated(last) /\ last.pending \in Nat
  <2>1. CASE q = 0
    BY <1>3, <1>8, <2>1 DEF Dated, Streams
  <2>2. CASE q # 0
    <3>1. /\ Burnable(Opened, held) \in Nat /\ Burnable(Opened, held) <= held
          /\ Dated(Settled(Opened, held))
      BY <1>2, <1>3, <1>8, SettledSound
    <3> QED
      BY <1>8, <2>2, <3>1 DEF Dated, Streams
  <2> QED
    BY <2>1, <2>2
<1>10. Dated(Enqueued(last, q)) /\ q \in Nat
  <2>1. q \in Nat
    BY <1>4, <1>8
  <2> HIDE DEF last
  <2> QED
    BY <1>2, <1>9, <2>1, EnqueuedSound
<1>11. Stream!StreamNext
  <2>1. q \in 0 .. Flow /\ MaxQueued \in Nat
    <3>1. MaxQueued <= Flow
      <4>1. MaxLiquidity \in Nat /\ UnitAmps \in Nat /\ Idle \in Nat /\ MaxQueued \in Nat /\ MaxClaim \in Nat
        BY RedemptionAssumption, StreamAssumption
      <4>2. MaxLiquidity * UnitAmps \in Nat
        BY <4>1, Z3
      <4> QED
        BY <4>1, <4>2 DEF Flow
    <3> QED
      BY <1>1, <1>2, <1>5, <1>10, <3>1, StreamAssumption
  <2>2. idle + Freed(s) \in Nat /\ q <= held
    BY <1>2, <1>4, <1>5, <1>8
  <2>3. Stream!Redeem(Freed(s), q)
    <3>1. held = idle - due + Freed(s)
      BY DEF held
    <3>2. /\ Stream!Burnable(stream, idle) = due /\ Stream!Settled(stream, idle) = Opened
          /\ Stream!Burnable(Opened, held) = Burnable(Opened, held)
          /\ Stream!Settled(Opened, held) = Settled(Opened, held)
          /\ Stream!Enqueued(last, q) = Enqueued(last, q)
      BY SameSettled, SameEnqueued DEF Opened, due
    <3> QED
      BY <1>1, <2>2, <3>1, <3>2 DEF Stream!Redeem
  <2> QED
    BY <1>4, <2>1, <2>3 DEF Stream!StreamNext
<1>12. Dated(stream)'
  BY <1>1, <1>10 DEF Dated
<1>13. asset' \in Holdings
  <2>1. Paying(s) \in Holdings /\ Out(s) \in 0 .. Paying(s).claim + Paying(s).idle
    <3>1. /\ Paying(s) \in Holdings /\ Unwound(s, T).feeCounter \in Nat /\ Unwound(s, T).counter \in Nat
          /\ Paying(s).claim + Paying(s).idle
               = asset.claim + asset.idle + Unwound(s, T).counter + Unwound(s, T).feeCounter
          /\ Out(s) \in 0 .. asset.claim + asset.idle + Unwound(s, T).counter
      BY <1>1, PayingSound
    <3>2. asset.claim + asset.idle \in Nat
      BY <1>2 DEF Holdings
    <3> QED
      BY <3>1, <3>2
  <2>2. PaidOut(Paying(s), Out(s)) \in Holdings
    BY <2>1, PaidOutSound
  <2> QED
    BY <1>1, <2>2, SweepKeeps
<1> HIDE DEF again, last
<1>14. /\ idle' \in Nat /\ burned' \in Nat /\ queued' \in Nat /\ outside' \in Nat
       /\ anchor' \in [amount : Nat, at : Nat]
  BY <1>1, <1>2, <1>3, <1>8, <1>9, <1>10
<1>15. SupplyIsHeld'
  <2>1. /\ supply' = T - s - again /\ outside' = outside - s /\ idle' = held - again /\ claim' = 0
        /\ AmpsIn(cell') = AmpsIn(cell) - u.amps /\ cell'.feeAmps = cell.feeAmps - u.feeAmps
    BY <1>1, <1>6
  <2>2. held = idle - due + (claim + (u.amps + u.feeAmps))
    BY <1>6 DEF held
  <2>3. /\ u.amps \in Int /\ u.feeAmps \in Int /\ cell.feeAmps \in Int /\ AmpsIn(cell) \in Int
        /\ outside \in Int /\ idle \in Int /\ due \in Int /\ claim \in Int /\ s \in Int
        /\ again \in Int
    BY <1>1, <1>2, <1>3, <1>6, <1>7, <1>8, <1>9
  <2>4. (outside + (idle - due) + claim + AmpsIn(cell) + cell.feeAmps) - s - again
          = (outside - s) + ((idle - due + (claim + (u.amps + u.feeAmps))) - again) + 0
              + (AmpsIn(cell) - u.amps) + (cell.feeAmps - u.feeAmps)
    BY <2>3, BooksAdd
  <2>5. supply' = outside' + idle' + claim' + AmpsIn(cell') + cell'.feeAmps
    BY <1>3, <2>1, <2>2, <2>4, Zenon
  <2> QED
    BY <2>5 DEF SupplyIsHeld, AmpsIn
<1>16. supply' \in Nat
  <2>1. supply' = outside' + idle' + claim' + (AmpsIn(cell) - u.amps) + (cell.feeAmps - u.feeAmps)
    BY <1>1, <1>6, <1>15 DEF SupplyIsHeld, AmpsIn
  <2> QED
    BY <1>1, <1>6, <1>7, <1>14, <2>1
<1>17. RedTypeOK'
  BY <1>1, <1>2, <1>6, <1>12, <1>13, <1>14, <1>16
     DEF RedTypeOK, StreamTypeOK, Dated, Holdings, Cells
<1> QED
  BY <1>11, <1>12, <1>15, <1>17 DEF RedInv

(* A settlement alone.                                                      *)
LEMMA SettleFollows ==
    ASSUME RedInv, Settle
    PROVE  /\ Stream!StreamNext
           /\ StreamTypeOK' /\ Dated(stream)'
           /\ idle' = idle - Burnable(stream, idle) /\ Burnable(stream, idle) \in 0 .. idle
           /\ supply - Burnable(stream, idle) \in Nat
<1>1. /\ now \in Nat /\ idle \in Nat /\ queued \in Nat /\ burned \in Nat
      /\ anchor \in [amount : Nat, at : Nat]
  BY Typed
<1>2. /\ Burnable(stream, idle) \in 0 .. idle /\ Dated(Opened) /\ T \in Nat
  BY OpenedSound
<1>3. /\ stream' = Opened /\ idle' = idle - Burnable(stream, idle)
      /\ burned' = burned + Burnable(stream, idle)
      /\ now' = now /\ queued' = queued /\ anchor' = anchor
  BY DEF Settle, Opened
<1>4. Stream!StreamNext
  BY SameSettled DEF Settle, Stream!Settle, Stream!StreamNext
<1>5. Dated(stream)'
  BY <1>2, <1>3 DEF Dated
<1>6. StreamTypeOK'
  BY <1>1, <1>2, <1>3, <1>5 DEF StreamTypeOK, Dated
<1> QED
  BY <1>2, <1>3, <1>4, <1>5, <1>6 DEF T

(* A placement.                                                             *)
LEMMA PlaceFollows ==
    ASSUME RedInv, NEW units \in 1 .. MaxLiquidity, Place(units)
    PROVE  RedInv' /\ Stream!StreamNext
<1> DEFINE due   == Burnable(stream, idle)
           x     == units * UnitAmps
           left  == idle - due - x
           again == Burnable(Opened, left)
<1>1. /\ cell.side = "ask" /\ cell.liquidity + units <= MaxLiquidity /\ left >= 0
      /\ stream' = Settled(Opened, left) /\ idle' = left - again
      /\ burned' = burned + due + again /\ supply' = supply - due - again
      /\ cell' = [cell EXCEPT !.liquidity = @ + units]
      /\ SweepClean(asset)
      /\ now' = now /\ queued' = queued /\ anchor' = anchor /\ outside' = outside /\ claim' = claim
  BY DEF Place, Opened
<1>2. /\ now \in Nat /\ idle \in Nat /\ queued \in Nat /\ burned \in Nat /\ outside \in Nat
      /\ claim \in 0 .. MaxClaim /\ MaxClaim \in Nat /\ cell \in Cells
      /\ anchor \in [amount : Nat, at : Nat] /\ asset \in Holdings
      /\ supply = outside + idle + claim + AmpsIn(cell) + cell.feeAmps
  BY Typed, RedemptionAssumption DEF Holdings, RedInv, SupplyIsHeld
<1>3. due \in 0 .. idle /\ Dated(Opened)
  BY OpenedSound
<1>4. /\ cell.liquidity \in Nat /\ units \in Nat /\ UnitAmps \in Nat /\ MaxLiquidity \in Nat
      /\ cell.feeAmps \in 0 .. 1
  BY <1>2, RedemptionAssumption DEF Cells
<1>5. /\ x \in Nat /\ x <= MaxLiquidity * UnitAmps /\ MaxLiquidity * UnitAmps \in Nat
      /\ cell.liquidity * UnitAmps \in Nat
      /\ (cell.liquidity + units) * UnitAmps = cell.liquidity * UnitAmps + x
  <2>1. units <= MaxLiquidity
    BY <1>4
  <2> QED
    BY <1>4, <2>1, Z3
<1>6. /\ cell' \in Cells /\ cell'.feeAmps = cell.feeAmps
      /\ AmpsIn(cell') = cell.liquidity * UnitAmps + x /\ AmpsIn(cell) = cell.liquidity * UnitAmps
  <2>1. /\ cell' \in Cells /\ cell'.feeAmps = cell.feeAmps /\ cell'.side = "ask"
        /\ cell'.liquidity = cell.liquidity + units
    BY <1>1, <1>2, <1>4 DEF Cells
  <2> QED
    BY <1>1, <1>5, <2>1 DEF AmpsIn
<1> HIDE DEF x, due
<1>7. left \in Nat
  BY <1>1, <1>2, <1>3, <1>5
<1> HIDE DEF left
<1>8. again \in 0 .. left /\ Dated(Settled(Opened, left))
  <2>1. /\ again \in Nat /\ again <= left /\ Dated(Settled(Opened, left))
    BY <1>2, <1>3, <1>7, SettledSound
  <2> QED
    BY <1>7, <2>1
<1> HIDE DEF again
<1>9. SupplyIsHeld'
  <2>1. left = idle - due - x
    BY DEF left
  <2>2. AmpsIn(cell)' = AmpsIn(cell')
    BY DEF AmpsIn
  <2>3. supply' = outside' + idle' + claim' + AmpsIn(cell') + cell'.feeAmps
    BY <1>1, <1>2, <1>3, <1>4, <1>5, <1>6, <1>7, <1>8, <2>1
  <2> QED
    BY <2>3 DEF SupplyIsHeld, AmpsIn
<1>10. Dated(stream)'
  BY <1>1, <1>8 DEF Dated
<1>11. /\ idle' \in Nat /\ burned' \in Nat
  BY <1>1, <1>2, <1>3, <1>7, <1>8
<1>12. supply' \in Nat
  <2>1. supply' = outside + idle' + claim + (cell.liquidity * UnitAmps + x) + cell.feeAmps
    BY <1>1, <1>6, <1>9 DEF SupplyIsHeld, AmpsIn
  <2> QED
    BY <1>2, <1>4, <1>5, <1>11, <2>1
<1>13. asset' \in Holdings
  BY <1>1, <1>2, SweepKeeps
<1>14. RedTypeOK'
  BY <1>1, <1>2, <1>6, <1>10, <1>11, <1>12, <1>13
     DEF RedTypeOK, StreamTypeOK, Dated, Holdings, Cells
<1>15. Stream!StreamNext
  <2>1. x \in 0 .. Flow
    <3>1. Idle \in Nat /\ MaxQueued \in Nat /\ MaxClaim \in Nat
      BY RedemptionAssumption, StreamAssumption
    <3> QED
      BY <1>5, <3>1 DEF Flow
  <2>2. Stream!Spend(x)
    <3>1. left = idle - due - x /\ again = Burnable(Opened, left)
      BY DEF left, again
    <3>2. /\ Stream!Burnable(stream, idle) = due /\ Stream!Settled(stream, idle) = Opened
          /\ Stream!Burnable(Opened, left) = Burnable(Opened, left)
          /\ Stream!Settled(Opened, left) = Settled(Opened, left)
      BY SameSettled DEF Opened, due
    <3> QED
      BY <1>1, <3>1, <3>2 DEF Stream!Spend
  <2> QED
    BY <2>1, <2>2 DEF Stream!StreamNext
<1> QED
  BY <1>9, <1>10, <1>14, <1>15 DEF RedInv

(* What touches only what the stream does not read.                         *)
LEMMA ApartKeeps ==
    ASSUME RedInv, UNCHANGED streamVars,
           outside' \in Nat, supply' \in Nat, claim' \in 0 .. MaxClaim, asset' \in Holdings,
           cell' \in Cells, SupplyIsHeld'
    PROVE  RedInv'
<1>1. now' = now /\ stream' = stream /\ idle' = idle /\ queued' = queued /\ burned' = burned
      /\ anchor' = anchor
  BY DEF streamVars
<1>2. /\ now \in Nat /\ stream \in Streams /\ idle \in Nat /\ queued \in Nat /\ burned \in Nat
      /\ anchor \in [amount : Nat, at : Nat] /\ Dated(stream)
  BY Typed
<1>3. StreamTypeOK' /\ Dated(stream)'
  BY <1>1, <1>2 DEF StreamTypeOK, Dated
<1> QED
  BY <1>3 DEF RedInv, RedTypeOK, Holdings, Cells

LEMMA DonationsFollow ==
    ASSUME RedInv, NEW a \in Deposits, Donate(a) \/ DonateClaim(a)
    PROVE  RedInv' /\ UNCHANGED streamVars
<1>1. /\ idle \in Nat /\ outside \in Nat /\ supply \in Nat /\ claim \in 0 .. MaxClaim
      /\ MaxClaim \in Nat /\ MaxAssets \in Nat /\ a \in Nat
      /\ cell \in Cells /\ asset \in Holdings
      /\ supply = outside + idle + claim + AmpsIn(cell) + cell.feeAmps
  BY Typed, RedemptionAssumption DEF Holdings, RedInv, SupplyIsHeld
<1>2. AmpsIn(cell) \in Nat /\ cell.feeAmps \in Nat
  <2>1. AmpsIn(cell) \in 0 .. MaxLiquidity * UnitAmps
    BY <1>1, CellHolds
  <2>2. MaxLiquidity \in Nat /\ UnitAmps \in Nat
    BY RedemptionAssumption
  <2>3. MaxLiquidity * UnitAmps \in Nat
    BY <2>2, Z3
  <2> QED
    BY <1>1, <2>1, <2>3 DEF Cells
<1>3. CASE Donate(a)
  <2>1. /\ asset' = [asset EXCEPT !.idle = @ + a] /\ UNCHANGED streamVars
        /\ outside' = outside /\ supply' = supply /\ claim' = claim /\ cell' = cell /\ idle' = idle
    BY <1>3 DEF Donate, streamVars
  <2>2. asset' \in Holdings
    BY <1>1, <2>1 DEF Holdings
  <2>3. SupplyIsHeld'
    BY <1>1, <2>1 DEF SupplyIsHeld, AmpsIn
  <2> QED
    BY <1>1, <2>1, <2>2, <2>3, ApartKeeps
<1>4. CASE DonateClaim(a)
  <2>1. /\ a <= outside /\ claim + a <= MaxClaim
        /\ outside' = outside - a /\ claim' = claim + a /\ UNCHANGED streamVars
        /\ supply' = supply /\ asset' = asset /\ cell' = cell /\ idle' = idle
    BY <1>4 DEF DonateClaim, streamVars
  <2>2. outside' \in Nat /\ claim' \in 0 .. MaxClaim
    BY <1>1, <2>1
  <2>3. supply' = outside' + idle' + claim' + AmpsIn(cell) + cell.feeAmps
    BY <1>1, <1>2, <2>1
  <2>4. SupplyIsHeld'
    BY <2>1, <2>3 DEF SupplyIsHeld, AmpsIn
  <2> QED
    BY <1>1, <2>1, <2>2, <2>4, ApartKeeps
<1> QED
  BY <1>3, <1>4

(* A trade across the cell.                                                 *)
LEMMA TradesFollow ==
    ASSUME RedInv, BuyAcross \/ SellAcross
    PROVE  RedInv' /\ UNCHANGED streamVars
<1> DEFINE x == cell.liquidity * UnitAmps
<1>1. /\ idle \in Nat /\ outside \in Nat /\ supply \in Nat /\ claim \in 0 .. MaxClaim
      /\ MaxClaim \in Nat /\ cell \in Cells /\ asset \in Holdings
      /\ supply = outside + idle + claim + AmpsIn(cell) + cell.feeAmps
  BY Typed, RedemptionAssumption DEF Holdings, RedInv, SupplyIsHeld
<1>2. /\ cell.liquidity \in Nat /\ UnitAmps \in Nat /\ cell.feeAmps \in 0 .. 1
  BY <1>1, RedemptionAssumption DEF Cells
<1>3. x \in Nat
  BY <1>2, Z3
<1>4. AmpsIn(cell) = IF cell.side = "ask" THEN x ELSE 0
  BY DEF AmpsIn
<1>5. CASE BuyAcross
  <2>1. /\ cell.side = "ask" /\ outside' = outside + AmpsIn(cell)
        /\ cell' = [cell EXCEPT !.side = "bid", !.feeCounter = 1]
        /\ UNCHANGED streamVars /\ supply' = supply /\ claim' = claim /\ asset' = asset
        /\ idle' = idle
    BY <1>5 DEF BuyAcross, streamVars
  <2>2. cell' \in Cells /\ cell'.side = "bid" /\ cell'.feeAmps = cell.feeAmps
    <3>1. cell' = [liquidity |-> cell.liquidity, side |-> "bid", feeAmps |-> cell.feeAmps,
                   feeCounter |-> 1]
      BY <1>1, <2>1 DEF Cells
    <3>2. cell.liquidity \in 0 .. MaxLiquidity /\ cell.feeAmps \in 0 .. 1 /\ 1 \in 0 .. 1
      BY <1>1 DEF Cells
    <3> QED
      BY <3>1, <3>2 DEF Cells
  <2> HIDE DEF x
  <2>3. /\ outside' \in Nat
        /\ supply' = outside' + idle' + claim' + 0 + cell'.feeAmps
    BY <1>1, <1>2, <1>3, <1>4, <2>1, <2>2
  <2>4. SupplyIsHeld'
    BY <2>2, <2>3 DEF SupplyIsHeld, AmpsIn
  <2> QED
    BY <1>1, <2>1, <2>2, <2>3, <2>4, ApartKeeps
<1>6. CASE SellAcross
  <2>1. /\ cell.side = "bid" /\ cell.feeAmps = 0 /\ x < outside /\ outside' = outside - x - 1
        /\ cell' = [cell EXCEPT !.side = "ask", !.feeAmps = 1]
        /\ UNCHANGED streamVars /\ supply' = supply /\ claim' = claim /\ asset' = asset
        /\ idle' = idle
    BY <1>6 DEF SellAcross, streamVars
  <2>2. cell' \in Cells /\ cell'.side = "ask" /\ cell'.feeAmps = 1 /\ cell'.liquidity = cell.liquidity
    <3>1. cell' = [liquidity |-> cell.liquidity, side |-> "ask", feeAmps |-> 1,
                   feeCounter |-> cell.feeCounter]
      BY <1>1, <2>1 DEF Cells
    <3>2. cell.liquidity \in 0 .. MaxLiquidity /\ cell.feeCounter \in 0 .. 1 /\ 1 \in 0 .. 1
      BY <1>1 DEF Cells
    <3> QED
      BY <3>1, <3>2 DEF Cells
  <2>3. AmpsIn(cell') = x
    BY <2>2 DEF AmpsIn
  <2> HIDE DEF x
  <2>4. /\ outside' \in Nat
        /\ supply' = outside' + idle' + claim' + AmpsIn(cell') + cell'.feeAmps
    BY <1>1, <1>2, <1>3, <1>4, <2>1, <2>2, <2>3
  <2>5. SupplyIsHeld'
    BY <2>2, <2>4 DEF SupplyIsHeld, AmpsIn
  <2> QED
    BY <1>1, <2>1, <2>2, <2>4, <2>5, ApartKeeps
<1> QED
  BY <1>5, <1>6

(* Whatever happens around redemptions.                                     *)
LEMMA AroundFollows ==
    ASSUME RedInv, Around
    PROVE  RedInv' /\ (Stream!StreamNext \/ UNCHANGED streamVars)
<1>1. /\ idle \in Nat /\ outside \in Nat /\ claim \in 0 .. MaxClaim /\ MaxClaim \in Nat
      /\ cell \in Cells /\ asset \in Holdings /\ now \in Nat
      /\ supply = outside + idle + claim + AmpsIn(cell) + cell.feeAmps
  BY Typed, RedemptionAssumption DEF Holdings, RedInv, SupplyIsHeld
<1>2. AmpsIn(cell) \in Nat /\ cell.feeAmps \in Nat
  <2>1. AmpsIn(cell) \in 0 .. MaxLiquidity * UnitAmps
    BY <1>1, CellHolds
  <2>2. MaxLiquidity \in Nat /\ UnitAmps \in Nat
    BY RedemptionAssumption
  <2>3. MaxLiquidity * UnitAmps \in Nat
    BY <2>2, Z3
  <2> QED
    BY <1>1, <2>1, <2>3 DEF Cells
<1>3. CASE Checkpoint
  <2>1. /\ Settle /\ supply' = supply - Burnable(stream, idle) /\ SweepClean(asset)
        /\ outside' = outside /\ claim' = claim /\ cell' = cell
    BY <1>3 DEF Checkpoint
  <2>2. /\ Stream!StreamNext /\ StreamTypeOK' /\ Dated(stream)'
        /\ idle' = idle - Burnable(stream, idle) /\ Burnable(stream, idle) \in 0 .. idle
        /\ supply - Burnable(stream, idle) \in Nat
    BY <2>1, SettleFollows
  <2>3. asset' \in Holdings
    BY <1>1, <2>1, SweepKeeps
  <2>4. SupplyIsHeld'
    <3>1. supply' = outside' + idle' + claim' + AmpsIn(cell) + cell.feeAmps
      BY <1>1, <1>2, <2>1, <2>2
    <3> QED
      BY <2>1, <3>1 DEF SupplyIsHeld, AmpsIn
  <2> QED
    BY <1>1, <2>1, <2>2, <2>3, <2>4 DEF RedInv, RedTypeOK, Holdings, Cells
<1>4. CASE \E units \in 1 .. MaxLiquidity : Place(units)
  BY <1>4, PlaceFollows
<1>5. ASSUME NEW a \in Deposits, Bond(a)
      PROVE  RedInv' /\ Stream!StreamNext
  <2>1. /\ Settle /\ supply' = supply - Burnable(stream, idle) + a
        /\ SweepClean([asset EXCEPT !.claim = @ + a])
        /\ outside' = outside + a /\ claim' = claim /\ cell' = cell /\ a \in Nat
    BY <1>5, RedemptionAssumption DEF Bond
  <2>2. /\ Stream!StreamNext /\ StreamTypeOK' /\ Dated(stream)'
        /\ idle' = idle - Burnable(stream, idle) /\ Burnable(stream, idle) \in 0 .. idle
        /\ supply - Burnable(stream, idle) \in Nat
    BY <2>1, SettleFollows
  <2>3. asset' \in Holdings
    <3>1. [asset EXCEPT !.claim = @ + a] \in Holdings
      BY <1>1, <2>1 DEF Holdings
    <3> QED
      BY <2>1, <3>1, SweepKeeps
  <2>4. SupplyIsHeld'
    <3>1. supply' = outside' + idle' + claim' + AmpsIn(cell) + cell.feeAmps
      BY <1>1, <1>2, <2>1, <2>2
    <3> QED
      BY <2>1, <3>1 DEF SupplyIsHeld, AmpsIn
  <2> QED
    BY <1>1, <2>1, <2>2, <2>3, <2>4 DEF RedInv, RedTypeOK, Holdings, Cells
<1>6. ASSUME NEW a \in Deposits, Donate(a) \/ DonateClaim(a)
      PROVE  RedInv' /\ UNCHANGED streamVars
  BY <1>6, DonationsFollow
<1>7. CASE BuyAcross \/ SellAcross
  BY <1>7, TradesFollow
<1>8. CASE RedTick
  <2>1. /\ now' = now + 1 /\ stream' = stream /\ idle' = idle /\ queued' = queued
        /\ burned' = burned /\ anchor' = anchor
        /\ outside' = outside /\ supply' = supply /\ claim' = claim /\ asset' = asset /\ cell' = cell
    BY <1>8 DEF RedTick, StreamTick, vault
  <2>2. Stream!StreamNext
    BY <1>8 DEF RedTick, StreamTick, Stream!StreamTick, Stream!StreamNext
  <2>3. StreamTypeOK' /\ Dated(stream)'
    <3>1. /\ stream \in Streams /\ queued \in Nat /\ burned \in Nat
          /\ anchor \in [amount : Nat, at : Nat] /\ Dated(stream)
      BY Typed
    <3> QED
      BY <1>1, <2>1, <3>1 DEF StreamTypeOK, Dated, Streams
  <2>4. SupplyIsHeld'
    BY <1>1, <2>1 DEF SupplyIsHeld, AmpsIn
  <2> QED
    BY <2>1, <2>2, <2>3, <2>4 DEF RedInv, RedTypeOK
<1> QED
  BY <1>3, <1>4, <1>5, <1>6, <1>7, <1>8 DEF Around

LEMMA RedStep ==
    ASSUME RedInv, [RedNext]_redVars
    PROVE  RedInv' /\ (Stream!StreamNext \/ UNCHANGED streamVars)
<1>1. CASE Around
  BY <1>1, AroundFollows
<1>2. ASSUME NEW s \in Slices, RedeemProRata(s)
      PROVE  RedInv' /\ Stream!StreamNext
  BY <1>2, RedeemFollows
<1>3. CASE UNCHANGED redVars
  <2>1. /\ UNCHANGED streamVars
        /\ outside' = outside /\ supply' = supply /\ claim' = claim /\ asset' = asset /\ cell' = cell
        /\ idle' = idle
    BY <1>3 DEF redVars, streamVars, vault
  <2>2. /\ outside \in Nat /\ supply \in Nat /\ claim \in 0 .. MaxClaim /\ asset \in Holdings
        /\ cell \in Cells
    BY Typed DEF Holdings
  <2>3. SupplyIsHeld'
    BY <2>1 DEF RedInv, SupplyIsHeld, AmpsIn
  <2> QED
    BY <2>1, <2>2, <2>3, ApartKeeps
<1> QED
  BY <1>1, <1>2, <1>3 DEF RedNext

LEMMA RedStart == RedInit => RedInv /\ Stream!StreamInit
<1> SUFFICES ASSUME RedInit PROVE RedInv /\ Stream!StreamInit
  OBVIOUS
<1>1. /\ MaxLiquidity \in Nat /\ UnitAmps \in Nat /\ UnitCounter \in Nat /\ MaxClaim \in Nat
      /\ Idle \in Nat /\ Sold \in Nat /\ Assets \in Nat /\ MaxQueued \in Nat
  BY RedemptionAssumption, StreamAssumption
<1>2. /\ now = 0 /\ stream = [pending |-> 0, start |-> 0, last |-> 0] /\ idle = Idle
      /\ queued = 0 /\ burned = 0 /\ anchor = [amount |-> 0, at |-> 0]
      /\ outside = Sold /\ supply = Idle + Sold /\ claim = 0
      /\ asset = [claim |-> Assets, idle |-> 0]
      /\ cell = [liquidity |-> 0, side |-> "ask", feeAmps |-> 0, feeCounter |-> 0]
  BY DEF RedInit
<1>3. StreamTypeOK /\ Dated(stream)
  BY <1>1, <1>2 DEF StreamTypeOK, Dated, Streams
<1>4. RedTypeOK
  BY <1>1, <1>2, <1>3 DEF RedTypeOK
<1>5. SupplyIsHeld
  <2>1. AmpsIn(cell) = 0 /\ cell.feeAmps = 0
    <3>1. 0 * UnitAmps = 0
      BY <1>1, Z3
    <3> QED
      BY <1>2, <3>1 DEF AmpsIn
  <2> QED
    BY <1>1, <1>2, <2>1 DEF SupplyIsHeld
<1>6. Idle \in 0 .. Flow
  <2>1. MaxLiquidity * UnitAmps \in Nat
    BY <1>1, Z3
  <2> QED
    BY <1>1, <2>1 DEF Flow
<1> QED
  BY <1>2, <1>3, <1>4, <1>5, <1>6 DEF RedInv, Stream!StreamInit

(* Whatever is redeemed, placed, bonded, donated, traded or settled, every  *)
(* variable keeps its type, every unit of AMPS its place and the stream its *)
(* date (AmpsVault.redeemProRata and the paths around it).                  *)
THEOREM RedemptionInvariant == RedSpec => []RedInv
<1>1. RedInit => RedInv
  BY RedStart
<1>2. RedInv /\ [RedNext]_redVars => RedInv'
  BY RedStep
<1> QED
  BY <1>1, <1>2, PTL DEF RedSpec

(* Every unit of AMPS there is lies in exactly one place: settlements,      *)
(* unwinds, queues and burns in one redemption account for all of it.       *)
THEOREM BooksBalanced == RedSpec => []BooksBalance
<1>1. RedInv => BooksBalance
  BY DEF RedInv, BooksBalance
<1> QED
  BY <1>1, RedemptionInvariant, PTL

(* The vault implements the stream: with the redemption, the placements and *)
(* the donations of a real vault around it, it goes through nothing that    *)
(* BurnStream does not allow, so what BurnStreamProofs shows of every       *)
(* vault, it shows of this one.                                             *)
THEOREM ImplementsStream == RedSpec => FollowsStream
<1>1. RedInit => Stream!StreamInit
  BY RedStart
<1>2. RedInv /\ [RedNext]_redVars => [Stream!StreamNext]_(Stream!streamVars)
  BY RedStep DEF streamVars, Stream!streamVars
<1> QED
  BY <1>1, <1>2, RedemptionInvariant, PTL DEF RedSpec, FollowsStream, Stream!StreamSpec

---------------------------------------------------------------------------
(* What a redemption is quoted, and what it costs those who stay.           *)

LEMMA PreviewMeans ==
    ASSUME RedInv, NEW s \in Nat, NEW k, k = IF s > T THEN T ELSE s
    PROVE  /\ T = 0 => Preview(s) = [out |-> 0, released |-> 0]
           /\ T # 0 => Preview(s) = [out |-> Out(k), released |->
                           ShareOf(Less(idle + claim, stream.pending), k, T) + Unwound(k, T).amps]
<1>1. Less(idle + claim, 0) = idle + claim
  <2>1. idle \in Nat /\ claim \in 0 .. MaxClaim /\ MaxClaim \in Nat
    BY Typed, RedemptionAssumption
  <2> QED
    BY <2>1 DEF Less
<1>2. CASE T = 0
  BY <1>2 DEF Preview, T
<1>3. CASE T # 0
  <2>1. Preview(s) = [out |-> Net(asset.claim + asset.idle, k, T, Unwound(k, T).counter),
                      released |-> Released(idle + claim, 0, stream.pending, k, T, Unwound(k, T).amps)]
    BY <1>3 DEF Preview, T
  <2> QED
    BY <1>1, <1>3, <2>1, NetIsAfterFee DEF Released, Out
<1> QED
  BY <1>2, <1>3

(* The quote is exact.  Where the redemption settles, unwinds and settles   *)
(* again, the view does arithmetic, and the two agree to the unit in what   *)
(* they pay; the redemption queues the fees of the ladder on top (SP-11).   *)
THEOREM QuoteIsPaid == RedSpec => PreviewIsPayout
<1>1. ASSUME RedInv, NEW s \in Slices, RedeemProRata(s)
      PROVE  /\ receipt'.out = Preview(receipt'.shares).out
             /\ receipt'.queued >= Preview(receipt'.shares).released
  <2>1. /\ s \in Nat /\ 0 < s /\ s <= T
        /\ receipt' = [shares |-> s, out |-> Out(s), queued |-> Queue(s)]
    BY <1>1, RedeemMeans
  <2>2. /\ T \in Nat /\ T > 0 /\ Queue(s) \in Int
        /\ Queue(s) = ShareOf(Less(idle + claim, stream.pending), s, T)
                         + Unwound(s, T).amps + Unwound(s, T).feeAmps
    <3>1. idle \in Nat /\ Burnable(stream, idle) \in 0 .. idle
      BY <1>1, Typed, OpenedSound
    <3> QED
      BY <1>1, <2>1, <3>1, Quantities
  <2>3. Preview(s) = [out |-> Out(s), released |->
                         ShareOf(Less(idle + claim, stream.pending), s, T) + Unwound(s, T).amps]
    <3>1. s = (IF s > T THEN T ELSE s) /\ T # 0
      BY <2>1, <2>2
    <3> QED
      BY <1>1, <2>1, <3>1, PreviewMeans
  <2>4. /\ Unwound(s, T).feeAmps \in Nat /\ Unwound(s, T).amps \in Nat
        /\ ShareOf(Less(idle + claim, stream.pending), s, T) \in Int
    <3>1. cell \in Cells /\ cell.feeAmps \in 0 .. 1 /\ AmpsIn(cell) \in 0 .. MaxLiquidity * UnitAmps
      BY <1>1, Typed, CellHolds DEF Cells
    <3>2. Unwound(s, T).feeAmps \in 0 .. cell.feeAmps /\ Unwound(s, T).amps \in 0 .. AmpsIn(cell)
      BY <2>1, <2>2, <3>1, UnwoundSound
    <3>3. Less(idle + claim, stream.pending) \in Nat
      <4>1. /\ idle \in Nat /\ claim \in 0 .. MaxClaim /\ MaxClaim \in Nat /\ stream.pending \in Nat
        BY <1>1, Typed, RedemptionAssumption DEF Streams
      <4> QED
        BY <4>1 DEF Less
    <3>4. ShareOf(Less(idle + claim, stream.pending), s, T) \in 0 .. Less(idle + claim, stream.pending)
      BY <2>1, <2>2, <3>3, ShareBounds
    <3> QED
      BY <3>1, <3>2, <3>3, <3>4
  <2> QED
    BY <2>1, <2>2, <2>3, <2>4
<1>2. Around => receipt' = NoReceipt
  BY DEF Around, Checkpoint, Place, Donate, Bond, DonateClaim, BuyAcross, SellAcross, RedTick
<1>3. RedInv /\ [RedNext]_redVars =>
        [ receipt' # NoReceipt =>
            /\ receipt'.out = Preview(receipt'.shares).out
            /\ receipt'.queued >= Preview(receipt'.shares).released ]_redVars
  BY <1>1, <1>2 DEF RedNext
<1> QED
  BY <1>3, RedemptionInvariant, PTL DEF RedSpec, PreviewIsPayout

(* Slices of an unwind.                                                     *)
LEMMA UnwindsAdd ==
    ASSUME RedInv, NEW a \in Nat, NEW b \in Nat, T > 0, a + b <= T
    PROVE  /\ Unwound(a, T).amps + Unwound(b, T).amps <= Unwound(a + b, T).amps
           /\ Unwound(a, T).counter + Unwound(b, T).counter <= Unwound(a + b, T).counter
           /\ \A c \in {a, b, a + b} :
                 Unwound(c, T).amps \in Nat /\ Unwound(c, T).counter \in Nat
<1>1. /\ cell \in Cells /\ T \in Nat /\ cell.liquidity \in Nat /\ cell.side \in {"ask", "bid"}
      /\ UnitAmps \in Nat /\ UnitCounter \in Nat
  BY Typed, OpenedSound, RedemptionAssumption DEF Cells
<1>2. \A c \in Nat : /\ Unwound(c, T).amps = (IF cell.side = "ask" THEN Removed(c, T) * UnitAmps ELSE 0)
                     /\ Unwound(c, T).counter
                          = (IF cell.side = "bid" THEN Removed(c, T) * UnitCounter ELSE 0)
  BY <1>1 DEF Unwound, AmpsIn, CounterIn, Cells
<1> DEFINE x == Removed(a, T)
           y == Removed(b, T)
           z == Removed(a + b, T)
<1>3. x \in 0 .. cell.liquidity /\ y \in 0 .. cell.liquidity /\ z \in 0 .. cell.liquidity
  <2>1. a <= T /\ b <= T /\ a + b \in Nat
    BY <1>1
  <2> QED
    BY <1>1, <2>1, ShareBounds DEF Removed
<1>4. x + y <= z
  BY <1>1, SharesAdd DEF Removed
<1>5. a + b \in Nat
  OBVIOUS
<1>6. /\ Unwound(a, T).amps = (IF cell.side = "ask" THEN x * UnitAmps ELSE 0)
      /\ Unwound(b, T).amps = (IF cell.side = "ask" THEN y * UnitAmps ELSE 0)
      /\ Unwound(a + b, T).amps = (IF cell.side = "ask" THEN z * UnitAmps ELSE 0)
      /\ Unwound(a, T).counter = (IF cell.side = "bid" THEN x * UnitCounter ELSE 0)
      /\ Unwound(b, T).counter = (IF cell.side = "bid" THEN y * UnitCounter ELSE 0)
      /\ Unwound(a + b, T).counter = (IF cell.side = "bid" THEN z * UnitCounter ELSE 0)
  BY <1>2, <1>5
<1> HIDE DEF x, y, z
<1>7. x \in Nat /\ y \in Nat /\ z \in Nat
  BY <1>1, <1>3
<1>8. ASSUME NEW u \in Nat
      PROVE  x * u \in Nat /\ y * u \in Nat /\ z * u \in Nat /\ x * u + y * u <= z * u
  <2>1. u * (x + y) <= u * z
    BY <1>4, <1>7, ProductMonotone
  <2>2. u * (x + y) = x * u + y * u /\ u * z = z * u /\ x * u \in Nat /\ y * u \in Nat /\ z * u \in Nat
    BY <1>7, Z3
  <2> QED
    BY <2>1, <2>2
<1>9. /\ x * UnitAmps \in Nat /\ y * UnitAmps \in Nat /\ z * UnitAmps \in Nat
      /\ x * UnitAmps + y * UnitAmps <= z * UnitAmps
      /\ x * UnitCounter \in Nat /\ y * UnitCounter \in Nat /\ z * UnitCounter \in Nat
      /\ x * UnitCounter + y * UnitCounter <= z * UnitCounter
  BY <1>1, <1>8
<1> QED
  BY <1>1, <1>6, <1>9

(* The quote can be paid, even for more shares than there are, and two      *)
(* slices are quoted no more than the whole, in the asset or in AMPS, over  *)
(* a ladder that rounds every removal down (GL-22, GL-28).                  *)
THEOREM QuoteIsSound == RedSpec => []PreviewIsSound
<1>1. ASSUME RedInv PROVE PreviewIsSolvent
  <2> DEFINE n == asset.claim + asset.idle
  <2>1. /\ supply \in Nat /\ T \in Nat /\ T <= supply /\ cell \in Cells
        /\ n \in Nat /\ CounterIn(cell) \in Nat
    <3>1. T = supply - Burnable(stream, idle) /\ Burnable(stream, idle) \in 0 .. idle /\ T \in Nat
      BY <1>1, OpenedSound DEF T
    <3>2. supply \in Nat /\ idle \in Nat /\ cell \in Cells /\ asset \in [claim : Nat, idle : Nat]
      BY <1>1, Typed
    <3> QED
      BY <3>1, <3>2, CellHolds
  <2>2. CASE T = 0
    BY <1>1, <2>1, <2>2, PreviewMeans DEF PreviewIsSolvent
  <2>3. CASE T # 0
    <3>1. Preview(supply + 1).out = Out(T)
      <4>1. T = (IF supply + 1 > T THEN T ELSE supply + 1) /\ supply + 1 \in Nat
        BY <2>1
      <4> QED
        BY <1>1, <2>3, <4>1, PreviewMeans
    <3>2. Out(T) <= ShareOf(n, T, T) + Unwound(T, T).counter
      BY <1>1, <2>1, <2>3, PayingSound
    <3>3. ShareOf(n, T, T) = n
      BY <2>1, <2>3, ShareWhole
    <3>4. Unwound(T, T).counter \in 0 .. CounterIn(cell)
      BY <2>1, <2>3, UnwoundSound
    <3>5. Out(T) \in Int
      <4>1. Out(T) \in 0 .. n + Unwound(T, T).counter /\ Unwound(T, T).counter \in Nat
        BY <1>1, <2>1, <2>3, PayingSound
      <4> QED
        BY <2>1, <4>1
    <3>6. Out(T) <= n + CounterIn(cell)
      BY <2>1, <3>2, <3>3, <3>4, <3>5
    <3> QED
      BY <3>1, <3>6 DEF PreviewIsSolvent
  <2> QED
    BY <2>2, <2>3
<1>2. ASSUME RedInv PROVE SlicesQuoteNoMore
  <2>1. ASSUME NEW a \in Slices, NEW b \in Slices, a + b <= T
        PROVE  /\ Preview(a).out + Preview(b).out <= Preview(a + b).out
               /\ Preview(a).released + Preview(b).released <= Preview(a + b).released
    <3> DEFINE n == asset.claim + asset.idle
               h == Less(idle + claim, stream.pending)
    <3>1. /\ a \in Nat /\ b \in Nat /\ a + b \in Nat /\ T \in Nat /\ n \in Nat
      BY <1>2, OpenedSound, Typed, RedemptionAssumption
    <3>2. h \in Nat
      <4>1. /\ idle \in Nat /\ claim \in 0 .. MaxClaim /\ MaxClaim \in Nat /\ stream.pending \in Nat
        BY <1>2, Typed, RedemptionAssumption DEF Streams
      <4> QED
        BY <4>1 DEF Less
    <3>3. CASE T = 0
      BY <1>2, <3>1, <3>3, PreviewMeans
    <3>4. CASE T # 0
      <4>1. a <= T /\ b <= T /\ T > 0
        BY <2>1, <3>1, <3>4
      <4>2. /\ a = (IF a > T THEN T ELSE a) /\ b = (IF b > T THEN T ELSE b)
            /\ a + b = (IF a + b > T THEN T ELSE a + b)
        BY <2>1, <3>1, <4>1
      <4>3. /\ Preview(a) = [out |-> Out(a), released |-> ShareOf(h, a, T) + Unwound(a, T).amps]
            /\ Preview(b) = [out |-> Out(b), released |-> ShareOf(h, b, T) + Unwound(b, T).amps]
        BY <1>2, <3>1, <3>4, <4>2, PreviewMeans
      <4>4. Preview(a + b) = [out |-> Out(a + b),
                              released |-> ShareOf(h, a + b, T) + Unwound(a + b, T).amps]
        BY <1>2, <3>1, <3>4, <4>2, PreviewMeans
      <4>5. /\ Unwound(a, T).amps + Unwound(b, T).amps <= Unwound(a + b, T).amps
            /\ Unwound(a, T).counter + Unwound(b, T).counter <= Unwound(a + b, T).counter
            /\ \A c \in {a, b, a + b} :
                  Unwound(c, T).amps \in Nat /\ Unwound(c, T).counter \in Nat
        BY <1>2, <2>1, <3>1, <4>1, UnwindsAdd
      <4> HIDE DEF n, h
      <4>6. /\ ShareOf(n, a, T) + ShareOf(n, b, T) <= ShareOf(n, a + b, T)
            /\ ShareOf(h, a, T) + ShareOf(h, b, T) <= ShareOf(h, a + b, T)
        BY <3>1, <3>2, <4>1, SharesAdd
      <4>7. \A x \in {n, h} : /\ ShareOf(x, a, T) \in Nat /\ ShareOf(x, b, T) \in Nat
                              /\ ShareOf(x, a + b, T) \in Nat
        <5>1. ASSUME NEW x \in Nat, NEW c \in Nat, c <= T PROVE ShareOf(x, c, T) \in Nat
          <6>1. ShareOf(x, c, T) \in 0 .. x
            BY <3>1, <4>1, <5>1, ShareBounds
          <6> QED
            BY <6>1
        <5> QED
          BY <2>1, <3>1, <3>2, <4>1, <5>1
      <4>8. Out(a) + Out(b) <= Out(a + b)
        <5>1. /\ ShareOf(n, a, T) + Unwound(a, T).counter \in Nat
              /\ ShareOf(n, b, T) + Unwound(b, T).counter \in Nat
              /\ ShareOf(n, a + b, T) + Unwound(a + b, T).counter \in Nat
              /\ (ShareOf(n, a, T) + Unwound(a, T).counter)
                   + (ShareOf(n, b, T) + Unwound(b, T).counter)
                    <= ShareOf(n, a + b, T) + Unwound(a + b, T).counter
          BY <4>5, <4>6, <4>7
        <5> QED
          BY <5>1, FeesAdd DEF Out, n
      <4>9. (ShareOf(h, a, T) + Unwound(a, T).amps) + (ShareOf(h, b, T) + Unwound(b, T).amps)
               <= ShareOf(h, a + b, T) + Unwound(a + b, T).amps
        BY <4>5, <4>6, <4>7
      <4> QED
        BY <4>3, <4>4, <4>8, <4>9
    <3> QED
      BY <3>3, <3>4
  <2> QED
    BY <2>1 DEF SlicesQuoteNoMore, T
<1> QED
  BY <1>1, <1>2, RedemptionInvariant, PTL DEF PreviewIsSound

(* A part of the worth that is no more than the part of the shares that     *)
(* leaves: what is left per share does not fall.                            *)
LEMMA NoDilution ==
    ASSUME NEW w \in Nat, NEW o \in Nat, NEW t \in Nat, NEW s \in Nat, s <= t, o <= w,
           t * o <= w * s,
           NEW supplied \in Nat, t <= supplied, NEW left \in Nat, left <= t - s,
           NEW w2 \in Nat, w - o <= w2
    PROVE  w2 * supplied >= w * left
<1>1. t * (w - o) = t * w - t * o /\ w * (t - s) = w * t - w * s /\ t * w = w * t
  BY Z3
<1>2. t * w \in Int /\ t * o \in Int /\ w * s \in Int
  BY Z3
<1>3. w * (t - s) <= t * (w - o)
  BY <1>1, <1>2
<1>4. w * left <= w * (t - s)
  <2>1. t - s \in Nat
    OBVIOUS
  <2> QED
    BY <2>1, ProductMonotone
<1>5. t * (w - o) <= t * w2
  <2>1. w - o \in Nat
    OBVIOUS
  <2> QED
    BY <2>1, ProductMonotone
<1>6. t * w2 = w2 * t /\ w2 * t <= w2 * supplied
  <2>1. t * w2 = w2 * t
    BY Z3
  <2> QED
    BY <2>1, ProductMonotone
<1>7. /\ w * left \in Int /\ w * (t - s) \in Int /\ t * (w - o) \in Int /\ t * w2 \in Int
      /\ w2 * supplied \in Int
  BY Z3
<1> QED
  BY <1>3, <1>4, <1>5, <1>6, <1>7

(* Those who stay do not lose: across a redemption, with its settlements,   *)
(* its unwind and the fees it brings in, what the vault holds per share     *)
(* does not fall (SP-13).                                                   *)
THEOREM StayersKeep == RedSpec => RedemptionAccretes
<1>1. ASSUME RedInv, RedInv', NEW s \in Slices, RedeemProRata(s)
      PROVE  Worth' * supply >= Worth * supply'
  <2> DEFINE due   == Burnable(stream, idle)
             held  == idle - due + Freed(s)
             again == IF Queue(s) = 0 THEN 0 ELSE Burnable(Opened, held)
             n     == asset.claim + asset.idle
             u     == Unwound(s, T)
             c     == CounterIn(cell)
  <2>1. /\ s \in Nat /\ 0 < s /\ s <= outside /\ s <= T
        /\ idle' = held - again /\ supply' = T - s - again /\ cell' = Left(s, T)
        /\ SweepClean(PaidOut(Paying(s), Out(s)))
    BY <1>1, RedeemMeans
  <2>2. /\ T \in Nat /\ T > 0 /\ supply \in Nat /\ idle \in Nat /\ cell \in Cells
        /\ due \in 0 .. idle /\ T = supply - due /\ n \in Nat /\ c \in Nat
        /\ supply' \in Nat
    <3>1. /\ due \in 0 .. idle /\ T \in Nat
      BY <1>1, OpenedSound
    <3>2. supply' \in Nat
      BY <1>1 DEF RedInv, RedTypeOK
    <3> QED
      BY <1>1, <2>1, <3>1, <3>2, Typed, CellHolds DEF T
  <2>3. /\ u.counter \in 0 .. c /\ u.feeCounter \in Nat /\ T * u.counter <= c * s
        /\ CounterIn(Left(s, T)) = c - u.counter
        /\ Paying(s) \in Holdings
        /\ Paying(s).claim + Paying(s).idle = n + u.counter + u.feeCounter
        /\ Out(s) \in 0 .. n + u.counter
        /\ Out(s) <= ShareOf(n, s, T) + u.counter
    BY <1>1, <2>1, <2>2, UnwoundSound, PayingSound
  <2>4. ShareOf(n, s, T) \in 0 .. n /\ T * ShareOf(n, s, T) <= n * s
    BY <2>1, <2>2, ShareBounds
  <2>5. again \in Nat
    <3>1. Freed(s) \in 0 .. Flow /\ Queue(s) \in 0 .. held /\ Dated(Opened) /\ now \in Nat
      BY <1>1, <2>1, Quantities, OpenedSound, Typed
    <3>2. CASE Queue(s) = 0
      BY <3>2
    <3>3. CASE Queue(s) # 0
      <4>1. held \in Nat
        <5>1. Freed(s) \in Int
          <6>1. Flow \in Int
            BY FlowTyped
          <6> QED
            BY <3>1, <6>1
        <5> QED
          BY <2>2, <3>1, <5>1
      <4> HIDE DEF held
      <4> QED
        BY <3>1, <3>3, <4>1, SettledSound
    <3> QED
      BY <3>2, <3>3
  <2>6. asset' \in Holdings /\ asset'.claim + asset'.idle = n + u.counter + u.feeCounter - Out(s)
    <3>1. Out(s) \in 0 .. Paying(s).claim + Paying(s).idle
      BY <2>2, <2>3
    <3>2. /\ PaidOut(Paying(s), Out(s)) \in Holdings
          /\ PaidOut(Paying(s), Out(s)).claim + PaidOut(Paying(s), Out(s)).idle
               = n + u.counter + u.feeCounter - Out(s)
      <4>1. /\ PaidOut(Paying(s), Out(s)) \in Holdings
            /\ PaidOut(Paying(s), Out(s)).claim + PaidOut(Paying(s), Out(s)).idle
                 = Paying(s).claim + Paying(s).idle - Out(s)
        BY <2>3, <3>1, PaidOutSound
      <4>2. Paying(s).claim + Paying(s).idle = n + u.counter + u.feeCounter
        BY <2>3
      <4>3. /\ n \in Int /\ u.counter \in Int /\ u.feeCounter \in Int /\ Out(s) \in Int
            /\ Paying(s).claim \in Int /\ Paying(s).idle \in Int
        BY <2>2, <2>3 DEF Holdings
      <4> HIDE DEF n, u
      <4> QED
        BY <4>1, <4>2, <4>3
    <3> QED
      BY <2>1, <3>2, SweepKeeps
  <2>7. /\ Worth = n + c
        /\ Worth' = asset'.claim + asset'.idle + (c - u.counter)
    <3>1. Worth' = asset'.claim + asset'.idle + CounterIn(cell')
      BY DEF Worth, CounterIn
    <3> QED
      BY <2>1, <2>3, <3>1 DEF Worth
  <2> HIDE DEF due, held, n, u, c, again
  <2>8. /\ Worth \in Nat /\ Worth' \in Nat /\ Worth - Out(s) <= Worth' /\ Out(s) \in Nat
        /\ Out(s) <= Worth
    BY <2>2, <2>3, <2>6, <2>7
  <2>9. T * Out(s) <= Worth * s
    <3>1. T * Out(s) <= T * (ShareOf(n, s, T) + u.counter)
      <4>1. ShareOf(n, s, T) + u.counter \in Nat
        BY <2>2, <2>3, <2>4
      <4> QED
        BY <2>2, <2>3, <2>8, <4>1, ProductMonotone
    <3>2. ShareOf(n, s, T) \in Nat /\ u.counter \in Nat
      BY <2>2, <2>3, <2>4
    <3>3. T * (ShareOf(n, s, T) + u.counter) = T * ShareOf(n, s, T) + T * u.counter
      BY <2>2, <3>2, Z3
    <3>4. (n + c) * s = n * s + c * s /\ n * s \in Int /\ c * s \in Int
      BY <2>1, <2>2, Z3
    <3>5. T * ShareOf(n, s, T) \in Int /\ T * u.counter \in Int /\ T * Out(s) \in Int
      BY <2>2, <2>8, <3>2, Z3
    <3>6. T * Out(s) <= (n + c) * s
      BY <2>3, <2>4, <3>1, <3>3, <3>4, <3>5
    <3> QED
      BY <2>7, <3>6
  <2>10. supply' <= T - s /\ T <= supply
    BY <2>1, <2>2, <2>5
  <2> QED
    BY <2>1, <2>2, <2>8, <2>9, <2>10, NoDilution
<1>2. Around => receipt' = NoReceipt
  BY DEF Around, Checkpoint, Place, Donate, Bond, DonateClaim, BuyAcross, SellAcross, RedTick
<1>3. RedInv /\ RedInv' /\ [RedNext]_redVars =>
        [receipt' # NoReceipt => Worth' * supply >= Worth * supply']_redVars
  BY <1>1, <1>2 DEF RedNext
<1> QED
  BY <1>3, RedemptionInvariant, PTL DEF RedSpec, RedemptionAccretes
=============================================================================
