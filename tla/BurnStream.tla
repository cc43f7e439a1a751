----------------------------- MODULE BurnStream -----------------------------
(***************************************************************************)
(* The inventory-burn stream, contracts/src/vault/VaultRedeemLib.sol: what  *)
(* a redemption releases is not burned in it but queued, and burned along   *)
(* one straight line that ends a day after the amount-weighted opening of   *)
(* the queue, as far as the vault's idle AMPS can pay.                      *)
(*                                                                          *)
(* The vault around it is left open: its idle AMPS comes and goes as it     *)
(* likes.  Redemption puts the vault in its place.                          *)
(***************************************************************************)
EXTENDS Integers

CONSTANTS
    Day,            \* Constants.REDEEM_BURN_STREAM_SECONDS
    MaxTime,        \* bound of the clock
    Amounts,        \* what a redemption may queue or free, idle AMPS that comes or goes
    MaxQueued,      \* bound of all that is ever queued
    Balances        \* the idle balances a model keeps to

ASSUME StreamAssumption ==
    /\ Day \in Nat \ {0} /\ MaxTime \in Nat
    /\ Amounts \subseteq Nat /\ MaxQueued \in Nat /\ Balances \subseteq Nat

VARIABLES
    now,            \* block.timestamp
    stream,         \* pendingInventoryBurn, burnStreamStart, burnStreamLastSettle
    idle,           \* the vault's idle AMPS balance
    queued, burned, \* history: all that was ever queued, all the stream ever burned
    anchor          \* history: the amount pending after the last queue, and when

streamVars == <<now, stream, idle, queued, burned, anchor>>

Streams == [pending : Nat, start : Nat, last : Nat]

StreamTypeOK ==
    /\ now \in Nat /\ stream \in Streams /\ idle \in Nat
    /\ queued \in Nat /\ burned \in Nat
    /\ anchor \in [amount : Nat, at : Nat]

StreamInit ==
    /\ now = 0
    /\ stream = [pending |-> 0, start |-> 0, last |-> 0]
    /\ idle \in Amounts
    /\ queued = 0 /\ burned = 0
    /\ anchor = [amount |-> 0, at |-> 0]

---------------------------------------------------------------------------
(* The schedule.                                                            *)

End(s) == s.start + Day

(* _burnStreamDue, first half: the remaining amount over the remaining time.*)
Due(s) ==
    IF s.pending = 0 THEN 0
    ELSE IF now >= End(s) THEN s.pending
    ELSE (s.pending * (now - s.last)) \div (End(s) - s.last)

(* Its second half: what the idle balance covers.                           *)
Burnable(s, balance) == IF Due(s) > balance THEN balance ELSE Due(s)

(* Mutant: a settlement the balance cut short moves the clock as well.      *)
Settled_AlwaysStamp(s, balance) ==
    IF s.pending = 0 THEN s
    ELSE [s EXCEPT !.pending = @ - Burnable(s, balance), !.last = now]

(* settleBurnStream: the clock moves only for time that was paid for.       *)
Settled(s, balance) ==
    IF s.pending = 0 THEN s
    ELSE [s EXCEPT !.pending = @ - Burnable(s, balance),
                   !.last = IF Burnable(s, balance) = Due(s) THEN now ELSE @]

(* Mutant: any queue opens a whole new day for all that is pending.         *)
Opening_Now(s, amount) == now

(* Mutant: each of the two parts rounded up.                                *)
Opening_RoundedUp(s, amount) ==
    LET combined == s.pending + amount
    IN  IF s.pending = 0 THEN now
        ELSE ((s.start * s.pending + combined - 1) \div combined)
                + ((now * amount + combined - 1) \div combined)

(* The amount-weighted opening of what is pending and what is added.        *)
Opening(s, amount) ==
    LET combined == s.pending + amount
    IN  IF s.pending = 0 THEN now
        ELSE ((s.start * s.pending) \div combined) + ((now * amount) \div combined)

(* queueInventoryBurn, after the settlement it begins with.                 *)
Enqueued(s, amount) ==
    IF amount = 0 THEN s
    ELSE [pending |-> s.pending + amount, start |-> Opening(s, amount), last |-> now]

---------------------------------------------------------------------------

(* A checkpoint, or anything that makes one: the stream settles.            *)
Settle ==
    /\ stream' = Settled(stream, idle)
    /\ idle' = idle - Burnable(stream, idle)
    /\ burned' = burned + Burnable(stream, idle)
    /\ UNCHANGED <<now, queued, anchor>>

(* A redemption: it settles, frees idle AMPS out of the ladders, settles    *)
(* again as it queues, and queues, no more than it then holds.  One that    *)
(* releases nothing stops short.                                            *)
Redeem(freed, amount) ==
    LET first == Settled(stream, idle)
        held  == idle - Burnable(stream, idle) + freed
        again == IF amount = 0 THEN 0 ELSE Burnable(first, held)
        last  == IF amount = 0 THEN first ELSE Settled(first, held)
    IN  /\ queued + amount <= MaxQueued /\ idle + freed \in Balances
        /\ amount <= held
        /\ queued' = queued + amount
        /\ idle' = held - again
        /\ burned' = burned + Burnable(stream, idle) + again
        /\ stream' = Enqueued(last, amount)
        /\ anchor' = IF amount = 0 THEN anchor
                     ELSE [amount |-> last.pending + amount, at |-> now]
        /\ UNCHANGED now

(* A placement settles, moves idle AMPS into a ladder, and ends in a         *)
(* checkpoint that settles again from what it has left.                     *)
Spend(amount) ==
    LET first == Settled(stream, idle)
        left  == idle - Burnable(stream, idle) - amount
    IN  /\ left >= 0
        /\ stream' = Settled(first, left)
        /\ idle' = left - Burnable(first, left)
        /\ burned' = burned + Burnable(stream, idle) + Burnable(first, left)
        /\ UNCHANGED <<now, queued, anchor>>

(* Transfers to the vault bring some.                                       *)
Gain(amount) ==
    /\ idle + amount \in Balances
    /\ idle' = idle + amount
    /\ UNCHANGED <<now, stream, queued, burned, anchor>>

StreamTick ==
    /\ now < MaxTime
    /\ now' = now + 1
    /\ UNCHANGED <<stream, idle, queued, burned, anchor>>

StreamNext ==
    \/ Settle
    \/ \E freed \in Amounts, amount \in Amounts : Redeem(freed, amount)
    \/ \E amount \in Amounts : Spend(amount) \/ Gain(amount)
    \/ StreamTick

StreamSpec == StreamInit /\ [][StreamNext]_streamVars

---------------------------------------------------------------------------
(* Properties.                                                              *)

(* The stream owes exactly what was queued and not yet burned, however      *)
(* often the idle balance cut a settlement short, so nothing queued is ever *)
(* forgotten and nothing is burned twice                                    *)
(* (invariant_r8_pendingBurnIsQueuedMinusDrained).                          *)
PendingIsQueuedMinusBurned == stream.pending = queued - burned

(* The schedule is always defined: both instants it is computed from are    *)
(* past, so a window still open has time left in it to divide by, and what  *)
(* is due never exceeds what is pending.                                    *)
ScheduleIsSound ==
    /\ stream.start <= now /\ stream.last <= now
    /\ Due(stream) <= stream.pending

(* A settlement that the balance could pay leaves no more pending than the  *)
(* straight line from the last queue to the deadline, but for one unit of   *)
(* rounding per instant: nobody slows the burn down by settling often, and  *)
(* nobody by settling while the vault is empty.                             *)
NeverBehindTheLine ==
    stream.last = now /\ now < End(stream) =>
        (stream.pending - (now - anchor.at)) * (End(stream) - anchor.at)
            <= anchor.amount * (End(stream) - now)

(* A queue moves the deadline only in proportion to what it adds: a dust    *)
(* redemption cannot keep pushing out a large burn, nor date it ahead.      *)
DeadlineMovesByWeight ==
    [][ queued' # queued =>
            /\ stream.start - 1 <= stream'.start /\ stream'.start <= now
            /\ \/ anchor'.amount = queued' - queued
               \/ (stream'.start - stream.start) * anchor'.amount
                     <= (queued' - queued) * (now - stream.start) ]_streamVars
=============================================================================
