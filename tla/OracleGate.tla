----------------------------- MODULE OracleGate -----------------------------
(***************************************************************************)
(* The oracle gate, contracts/src/oracle/OracleGate.sol, and the vault's    *)
(* three readings of it, contracts/src/vault/AmpsVault.sol: a stamp of the  *)
(* last block somebody reported, expiring guardian freezes, one divergence  *)
(* timer per pool, and the verdict they and the live readings resolve to.   *)
(*                                                                          *)
(* Everything the gate reads elsewhere (feeds, the hub's TWAP, the stock    *)
(* token, the calendar) is one Reading, open in every call.                 *)
(***************************************************************************)
EXTENDS Clock, Integers

CONSTANTS
    BlockMod,       \* 2^32: block numbers are kept as uint32
    StartBlock,     \* the block the gate is deployed in
    Steps,          \* the seconds a block may take
    GraceBand,      \* GRACE_SECONDS_MIN .. GRACE_SECONDS_MAX
    GapBand,        \* 1 .. GAP_SECONDS_MAX
    SustainBand,    \* 0 .. DIVERGENCE_SUSTAIN_SECONDS_MAX
    DivergenceBand, \* 1 .. DIVERGENCE_BPS_MAX
    FreezeMax,      \* GUARDIAN_FREEZE_MAX_SECONDS
    Names,          \* the constituents, each with the pool it trades in
    Entries,        \* the entry pools, which have no constituent
    Protocol,       \* constituent 0: the protocol-wide verdict
    Deviations,     \* |poolTick - fairTick|, in bps
    Unknown         \* a deviation that cannot be measured

Pools == Names \cup Entries

ASSUME GateAssumption ==
    /\ BlockMod \in Nat \ {0} /\ StartBlock \in 0 .. BlockMod - 1
    /\ Steps \subseteq Nat /\ MaxTime \in Nat
    /\ GraceBand \subseteq Nat /\ GapBand \subseteq Nat \ {0}
    /\ \E grace \in GraceBand, gap \in GapBand : gap < grace
    /\ SustainBand \subseteq Nat /\ DivergenceBand \subseteq Nat
    /\ FreezeMax \in Nat \ {0}
    /\ Names \cap Entries = {} /\ Protocol \notin Pools
    /\ Deviations \subseteq Nat /\ Unknown \notin Nat

VARIABLES
    block,                  \* block.number as a uint32
    stamp,                  \* _lastBlock, _lastTimestamp
    graceSeconds, gapSeconds,
    sustain, divergenceBps, \* _divergenceSustainSeconds, _divergenceBps
    protocolFreezeUntil, nameFreezeUntil,
    divergedSince,          \* one timer per pool, 0 when disarmed
    produced, longest,      \* history: blocks since the stamp, the slowest of them
    outside                 \* history: when each pool was poked outside its
                            \* bound since it was last poked inside

chain == <<now, block, produced, longest>>
params == <<graceSeconds, gapSeconds, sustain, divergenceBps>>
freezes == <<protocolFreezeUntil, nameFreezeUntil>>
timers == <<divergedSince, outside>>
gateVars == <<chain, stamp, params, freezes, timers>>

(* What one call sees of the rest of the system: of the market as a whole,  *)
(* and of one pool and the name traded in it.                               *)
Markets == [
    hub : {"uncovered", "agrees", "apart"},     \* the hub's TWAP, and against WETH's
    closed : BOOLEAN]                           \* sessionAt(block.timestamp)

Measures == Deviations \cup {Unknown}

Readings == [
    deviation : Measures,       \* from fair, if the hub lets fair be known
    feed : BOOLEAN,             \* the name's answer is fresh and confirmed
    corporate : BOOLEAN]        \* a corporate action, by a probe or the hook's flag

Stamps == [block : 0 .. BlockMod - 1, time : Nat]

GateTypeOK ==
    /\ now \in Nat \ {0} /\ block \in 0 .. BlockMod - 1 /\ stamp \in Stamps
    /\ graceSeconds \in GraceBand /\ gapSeconds \in GapBand
    /\ gapSeconds < graceSeconds
    /\ sustain \in SustainBand /\ divergenceBps \in DivergenceBand
    /\ protocolFreezeUntil \in 0 .. now + FreezeMax
    /\ nameFreezeUntil \in [Names -> 0 .. now + FreezeMax]
    /\ divergedSince \in [Pools -> 0 .. now]
    /\ produced \in 0 .. BlockMod - 1 /\ longest \in Nat
    /\ outside \in [Pools -> SUBSET (1 .. now)]

---------------------------------------------------------------------------
(* Layer A.                                                                 *)

Stamp == [block |-> block, time |-> now]

Elapsed(s) == IF now > s.time THEN now - s.time ELSE 0

BlocksAdvanced(s) == (block - s.block) % BlockMod

(* Mutant: one block too few is taken for an outage.                        *)
Tripped_AtEqual(s) ==
    /\ Elapsed(s) > graceSeconds
    /\ BlocksAdvanced(s) <= Elapsed(s) \div gapSeconds

(* _watchdogTripped: time has passed and blocks have not.                   *)
Tripped(s) ==
    /\ Elapsed(s) > graceSeconds
    /\ BlocksAdvanced(s) < Elapsed(s) \div gapSeconds

---------------------------------------------------------------------------
(* The snapshot of a name, an entry pool or the protocol, from a stamp.     *)

ProtocolFrozen == protocolFreezeUntil > now

Frozen(id, r) ==
    \/ ProtocolFrozen
    \/ id \in Names /\ (nameFreezeUntil[id] > now \/ r.corporate)

IsOutside(d) == d # Unknown /\ d > divergenceBps

(* _deviation: fair is measured from the hub, so without one it is unknown. *)
Measured(m, r) == IF m.hub = "uncovered" THEN Unknown ELSE r.deviation

Diverged(id, d) ==
    /\ id \in Pools
    /\ divergedSince[id] # 0 /\ now >= divergedSince[id] + sustain
    /\ IsOutside(d)

FeedStale(id, r) == id \in Names /\ ~r.feed

(* _resolveState: of the conditions that hold, the most restrictive.        *)
Verdict(id, s, m, r) ==
    IF Frozen(id, r) THEN "SCHEDULED_FREEZE"
    ELSE IF Diverged(id, Measured(m, r)) THEN "DIVERGED"
    ELSE IF Tripped(s) \/ m.hub = "uncovered" THEN "WATCHDOG"
    ELSE IF FeedStale(id, r) \/ m.closed THEN "DEGRADED"
    ELSE IF m.hub = "apart" THEN "REF_DIVERGED"
    ELSE "GREEN"

(* state(0): no constituent and no pool, so nothing is read of one.         *)
NoReading == [deviation |-> Unknown, feed |-> FALSE, corporate |-> FALSE]

ProtocolVerdict(s, m) == Verdict(Protocol, s, m, NoReading)

---------------------------------------------------------------------------
(* The vault's policies, and the doors they and the per-pool checks open.   *)

Refused == [
    bonds      |-> {"DIVERGED", "SCHEDULED_FREEZE"},
    management |-> {"DIVERGED", "SCHEDULED_FREEZE", "WATCHDOG"},
    placement  |-> {"DIVERGED", "SCHEDULED_FREEZE", "WATCHDOG", "DEGRADED"}]

(* Mutant: the verdict is read first, and an unreadable one ends the check. *)
VaultRefuses_VerdictFirst(policy, s, m, readable) ==
    readable /\ (ProtocolFrozen \/ ProtocolVerdict(s, m) \in Refused[policy])

(* _requireGate: the freeze on its own first, by a read too cheap to be     *)
(* starved; then the verdict, which refuses nothing if gas for it ran out.  *)
VaultRefuses(policy, s, m, readable) ==
    \/ ProtocolFrozen
    \/ readable /\ ProtocolVerdict(s, m) \in Refused[policy]

ManagementOpen(s, m, readable) == ~VaultRefuses("management", s, m, readable)

(* place, compound, rollout, deployBonded: the policy, then checkPlacement. *)
PlacementOpen(pool, s, m, r, readable) ==
    /\ ~VaultRefuses("placement", s, m, readable)
    /\ Verdict(pool, s, m, r) \in {"GREEN", "REF_DIVERGED"}

(* A bond: AmpsBonds' checkBond of the name, then the vault's policy.       *)
BondOpen(id, s, m, r, readable) ==
    /\ Verdict(id, s, m, r) \notin {"SCHEDULED_FREEZE", "DIVERGED"}
    /\ ~VaultRefuses("bonds", s, m, readable)

---------------------------------------------------------------------------
GateInit ==
    /\ now = 1 /\ block = StartBlock
    /\ stamp = [block |-> block, time |-> now]
    /\ graceSeconds \in GraceBand /\ gapSeconds \in GapBand
    /\ gapSeconds < graceSeconds
    /\ sustain \in SustainBand /\ divergenceBps \in DivergenceBand
    /\ protocolFreezeUntil = 0 /\ nameFreezeUntil = [n \in Names |-> 0]
    /\ divergedSince = [p \in Pools |-> 0]
    /\ produced = 0 /\ longest = 0
    /\ outside = [p \in Pools |-> {}]

(* The chain.  A stamp is never 2^32 blocks old: the bound of produced.     *)
NextBlock(seconds) ==
    /\ now + seconds <= MaxTime /\ produced + 1 < BlockMod
    /\ now' = now + seconds
    /\ block' = (block + 1) % BlockMod
    /\ produced' = produced + 1
    /\ longest' = IF seconds > longest THEN seconds ELSE longest
    /\ UNCHANGED <<stamp, params, freezes, timers>>

(* _stamp.                                                                  *)
WriteStamp ==
    /\ stamp' = Stamp
    /\ produced' = 0 /\ longest' = 0
    /\ UNCHANGED <<now, block>>

(* poke, by anyone.                                                         *)
Poke == WriteStamp /\ UNCHANGED <<params, freezes, timers>>

(* Mutant: a reading that cannot be made clears the timer.                  *)
Rearmed_ClearOnUnknown(since, d) ==
    IF IsOutside(d) /\ since = 0 THEN now
    ELSE IF ~IsOutside(d) THEN 0 ELSE since

(* _updateDivergence: only a reading that could be made moves the timer.    *)
Rearmed(since, d) ==
    IF IsOutside(d) /\ since = 0 THEN now
    ELSE IF d # Unknown /\ ~IsOutside(d) THEN 0 ELSE since

(* pokePool, and pokeConstituent, which only reports more; d is whatever    *)
(* Measured makes of the pool and the hub.                                  *)
PokePool(p, d) ==
    /\ WriteStamp
    /\ divergedSince' = [divergedSince EXCEPT ![p] = Rearmed(@, d)]
    /\ outside' = [outside EXCEPT ![p] =
           IF d = Unknown THEN @ ELSE IF d > divergenceBps THEN @ \cup {now} ELSE {}]
    /\ UNCHANGED <<params, freezes>>

(* Mutant: the gate is asked before it is poked.                            *)
Upkeep_AskFirst(m, readable) ==
    /\ ManagementOpen(stamp, m, readable)
    /\ WriteStamp
    /\ UNCHANGED <<params, freezes, timers>>

(* The vault's checkpoint and touch: poke, then ask, and a refusal takes    *)
(* the stamp back with it.  A poke that fails leaves the gate as it was.    *)
Upkeep(m, readable) ==
    /\ ManagementOpen(Stamp, m, readable)
    /\ WriteStamp
    /\ UNCHANGED <<params, freezes, timers>>

(* _requireFreezeWindow.                                                    *)
InFreezeWindow(until) == now + 1 <= until /\ until <= now + FreezeMax

(* The guardian.                                                            *)
FreezeProtocol(until) ==
    /\ InFreezeWindow(until)
    /\ protocolFreezeUntil' = until
    /\ UNCHANGED <<chain, stamp, params, nameFreezeUntil, timers>>

FreezeConstituent(n, until) ==
    /\ InFreezeWindow(until)
    /\ nameFreezeUntil' = [nameFreezeUntil EXCEPT ![n] = until]
    /\ UNCHANGED <<chain, stamp, params, protocolFreezeUntil, timers>>

(* The guardian, or the timelock over its head.                             *)
UnfreezeProtocol ==
    /\ protocolFreezeUntil' = 0
    /\ UNCHANGED <<chain, stamp, params, nameFreezeUntil, timers>>

UnfreezeConstituent(n) ==
    /\ nameFreezeUntil' = [nameFreezeUntil EXCEPT ![n] = 0]
    /\ UNCHANGED <<chain, stamp, params, protocolFreezeUntil, timers>>

(* The timelock.                                                            *)
SetGraceSeconds(value) ==
    /\ value > gapSeconds
    /\ graceSeconds' = value
    /\ UNCHANGED <<chain, stamp, gapSeconds, sustain, divergenceBps, freezes, timers>>

(* Mutant: the gap is held to its own band only.                            *)

SetGapSeconds(value) ==
    /\ value < graceSeconds
    /\ gapSeconds' = value
    /\ UNCHANGED <<chain, stamp, graceSeconds, sustain, divergenceBps, freezes, timers>>

SetDivergence(bps, seconds) ==
    /\ \/ divergenceBps' = bps /\ UNCHANGED sustain
       \/ sustain' = seconds /\ UNCHANGED divergenceBps
    /\ UNCHANGED <<chain, stamp, graceSeconds, gapSeconds, freezes, timers>>

GateNext ==
    \/ \E seconds \in Steps : NextBlock(seconds)
    \/ Poke
    \/ \E p \in Pools, d \in Measures : PokePool(p, d)
    \/ \E m \in Markets, readable \in BOOLEAN : Upkeep(m, readable)
    \/ \E until \in 1 .. now + FreezeMax : FreezeProtocol(until)
    \/ \E n \in Names, until \in 1 .. now + FreezeMax : FreezeConstituent(n, until)
    \/ UnfreezeProtocol
    \/ \E n \in Names : UnfreezeConstituent(n)
    \/ \E value \in GraceBand : SetGraceSeconds(value)
    \/ \E value \in GapBand : SetGapSeconds(value)
    \/ \E bps \in DivergenceBand, seconds \in SustainBand : SetDivergence(bps, seconds)

GateSpec == GateInit /\ [][GateNext]_gateVars

(* The keeper sends touch on a clock, and whenever it sees the watchdog     *)
(* tripped; its call finds the hub covered and has gas enough to read.      *)
KeeperTouch == \E m \in Markets : m.hub # "uncovered" /\ Upkeep(m, TRUE)

LiveGateSpec == GateSpec /\ WF_gateVars(KeeperTouch)

---------------------------------------------------------------------------
(* The watchdog trips only if some block since the stamp was longer coming  *)
(* than the gap: nobody calling is not an outage, however long nobody calls *)
(* (_watchdogTripped, and the integer division of the elapsed time).        *)
TripMeansOutage == Tripped(stamp) => longest > gapSeconds

(* The breaker's memory: a pool is diverged exactly while it is outside its *)
(* bound and some poke, a sustain ago or more, found it outside with no     *)
(* poke having found it inside since.  Readings that could not be made, in  *)
(* any number and at any time, neither close a pool nor reopen it.          *)
BreakerRemembers ==
    \A p \in Pools, d \in Measures :
        Diverged(p, d) <=>
            /\ IsOutside(d)
            /\ \E t \in outside[p] : t + sustain <= now

(* The doors nest: what a placement passes, management passes, and a bond   *)
(* in the same name; a vault that cannot read the verdict lets no placement *)
(* and no bond through that it would have refused, because the pool and the *)
(* name are asked as well; and a protocol freeze shuts all of them, read or *)
(* not (_requireGate, checkPlacement and checkBond).                        *)
DoorsNest ==
    \A m \in Markets :
        /\ \A p \in Pools, r \in Readings : PlacementOpen(p, stamp, m, r, FALSE) =>
               /\ PlacementOpen(p, stamp, m, r, TRUE)
               /\ ManagementOpen(stamp, m, TRUE)
               /\ p \in Names => BondOpen(p, stamp, m, r, TRUE)
        /\ \A n \in Names, r \in Readings :
               BondOpen(n, stamp, m, r, FALSE) => BondOpen(n, stamp, m, r, TRUE)
        /\ BondOpen(Protocol, stamp, m, NoReading, FALSE) =>
               BondOpen(Protocol, stamp, m, NoReading, TRUE)
        /\ ProtocolFrozen => ~ManagementOpen(stamp, m, FALSE)

(* A tripped watchdog does not last: unless the guardian keeps the protocol *)
(* frozen, the keeper's touch clears it, because the vault pokes the gate   *)
(* before it asks it (AmpsVault.touch and checkpoint).                      *)
TripClears == <>[]~ProtocolFrozen => []<>~Tripped(stamp)
=============================================================================
