------------------------------- MODULE Keeper -------------------------------
(***************************************************************************)
(* The keeper process (apps/keeper): one scan loop that reads the chain,   *)
(* screens every job, simulates the eligible ones one after the other,     *)
(* qualifies them against the bounty pot and hands the survivors to a      *)
(* relayer, waiting for each before it looks at the next.                  *)
(*                                                                         *)
(* Three parties interleave: the keeper, which may crash and restart; the  *)
(* relayer, which may take a transaction and fail to say so, lose it, or   *)
(* land it long after the keeper stopped waiting; and the chain, which     *)
(* moves between the read, the simulation and the landing.                 *)
(*                                                                         *)
(* Time is kept as saturating ages: every comparison the keeper makes is   *)
(* between two timestamps, so the distance to the present is all that      *)
(* matters, up to Far.                                                     *)
(***************************************************************************)
EXTENDS Integers, FiniteSets

CONSTANTS
    Pools,          \* registered pools
    Entries,        \* the hub and WETH pools, which rollout harvests from
    Constituents,   \* ACTIVE constituents with a rollout weight
    PoolOf,         \* [Constituents -> Pools]: the constituent's spoke
    Cooldown,       \* placementCooldownSeconds, in ticks
    RefreshAt,      \* checkpointRefreshAtSeconds
    MaxAge,         \* checkpointMaxAgeSeconds: bonds refuse past it
    TouchEvery,     \* touchIntervalSeconds
    Grace,          \* OracleGate GRACE: the watchdog trips past it
    InFlightFor,    \* inFlightTimeoutSeconds
    Pace,           \* a live process starts a scan at least this often
    MaxLag,         \* how far the reads of one snapshot may trail its head block
    Far,            \* where ages saturate
    AllowRefDiverged, RunUnpaid, SettleEnabled,    \* policy switches
    Capable,        \* does the node answer eth_simulateV1?
    Skies,          \* conditions of the chain the environment moves between
    Slots,          \* relayer queue places
    MaxFaults,      \* bound on crashes, lost answers, time-outs and failed reads
    MaxEvents       \* bound on the market's own moves

(* What the environment decides: the gate's verdict, each pool's policy    *)
(* checks and live-cell budget, and whether the pot pays.                  *)
Gates == {"GREEN", "REF_DIVERGED", "DEGRADED", "DIVERGED"}
Moods == {"clear", "refused", "diverged", "full"}
Purses == {"pays", "thin", "dry", "ceiling"}

ASSUME KeeperAssumption ==
    /\ Skies \subseteq [gate : Gates, frozen : BOOLEAN, mood : [Pools -> Moods], pot : Purses]
    /\ Entries \subseteq Pools
    /\ PoolOf \in [Constituents -> Pools]
    /\ Slots \subseteq Nat \ {0}
    /\ {Cooldown, RefreshAt, MaxAge, TouchEvery, Grace, InFlightFor, Pace, MaxLag, Far,
        MaxFaults, MaxEvents} \subseteq Nat
    /\ {AllowRefDiverged, RunUnpaid, SettleEnabled, Capable} \subseteq BOOLEAN
    /\ \A d \in {Cooldown + MaxLag, RefreshAt + MaxLag, MaxAge, TouchEvery, Grace} : d < Far

None == "none"

(***************************************************************************)
(* Jobs: <kind>:<target>.  Only three kinds carry a bounty.                *)
(***************************************************************************)
Touch      == [kind |-> "touch", target |-> None]
Refresh    == [kind |-> "checkpoint", target |-> None]
Settle     == [kind |-> "settle", target |-> None]
Compound(p)     == [kind |-> "compound", target |-> p]
DeployBonded(c) == [kind |-> "deployBonded", target |-> c]
Rollout(c)      == [kind |-> "rollout", target |-> c]

NoJob == [kind |-> None, target |-> None]
NoSlot == 0

Jobs == {Touch, Refresh, Settle} \cup {Compound(p) : p \in Pools}
            \cup {DeployBonded(c) : c \in Constituents}
            \cup {Rollout(c) : c \in Constituents}

Bountied == {j \in Jobs : j.kind \in {"compound", "rollout", "deployBonded"}}

(* The stable order of one scan: upkeep, settle, compounds, then each      *)
(* constituent's deployment before its rollout.                            *)
Stage(j) == CASE j.kind = "touch" -> 1 [] j.kind = "checkpoint" -> 2
              [] j.kind = "settle" -> 3 [] j.kind = "compound" -> 4 [] OTHER -> 5
Precedes(a, b) ==
    \/ Stage(a) < Stage(b)
    \/ /\ Stage(a) = 5 /\ a.target = b.target
       /\ a.kind = "deployBonded" /\ b.kind = "rollout"

VARIABLES
    \* the chain
    stampAge,       \* [Pools -> 0..Far]: since the vault's lastPlacementAt
    checkpointAge,  \* since the vault's checkpoint
    beatAge,        \* since the gate's watchdog was stamped
    phase,          \* AmpsGenesis.phase()
    fees,           \* [Pools -> {none, amps, counter}]: fees a compound collects
    idle,           \* constituents with bonded collateral over the threshold
    quota,          \* the rollout schedule proposes something
    sky,            \* [gate, frozen, mood, pot]: conditions outside the keeper's hands
    relay,          \* [Slots -> record]: what the relayer holds
    \* the keeper process
    pc, seen, due, chosen, awaiting,
    placed,         \* placedThisScan: pools this scan knows to be on cooldown
    inFlight,       \* the in-flight map: a set of [job, age]
    touchAge,       \* since lastTouchAt, which starts at zero: Far
    bountySim,      \* the eth_simulateV1 latch
    settledLatch,   \* the reader's genesisSettledLatch
    \* bounds
    faults, events

chain  == <<stampAge, checkpointAge, beatAge, phase, fees, idle, quota>>
memory == <<placed, inFlight, touchAge, bountySim, settledLatch>>
control == <<pc, seen, due, chosen, awaiting>>
vars == <<chain, sky, relay, control, memory, faults, events>>

FreeSlot == [job |-> NoJob, st |-> "free", put |-> {}]
Queued(j) == [job |-> j, st |-> "queued", put |-> {}]

TypeOK ==
    /\ stampAge \in [Pools -> 0..Far]
    /\ checkpointAge \in 0..Far /\ beatAge \in 0..Far
    /\ phase \in {"Bidding", "Ended", "Settled"}
    /\ fees \in [Pools -> {"none", "amps", "counter"}]
    /\ idle \subseteq Constituents /\ quota \in BOOLEAN
    /\ sky \in Skies
    /\ relay \in [Slots -> [job : Jobs, st : {"queued", "mined", "reverted", "failed"},
                            put : SUBSET Pools] \cup {FreeSlot}]
    /\ pc \in {"down", "asleep", "reading", "deciding", "posting", "waiting"}
    /\ seen \in [age : 0..Far, pot : Purses]
    /\ due \subseteq Jobs
    /\ chosen \in Jobs \cup {NoJob}
    /\ awaiting \in Slots \cup {NoSlot}
    /\ placed \subseteq Pools
    /\ inFlight \subseteq [job : Jobs, age : 0..Far]
    /\ touchAge \in 0..Far
    /\ bountySim \in BOOLEAN /\ settledLatch \in BOOLEAN
    /\ faults \in 0..MaxFaults /\ events \in 0..MaxEvents

Older(a) == IF a < Far THEN a + 1 ELSE Far

(***************************************************************************)
(* The chain: which calls pass, what they do, what they report.            *)
(***************************************************************************)
(* The gate is pointed only once the launch has settled. *)
Tripped == phase = "Settled" /\ beatAge > Grace

(* OracleGate.state(0), most restrictive condition first. *)
GateState ==
    IF phase # "Settled" THEN "GREEN"
    ELSE IF sky.frozen THEN "SCHEDULED_FREEZE"
    ELSE IF sky.gate = "DIVERGED" THEN "DIVERGED"
    ELSE IF Tripped THEN "WATCHDOG" ELSE sky.gate

Ready(p) == stampAge[p] >= Cooldown

(* The vault pokes the gate before it checks touch and checkpoint, so a    *)
(* tripped watchdog never refuses them; DEGRADED refuses only placements.  *)
Manageable == phase = "Settled" /\ ~sky.frozen /\ sky.gate # "DIVERGED"
Placeable  == phase = "Settled" /\ GateState \in {"GREEN", "REF_DIVERGED"}

(* The pools whose placement gauntlet the job runs: none for a deployment  *)
(* or a rollout with nothing to do, which returns zero instead.            *)
Path(j) ==
    CASE j.kind = "compound" -> {j.target}
      [] j.kind = "deployBonded" /\ j.target \in idle -> {PoolOf[j.target]}
      [] j.kind = "rollout" /\ quota -> Entries \cup {PoolOf[j.target]}
      [] OTHER -> {}

Open(p) == sky.mood[p] \in {"clear", "full"}

Passes(j) ==
    CASE j.kind \in {"touch", "checkpoint"} -> Manageable
      [] j.kind = "settle" -> phase = "Ended" /\ ~sky.frozen
      [] OTHER -> Placeable /\ \A p \in Path(j) : Open(p) /\ Ready(p)

(* What the job commits: a compound places only counter-side fees, and     *)
(* nothing is placed into a ladder at the live-cell budget.                *)
Moves(j) ==
    CASE j.kind = "compound" -> fees[j.target] = "counter" /\ sky.mood[j.target] = "clear"
      [] j.kind = "deployBonded" -> j.target \in idle /\ sky.mood[PoolOf[j.target]] = "clear"
      [] j.kind = "rollout" -> quota /\ sky.mood[PoolOf[j.target]] = "clear"
      [] OTHER -> FALSE

(* The pools whose clock the vault stamps: where the job placed, and the  *)
(* entry pools a rollout harvested from.                                   *)
Stamps(j) ==
    {p \in Path(j) : Moves(j) \/ (j.kind = "rollout" /\ p \in Entries)}

(* A no-op deployment or rollout returns zero before it reaches the pot.   *)
Reports(j) == Path(j) # {}

(* Work at or over the dust guard, as the vault measures it and as the     *)
(* keeper can from the return value: compound's counter side is not in it. *)
Worth(j) == IF j.kind = "compound" THEN fees[j.target] # "none" ELSE Moves(j)
Estimate_Swapped(j) ==
    CASE j.kind = "compound" -> fees[j.target] = "counter"
      [] j.kind = "rollout" -> quota
      [] OTHER -> Moves(j)
Estimate(j) ==
    CASE j.kind = "compound" -> fees[j.target] = "amps"
      [] j.kind = "rollout" -> quota
      [] OTHER -> Moves(j)

Execute(j) ==
    /\ stampAge' = [p \in Pools |-> IF p \in Stamps(j) THEN 0 ELSE stampAge[p]]
    /\ checkpointAge' = IF j.kind = "touch" THEN checkpointAge ELSE 0
    /\ beatAge' = IF j.kind \in {"touch", "checkpoint", "settle"} THEN 0 ELSE beatAge
    /\ phase' = IF j.kind = "settle" THEN "Settled" ELSE phase
    /\ fees' = IF j.kind = "compound" THEN [fees EXCEPT ![j.target] = "none"] ELSE fees
    /\ idle' = IF j.kind = "deployBonded" /\ Moves(j) THEN idle \ {j.target} ELSE idle
    /\ quota' = IF j.kind = "rollout" /\ Moves(j) THEN FALSE ELSE quota

(***************************************************************************)
(* Screening: pure in the snapshot, the policy and lastTouchAt.            *)
(***************************************************************************)
GateAdmits(g) == g = "GREEN" \/ (g = "REF_DIVERGED" /\ AllowRefDiverged)

(* The screen of one pool, `lag' ticks after the head block whose time the *)
(* snapshot carries, with this scan's own placements laid over it.         *)
ScreenPlacement(p, lag) ==
    /\ sky.mood[p] = "clear"
    /\ stampAge[p] - lag >= Cooldown
    /\ p \notin placed

ScreenTouch_Gated(lag) ==
    ~sky.frozen /\ GateAdmits(GateState) /\ touchAge - lag >= TouchEvery
ScreenTouch(lag) ==
    /\ ~sky.frozen
    /\ \/ Tripped
       \/ GateAdmits(GateState) /\ touchAge - lag >= TouchEvery

ScreenCheckpoint_Late(lag) ==
    /\ ~sky.frozen /\ GateAdmits(GateState)
    /\ checkpointAge - lag > MaxAge
ScreenCheckpoint(lag) ==
    /\ ~sky.frozen /\ GateAdmits(GateState)
    /\ checkpointAge - lag >= RefreshAt

(* The reader stops asking the adapter, for good, once it has answered     *)
(* settled().                                                              *)
Latches_Ended(read) == SettleEnabled /\ None \in read /\ phase # "Bidding"
Latches(read) == SettleEnabled /\ None \in read /\ phase = "Settled"

ScreenSettle(read) == SettleEnabled /\ ~settledLatch /\ None \in read /\ phase = "Ended"

Screen(read, lag) ==
    LET open == ~sky.frozen /\ GateAdmits(GateState)
        clear(ps) == open /\ \A p \in ps : p \in read /\ ScreenPlacement(p, lag)
    IN  {j \in Jobs :
            CASE j.kind = "touch" -> ScreenTouch(lag)
              [] j.kind = "checkpoint" -> ScreenCheckpoint(lag)
              [] j.kind = "settle" -> ScreenSettle(read)
              [] j.kind = "compound" -> clear({j.target})
              [] j.kind = "deployBonded" ->
                    j.target \in idle \cap read /\ clear({PoolOf[j.target]})
              [] j.kind = "rollout" ->
                    j.target \in read /\ clear({PoolOf[j.target]} \cup (Entries \cap read))}

(* The keeper's verdict on a job whose simulation passed: unpaid jobs go;  *)
(* a bountied one must be worth the dust guard and be paid enough.  What   *)
(* the vault reported wins; without it the keeper's estimate and the pot   *)
(* as the snapshot saw it.                                                 *)
Paid(purse) == purse = "pays" \/ (purse \in {"thin", "dry"} /\ RunUnpaid)
Qualify(j, reported) ==
    \/ j \notin Bountied
    \/ IF reported THEN Worth(j) /\ Paid(sky.pot) ELSE Estimate(j) /\ Paid(seen.pot)

(***************************************************************************)
(* The keeper's steps.                                                     *)
(***************************************************************************)
Fault == faults < MaxFaults /\ faults' = faults + 1

Forget(j) == inFlight' = {f \in inFlight : f.job # j}

Release == relay' = [relay EXCEPT ![awaiting] = IF @.st = "queued" THEN @ ELSE FreeSlot]

(* The scan starts: the overlay is emptied, the head block gives the time. *)
Wake ==
    /\ pc = "asleep"
    /\ pc' = "reading" /\ placed' = {}
    /\ seen' = [seen EXCEPT !.age = 0]
    /\ UNCHANGED <<chain, sky, relay, due, chosen, awaiting, inFlight, touchAge,
                   bountySim, settledLatch, faults, events>>

(* A pool, a constituent or the adapter (None) that does not answer drops  *)
(* out of this scan only.                                                  *)
Answering(failed) == (Pools \cup Constituents \cup {None}) \ failed

(* The reads complete and the scan screens once.                           *)
Read(failed) ==
    /\ pc = "reading" /\ seen.age <= MaxLag
    /\ IF failed = {} THEN UNCHANGED faults ELSE Fault
    /\ LET read == Answering(failed) IN
         /\ due' = Screen(read, seen.age)
         /\ settledLatch' = (settledLatch \/ Latches(read))
    /\ seen' = [seen EXCEPT !.pot = sky.pot]
    /\ pc' = "deciding"
    /\ UNCHANGED <<chain, sky, relay, chosen, awaiting, placed, inFlight, touchAge,
                   bountySim, events>>

(* A read that is not allowed to fail fails: the scan is abandoned. *)
ScanFails ==
    /\ pc = "reading" /\ Fault
    /\ pc' = "asleep"
    /\ UNCHANGED <<chain, sky, relay, seen, due, chosen, awaiting, memory, events>>

(* The eth_simulateV1 result that carries the pot's own verdict on the job. *)
Reported(j, answered) ==
    /\ j \in Bountied /\ Passes(j) /\ Reports(j)
    /\ bountySim /\ Capable /\ answered

(* The pools a simulation may come back from as cooling down.              *)
Cold(j) == {p \in Path(j) : ~Passes(j) /\ Placeable /\ Open(p) /\ ~Ready(p)}

(* The next job of the order: skipped while in flight, else simulated on   *)
(* the chain as it is now.  `answered' is the bounty simulation coming     *)
(* back; a bountied job without a report switches it off for good.         *)
Decide(j, answered) ==
    /\ pc = "deciding" /\ j \in due /\ \A k \in due : ~Precedes(k, j)
    /\ answered \/ (j \in Bountied /\ bountySim /\ Capable)
    /\ due' = due \ {j}
    /\ IF \E f \in inFlight : f.job = j /\ f.age - seen.age < InFlightFor
       THEN UNCHANGED <<pc, chosen, placed, inFlight, bountySim, faults>>
       ELSE /\ Forget(j)
            /\ IF answered THEN UNCHANGED faults ELSE Fault
            /\ bountySim' = (bountySim /\ (Passes(j) /\ j \in Bountied => Reported(j, answered)))
            /\ placed' = placed \cup (IF Cold(j) = {} THEN {} ELSE {CHOOSE p \in Cold(j) : TRUE})
            /\ IF Passes(j) /\ Qualify(j, Reported(j, answered))
               THEN pc' = "posting" /\ chosen' = j
               ELSE UNCHANGED <<pc, chosen>>
    /\ UNCHANGED <<chain, sky, relay, seen, awaiting, touchAge, settledLatch, events>>

(* The relayer takes the transaction and answers: the keeper waits. *)
PostAccepted(s) ==
    /\ pc = "posting" /\ relay[s] = FreeSlot
    /\ relay' = [relay EXCEPT ![s] = Queued(chosen)]
    /\ inFlight' = inFlight \cup {[job |-> chosen, age |-> 0]}
    /\ pc' = "waiting" /\ awaiting' = s
    /\ UNCHANGED <<chain, sky, seen, due, chosen, placed, touchAge, bountySim,
                   settledLatch, faults, events>>

(* The POST throws: the relayer refused it (s = NoSlot), or took it and the  *)
(* answer never came.  Either way the catch forgets the job.               *)
PostThrows(s) ==
    /\ pc = "posting" /\ Fault
    /\ IF s = NoSlot THEN UNCHANGED relay
       ELSE /\ relay[s] = FreeSlot
            /\ relay' = [relay EXCEPT ![s] = Queued(chosen)]
    /\ Forget(chosen)
    /\ pc' = "deciding" /\ chosen' = NoJob
    /\ UNCHANGED <<chain, sky, seen, due, awaiting, placed, touchAge, bountySim,
                   settledLatch, events>>

(* What a confirmed job leaves on the overlay: the pools of its Placement  *)
(* logs, or, without any, the pools its target stands for.                 *)
Marks(j, put) ==
    IF put # {} THEN put
    ELSE CASE j.kind = "compound" -> {j.target}
           [] j.kind = "deployBonded" -> {PoolOf[j.target]}
           [] j.kind = "rollout" -> {PoolOf[j.target]} \cup Entries
           [] OTHER -> {}

(* The receipt arrives.  A confirmed touch moves lastTouchAt to the time   *)
(* the SNAPSHOT was taken.                                                 *)
Confirm_Now ==
    /\ pc = "waiting" /\ relay[awaiting].st \in {"mined", "reverted"}
    /\ IF relay[awaiting].st = "mined"
       THEN /\ touchAge' = IF chosen = Touch THEN 0 ELSE touchAge
            /\ placed' = placed \cup Marks(chosen, relay[awaiting].put)
       ELSE UNCHANGED <<touchAge, placed>>
    /\ Forget(chosen) /\ Release
    /\ pc' = "deciding" /\ chosen' = NoJob /\ awaiting' = NoSlot
    /\ UNCHANGED <<chain, sky, seen, due, bountySim, settledLatch, faults, events>>
Confirm ==
    /\ pc = "waiting" /\ relay[awaiting].st \in {"mined", "reverted"}
    /\ IF relay[awaiting].st = "mined"
       THEN /\ touchAge' = IF chosen = Touch THEN seen.age ELSE touchAge
            /\ placed' = placed \cup Marks(chosen, relay[awaiting].put)
       ELSE UNCHANGED <<touchAge, placed>>
    /\ Forget(chosen) /\ Release
    /\ pc' = "deciding" /\ chosen' = NoJob /\ awaiting' = NoSlot
    /\ UNCHANGED <<chain, sky, seen, due, bountySim, settledLatch, faults, events>>

(* The wait throws: no hash before the deadline, or the relayer says the   *)
(* transaction failed.  A queued transaction stays the relayer's to land.  *)
GiveUp_Remembers ==
    /\ pc = "waiting" /\ relay[awaiting].st \in {"queued", "failed"}
    /\ IF relay[awaiting].st = "queued" THEN Fault ELSE UNCHANGED faults
    /\ Release
    /\ pc' = "deciding" /\ chosen' = NoJob /\ awaiting' = NoSlot
    /\ UNCHANGED <<chain, sky, seen, due, memory, events>>
GiveUp ==
    /\ pc = "waiting" /\ relay[awaiting].st \in {"queued", "failed"}
    /\ IF relay[awaiting].st = "queued" THEN Fault ELSE UNCHANGED faults
    /\ Forget(chosen) /\ Release
    /\ pc' = "deciding" /\ chosen' = NoJob /\ awaiting' = NoSlot
    /\ UNCHANGED <<chain, sky, seen, due, placed, touchAge, bountySim, settledLatch, events>>

(* The last job is done: the loop sleeps scanIntervalSeconds. *)
EndScan ==
    /\ pc = "deciding" /\ due = {}
    /\ pc' = "asleep" /\ seen' = [seen EXCEPT !.pot = "pays"]
    /\ UNCHANGED <<chain, sky, relay, due, chosen, awaiting, memory, faults, events>>

(* The process dies, at any point and for any time, and a new one starts   *)
(* with nothing but the chain.                                             *)
Crash ==
    /\ pc # "down" /\ Fault
    /\ pc' = "down" /\ seen' = [age |-> Far, pot |-> "pays"]
    /\ due' = {} /\ chosen' = NoJob /\ awaiting' = NoSlot
    /\ placed' = {} /\ inFlight' = {} /\ touchAge' = Far
    /\ bountySim' = TRUE /\ settledLatch' = FALSE
    /\ relay' = [s \in Slots |-> IF relay[s].st = "queued" THEN relay[s] ELSE FreeSlot]
    /\ UNCHANGED <<chain, sky, events>>

Start ==
    /\ pc = "down" /\ pc' = "asleep"
    /\ UNCHANGED <<chain, sky, relay, seen, due, chosen, awaiting, memory, faults, events>>

(***************************************************************************)
(* The relayer and the chain.                                              *)
(***************************************************************************)
Outcome(s, st, put) ==
    relay' = [relay EXCEPT ![s] = IF s = awaiting THEN [@ EXCEPT !.st = st, !.put = put]
                                  ELSE FreeSlot]

Land(s) ==
    /\ relay[s].st = "queued"
    /\ LET j == relay[s].job IN
         IF Passes(j) THEN Execute(j) /\ Outcome(s, "mined", Stamps(j))
                      ELSE UNCHANGED chain /\ Outcome(s, "reverted", {})
    /\ UNCHANGED <<sky, control, memory, faults, events>>

(* The relayer gives a transaction up: failed, cancelled or expired. *)
Drop(s) ==
    /\ relay[s].st = "queued" /\ Fault
    /\ Outcome(s, "failed", {})
    /\ UNCHANGED <<chain, sky, control, memory, events>>

Event == events < MaxEvents /\ events' = events + 1

(* Anybody may run a permissionless job. *)
Outsider(j) ==
    /\ Event /\ Passes(j) /\ Execute(j)
    /\ UNCHANGED <<sky, relay, control, memory, faults>>

Trade(p) ==
    /\ Event /\ fees[p] = "none"
    /\ \E f \in {"amps", "counter"} : fees' = [fees EXCEPT ![p] = f]
    /\ UNCHANGED <<stampAge, checkpointAge, beatAge, phase, idle, quota, sky, relay,
                   control, memory, faults>>

(* A bond lands collateral and writes a checkpoint of its own; the shell   *)
(* refuses to price against one older than MaxAge.                         *)
Bond(c) ==
    /\ Event /\ phase = "Settled" /\ ~sky.frozen /\ sky.gate # "DIVERGED"
    /\ checkpointAge <= MaxAge
    /\ idle' = idle \cup {c} /\ checkpointAge' = 0
    /\ UNCHANGED <<stampAge, beatAge, phase, fees, quota, sky, relay, control, memory, faults>>

Shift ==
    /\ Event /\ sky' \in Skies \ {sky}
    /\ UNCHANGED <<chain, relay, control, memory, faults>>

AuctionEnds ==
    /\ phase = "Bidding" /\ phase' = "Ended"
    /\ UNCHANGED <<stampAge, checkpointAge, beatAge, fees, idle, quota, sky, relay, control,
                   memory, faults, events>>

(* The clock.  A live process wakes every scanIntervalSeconds, and each of *)
(* its calls has a deadline: a scan and the sleep before the next take no  *)
(* longer than Pace.  The reads of one snapshot trail its head by MaxLag.  *)
Tick ==
    /\ pc # "down" => seen.age < Pace
    /\ pc = "reading" => seen.age < MaxLag
    /\ stampAge' = [p \in Pools |-> Older(stampAge[p])]
    /\ checkpointAge' = Older(checkpointAge) /\ beatAge' = Older(beatAge)
    /\ seen' = [seen EXCEPT !.age = Older(@)]
    /\ touchAge' = Older(touchAge)
    /\ inFlight' = {[f EXCEPT !.age = Older(@)] : f \in inFlight}
    /\ UNCHANGED <<phase, fees, idle, quota, sky, relay, placed, pc, due, chosen, awaiting, bountySim,
                   settledLatch, faults, events>>

(***************************************************************************)
(* The specification.                                                      *)
(***************************************************************************)
Init ==
    /\ stampAge = [p \in Pools |-> Far] /\ checkpointAge = Far /\ beatAge = 0
    /\ phase \in {"Bidding", "Settled"}
    /\ fees = [p \in Pools |-> "none"] /\ idle = {} /\ quota = TRUE
    /\ sky \in Skies
    /\ relay = [s \in Slots |-> FreeSlot]
    /\ pc = "down" /\ seen = [age |-> Far, pot |-> "pays"] /\ due = {} /\ chosen = NoJob /\ awaiting = NoSlot
    /\ placed = {} /\ inFlight = {} /\ touchAge = Far
    /\ bountySim = TRUE /\ settledLatch = FALSE
    /\ faults = 0 /\ events = 0

Scan ==
    \/ Wake \/ ScanFails \/ EndScan \/ Confirm \/ GiveUp
    \/ \E failed \in {{}} \cup {{x} : x \in Pools \cup Constituents \cup {None}} : Read(failed)
    \/ \E j \in due, answered \in BOOLEAN : Decide(j, answered)
    \/ \E s \in Slots : PostAccepted(s)
    \/ \E s \in Slots \cup {NoSlot} : PostThrows(s)

Next ==
    \/ Scan \/ Crash \/ Start \/ Tick \/ Shift \/ AuctionEnds
    \/ \E s \in Slots : Land(s) \/ Drop(s)
    \/ \E j \in Jobs : Outsider(j)
    \/ \E p \in Pools : Trade(p)
    \/ \E c \in Constituents : Bond(c)

(* A dead keeper is restarted, the loop never stops scanning, the relayer  *)
(* eventually lands or drops what it took, and time passes, strongly since *)
(* Tick waits for a scan that is due.  Nothing is assumed of the market.   *)
Fairness ==
    /\ WF_vars(Scan) /\ WF_vars(Start) /\ SF_vars(Tick) /\ WF_vars(AuctionEnds)
    /\ \A s \in Slots : WF_vars(Land(s))

Spec == Init /\ [][Next]_vars /\ Fairness

(***************************************************************************)
(* Properties.                                                             *)
(***************************************************************************)
(* The in-flight map never outlives the wait that fills it: runner.ts      *)
(* clears it on every way out of send(), so no scan ever finds an entry    *)
(* and its time-out decides nothing.                                       *)
InFlightOnlyWhileWaiting ==
    \A f \in inFlight : pc = "waiting" /\ f.job = chosen

(* The keeper never believes in a heartbeat the gate did not see: its own  *)
(* lastTouchAt is never later than the watchdog's stamp, through lost      *)
(* answers, late landings and restarts.                                    *)
TouchIsNeverAheadOfTheBeat == touchAge >= beatAge

Steady(gates) == sky.gate \in gates /\ ~sky.frozen

(* A tripped watchdog is cleared by the keeper alone, in every gate state  *)
(* the vault lets touch() through in, and from then on never trips again.  *)
WatchdogHeals == <>[]Steady({"GREEN"}) => <>[]~Tripped

(* The checkpoint bonds price against is refreshed before it is too old,   *)
(* with the margin screenCheckpoint leaves, after any outage.              *)
CheckpointStaysWarm ==
    <>[](Steady({"GREEN"}) /\ phase = "Settled") => <>[](checkpointAge <= MaxAge)

(* Whatever the keeper missed, the two clocks it exists for come back.      *)
UpkeepRecovers == WatchdogHeals /\ CheckpointStaysWarm

(* After any outage the backlog drains: fees a compound would burn are     *)
(* burned, once the market holds still and the pot pays.                   *)
BacklogDrains ==
    \A p \in Pools :
        <>[](Steady({"GREEN"}) /\ sky.mood[p] = "clear" /\ sky.pot = "pays" /\ phase = "Settled")
            => [](fees[p] = "amps" => <>(fees[p] = "none"))

(* The launch is settled once its auctions have ended. *)
LaunchSettles == <>[](~sky.frozen) => <>(phase = "Settled")

(* "`touch` and `checkpoint` still run" while the gate is DEGRADED, the    *)
(* state of every night and weekend: the checkpoint bonds price against    *)
(* keeps being refreshed (docs/keeper-runbook.md).                         *)
CheckpointKeepsDegraded ==
    <>[](Steady({"DEGRADED"}) /\ phase = "Settled") => []<>(checkpointAge <= MaxAge)
=============================================================================
