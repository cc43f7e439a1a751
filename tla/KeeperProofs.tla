---------------------------- MODULE KeeperProofs ----------------------------
(***************************************************************************)
(* What the keeper may believe, for every set of pools, constituents and   *)
(* relayer slots, every cadence and every bound on faults and events.      *)
(***************************************************************************)
EXTENDS Keeper, TLAPS

(* The ages the beliefs are compared on. *)
Ages == /\ touchAge \in 0..Far /\ beatAge \in 0..Far
        /\ seen \in [age : 0..Far, pot : Purses]
        /\ sky \in Skies
        /\ inFlight \subseteq [job : Jobs \cup {NoJob}, age : 0..Far]

(* The relayer's answer the keeper waits for is about the job it posted. *)
Waiting ==
    /\ relay \in [Slots -> [job : Jobs \cup {NoJob},
                            st : {"queued", "mined", "reverted", "failed", "free"},
                            put : SUBSET Pools]]
    /\ pc = "waiting" => awaiting \in Slots /\ relay[awaiting].job = chosen
    /\ pc # "waiting" => awaiting = NoSlot

(* A touch seen mined moved the gate's stamp after the snapshot was taken. *)
MinedTouch ==
    pc = "waiting" /\ chosen = Touch /\ relay[awaiting].st = "mined" => beatAge <= seen.age

(* The reader only stops asking an adapter that has settled. *)
LatchIsTrue == settledLatch => phase = "Settled"

(* The inductive invariant.  TouchIsNeverAheadOfTheBeat is not inductive:   *)
(* a receipt read late must still not be younger than the gate's stamp.    *)
KeeperInv ==
    /\ Ages /\ Waiting /\ MinedTouch /\ LatchIsTrue
    /\ InFlightOnlyWhileWaiting /\ TouchIsNeverAheadOfTheBeat
    /\ chosen \in Jobs \cup {NoJob}
    /\ due \subseteq Jobs

LEMMA FarIsNat == ASSUME KeeperAssumption PROVE Far \in Nat
<1>1. Far \in {Cooldown, RefreshAt, MaxAge, TouchEvery, Grace, InFlightFor, Pace, MaxLag, Far,
        MaxFaults, MaxEvents}
  OBVIOUS
<1> QED
  BY <1>1 DEF KeeperAssumption

LEMMA SkyPot == ASSUME KeeperAssumption, sky \in Skies PROVE sky.pot \in Purses
  BY DEF KeeperAssumption

LEMMA KeeperInit == ASSUME KeeperAssumption, Init PROVE KeeperInv
<1>1. Far \in Nat /\ 0 \in 0..Far /\ Far \in 0..Far /\ NoSlot \notin Slots
  BY FarIsNat DEF KeeperAssumption, NoSlot
<1>2. Ages
  BY <1>1 DEF Init, Ages, Purses
<1>3. Waiting
  BY DEF Init, Waiting, FreeSlot
<1> QED
  BY <1>1, <1>2, <1>3 DEF Init, KeeperInv, MinedTouch, LatchIsTrue,
     InFlightOnlyWhileWaiting, TouchIsNeverAheadOfTheBeat

(* One tick keeps the order of two ages. *)
LEMMA OlderKeeps ==
    ASSUME NEW a \in 0..Far, NEW b \in 0..Far, KeeperAssumption
    PROVE  Older(a) \in 0..Far /\ (a <= b => Older(a) <= Older(b))
<1>1. Far \in Nat
  BY FarIsNat
<1> QED
  BY <1>1 DEF Older

(* A job only runs the gauntlet of registered pools. *)
LEMMA PathInPools ==
    ASSUME NEW j \in Jobs \cup {NoJob}, KeeperAssumption
    PROVE  Path(j) \subseteq Pools
<1>1. CASE j \in {Touch, Refresh, Settle, NoJob}
  BY <1>1 DEF Path, Touch, Refresh, Settle, NoJob, None
<1>2. CASE \E p \in Pools : j = Compound(p)
  BY <1>2 DEF Path, Compound
<1>3. CASE \E c \in Constituents : j = DeployBonded(c)
  BY <1>3 DEF Path, DeployBonded, KeeperAssumption
<1>4. CASE \E c \in Constituents : j = Rollout(c)
  BY <1>4 DEF Path, Rollout, KeeperAssumption
<1> QED
  BY <1>1, <1>2, <1>3, <1>4 DEF Jobs

(* A chain call only makes the gate's stamp younger and the launch further. *)
LEMMA ExecuteAges ==
    ASSUME NEW j, Execute(j), Ages, KeeperAssumption
    PROVE  /\ beatAge' \in 0..Far /\ beatAge' <= beatAge
           /\ j = Touch => beatAge' = 0
           /\ phase = "Settled" => phase' = "Settled"
  BY FarIsNat DEF Execute, Ages, Touch

(* The scan's own steps between the wake and a post. *)
LEMMA ScanSteps ==
    ASSUME KeeperInv, KeeperAssumption,
           \/ Wake \/ ScanFails \/ EndScan \/ Start
           \/ \E failed : Read(failed)
           \/ \E j, answered : j \in due /\ Decide(j, answered)
    PROVE  KeeperInv'
<1> USE DEF Forget
<1>0. Far \in Nat /\ 0 \in 0..Far
  BY FarIsNat
<1>1. CASE Wake
  BY <1>0, <1>1 DEF Wake, KeeperInv, Ages, Waiting, MinedTouch, LatchIsTrue, chain,
     InFlightOnlyWhileWaiting, TouchIsNeverAheadOfTheBeat
<1>2. CASE ScanFails
  BY <1>2 DEF ScanFails, KeeperInv, Ages, Waiting, MinedTouch, LatchIsTrue, chain, memory,
     InFlightOnlyWhileWaiting, TouchIsNeverAheadOfTheBeat
<1>3. CASE EndScan
  BY <1>3 DEF EndScan, KeeperInv, Ages, Waiting, MinedTouch, LatchIsTrue, chain, memory,
     InFlightOnlyWhileWaiting, TouchIsNeverAheadOfTheBeat, Purses
<1>4. CASE Start
  BY <1>4 DEF Start, KeeperInv, Ages, Waiting, MinedTouch, LatchIsTrue, chain, memory,
     InFlightOnlyWhileWaiting, TouchIsNeverAheadOfTheBeat
<1>5. ASSUME NEW failed, Read(failed) PROVE KeeperInv'
  <2>1. due' \subseteq Jobs
    BY <1>5 DEF Read, Screen
  <2>2. seen' \in [age : 0..Far, pot : Purses]
    BY <1>5, SkyPot DEF Read, KeeperInv, Ages
  <2>3. LatchIsTrue'
    BY <1>5 DEF Read, KeeperInv, LatchIsTrue, Latches, chain
  <2> QED
    BY <1>5, <2>1, <2>2, <2>3 DEF Read, KeeperInv, Ages, Waiting, MinedTouch, chain,
       InFlightOnlyWhileWaiting, TouchIsNeverAheadOfTheBeat
<1>6. ASSUME NEW j, NEW answered, j \in due, Decide(j, answered) PROVE KeeperInv'
  <2>1. due' \subseteq Jobs /\ chosen' \in Jobs \cup {NoJob}
    BY <1>6 DEF Decide, KeeperInv
  <2>2. inFlight = {} /\ inFlight' = {} /\ pc' # "waiting"
    BY <1>6 DEF Decide, KeeperInv, InFlightOnlyWhileWaiting
  <2> QED
    BY <1>6, <2>1, <2>2 DEF Decide, KeeperInv, Ages, Waiting, MinedTouch, LatchIsTrue, chain,
       InFlightOnlyWhileWaiting, TouchIsNeverAheadOfTheBeat
<1> QED
  BY <1>1, <1>2, <1>3, <1>4, <1>5, <1>6

(* Handing a job over. *)
LEMMA Posting ==
    ASSUME KeeperInv, KeeperAssumption, NEW s \in Slots \cup {NoSlot},
           (s \in Slots /\ PostAccepted(s)) \/ PostThrows(s)
    PROVE  KeeperInv'
<1>1. inFlight = {}
  BY DEF KeeperInv, InFlightOnlyWhileWaiting, PostAccepted, PostThrows
<1>2. CASE s \in Slots /\ PostAccepted(s)
  <2>1. relay' = [relay EXCEPT ![s] = Queued(chosen)] /\ inFlight' = {[job |-> chosen, age |-> 0]}
    BY <1>1, <1>2 DEF PostAccepted
  <2>2. Waiting'
    BY <1>2, <2>1 DEF PostAccepted, KeeperInv, Waiting, Queued
  <2>3. MinedTouch'
    BY <1>2, <2>1 DEF PostAccepted, KeeperInv, Waiting, Queued, MinedTouch
  <2> QED
    BY <1>2, <2>1, <2>2, <2>3 DEF PostAccepted, KeeperInv, Ages, LatchIsTrue, chain,
       InFlightOnlyWhileWaiting, TouchIsNeverAheadOfTheBeat
<1>3. CASE PostThrows(s)
  <2>1. inFlight' = {}
    BY <1>1, <1>3 DEF PostThrows, Forget
  <2>2. Waiting'
    BY <1>3 DEF PostThrows, KeeperInv, Waiting, Queued
  <2> QED
    BY <1>3, <2>1, <2>2 DEF PostThrows, KeeperInv, Ages, LatchIsTrue, chain, MinedTouch,
       InFlightOnlyWhileWaiting, TouchIsNeverAheadOfTheBeat
<1> QED
  BY <1>2, <1>3

(* Hearing back, or not. *)
LEMMA Answers == ASSUME KeeperInv, KeeperAssumption, Confirm \/ GiveUp PROVE KeeperInv'
<1>1. inFlight' = {}
  BY DEF KeeperInv, InFlightOnlyWhileWaiting, Confirm, GiveUp, Forget
<1>2. Waiting'
  BY DEF KeeperInv, Waiting, Confirm, GiveUp, Release, FreeSlot
<1>3. touchAge' \in 0..Far /\ touchAge' >= beatAge /\ beatAge' = beatAge /\ seen' = seen
  BY DEF KeeperInv, Ages, MinedTouch, Confirm, GiveUp, chain, TouchIsNeverAheadOfTheBeat
<1> QED
  BY <1>1, <1>2, <1>3 DEF Confirm, GiveUp, KeeperInv, Ages, MinedTouch, LatchIsTrue, chain,
     InFlightOnlyWhileWaiting, TouchIsNeverAheadOfTheBeat

(* The process dies. *)
LEMMA Dying == ASSUME KeeperInv, KeeperAssumption, Crash PROVE KeeperInv'
<1>1. Far \in Nat /\ Far \in 0..Far
  BY FarIsNat
<1>2. Waiting'
  BY DEF Crash, KeeperInv, Waiting, FreeSlot
<1> QED
  BY <1>1, <1>2 DEF Crash, KeeperInv, Ages, MinedTouch, LatchIsTrue, chain, Purses,
     InFlightOnlyWhileWaiting, TouchIsNeverAheadOfTheBeat

(* The relayer lands a transaction, whenever it pleases, or drops it. *)
LEMMA Landing ==
    ASSUME KeeperInv, KeeperAssumption, NEW s \in Slots, Land(s) \/ Drop(s)
    PROVE  KeeperInv'
<1> DEFINE j == relay[s].job
<1>1. PICK st \in {"mined", "reverted", "failed"}, put \in SUBSET Pools : Outcome(s, st, put)
  <2>1. j \in Jobs \cup {NoJob}
    BY DEF KeeperInv, Waiting
  <2>2. Stamps(j) \subseteq Pools
    BY <2>1, PathInPools DEF Stamps
  <2> QED
    BY <2>2 DEF Land, Drop
<1>2. Waiting'
  <2> DEFINE R == [job : Jobs \cup {NoJob},
                   st : {"queued", "mined", "reverted", "failed", "free"}, put : SUBSET Pools]
  <2>1. UNCHANGED <<pc, chosen, awaiting>>
    BY DEF Land, Drop, control
  <2>2. relay \in [Slots -> R] /\ relay[s] \in R
    BY DEF KeeperInv, Waiting
  <2>3. FreeSlot \in R
    BY DEF FreeSlot
  <2>4. [relay[s] EXCEPT !.st = st, !.put = put] \in R
        /\ [relay[s] EXCEPT !.st = st, !.put = put].job = relay[s].job
    BY <2>2
  <2>5. relay' = [relay EXCEPT ![s] =
                     IF s = awaiting THEN [relay[s] EXCEPT !.st = st, !.put = put] ELSE FreeSlot]
    BY <1>1, <2>2 DEF Outcome
  <2> HIDE DEF R
  <2>6. relay' \in [Slots -> R]
    BY <2>2, <2>3, <2>4, <2>5
  <2>7. awaiting \in Slots => relay'[awaiting].job = relay[awaiting].job
    BY <2>2, <2>4, <2>5
  <2> USE DEF R
  <2> QED
    BY <2>1, <2>6, <2>7 DEF KeeperInv, Waiting
<1>3. /\ beatAge' \in 0..Far /\ beatAge' <= beatAge
      /\ phase = "Settled" => phase' = "Settled"
  BY ExecuteAges DEF Land, Drop, KeeperInv, Ages, chain, KeeperAssumption
<1>4. MinedTouch'
  <2> SUFFICES ASSUME pc' = "waiting", chosen' = Touch, relay'[awaiting'].st = "mined"
               PROVE  beatAge' <= seen'.age
    BY DEF MinedTouch
  <2>1. pc = "waiting" /\ chosen = Touch /\ awaiting' = awaiting /\ seen' = seen
        /\ awaiting \in Slots /\ relay[awaiting].job = chosen
    BY DEF Land, Drop, control, KeeperInv, Waiting
  <2>2. CASE s # awaiting
    <3>1. relay'[awaiting].st = relay[awaiting].st
      BY <1>1, <2>1, <2>2 DEF Outcome, KeeperInv, Waiting
    <3> QED
      BY <1>3, <2>1, <3>1 DEF KeeperInv, Ages, MinedTouch
  <2>3. CASE s = awaiting /\ Drop(s)
    BY <2>1, <2>3 DEF Drop, Outcome, KeeperInv, Waiting
  <2>4. CASE s = awaiting /\ Land(s) /\ Passes(j)
    <3>1. Execute(j) /\ j = Touch
      BY <2>1, <2>4 DEF Land
    <3>2. beatAge' = 0
      BY <3>1, ExecuteAges DEF KeeperInv
    <3> QED
      BY <2>1, <3>2 DEF KeeperInv, Ages
  <2>5. CASE s = awaiting /\ Land(s) /\ ~Passes(j)
    BY <2>1, <2>5 DEF Land, Outcome, KeeperInv, Waiting
  <2> QED
    BY <2>2, <2>3, <2>4, <2>5
<1> QED
  BY <1>2, <1>3, <1>4 DEF Land, Drop, KeeperInv, Ages, LatchIsTrue, control, memory,
     InFlightOnlyWhileWaiting, TouchIsNeverAheadOfTheBeat

(* The market, and everybody else who may run a job. *)
LEMMA Others ==
    ASSUME KeeperInv, KeeperAssumption,
           \/ Shift \/ AuctionEnds
           \/ \E j \in Jobs : Outsider(j)
           \/ \E p \in Pools : Trade(p)
           \/ \E c \in Constituents : Bond(c)
    PROVE  KeeperInv'
<1>1. /\ beatAge' \in 0..Far /\ beatAge' <= beatAge
      /\ phase = "Settled" => phase' = "Settled"
  BY ExecuteAges DEF Shift, AuctionEnds, Outsider, Trade, Bond, chain, KeeperInv, Ages
<1>2. UNCHANGED <<relay, control, memory>>
  BY DEF Shift, AuctionEnds, Outsider, Trade, Bond
<1>3. sky' \in Skies
  BY DEF Shift, AuctionEnds, Outsider, Trade, Bond, KeeperInv, Ages
<1> QED
  BY <1>1, <1>2, <1>3 DEF KeeperInv, Ages, Waiting, MinedTouch, LatchIsTrue, control, memory,
     InFlightOnlyWhileWaiting, TouchIsNeverAheadOfTheBeat

(* Time passes for every age at once. *)
LEMMA Ticking == ASSUME KeeperInv, KeeperAssumption, Tick PROVE KeeperInv'
<1>1. /\ touchAge \in 0..Far /\ beatAge \in 0..Far /\ seen.age \in 0..Far
      /\ beatAge <= touchAge
  BY DEF KeeperInv, Ages, TouchIsNeverAheadOfTheBeat
<1>2. /\ touchAge' \in 0..Far /\ beatAge' \in 0..Far /\ beatAge' <= touchAge'
  BY <1>1, OlderKeeps DEF Tick
<1>3. seen' \in [age : 0..Far, pot : Purses] /\ seen'.age = Older(seen.age)
  BY <1>1, OlderKeeps DEF Tick, KeeperInv, Ages
<1>4. beatAge <= seen.age => beatAge' <= seen'.age
  BY <1>1, <1>3, OlderKeeps DEF Tick
<1>5. \A f \in inFlight : /\ [f EXCEPT !.age = Older(@)] \in [job : Jobs \cup {NoJob}, age : 0..Far]
                           /\ [f EXCEPT !.age = Older(@)].job = f.job
  BY OlderKeeps DEF KeeperInv, Ages
<1>6. inFlight' \subseteq [job : Jobs \cup {NoJob}, age : 0..Far]
  BY <1>5 DEF Tick
<1>7. InFlightOnlyWhileWaiting'
  BY <1>5 DEF Tick, KeeperInv, InFlightOnlyWhileWaiting
<1> QED
  BY <1>2, <1>3, <1>4, <1>6, <1>7 DEF Tick, KeeperInv, Ages, Waiting, MinedTouch, LatchIsTrue,
     TouchIsNeverAheadOfTheBeat

LEMMA KeeperStep == ASSUME KeeperInv, KeeperAssumption, [Next]_vars PROVE KeeperInv'
<1>1. CASE UNCHANGED vars
  BY <1>1 DEF vars, chain, control, memory, KeeperInv, Ages, Waiting, MinedTouch, LatchIsTrue,
     InFlightOnlyWhileWaiting, TouchIsNeverAheadOfTheBeat
<1>2. CASE Next
  BY <1>2, ScanSteps, Posting, Answers, Dying, Landing, Others, Ticking DEF Next, Scan
<1> QED
  BY <1>1, <1>2

(* The inductive invariant of the keeper: ages in range, an awaited answer *)
(* about the posted job, and beliefs no fresher than the chain.            *)
THEOREM KeeperInvariant == ASSUME KeeperAssumption PROVE Spec => []KeeperInv
  BY KeeperInit, KeeperStep, PTL DEF Spec

(* The in-flight map holds a job only while the scan stands waiting for it *)
(* (runner.ts, send), so its time-out never decides anything.              *)
THEOREM InFlightIsTheWait ==
    ASSUME KeeperAssumption PROVE Spec => []InFlightOnlyWhileWaiting
<1>1. KeeperInv => InFlightOnlyWhileWaiting
  BY DEF KeeperInv
<1> QED
  BY <1>1, KeeperInvariant, PTL

(* lastTouchAt is never later than the heartbeat the gate stamped          *)
(* (runner.ts, the confirmed touch), whatever is lost, late or restarted.  *)
THEOREM TouchIsSeen == ASSUME KeeperAssumption PROVE Spec => []TouchIsNeverAheadOfTheBeat
<1>1. KeeperInv => TouchIsNeverAheadOfTheBeat
  BY DEF KeeperInv
<1> QED
  BY <1>1, KeeperInvariant, PTL

(* The reader forgets the launch only once the adapter has settled         *)
(* (reader.ts, genesisSettledLatch).                                       *)
THEOREM LatchSound == ASSUME KeeperAssumption PROVE Spec => []LatchIsTrue
<1>1. KeeperInv => LatchIsTrue
  BY DEF KeeperInv
<1> QED
  BY <1>1, KeeperInvariant, PTL

(***************************************************************************)
(* Types of the whole state.  What is posted is a job, so what the relayer *)
(* holds is one too.                                                       *)
(***************************************************************************)
Posted == pc \in {"posting", "waiting"} => chosen \in Jobs
Typed == TypeOK /\ Posted

LEMMA TypesInit == ASSUME KeeperAssumption, Init PROVE Typed
<1>1. Far \in Nat /\ 0 \in 0..Far /\ Far \in 0..Far /\ MaxFaults \in Nat /\ MaxEvents \in Nat
  <2>1. {MaxFaults, MaxEvents} \subseteq Nat
    BY DEF KeeperAssumption
  <2> QED
    BY <2>1, FarIsNat
<1>2. /\ stampAge \in [Pools -> 0..Far] /\ checkpointAge \in 0..Far /\ beatAge \in 0..Far
      /\ phase \in {"Bidding", "Ended", "Settled"}
      /\ fees \in [Pools -> {"none", "amps", "counter"}]
      /\ idle \subseteq Constituents /\ quota \in BOOLEAN /\ sky \in Skies
  BY <1>1 DEF Init
<1>3. relay \in [Slots -> [job : Jobs, st : {"queued", "mined", "reverted", "failed"},
                            put : SUBSET Pools] \cup {FreeSlot}]
  BY DEF Init
<1>4. /\ seen \in [age : 0..Far, pot : Purses] /\ due \subseteq Jobs
      /\ chosen \in Jobs \cup {NoJob} /\ awaiting \in Slots \cup {NoSlot}
  BY <1>1 DEF Init, Purses
<1>5. placed \subseteq Pools /\ inFlight \subseteq [job : Jobs, age : 0..Far] /\ touchAge \in 0..Far
  BY <1>1 DEF Init
<1>6. bountySim \in BOOLEAN /\ settledLatch \in BOOLEAN
  BY DEF Init
<1>7. faults \in 0..MaxFaults /\ events \in 0..MaxEvents
  BY <1>1 DEF Init
<1> QED
  BY <1>2, <1>3, <1>4, <1>5, <1>6, <1>7 DEF Init, Typed, TypeOK, Posted

ChainTypes ==
    /\ stampAge \in [Pools -> 0..Far] /\ checkpointAge \in 0..Far /\ beatAge \in 0..Far
    /\ phase \in {"Bidding", "Ended", "Settled"}
    /\ fees \in [Pools -> {"none", "amps", "counter"}]
    /\ idle \subseteq Constituents /\ quota \in BOOLEAN

LEMMA ExecuteTypes ==
    ASSUME NEW j, Execute(j), ChainTypes, KeeperAssumption PROVE ChainTypes'
<1>1. 0 \in 0..Far
  BY FarIsNat
<1>2. stampAge' \in [Pools -> 0..Far] /\ checkpointAge' \in 0..Far /\ beatAge' \in 0..Far
  BY <1>1 DEF Execute, ChainTypes
<1>3. fees' \in [Pools -> {"none", "amps", "counter"}] /\ idle' \subseteq Constituents
  BY DEF Execute, ChainTypes
<1>4. phase' \in {"Bidding", "Ended", "Settled"} /\ quota' \in BOOLEAN
  BY DEF Execute, ChainTypes
<1> QED
  BY <1>2, <1>3, <1>4 DEF ChainTypes

LEMMA TypesScan ==
    ASSUME Typed, KeeperAssumption,
           \/ Wake \/ ScanFails \/ EndScan \/ Start
           \/ \E failed : Read(failed)
           \/ \E j, answered : Decide(j, answered)
    PROVE  Typed'
<1>1. MaxFaults \in Nat /\ 0 \in 0..Far /\ sky.pot \in Purses
  BY FarIsNat, SkyPot DEF KeeperAssumption, Typed, TypeOK
<1>2. CASE Wake \/ ScanFails \/ EndScan \/ Start
  BY <1>1, <1>2 DEF Wake, ScanFails, EndScan, Start, Fault, Typed, TypeOK, Posted, chain, memory, Purses
<1>3. ASSUME NEW failed, Read(failed) PROVE Typed'
  <2>1. due' \subseteq Jobs
    BY <1>3 DEF Read, Screen
  <2>2. settledLatch' \in BOOLEAN
    BY <1>3 DEF Read, Latches
  <2>3. faults' \in 0..MaxFaults
    BY <1>1, <1>3 DEF Read, Fault, Typed, TypeOK
  <2>4. seen' \in [age : 0..Far, pot : Purses]
    BY <1>1, <1>3 DEF Read, Typed, TypeOK
  <2> QED
    BY <1>3, <2>1, <2>2, <2>3, <2>4 DEF Read, Typed, TypeOK, Posted, chain
<1>4. ASSUME NEW j, NEW answered, Decide(j, answered) PROVE Typed'
  <2>1. j \in Jobs
    BY <1>4 DEF Decide, Typed, TypeOK
  <2>2. Cold(j) \subseteq Pools
    BY <2>1, PathInPools DEF Cold
  <2>3. placed' \subseteq Pools
    BY <1>4, <2>2 DEF Decide, Typed, TypeOK
  <2>4. bountySim' \in BOOLEAN
    BY <1>4 DEF Decide, Typed, TypeOK
  <2>6. inFlight' \subseteq inFlight /\ faults' \in 0..MaxFaults
    BY <1>1, <1>4 DEF Decide, Forget, Fault, Typed, TypeOK
  <2>5. /\ pc' \in {"deciding", "posting"} /\ chosen' \in Jobs \cup {NoJob}
        /\ pc' = "posting" => chosen' \in Jobs
    BY <1>4, <2>1 DEF Decide, Typed, TypeOK
  <2> QED
    BY <1>4, <2>3, <2>4, <2>5, <2>6 DEF Decide, Typed, TypeOK, Posted, chain
<1> QED
  BY <1>2, <1>3, <1>4

LEMMA TypesRelay ==
    ASSUME Typed, KeeperInv, KeeperAssumption,
           \/ Confirm \/ GiveUp \/ Crash
           \/ \E s \in Slots : PostAccepted(s) \/ Land(s) \/ Drop(s)
           \/ \E s \in Slots \cup {NoSlot} : PostThrows(s)
    PROVE  Typed'
<1> DEFINE R == [job : Jobs, st : {"queued", "mined", "reverted", "failed"}, put : SUBSET Pools]
<1>1. MaxFaults \in Nat /\ Far \in 0..Far
  BY FarIsNat DEF KeeperAssumption
<1>2. relay \in [Slots -> R \cup {FreeSlot}]
  BY DEF Typed, TypeOK
<1>3. \A j \in Jobs : Queued(j) \in R
  BY DEF Queued
<1>4. CASE Confirm
  <2>1. awaiting \in Slots => relay[awaiting] \in R \cup {FreeSlot}
    BY <1>2
  <2>2. chosen \in Jobs /\ seen.age \in 0..Far
    BY <1>4 DEF Confirm, Typed, TypeOK, Posted
  <2>3. relay' \in [Slots -> R \cup {FreeSlot}]
    BY <1>2, <1>4 DEF Confirm, Release
  <2>4. placed' \subseteq Pools
    <3>1. awaiting \in Slots /\ relay[awaiting].put \subseteq Pools
      BY <1>4 DEF Confirm, KeeperInv, Waiting
    <3>2. Marks(chosen, relay[awaiting].put) \subseteq Pools
      <4>1. CASE chosen.kind = "rollout" \/ chosen.kind = "deployBonded"
        BY <2>2, <3>1, <4>1 DEF Marks, Jobs, Touch, Refresh, Settle, Compound, Rollout,
           DeployBonded, KeeperAssumption
      <4>2. CASE chosen.kind = "compound"
        BY <2>2, <3>1, <4>2 DEF Marks, Jobs, Touch, Refresh, Settle, Compound, Rollout, DeployBonded
      <4>3. CASE chosen.kind \notin {"compound", "rollout", "deployBonded"}
        BY <3>1, <4>3 DEF Marks
      <4> QED
        BY <4>1, <4>2, <4>3
    <3> QED
      BY <3>2, <1>4 DEF Confirm, Typed, TypeOK
  <2>5. touchAge' \in 0..Far /\ inFlight' \subseteq inFlight
    BY <1>4, <2>2 DEF Confirm, Forget, Typed, TypeOK
  <2> QED
    BY <1>4, <2>3, <2>4, <2>5 DEF Confirm, Typed, TypeOK, Posted, chain
<1>5. CASE GiveUp
  <2>1. relay' \in [Slots -> R \cup {FreeSlot}]
    BY <1>2, <1>5 DEF GiveUp, Release
  <2>2. inFlight' \subseteq inFlight /\ faults' \in 0..MaxFaults
    BY <1>1, <1>5 DEF GiveUp, Forget, Fault, Typed, TypeOK
  <2> QED
    BY <1>5, <2>1, <2>2 DEF GiveUp, Typed, TypeOK, Posted, chain
<1>6. CASE Crash
  <2>1. relay' \in [Slots -> R \cup {FreeSlot}]
    BY <1>2, <1>6 DEF Crash
  <2>2. seen' \in [age : 0..Far, pot : Purses] /\ faults' \in 0..MaxFaults
    BY <1>1, <1>6 DEF Crash, Fault, Typed, TypeOK, Purses
  <2>3. /\ pc' = "down" /\ due' \subseteq Jobs /\ chosen' \in Jobs \cup {NoJob}
        /\ awaiting' \in Slots \cup {NoSlot} /\ placed' \subseteq Pools
        /\ inFlight' \subseteq [job : Jobs, age : 0..Far] /\ touchAge' \in 0..Far
        /\ bountySim' \in BOOLEAN /\ settledLatch' \in BOOLEAN
    BY <1>1, <1>6 DEF Crash
  <2> QED
    BY <1>6, <2>1, <2>2, <2>3 DEF Crash, Typed, TypeOK, Posted, chain
<1>7. ASSUME NEW s \in Slots, PostAccepted(s) PROVE Typed'
  BY <1>2, <1>3, <1>7, FarIsNat DEF PostAccepted, Typed, TypeOK, Posted, chain
<1>8. ASSUME NEW s \in Slots \cup {NoSlot}, PostThrows(s) PROVE Typed'
  BY <1>1, <1>2, <1>3, <1>8 DEF PostThrows, Forget, Fault, Typed, TypeOK, Posted, chain
<1>9. ASSUME NEW s \in Slots, Drop(s) PROVE Typed'
  <2>1. relay[s] \in R
    BY <1>2, <1>9 DEF Drop, FreeSlot
  <2>2. relay' \in [Slots -> R \cup {FreeSlot}]
    BY <1>2, <1>9, <2>1 DEF Drop, Outcome
  <2> QED
    BY <1>1, <1>9, <2>2 DEF Drop, Fault, Typed, TypeOK, Posted, chain, control, memory
<1>10. ASSUME NEW s \in Slots, Land(s) PROVE Typed'
  <2> DEFINE j == relay[s].job
  <2>1. relay[s] \in R
    BY <1>2, <1>10 DEF Land, FreeSlot
  <2>2. Stamps(j) \subseteq Pools
    BY <2>1, PathInPools DEF Stamps
  <2>3. relay' \in [Slots -> R \cup {FreeSlot}]
    <3>1. ASSUME NEW st \in {"mined", "reverted"}, NEW put \in SUBSET Pools, Outcome(s, st, put)
          PROVE  relay' \in [Slots -> R \cup {FreeSlot}]
      BY <1>2, <2>1, <3>1 DEF Outcome
    <3> QED
      BY <1>10, <2>2, <3>1 DEF Land
  <2>4. ChainTypes'
    BY <1>10, <2>1, ExecuteTypes DEF Land, Typed, TypeOK, ChainTypes, chain
  <2> QED
    BY <1>10, <2>3, <2>4 DEF Land, Typed, TypeOK, ChainTypes, Posted, control, memory
<1> QED
  BY <1>4, <1>5, <1>6, <1>7, <1>8, <1>9, <1>10

LEMMA TypesMarket ==
    ASSUME Typed, KeeperAssumption,
           \/ Shift \/ AuctionEnds \/ Tick
           \/ \E j \in Jobs : Outsider(j)
           \/ \E p \in Pools : Trade(p)
           \/ \E c \in Constituents : Bond(c)
    PROVE  Typed'
<1>1. MaxEvents \in Nat /\ 0 \in 0..Far
  BY FarIsNat DEF KeeperAssumption
<1>2. CASE Shift
  BY <1>1, <1>2 DEF Shift, Event, Typed, TypeOK, Posted, chain, control, memory
<1>3. CASE AuctionEnds
  BY <1>3 DEF AuctionEnds, Typed, TypeOK, Posted, control, memory
<1>4. CASE Tick
  <2>1. /\ stampAge' \in [Pools -> 0..Far] /\ checkpointAge' \in 0..Far /\ beatAge' \in 0..Far
        /\ touchAge' \in 0..Far
    BY <1>4, OlderKeeps DEF Tick, Typed, TypeOK
  <2>2. seen' \in [age : 0..Far, pot : Purses]
    BY <1>4, OlderKeeps DEF Tick, Typed, TypeOK
  <2>3. inFlight' \subseteq [job : Jobs, age : 0..Far]
    <3>1. \A f \in inFlight : [f EXCEPT !.age = Older(@)] \in [job : Jobs, age : 0..Far]
      BY OlderKeeps DEF Typed, TypeOK
    <3> QED
      BY <1>4, <3>1 DEF Tick
  <2> QED
    BY <1>4, <2>1, <2>2, <2>3 DEF Tick, Typed, TypeOK, Posted
<1>5. ASSUME NEW j \in Jobs, Outsider(j) PROVE Typed'
  <2>1. ChainTypes'
    BY <1>5, ExecuteTypes DEF Outsider, Typed, TypeOK, ChainTypes
  <2> QED
    BY <1>1, <1>5, <2>1 DEF Outsider, Event, Typed, TypeOK, ChainTypes, Posted, control, memory
<1>6. ASSUME NEW p \in Pools, Trade(p) PROVE Typed'
  BY <1>1, <1>6 DEF Trade, Event, Typed, TypeOK, Posted, control, memory
<1>7. ASSUME NEW c \in Constituents, Bond(c) PROVE Typed'
  BY <1>1, <1>7 DEF Bond, Event, Typed, TypeOK, Posted, control, memory
<1> QED
  BY <1>2, <1>3, <1>4, <1>5, <1>6, <1>7

(* TypeOK, for every value of the constants: what the keeper and the       *)
(* relayer hold are jobs, and every age stays within the saturated clock.  *)
THEOREM KeeperTypes == ASSUME KeeperAssumption PROVE Spec => []TypeOK
<1>1. Typed /\ KeeperInv /\ [Next]_vars => Typed'
  <2>1. Typed /\ UNCHANGED vars => Typed'
    BY DEF vars, chain, control, memory, Typed, TypeOK, Posted
  <2> QED
    BY <2>1, TypesScan, TypesRelay, TypesMarket DEF Next, Scan
<1>2. Typed => TypeOK
  BY DEF Typed
<1> QED
  BY <1>1, <1>2, TypesInit, KeeperInvariant, PTL DEF Spec
=============================================================================
