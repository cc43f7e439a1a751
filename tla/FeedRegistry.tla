---------------------------- MODULE FeedRegistry ----------------------------
(***************************************************************************)
(* One price feed of contracts/src/oracle/FeedRegistry.sol: the answer a    *)
(* caller reads is the aggregator's live round, unless that round jumps     *)
(* from a level on record and nothing has confirmed it yet.  What is on     *)
(* record is the answer last latched by refresh(), which anyone may call    *)
(* and nobody has to, or else the aggregator's own previous rounds.         *)
(***************************************************************************)
EXTENDS Clock, Integers, Sequences

CONSTANTS
    MaxRounds,      \* bound of a series
    Answers,        \* what the aggregator may publish; 0 is an unusable answer
    BPS, JumpBps,   \* Constants.ANSWER_JUMP_BPS
    Heartbeat,      \* heartbeat of the feed
    MaxAge,         \* how old an answer may be outside the CLOSED session
    Confirm         \* confirmSeconds

ASSUME FeedAssumption ==
    /\ MaxTime \in Nat /\ MaxRounds \in Nat \ {0} /\ Answers \subseteq Nat
    /\ BPS \in Nat \ {0} /\ JumpBps \in Nat
    /\ Heartbeat \in Nat /\ MaxAge \in Nat
    /\ Confirm \in Nat \ {0}     \* CONFIRM_SECONDS_MIN

VARIABLES
    rounds,         \* the aggregator's series; a round's id is its index
    alive,          \* whether the aggregator answers
    closed,         \* whether the session is CLOSED
    accepted,       \* _accepted[token]
    pending         \* _pending[token]

market   == <<rounds, alive, closed>>
feedVars == <<now, market, accepted, pending>>

Round    == [answer : Nat, at : Nat]
Accepted == [answer : Nat, at : Nat, round : Nat]
Pending  == [answer : Nat, seen : Nat, round : Nat]

NoAnswer  == [answer |-> 0, at |-> 0, round |-> 0]
NoPending == [answer |-> 0, seen |-> 0, round |-> 0]

FeedTypeOK ==
    /\ now \in Nat /\ alive \in BOOLEAN /\ closed \in BOOLEAN
    /\ rounds \in Seq(Round) /\ rounds # <<>>
    /\ accepted \in Accepted /\ accepted.round <= Len(rounds)
    /\ pending \in Pending /\ pending.round <= Len(rounds)

FeedInit ==
    /\ now = 0 /\ alive \in BOOLEAN /\ closed = FALSE
    /\ \E a \in Answers : rounds = <<[answer |-> a, at |-> 0]>>
    /\ accepted = IF alive /\ rounds[1].answer # 0
                  THEN [answer |-> rounds[1].answer, at |-> 0, round |-> 1] ELSE NoAnswer
    /\ pending = NoPending

---------------------------------------------------------------------------
(* The two-confirmation rule.                                               *)

Live      == Len(rounds)
Candidate == rounds[Live]

(* _probe and _probeRound: OK.                                              *)
Usable(id) == alive /\ id \in 1 .. Live /\ rounds[id].answer # 0

Apart(a, b) == IF a > b THEN a - b ELSE b - a

(* _agrees: relative to the base, with which zero never agrees.             *)
Agrees(base, answer) == base # 0 /\ Apart(base, answer) * BPS <= JumpBps * base

Within(earlier, later) == earlier <= later /\ later - earlier <= Heartbeat

(* Mutant: an aged record confirms any answer.                              *)
JumpConfirmed_AnyLevel ==
    pending.round # 0 /\ (pending.round < Live \/ now >= pending.seen + Confirm)

(* _jumpConfirmed: a later round or the time passed, at the level recorded. *)
JumpConfirmed ==
    /\ pending.round # 0
    /\ pending.round < Live \/ now >= pending.seen + Confirm
    /\ Agrees(pending.answer, Candidate.answer)

(* Whether the latch path decides.                                          *)
OnLatch == accepted.answer # 0 /\ Within(accepted.at, Candidate.at)

HeldByLatch == ~ Agrees(accepted.answer, Candidate.answer) /\ ~ JumpConfirmed

(* The stateless path: the aggregator's own history.                        *)
HeldByHistory ==
    /\ Usable(Live - 1) /\ Within(rounds[Live - 1].at, Candidate.at)
    /\ ~ Agrees(rounds[Live - 1].answer, Candidate.answer)
    /\ now < Candidate.at + Confirm
    /\ ~ (Usable(Live - 2) /\ Agrees(rounds[Live - 2].answer, Candidate.answer))

(* _evaluate.                                                               *)
HeldBack ==
    /\ Usable(Live)
    /\ ~ (accepted.answer # 0 /\ accepted.round = Live)
    /\ IF OnLatch THEN HeldByLatch ELSE HeldByHistory

Level == IF OnLatch THEN accepted.answer ELSE rounds[Live - 1].answer

Lower(a, b) == IF a <= b THEN a ELSE b

(* _read.                                                                   *)
Answer ==
    IF ~ Usable(Live) THEN accepted.answer
    ELSE IF HeldBack THEN Lower(Level, Candidate.answer)
    ELSE Candidate.answer

UpdatedAt == IF Usable(Live) THEN Candidate.at ELSE accepted.at

Fresh == Answer # 0 /\ ~ HeldBack /\ (closed \/ now - UpdatedAt <= MaxAge)

---------------------------------------------------------------------------

(* What refresh writes.                                                     *)
Recorded == [answer |-> Candidate.answer, seen |-> now, round |-> Live]

Latched == [answer |-> Candidate.answer, at |-> Candidate.at, round |-> Live]

(* Mutant: a held round is latched by the second refresh that sees it.      *)
Refresh_Again ==
    /\ Usable(Live)
    /\ IF HeldBack /\ pending.round # Live
       THEN pending' = (IF OnLatch THEN Recorded ELSE pending) /\ UNCHANGED accepted
       ELSE accepted' = Latched /\ pending' = NoPending
    /\ UNCHANGED <<now, market>>

(* refresh: records a jump held against the latch once, latches the rest.   *)
Refresh ==
    /\ Usable(Live)
    /\ \/ /\ HeldBack /\ OnLatch /\ pending.round # Live
          /\ pending' = Recorded
          /\ UNCHANGED accepted
       \/ /\ ~ HeldBack /\ accepted.round # Live
          /\ accepted' = Latched
          /\ pending' = NoPending
    /\ UNCHANGED <<now, market>>

(* The timelock points the feed at another aggregator's series.             *)
SetFeed(answer) ==
    /\ Len(rounds) > 1
    /\ rounds' = <<[answer |-> answer, at |-> now]>>
    /\ accepted' = IF alive /\ answer # 0 THEN [answer |-> answer, at |-> now, round |-> 1]
                   ELSE NoAnswer
    /\ pending' = NoPending
    /\ UNCHANGED <<now, alive, closed>>

(* The aggregator publishes, stops or resumes; the session changes.         *)
Publish(answer) ==
    /\ alive /\ Len(rounds) < MaxRounds
    /\ rounds' = Append(rounds, [answer |-> answer, at |-> now])
    /\ UNCHANGED <<now, alive, closed, accepted, pending>>

Outage    == alive' = ~ alive /\ UNCHANGED <<now, rounds, closed, accepted, pending>>
OpenClose == closed' = ~ closed /\ UNCHANGED <<now, rounds, alive, accepted, pending>>

FeedTick ==
    /\ now < MaxTime
    /\ now' = now + 1
    /\ UNCHANGED <<market, accepted, pending>>

FeedNext ==
    \/ Refresh
    \/ \E a \in Answers : SetFeed(a) \/ Publish(a)
    \/ Outage \/ OpenClose \/ FeedTick

FeedSpec == FeedInit /\ [][FeedNext]_feedVars

---------------------------------------------------------------------------
(* Properties.                                                              *)

(* A live answer is reported fresh only with something behind it besides    *)
(* the round itself: no recent round before it, an earlier round at its     *)
(* level, or the confirmation time.  However refreshes, outages and other   *)
(* jumps fall in between, a spike of one round is never acted on            *)
(* (FeedRegistry.sol, _evaluate and _jumpConfirmed).                        *)
FreshIsCorroborated ==
    Fresh /\ Usable(Live) =>
        \/ Live = 1 \/ rounds[Live - 1].answer = 0
        \/ ~ Within(rounds[Live - 1].at, Candidate.at)
        \/ \E id \in 1 .. Live - 1 : Agrees(rounds[id].answer, Candidate.answer)
        \/ now >= Candidate.at + Confirm

(* Whoever calls refresh(), and whenever, moves no price: what was reported *)
(* before the call is reported after it, so nobody chooses a price by       *)
(* choosing the moment of a latch.                                          *)
RefreshMovesNoPrice ==
    [][ UNCHANGED <<now, market>> =>
            Answer' = Answer /\ UpdatedAt' = UpdatedAt /\ Fresh' = Fresh ]_feedVars
=============================================================================
