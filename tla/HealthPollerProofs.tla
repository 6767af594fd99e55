-------------------------- MODULE HealthPollerProofs --------------------------
(***************************************************************************)
(* Proofs about HealthPoller, for every interval and every timeout.        *)
(***************************************************************************)
EXTENDS HealthPoller, TLAPS

\* What time has passed since the last poll is what the poll has taken so far,
\* or, if no tick is pending, no more than what has passed since the last tick.
PollClock ==
  /\ poller = "polling" => sincePoll = age
  /\ ~tick => sincePoll <= sinceTick

\* What is counted after a signal.  The one poll that may follow it has taken the
\* only tick, and as no time passes there will be no other.
SignalClock ==
  /\ sinceSignal = 0
  /\ ~signalled => pollsAfter = 0
  /\ pollsAfter <= 1
  /\ pollsAfter = 1 => ~tick

PollerInv == PollerTypeOK /\ PollClock /\ PolledInTime /\ SignalClock

-----------------------------------------------------------------------------

\* The ticker starts over when an interval is full (time.NewTicker).
LEMMA TickerWraps ==
  ASSUME NEW t \in 0..(Interval - 1)
  PROVE  (t + 1) % Interval = IF t + 1 = Interval THEN 0 ELSE t + 1
  BY DurationAssumption

LEMMA PollerStarts == PollerInit => PollerInv
<1> SUFFICES ASSUME PollerInit PROVE PollerInv
  OBVIOUS
<1>1. tick \in BOOLEAN /\ signalled \in BOOLEAN /\ ~tick
  BY DEF PollerInit
<1> QED
  BY <1>1, DurationAssumption
  DEF PollerInit, PollerInv, PollerTypeOK, PollClock, PolledInTime, SignalClock, Longest

LEMMA PollerSteps == PollerInv /\ [PollerNext]_pollerVars => PollerInv'
<1> SUFFICES ASSUME PollerInv, [PollerNext]_pollerVars PROVE PollerInv'
  OBVIOUS
<1> USE DurationAssumption
        DEF PollerInv, PollerTypeOK, PollClock, PolledInTime, SignalClock, Longest
<1>1. CASE StartPoll
  <2>1. tick' \in BOOLEAN /\ ~tick'
    BY <1>1 DEF StartPoll
  <2> QED BY <1>1, <2>1 DEF StartPoll
<1>2. CASE Stop
  BY <1>2 DEF Stop
<1>3. CASE PollReturns
  BY <1>3 DEF PollReturns
<1>4. CASE Signal
  BY <1>4 DEF Signal
<1>5. CASE TimePasses
  <2>1. sinceTick' = IF sinceTick + 1 = Interval THEN 0 ELSE sinceTick + 1
    BY <1>5, TickerWraps DEF TimePasses
  <2>2. /\ poller \in {"select", "polling"}
        /\ poller = "select" => ~tick /\ ~signalled
        /\ poller = "polling" => age < Timeout /\ ~signalled
    BY <1>5 DEF TimePasses, MustAct
  <2>3. PollerTypeOK'
    BY <1>5, <2>1, <2>2 DEF TimePasses
  <2>4. PollClock'
    <3>1. ~tick' => ~tick /\ sinceTick' # 0
      BY <1>5 DEF TimePasses
    <3> QED BY <1>5, <2>1, <2>2, <3>1 DEF TimePasses
  <2>5. PolledInTime'
    BY <1>5, <2>1, <2>2 DEF TimePasses
  <2>6. SignalClock'
    BY <1>5, <2>1, <2>2 DEF TimePasses
  <2> QED BY <2>3, <2>4, <2>5, <2>6
<1>6. CASE UNCHANGED pollerVars
  BY <1>6 DEF pollerVars
<1> QED BY <1>1, <1>2, <1>3, <1>4, <1>5, <1>6 DEF PollerNext

LEMMA PollerInvariant == PollerSpec => []PollerInv
  BY PollerStarts, PollerSteps, PTL DEF PollerSpec

-----------------------------------------------------------------------------

\* Type correctness of the poller: in particular no poll outlives its timeout
\* (images/poller/main.go, the context of each poll).
THEOREM PollerTypeCorrect == PollerSpec => []PollerTypeOK
<1>1. PollerInv => PollerTypeOK
  BY DEF PollerInv
<1> QED BY <1>1, PollerInvariant, PTL

\* Whatever the interval and the timeout are, the time between two polls is at
\* most the longer of them (images/poller/main.go, ticker and timeout).
THEOREM PollsInTime == PollerSpec => []PolledInTime
<1>1. PollerInv => PolledInTime
  BY DEF PollerInv
<1> QED BY <1>1, PollerInvariant, PTL

\* No time passes between a signal and the end of the program, and at most one
\* poll is started between them (images/poller/main.go, the loop's select).
THEOREM SignalStopsAtOnce == PollerSpec => []StopsAtOnce
<1>1. PollerInv => StopsAtOnce
  BY DEF PollerInv, SignalClock, StopsAtOnce
<1> QED BY <1>1, PollerInvariant, PTL
=============================================================================
