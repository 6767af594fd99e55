----------------------------- MODULE HealthPoller -----------------------------
(***************************************************************************)
(* images/poller/main.go: a loop that polls the cluster's health at each   *)
(* tick of a ticker until it is told to stop.  Time passes in units, and   *)
(* only when the program has nothing to do at once.  The ticker's channel  *)
(* holds one tick; a tick that finds it full is dropped.                   *)
(***************************************************************************)
EXTENDS Naturals

CONSTANTS
  Interval, \* POLL_INTERVAL, in units
  Timeout   \* of a poll, ten seconds in the code

ASSUME DurationAssumption == Interval \in Nat \ {0} /\ Timeout \in Nat \ {0}

VARIABLES
  poller,      \* "select", "polling" or "stopped"
  tick,        \* a tick is in the channel
  sinceTick,   \* time since the ticker last ticked
  age,         \* time the poll has taken so far
  sincePoll,   \* time since a poll was last started, or the program
  signalled,   \* the context is cancelled
  sinceSignal, \* time since it was
  pollsAfter   \* polls started since it was

pollerVars == <<poller, tick, sinceTick, age, sincePoll, signalled, sinceSignal,
                pollsAfter>>

PollerInit ==
  /\ poller = "select" /\ tick = FALSE
  /\ sinceTick = 0 /\ age = 0 /\ sincePoll = 0
  /\ signalled = FALSE /\ sinceSignal = 0 /\ pollsAfter = 0

\* A select with both channels ready takes either.
StartPoll ==
  /\ poller = "select" /\ tick
  /\ poller' = "polling" /\ tick' = FALSE
  /\ age' = 0 /\ sincePoll' = 0
  /\ pollsAfter' = IF signalled THEN pollsAfter + 1 ELSE pollsAfter
  /\ UNCHANGED <<sinceTick, signalled, sinceSignal>>

Stop ==
  /\ poller = "select" /\ signalled
  /\ poller' = "stopped"
  /\ UNCHANGED <<tick, sinceTick, age, sincePoll, signalled, sinceSignal, pollsAfter>>

\* Seeded fault: an error ends the loop.
MutPollReturns ==
  /\ poller = "polling"
  /\ poller' \in {"select", "stopped"} /\ age' = 0
  /\ UNCHANGED <<tick, sinceTick, sincePoll, signalled, sinceSignal, pollsAfter>>

\* The cluster answers, or the poll's context ends: by its timeout, or because
\* the signal has cancelled the context it is made from.
PollReturns ==
  /\ poller = "polling"
  /\ poller' = "select" /\ age' = 0
  /\ UNCHANGED <<tick, sinceTick, sincePoll, signalled, sinceSignal, pollsAfter>>

Signal ==
  /\ ~signalled /\ poller # "stopped"
  /\ signalled' = TRUE
  /\ UNCHANGED <<poller, tick, sinceTick, age, sincePoll, sinceSignal, pollsAfter>>

\* Seeded fault: the poll's context has no timeout.
MutNoTimeout ==
  \/ poller = "select" /\ (tick \/ signalled)
  \/ poller = "polling" /\ signalled

\* Seeded fault: the poll's context is made from no other.
MutMustAct ==
  \/ poller = "select" /\ (tick \/ signalled)
  \/ poller = "polling" /\ age = Timeout

\* Something happens before any more time passes.
MustAct ==
  \/ poller = "select" /\ (tick \/ signalled)
  \/ poller = "polling" /\ (age = Timeout \/ signalled)

\* Seeded fault: a poll has the ticker start over.
MutTimePasses ==
  /\ ~MustAct /\ poller # "stopped"
  /\ IF poller = "polling"
       THEN age' = age + 1 /\ sinceTick' = 0 /\ UNCHANGED tick
       ELSE /\ sinceTick' = (sinceTick + 1) % Interval
            /\ tick' = (tick \/ sinceTick' = 0)
            /\ UNCHANGED age
  /\ sincePoll' = sincePoll + 1
  /\ sinceSignal' = IF signalled THEN sinceSignal + 1 ELSE sinceSignal
  /\ UNCHANGED <<poller, signalled, pollsAfter>>

TimePasses ==
  /\ ~MustAct /\ poller # "stopped"
  /\ sinceTick' = (sinceTick + 1) % Interval
  /\ tick' = (tick \/ sinceTick' = 0)
  /\ age' = IF poller = "polling" THEN age + 1 ELSE age
  /\ sincePoll' = sincePoll + 1
  /\ sinceSignal' = IF signalled THEN sinceSignal + 1 ELSE sinceSignal
  /\ UNCHANGED <<poller, signalled, pollsAfter>>

PollerNext == StartPoll \/ Stop \/ PollReturns \/ Signal \/ TimePasses

PollerSpec == PollerInit /\ [][PollerNext]_pollerVars

\* The program runs on; nobody has to stop it.
PollerFairness ==
  WF_pollerVars(StartPoll \/ Stop) /\ WF_pollerVars(PollReturns) /\ WF_pollerVars(TimePasses)

-----------------------------------------------------------------------------
(* Properties.                                                             *)

Longest == IF Interval > Timeout THEN Interval ELSE Timeout

\* Every variable has its type, and no poll takes longer than it may.
PollerTypeOK ==
  /\ poller \in {"select", "polling", "stopped"}
  /\ tick \in BOOLEAN /\ signalled \in BOOLEAN
  /\ sinceTick \in 0..(Interval - 1)
  /\ age \in 0..Timeout
  /\ sincePoll \in Nat /\ sinceSignal \in Nat /\ pollsAfter \in Nat

\* The cluster is polled at least once in the longer of interval and timeout,
\* although a slow poll makes the ticker drop ticks: the one tick kept starts the
\* next poll at once.
PolledInTime == sincePoll <= Longest

\* A signal stops the program at once, also in the middle of a poll, and lets it
\* start at most one more.
StopsAtOnce == signalled => sinceSignal = 0 /\ pollsAfter <= 1

\* The program stops after a signal, and until then polls again and again.
PollsUntilStopped ==
  /\ signalled ~> poller = "stopped"
  /\ []<>(poller = "polling" \/ signalled)
=============================================================================
