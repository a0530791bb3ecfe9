------------------------------- MODULE Backoff -------------------------------
(***************************************************************************)
(* Backoff of internal/elastic/client.go: how long sendWithRetry waits     *)
(* before it sends again.  The doubling loop is a step per iteration, on   *)
(* int64 durations: Wrap is what the machine makes of a result that does   *)
(* not fit.  A call passes any arguments; sendWithRetry passes the         *)
(* configured durations and its attempt (module Metrics).                  *)
(***************************************************************************)
EXTENDS Integers

CONSTANTS MaxInt,    \* the largest int64, a longest duration
          Duration,  \* the durations callers pass
          Attempt    \* the attempts callers pass

Int64 == (-MaxInt - 1)..MaxInt

ASSUME BackoffAssumption ==
  /\ MaxInt \in Nat \ {0}
  /\ Duration \subseteq Int64
  /\ Attempt \subseteq Int64

VARIABLES minimum, maximum, attempt,  \* the arguments, after the first tests
          i,        \* iterations of the loop
          backoff,  \* the local of that name
          delay,    \* the result of the last call
          at        \* "idle", "loop", "jitter"

backoffVars == <<minimum, maximum, attempt, i, backoff, delay, at>>

BackoffInit ==
  /\ minimum = 1 /\ maximum = 1 /\ attempt = 0 /\ i = 0
  /\ backoff = 1 /\ delay = 1
  /\ at = "idle"

Wrap(n) == IF n > MaxInt THEN n - 2 * (MaxInt + 1) ELSE n

\* Nonsensical arguments are replaced first; 1 is a nanosecond.
Call(min, max, n) ==
  /\ at = "idle"
  /\ minimum' = IF min <= 0 THEN 1 ELSE min
  /\ maximum' = IF max < minimum' THEN minimum' ELSE max
  /\ attempt' = IF n < 0 THEN 0 ELSE n
  /\ backoff' = minimum' /\ i' = 0
  /\ at' = "loop"
  /\ UNCHANGED delay

\* A slip: the next doubling is not looked at.
AtMaximum == backoff >= maximum

\* Another doubling would pass the maximum.
Saturated == backoff >= maximum \/ backoff > maximum \div 2

Double ==
  /\ at = "loop" /\ i < attempt /\ ~Saturated
  /\ backoff' = Wrap(2 * backoff) /\ i' = i + 1
  /\ UNCHANGED <<minimum, maximum, attempt, delay, at>>

\* A slip: the loop is not left.
SaturateAgain ==
  /\ at = "loop" /\ i < attempt /\ Saturated
  /\ backoff' = maximum
  /\ UNCHANGED <<minimum, maximum, attempt, i, delay, at>>

\* break.
Saturate ==
  /\ at = "loop" /\ i < attempt /\ Saturated
  /\ backoff' = maximum /\ at' = "jitter"
  /\ UNCHANGED <<minimum, maximum, attempt, i, delay>>

LoopEnds ==
  /\ at = "loop" /\ i = attempt
  /\ at' = "jitter"
  /\ UNCHANGED <<minimum, maximum, attempt, i, backoff, delay>>

jitterLimit == backoff \div 4

\* Up to a quarter more, unless there is no quarter.
Jitter ==
  /\ at = "jitter"
  /\ \/ jitterLimit <= 0 /\ delay' = backoff
     \/ \E jitter \in 0..(jitterLimit - 1) : delay' = Wrap(backoff + jitter)
  /\ at' = "idle"
  /\ UNCHANGED <<minimum, maximum, attempt, i, backoff>>

BackoffStep == Double \/ Saturate \/ LoopEnds \/ Jitter

BackoffNext ==
  BackoffStep \/ \E min, max \in Duration, n \in Attempt : Call(min, max, n)

BackoffSpec == BackoffInit /\ [][BackoffNext]_backoffVars

-----------------------------------------------------------------------------
\* Type invariant.
BackoffTypeOK ==
  /\ {minimum, maximum, backoff, delay} \subseteq Int64
  /\ attempt \in 0..MaxInt /\ i \in 0..attempt
  /\ at \in {"idle", "loop", "jitter"}

\* The last sum cannot overflow, the jitter being less than a quarter: m is not
\* beyond four fifths of all durations.
Room(m) == m + m \div 4 <= MaxInt + 1

\* However many attempts, no doubling overflows or passes the maximum, and the
\* delay is never less than the backoff nor a quarter more than it.
DelayBounded ==
  /\ 1 <= minimum /\ minimum <= backoff /\ backoff <= maximum
  /\ at = "idle" /\ Room(maximum) =>
       /\ backoff <= delay /\ 4 * (delay - backoff) <= backoff
       /\ delay <= maximum + maximum \div 4
=============================================================================
