------------------------------- MODULE Metrics -------------------------------
(***************************************************************************)
(* internal/metrics/metrics.go beside the goroutine that updates it: one   *)
(* flush after the other (batcher.go flush and sendWithRetry, here for     *)
(* their metrics and their duration; module Batcher has the events), while *)
(* the metrics server renders a page.  Every value is an atomic of its     *)
(* own: an observation is several additions, a page many loads, and they   *)
(* interleave.  The counters of admission are in HttpApi.                  *)
(***************************************************************************)
EXTENDS Backoff, Sequences, FiniteSetsExt

CONSTANTS RetryMinBackoff, RetryMaxBackoff,  \* config, durations
          MaxRetries,      \* config MaxRetries
          MaxBatchSize,    \* config MaxBatchSize
          BatchBounds,     \* bucket bounds of the batch size
          LatencyBounds,   \* bucket bounds of the flush latency
          Milli,           \* units of time in a millisecond
          MaxSend,         \* bound: time of one bulk request
          MaxFlushes       \* bound: flushes in one behaviour

\* config.go:185-193; the bounds ascend.
Ascends(bounds) == \A k \in 2..Len(bounds) : bounds[k - 1] < bounds[k]

ASSUME MetricsAssumption ==
  /\ {RetryMinBackoff, RetryMaxBackoff} \subseteq Duration
  /\ 0 < RetryMinBackoff /\ RetryMinBackoff <= RetryMaxBackoff
  /\ 0..MaxRetries \subseteq Attempt
  /\ MaxRetries \in Nat /\ {MaxBatchSize, Milli, MaxFlushes} \subseteq Nat \ {0}
  /\ MaxSend \in Nat
  /\ {BatchBounds, LatencyBounds} \subseteq Seq(Int)
  /\ Ascends(BatchBounds) /\ Ascends(LatencyBounds)

VARIABLES
  flushes, flushFailures, retryAttempts,  \* counters
  hist,      \* the two histograms: count, sum, items
  fpc,       \* where the flush is
  add,       \* the additions the running observation has made
  try,       \* attempt of sendWithRetry
  elapsed,   \* time since started
  value,     \* what is being observed
  given,     \* history: per histogram, how many values each bucket covers and their sum
  writing,   \* the histogram being rendered
  lines      \* its lines so far

flushVars == <<fpc, add, value, try, elapsed, given>>
counters == <<flushes, flushFailures, retryAttempts>>
vars == <<backoffVars, counters, hist, flushVars, writing, lines>>

Histogram == {"batch_size", "flush_latency"}
Bounds == [h \in Histogram |-> IF h = "batch_size" THEN BatchBounds ELSE LatencyBounds]

newHistogram(bounds) == [count |-> 0, sum |-> 0, items |-> [k \in 1..Len(bounds) |-> 0]]

Init ==
  /\ BackoffInit
  /\ flushes = 0 /\ flushFailures = 0 /\ retryAttempts = 0
  /\ hist = [h \in Histogram |-> newHistogram(Bounds[h])]
  /\ fpc = "idle" /\ add = 0 /\ value = 0 /\ try = 0 /\ elapsed = 0
  /\ given = hist
  /\ writing = "batch_size" /\ lines = <<>>

-----------------------------------------------------------------------------
\* observe: count, sum, then the buckets from the lowest up.  A value that is
\* not above a bound is in its bucket.
In(h, v, k) == v <= Bounds[h][k]
One(b) == IF b THEN 1 ELSE 0

\* What sum.Add is given, in thousandths.  A latency is first a float64 number
\* of seconds: times 1000 it may fall just below a whole number of milliseconds.
Thousandths(h) ==
  IF h = "batch_size" THEN {1000 * value}
  ELSE {n \in {value \div Milli, value \div Milli - 1} :
          n = value \div Milli \/ (value > 0 /\ value % Milli = 0)}

Additions(h) == 2 + Len(Bounds[h])

AddCount(h) == {[hist[h] EXCEPT !.count = @ + 1]}
AddSum(h) == {[hist[h] EXCEPT !.sum = @ + n] : n \in Thousandths(h)}
AddItem(h, k) == {[hist[h] EXCEPT !.items[k] = @ + One(In(h, value, k))]}

\* A slip: the count comes last.
AddedCountLast(h, n) ==
  CASE n = 1 -> AddSum(h)
    [] n = Additions(h) -> AddCount(h)
    [] OTHER -> AddItem(h, n - 1)

\* What the n-th addition of an observation may make of histogram h.
Added(h, n) ==
  CASE n = 1 -> AddCount(h)
    [] n = 2 -> AddSum(h)
    [] OTHER -> AddItem(h, n - 2)

\* The value v is to be observed.
Give(h, v) ==
  /\ value' = v
  /\ given' = [given EXCEPT ![h] =
                 [count |-> @.count + 1, sum |-> @.sum + v,
                  items |-> [k \in DOMAIN @.items |-> @.items[k] + One(In(h, v, k))]]]

-----------------------------------------------------------------------------
\* The flushes.
KeepPage == UNCHANGED <<writing, lines>>

\* flush has a batch of n events: IncFlush.
FlushBegins(n) ==
  /\ fpc = "idle" /\ flushes < MaxFlushes
  /\ flushes' = flushes + 1
  /\ Give("batch_size", n)
  /\ fpc' = "batch"
  /\ UNCHANGED <<backoffVars, flushFailures, retryAttempts, hist, add, try, elapsed>>
  /\ KeepPage

\* One addition of ObserveBatchSize or ObserveFlushLatency.
Observe(h, here, next) ==
  /\ fpc = here
  /\ \E to \in Added(h, add + 1) : hist' = [hist EXCEPT ![h] = to]
  /\ IF add + 1 < Additions(h) THEN add' = add + 1 /\ UNCHANGED <<value, fpc>>
                               ELSE add' = 0 /\ value' = 0 /\ fpc' = next
  /\ UNCHANGED <<backoffVars, counters, try, elapsed, given>> /\ KeepPage

\* time.Since(started), for the latency histogram; nothing reads the clock again.
Ends(since) ==
  /\ fpc' = "latency"
  /\ Give("flush_latency", since)
  /\ elapsed' = 0 /\ try' = 0

\* A bulk request that takes t: it settles every event, or it is refused, or
\* there is something to send again, which the last attempt leaves undone.
Send(t) ==
  /\ fpc = "send"
  /\ \/ Ends(elapsed + t)
     \/ fpc' = "failed" /\ elapsed' = elapsed + t /\ UNCHANGED <<value, given, try>>
     \/ /\ try < MaxRetries
        /\ fpc' = "retry" /\ elapsed' = elapsed + t /\ UNCHANGED <<value, given, try>>
  /\ UNCHANGED <<backoffVars, counters, hist, add>> /\ KeepPage

Backs(n) ==
  /\ fpc = "retry"
  /\ retryAttempts' = retryAttempts + 1
  /\ Call(RetryMinBackoff, RetryMaxBackoff, n)
  /\ fpc' = "backoff"
  /\ UNCHANGED <<flushes, flushFailures, hist, add, try, elapsed, value, given>> /\ KeepPage

\* A slip: attempts are counted from one.
IncRetryAttemptFromOne == Backs(try + 1)

\* IncRetryAttempt and the call of Backoff.
IncRetryAttempt == Backs(try)

ComputeBackoff ==
  /\ fpc = "backoff" /\ BackoffStep
  /\ UNCHANGED <<counters, hist, flushVars>> /\ KeepPage

\* time.NewTimer: one for no time at all fires at once.
Waited == IF delay > 0 THEN delay ELSE 0

\* The timer's case of the select.
BackoffTimer ==
  /\ fpc = "backoff" /\ at = "idle"
  /\ elapsed' = elapsed + Waited
  /\ try' = try + 1 /\ fpc' = "send"
  /\ UNCHANGED <<backoffVars, counters, hist, add, value, given>> /\ KeepPage

\* The context's case.
BackoffCancelled ==
  /\ fpc = "backoff" /\ at = "idle"
  /\ elapsed' \in {elapsed, elapsed + Waited}
  /\ fpc' = "failed"
  /\ UNCHANGED <<backoffVars, counters, hist, add, try, value, given>> /\ KeepPage

\* A slip: a failed flush has no latency.
IncFlushFailureOnly ==
  /\ fpc = "failed"
  /\ flushFailures' = flushFailures + 1
  /\ fpc' = "idle" /\ elapsed' = 0 /\ try' = 0
  /\ UNCHANGED <<backoffVars, flushes, retryAttempts, hist, add, value, given>>
  /\ KeepPage

IncFlushFailure ==
  /\ fpc = "failed"
  /\ flushFailures' = flushFailures + 1
  /\ Ends(elapsed)
  /\ UNCHANGED <<backoffVars, flushes, retryAttempts, hist, add>> /\ KeepPage

FlushStep ==
  \/ Observe("batch_size", "batch", "send") \/ Observe("flush_latency", "latency", "idle")
  \/ \E t \in 0..MaxSend : Send(t)
  \/ IncRetryAttempt \/ ComputeBackoff \/ BackoffTimer \/ BackoffCancelled
  \/ IncFlushFailure

-----------------------------------------------------------------------------
\* The page.  render loads the counters one by one, which no line relates to
\* another, then the lines of each histogram; each load is a step.
writeHistogram(h) == hist[h].items \o <<hist[h].count, hist[h].sum, hist[h].count>>
Written == Len(lines) = Len(writeHistogram(writing))

KeepFlush == UNCHANGED <<backoffVars, counters, hist, flushVars>>

LoadLine ==
  /\ ~Written
  /\ lines' = Append(lines, writeHistogram(writing)[Len(lines) + 1])
  /\ UNCHANGED writing /\ KeepFlush

\* The second histogram, or the next page.
render ==
  /\ Written
  /\ writing' \in Histogram \ {writing}
  /\ lines' = <<>> /\ KeepFlush

Next ==
  \/ FlushStep \/ \E n \in 1..MaxBatchSize : FlushBegins(n)
  \/ LoadLine \/ render

\* sendWithRetry ends: requests and timers do.  Nobody need scrape.
FairSpec == Init /\ [][Next]_vars /\ WF_vars(FlushStep)

-----------------------------------------------------------------------------
Buckets == Len(Bounds[writing])

\* A page rendered in the middle of an observation hangs together: no bucket
\* holds more than the +Inf line says, and +Inf no more than _count; and though
\* buckets are read one by one, none shows more than the next wider one by more
\* than the one observation that is going on.
ConsistentPage ==
  /\ Len(lines) > Buckets => \A k \in 1..Buckets : lines[k] <= lines[Buckets + 1]
  /\ Written => lines[Buckets + 1] <= lines[Buckets + 3]
  /\ \A k \in 2..Min({Buckets, Len(lines)}) : lines[k - 1] <= lines[k] + 1

\* Between two flushes the histograms are exact: one batch size and one latency
\* per flush, successful or not, every value in every bucket that covers it, and
\* a latency sum short of the truth by a millisecond per flush at most.
ExactAtRest ==
  LET short == given["flush_latency"].sum - Milli * hist["flush_latency"].sum
  IN  fpc = "idle" =>
        /\ flushFailures <= flushes
        /\ \A h \in Histogram :
             hist[h].count = flushes /\ hist[h].items = given[h].items
        /\ 0 <= short /\ short <= Milli * flushes

\* The plain exponential backoff before a retry, and the first k of them together
\* when none is more than the maximum.
Exponential[j \in 0..MaxRetries] ==
  IF j = 0 THEN RetryMinBackoff ELSE 2 * Exponential[j - 1]
Capped(j) == Min({RetryMaxBackoff, Exponential[j]})
Together[k \in 0..MaxRetries] ==
  IF k = 0 THEN 0 ELSE Together[k - 1] + Capped(k - 1)

\* An attempt begins after all the backoffs before it, which grow as configured:
\* not earlier than the plain exponential backoffs, and later than them by no
\* more than a quarter and the requests (batcher.go:146-181).
WaitsAddUp ==
  fpc = "send" /\ Room(RetryMaxBackoff) =>
    /\ Together[try] <= elapsed
    /\ 4 * elapsed <= 5 * Together[try] + 4 * (try * MaxSend)

\* A flush ends, whatever Elasticsearch answers: the attempts and the doubling
\* loop are bounded.
FlushEnds == fpc # "idle" ~> fpc = "idle"
=============================================================================
