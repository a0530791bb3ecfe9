---------------------------- MODULE Metrics_proofs ----------------------------
(***************************************************************************)
(* Proofs about Backoff and about Metrics, which calls it.  For every      *)
(* width of a duration, every argument and any number of attempts, the     *)
(* doubling neither overflows nor passes the maximum, and the jitter adds  *)
(* less than a quarter.  For any bounds of the buckets, any durations and  *)
(* any number of flushes, a rendered page hangs together, the histograms   *)
(* are exact between two flushes, and the waits of a flush add up to the   *)
(* backoffs that are configured.                                           *)
(***************************************************************************)
EXTENDS Metrics, SequenceTheorems, WellFoundedInduction, TLAPS

-----------------------------------------------------------------------------
\* Backoff, called with any arguments.

BackoffInv == BackoffTypeOK /\ DelayBounded

\* What Saturated leaves room for: a doubling that stays within the maximum, so
\* that Wrap has nothing to do.
LEMMA DoublingFits ==
  ASSUME NEW b \in Int64, NEW m \in Int64, 1 <= b, b < m, b <= m \div 2
  PROVE  Wrap(2 * b) = 2 * b /\ 2 * b <= m
BY BackoffAssumption DEF Int64, Wrap

\* A jitter below a quarter of the backoff keeps the sum within a duration,
\* unless the maximum is beyond four fifths of all durations; wrapped or not it
\* is an int64.
LEMMA JitterFits ==
  ASSUME NEW b \in Int64, NEW m \in Int64, 1 <= b, b <= m,
         NEW j \in 0..(b \div 4 - 1)
  PROVE  /\ Wrap(b + j) \in Int64
         /\ Room(m) =>
              /\ b <= Wrap(b + j) /\ 4 * (Wrap(b + j) - b) <= b
              /\ Wrap(b + j) <= m + m \div 4
<1>1. j \in Int /\ 0 <= j /\ 4 * j <= b /\ j <= m \div 4
  BY BackoffAssumption DEF Int64
<1>2. b + j <= 2 * MaxInt
  BY <1>1, BackoffAssumption DEF Int64
<1>3. Wrap(b + j) \in Int64
  BY <1>1, <1>2, BackoffAssumption DEF Int64, Wrap
<1>4. ASSUME Room(m)  PROVE Wrap(b + j) = b + j
  BY <1>1, <1>4, BackoffAssumption DEF Int64, Wrap, Room
<1> QED
  BY <1>1, <1>3, <1>4, BackoffAssumption DEF Int64

LEMMA BackoffInitial == BackoffInit => BackoffInv
BY BackoffAssumption DEF BackoffInit, BackoffInv, BackoffTypeOK, DelayBounded, Int64

LEMMA BackoffPreserves == BackoffInv /\ [BackoffNext]_backoffVars => BackoffInv'
<1> SUFFICES ASSUME BackoffInv, [BackoffNext]_backoffVars PROVE BackoffInv'
  OBVIOUS
<1> USE BackoffAssumption DEF BackoffInv
<1>1. CASE Double
  <2>1. ~Saturated /\ backoff' = Wrap(2 * backoff)
    BY <1>1 DEF Double
  <2>2. backoff' = 2 * backoff /\ 2 * backoff <= maximum
    BY <2>1, DoublingFits DEF Saturated, BackoffTypeOK, DelayBounded, Int64
  <2> QED
    BY <1>1, <2>2 DEF Double, BackoffTypeOK, DelayBounded, Int64
<1>2. CASE Saturate
  BY <1>2 DEF Saturate, BackoffTypeOK, DelayBounded, Int64
<1>3. CASE LoopEnds
  BY <1>3 DEF LoopEnds, BackoffTypeOK, DelayBounded
<1>4. CASE Jitter
  <2>1. /\ at' = "idle"
        /\ UNCHANGED <<minimum, maximum, attempt, i, backoff>>
    BY <1>4 DEF Jitter
  <2>2. CASE jitterLimit <= 0 /\ delay' = backoff
    BY <2>1, <2>2 DEF BackoffTypeOK, DelayBounded, Int64
  <2>3. CASE \E jitter \in 0..(jitterLimit - 1) : delay' = Wrap(backoff + jitter)
    <3>1. PICK jitter \in 0..(backoff \div 4 - 1) : delay' = Wrap(backoff + jitter)
      BY <2>3 DEF jitterLimit
    <3> backoff \in Int64 /\ maximum \in Int64 /\ 1 <= backoff /\ backoff <= maximum
      BY DEF BackoffTypeOK, DelayBounded, Int64
    <3>2. /\ delay' \in Int64
          /\ Room(maximum) =>
               /\ backoff <= delay' /\ 4 * (delay' - backoff) <= backoff
               /\ delay' <= maximum + maximum \div 4
      BY <3>1, JitterFits
    <3> QED
      BY <2>1, <3>2 DEF BackoffTypeOK, DelayBounded
  <2> QED
    BY <1>4, <2>2, <2>3 DEF Jitter
<1>5. ASSUME NEW min \in Duration, NEW max \in Duration, NEW n \in Attempt, Call(min, max, n)
      PROVE  BackoffInv'
  <2>1. min \in Int64 /\ max \in Int64 /\ n \in Int64
    OBVIOUS
  <2>2. minimum' \in 1..MaxInt /\ maximum' \in minimum'..MaxInt /\ attempt' \in 0..MaxInt
    BY <1>5, <2>1 DEF Call, Int64
  <2> QED
    BY <1>5, <2>2 DEF Call, BackoffTypeOK, DelayBounded, Int64
<1>6. CASE UNCHANGED backoffVars
  BY <1>6 DEF backoffVars, BackoffTypeOK, DelayBounded
<1> QED
  BY <1>1, <1>2, <1>3, <1>4, <1>5, <1>6 DEF BackoffNext, BackoffStep

\* The locals of Backoff are int64 values for all arguments, and the loop never
\* runs past its last iteration.
THEOREM TypeCorrect == BackoffSpec => []BackoffTypeOK
<1>1. BackoffSpec => []BackoffInv
  BY BackoffInitial, BackoffPreserves, PTL DEF BackoffSpec
<1> QED
  BY <1>1, PTL DEF BackoffInv

\* For all arguments and attempts: no doubling overflows, and every delay lies
\* between the capped exponential backoff and a quarter more.
THEOREM BoundedDelay == BackoffSpec => []DelayBounded
<1>1. BackoffSpec => []BackoffInv
  BY BackoffInitial, BackoffPreserves, PTL DEF BackoffSpec
<1> QED
  BY <1>1, PTL DEF BackoffInv

-----------------------------------------------------------------------------
\* The invariant of the flushes and the page.

\* Histogram h is being observed.
Observing(h) == fpc = IF h = "batch_size" THEN "batch" ELSE "latency"

\* The running observation has not made its n-th addition to h yet.
Due(h, n) == Observing(h) /\ add < n

Ks(h) == 1..Len(Bounds[h])

Types ==
  /\ BackoffInv
  /\ flushes \in Nat /\ flushFailures \in Nat
  /\ fpc \in {"idle", "batch", "send", "retry", "backoff", "failed", "latency"}
  /\ add \in Nat /\ value \in Nat /\ elapsed \in Nat /\ try \in 0..MaxRetries
  /\ fpc \in {"retry", "backoff"} => try < MaxRetries
  /\ add = 0 \/ Observing("batch_size") \/ Observing("flush_latency")
  /\ \A h \in Histogram :
       /\ Observing(h) => add < Additions(h)
       /\ hist[h] \in [count : Nat, sum : Int, items : [Ks(h) -> Int]]
       /\ given[h] \in [count : Nat, sum : Int, items : [Ks(h) -> Int]]
  /\ DOMAIN hist = Histogram /\ DOMAIN given = Histogram

\* What is still missing from the histograms is what is due.
Owed ==
  /\ \A h \in Histogram :
       /\ given[h].count = hist[h].count + One(Due(h, 1))
       /\ \A k \in Ks(h) :
            given[h].items[k] = hist[h].items[k] + One(Due(h, k + 2) /\ In(h, value, k))
  /\ given["batch_size"].count = flushes
  /\ flushes = given["flush_latency"].count + One(fpc \notin {"idle", "latency"})
  /\ flushFailures <= given["flush_latency"].count

\* How far the sum of the latencies lags behind, in units of time.
Lag ==
  LET short == given["flush_latency"].sum - Milli * hist["flush_latency"].sum
  IN  IF Due("flush_latency", 2)
        THEN /\ value <= short
             /\ short <= Milli * (given["flush_latency"].count - 1) + value
        ELSE 0 <= short /\ short <= Milli * given["flush_latency"].count

\* How the buckets relate to the count and to each other at any time.
Nested ==
  \A h \in Histogram :
    /\ \A k \in Ks(h) :
         hist[h].items[k] + One(Due(h, k + 2) /\ 1 <= add) <= hist[h].count
    /\ \A k \in Ks(h) :
         1 < k => hist[h].items[k - 1] <=
                    hist[h].items[k] + One(Observing(h) /\ add = k + 1 /\ In(h, value, k - 1))

\* How the lines of the page relate to the histogram they were loaded from.
Page ==
  /\ writing \in Histogram /\ lines \in Seq(Int) /\ Len(lines) <= Buckets + 3
  /\ \A k \in 1..Buckets : k <= Len(lines) =>
       /\ lines[k] <= hist[writing].items[k]
       /\ 1 < k => lines[k - 1] <= lines[k] + 1
  /\ Len(lines) > Buckets =>
       /\ lines[Buckets + 1] <= hist[writing].count
       /\ \A k \in 1..Buckets : lines[k] <= lines[Buckets + 1]
  /\ Len(lines) = Buckets + 3 => lines[Buckets + 1] <= lines[Buckets + 3]

Inv == Types /\ Owed /\ Lag /\ Nested /\ Page

-----------------------------------------------------------------------------
\* The histograms.

LEMMA BoundsOf ==
  ASSUME NEW h \in Histogram
  PROVE  /\ Bounds[h] \in Seq(Int) /\ Len(Bounds[h]) \in Nat
         /\ \A k \in Ks(h) : Bounds[h][k] \in Int
         /\ \A k \in Ks(h) : 1 < k => k - 1 \in Ks(h) /\ Bounds[h][k - 1] < Bounds[h][k]
<1>1. Bounds[h] \in Seq(Int) /\ Ascends(Bounds[h])
  BY MetricsAssumption DEF Bounds, Histogram
<1>2. Len(Bounds[h]) \in Nat
  BY <1>1, LenProperties
<1>3. \A k \in Ks(h) : Bounds[h][k] \in Int
  BY <1>1, ElementOfSeq DEF Ks
<1>4. \A k \in Ks(h) : 1 < k => k - 1 \in Ks(h) /\ k \in 2..Len(Bounds[h])
  BY <1>2 DEF Ks
<1> QED
  BY <1>1, <1>2, <1>3, <1>4 DEF Ascends

\* A bucket covers what the next narrower one covers.
LEMMA Wider ==
  ASSUME NEW h \in Histogram, NEW v \in Int, NEW k \in Ks(h), 1 < k, In(h, v, k - 1)
  PROVE  In(h, v, k)
<1>1. k - 1 \in Ks(h) /\ Bounds[h][k - 1] < Bounds[h][k]
      /\ Bounds[h][k - 1] \in Int /\ Bounds[h][k] \in Int
  BY BoundsOf
<1> QED
  BY <1>1 DEF In

LEMMA OneIs ==
  /\ \A b \in BOOLEAN : One(b) \in Nat /\ One(b) <= 1
  /\ One(TRUE) = 1 /\ One(FALSE) = 0
BY DEF One

\* The places of the two observations.
OnRoute(h, here, next) ==
  \/ h = "batch_size" /\ here = "batch" /\ next = "send"
  \/ h = "flush_latency" /\ here = "latency" /\ next = "idle"

\* What one addition does.
LEMMA ObserveEffect ==
  ASSUME Types, NEW h, NEW here, NEW next, OnRoute(h, here, next), Observe(h, here, next)
  PROVE  /\ h \in Histogram /\ Observing(h) /\ given' = given /\ DOMAIN hist' = Histogram
         /\ \A g \in Histogram : g # h =>
              hist'[g] = hist[g] /\ ~Observing(g) /\ ~Observing(g)'
         /\ hist'[h].count = hist[h].count + One(add = 0)
         /\ \A k \in Ks(h) : hist'[h].items[k] =
              hist[h].items[k] + One(add = k + 1 /\ In(h, value, k))
         /\ IF add = 1 THEN \E n \in Thousandths(h) : hist'[h].sum = hist[h].sum + n
            ELSE hist'[h].sum = hist[h].sum
         /\ hist'[h] \in [count : Nat, sum : Int, items : [Ks(h) -> Int]]
<1>1. h \in Histogram /\ Observing(h) /\ fpc = here /\ given' = given
  BY DEF OnRoute, Observe, Histogram, Observing
<1>2. PICK to \in Added(h, add + 1) : hist' = [hist EXCEPT ![h] = to]
  BY DEF Observe
<1>3. /\ add \in Nat /\ add < Additions(h) /\ value \in Nat /\ DOMAIN hist = Histogram
      /\ hist[h] \in [count : Nat, sum : Int, items : [Ks(h) -> Int]]
  BY <1>1 DEF Types
<1>4. /\ DOMAIN hist' = Histogram /\ hist'[h] = to
      /\ \A g \in Histogram : g # h => hist'[g] = hist[g]
  BY <1>1, <1>2, <1>3
<1>5. \A g \in Histogram : g # h => ~Observing(g) /\ ~Observing(g)'
  BY DEF OnRoute, Observe, Histogram, Observing
<1>6. Len(Bounds[h]) \in Nat
  BY <1>1, BoundsOf
<1>7. CASE add = 0
  <2>1. to = [hist[h] EXCEPT !.count = @ + 1]
    BY <1>2, <1>7 DEF Added, AddCount
  <2>2. \A k \in Ks(h) : ~(add = k + 1)
    BY <1>6, <1>7 DEF Ks
  <2>3. /\ to.count = hist[h].count + 1 /\ to.sum = hist[h].sum /\ to.items = hist[h].items
        /\ to \in [count : Nat, sum : Int, items : [Ks(h) -> Int]]
    BY <1>3, <2>1
  <2> QED
    BY <1>1, <1>3, <1>4, <1>5, <1>7, <2>2, <2>3 DEF One
<1>8. CASE add = 1
  <2>1. PICK n \in Thousandths(h) : to = [hist[h] EXCEPT !.sum = @ + n]
    BY <1>2, <1>8 DEF Added, AddSum
  <2>2. \A k \in Ks(h) : ~(add = k + 1)
    BY <1>6, <1>8 DEF Ks
  <2>3. n \in Int
    BY <1>3, MetricsAssumption DEF Thousandths
  <2>4. /\ to.count = hist[h].count /\ to.sum = hist[h].sum + n /\ to.items = hist[h].items
        /\ to \in [count : Nat, sum : Int, items : [Ks(h) -> Int]]
    BY <1>3, <2>1, <2>3
  <2> QED
    BY <1>1, <1>3, <1>4, <1>5, <1>8, <2>2, <2>4 DEF One
<1>9. CASE add \notin {0, 1}
  <2> DEFINE j == add - 1
  <2>1. j \in Ks(h) /\ add + 1 # 1 /\ add + 1 # 2 /\ (add + 1) - 2 = j
    BY <1>3, <1>6, <1>9 DEF Ks, Additions
  <2>2. to = [hist[h] EXCEPT !.items[j] = @ + One(In(h, value, j))]
    BY <1>2, <2>1 DEF Added, AddItem
  <2>3. One(In(h, value, j)) \in Int
    BY DEF One
  <2>4. /\ to.count = hist[h].count /\ to.sum = hist[h].sum
        /\ to.items = [hist[h].items EXCEPT ![j] = @ + One(In(h, value, j))]
        /\ to \in [count : Nat, sum : Int, items : [Ks(h) -> Int]]
    BY <1>3, <2>1, <2>2, <2>3
  <2>5. \A k \in Ks(h) : to.items[k] = hist[h].items[k] + One(add = k + 1 /\ In(h, value, k))
    <3>1. ASSUME NEW k \in Ks(h) PROVE add = k + 1 <=> k = j
      BY <1>3, <1>6 DEF Ks
    <3>2. ASSUME NEW k \in Ks(h), k # j
          PROVE  to.items[k] = hist[h].items[k] + One(add = k + 1 /\ In(h, value, k))
      <4>1. to.items[k] = hist[h].items[k] /\ hist[h].items[k] \in Int
        BY <1>3, <2>4, <3>2
      <4>2. One(add = k + 1 /\ In(h, value, k)) = 0
        BY <3>1, <3>2 DEF One
      <4> QED
        BY <4>1, <4>2
    <3>3. to.items[j] = hist[h].items[j] + One(add = j + 1 /\ In(h, value, j))
      <4>1. One(add = j + 1 /\ In(h, value, j)) = One(In(h, value, j))
        BY <2>1, <3>1 DEF One
      <4> QED
        BY <1>3, <2>1, <2>4, <4>1
    <3> QED
      BY <3>2, <3>3
  <2>6. hist[h].count = hist[h].count + One(add = 0)
    BY <1>3, <1>9 DEF One
  <2> QED
    BY <1>1, <1>4, <1>5, <1>9, <2>4, <2>5, <2>6
<1> QED
  BY <1>7, <1>8, <1>9

\* What is due before and after it.
LEMMA ObserveDue ==
  ASSUME Types, NEW h, NEW here, NEW next, OnRoute(h, here, next), Observe(h, here, next)
  PROVE  /\ \A m \in 1..Additions(h) : Due(h, m) <=> add < m
         /\ \A m \in 1..Additions(h) : Due(h, m)' <=> add + 1 < m
         /\ add + 1 < Additions(h) =>
              add' = add + 1 /\ value' = value /\ fpc' = fpc /\ Observing(h)'
         /\ add + 1 >= Additions(h) =>
              add' = 0 /\ value' = 0 /\ fpc' = next /\ ~Observing(h)'
         /\ add \in Nat /\ add < Additions(h) /\ Additions(h) \in Nat
<1>1. h \in Histogram /\ Observing(h)
  BY ObserveEffect
<1>2. add \in Nat /\ add < Additions(h) /\ Additions(h) \in Nat
  BY <1>1, BoundsOf DEF Types, Additions
<1>3. \A m \in 1..Additions(h) : Due(h, m) <=> add < m
  BY <1>1 DEF Due
<1>4. CASE add + 1 < Additions(h)
  <2>1. add' = add + 1 /\ value' = value /\ fpc' = fpc
    BY <1>4 DEF Observe
  <2>2. Observing(h)'
    BY <1>1, <2>1 DEF Observing
  <2> QED
    BY <1>2, <1>3, <1>4, <2>1, <2>2 DEF Due
<1>5. CASE ~(add + 1 < Additions(h))
  <2>1. add' = 0 /\ value' = 0 /\ fpc' = next
    BY <1>5 DEF Observe
  <2>2. ~Observing(h)'
    BY <2>1 DEF Observing, OnRoute
  <2> QED
    BY <1>2, <1>3, <1>5, <2>1, <2>2 DEF Due
<1> QED
  BY <1>4, <1>5

LEMMA ObserveOwed ==
  ASSUME Types, Owed, NEW h, NEW here, NEW next, OnRoute(h, here, next),
         Observe(h, here, next)
  PROVE  Owed'
<1>1. /\ h \in Histogram /\ given' = given
      /\ hist'[h].count = hist[h].count + One(add = 0)
      /\ \A k \in Ks(h) : hist'[h].items[k] =
           hist[h].items[k] + One(add = k + 1 /\ In(h, value, k))
  BY ObserveEffect
<1>2. /\ \A m \in 1..Additions(h) : Due(h, m) <=> add < m
      /\ \A m \in 1..Additions(h) : Due(h, m)' <=> add + 1 < m
      /\ add \in Nat /\ add < Additions(h)
      /\ add + 1 < Additions(h) => value' = value
      /\ Additions(h) \in Nat
  BY ObserveDue
<1>3. /\ hist[h].count \in Nat /\ \A k \in Ks(h) : hist[h].items[k] \in Int
  BY <1>1 DEF Types
<1>4. /\ given[h].count = hist[h].count + One(Due(h, 1))
      /\ \A k \in Ks(h) :
           given[h].items[k] = hist[h].items[k] + One(Due(h, k + 2) /\ In(h, value, k))
  BY <1>1 DEF Owed
<1>5. Additions(h) = Len(Bounds[h]) + 2 /\ Len(Bounds[h]) \in Nat
  BY <1>1, <1>2, BoundsOf DEF Additions
<1>6. given'[h].count = hist'[h].count + One(Due(h, 1)')
  <2>1. 1 \in 1..Additions(h)
    BY <1>5
  <2>2. (Due(h, 1) <=> add < 1) /\ (Due(h, 1)' <=> add + 1 < 1)
    BY <1>2, <2>1
  <2>3. ~Due(h, 1)' /\ (Due(h, 1) <=> add = 0)
    BY <1>2, <2>2
  <2>4. One(Due(h, 1)') = 0 /\ One(Due(h, 1)) = One(add = 0) /\ One(add = 0) \in Nat
    BY <2>3 DEF One
  <2> QED
    BY <1>1, <1>3, <1>4, <2>4
<1>7. ASSUME NEW k \in Ks(h)
      PROVE  given'[h].items[k] = hist'[h].items[k] + One(Due(h, k + 2)' /\ In(h, value', k))
  <2>1. k + 2 \in 1..Additions(h) /\ k \in Nat
    BY <1>5 DEF Ks
  <2>2. (Due(h, k + 2) <=> add < k + 2) /\ (Due(h, k + 2)' <=> add + 1 < k + 2)
    BY <1>2, <2>1
  <2>3. Due(h, k + 2)' => value' = value
    BY <1>2, <1>5, <2>1, <2>2
  <2>4. One(Due(h, k + 2) /\ In(h, value, k)) =
          One(add = k + 1 /\ In(h, value, k)) + One(Due(h, k + 2)' /\ In(h, value', k))
    <3>1. CASE add = k + 1
      <4>1. Due(h, k + 2) /\ ~Due(h, k + 2)'
        BY <1>2, <2>1, <2>2, <3>1
      <4> QED
        BY <3>1, <4>1 DEF One
    <3>2. CASE add # k + 1
      <4>1. Due(h, k + 2) <=> Due(h, k + 2)'
        BY <1>2, <2>1, <2>2, <3>2
      <4> QED
        BY <2>3, <3>2, <4>1 DEF One
    <3> QED
      BY <3>1, <3>2
  <2>5. /\ One(add = k + 1 /\ In(h, value, k)) \in Int
        /\ One(Due(h, k + 2)' /\ In(h, value', k)) \in Int
    BY DEF One
  <2>6. /\ given[h].items[k] = hist[h].items[k] + One(Due(h, k + 2) /\ In(h, value, k))
        /\ hist'[h].items[k] = hist[h].items[k] + One(add = k + 1 /\ In(h, value, k))
        /\ hist[h].items[k] \in Int /\ given'[h].items[k] = given[h].items[k]
    BY <1>1, <1>3, <1>4
  <2> QED
    BY <2>4, <2>5, <2>6
<1>8. ASSUME NEW g \in Histogram, g # h
      PROVE  /\ given'[g].count = hist'[g].count + One(Due(g, 1)')
             /\ \A k \in Ks(g) :
                  given'[g].items[k] = hist'[g].items[k] + One(Due(g, k + 2)' /\ In(g, value', k))
  <2>1. hist'[g] = hist[g] /\ ~Observing(g) /\ ~Observing(g)' /\ given' = given
    BY <1>8, ObserveEffect
  <2>2. \A m : ~Due(g, m) /\ ~Due(g, m)'
    BY <2>1 DEF Due
  <2>3. /\ given[g].count = hist[g].count + One(Due(g, 1))
        /\ \A k \in Ks(g) :
             given[g].items[k] = hist[g].items[k] + One(Due(g, k + 2) /\ In(g, value, k))
    BY DEF Owed
  <2> QED
    BY <2>1, <2>2, <2>3 DEF One
<1>9. /\ flushes' = flushes /\ flushFailures' = flushFailures
      /\ fpc' \notin {"idle", "latency"} <=> fpc \notin {"idle", "latency"}
  BY DEF Observe, counters, OnRoute
<1>10. /\ given'["batch_size"].count = flushes'
       /\ flushes' = given'["flush_latency"].count + One(fpc' \notin {"idle", "latency"})
       /\ flushFailures' <= given'["flush_latency"].count
  BY <1>1, <1>9 DEF Owed, One
<1>11. ASSUME NEW g \in Histogram
       PROVE  /\ given'[g].count = hist'[g].count + One(Due(g, 1)')
              /\ \A k \in Ks(g) :
                   given'[g].items[k] = hist'[g].items[k] + One(Due(g, k + 2)' /\ In(g, value', k))
  BY <1>6, <1>7, <1>8
<1>12. \A g : Ks(g)' = Ks(g) /\ \A k : In(g, value, k)' <=> In(g, value', k)
  BY DEF Ks, In, Bounds
<1> QED
  BY <1>10, <1>11, <1>12 DEF Owed

LEMMA ObserveNested ==
  ASSUME Types, Nested, NEW h, NEW here, NEW next, OnRoute(h, here, next),
         Observe(h, here, next)
  PROVE  Nested'
<1>1. /\ h \in Histogram
      /\ hist'[h].count = hist[h].count + One(add = 0)
      /\ \A k \in Ks(h) : hist'[h].items[k] =
           hist[h].items[k] + One(add = k + 1 /\ In(h, value, k))
      /\ Observing(h)
  BY ObserveEffect
<1>2. /\ \A m \in 1..Additions(h) : Due(h, m) <=> add < m
      /\ \A m \in 1..Additions(h) : Due(h, m)' <=> add + 1 < m
      /\ add \in Nat /\ add < Additions(h) /\ Additions(h) \in Nat
      /\ add + 1 < Additions(h) =>
           add' = add + 1 /\ value' = value /\ fpc' = fpc /\ Observing(h)'
      /\ add + 1 >= Additions(h) => add' = 0 /\ ~Observing(h)'
  BY ObserveDue
<1>3. /\ hist[h].count \in Nat /\ value \in Nat /\ \A k \in Ks(h) : hist[h].items[k] \in Int
  BY <1>1 DEF Types
<1>4. Additions(h) = Len(Bounds[h]) + 2 /\ Len(Bounds[h]) \in Nat
  BY <1>1, BoundsOf DEF Additions
<1>5. ASSUME NEW k \in Ks(h)
      PROVE  hist'[h].items[k] + One(Due(h, k + 2)' /\ 1 <= add') <= hist'[h].count
  <2>1. k + 2 \in 1..Additions(h) /\ k \in Nat /\ 1 <= k
    BY <1>4 DEF Ks
  <2>2. (Due(h, k + 2) <=> add < k + 2) /\ (Due(h, k + 2)' <=> add + 1 < k + 2)
    BY <1>2, <2>1
  <2>3. /\ hist[h].items[k] + One(Due(h, k + 2) /\ 1 <= add) <= hist[h].count
        /\ hist[h].items[k] \in Int
        /\ hist'[h].items[k] = hist[h].items[k] + One(add = k + 1 /\ In(h, value, k))
    BY <1>1, <1>3 DEF Nested
  <2>4. CASE add = 0
    <3>1. /\ One(Due(h, k + 2) /\ 1 <= add) = 0 /\ One(add = 0) = 1
          /\ One(add = k + 1 /\ In(h, value, k)) = 0
          /\ One(Due(h, k + 2)' /\ 1 <= add') \in 0..1
      BY <2>1, <2>4 DEF One
    <3> QED
      BY <1>1, <1>3, <2>3, <3>1
  <2>5. CASE add = k + 1
    <3>1. /\ One(Due(h, k + 2) /\ 1 <= add) = 1 /\ One(add = 0) = 0
          /\ One(add = k + 1 /\ In(h, value, k)) \in 0..1
          /\ One(Due(h, k + 2)' /\ 1 <= add') = 0
      BY <2>1, <2>2, <2>5 DEF One
    <3> QED
      BY <1>1, <1>3, <2>3, <3>1
  <2>6. CASE add # 0 /\ add # k + 1
    <3>1. 1 <= add /\ (Due(h, k + 2) <=> Due(h, k + 2)')
      BY <1>2, <2>1, <2>2, <2>6
    <3>2. /\ One(add = k + 1 /\ In(h, value, k)) = 0 /\ One(add = 0) = 0
          /\ One(Due(h, k + 2)' /\ 1 <= add') \in 0..1
          /\ One(Due(h, k + 2) /\ 1 <= add) \in 0..1
          /\ One(Due(h, k + 2)' /\ 1 <= add') <= One(Due(h, k + 2) /\ 1 <= add)
      BY <2>6, <3>1 DEF One
    <3> QED
      BY <1>1, <1>3, <2>3, <3>2
  <2> QED
    BY <2>4, <2>5, <2>6
<1>6. ASSUME NEW k \in Ks(h), 1 < k
      PROVE  hist'[h].items[k - 1] <= hist'[h].items[k] +
               One(Observing(h)' /\ add' = k + 1 /\ In(h, value', k - 1))
  <2>1. k - 1 \in Ks(h) /\ k \in Nat /\ k <= Len(Bounds[h]) /\ (k - 1) + 1 = k
    BY <1>4, <1>6 DEF Ks
  <2>2. /\ hist[h].items[k - 1] <=
             hist[h].items[k] + One(Observing(h) /\ add = k + 1 /\ In(h, value, k - 1))
        /\ hist[h].items[k - 1] \in Int /\ hist[h].items[k] \in Int
        /\ hist'[h].items[k - 1] = hist[h].items[k - 1] + One(add = k /\ In(h, value, k - 1))
        /\ hist'[h].items[k] = hist[h].items[k] + One(add = k + 1 /\ In(h, value, k))
    BY <1>1, <1>3, <1>6, <2>1 DEF Nested
  <2>3. CASE add = k
    <3>1. add' = k + 1 /\ value' = value /\ Observing(h)'
      BY <1>2, <1>4, <2>1, <2>3
    <3>2. /\ One(Observing(h) /\ add = k + 1 /\ In(h, value, k - 1)) = 0
          /\ One(add = k + 1 /\ In(h, value, k)) = 0
          /\ One(add = k /\ In(h, value, k - 1)) =
               One(Observing(h)' /\ add' = k + 1 /\ In(h, value', k - 1))
          /\ One(add = k /\ In(h, value, k - 1)) \in 0..1
      BY <2>1, <2>3, <3>1 DEF One
    <3> QED
      BY <2>2, <3>2
  <2>4. CASE add = k + 1
    <3>1. In(h, value, k - 1) => In(h, value, k)
      BY <1>1, <1>3, <1>6, Wider
    <3>2. /\ One(add = k /\ In(h, value, k - 1)) = 0
          /\ One(Observing(h) /\ add = k + 1 /\ In(h, value, k - 1)) \in 0..1
          /\ One(add = k + 1 /\ In(h, value, k)) \in 0..1
          /\ One(Observing(h) /\ add = k + 1 /\ In(h, value, k - 1)) <=
               One(add = k + 1 /\ In(h, value, k))
          /\ One(Observing(h)' /\ add' = k + 1 /\ In(h, value', k - 1)) \in 0..1
      BY <2>1, <2>4, <3>1 DEF One
    <3> QED
      BY <2>2, <3>2
  <2>5. CASE add # k /\ add # k + 1
    <3>1. /\ One(add = k /\ In(h, value, k - 1)) = 0
          /\ One(Observing(h) /\ add = k + 1 /\ In(h, value, k - 1)) = 0
          /\ One(add = k + 1 /\ In(h, value, k)) = 0
          /\ One(Observing(h)' /\ add' = k + 1 /\ In(h, value', k - 1)) \in 0..1
      BY <2>5 DEF One
    <3> QED
      BY <2>2, <3>1
  <2> QED
    BY <2>3, <2>4, <2>5
<1>7. ASSUME NEW g \in Histogram, g # h
      PROVE  /\ \A k \in Ks(g) :
                  hist'[g].items[k] + One(Due(g, k + 2)' /\ 1 <= add') <= hist'[g].count
             /\ \A k \in Ks(g) :
                  1 < k => hist'[g].items[k - 1] <= hist'[g].items[k] +
                             One(Observing(g)' /\ add' = k + 1 /\ In(g, value', k - 1))
  <2>1. hist'[g] = hist[g] /\ ~Observing(g) /\ ~Observing(g)'
    BY <1>7, ObserveEffect
  <2>2. \A m : ~Due(g, m) /\ ~Due(g, m)'
    BY <2>1 DEF Due
  <2>3. /\ \A k \in Ks(g) :
             hist[g].items[k] + One(Due(g, k + 2) /\ 1 <= add) <= hist[g].count
        /\ \A k \in Ks(g) :
             1 < k => hist[g].items[k - 1] <= hist[g].items[k] +
                        One(Observing(g) /\ add = k + 1 /\ In(g, value, k - 1))
    BY DEF Nested
  <2> QED
    BY <2>1, <2>2, <2>3 DEF One
<1>8. ASSUME NEW g \in Histogram
      PROVE  /\ \A k \in Ks(g) :
                  hist'[g].items[k] + One(Due(g, k + 2)' /\ 1 <= add') <= hist'[g].count
             /\ \A k \in Ks(g) :
                  1 < k => hist'[g].items[k - 1] <= hist'[g].items[k] +
                             One(Observing(g)' /\ add' = k + 1 /\ In(g, value', k - 1))
  BY <1>5, <1>6, <1>7
<1> QED
  BY <1>8 DEF Nested

\* A latency is observed short of the truth by a millisecond at most.
LEMMA Rounding ==
  ASSUME NEW v \in Nat, NEW m \in Nat \ {0}
  PROVE  /\ v \div m \in Nat /\ m * (v \div m) <= v /\ v < m * (v \div m) + m
         /\ v % m = 0 => v = m * (v \div m)
<1>1. v \div m \in Nat /\ v % m \in 0..(m - 1) /\ v = m * (v \div m) + (v % m)
  OBVIOUS
<1>2. m * (v \div m) \in Int
  BY <1>1
<1> QED
  BY <1>1, <1>2

LEMMA ShortBy ==
  ASSUME NEW h, h = "flush_latency", value \in Nat, NEW n \in Thousandths(h)
  PROVE  n \in Int /\ Milli * n <= value /\ value <= Milli * n + Milli
<1> DEFINE q == value \div Milli
<1>1. Milli \in Nat \ {0}
  BY MetricsAssumption
<1>2. /\ q \in Nat /\ Milli * q <= value /\ value < Milli * q + Milli
      /\ value % Milli = 0 => value = Milli * q
  BY <1>1, Rounding
<1>3. n = q \/ (n = q - 1 /\ value % Milli = 0)
  BY <1>2 DEF Thousandths
<1> HIDE DEF q
<1>4. Milli * (q - 1) = Milli * q - Milli /\ Milli * q \in Int
  BY <1>1, <1>2
<1> QED
  BY <1>1, <1>2, <1>3, <1>4

LEMMA LagSettles ==
  ASSUME NEW m \in Nat, NEW g \in Int, NEW s \in Int, NEW n \in Int, NEW v \in Int,
         NEW c \in Int, v <= g - m * s, g - m * s <= m * (c - 1) + v,
         m * n <= v, v <= m * n + m
  PROVE  0 <= g - m * (s + n) /\ g - m * (s + n) <= m * c
<1>1. m * (s + n) = m * s + m * n /\ m * (c - 1) = m * c - m
  OBVIOUS
<1>2. m * s \in Int /\ m * n \in Int /\ m * c \in Int
  OBVIOUS
<1> QED
  BY <1>1, <1>2

LEMMA ObserveLag ==
  ASSUME Types, Lag, NEW h, NEW here, NEW next, OnRoute(h, here, next),
         Observe(h, here, next)
  PROVE  Lag'
<1> DEFINE L == "flush_latency"
<1>1. /\ h \in Histogram /\ given' = given /\ Observing(h)
      /\ \A g \in Histogram : g # h => hist'[g] = hist[g] /\ ~Observing(g) /\ ~Observing(g)'
      /\ IF add = 1 THEN \E n \in Thousandths(h) : hist'[h].sum = hist[h].sum + n
         ELSE hist'[h].sum = hist[h].sum
  BY ObserveEffect
<1>2. /\ L \in Histogram /\ value \in Nat /\ given[L].sum \in Int /\ given[L].count \in Nat
      /\ hist[L].sum \in Int /\ Milli \in Nat
  BY MetricsAssumption DEF Types, Histogram
<1>3. CASE h # L
  <2>1. hist'[L] = hist[L] /\ ~Due(L, 2) /\ ~Due(L, 2)'
    BY <1>1, <1>2, <1>3 DEF Due
  <2> QED
    BY <1>1, <2>1 DEF Lag
<1>4. CASE h = L
  <2>1. 2 \in 1..Additions(h) /\ Additions(h) \in Nat /\ Additions(h) >= 2
    BY <1>1, BoundsOf DEF Additions
  <2>2. (Due(L, 2) <=> add < 2) /\ (Due(L, 2)' <=> add + 1 < 2) /\ add \in Nat
    BY <1>4, <2>1, ObserveDue
  <2>3. CASE add = 0
    <3>1. value' = value
      <4>1. add + 1 < Additions(h)
        BY <2>1, <2>3
      <4> QED
        BY <4>1, ObserveDue
    <3>2. Due(L, 2) /\ Due(L, 2)' /\ hist'[L].sum = hist[L].sum
      BY <1>1, <1>4, <2>2, <2>3
    <3> QED
      BY <1>1, <3>1, <3>2 DEF Lag
  <2>4. CASE add = 1
    <3>1. PICK n \in Thousandths(h) : hist'[L].sum = hist[L].sum + n
      BY <1>1, <1>4, <2>4
    <3>2. n \in Int /\ Milli * n <= value /\ value <= Milli * n + Milli
      BY <1>2, <1>4, ShortBy
    <3>3. Due(L, 2) /\ ~Due(L, 2)'
      BY <2>2, <2>4
    <3>4. /\ value <= given[L].sum - Milli * hist[L].sum
          /\ given[L].sum - Milli * hist[L].sum <= Milli * (given[L].count - 1) + value
      BY <3>3 DEF Lag
    <3>5. /\ 0 <= given[L].sum - Milli * (hist[L].sum + n)
          /\ given[L].sum - Milli * (hist[L].sum + n) <= Milli * given[L].count
      BY <1>2, <3>2, <3>4, LagSettles
    <3> QED
      BY <1>1, <3>1, <3>3, <3>5 DEF Lag
  <2>5. CASE add \notin {0, 1}
    <3>1. ~Due(L, 2) /\ ~Due(L, 2)' /\ hist'[L].sum = hist[L].sum
      BY <1>1, <1>4, <2>2, <2>5
    <3> QED
      BY <1>1, <3>1 DEF Lag
  <2> QED
    BY <2>3, <2>4, <2>5
<1> QED
  BY <1>3, <1>4

LEMMA ObserveTypes ==
  ASSUME Types, NEW h, NEW here, NEW next, OnRoute(h, here, next), Observe(h, here, next)
  PROVE  Types'
<1>1. /\ h \in Histogram /\ given' = given /\ DOMAIN hist' = Histogram
      /\ \A g \in Histogram : g # h => hist'[g] = hist[g] /\ ~Observing(g)'
      /\ hist'[h] \in [count : Nat, sum : Int, items : [Ks(h) -> Int]]
  BY ObserveEffect
<1>2. /\ add \in Nat /\ add < Additions(h) /\ Additions(h) \in Nat
      /\ add + 1 < Additions(h) =>
           add' = add + 1 /\ value' = value /\ fpc' = fpc /\ Observing(h)'
      /\ add + 1 >= Additions(h) => add' = 0 /\ value' = 0 /\ fpc' = next /\ ~Observing(h)'
  BY ObserveDue
<1>3. /\ UNCHANGED backoffVars /\ flushes' = flushes /\ flushFailures' = flushFailures
      /\ try' = try /\ elapsed' = elapsed
  BY DEF Observe, counters
<1>4. BackoffInv'
  <2>1. BackoffInv
    BY DEF Types
  <2> QED
    BY <1>3, <2>1, BackoffPreserves
<1>5. /\ add' \in Nat /\ value' \in Nat
      /\ Observing(h)' => add' < Additions(h)
      /\ add' = 0 \/ Observing(h)'
  <2>1. value \in Nat
    BY DEF Types
  <2>2. CASE add + 1 < Additions(h)
    BY <1>2, <2>1, <2>2
  <2>3. CASE ~(add + 1 < Additions(h))
    BY <1>2, <2>3
  <2> QED
    BY <2>2, <2>3
<1>6. /\ fpc' \in {"idle", "batch", "send", "retry", "backoff", "failed", "latency"}
      /\ fpc' \notin {"retry", "backoff"}
  BY DEF Observe, OnRoute
<1>7. \A g \in Histogram :
        /\ Observing(g)' => add' < Additions(g)
        /\ hist'[g] \in [count : Nat, sum : Int, items : [Ks(g) -> Int]]
        /\ given'[g] \in [count : Nat, sum : Int, items : [Ks(g) -> Int]]
  BY <1>1, <1>5 DEF Types
<1>8. add' = 0 \/ Observing("batch_size")' \/ Observing("flush_latency")'
  BY <1>1, <1>5 DEF Histogram
<1>9. \A g : Additions(g)' = Additions(g) /\ Ks(g)' = Ks(g)
  BY DEF Additions, Ks, Bounds
<1>10. /\ flushes' \in Nat /\ flushFailures' \in Nat /\ elapsed' \in Nat /\ try' \in 0..MaxRetries
       /\ DOMAIN given' = Histogram
  BY <1>1, <1>3 DEF Types
<1> QED
  BY <1>1, <1>4, <1>5, <1>6, <1>7, <1>8, <1>9, <1>10 DEF Types

-----------------------------------------------------------------------------
\* The other steps of a flush: none of them adds to a histogram.

\* Nothing is being observed.
Quiet == fpc \notin {"batch", "latency"}

LEMMA NothingDue ==
  Quiet => \A h \in Histogram : ~Observing(h) /\ \A m : ~Due(h, m)
BY DEF Quiet, Observing, Due, Histogram

\* The page stays as consistent as it was while the histograms grow.
LEMMA PageKept ==
  ASSUME Types, Page, KeepPage,
         \A h \in Histogram :
           /\ hist'[h].count \in Int /\ hist[h].count <= hist'[h].count
           /\ \A k \in Ks(h) :
                hist'[h].items[k] \in Int /\ hist[h].items[k] <= hist'[h].items[k]
  PROVE  Page'
<1>1. writing' = writing /\ lines' = lines /\ writing \in Histogram
  BY DEF KeepPage, Page
<1>2. Buckets' = Buckets /\ Buckets \in Nat /\ Ks(writing) = 1..Buckets
  BY <1>1, BoundsOf DEF Buckets, Ks, Bounds
<1>3. /\ lines \in Seq(Int) /\ Len(lines) \in Nat /\ hist[writing].count \in Int
      /\ \A k \in 1..Buckets : hist[writing].items[k] \in Int
      /\ \A k \in 1..Len(lines) : lines[k] \in Int
  BY <1>1, <1>2, LenProperties, ElementOfSeq DEF Page, Types
<1>4. ASSUME NEW k \in 1..Buckets, k <= Len(lines)
      PROVE  /\ lines[k] <= hist'[writing].items[k]
             /\ 1 < k => lines[k - 1] <= lines[k] + 1
  <2>1. /\ lines[k] <= hist[writing].items[k] /\ lines[k] \in Int
        /\ hist[writing].items[k] <= hist'[writing].items[k]
        /\ hist[writing].items[k] \in Int /\ hist'[writing].items[k] \in Int
    BY <1>1, <1>2, <1>3, <1>4 DEF Page
  <2> QED
    BY <1>4, <2>1 DEF Page
<1>5. ASSUME Len(lines) > Buckets
      PROVE  lines[Buckets + 1] <= hist'[writing].count
  <2>1. /\ lines[Buckets + 1] <= hist[writing].count /\ lines[Buckets + 1] \in Int
        /\ hist[writing].count <= hist'[writing].count
        /\ hist[writing].count \in Int /\ hist'[writing].count \in Int
    <3>1. Buckets + 1 \in 1..Len(lines)
      BY <1>2, <1>3, <1>5
    <3> QED
      BY <1>1, <1>3, <1>5, <3>1 DEF Page
  <2> QED
    BY <2>1
<1> QED
  BY <1>1, <1>2, <1>4, <1>5 DEF Page

LEMMA PageAside ==
  ASSUME Types, Page, KeepPage, hist' = hist
  PROVE  Page'
<1>1. \A h \in Histogram :
        /\ hist[h].count \in Int /\ \A k \in Ks(h) : hist[h].items[k] \in Int
  BY DEF Types
<1>2. \A h \in Histogram :
        /\ hist'[h].count \in Int /\ hist[h].count <= hist'[h].count
        /\ \A k \in Ks(h) :
             hist'[h].items[k] \in Int /\ hist[h].items[k] <= hist'[h].items[k]
  BY <1>1
<1> QED
  BY <1>2, PageKept

LEMMA ObservePage ==
  ASSUME Types, Page, NEW h, NEW here, NEW next, OnRoute(h, here, next),
         Observe(h, here, next)
  PROVE  Page'
<1>1. KeepPage
  BY DEF Observe
<1>2. ASSUME NEW g \in Histogram
      PROVE  /\ hist'[g].count \in Int /\ hist[g].count <= hist'[g].count
             /\ \A k \in Ks(g) :
                  hist'[g].items[k] \in Int /\ hist[g].items[k] <= hist'[g].items[k]
  <2>1. hist[g].count \in Int /\ \A k \in Ks(g) : hist[g].items[k] \in Int
    BY DEF Types
  <2>2. CASE g # h
    <3>1. hist'[g] = hist[g]
      BY <2>2, ObserveEffect
    <3> QED
      BY <2>1, <3>1
  <2>3. CASE g = h
    <3>1. /\ hist'[g].count = hist[g].count + One(add = 0)
          /\ \A k \in Ks(g) : hist'[g].items[k] =
               hist[g].items[k] + One(add = k + 1 /\ In(g, value, k))
      BY <2>3, ObserveEffect
    <3>2. One(add = 0) \in Nat /\ \A k : One(add = k + 1 /\ In(g, value, k)) \in Nat
      BY DEF One
    <3> QED
      BY <2>1, <3>1, <3>2
  <2> QED
    BY <2>2, <2>3
<1> QED
  BY <1>1, <1>2, PageKept

\* A value to observe, in the history.
LEMMA Gives ==
  ASSUME Types, NEW h \in Histogram, NEW v \in Nat, Give(h, v)
  PROVE  /\ value' = v /\ DOMAIN given' = Histogram
         /\ given'[h] \in [count : Nat, sum : Int, items : [Ks(h) -> Int]]
         /\ given'[h].count = given[h].count + 1 /\ given'[h].sum = given[h].sum + v
         /\ \A k \in Ks(h) : given'[h].items[k] = given[h].items[k] + One(In(h, v, k))
         /\ \A g \in Histogram : g # h => given'[g] = given[g]
<1> DEFINE new == [count |-> given[h].count + 1, sum |-> given[h].sum + v,
                   items |-> [k \in Ks(h) |-> given[h].items[k] + One(In(h, v, k))]]
<1>1. /\ DOMAIN given = Histogram
      /\ given[h] \in [count : Nat, sum : Int, items : [Ks(h) -> Int]]
  BY DEF Types
<1>2. value' = v /\ given' = [given EXCEPT ![h] = new]
  BY <1>1 DEF Give
<1>3. /\ given'[h] = new /\ DOMAIN given' = Histogram
      /\ \A g \in Histogram : g # h => given'[g] = given[g]
  BY <1>1, <1>2
<1>4. \A k \in Ks(h) : One(In(h, v, k)) \in Int
  BY DEF One
<1>5. new \in [count : Nat, sum : Int, items : [Ks(h) -> Int]]
  BY <1>1, <1>4
<1> QED
  BY <1>2, <1>3, <1>5

\* An observation begins: all of its additions are due.
LEMMA ObservationBegins ==
  ASSUME Types, Owed, Lag, Nested, Quiet, NEW h \in Histogram, NEW v \in Nat, Give(h, v),
         Observing(h)', hist' = hist, add' = add
  PROVE  /\ Nested' /\ Lag'
         /\ \A g \in Histogram :
              /\ given'[g].count = hist'[g].count + One(Due(g, 1)')
              /\ \A k \in Ks(g) : given'[g].items[k] =
                   hist'[g].items[k] + One(Due(g, k + 2)' /\ In(g, value', k))
<1>1. add = 0 /\ \A g \in Histogram : ~Observing(g) /\ \A m : ~Due(g, m)
  BY NothingDue DEF Types, Quiet, Observing
<1>2. \A g \in Histogram : g # h => ~Observing(g)' /\ \A m : ~Due(g, m)'
  BY DEF Observing, Histogram, Due
<1>3. \A m \in Nat : 0 < m => Due(h, m)'
  BY <1>1 DEF Due
<1>4. /\ value' = v /\ given'[h].count = given[h].count + 1
      /\ given'[h].sum = given[h].sum + v
      /\ \A k \in Ks(h) : given'[h].items[k] = given[h].items[k] + One(In(h, v, k))
      /\ \A g \in Histogram : g # h => given'[g] = given[g]
  BY Gives
<1>5. \A g \in Histogram :
        /\ given[g].count = hist[g].count
        /\ \A k \in Ks(g) : given[g].items[k] = hist[g].items[k]
        /\ \A k \in Ks(g) : hist[g].items[k] <= hist[g].count
        /\ \A k \in Ks(g) : 1 < k => hist[g].items[k - 1] <= hist[g].items[k]
  <2> SUFFICES ASSUME NEW g \in Histogram
      PROVE  /\ given[g].count = hist[g].count
             /\ \A k \in Ks(g) : given[g].items[k] = hist[g].items[k]
             /\ \A k \in Ks(g) : hist[g].items[k] <= hist[g].count
             /\ \A k \in Ks(g) : 1 < k => hist[g].items[k - 1] <= hist[g].items[k]
    OBVIOUS
  <2>1. /\ hist[g].count \in Nat /\ \A k \in Ks(g) : hist[g].items[k] \in Int
    BY DEF Types
  <2>2. /\ One(Due(g, 1)) = 0 /\ \A k : One(Due(g, k + 2) /\ In(g, value, k)) = 0
        /\ \A k : One(Due(g, k + 2) /\ 1 <= add) = 0
        /\ \A k : One(Observing(g) /\ add = k + 1 /\ In(g, value, k - 1)) = 0
    BY <1>1 DEF One
  <2>3. /\ given[g].count = hist[g].count + 0
        /\ \A k \in Ks(g) : given[g].items[k] = hist[g].items[k] + 0
    BY <2>2 DEF Owed
  <2>4. /\ \A k \in Ks(g) : hist[g].items[k] + 0 <= hist[g].count
        /\ \A k \in Ks(g) : 1 < k => hist[g].items[k - 1] <= hist[g].items[k] + 0
    BY <2>2 DEF Nested
  <2> QED
    BY <2>1, <2>3, <2>4
<1>6. ASSUME NEW g \in Histogram
      PROVE  /\ given'[g].count = hist'[g].count + One(Due(g, 1)')
             /\ \A k \in Ks(g) : given'[g].items[k] =
                  hist'[g].items[k] + One(Due(g, k + 2)' /\ In(g, value', k))
  <2>1. hist[g].count \in Nat /\ \A k \in Ks(g) : hist[g].items[k] \in Int
    BY DEF Types
  <2>2. CASE g = h
    <3>1. Due(h, 1)' /\ \A k \in Ks(h) : Due(h, k + 2)'
      BY <1>3 DEF Ks
    <3>2. /\ One(Due(h, 1)') = 1
          /\ \A k \in Ks(h) : One(Due(h, k + 2)' /\ In(h, value', k)) = One(In(h, v, k))
      BY <1>4, <3>1 DEF One
    <3> QED
      BY <1>4, <1>5, <2>1, <2>2, <3>2
  <2>3. CASE g # h
    <3>1. One(Due(g, 1)') = 0 /\ \A k : One(Due(g, k + 2)' /\ In(g, value', k)) = 0
      BY <1>2, <2>3 DEF One
    <3> QED
      BY <1>4, <1>5, <2>1, <2>3, <3>1
  <2> QED
    BY <2>2, <2>3
<1>7. Nested'
  <2>1. ASSUME NEW g \in Histogram
        PROVE  /\ \A k \in Ks(g) :
                    hist'[g].items[k] + One(Due(g, k + 2)' /\ 1 <= add') <= hist'[g].count
               /\ \A k \in Ks(g) : 1 < k => hist'[g].items[k - 1] <= hist'[g].items[k] +
                    One(Observing(g)' /\ add' = k + 1 /\ In(g, value', k - 1))
    <3>1. \A k \in Ks(g) : hist[g].items[k] \in Int
      BY DEF Types
    <3>2. /\ \A k : One(Due(g, k + 2)' /\ 1 <= add') = 0
          /\ \A k \in Ks(g) : One(Observing(g)' /\ add' = k + 1 /\ In(g, value', k - 1)) = 0
      BY <1>1 DEF One, Ks
    <3> QED
      BY <1>5, <3>1, <3>2
  <2> QED
    BY <2>1 DEF Nested
<1>8. Lag'
  <2> DEFINE L == "flush_latency"
  <2>1. /\ L \in Histogram /\ given[L].sum \in Int /\ given[L].count \in Nat
        /\ hist[L].sum \in Int /\ Milli \in Nat /\ Milli * hist[L].sum \in Int
    BY MetricsAssumption DEF Types, Histogram
  <2>2. /\ 0 <= given[L].sum - Milli * hist[L].sum
        /\ given[L].sum - Milli * hist[L].sum <= Milli * given[L].count
    BY <1>1, <2>1 DEF Lag
  <2>3. CASE h = L
    <3>1. Due(L, 2)' /\ (given[L].count + 1) - 1 = given[L].count
      BY <1>3, <2>1, <2>3
    <3>2. Milli * given[L].count \in Int
      BY <2>1
    <3>3. /\ v <= (given[L].sum + v) - Milli * hist[L].sum
          /\ (given[L].sum + v) - Milli * hist[L].sum <= Milli * given[L].count + v
      BY <2>1, <2>2, <3>2
    <3>4. /\ given'[L].sum = given[L].sum + v /\ given'[L].count - 1 = given[L].count
          /\ value' = v /\ hist'[L] = hist[L]
      BY <1>4, <2>3, <3>1
    <3> QED
      BY <3>1, <3>3, <3>4 DEF Lag
  <2>4. CASE h # L
    <3>1. given'[L] = given[L] /\ hist'[L] = hist[L] /\ ~Due(L, 2)'
      BY <1>2, <1>4, <2>1, <2>4
    <3> QED
      BY <2>2, <3>1 DEF Lag
  <2> QED
    BY <2>3, <2>4
<1> QED
  BY <1>6, <1>7, <1>8

\* Between the two observations of a flush nothing becomes due.
LEMMA BetweenObservations ==
  ASSUME Types, Owed, Lag, Nested, Quiet, Quiet', fpc # "idle", fpc' # "idle",
         UNCHANGED <<hist, given, add, flushes>>, flushFailures' = flushFailures
  PROVE  Owed' /\ Lag' /\ Nested'
<1>1. \A g \in Histogram : ~Observing(g) /\ \A m : ~Due(g, m)
  BY NothingDue
<1>2. \A g \in Histogram : ~Observing(g)' /\ \A m : ~Due(g, m)'
  BY DEF Quiet, Observing, Due, Histogram
<1>3. Nested'
  <2>1. ASSUME NEW g \in Histogram
        PROVE  /\ \A k : One(Due(g, k + 2)' /\ 1 <= add') = One(Due(g, k + 2) /\ 1 <= add)
               /\ \A k : One(Observing(g)' /\ add' = k + 1 /\ In(g, value', k - 1)) =
                           One(Observing(g) /\ add = k + 1 /\ In(g, value, k - 1))
    BY <1>1, <1>2 DEF One
  <2>2. ASSUME NEW g \in Histogram
        PROVE  /\ \A k \in Ks(g) :
                    hist'[g].items[k] + One(Due(g, k + 2)' /\ 1 <= add') <= hist'[g].count
               /\ \A k \in Ks(g) : 1 < k => hist'[g].items[k - 1] <= hist'[g].items[k] +
                    One(Observing(g)' /\ add' = k + 1 /\ In(g, value', k - 1))
    BY <2>1 DEF Nested
  <2> QED
    BY <2>2 DEF Nested
<1>4. Lag'
  <2>1. "flush_latency" \in Histogram
    BY DEF Histogram
  <2>2. ~Due("flush_latency", 2) /\ ~Due("flush_latency", 2)'
    BY <1>1, <1>2, <2>1
  <2> QED
    BY <2>2 DEF Lag
<1>5. Owed'
  <2>1. ASSUME NEW g \in Histogram
        PROVE  /\ One(Due(g, 1)') = One(Due(g, 1))
               /\ \A k : One(Due(g, k + 2)' /\ In(g, value', k)) =
                           One(Due(g, k + 2) /\ In(g, value, k))
    BY <1>1, <1>2 DEF One
  <2>2. ASSUME NEW g \in Histogram
        PROVE  /\ given'[g].count = hist'[g].count + One(Due(g, 1)')
               /\ \A k \in Ks(g) : given'[g].items[k] =
                    hist'[g].items[k] + One(Due(g, k + 2)' /\ In(g, value', k))
    BY <2>1 DEF Owed
  <2>3. /\ fpc \notin {"idle", "latency"} /\ fpc' \notin {"idle", "latency"}
    BY DEF Quiet
  <2>4. /\ given'["batch_size"].count = flushes'
        /\ flushes' = given'["flush_latency"].count + One(fpc' \notin {"idle", "latency"})
        /\ flushFailures' <= given'["flush_latency"].count
    BY <2>3 DEF Owed, One
  <2> QED
    BY <2>2, <2>4 DEF Owed
<1> QED
  BY <1>3, <1>4, <1>5

\* What a step that adds nothing to a histogram must show for the types.
LEMMA TypesKept ==
  ASSUME Types, [BackoffNext]_backoffVars, hist' = hist, add' = add, add = 0,
         flushes' \in Nat, flushFailures' \in Nat, value' \in Nat, elapsed' \in Nat,
         try' \in 0..MaxRetries, fpc' \in {"retry", "backoff"} => try' < MaxRetries,
         fpc' \in {"idle", "batch", "send", "retry", "backoff", "failed", "latency"},
         DOMAIN given' = Histogram,
         \A h \in Histogram :
           given'[h] \in [count : Nat, sum : Int, items : [Ks(h) -> Int]]
  PROVE  Types'
<1>1. BackoffInv'
  <2>1. BackoffInv
    BY DEF Types
  <2> QED
    BY <2>1, BackoffPreserves
<1>2. ASSUME NEW h \in Histogram
      PROVE  /\ add' < Additions(h)
             /\ hist'[h] \in [count : Nat, sum : Int, items : [Ks(h) -> Int]]
  <2>1. 0 < Additions(h)
    BY BoundsOf DEF Additions
  <2> QED
    BY <2>1 DEF Types
<1>3. \A h : Additions(h)' = Additions(h) /\ Ks(h)' = Ks(h)
  BY DEF Additions, Ks, Bounds
<1>4. DOMAIN hist' = Histogram /\ add' \in Nat
  BY DEF Types
<1> QED
  BY <1>1, <1>2, <1>3, <1>4 DEF Types

LEMMA FlushBeginsInv ==
  ASSUME Inv, NEW n \in 1..MaxBatchSize, FlushBegins(n)
  PROVE  Inv'
<1> USE DEF Inv
<1> DEFINE B == "batch_size"
<1> DEFINE L == "flush_latency"
<1>1. /\ fpc = "idle" /\ fpc' = "batch" /\ flushes' = flushes + 1 /\ Give(B, n)
      /\ UNCHANGED <<backoffVars, flushFailures, hist, add, try, elapsed>> /\ KeepPage
  BY DEF FlushBegins
<1>2. /\ B \in Histogram /\ L \in Histogram /\ B # L /\ n \in Nat /\ Quiet /\ Observing(B)'
  BY <1>1, MetricsAssumption DEF Histogram, Quiet, Observing
<1>3. /\ value' = n /\ DOMAIN given' = Histogram
      /\ given'[B] \in [count : Nat, sum : Int, items : [Ks(B) -> Int]]
      /\ given'[B].count = given[B].count + 1
      /\ \A g \in Histogram : g # B => given'[g] = given[g]
  BY <1>1, <1>2, Gives
<1>4. /\ Nested' /\ Lag'
      /\ \A g \in Histogram :
           /\ given'[g].count = hist'[g].count + One(Due(g, 1)')
           /\ \A k \in Ks(g) : given'[g].items[k] =
                hist'[g].items[k] + One(Due(g, k + 2)' /\ In(g, value', k))
  BY <1>1, <1>2, ObservationBegins
<1>5. Owed'
  <2>1. given[L].count \in Nat /\ flushes \in Nat
    BY <1>2 DEF Types
  <2>2. /\ given[B].count = flushes /\ flushes = given[L].count + 0
        /\ flushFailures <= given[L].count
    BY <1>1 DEF Owed, One
  <2>3. given'[B].count = flushes' /\ flushes' = given'[L].count + 1
        /\ flushFailures' <= given'[L].count
    BY <1>1, <1>2, <1>3, <2>1, <2>2
  <2>4. One(fpc' \notin {"idle", "latency"}) = 1
    BY <1>1 DEF One
  <2> QED
    BY <1>4, <2>3, <2>4 DEF Owed
<1>6. Types'
  <2>1. /\ add = 0 /\ flushes' \in Nat /\ flushFailures' \in Nat /\ elapsed' \in Nat
        /\ try' \in 0..MaxRetries
    BY <1>1 DEF Types, Observing
  <2>2. \A h \in Histogram : given'[h] \in [count : Nat, sum : Int, items : [Ks(h) -> Int]]
    BY <1>2, <1>3 DEF Types
  <2> QED
    BY <1>1, <1>2, <1>3, <2>1, <2>2, TypesKept
<1>7. Page'
  BY <1>1, PageAside
<1> QED
  BY <1>4, <1>5, <1>6, <1>7

\* The latency is given, once per flush, whether or not the flush has failed.
LEMMA EndsInv ==
  ASSUME Inv, NEW since \in Nat, fpc \in {"send", "failed"}, Ends(since),
         UNCHANGED <<backoffVars, flushes, hist, add>>,
         flushFailures' \in {flushFailures, flushFailures + 1}, KeepPage
  PROVE  Inv'
<1> USE DEF Inv
<1> DEFINE B == "batch_size"
<1> DEFINE L == "flush_latency"
<1>1. fpc' = "latency" /\ elapsed' = 0 /\ try' = 0 /\ Give(L, since)
  BY DEF Ends
<1>2. /\ B \in Histogram /\ L \in Histogram /\ B # L /\ Quiet /\ Observing(L)'
  BY <1>1 DEF Histogram, Quiet, Observing
<1>3. /\ value' = since /\ DOMAIN given' = Histogram
      /\ given'[L] \in [count : Nat, sum : Int, items : [Ks(L) -> Int]]
      /\ given'[L].count = given[L].count + 1
      /\ \A g \in Histogram : g # L => given'[g] = given[g]
  BY <1>1, <1>2, Gives
<1>4. /\ Nested' /\ Lag'
      /\ \A g \in Histogram :
           /\ given'[g].count = hist'[g].count + One(Due(g, 1)')
           /\ \A k \in Ks(g) : given'[g].items[k] =
                hist'[g].items[k] + One(Due(g, k + 2)' /\ In(g, value', k))
  BY <1>1, <1>2, ObservationBegins
<1>5. Owed'
  <2>1. given[L].count \in Nat /\ flushes \in Nat /\ flushFailures \in Nat
    BY <1>2 DEF Types
  <2>2. /\ given[B].count = flushes /\ flushes = given[L].count + 1
        /\ flushFailures <= given[L].count
    BY DEF Owed, One
  <2>3. given'[B].count = flushes' /\ flushes' = given'[L].count + 0
        /\ flushFailures' <= given'[L].count
    BY <1>2, <1>3, <2>1, <2>2
  <2>4. One(fpc' \notin {"idle", "latency"}) = 0
    BY <1>1 DEF One
  <2> QED
    BY <1>4, <2>3, <2>4 DEF Owed
<1>6. Types'
  <2>1. /\ add = 0 /\ flushes' \in Nat /\ flushFailures' \in Nat /\ elapsed' \in Nat
        /\ try' \in 0..MaxRetries
    BY <1>1, MetricsAssumption DEF Types, Observing
  <2>2. \A h \in Histogram : given'[h] \in [count : Nat, sum : Int, items : [Ks(h) -> Int]]
    BY <1>2, <1>3 DEF Types
  <2> QED
    BY <1>1, <1>2, <1>3, <2>1, <2>2, TypesKept
<1>7. Page'
  BY PageAside
<1> QED
  BY <1>4, <1>5, <1>6, <1>7

\* A step of sendWithRetry that observes nothing.
LEMMA PassesInv ==
  ASSUME Inv, fpc \in {"send", "retry", "backoff", "failed"},
         fpc' \in {"send", "retry", "backoff", "failed"}, [BackoffNext]_backoffVars,
         UNCHANGED <<flushes, flushFailures, hist, add, value, given>>, KeepPage,
         elapsed' \in Nat, try' \in 0..MaxRetries,
         fpc' \in {"retry", "backoff"} => try' < MaxRetries
  PROVE  Inv'
<1> USE DEF Inv
<1>1. Quiet /\ Quiet' /\ fpc # "idle" /\ fpc' # "idle"
  BY DEF Quiet
<1>2. Owed' /\ Lag' /\ Nested'
  BY <1>1, BetweenObservations
<1>3. Types'
  <2>1. add = 0 /\ flushes' \in Nat /\ flushFailures' \in Nat /\ value' \in Nat
        /\ DOMAIN given' = Histogram
    BY DEF Types, Observing
  <2>2. \A h \in Histogram : given'[h] \in [count : Nat, sum : Int, items : [Ks(h) -> Int]]
    BY DEF Types
  <2> QED
    BY <2>1, <2>2, TypesKept
<1>4. Page'
  BY PageAside
<1> QED
  BY <1>2, <1>3, <1>4

-----------------------------------------------------------------------------
\* The page.

\* The lines of a histogram.
LEMMA LinesOf ==
  ASSUME Types, NEW h \in Histogram
  PROVE  LET n == Len(Bounds[h])
         IN  /\ writeHistogram(h) \in Seq(Int) /\ Len(writeHistogram(h)) = n + 3
             /\ \A k \in 1..n : writeHistogram(h)[k] = hist[h].items[k]
             /\ writeHistogram(h)[n + 1] = hist[h].count
             /\ writeHistogram(h)[n + 3] = hist[h].count
<1> DEFINE n == Len(Bounds[h])
<1> DEFINE items == hist[h].items
<1> DEFINE tail == <<hist[h].count, hist[h].sum, hist[h].count>>
<1>1. n \in Nat /\ hist[h].count \in Int /\ hist[h].sum \in Int /\ items \in [1..n -> Int]
  BY BoundsOf DEF Types, Ks
<1>2. items \in Seq(Int) /\ Len(items) = n
  BY <1>1
<1>3. tail \in Seq(Int) /\ Len(tail) = 3 /\ tail[1] = hist[h].count /\ tail[3] = hist[h].count
  BY <1>1
<1>4. writeHistogram(h) = items \o tail
  BY DEF writeHistogram
<1> HIDE DEF n, items, tail
<1>5. /\ items \o tail \in Seq(Int) /\ Len(items \o tail) = n + 3
      /\ \A k \in 1..(n + 3) :
           (items \o tail)[k] = IF k <= n THEN items[k] ELSE tail[k - n]
  <2>1. /\ items \o tail \in Seq(Int) /\ Len(items \o tail) = Len(items) + Len(tail)
        /\ \A k \in 1..(Len(items) + Len(tail)) :
             (items \o tail)[k] = IF k <= Len(items) THEN items[k] ELSE tail[k - Len(items)]
    BY <1>2, <1>3, ConcatProperties, Zenon
  <2> QED
    BY <1>2, <1>3, <2>1
<1>6. /\ \A k \in 1..n : (items \o tail)[k] = items[k]
      /\ (items \o tail)[n + 1] = tail[1] /\ (items \o tail)[n + 3] = tail[3]
  <2>1. n + 1 \in 1..(n + 3) /\ n + 3 \in 1..(n + 3) /\ ~(n + 1 <= n) /\ ~(n + 3 <= n)
        /\ (n + 1) - n = 1 /\ (n + 3) - n = 3 /\ \A k \in 1..n : k \in 1..(n + 3) /\ k <= n
    BY <1>1
  <2> QED
    BY <1>5, <2>1
<1> QED
  BY <1>3, <1>4, <1>5, <1>6 DEF n, items

\* The next line of the page is at most one below the one before it, as the
\* bucket it is loaded from is, and that bucket has only grown since.
LEMMA LoadLinePage ==
  ASSUME Types, Nested, Page, LoadLine
  PROVE  Page'
<1> DEFINE n == Buckets
<1> DEFINE m == Len(lines) + 1
<1> DEFINE x == writeHistogram(writing)[m]
<1>1. /\ writing \in Histogram /\ lines \in Seq(Int) /\ Len(lines) <= n + 3
      /\ ~Written /\ lines' = Append(lines, x) /\ writing' = writing /\ hist' = hist
  BY DEF Page, LoadLine, KeepFlush
<1>2. /\ n \in Nat /\ n' = n /\ Ks(writing) = 1..n
      /\ Len(lines) \in Nat /\ \A k \in 1..Len(lines) : lines[k] \in Int
  BY <1>1, BoundsOf, LenProperties, ElementOfSeq DEF Buckets, Ks, Bounds
<1>3. /\ Len(writeHistogram(writing)) = n + 3 /\ writeHistogram(writing) \in Seq(Int)
      /\ \A k \in 1..n : writeHistogram(writing)[k] = hist[writing].items[k]
      /\ writeHistogram(writing)[n + 1] = hist[writing].count
      /\ writeHistogram(writing)[n + 3] = hist[writing].count
  BY <1>1, LinesOf DEF Buckets
<1>4. m \in 1..(n + 3) /\ m = Len(lines) + 1 /\ m \in Nat
  BY <1>1, <1>2, <1>3 DEF Written
<1>5. x \in Int
  BY <1>3, <1>4, ElementOfSeq
<1>6. /\ hist[writing].count \in Int
      /\ \A k \in 1..n : hist[writing].items[k] \in Int
      /\ \A k \in 1..n : hist[writing].items[k] <= hist[writing].count
      /\ \A k \in 1..n : 1 < k => hist[writing].items[k - 1] <= hist[writing].items[k] + 1
  <2>1. /\ hist[writing].count \in Int
        /\ \A k \in 1..n : hist[writing].items[k] \in Int
    BY <1>1, <1>2 DEF Types
  <2>2. ASSUME NEW k \in 1..n
        PROVE  /\ hist[writing].items[k] <= hist[writing].count
               /\ 1 < k => hist[writing].items[k - 1] <= hist[writing].items[k] + 1
    <3> DEFINE o1 == One(Due(writing, k + 2) /\ 1 <= add)
    <3> DEFINE o2 == One(Observing(writing) /\ add = k + 1 /\ In(writing, value, k - 1))
    <3>1. /\ hist[writing].items[k] + o1 <= hist[writing].count
          /\ 1 < k => hist[writing].items[k - 1] <= hist[writing].items[k] + o2
      BY <1>1, <1>2 DEF Nested
    <3>2. o1 \in 0..1 /\ o2 \in 0..1
      BY DEF One
    <3>3. 1 < k => k - 1 \in 1..n
      BY <1>2
    <3> HIDE DEF o1, o2
    <3> QED
      BY <2>1, <3>1, <3>2, <3>3
  <2> QED
    BY <2>1, <2>2
<1> HIDE DEF n, m, x
<1>7. /\ lines' \in Seq(Int) /\ Len(lines') = m
      /\ lines'[m] = x /\ \A k \in 1..Len(lines) : lines'[k] = lines[k]
  BY <1>1, <1>2, <1>4, <1>5, AppendProperties
<1>8. ASSUME NEW k \in 1..n, k <= m
      PROVE  /\ lines'[k] <= hist[writing].items[k]
             /\ 1 < k => lines'[k - 1] <= lines'[k] + 1
  <2>1. CASE k = m
    <3>1. lines'[k] = hist[writing].items[k]
      BY <1>3, <1>7, <2>1 DEF x
    <3>2. ASSUME 1 < k PROVE lines'[k - 1] <= lines'[k] + 1
      <4>1. k - 1 \in 1..n /\ k - 1 \in 1..Len(lines)
        BY <1>2, <1>4, <2>1, <3>2
      <4>2. lines'[k - 1] = lines[k - 1] /\ lines[k - 1] \in Int
        BY <1>2, <1>7, <4>1
      <4>3. lines[k - 1] <= hist[writing].items[k - 1]
        BY <1>2, <4>1 DEF Page, n
      <4>4. /\ hist[writing].items[k - 1] <= hist[writing].items[k] + 1
            /\ hist[writing].items[k - 1] \in Int /\ hist[writing].items[k] \in Int
        BY <1>6, <3>2, <4>1
      <4> QED
        BY <3>1, <4>2, <4>3, <4>4
    <3> QED
      BY <1>6, <3>1, <3>2
  <2>2. CASE k # m
    <3>1. k <= Len(lines) /\ k \in 1..Len(lines) /\ (1 < k => k - 1 \in 1..Len(lines))
      BY <1>2, <1>4, <1>8, <2>2
    <3>2. /\ lines[k] <= hist[writing].items[k]
          /\ 1 < k => lines[k - 1] <= lines[k] + 1
      BY <3>1 DEF Page, n
    <3> QED
      BY <1>7, <3>1, <3>2
  <2> QED
    BY <2>1, <2>2
<1>9. ASSUME m > n
      PROVE  /\ lines'[n + 1] <= hist[writing].count
             /\ \A k \in 1..n : lines'[k] <= lines'[n + 1]
  <2>1. CASE m = n + 1
    <3>1. lines'[n + 1] = hist[writing].count
      BY <1>3, <1>7, <2>1 DEF x
    <3>2. ASSUME NEW k \in 1..n PROVE lines'[k] <= lines'[n + 1]
      <4>1. k \in 1..Len(lines) /\ k <= Len(lines)
        BY <1>2, <1>4, <2>1
      <4>2. lines'[k] = lines[k] /\ lines[k] \in Int /\ lines[k] <= hist[writing].items[k]
        BY <1>2, <1>7, <4>1 DEF Page, n
      <4>3. /\ hist[writing].items[k] <= hist[writing].count
            /\ hist[writing].items[k] \in Int /\ hist[writing].count \in Int
        BY <1>6
      <4> QED
        BY <3>1, <4>2, <4>3
    <3> QED
      BY <1>6, <3>1, <3>2
  <2>2. CASE m # n + 1
    <3>1. Len(lines) > n /\ n + 1 \in 1..Len(lines) /\ \A k \in 1..n : k \in 1..Len(lines)
      BY <1>2, <1>4, <1>9, <2>2
    <3>2. lines[n + 1] <= hist[writing].count /\ \A k \in 1..n : lines[k] <= lines[n + 1]
      BY <3>1 DEF Page, n
    <3> QED
      BY <1>7, <3>1, <3>2
  <2> QED
    BY <2>1, <2>2
<1>10. ASSUME m = n + 3 PROVE lines'[n + 1] <= lines'[n + 3]
  <2>1. lines'[n + 3] = hist[writing].count /\ m > n
    BY <1>2, <1>3, <1>7, <1>10 DEF x
  <2> QED
    BY <1>9, <2>1
<1>11. m <= n + 3
  BY <1>2, <1>4
<1> QED
  BY <1>1, <1>2, <1>7, <1>8, <1>9, <1>10, <1>11 DEF Page, n

LEMMA renderPage ==
  ASSUME Page, render
  PROVE  Page'
<1>1. writing' \in Histogram /\ lines' = <<>>
  BY DEF render
<1>2. Buckets' \in Nat
  <2>1. \A h \in Histogram : Len(Bounds[h]) \in Nat
    BY BoundsOf
  <2>2. Bounds' = Bounds
    BY DEF Bounds
  <2> QED
    BY <1>1, <2>1, <2>2 DEF Buckets
<1>3. lines' \in Seq(Int) /\ Len(lines') = 0
  BY <1>1
<1>4. PICK n \in Nat : n = Buckets'
  BY <1>2
<1>5. (\A k \in 1..n : ~(k <= 0)) /\ 0 <= n + 3 /\ 0 # n + 3 /\ ~(0 > n)
  OBVIOUS
<1> QED
  BY <1>1, <1>3, <1>4, <1>5 DEF Page

-----------------------------------------------------------------------------
\* Every step keeps the invariant.

LEMMA ObserveInv ==
  ASSUME Inv, NEW h, NEW here, NEW next, OnRoute(h, here, next), Observe(h, here, next)
  PROVE  Inv'
<1>1. Types /\ Owed /\ Lag /\ Nested /\ Page
  BY DEF Inv
<1>2. Types' /\ Owed' /\ Lag' /\ Nested' /\ Page'
  BY <1>1, ObserveTypes, ObserveOwed, ObserveLag, ObserveNested, ObservePage
<1> QED
  BY <1>2 DEF Inv

LEMMA SendInv ==
  ASSUME Inv, NEW t \in 0..MaxSend, Send(t)
  PROVE  Inv'
<1>1. /\ fpc = "send" /\ UNCHANGED <<backoffVars, counters, hist, add>> /\ KeepPage
  BY DEF Send
<1>2. elapsed + t \in Nat /\ try \in 0..MaxRetries
  BY MetricsAssumption DEF Inv, Types
<1>3. flushes' = flushes /\ flushFailures' = flushFailures
  BY <1>1 DEF counters
<1>4. CASE Ends(elapsed + t)
  BY <1>1, <1>2, <1>3, <1>4, EndsInv
<1>5. CASE fpc' = "failed" /\ elapsed' = elapsed + t /\ UNCHANGED <<value, given, try>>
  BY <1>1, <1>2, <1>3, <1>5, PassesInv
<1>6. CASE /\ try < MaxRetries
           /\ fpc' = "retry" /\ elapsed' = elapsed + t /\ UNCHANGED <<value, given, try>>
  BY <1>1, <1>2, <1>3, <1>6, PassesInv
<1> QED
  BY <1>4, <1>5, <1>6 DEF Send

\* The call is one of those Backoff was proved for.
LEMMA IncRetryAttemptInv ==
  ASSUME Inv, IncRetryAttempt
  PROVE  Inv'
<1>1. /\ fpc = "retry" /\ fpc' = "backoff"
      /\ Call(RetryMinBackoff, RetryMaxBackoff, try)
      /\ UNCHANGED <<flushes, flushFailures, hist, add, try, elapsed, value, given>>
      /\ KeepPage
  BY DEF IncRetryAttempt, Backs
<1>2. try \in 0..MaxRetries /\ try < MaxRetries /\ elapsed \in Nat
  BY <1>1 DEF Inv, Types
<1>3. RetryMinBackoff \in Duration /\ RetryMaxBackoff \in Duration /\ try \in Attempt
  BY <1>2, MetricsAssumption
<1>4. BackoffNext
  BY <1>1, <1>3 DEF BackoffNext
<1> QED
  BY <1>1, <1>2, <1>4, PassesInv

LEMMA ComputeBackoffInv ==
  ASSUME Inv, ComputeBackoff
  PROVE  Inv'
<1>1. /\ fpc = "backoff" /\ BackoffNext /\ KeepPage
      /\ UNCHANGED <<flushes, flushFailures, hist, fpc, add, value, try, elapsed, given>>
  BY DEF ComputeBackoff, BackoffNext, counters, flushVars
<1>2. try \in 0..MaxRetries /\ try < MaxRetries /\ elapsed \in Nat
  BY <1>1 DEF Inv, Types
<1> QED
  BY <1>1, <1>2, PassesInv

LEMMA WaitedIs ==
  ASSUME Inv
  PROVE  Waited \in Nat
<1>1. delay \in Int
  BY BackoffAssumption DEF Inv, Types, BackoffInv, BackoffTypeOK, Int64
<1> QED
  BY <1>1 DEF Waited

LEMMA BackoffTimerInv ==
  ASSUME Inv, BackoffTimer
  PROVE  Inv'
<1>1. /\ fpc = "backoff" /\ fpc' = "send" /\ try' = try + 1 /\ elapsed' = elapsed + Waited
      /\ UNCHANGED <<backoffVars, flushes, flushFailures, hist, add, value, given>>
      /\ KeepPage
  BY DEF BackoffTimer, counters
<1>2. try' \in 0..MaxRetries
  BY <1>1, MetricsAssumption DEF Inv, Types
<1>3. elapsed' \in Nat
  BY <1>1, WaitedIs DEF Inv, Types
<1> QED
  BY <1>1, <1>2, <1>3, PassesInv

LEMMA BackoffCancelledInv ==
  ASSUME Inv, BackoffCancelled
  PROVE  Inv'
<1>1. /\ fpc = "backoff" /\ fpc' = "failed" /\ elapsed' \in {elapsed, elapsed + Waited}
      /\ UNCHANGED <<backoffVars, flushes, flushFailures, hist, add, try, value, given>>
      /\ KeepPage
  BY DEF BackoffCancelled, counters
<1>2. try' \in 0..MaxRetries
  BY <1>1 DEF Inv, Types
<1>3. elapsed' \in Nat
  BY <1>1, WaitedIs DEF Inv, Types
<1> QED
  BY <1>1, <1>2, <1>3, PassesInv

LEMMA IncFlushFailureInv ==
  ASSUME Inv, IncFlushFailure
  PROVE  Inv'
<1>1. /\ fpc = "failed" /\ flushFailures' = flushFailures + 1 /\ Ends(elapsed) /\ KeepPage
      /\ UNCHANGED <<backoffVars, flushes, hist, add>>
  BY DEF IncFlushFailure
<1>2. elapsed \in Nat
  BY DEF Inv, Types
<1> QED
  BY <1>1, <1>2, EndsInv

\* A step of the scrape, or none, leaves the flush as it is.
LEMMA FlushAside ==
  ASSUME Types, Owed, Lag, Nested, KeepFlush
  PROVE  Types' /\ Owed' /\ Lag' /\ Nested'
<1>1. UNCHANGED <<backoffVars, flushes, flushFailures, hist, fpc, add, value, try, elapsed, given>>
  BY DEF KeepFlush, counters, flushVars
<1>2. BackoffInv'
  <2>1. BackoffInv
    BY DEF Types
  <2> QED
    BY <1>1, <2>1, BackoffPreserves
<1>3. \A h : /\ Additions(h)' = Additions(h) /\ Ks(h)' = Ks(h)
             /\ Observing(h)' = Observing(h) /\ \A m : Due(h, m)' = Due(h, m)
  BY <1>1 DEF Additions, Ks, Bounds, Observing, Due
<1>4. Types'
  BY <1>1, <1>2, <1>3 DEF Types
<1>5. Owed' /\ Lag' /\ Nested'
  BY <1>1, <1>3 DEF Owed, Lag, Nested, In, Bounds
<1> QED
  BY <1>4, <1>5

LEMMA Initial == Init => Inv
<1> SUFFICES ASSUME Init PROVE Inv
  OBVIOUS
<1>1. /\ BackoffInit /\ flushes = 0 /\ flushFailures = 0 /\ fpc = "idle" /\ add = 0
      /\ value = 0 /\ try = 0 /\ elapsed = 0 /\ given = hist
      /\ hist = [h \in Histogram |-> newHistogram(Bounds[h])]
      /\ writing = "batch_size" /\ lines = <<>>
  BY DEF Init
<1>2. \A h \in Histogram : ~Observing(h) /\ \A m : ~Due(h, m)
  BY <1>1, NothingDue DEF Quiet
<1>3. ASSUME NEW h \in Histogram
      PROVE  /\ hist[h] \in [count : Nat, sum : Int, items : [Ks(h) -> Int]]
             /\ hist[h].count = 0 /\ hist[h].sum = 0 /\ \A k \in Ks(h) : hist[h].items[k] = 0
  <2>1. hist[h] = newHistogram(Bounds[h])
    BY <1>1
  <2> QED
    BY <2>1 DEF newHistogram, Ks
<1>4. BackoffInv
  BY <1>1, BackoffInitial
<1>5. Types
  <2>1. DOMAIN hist = Histogram /\ 0 \in 0..MaxRetries
    BY <1>1, MetricsAssumption
  <2> QED
    BY <1>1, <1>2, <1>3, <1>4, <2>1 DEF Types
<1>6. "batch_size" \in Histogram /\ "flush_latency" \in Histogram
  BY DEF Histogram
<1>7. Owed
  <2>1. \A h \in Histogram :
          One(Due(h, 1)) = 0 /\ \A k : One(Due(h, k + 2) /\ In(h, value, k)) = 0
    BY <1>2 DEF One
  <2>2. One(fpc \notin {"idle", "latency"}) = 0
    BY <1>1 DEF One
  <2> QED
    BY <1>1, <1>3, <1>6, <2>1, <2>2 DEF Owed
<1>8. Lag
  <2>1. ~Due("flush_latency", 2) /\ Milli \in Nat
    BY <1>2, <1>6, MetricsAssumption
  <2> QED
    BY <1>1, <1>3, <1>6, <2>1 DEF Lag
<1>9. Nested
  <2>1. ASSUME NEW h \in Histogram, NEW k \in Ks(h)
        PROVE  /\ One(Due(h, k + 2) /\ 1 <= add) = 0
               /\ One(Observing(h) /\ add = k + 1 /\ In(h, value, k - 1)) = 0
               /\ hist[h].items[k] = 0 /\ hist[h].count = 0
               /\ 1 < k => hist[h].items[k - 1] = 0
    BY <1>2, <1>3, BoundsOf DEF One
  <2> QED
    BY <2>1 DEF Nested
<1>10. Page
  <2>1. Buckets \in Nat /\ lines \in Seq(Int) /\ Len(lines) = 0 /\ writing \in Histogram
    BY <1>1, <1>6, BoundsOf DEF Buckets
  <2>2. PICK n \in Nat : n = Buckets
    BY <2>1
  <2>3. (\A k \in 1..n : ~(k <= 0)) /\ 0 <= n + 3 /\ 0 # n + 3 /\ ~(0 > n)
    OBVIOUS
  <2> QED
    BY <2>1, <2>2, <2>3 DEF Page
<1> QED
  BY <1>5, <1>7, <1>8, <1>9, <1>10 DEF Inv

LEMMA Preserves == Inv /\ [Next]_vars => Inv'
<1> SUFFICES ASSUME Inv, [Next]_vars PROVE Inv'
  OBVIOUS
<1>1. CASE Observe("batch_size", "batch", "send")
  BY <1>1, ObserveInv DEF OnRoute
<1>2. CASE Observe("flush_latency", "latency", "idle")
  BY <1>2, ObserveInv DEF OnRoute
<1>3. CASE \E t \in 0..MaxSend : Send(t)
  BY <1>3, SendInv
<1>4. CASE IncRetryAttempt
  BY <1>4, IncRetryAttemptInv
<1>5. CASE ComputeBackoff
  BY <1>5, ComputeBackoffInv
<1>6. CASE BackoffTimer
  BY <1>6, BackoffTimerInv
<1>7. CASE BackoffCancelled
  BY <1>7, BackoffCancelledInv
<1>8. CASE IncFlushFailure
  BY <1>8, IncFlushFailureInv
<1>9. CASE \E n \in 1..MaxBatchSize : FlushBegins(n)
  BY <1>9, FlushBeginsInv
<1>10. CASE LoadLine
  BY <1>10, FlushAside, LoadLinePage DEF Inv, LoadLine
<1>11. CASE render
  BY <1>11, FlushAside, renderPage DEF Inv, render
<1>12. CASE UNCHANGED vars
  BY <1>12, FlushAside, PageAside DEF Inv, vars, KeepFlush, KeepPage
<1> QED
  BY <1>1, <1>2, <1>3, <1>4, <1>5, <1>6, <1>7, <1>8, <1>9, <1>10, <1>11, <1>12
  DEF Next, FlushStep

-----------------------------------------------------------------------------
\* A page rendered while a flush is observed hangs together, however the loads
\* of the scrape fall between the additions of the flushes and for any number
\* and choice of ascending bounds: no bucket above +Inf, +Inf not above _count,
\* and no bucket above the next wider one by more than the observation going on.
THEOREM PageHangsTogether == FairSpec => []ConsistentPage
<1>1. Inv => ConsistentPage
  <2> SUFFICES ASSUME Inv PROVE ConsistentPage
    OBVIOUS
  <2>1. Types /\ Page /\ writing \in Histogram /\ lines \in Seq(Int)
    BY DEF Inv, Page
  <2>2. /\ Buckets \in Nat /\ Len(lines) \in Nat
        /\ Len(writeHistogram(writing)) = Buckets + 3
    BY <2>1, BoundsOf, LinesOf, LenProperties DEF Buckets
  <2>3. ASSUME NEW k \in 2..Min({Buckets, Len(lines)})
        PROVE  lines[k - 1] <= lines[k] + 1
    <3>1. Min({Buckets, Len(lines)}) = IF Buckets <= Len(lines) THEN Buckets ELSE Len(lines)
      BY <2>2 DEF Min
    <3>2. k \in 1..Buckets /\ k <= Len(lines) /\ 1 < k
      BY <2>2, <2>3, <3>1
    <3> QED
      BY <2>1, <3>2 DEF Page
  <2> QED
    BY <2>1, <2>2, <2>3 DEF Page, ConsistentPage, Written
<1>2. FairSpec => []Inv
  BY Initial, Preserves, PTL DEF FairSpec
<1> QED
  BY <1>1, <1>2, PTL

\* Between two flushes nothing is missing from the histograms, however many
\* flushes there were, failed or not and retried or not: a batch size and a
\* latency each, every value in every bucket that covers it, and a sum of the
\* latencies short by at most a millisecond per flush.
THEOREM HistogramsExact == FairSpec => []ExactAtRest
<1>1. Inv => ExactAtRest
  <2> SUFFICES ASSUME Inv, fpc = "idle"
      PROVE  LET short == given["flush_latency"].sum - Milli * hist["flush_latency"].sum
             IN  /\ flushFailures <= flushes
                 /\ \A h \in Histogram :
                      hist[h].count = flushes /\ hist[h].items = given[h].items
                 /\ 0 <= short /\ short <= Milli * flushes
    BY DEF ExactAtRest
  <2>1. Types /\ Owed /\ Lag /\ Quiet
    BY DEF Inv, Quiet
  <2>2. \A h \in Histogram : ~Observing(h) /\ \A m : ~Due(h, m)
    BY <2>1, NothingDue
  <2>3. "batch_size" \in Histogram /\ "flush_latency" \in Histogram
        /\ Histogram = {"batch_size", "flush_latency"}
    BY DEF Histogram
  <2>4. \A h \in Histogram :
          /\ hist[h].count \in Nat /\ given[h].count \in Nat
          /\ hist[h].items \in [Ks(h) -> Int] /\ given[h].items \in [Ks(h) -> Int]
    BY <2>1 DEF Types
  <2>5. \A h \in Histogram :
          One(Due(h, 1)) = 0 /\ \A k : One(Due(h, k + 2) /\ In(h, value, k)) = 0
    BY <2>2 DEF One
  <2>6. \A h \in Histogram :
          /\ given[h].count = hist[h].count + 0
          /\ \A k \in Ks(h) : given[h].items[k] = hist[h].items[k] + 0
    BY <2>1, <2>5 DEF Owed
  <2>7. given["batch_size"].count = flushes /\ given["flush_latency"].count = flushes
        /\ flushFailures <= flushes
    <3>1. One(fpc \notin {"idle", "latency"}) = 0
      BY DEF One
    <3>2. /\ given["batch_size"].count = flushes
          /\ flushes = given["flush_latency"].count + 0
          /\ flushFailures <= given["flush_latency"].count
      BY <2>1, <3>1 DEF Owed
    <3> QED
      BY <2>3, <2>4, <3>2
  <2>8. ASSUME NEW h \in Histogram
        PROVE  hist[h].count = flushes /\ hist[h].items = given[h].items
    <3>1. hist[h].count = flushes
      BY <2>3, <2>4, <2>6, <2>7
    <3>2. \A k \in Ks(h) : given[h].items[k] = hist[h].items[k]
      BY <2>4, <2>6
    <3> QED
      BY <2>4, <3>1, <3>2
  <2>9. /\ 0 <= given["flush_latency"].sum - Milli * hist["flush_latency"].sum
        /\ given["flush_latency"].sum - Milli * hist["flush_latency"].sum <= Milli * flushes
    BY <2>1, <2>2, <2>3, <2>7 DEF Lag
  <2> QED
    BY <2>7, <2>8, <2>9
<1>2. FairSpec => []Inv
  BY Initial, Preserves, PTL DEF FairSpec
<1> QED
  BY <1>1, <1>2, PTL

\* In the collector the arguments of Backoff are the configured durations and the
\* attempts of sendWithRetry, and the bounds of every delay hold there too.
THEOREM RetriesBounded == FairSpec => []DelayBounded
<1>1. FairSpec => []Inv
  BY Initial, Preserves, PTL DEF FairSpec
<1> QED
  BY <1>1, PTL DEF Inv, Types, BackoffInv

-----------------------------------------------------------------------------
\* Recursive functions on 0..n: that there is one, and what its values are.

LessThan == {p \in Nat \X Nat : p[1] < p[2]}
LEMMA LeastOf ==
  ASSUME NEW T, T \subseteq Nat, T # {}
  PROVE  \E m \in T : \A k \in T : m <= k
<1>1. OpToRel(<, Nat) = LessThan
  BY DEF OpToRel, LessThan
<1>2. IsWellFoundedOn(LessThan, Nat)
  BY <1>1, NatLessThanWellFounded
<1>3. PICK m \in T : \A k \in T : ~(<<k, m>> \in LessThan)
  BY <1>2, WFMin
<1>4. ASSUME NEW k \in T PROVE m <= k
  <2>1. m \in Nat /\ k \in Nat /\ <<k, m>> \in Nat \X Nat
    OBVIOUS
  <2>2. <<k, m>> \notin LessThan
    BY <1>3
  <2>3. ~(k < m)
    BY <2>1, <2>2 DEF LessThan
  <2> QED
    BY <2>1, <2>3
<1> QED
  BY <1>4

\* f begins with a, and every value follows from the one before.
Follows(f, n, a, step) == f[0] = a /\ \A k \in 1..n : f[k] = step[k][f[k - 1]]

LEMMA Recursion ==
  ASSUME NEW n \in Nat, NEW V, NEW a \in V, NEW step \in [1..n -> [V -> V]]
  PROVE  \E f \in [0..n -> V] : Follows(f, n, a, step)
<1> DEFINE Upto(m) == \E f \in [0..m -> V] :
                        f[0] = a /\ \A k \in 1..m : f[k] = step[k][f[k - 1]]
<1> DEFINE T == {m \in 0..n : ~Upto(m)}
<1>1. ASSUME T # {} PROVE FALSE
  <2>0. T \subseteq Nat
    OBVIOUS
  <2>1. PICK m \in T : \A k \in T : m <= k
    <3> HIDE DEF T
    <3> QED
      BY <1>1, <2>0, LeastOf
  <2>2. m \in 0..n /\ ~Upto(m)
    BY <2>1
  <2>3. m # 0
    <3>1. [k \in 0..0 |-> a] \in [0..0 -> V] /\ [k \in 0..0 |-> a][0] = a /\ 1..0 = {}
      OBVIOUS
    <3>2. Upto(0)
      BY <3>1
    <3> QED
      BY <2>2, <3>2
  <2>4. m - 1 \in 0..n /\ m \in 1..n /\ ~(m <= m - 1)
    BY <2>2, <2>3
  <2>5. m - 1 \notin T
    BY <2>1, <2>4
  <2>6. Upto(m - 1)
    BY <2>4, <2>5
  <2>7. PICK g \in [0..(m - 1) -> V] :
           g[0] = a /\ \A k \in 1..(m - 1) : g[k] = step[k][g[k - 1]]
    BY <2>6
  <2> DEFINE f == [k \in 0..m |-> IF k = m THEN step[m][g[m - 1]] ELSE g[k]]
  <2>8. \A k \in 0..(m - 1) : k \in 0..m /\ f[k] = g[k] /\ g[k] \in V
    BY <2>4
  <2>9. f[m] = step[m][g[m - 1]] /\ f[m - 1] = g[m - 1] /\ g[m - 1] \in V
    BY <2>4, <2>8
  <2>10. step[m][g[m - 1]] \in V
    BY <2>4, <2>9
  <2>11. f \in [0..m -> V]
    BY <2>4, <2>8, <2>10
  <2>12. f[0] = a
    BY <2>4, <2>7, <2>8
  <2>13. ASSUME NEW k \in 1..m PROVE f[k] = step[k][f[k - 1]]
    <3>1. CASE k = m
      BY <3>1, <2>9
    <3>2. CASE k # m
      <4>1. k \in 1..(m - 1) /\ k - 1 \in 0..(m - 1) /\ k \in 0..(m - 1)
        BY <2>4, <3>2
      <4>2. f[k] = g[k] /\ f[k - 1] = g[k - 1]
        BY <2>8, <4>1
      <4> QED
        BY <2>7, <4>1, <4>2
    <3> QED
      BY <3>1, <3>2
  <2> HIDE DEF f
  <2>14. Upto(m)
    BY <2>11, <2>12, <2>13
  <2> QED
    BY <2>2, <2>14
<1>2. n \in 0..n
  OBVIOUS
<1>3. Upto(n)
  BY <1>1, <1>2
<1> QED
  BY <1>3 DEF Follows

\* The values of a function that is only known to fulfil such equations.
LEMMA Unfolds ==
  ASSUME NEW n \in Nat, NEW V, NEW g,
         g[0] \in V, \A k \in 1..n : g[k - 1] \in V => g[k] \in V
  PROVE  \A k \in 0..n : g[k] \in V
<1> DEFINE T == {k \in 0..n : g[k] \notin V}
<1>0. T \subseteq Nat
  OBVIOUS
<1>1. ASSUME T # {} PROVE FALSE
  <2>1. PICK m \in T : \A k \in T : m <= k
    <3> HIDE DEF T
    <3> QED
      BY <1>0, <1>1, LeastOf
  <2>2. m \in 1..n /\ m - 1 \in 0..n /\ ~(m <= m - 1) /\ g[m] \notin V
    BY <2>1
  <2>3. g[m - 1] \in V
    BY <2>1, <2>2
  <2> QED
    BY <2>2, <2>3
<1> QED
  BY <1>1

-----------------------------------------------------------------------------
\* The waits of sendWithRetry.

LEMMA ExponentialIs ==
  /\ Exponential \in [0..MaxRetries -> Nat] 
  /\ Exponential[0] = RetryMinBackoff
  /\ \A j \in 1..MaxRetries : Exponential[j] = 2 * Exponential[j - 1]
<1> DEFINE step == [k \in 1..MaxRetries |-> [x \in Nat |-> 2 * x]]
<1>1. MaxRetries \in Nat /\ RetryMinBackoff \in Nat
  <2>1. RetryMinBackoff \in Int64 /\ 0 < RetryMinBackoff
    BY MetricsAssumption, BackoffAssumption
  <2> QED
    BY <2>1, MetricsAssumption, BackoffAssumption DEF Int64
<1>2. step \in [1..MaxRetries -> [Nat -> Nat]]
  OBVIOUS
<1> HIDE DEF step
<1>3. PICK f \in [0..MaxRetries -> Nat] :
         f[0] = RetryMinBackoff /\ \A k \in 1..MaxRetries : f[k] = step[k][f[k - 1]]
  <2> DEFINE V == Nat
  <2>1. RetryMinBackoff \in V /\ step \in [1..MaxRetries -> [V -> V]]
    BY <1>1, <1>2
  <2> HIDE DEF V
  <2>2. \E f \in [0..MaxRetries -> V] : Follows(f, MaxRetries, RetryMinBackoff, step)
    BY <1>1, <2>1, Recursion
  <2> QED
    BY <2>2 DEF V, Follows
<1>4. ASSUME NEW k \in 1..MaxRetries PROVE f[k] = 2 * f[k - 1]
  <2>1. f[k - 1] \in Nat
    BY <1>1
  <2>2. step[k][f[k - 1]] = 2 * f[k - 1]
    BY <2>1 DEF step
  <2> QED
    BY <1>3, <2>2
<1> DEFINE E(g) == [j \in 0..MaxRetries |-> IF j = 0 THEN RetryMinBackoff ELSE 2 * g[j - 1]]
<1>5. f = E(f)
  <2>1. \A j \in 0..MaxRetries : f[j] = IF j = 0 THEN RetryMinBackoff ELSE 2 * f[j - 1]
    <3> TAKE j \in 0..MaxRetries
    <3>1. j = 0 \/ j \in 1..MaxRetries
      BY <1>1
    <3> QED
      BY <1>3, <1>4, <3>1
  <2> QED
    BY <2>1
<1>6. Exponential = CHOOSE g : g = E(g)
  BY DEF Exponential
<1> HIDE DEF E
<1>7. Exponential = E(Exponential)
  BY <1>5, <1>6
<1>8. /\ Exponential = [j \in 0..MaxRetries |-> Exponential[j]]
      /\ Exponential[0] = RetryMinBackoff
      /\ \A j \in 1..MaxRetries : Exponential[j] = 2 * Exponential[j - 1]
  <2>1. 0 \in 0..MaxRetries /\ \A j \in 1..MaxRetries : j \in 0..MaxRetries /\ j # 0
    BY <1>1
  <2> QED
    BY <1>7, <2>1 DEF E
<1>9. \A j \in 0..MaxRetries : Exponential[j] \in Nat
  <2> DEFINE V == Nat
  <2>1. Exponential[0] \in V /\ \A k \in 1..MaxRetries : Exponential[k - 1] \in V => Exponential[k] \in V
    <3>1. \A x \in Nat : 2 * x \in Nat
      OBVIOUS
    <3> QED
      BY <1>1, <1>8, <3>1, Zenon
  <2> HIDE DEF V
  <2>2. \A j \in 0..MaxRetries : Exponential[j] \in V
    BY <1>1, <2>1, Unfolds
  <2> QED
    BY <2>2 DEF V
<1> QED
  BY <1>8, <1>9

\* Doubling keeps it positive, and a later backoff is no shorter.
LEMMA ExponentialGrows ==
  ASSUME NEW j \in 0..MaxRetries, NEW k \in 0..MaxRetries, j <= k
  PROVE  Exponential[j] <= Exponential[k]
<1> DEFINE T == {m \in 0..MaxRetries : j <= m /\ ~(Exponential[j] <= Exponential[m])}
<1>0. T \subseteq Nat /\ MaxRetries \in Nat
  BY MetricsAssumption
<1>1. ASSUME T # {} PROVE FALSE
  <2>1. PICK m \in T : \A l \in T : m <= l
    <3> HIDE DEF T
    <3> QED
      BY <1>0, <1>1, LeastOf
  <2>2. m \in 0..MaxRetries /\ j <= m /\ ~(Exponential[j] <= Exponential[m])
    BY <2>1
  <2>3. Exponential[j] \in Nat /\ Exponential[m] \in Nat
    BY <2>2, ExponentialIs
  <2>4. m # j
    BY <2>2, <2>3
  <2>5. /\ m \in 1..MaxRetries /\ m - 1 \in 0..MaxRetries /\ j <= m - 1
        /\ ~(m <= m - 1)
    BY <1>0, <2>2, <2>4
  <2>6. Exponential[j] <= Exponential[m - 1]
    BY <2>1, <2>5
  <2>7. Exponential[m] = 2 * Exponential[m - 1] /\ Exponential[m - 1] \in Nat
    BY <2>5, ExponentialIs
  <2> QED
    BY <2>2, <2>3, <2>6, <2>7
<1> QED
  BY <1>1

LEMMA CappedIs ==
  ASSUME NEW j \in 0..MaxRetries
  PROVE  /\ Capped(j) \in Nat
         /\ Exponential[j] <= RetryMaxBackoff => Capped(j) = Exponential[j]
         /\ RetryMaxBackoff <= Exponential[j] => Capped(j) = RetryMaxBackoff
<1>1. RetryMaxBackoff \in Nat
  <2>1. RetryMinBackoff \in Int64 /\ RetryMaxBackoff \in Int64
    BY MetricsAssumption, BackoffAssumption
  <2> QED
    BY <2>1, MetricsAssumption, BackoffAssumption DEF Int64
<1>2. Exponential[j] \in Nat
  BY ExponentialIs
<1>3. Capped(j) = IF RetryMaxBackoff <= Exponential[j] THEN RetryMaxBackoff ELSE Exponential[j]
  BY <1>1, <1>2 DEF Capped, Min
<1> QED
  BY <1>1, <1>2, <1>3

LEMMA TogetherIs ==
  /\ \A k \in 0..MaxRetries : Together[k] \in Nat
  /\ Together[0] = 0
  /\ \A k \in 1..MaxRetries : Together[k] = Together[k - 1] + Capped(k - 1)
<1> DEFINE step == [k \in 1..MaxRetries |-> [x \in Nat |-> x + Capped(k - 1)]]
<1>1. MaxRetries \in Nat
  BY MetricsAssumption
<1>2. \A k \in 1..MaxRetries : Capped(k - 1) \in Nat
  <2> TAKE k \in 1..MaxRetries
  <2>1. k - 1 \in 0..MaxRetries
    BY <1>1
  <2> QED
    BY <2>1, CappedIs
<1>3. step \in [1..MaxRetries -> [Nat -> Nat]]
  BY <1>2
<1> HIDE DEF step
<1>4. PICK f \in [0..MaxRetries -> Nat] :
         f[0] = 0 /\ \A k \in 1..MaxRetries : f[k] = step[k][f[k - 1]]
  <2> DEFINE V == Nat
  <2>1. 0 \in V /\ step \in [1..MaxRetries -> [V -> V]]
    BY <1>3
  <2> HIDE DEF V
  <2>2. \E f \in [0..MaxRetries -> V] : Follows(f, MaxRetries, 0, step)
    BY <1>1, <2>1, Recursion
  <2> QED
    BY <2>2 DEF V, Follows
<1>5. ASSUME NEW k \in 1..MaxRetries PROVE f[k] = f[k - 1] + Capped(k - 1)
  <2>1. f[k - 1] \in Nat
    BY <1>1
  <2>2. step[k][f[k - 1]] = f[k - 1] + Capped(k - 1)
    BY <2>1 DEF step
  <2> QED
    BY <1>4, <2>2
<1> DEFINE E(g) == [k \in 0..MaxRetries |-> IF k = 0 THEN 0 ELSE g[k - 1] + Capped(k - 1)]
<1>6. f = E(f)
  <2>1. \A k \in 0..MaxRetries : f[k] = IF k = 0 THEN 0 ELSE f[k - 1] + Capped(k - 1)
    <3> TAKE k \in 0..MaxRetries
    <3>1. k = 0 \/ k \in 1..MaxRetries
      BY <1>1
    <3> QED
      BY <1>4, <1>5, <3>1
  <2> QED
    BY <2>1
<1>7. Together = CHOOSE g : g = E(g)
  BY DEF Together
<1> HIDE DEF E
<1>8. Together = E(Together)
  BY <1>6, <1>7
<1>9. /\ Together[0] = 0
      /\ \A k \in 1..MaxRetries : Together[k] = Together[k - 1] + Capped(k - 1)
  <2>1. 0 \in 0..MaxRetries /\ \A k \in 1..MaxRetries : k \in 0..MaxRetries /\ k # 0
    BY <1>1
  <2> QED
    BY <1>8, <2>1 DEF E
<1>10. \A k \in 0..MaxRetries : Together[k] \in Nat
  <2> DEFINE V == Nat
  <2>1. /\ Together[0] \in V
        /\ \A k \in 1..MaxRetries : Together[k - 1] \in V => Together[k] \in V
    <3>1. 0 \in Nat /\ \A x, y \in Nat : x + y \in Nat
      OBVIOUS
    <3> QED
      BY <1>2, <1>9, <3>1, Zenon
  <2> HIDE DEF V
  <2>2. \A k \in 0..MaxRetries : Together[k] \in V
    BY <1>1, <2>1, Unfolds
  <2> QED
    BY <2>2 DEF V
<1> QED
  BY <1>9, <1>10

\* What the attempts before try have taken, with k requests.
Spent(k) ==
  /\ Together[try] <= elapsed
  /\ 4 * elapsed <= 5 * Together[try] + 4 * (k * MaxSend)

\* The loop of Backoff follows the plain exponential until it is capped, and the
\* waits follow the loop.
Waits ==
  /\ fpc \in {"idle", "batch", "latency"} => try = 0 /\ elapsed = 0
  /\ fpc # "backoff" => at = "idle"
  /\ fpc = "backoff" =>
       /\ maximum = RetryMaxBackoff /\ attempt = try
       /\ at = "loop" => backoff = Exponential[i]
       /\ at # "loop" => backoff = Capped(try)
  /\ Room(RetryMaxBackoff) =>
       /\ fpc = "send" => Spent(try)
       /\ fpc \in {"retry", "backoff"} => Spent(try + 1)

\* What the types say about the loop and the attempt.
LEMMA WaitTypes ==
  ASSUME Types
  PROVE  /\ MaxRetries \in Nat /\ MaxSend \in Nat /\ try \in 0..MaxRetries /\ elapsed \in Nat
         /\ fpc \in {"retry", "backoff"} => try < MaxRetries
         /\ attempt \in Nat /\ i \in 0..attempt /\ at \in {"idle", "loop", "jitter"}
         /\ backoff \in Nat /\ maximum \in Nat /\ backoff <= maximum
         /\ delay \in Int
         /\ RetryMinBackoff \in Nat /\ RetryMaxBackoff \in Nat
         /\ 0 < RetryMinBackoff /\ RetryMinBackoff <= RetryMaxBackoff
<1>1. BackoffTypeOK /\ DelayBounded
  BY DEF Types, BackoffInv
<1>2. MaxInt \in Nat
  BY BackoffAssumption
<1>3. /\ minimum \in Int /\ maximum \in Int /\ backoff \in Int /\ delay \in Int
      /\ attempt \in Nat /\ i \in 0..attempt /\ at \in {"idle", "loop", "jitter"}
  BY <1>1, <1>2 DEF BackoffTypeOK, Int64
<1>4. 1 <= minimum /\ minimum <= backoff /\ backoff <= maximum
  BY <1>1 DEF DelayBounded
<1>5. RetryMinBackoff \in Int64 /\ RetryMaxBackoff \in Int64
  BY MetricsAssumption, BackoffAssumption
<1>6. RetryMinBackoff \in Nat /\ RetryMaxBackoff \in Nat
      /\ 0 < RetryMinBackoff /\ RetryMinBackoff <= RetryMaxBackoff
  BY <1>2, <1>5, MetricsAssumption DEF Int64
<1> QED
  BY <1>3, <1>4, <1>6, MetricsAssumption DEF Types

\* One more request of at most MaxSend.
LEMMA OneMore ==
  ASSUME NEW k \in Nat, MaxSend \in Nat
  PROVE  4 * ((k + 1) * MaxSend) = 4 * (k * MaxSend) + 4 * MaxSend
<1>1. \A x, y \in Nat : (x + 1) * y = x * y + y /\ x * y \in Nat
  OBVIOUS
<1>2. (k + 1) * MaxSend = k * MaxSend + MaxSend /\ k * MaxSend \in Nat
  BY <1>1
<1> QED
  BY <1>2

LEMMA BackoffLoopWaits ==
  ASSUME Types, Waits, ComputeBackoff
  PROVE  Waits'
<1>1. /\ fpc = "backoff" /\ BackoffStep /\ UNCHANGED <<fpc, try, elapsed>>
      /\ maximum' = maximum /\ attempt' = attempt
  BY DEF ComputeBackoff, flushVars, BackoffStep, Double, Saturate, LoopEnds, Jitter
<1>2. /\ maximum = RetryMaxBackoff /\ attempt = try
      /\ at = "loop" => backoff = Exponential[i]
      /\ at # "loop" => backoff = Capped(try)
  BY <1>1 DEF Waits
<1>3. /\ MaxRetries \in Nat /\ try \in 0..MaxRetries /\ i \in 0..try /\ backoff \in Nat
      /\ maximum \in Nat /\ backoff <= maximum
  BY <1>2, WaitTypes
<1>4. /\ at' = "loop" => backoff' = Exponential[i']
      /\ at' # "loop" => backoff' = Capped(try)
  <2>1. CASE Double
    <3>1. /\ at = "loop" /\ i < try /\ ~Saturated /\ backoff' = Wrap(2 * backoff) /\ i' = i + 1
          /\ at' = "loop"
      BY <1>2, <2>1 DEF Double
    <3>2. backoff' = 2 * backoff
      <4>1. backoff \in Int64 /\ maximum \in Int64 /\ 1 <= backoff
        BY BackoffAssumption DEF Types, BackoffInv, BackoffTypeOK, DelayBounded, Int64
      <4>2. backoff < maximum /\ backoff <= maximum \div 2
        BY <1>3, <3>1 DEF Saturated
      <4> QED
        BY <3>1, <4>1, <4>2, DoublingFits
    <3>3. i + 1 \in 1..MaxRetries /\ (i + 1) - 1 = i
      BY <1>3, <3>1
    <3>4. Exponential[i + 1] = 2 * Exponential[i]
      BY <3>3, ExponentialIs
    <3> QED
      BY <1>2, <3>1, <3>2, <3>4
  <2>2. CASE Saturate
    <3>1. /\ at = "loop" /\ i < try /\ Saturated /\ backoff' = maximum /\ at' = "jitter"
      BY <1>2, <2>2 DEF Saturate
    <3>2. i + 1 \in 1..MaxRetries /\ i + 1 <= try /\ (i + 1) - 1 = i /\ i \in 0..MaxRetries
      BY <1>3, <3>1
    <3>3. /\ Exponential[i + 1] = 2 * backoff /\ Exponential[i] = backoff
          /\ Exponential[i + 1] <= Exponential[try] /\ Exponential[try] \in Nat
      BY <1>2, <1>3, <3>1, <3>2, ExponentialIs, ExponentialGrows
    <3>4. maximum <= 2 * backoff
      BY <1>3, <3>1 DEF Saturated
    <3>5. RetryMaxBackoff <= Exponential[try]
      BY <1>2, <1>3, <3>3, <3>4
    <3> QED
      BY <1>2, <1>3, <3>1, <3>5, CappedIs
  <2>3. CASE LoopEnds
    <3>1. at = "loop" /\ i = try /\ backoff' = backoff /\ at' = "jitter"
      BY <1>2, <2>3 DEF LoopEnds
    <3> QED
      BY <1>2, <1>3, <3>1, CappedIs
  <2>4. CASE Jitter
    BY <1>2, <2>4 DEF Jitter
  <2> QED
    BY <1>1, <2>1, <2>2, <2>3, <2>4 DEF BackoffStep
<1> QED
  BY <1>1, <1>2, <1>4 DEF Waits, Spent

LEMMA TimerWaits ==
  ASSUME Types, Waits, BackoffTimer
  PROVE  Waits'
<1>1. /\ fpc = "backoff" /\ at = "idle" /\ at' = at /\ fpc' = "send" /\ try' = try + 1
      /\ elapsed' = elapsed + Waited /\ UNCHANGED backoffVars
  BY DEF BackoffTimer, backoffVars
<1>2. /\ MaxRetries \in Nat /\ MaxSend \in Nat /\ try \in 0..MaxRetries /\ try < MaxRetries
      /\ elapsed \in Nat /\ backoff \in Nat /\ delay \in Int
  BY <1>1, WaitTypes
<1>3. ASSUME Room(RetryMaxBackoff) PROVE Spent(try)'
  <2>1. /\ backoff = Capped(try) /\ maximum = RetryMaxBackoff
        /\ Together[try] <= elapsed
        /\ 4 * elapsed <= 5 * Together[try] + 4 * ((try + 1) * MaxSend)
    BY <1>1, <1>3 DEF Waits, Spent
  <2>2. backoff <= delay /\ 4 * (delay - backoff) <= backoff
    BY <1>1, <1>3, <2>1 DEF Types, BackoffInv, DelayBounded
  <2>3. Waited = delay
    BY <1>2, <2>2 DEF Waited
  <2>4. try + 1 \in 1..MaxRetries /\ (try + 1) - 1 = try
    BY <1>2
  <2>5. Together[try + 1] = Together[try] + Capped(try) /\ Together[try] \in Nat
    BY <1>2, <2>4, TogetherIs
  <2>6. (try + 1) * MaxSend \in Nat
    BY <1>2
  <2> DEFINE m == (try + 1) * MaxSend
  <2> HIDE DEF m
  <2>7. m \in Nat /\ 4 * elapsed <= 5 * Together[try] + 4 * m
    BY <2>1, <2>6 DEF m
  <2>8. /\ Together[try + 1] <= elapsed + delay
        /\ 4 * (elapsed + delay) <= 5 * Together[try + 1] + 4 * m
    BY <1>2, <2>1, <2>2, <2>5, <2>7
  <2> QED
    BY <1>1, <2>3, <2>8 DEF Spent, m
<1> QED
  BY <1>1, <1>3 DEF Waits

\* The steps that are not part of a backoff.
LEMMA OtherWaits ==
  ASSUME Types, Waits, at = "idle", at' = "idle", fpc' # "backoff",
         \/ try' = 0 /\ elapsed' = 0 /\ fpc' \in {"idle", "batch", "latency", "send"}
         \/ fpc' = "failed"
         \/ /\ try' = try /\ fpc = "send" /\ fpc' = "retry"
            /\ \E t \in 0..MaxSend : elapsed' = elapsed + t
  PROVE  Waits'
<1>1. /\ MaxSend \in Nat /\ try \in Nat /\ elapsed \in Nat /\ MaxRetries \in Nat
      /\ try \in 0..MaxRetries
  BY WaitTypes
<1>2. CASE try' = 0 /\ elapsed' = 0 /\ fpc' \in {"idle", "batch", "latency", "send"}
  <2>1. Together[0] = 0 /\ 0 * MaxSend = 0
    BY <1>1, TogetherIs
  <2>2. Spent(try)'
    BY <1>2, <2>1 DEF Spent
  <2> QED
    BY <1>2, <2>2 DEF Waits
<1>3. CASE fpc' = "failed"
  BY <1>3 DEF Waits
<1>4. CASE /\ try' = try /\ fpc = "send" /\ fpc' = "retry"
           /\ \E t \in 0..MaxSend : elapsed' = elapsed + t
  <2>1. PICK t \in 0..MaxSend : elapsed' = elapsed + t
    BY <1>4
  <2>2. ASSUME Room(RetryMaxBackoff) PROVE Spent(try + 1)'
    <3>1. Together[try] <= elapsed /\ 4 * elapsed <= 5 * Together[try] + 4 * (try * MaxSend)
      BY <1>4, <2>2 DEF Waits, Spent
    <3>2. Together[try] \in Nat /\ try * MaxSend \in Nat
      BY <1>1, TogetherIs
    <3>3. 4 * ((try + 1) * MaxSend) = 4 * (try * MaxSend) + 4 * MaxSend
      BY <1>1, OneMore
    <3> DEFINE m == try * MaxSend
    <3> HIDE DEF m
    <3>4. /\ Together[try] <= elapsed + t
          /\ 4 * (elapsed + t) <= 5 * Together[try] + (4 * m + 4 * MaxSend)
      <4>1. m \in Nat /\ 4 * elapsed <= 5 * Together[try] + 4 * m
        BY <3>1, <3>2 DEF m
      <4> QED
        BY <1>1, <3>1, <3>2, <4>1
    <3> QED
      BY <1>4, <2>1, <3>3, <3>4 DEF Spent, m
  <2> QED
    BY <1>4, <2>2 DEF Waits
<1> QED
  BY <1>2, <1>3, <1>4

\* The call of Backoff: the loop begins with the configured minimum.
LEMMA CallWaits ==
  ASSUME Types, Waits, IncRetryAttempt
  PROVE  Waits'
<1>1. /\ fpc = "retry" /\ fpc' = "backoff" /\ try' = try /\ elapsed' = elapsed
      /\ Call(RetryMinBackoff, RetryMaxBackoff, try)
  BY DEF IncRetryAttempt, Backs
<1>2. /\ try \in Nat /\ RetryMinBackoff \in Nat /\ RetryMaxBackoff \in Nat
      /\ 0 < RetryMinBackoff /\ RetryMinBackoff <= RetryMaxBackoff
  BY WaitTypes
<1>3. /\ maximum' = RetryMaxBackoff /\ attempt' = try /\ backoff' = RetryMinBackoff
      /\ i' = 0 /\ at' = "loop"
  BY <1>1, <1>2 DEF Call
<1>4. backoff' = Exponential[i']
  BY <1>3, ExponentialIs
<1> QED
  BY <1>1, <1>3, <1>4 DEF Waits, Spent

LEMMA WaitsPreserved == Inv /\ Waits /\ [Next]_vars => Waits'
<1> SUFFICES ASSUME Inv, Waits, [Next]_vars PROVE Waits'
  OBVIOUS
<1>0. Types
  BY DEF Inv
<1>1. CASE Observe("batch_size", "batch", "send")
  <2>1. /\ fpc = "batch" /\ fpc' \in {"batch", "send"} /\ UNCHANGED <<backoffVars, try, elapsed>>
    BY <1>1 DEF Observe
  <2>2. at = "idle" /\ at' = "idle" /\ try' = 0 /\ elapsed' = 0
    BY <2>1 DEF Waits, backoffVars
  <2> QED
    BY <1>0, <2>1, <2>2, OtherWaits
<1>2. CASE Observe("flush_latency", "latency", "idle")
  <2>1. /\ fpc = "latency" /\ fpc' \in {"latency", "idle"} /\ UNCHANGED <<backoffVars, try, elapsed>>
    BY <1>2 DEF Observe
  <2>2. at = "idle" /\ at' = "idle" /\ try' = 0 /\ elapsed' = 0
    BY <2>1 DEF Waits, backoffVars
  <2> QED
    BY <1>0, <2>1, <2>2, OtherWaits
<1>3. ASSUME NEW t \in 0..MaxSend, Send(t) PROVE Waits'
  <2>1. /\ fpc = "send" /\ UNCHANGED backoffVars
        /\ \/ fpc' = "latency" /\ elapsed' = 0 /\ try' = 0
           \/ fpc' = "failed"
           \/ fpc' = "retry" /\ elapsed' = elapsed + t /\ try' = try
    BY <1>3 DEF Send, Ends
  <2>2. at = "idle" /\ at' = "idle"
    BY <2>1 DEF Waits, backoffVars
  <2> QED
    BY <1>0, <2>1, <2>2, OtherWaits
<1>4. CASE IncRetryAttempt
  BY <1>0, <1>4, CallWaits
<1>5. CASE ComputeBackoff
  BY <1>0, <1>5, BackoffLoopWaits
<1>6. CASE BackoffTimer
  BY <1>0, <1>6, TimerWaits
<1>7. CASE BackoffCancelled
  <2>1. at = "idle" /\ at' = "idle" /\ fpc' = "failed"
    BY <1>7 DEF BackoffCancelled, backoffVars
  <2> QED
    BY <1>0, <2>1, OtherWaits
<1>8. CASE IncFlushFailure
  <2>1. fpc = "failed" /\ UNCHANGED backoffVars /\ fpc' = "latency" /\ elapsed' = 0 /\ try' = 0
    BY <1>8 DEF IncFlushFailure, Ends
  <2>2. at = "idle" /\ at' = "idle"
    BY <2>1 DEF Waits, backoffVars
  <2> QED
    BY <1>0, <2>1, <2>2, OtherWaits
<1>9. ASSUME NEW n \in 1..MaxBatchSize, FlushBegins(n) PROVE Waits'
  <2>1. fpc = "idle" /\ fpc' = "batch" /\ UNCHANGED <<backoffVars, try, elapsed>>
    BY <1>9 DEF FlushBegins
  <2>2. at = "idle" /\ at' = "idle" /\ try' = 0 /\ elapsed' = 0
    BY <2>1 DEF Waits, backoffVars
  <2> QED
    BY <1>0, <2>1, <2>2, OtherWaits
<1>10. ASSUME KeepFlush PROVE Waits'
  BY <1>10 DEF KeepFlush, flushVars, backoffVars, Waits, Spent
<1> QED
  BY <1>1, <1>2, <1>3, <1>4, <1>5, <1>6, <1>7, <1>8, <1>9, <1>10
  DEF Next, FlushStep, LoadLine, render, vars, KeepFlush

\* For every configured minimum, maximum and number of retries, an attempt of a
\* flush begins after at least the capped exponential backoffs before it, and
\* later than them by no more than a quarter and the time of the requests.
THEOREM WaitsFollowConfiguration == FairSpec => []WaitsAddUp
<1>1. Init => Waits
  <2> SUFFICES ASSUME Init PROVE Waits
    OBVIOUS
  <2>1. fpc = "idle" /\ try = 0 /\ elapsed = 0 /\ at = "idle"
    BY DEF Init, BackoffInit
  <2> QED
    BY <2>1 DEF Waits
<1>2. Waits => WaitsAddUp
  BY DEF Waits, WaitsAddUp, Spent
<1>3. FairSpec => [](Inv /\ Waits)
  BY <1>1, Initial, Preserves, WaitsPreserved, PTL DEF FairSpec
<1> QED
  BY <1>2, <1>3, PTL
=============================================================================
