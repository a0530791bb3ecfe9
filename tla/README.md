# Verification of the Formation web analytics collector

TLA+ models of the collector in `src/`, checked with TLC on small instances and,
where marked, proved with TLAPS for every value of the parameters.
`PROJECT.json` has the machine-readable side: components, runs, mutants, the map
from definitions to source lines, findings, hazards and theorems.

## 1. The system

The collector is one Go process. Browsers post events; handlers check, enrich and
queue them in memory; one goroutine sends them to Elasticsearch in bulk.

| Component | Source | State | Operations | Talks to |
|---|---|---|---|---|
| queue | `internal/queue` | ring buffer, capacity, one-slot notification channel | Enqueue, DropNewest, Prepend, Drain, Len, Notify | called by handlers and batcher, under one mutex |
| batcher | `internal/batcher` | ready flag, done channel, the batch in hand | Run, Drain, flush, sendWithRetry | queue, bulk client, metrics; cancelled by main |
| bulk client | `internal/elastic` | none but the HTTP client | Send, Ping, BuildBulkPayload, Backoff | Elasticsearch |
| rate limiter | `internal/httpapi/ratelimiter.go` | the window and the table of clients | Allow | called by every handler, under one mutex |
| geo resolver | `internal/geo` | the open database and its FileInfo | New, Lookup, ReloadIfChanged, Close | handlers (read lock), daily watch (write lock), the file system |
| http api | `internal/httpapi/server.go` | none of its own | handleCollect, handleReady, ... | limiter, geo resolver, queue, metrics |
| metrics | `internal/metrics` | atomics | counters, gauge, histograms, render | everybody |
| process | `cmd/collector/main.go` | contexts, servers, goroutines | start, shutdown goroutine, geo watch, exit | everything |
| events | `internal/events` | a cache of time zones | DecodeBatch, Enrich, ApplyFieldLimits, Validate, EnsureDocumentID | handlers, bulk client |
| configuration | `internal/config` | none | Load | main |

What is hard in it, and what makes each part correct:

* **queue** - indices modulo a capacity that changes. Correct: it is a FIFO queue.
* **batcher** - cancellation between any two steps; item-by-item verdicts; lost
  replies; restored batches. Correct: no event vanishes, order is kept, each event
  is counted once, nothing is stored twice, every event is settled in the end.
* **process** - one deadline over several waits, handlers still at work while the
  servers close. Correct: it exits; if it exits cleanly, nothing is left behind.
* **rate limiter** - the clock is read outside the lock. Correct: the table is
  bounded and no client gets more than its share.
* **geo resolver** - a memory-mapped file closed while others read; a file that
  changes at any moment. Correct: no use after close, no leak, replacements are
  noticed.
* **http api** - handlers interleave with each other and the batcher between the
  queue operation and the metrics. Correct: requests enter as units, counters
  balance, the gauge tells the truth in the end.
* **metrics** - every value is an atomic of its own, read one by one for a page
  while a flush updates them; durations that double and can overflow. Correct: a
  page never contradicts itself by more than the observation going on, histograms
  are exact between flushes, the backoffs are those configured.
* **events and configuration** - many small checks whose order matters: a URL is
  matched, then sanitized, cut and validated; a body is tried with two decoders; a
  cache remembers time zones; one host is written in many ways. Correct: what is
  admitted follows from the configuration; what is stored of a URL still names the
  host that was checked; no query or fragment gets stored, except of a Referer header
  that cannot be parsed (finding 4); and a field or a payload string that is too long is
  shortened, so that no event is refused for a length. A URL that is shortened may still
  be refused for what is left of it (section 4).

`PROJECT.json` lists each hazard at its line with the properties that cover it.

## 2. The modules

| Module | Models | State and actions |
|---|---|---|
| `FifoQueue` | what `internal/queue` promises | a sequence, the bound, the token; one action per method |
| `Queue` | `internal/queue/queue.go` | slots, head, size, capacity; one action per method; refines `FifoQueue` |
| `Queue_proofs` | - | the proofs about `Queue` |
| `Elastic` | `Client.Send` and Elasticsearch's side of it | operators: reply to result |
| `Backoff` | `Backoff` in `internal/elastic` | the locals of one call at a time; the doubling loop, the cap and the jitter are steps, on int64 durations that wrap |
| `Batcher` | `internal/batcher`, document ids | uses `FifoQueue` and `Elastic`; one action per select case, loop test, exchange, backoff outcome and flush outcome |
| `Batcher_proofs` | - | the proofs about `Batcher` |
| `Collector` | `cmd/collector/main.go` | extends `Batcher`; handlers, signals, shutdown goroutine, deadline, exit; refines `Batcher` |
| `Collector_proofs` | - | the proofs about `Collector`; extends `Batcher_proofs` |
| `Metrics` | `internal/metrics`, the metrics and the duration of a flush | extends `Backoff`; one action per atomic addition, request, retry, timer and load of a page |
| `Metrics_proofs` | - | the proofs about `Backoff` and `Metrics` |
| `RateLimiter` | `ratelimiter.go` and the clock reading in `handleCollect` | the window, the table; reading the clock and Allow are separate actions |
| `RateLimiter_proofs` | - | the proofs about `RateLimiter` |
| `GeoResolver` | `internal/geo` and `watchGeoIP` | the file, handles, reader, FileInfo, lookups; one action per system call or lock |
| `GeoResolver_proofs` | - | the proofs about `GeoResolver` |
| `HttpApi` | `handleCollect`, admission counters, gauge | many handlers, one step per atomic or queue call; the batcher as a consumer |
| `HttpApi_proofs` | - | the proofs about `HttpApi` |
| `Address` | hosts, Origins and URLs in `config`, `events` and `server.go` | operators on addresses given by their parts |
| `Config` | `config.Load` | operators: environment to configuration or the first error |
| `Payload` | the payload limits in `events` | a payload as the sequence of its values; what each recursive Go function returns, as a recursive function on the places |
| `Admission` | decoding, the content checks of `handleCollect`, `ApplyFieldLimits`, `Validate`, the zone cache | start with an environment, then one action per stage of a request; extends `Config` and `Payload` |
| `Admission_proofs` | - | the proofs about `Admission`, `Config`, `Address` and `Payload` |

The `MC*` modules and the cfg files next to them give the constants values.

How the models stand to the code:

* A method that holds a mutex for its whole body is one step. A loop over a slice
  is written in closed form.
* In `Batcher` an event is its arrival number and its document id. `batch` and
  `pending` are separate variables, but on the first attempt they are one slice in
  Go (`pending := batch`), and so ids drawn for one appear in the other
  (`Aliased`). This is what makes retries after a restore idempotent.
* A step that commutes with every step of other goroutines is merged with its
  neighbour: a loop's tests with the `Drain` that follows, a reply with the first
  test of `ctx` after it. The second test of `ctx`, in `flush`, is a step of its
  own, because a cancellation in between matters (finding 1).
* Replies are everything `Send` can meet: a payload that was not built, a failed
  connection, an error status, a body that is no JSON, success, item lists with any
  mix of statuses, and lists of the wrong length. A request whose reply is
  ambiguous leaves its documents on the wire: Elasticsearch may store them then,
  later or never (`IndexLate`).
* `HttpApi` knows a request by what the checks find, in the order of the code. Its
  consumer may take a batch whenever the real one could and may stop early.
* `HttpApi` takes the content checks as facts about a request; `Admission` is what
  those checks compute. There requests follow one another: the checks share only
  the configuration, which is fixed, and the zone cache, which only grows, so two
  handlers at once decide as they would in turn. `Return` forgets the request.
* An address is a record of its parts (scheme, host, port, path, query, whether it
  parses); the operators say what parsing, normalizing, sanitizing and cutting make of
  the parts. A host has one letter or two, so that it can be cut: this happens only to
  a URL without `//`, where Go's parser takes the host for a part of the path
  (events.go:407-421). An environment is a record of the settings that some check
  depends on.
* An event has the fields the checks read, the referrer it was sent with, and the
  Referer header of the request (`referer`), which `Enrich` copies and nothing checks.
  `unknown` stands for a field that the struct `Event` lacks, which is all the decoder
  refuses. The fields the server fills in are fields of `Event` too, so a client may send
  them: `claimed` says which of them it sent, and `FilledIn` which of these Enrich
  overwrites.
* A payload is the sequence of all values in it in the order of its text, each with the
  place of the map or list it is a member of. A recursive Go function is a recursive
  function on the places: the depth follows from the place it is in, errors and
  counts from the members. Go visits a map in any order, and so which of its errors
  is met first is left open. `WithinLimits` says without a walk which payloads pass;
  an entry is for it what it is for the code (section 4), and `PayloadVerdict` compares
  the two.
* In `Metrics` durations wrap at a small `MaxInt`, which puts the overflow within
  reach. A latency goes through a float64 and may lose a millisecond.
* Definitions introduced by "A slip:" are not part of a specification. They are
  the faults used to show that a property can fail.

## 3. The runs

Each run finishes within three minutes with two workers.

| Run | Bounds | What it shows |
|---|---|---|
| `queue_ring` | 2 events, 3 slots, slices up to 2, growth to 5 | exact slots, refinement of `FifoQueue` |
| `batcher` | queue 2, batch 2, requests of 2, 1 retry, 3 events, HTTP statuses 400 and 503, items 201, 400, 409, 429 | nothing vanishes, arrival order, final verdicts, exact counters, no duplicates, no false "indexed", no lost wakeup; every event is settled; Run and Drain end |
| `batcher_restore` | the same with 2 events, status 503, items 201 and 429 | finding 1 |
| `collector` | queue, batch and request of 1, 1 retry, 3 events, 1 handler, statuses 400 and 503, items 201 and 429 | the process keeps to the batcher's specification; clean exit loses nothing; growth of the queue is bounded; a stopped process exits |
| `ratelimiter_safety` | 3 clients and the unknown one, 3 handlers, limit 2, table of 2, 2 minutes | bounded table, justified refusals, the real limit |
| `ratelimiter_stale` | 2 clients, 2 handlers, limit 1 | finding 2 |
| `geo_reload` | 5 versions, one missing and one broken, 2 lookups | no use after close, no leak, FileInfo not newer, replacements served |
| `geo_new` | 2 versions | finding 3 |
| `http_handlers` | 2 handlers, 14 kinds of request, 2 requests, queue 3, both drop policies | requests as units, counters balance, the gauge catches up |
| `flush_metrics` | backoff from 3 to 8, 3 retries, largest integer 9, batches of 2, 2 flushes, bounds `<<1>>` and `<<2, 8>>` | the backoff stays within its bounds; a page rendered during an observation is off by that observation at most; histograms are exact at rest; the waits add up to the exponential that was configured; a flush ends |
| `admission` | 37 environments, about 1000 requests, fields up to 12, 4 or 1 long, 4 entries, depth 3 or 1 | Load lets only sound settings pass; domains and sites decide as written in the configuration; URLs stay matched and sanitized; what a length can do to an event; how payloads, zones and bodies are judged |
| `referer_query` | 1 environment, the same requests | finding 4 |

Why the bounds are enough to be interesting: the ring wraps, is full, grows and
empties at every head; three events against batches and a queue of two give a
full batch or a part of one in flight, a queue behind it that may be full, and a restore
past the bound in front of later events; one retry gives a
first, a last and an exhausted attempt; three handlers give one that is late by a
minute, one that fills the table and one that meets it full; five versions of the
file allow two replacements during one reload; a maximum of 8 below a largest
integer of 9 makes the third doubling overflow if the loop goes one step too far,
and leaves the jitter just room; two bounds on latencies give values below, on,
between and above them; the environments and requests of `admission` put every
check alone and the pairs of checks that meet on one field, with lengths on both
sides of the limit, and fields of 4 cut a host, a path and an escape each in the middle.
In `collector` statuses are one of each kind, since it asks about the process; `batcher`
has every kind the client tells apart (created, failed, conflict, retryable), of which a
proof covers any number.

Type invariants are not asked of TLC where they are proved (section 5), but for
`HttpApi`'s, which says more than types: a request is answered or a handler is serving it.

Three properties speak of the time before a cancellation only (`VerdictFinal`,
`CountersExact`, `EventuallySettled`): after it finding 1 makes them false.
`InfoNotNewer` and `ReplacementServed` except a file replaced during `New`, which
is finding 3. `CHECK_DEADLOCK FALSE` is set where the system may stop: after
`Drain`, after exit, after a configuration that Load refuses, when the bounded supply of events, requests or files ends.

**Fairness.** Run's goroutine is scheduled, its ticker ticks, a bulk request ends
within the client's 15 seconds and a backoff timer fires: weak fairness of the
batcher's steps. Go's `select` chooses among ready cases at random, so a ready
`ctx.Done()` is not passed over for ever: strong fairness of `SelectDone`. In
`Collector` no fairness is assumed for handlers, which may hang, nor for bulk
requests before their context is cancelled; the deadline passes and the shutdown
goroutine runs. In `GeoResolver` midnight comes, lookups end; nobody need ever
replace the file. In `HttpApi` handlers that have read their request run on. In `Metrics` bulk requests and timers
end; nobody need ever scrape.

## 4. Findings

1. *Confirmed events are restored* (`batcher_restore`). The context is cancelled
   after the last test in `sendWithRetry` and before the one in `flush`: the whole
   batch goes back, with the events that were confirmed. `batcher_test.go:197`
   expects "only the pending event to be restored". Elasticsearch stays free of
   duplicates (`StoredOnce` holds throughout), the counters do not.
2. *A stale minute resets the limiter* (`ratelimiter_stale`). A handler that read
   the clock before the minute changed and gets the lock after it makes the table
   forget the current minute. What does hold is `LimitedButForRollbacks`.
3. *A replaced database goes unnoticed* (`geo_new`). `New` opens before it stats;
   README.md:229 says a replacement is found at the next check. `ReloadIfChanged`
   does it in the right order (`InfoNotNewer`).

4. *A Referer keeps its query* (`referer_query`). `sanitizeURL` returns what `url.Parse`
   refuses as it is (events.go:445). An event whose `url` or `referrer` is like that is
   refused by `Validate`, or the field emptied by `truncateURLField`; the Referer header
   goes through `NewRequestMetadata` and `Enrich` (events.go:200-203, 271) into the event
   and is not looked at again. In the trace a usual event comes with a Referer that has a
   query and cannot be parsed, such as `https://a/%zz?t=x`, and is stored with it.
   README.md:212 names `referer_header` among the fields that are stripped. What does
   hold is `UrlsSanitized`.

Met while modelling, and kept in the models as the code has it, without a run:

* `flushAll`, and so the drain at shutdown, ends at the first batch that fails;
  README.md:228 says the drain goes on "for up to 10 seconds". `GracefulExit`
  therefore excepts an exit after a failed flush.
* A `client_ip` in the body is kept when CAPTURE_CLIENT_IP is false (README.md:232).
* More generally, `docs/api.md:72` has unknown top-level fields rejected and
  `openapi.json:225-290` admits 13 fields and no others, but `Event` has some thirty more, filled in
  by the server (`client_ip`, `is_suspect`, `traffic_quality`, `geo_*` and others), and the
  decoder takes them all. `BodyVerdict` is about what the code does: such an event is
  accepted, and of the values it brought `Enrich` overwrites all but those of the IP addresses
  that are not captured. The fields for GeoIP and traffic quality are overwritten outside
  `Enrich` and only in some cases (server.go:138, 164); they are not modelled.
* `openapi.json:156` says the Origin is checked against ALLOWED_DOMAINS;
  `handleCollect` checks the host of the request.
* A scalar or string member of a payload counts as two entries against a limit that
  `docs/api.md:68` and `openapi.json:277` give as 128 entries: a flat payload of 65
  numbers is refused. `WithinLimits` counts as the code does, so `PayloadVerdict` says
  that the walk is right about its own count, not that the count is the documented one.
* A URL that is shortened may be refused for what is left of it, where `docs/api.md:74`
  says that oversized strings are truncated before validation: cut inside an escape it is
  an `invalid_url`, and a `//host:8/path` loses its `//` and is refused for the scheme
  `host`. `LengthVerdict` says that these two cases are the only ones.
* A URL without `//` whose host is itself longer than MAX_FIELD_LENGTH has it cut after it
  was matched with the Origin (README.md:211): of `longhost/p` a limit of 4 stores `long`.
  `UrlStillMatches` excepts it.
* `site_id` is trimmed in `Validate` but not where it is looked up in the site map.

## 5. The proofs

`Queue_proofs` proves, for every event set, capacity, batch length and bound:

* `TypeCorrect`, `ExactRing`: the invariant `IInv == TypeOK /\ RingExact` is
  inductive. Neither part is inductive by itself as used here: that `Contents` is
  a sequence of events needs both the shape and the exact slots.
* `ImplementsFifo`: `Spec => FifoSpec` under the mapping `queue <- Contents`.

The argument: `RingArithmetic` replaces the modulus by a case distinction, after
which slots and places are linear arithmetic; `SlotFacts` says that `Slot` and
`Offset` are inverse; `AppendLemma`, `PutBeforeLemma`, `PrependLemma` and
`DrainLemma` say what each operation does to `Contents`; `NextLemma` maps each
step to a step of `FifoQueue`. The only assumption is `QueueAssumption`: positive
capacity, natural bounds, and a zero Event that no caller passes in. (In Go a
caller could pass `events.Event{}`, but handlers only pass validated events, whose
type is not empty.)

`RateLimiter_proofs` proves, for any clients, any handlers, any limit, table size
and number of minutes: `TypeCorrect`, `BoundedTable` and `RateLimited`. The
inductive invariant adds to the type what the table knows of the history: what a
client got through in the table's own minute is at most its count plus the quota of
earlier roll-backs, what it got in other minutes is covered by the roll-backs, and
no entry counts above the limit. Without the link between `count` and `allowed`
the bound on `allowed` is not inductive. It assumes `RateLimiterAssumption` only.

`RefusalsJustified` is an action property and needs more: `Counted` says that what
the table counts was let through, and that a handler waiting for the lock has no
answer of an earlier call left.

`GeoResolver_proofs` proves `TypeCorrect`, `SafeLookups`, `LeakFree` and
`ReloadsKeepOrder` for any number of lookups and versions, under
`GeoResolverAssumption` only. The inductive invariant says which handles are open
in each phase of New, ReloadIfChanged and Close (`Phases`), that a lookup can only
be working on the reader in use (`Using`: a swap waits for the lookups, so none is
left behind on the old one), and which version the recorded and the pending
FileInfo describe at most (`Stats`). `NoUseAfterClose` alone is not inductive:
without `Using` a lookup could be on the spare handle that is about to be closed.

`Metrics_proofs` proves `TypeCorrect` and `BoundedDelay` for any int64 arguments and
any width, under `BackoffAssumption`. The two are inductive together; `DelayBounded`
speaks of every step of the loop, not of the result only, for that reason.
`DoublingFits` and `JitterFits` are the arithmetic: the
test before a doubling keeps it below the maximum, and a quarter on top fits
unless the maximum itself is beyond four fifths of all durations. `RetriesBounded`
carries this over to the calls of `sendWithRetry`. `PageHangsTogether` and
`HistogramsExact` hold for any ascending bucket bounds, batch size, number of
retries and flushes (`MetricsAssumption`):

* `Owed` says that a histogram lacks exactly the additions that the running
  observation has not made yet. `ExactAtRest` is what is left of it at rest.
* `Lag` follows the sum of the latencies, which is rounded: short by a millisecond per
  flush at most, and by the whole value while that is still to be added.
* `Nested` relates the buckets to the count and to each other in the middle of an
  observation. `Page` does so for the lines of the page, whose loads fall between
  the additions: a line is at most what it was loaded from, and the count is loaded last.

`WaitsFollowConfiguration` bounds the time at which an attempt begins from both sides, for
any backoffs and any number of retries, where the maximum leaves `Room` for the jitter (it is
at most four fifths of all durations; beyond that the last sum overflows). The exponential
and its sum are recursive functions of the model; `Exponential` and `Together` satisfy their
equations because such functions exist (`Recursion`), and `ExponentialGrows` is an
induction. The invariant `Waits` says that Backoff's loop is at `Exponential[i]` as long as
it doubles and leaves with `Capped(try)`, and how much of the time is accounted for
before and after each step of an attempt.

`HttpApi_proofs` proves `TypeCorrect`, `RequestsWhole` and `CountersExact` for any
handlers, requests, queue and batch sizes and both drop policies, under
`HttpApiAssumption`. The invariant is told by requests, not by handlers: `Ledger`
says that each is at one place of one handler or answered; `Contents` that the copies
of its events in the queue's history are an unbroken prefix; `Progress` how long that
prefix is at each stage; `Counts` that each counter is the number of events (or
requests) whose stage is past the counting step. A step moves one request from one
stage to the next (`Shift`), and so changes each of these sets by that request's part.
`CountersBalance` alone says nothing while a handler is at work, and is not inductive.

`Admission_proofs` proves, for any environments, events with payloads of any size and
depth, requests and time zones, `ConfigIsSound`, `DomainsDecided`, `SitesBound`,
`UrlsStillMatch`, `UrlsAreSanitized`, `LengthsDecided`, `PayloadsJudged`, `ZonesDecided`
and `BodiesDecided`. The invariant: `Base`, the configuration is the one `Load` filled
in from the environment and the cache holds known zones only; `Checked`, a request in the
loop has passed `requestError`, and a request refused before it has that error;
`Stored`, the events passed so far are, one by one, those sent, enriched, limited and
free of errors; `Loop`, what is left of the batch is the rest of what was sent, and why the
loop was left. The properties follow with lemmas about the operators:

* `FirstIs`: of a list of checks, `First` gives the first that fails. With it
  `LoadTests`, `requestErrorIs`, `fieldErrorIs` and `ValidateIs` take the checks apart.
* `SameHosts`: two hosts are equal for `normalizeDomain` exactly when they stand for the
  same name, however they are written.
* `StillNames`, `Sanitized`: what `truncateURLField` makes of a URL keeps its host, but
  for one without `//` that is longer than the limit, and regains no query, fragment or
  userinfo. Neither says anything of the Referer header: of it only what
  `sanitizeURL` does is left.
* `FirstBytesFit`, `CutFits`, `Shortened`, `LimitsSuffice`: what `ApplyFieldLimits` leaves is
  within the limit, also of a path that is cut within an escape, and so Validate's own tests of
  length never fire.
* `CutInEscape`, `UrlRefused`: what is left of a URL is refused only if the URL was bad as
  it was sent, or had to be shortened and has an escape, or a `//` and a port.
* `Judged`: what `validatePayload` says of a payload whose strings `truncatePayload` has cut
  is what `WithinLimits` says of it as it was sent. It rests on three facts about the walks:
  `WalkedAll`, truncation comes to every value; `NoErrorInside`, the call for the payload
  returns no error exactly when no value in it is at fault; `CountTotal`, what it
  counts is the number of members of maps and of scalars and strings.

The recursive functions of `Payload` need more than their definitions. `Recursion` shows that a
function with such an equation exists when each value looks only at values of a lower
rank (the place, or the distance from the end); then the function `CHOOSE` picks has
that equation too. What it computes follows by going through the places upwards or
downwards (`ByPlaces`, `ByPlacesBehind`); both reduce to the least number for which a
claim fails (`LeastOf`, from the well-foundedness of the naturals), and so no
theorem with an operator as parameter is needed. `CountTotal` telescopes: `HandedUp` is what
the values up to m have been handed by those behind m, and taking one value more into
account changes its total by what that value adds on its own (`HandedStep`).

`Verdicts`, an invariant beside the others, carries `LengthsDecided` and
`PayloadsJudged` through the loop: the events stored so far fit, and an event refused for its
payload or a URL, the one after them, has what it is refused for.

`AdmissionAssumption` gives the shape of environments, events and requests and one fact:
no host is asked for that is written with a scheme other than http and https and equals
a listed one. This is a limit of `normalizeDomain`, which of `ftp://a` leaves `ftp` (config.go:278-283): a
domain listed that way would match a host of the name `ftp`.

`Batcher_proofs` proves the invariants of `batcher`, and the type, for any queue, batch and
request size, any number of retries and events and any statuses, under
`BatcherAssumption` and `ElasticAssumption`: `TypeCorrect`, `NoneVanishes`, `InOrder`,
`Idempotent`, `FinalVerdict`, `ExactCounters`, `ReportedIsStored` and `NoLostWakeup`. None
but the type is inductive alone:

* `Control` ties the place in the code to the slices and flags that are live there.
* `Line` says that the slice in hand is sorted and stands before the queue, that
  `pending` is a part of `batch` in the same order, and that an event carries the id last drawn for
  it. `ArrivalOrder` and `NothingVanishes` need it: a restore puts back `pending` or
  `batch`, and either must be in order and hold all that is unsettled.
* `Drawn` says that a document sent has the id its event still carries. `StoredOnce`
  needs it, because two documents for one event would need two ids.
* `NotYet` says that an event that has not arrived has no outcome. `VerdictFinal`
  rests on `Line`; `CountersExact` on `VerdictFinal` and `NotYet`: the events judged by
  a reply are all held before it, and so none is counted twice.
* `Woken` adds to `WakeupNotLost` the time before Run starts and the steps between
  taking the token and testing the length.

`SendFlattened` turns the nested cases of an exchange into one list that every one
of these proofs uses. `Safe` is their common part.

`Collector_proofs` proves, for any handlers and bounds, `MainTypeCorrect`;
`ImplementsBatcher`, that every step of the process is a step of `Batcher` or leaves
it alone (by cases over the actions of main); `NothingLostAtExit`, from the
invariant `Winding`: how far the shutdown has come, which handlers may still admit,
and that a drain that ended without failure and deadline left the queue empty and nothing
in hand; and `BoundedQueue`, from `Room`: while Run has a batch in hand the capacity is
still the configured one, so a restore adds at most that batch, and while Drain
has one no handler is left to fill the place it came from. `CollectorAssumption` joins
the assumptions of `Batcher`.

What only TLC checks: liveness and everything under fairness (`EventuallySettled`,
`CancelReturns`, `StopLeadsToExit`, `ReplacementServed`, `GaugeCatchesUp`, `FlushEnds`),
which is outside what the prover can do, and the four disagreements of section 4 that have a run, which are
counterexamples.

## 6. Not modelled

* What the fields copied from user agent, language and client address headers hold, and
  the user agent and IP header parsing behind them: string handling on which no decision
  but the limiter's key depends (`RateLimiter` has the unknown client). The
  Referer header is modelled (`referer`), as is whether a client's own values of such
  fields survive (`claimed`).
* The values a client sends for the GeoIP and traffic quality fields, and what a lookup or
  the user agent puts into them.
* The length of the Referer header and of the other copied headers, which nothing limits.
* `handleReady`, `handleHealth`, `Ping`, CORS and the OpenAPI document: they only read.
* Authentication towards Elasticsearch and the fields of a document.
* Cuts within a UTF-8 character: lengths are abstract.
* Log lines and exit codes.
* Settings that Load passes on unchecked: addresses, stream name, log level.
* Deployment files, scripts, index templates, the test database generator and the
  browser test.

## 7. Plan

Done: every component that keeps state or decides; every safety property that the
passing runs check is proved. Left:

1. Readiness: `handleReady` beside the start and the end of Run.
2. Refinement of `HttpApi` by the handlers of `Collector`, so that one proof covers the
   queue's two sides. `Collector` would need the counters and the gauge for it.
