------------------------------- MODULE Batcher -------------------------------
(***************************************************************************)
(* internal/batcher: the goroutine that moves events from the queue to     *)
(* Elasticsearch (Run), and the same code run once more, without the       *)
(* ticker, when the process stops (Drain).  Producers put events in        *)
(* concurrently (Admit), the context may be cancelled between any two      *)
(* steps (Cancel), and a bulk request may get any reply of module Elastic. *)
(*                                                                         *)
(* An event is known by its arrival number `no` and by the document id it  *)
(* carries (0 before EnsureDocumentID draws one).  It is a value, copied   *)
(* from slice to slice as in Go.                                           *)
(*                                                                         *)
(* Steps that commute with every step of another goroutine are merged:     *)
(* a loop's test of Len() and ctx with the Drain that follows (this        *)
(* goroutine is the only consumer, so the queue can only grow meanwhile),  *)
(* and a reply with the first test of ctx after it.  The second test of    *)
(* ctx, in flush, stays a step of its own.                                 *)
(***************************************************************************)
EXTENDS Elastic, FiniteSets

CONSTANTS MaxQueueSize,         \* config MaxQueueSize
          MaxBatchSize,         \* config MaxBatchSize
          MaxEventsPerRequest,  \* config MaxEventsPerRequest
          MaxRetries,           \* config MaxRetries
          MaxEvents             \* bound: events admitted in one behaviour

\* What config.go:185 enforces.
ASSUME BatcherAssumption ==
  /\ MaxQueueSize \in Nat \ {0}
  /\ MaxBatchSize \in Nat \ {0}
  /\ MaxEventsPerRequest \in Nat \ {0}
  /\ MaxRetries \in Nat
  /\ MaxEvents \in Nat

VARIABLES
  queue, capacity, notifyCh,  \* internal/queue, see FifoQueue
  life,      \* "created", "running" (Run), "returned" (done is closed),
             \* "draining" and "drained" (Drain)
  pc,        \* "select", "notified", "loop", "send", "backoff", "failed"
  need,      \* the loop goes on while the queue holds this many events
  batch,     \* flush: the slice drained from the queue
  pending,   \* sendWithRetry: the slice still to be sent
  attempt,   \* sendWithRetry: the loop counter
  restore,   \* flush: what goes back to the queue if ctx is cancelled
  ctxErr,    \* TRUE iff the context of the running call is cancelled
  flushErr,  \* TRUE iff the last flushAll or flushFullBatches failed
  bulkIndexed, bulkFailed,    \* the two counters of internal/metrics
  arrived,   \* history: how many events were admitted
  outcome,   \* history: what became of each event
  drawn,     \* history: how many ids were drawn for each event
  stored,    \* external: the documents Elasticsearch holds
  wire       \* external: documents a lost request may still store

queueVars == <<queue, capacity, notifyCh>>
flushVars == <<batch, pending, attempt, restore>>
counters  == <<bulkIndexed, bulkFailed>>
external  == <<drawn, stored, wire>>
vars == <<queueVars, life, pc, need, flushVars, ctxErr, flushErr, counters,
          arrived, outcome, external>>

Numbers == 1..MaxEvents
Event == [no : Numbers, id : Nat]

Q == INSTANCE FifoQueue WITH MaxBatch <- MaxEvents, call <- batch

Nos(s) == {s[i].no : i \in 1..Len(s)}

\* The three states of Batcher.ready and Batcher.done as callers see them.
Ready == life = "running"
Done == life \in {"returned", "draining", "drained"}

Init ==
  /\ Q!Init
  /\ life = "created" /\ pc = "select" /\ need = 0
  /\ batch = <<>> /\ pending = <<>> /\ attempt = 0 /\ restore = <<>>
  /\ ctxErr = FALSE /\ flushErr = FALSE
  /\ bulkIndexed = 0 /\ bulkFailed = 0
  /\ arrived = 0
  /\ outcome = [n \in Numbers |-> "none"]
  /\ drawn = [n \in Numbers |-> 0]
  /\ stored = {} /\ wire = {}

-----------------------------------------------------------------------------
\* A producer: a request handler hands over k validated events.
Fresh(k) == [i \in 1..k |-> [no |-> arrived + i, id |-> 0]]

Admitted(k) ==
  /\ arrived' = arrived + k
  /\ outcome' = [n \in Numbers |->
                   IF n \in arrived + 1..arrived + k THEN "held" ELSE outcome[n]]
  /\ UNCHANGED <<life, pc, need, flushVars, ctxErr, flushErr, counters, external>>

\* DROP_POLICY reject; a refused request leaves no trace here.
AdmitAll(k) ==
  /\ arrived + k <= MaxEvents
  /\ Q!Enqueue(Fresh(k))
  /\ Admitted(k)

\* DROP_POLICY drop_newest.
AdmitPrefix(k) ==
  /\ arrived + k <= MaxEvents
  /\ Q!DropNewest(Fresh(k))
  /\ Admitted(Len(queue') - Len(queue))

Admit == \E k \in 1..MaxEventsPerRequest : AdmitAll(k) \/ AdmitPrefix(k)

-----------------------------------------------------------------------------
\* The select loop of Run.
Run ==
  /\ life = "created"
  /\ life' = "running"
  /\ UNCHANGED <<queueVars, pc, need, flushVars, ctxErr, flushErr, counters,
                 arrived, outcome, external>>

Selecting == life = "running" /\ pc = "select"

Return ==
  /\ Selecting /\ ctxErr
  /\ life' = "returned"
  /\ UNCHANGED <<queueVars, pc, need, flushVars, ctxErr, flushErr, counters,
                 arrived, outcome, external>>

\* A slip: Run stays until it has emptied the queue.
SelectDoneWhenEmpty == queue = <<>> /\ Return

SelectDone == Return

StartLoop(n) ==
  /\ pc' = "loop" /\ need' = n
  /\ UNCHANGED <<queueVars, life, flushVars, ctxErr, flushErr, counters,
                 arrived, outcome, external>>

\* A slip: the ticker, too, sends full batches only.
SelectTickFullOnly == Selecting /\ StartLoop(MaxBatchSize)

SelectTick == Selecting /\ StartLoop(1)

SelectNotify ==
  /\ Selecting
  /\ Q!Receive
  /\ pc' = "notified"
  /\ UNCHANGED <<life, need, flushVars, ctxErr, flushErr, counters, arrived,
                 outcome, external>>

\* The token is received first and the length is read afterwards.
NotifiedWith(enough) ==
  /\ pc = "notified"
  /\ \/ enough /\ StartLoop(MaxBatchSize)
     \/ /\ ~enough
        /\ pc' = "select"
        /\ UNCHANGED <<queueVars, life, need, flushVars, ctxErr, flushErr,
                       counters, arrived, outcome, external>>

\* A slip: only more than a full batch starts a flush.
NotifiedStrictly == NotifiedWith(Len(queue) > MaxBatchSize)

Notified == NotifiedWith(Len(queue) >= MaxBatchSize)

\* Drain(ctx): flushAll once more, under a context that may have expired.
Drain(expired) ==
  /\ life = "returned"
  /\ life' = "draining" /\ pc' = "loop" /\ need' = 1
  /\ ctxErr' = expired
  /\ UNCHANGED <<queueVars, flushVars, flushErr, counters, arrived, outcome,
                 external>>

Cancel ==
  /\ ~ctxErr /\ life \in {"created", "running", "draining"}
  /\ ctxErr' = TRUE
  /\ UNCHANGED <<queueVars, life, pc, need, flushVars, flushErr, counters,
                 arrived, outcome, external>>

\* flushAll or flushFullBatches returns: back to select, or Drain is over.
LoopReturns(err) ==
  /\ pc' = "select" /\ need' = 0
  /\ flushErr' = err
  /\ life' = IF life = "draining" THEN "drained" ELSE life

LoopEnds ==
  /\ pc = "loop"
  /\ Len(queue) < need \/ ctxErr
  /\ LoopReturns(Len(queue) >= need)
  /\ UNCHANGED <<queueVars, flushVars, ctxErr, counters, arrived, outcome,
                 external>>

\* The loop goes round: flush drains a batch and hands it to sendWithRetry.
LoopFlushes ==
  /\ pc = "loop"
  /\ Len(queue) >= need /\ ~ctxErr
  /\ Q!Drain(MaxBatchSize)
  /\ batch' = Q!Drained(MaxBatchSize)
  /\ pending' = batch' /\ attempt' = 0
  /\ pc' = "send"
  /\ UNCHANGED <<life, need, restore, ctxErr, flushErr, counters, arrived,
                 outcome, external>>

-----------------------------------------------------------------------------
\* sendWithRetry.

\* A slip: an id drawn on every attempt.
EnsureFreshDocumentID(e) == [e EXCEPT !.id = drawn[e.no] + 1]

\* A v4 UUID, drawn once; drawn[n] counts the ones used for event n.
EnsureDocumentID(e) ==
  IF e.id # 0 THEN e ELSE [e EXCEPT !.id = drawn[e.no] + 1]

\* BuildBulkPayload works on the caller's slice: the first k elements of it
\* keep the ids it gave them.
BuildBulkPayload(s, k) ==
  [i \in 1..Len(s) |-> IF i <= k THEN EnsureDocumentID(s[i]) ELSE s[i]]

\* On the first attempt pending is the same slice as batch.
Aliased(s) == IF attempt = 0 THEN s ELSE batch

\* One exchange with Elasticsearch: docs is the slice with its ids.
Exchange(docs, reply) ==
  /\ Truthful(docs, reply, stored)
  /\ drawn' = [n \in Numbers |->
                 IF \E i \in 1..Len(docs) : docs[i].no = n /\ docs[i].id > drawn[n]
                   THEN drawn[n] + 1 ELSE drawn[n]]
  /\ stored' = stored \cup Stores(docs, reply)
  /\ wire' = (wire \cup Leaves(docs, reply)) \ stored'
  /\ batch' = Aliased(docs)

\* AddBulkIndexed and AddBulkFailed, and the verdicts they stand for.
AddBulk(indexed, failed) ==
  /\ bulkIndexed' = bulkIndexed + indexed
  /\ bulkFailed' = bulkFailed + failed

Verdicts(docs, indexed, failed) ==
  outcome' = [n \in Numbers |->
                 IF \E i \in indexed : docs[i].no = n THEN "indexed"
                 ELSE IF \E i \in failed : docs[i].no = n THEN "failed"
                 ELSE outcome[n]]

Count(docs, indexed, failed) ==
  /\ AddBulk(Cardinality(indexed), Cardinality(failed))
  /\ Verdicts(docs, indexed, failed)

\* Nothing to retry and no error: every pending event has its verdict.
SendSettles(docs, reply) ==
  LET r == Send(Len(docs), reply)
  IN  /\ r.retry = {} /\ ~r.err
      /\ Count(docs, r.indexed, r.failed)
      /\ pc' = "loop"
      /\ pending' = <<>> /\ attempt' = 0
      /\ UNCHANGED restore

\* An error that is not worth a retry: pendingRetryError if ctx is cancelled
\* by now, else the bare error, which makes flush fall back on the batch.
SendRefused(docs, reply) ==
  LET r == Send(Len(docs), reply)
  IN  /\ r.retry = {} /\ r.err
      /\ Count(docs, r.indexed, r.failed)
      /\ pc' = "failed"
      /\ restore' = IF ctxErr THEN docs ELSE Aliased(docs)
      /\ pending' = docs
      /\ UNCHANGED attempt

\* The elements of s at the positions in S, in order.
Ascending(S) ==
  {f \in [1..Cardinality(S) -> S] :
     /\ \A i, j \in 1..Cardinality(S) : i < j => f[i] < f[j]
     /\ \A x \in S : \E i \in 1..Cardinality(S) : f[i] = x}

Picked(s, f) == [i \in DOMAIN f |-> s[f[i]]]

\* The last attempt left events to retry: they are given up, and `more` of them
\* are counted as failed besides the failed items, unless ctx is cancelled.
GiveUp(docs, reply, more) ==
  LET r == Send(Len(docs), reply)
  IN  /\ r.retry # {} /\ attempt = MaxRetries
      /\ AddBulk(Cardinality(r.indexed),
                 Cardinality(r.failed) + IF ctxErr THEN 0 ELSE more)
      /\ Verdicts(docs, r.indexed, IF ctxErr THEN r.failed ELSE r.failed \cup r.retry)
      /\ pc' = "failed"
      /\ \E f \in Ascending(r.retry) :
           /\ pending' = Picked(docs, f)
           /\ restore' = IF ctxErr THEN Picked(docs, f) ELSE Aliased(docs)
      /\ UNCHANGED attempt

\* A slip: everything sent is counted as failed, not what is left to retry.
SendExhaustsCountingAll(docs, reply) == GiveUp(docs, reply, Len(docs))

SendExhausts(docs, reply) ==
  GiveUp(docs, reply, Cardinality(Send(Len(docs), reply).retry))

\* Attempts are left: wait for the backoff with the events at `again`.
Retry(docs, reply, again) ==
  LET r == Send(Len(docs), reply)
  IN  /\ r.retry # {} /\ attempt < MaxRetries
      /\ Count(docs, r.indexed, r.failed)
      /\ pc' = "backoff"
      /\ \E f \in Ascending(again) : pending' = Picked(docs, f)
      /\ UNCHANGED <<attempt, restore>>

\* A slip: the whole slice is sent again, not the part to retry.
SendRetriesAll(docs, reply) == Retry(docs, reply, 1..Len(docs))

SendRetries(docs, reply) == Retry(docs, reply, Send(Len(docs), reply).retry)

SendReturns ==
  /\ pc = "send"
  /\ \E reply \in Replies(Len(pending)) :
       LET docs == BuildBulkPayload(pending, reply.sent)
       IN  /\ Exchange(docs, reply)
           /\ \/ SendSettles(docs, reply)
              \/ SendRefused(docs, reply)
              \/ SendExhausts(docs, reply)
              \/ SendRetries(docs, reply)
  /\ UNCHANGED <<queueVars, life, need, ctxErr, flushErr, arrived>>

BackoffTimer ==
  /\ pc = "backoff"
  /\ attempt' = attempt + 1
  /\ pc' = "send"
  /\ UNCHANGED <<queueVars, life, need, batch, pending, restore, ctxErr,
                 flushErr, counters, arrived, outcome, external>>

AbandonBackoff(left) ==
  /\ pc = "backoff" /\ ctxErr
  /\ restore' = left
  /\ pc' = "failed"
  /\ UNCHANGED <<queueVars, life, need, batch, pending, attempt, ctxErr,
                 flushErr, counters, arrived, outcome, external>>

\* A slip: the cancelled backoff forgets to say what was pending.
BackoffForgets == AbandonBackoff(<<>>)

BackoffCancelled == AbandonBackoff(pending)

\* flush returns an error, and so does the loop around it.
FlushReturns ==
  /\ batch' = <<>> /\ pending' = <<>> /\ attempt' = 0 /\ restore' = <<>>
  /\ LoopReturns(TRUE)
  /\ UNCHANGED <<ctxErr, counters, arrived, external>>

\* A slip: what is restored goes behind the events that came later.
FlushAppends ==
  /\ pc = "failed" /\ ctxErr
  /\ queue' = queue \o restore /\ notifyCh' = TRUE
  /\ capacity' = IF Len(queue') > capacity THEN Len(queue') ELSE capacity
  /\ UNCHANGED outcome
  /\ FlushReturns

\* sendWithRetry failed.  Under a cancelled context flush puts `restore` back
\* at the front of the queue; otherwise the events still held are lost.
FlushRestores ==
  /\ pc = "failed" /\ ctxErr
  /\ Q!Prepend(restore)
  /\ UNCHANGED outcome
  /\ FlushReturns

\* A slip: a failed batch goes back although the context is live.
FlushKeeps ==
  /\ pc = "failed" /\ ~ctxErr
  /\ Q!Prepend(pending)
  /\ UNCHANGED outcome
  /\ FlushReturns

FlushDiscards ==
  /\ pc = "failed" /\ ~ctxErr
  /\ outcome' = [n \in Numbers |->
                   IF n \in Nos(pending) /\ outcome[n] = "held"
                     THEN "discarded" ELSE outcome[n]]
  /\ UNCHANGED queueVars
  /\ FlushReturns

\* External: Elasticsearch completes a request whose reply was lost.
IndexLate ==
  \E d \in wire :
    /\ stored' = stored \cup {d}
    /\ wire' = wire \ {d}
    /\ UNCHANGED <<queueVars, life, pc, need, flushVars, ctxErr, flushErr,
                   counters, arrived, outcome, drawn>>

-----------------------------------------------------------------------------
\* Every step of the goroutine that runs Run or Drain.
BatcherStep ==
  \/ Run \/ SelectDone \/ SelectTick \/ SelectNotify \/ Notified
  \/ LoopEnds \/ LoopFlushes
  \/ SendReturns \/ BackoffTimer \/ BackoffCancelled
  \/ FlushRestores \/ FlushDiscards

Next ==
  \/ Admit
  \/ BatcherStep
  \/ \E expired \in BOOLEAN : Drain(expired)
  \/ Cancel
  \/ IndexLate

\* The process may end after Drain, or stop being used at any time.
Spec == Init /\ [][Next]_vars

\* The goroutine keeps running: the ticker ticks, a bulk request ends within
\* the client's 15 second timeout, a backoff timer fires.  Go's select picks
\* among the ready cases at random, so a ready ctx.Done() is not passed over
\* for ever.
Fairness == WF_vars(BatcherStep) /\ SF_vars(SelectDone)
FairSpec == Spec /\ Fairness

-----------------------------------------------------------------------------
\* The events between the queue and a verdict, oldest first.
InFlight ==
  CASE pc \in {"send", "backoff"} -> pending
    [] pc = "failed" -> IF ctxErr THEN restore ELSE pending
    [] OTHER -> <<>>

\* Type invariant of the batcher's variables and of the history.
TypeOK ==
  /\ queue \in Seq(Event)
  /\ capacity \in Nat /\ Len(queue) <= capacity
  /\ notifyCh \in BOOLEAN
  /\ life \in {"created", "running", "returned", "draining", "drained"}
  /\ pc \in {"select", "notified", "loop", "send", "backoff", "failed"}
  /\ need \in {0, 1, MaxBatchSize}
  /\ batch \in Seq(Event) /\ pending \in Seq(Event) /\ restore \in Seq(Event)
  /\ attempt \in 0..MaxRetries
  /\ ctxErr \in BOOLEAN /\ flushErr \in BOOLEAN
  /\ bulkIndexed \in Nat /\ bulkFailed \in Nat
  /\ arrived \in 0..MaxEvents
  /\ outcome \in [Numbers -> {"none", "held", "indexed", "failed", "discarded"}]
  /\ drawn \in [Numbers -> Nat]
  /\ stored \subseteq Event /\ wire \subseteq Event

\* No event vanishes: one that was accepted and has no verdict is in the queue
\* or in the slice the batcher works on, across retries, cancelled backoffs
\* and restored batches.
NothingVanishes ==
  \A n \in Numbers :
    outcome[n] = "held" => n \in Nos(queue) \cup Nos(InFlight)

\* First come, first served, and each event once: what is in flight followed by
\* what is queued is in strict order of arrival, also after a batch or a part
\* of it was put back in front of events that came later.
ArrivalOrder ==
  LET line == InFlight \o queue
  IN  \A i, j \in 1..Len(line) : i < j => line[i].no < line[j].no

\* While the batcher's context is live a verdict is final: no event that was
\* counted as indexed or failed is held for another attempt.
VerdictFinal ==
  life \in {"created", "running"} /\ ~ctxErr =>
    \A n \in Nos(queue) \cup (IF pc = "failed" THEN {} ELSE Nos(InFlight)) :
      outcome[n] = "held"

\* While the batcher's context is live the metrics are exact: every event is
\* counted once as indexed or as failed, over all attempts of its batch.
CountersExact ==
  life \in {"created", "running"} /\ ~ctxErr =>
    /\ bulkIndexed = Cardinality({n \in Numbers : outcome[n] = "indexed"})
    /\ bulkFailed = Cardinality({n \in Numbers : outcome[n] = "failed"})

\* A retry is idempotent: whatever replies were lost and whatever was restored
\* and sent again, Elasticsearch never holds two documents for one event.
StoredOnce ==
  \A d, e \in stored \cup wire : d.no = e.no => d = e

\* Only what Elasticsearch holds is reported as indexed.
IndexedIsStored ==
  \A n \in Numbers : outcome[n] = "indexed" => \E d \in stored : d.no = n

\* No wakeup is lost: when Run waits in its select with a full batch queued,
\* the notification token is there, unless the last flush failed and left the
\* rest to the ticker.
WakeupNotLost ==
  Selecting /\ ~flushErr /\ Len(queue) >= MaxBatchSize => notifyCh

\* Every event accepted before Run ends gets a verdict, unless the batcher is
\* cancelled first: none waits for ever behind failing batches.
EventuallySettled ==
  \A n \in Numbers :
    (outcome[n] = "held" /\ life \in {"created", "running"})
      ~> (outcome[n] # "held" \/ ctxErr)

\* A cancelled Run returns, and a Drain that was started ends.
CancelReturns ==
  /\ (life = "running" /\ ctxErr) ~> (life = "returned")
  /\ (life = "draining") ~> (life = "drained")

\* batcher_test.go:197: "expected only the pending event to be restored": an
\* event that Elasticsearch confirmed does not go back to the queue.
OnlyPendingRestored ==
  \A n \in Nos(queue) : outcome[n] # "indexed"
=============================================================================
