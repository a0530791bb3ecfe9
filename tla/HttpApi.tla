------------------------------- MODULE HttpApi -------------------------------
(***************************************************************************)
(* internal/httpapi/server.go: handleCollect, run by many goroutines at    *)
(* once, from the checks of a request to the counters and the response,    *)
(* beside the batcher's goroutine that empties the queue.  Counters and    *)
(* gauge are atomics, each updated in a step of its own.                   *)
(*                                                                         *)
(* A request is known by what its checks find (allowed: the answer of the  *)
(* rate limiter, see RateLimiter).  Enqueue and DropNewest are those of    *)
(* FifoQueue; the consumer is the part of module Batcher that handlers     *)
(* can see while Run is running: it takes batches and sets the gauge.      *)
(***************************************************************************)
EXTENDS Integers, Sequences, FiniteSetsExt

CONSTANTS Handler,              \* bound: requests handled at the same time
          Request,              \* the requests that clients send
          MaxRequests,          \* bound: requests in one behaviour
          MaxQueueSize,         \* config MaxQueueSize
          MaxBatchSize,         \* config MaxBatchSize
          MaxEventsPerRequest,  \* config MaxEventsPerRequest
          RequireOrigin,        \* config RequireOrigin
          SiteOrigins,          \* config SiteOriginSet is not empty
          RequireURLHostMatch   \* config RequireURLHostMatch

\* config.go:185; what the checks of a request can find.
Findings == [site : BOOLEAN, url : BOOLEAN, valid : BOOLEAN]
Bodies == {"unreadable", "empty", "garbled", "no_events", "events"}

ASSUME HttpApiAssumption ==
  /\ {MaxRequests, MaxQueueSize, MaxBatchSize, MaxEventsPerRequest} \subseteq Nat \ {0}
  /\ {RequireOrigin, SiteOrigins, RequireURLHostMatch} \subseteq BOOLEAN
  /\ \A r \in Request :
       /\ {r.allowed, r.origin, r.json, r.domain} \subseteq BOOLEAN
       /\ r.body \in Bodies
       /\ r.events \in Seq(Findings)
       /\ r.body = "events" => r.events # <<>>

VARIABLES
  queue, capacity, notifyCh,  \* internal/queue, see FifoQueue
  dropPolicy,  \* config DropPolicy
  pc,          \* where each handler is
  serving,     \* each handler's request number
  depth,       \* each goroutine's result of queue.Len()
  content,     \* history: the requests received
  code,        \* history: the response to each request, "" before it
  entered,     \* history: the events that ever got into the queue
  consumer,    \* "select", "loop", "read", "store"
  looping,     \* flush will go back to its loop after setting the gauge
  acceptedEvents, rejectedEvents, droppedEvents, queueFull,  \* counters
  queuedCurrent  \* the gauge

queueVars == <<queue, capacity, notifyCh>>
counters == <<acceptedEvents, rejectedEvents, droppedEvents, queueFull>>
handlerVars == <<pc, serving, content, code, entered>>
vars == <<queueVars, dropPolicy, handlerVars, depth, consumer, looping, counters,
          queuedCurrent>>

\* An event is the i-th of request r.
Event == (1..MaxRequests) \X Nat
Batcher == "batcher"

Q == INSTANCE FifoQueue WITH MaxBatch <- MaxEventsPerRequest, call <- code

Init ==
  /\ Q!Init
  /\ dropPolicy \in {"reject", "drop_newest"}
  /\ pc = [h \in Handler |-> "idle"]
  /\ serving = [h \in Handler |-> 0]
  /\ depth = [g \in Handler \cup {Batcher} |-> 0]
  /\ content = <<>> /\ code = <<>> /\ entered = <<>>
  /\ consumer = "select" /\ looping = FALSE
  /\ acceptedEvents = 0 /\ rejectedEvents = 0 /\ droppedEvents = 0 /\ queueFull = 0
  /\ queuedCurrent = 0

-----------------------------------------------------------------------------
\* The checks, in the order of the code.

originAllowedForSite(e) == SiteOrigins => e.site
urlMatchesOrigin(e) == RequireURLHostMatch => e.url

EventErrors(e) ==
  <<[fails |-> ~originAllowedForSite(e), code |-> "origin_not_allowed_for_site"],
    [fails |-> ~urlMatchesOrigin(e), code |-> "url_host_mismatch"],
    [fails |-> ~e.valid, code |-> "invalid_event"]>>

\* The first check that fails, or "".
FirstError(checks) ==
  LET failing == {i \in 1..Len(checks) : checks[i].fails}
  IN  IF failing = {} THEN "" ELSE checks[Min(failing)].code

\* The loop over the events ends at the first one with an error.
LoopError(events) ==
  FirstError([i \in 1..Len(events) |->
                [fails |-> FirstError(EventErrors(events[i])) # "",
                 code  |-> FirstError(EventErrors(events[i]))]])

RequestErrors(r) ==
  <<[fails |-> ~r.allowed, code |-> "rate_limited"],
    [fails |-> RequireOrigin /\ ~r.origin, code |-> "origin_required"],
    [fails |-> ~r.json, code |-> "content_type_must_be_application_json"],
    [fails |-> r.body = "unreadable", code |-> "payload_too_large"],
    [fails |-> r.body = "empty", code |-> "empty_body"],
    [fails |-> r.body = "no_events", code |-> "empty_batch"],
    [fails |-> r.body = "garbled", code |-> "invalid_json"],
    [fails |-> Len(r.events) > MaxEventsPerRequest, code |-> "too_many_events"],
    [fails |-> ~r.domain, code |-> "domain_not_allowed"],
    [fails |-> LoopError(r.events) # "", code |-> LoopError(r.events)]>>

RequestError[r \in Request] == FirstError(RequestErrors(r))

\* What IncRejected is given.
RejectedFor(r) ==
  IF RequestError[r] \in {"too_many_events", "domain_not_allowed"}
    THEN Len(r.events) ELSE 1

-----------------------------------------------------------------------------
\* The handlers.
Enriched(h) ==
  [i \in 1..Len(content[serving[h]].events) |-> <<serving[h], i>>]

Goto(h, label) == pc' = [pc EXCEPT ![h] = label]
Respond(h, c) == Goto(h, "idle") /\ code' = [code EXCEPT ![serving[h]] = c]
KeepConsumer == UNCHANGED <<consumer, looping, dropPolicy>>

Receive(h, r) ==
  /\ pc[h] = "idle" /\ Len(content) < MaxRequests
  /\ content' = Append(content, r) /\ code' = Append(code, "")
  /\ serving' = [serving EXCEPT ![h] = Len(content) + 1]
  /\ Goto(h, "check")
  /\ UNCHANGED <<queueVars, entered, depth, counters, queuedCurrent>> /\ KeepConsumer

Refuse(h) ==
  LET r == content[serving[h]]
  IN  /\ pc[h] = "check" /\ RequestError[r] # ""
      /\ rejectedEvents' = rejectedEvents + RejectedFor(r)
      /\ Respond(h, RequestError[r])
      /\ UNCHANGED <<queueVars, serving, content, entered, depth, acceptedEvents,
                     droppedEvents, queueFull, queuedCurrent>>
      /\ KeepConsumer

\* What the queue took is what it grew by.
TakenIn == entered' = entered \o SubSeq(queue', Len(queue) + 1, Len(queue'))

\* A slip: the part that fits is queued, and the client is told to try again.
EnqueuePart(h) ==
  /\ pc[h] = "check" /\ RequestError[content[serving[h]]] = "" /\ dropPolicy = "reject"
  /\ \/ Q!DropNewest(Enriched(h))
     \/ Q!Available <= 0 /\ UNCHANGED queueVars
  /\ TakenIn
  /\ Goto(h, IF Q!Fits(Enriched(h)) THEN "accepted" ELSE "rejected")
  /\ UNCHANGED <<serving, content, code, depth, counters, queuedCurrent>> /\ KeepConsumer

\* DROP_POLICY reject.
Enqueue(h) ==
  /\ pc[h] = "check" /\ RequestError[content[serving[h]]] = "" /\ dropPolicy = "reject"
  /\ \/ Q!Enqueue(Enriched(h)) /\ Goto(h, "accepted")
     \/ ~Q!Fits(Enriched(h)) /\ UNCHANGED queueVars /\ Goto(h, "rejected")
  /\ TakenIn
  /\ UNCHANGED <<serving, content, code, depth, counters, queuedCurrent>> /\ KeepConsumer

\* DROP_POLICY drop_newest.
DropNewest(h) ==
  /\ pc[h] = "check" /\ RequestError[content[serving[h]]] = "" /\ dropPolicy = "drop_newest"
  /\ \/ Q!DropNewest(Enriched(h))
     \/ Q!Available <= 0 /\ UNCHANGED queueVars
  /\ TakenIn
  /\ Goto(h, IF Len(queue') - Len(queue) < Len(Enriched(h)) THEN "dropped" ELSE "accepted")
  /\ UNCHANGED <<serving, content, code, depth, counters, queuedCurrent>> /\ KeepConsumer

\* How many events of the handler's request are in the queue's history.
Got(h) == Cardinality({i \in 1..Len(entered) : entered[i][1] = serving[h]})
Missing(h) == Len(Enriched(h)) - Got(h)

KeepHandler == UNCHANGED <<queueVars, serving, content, entered, queuedCurrent>>

IncRejected(h) ==
  /\ pc[h] = "rejected"
  /\ rejectedEvents' = rejectedEvents + Len(Enriched(h))
  /\ Goto(h, "refusedFull")
  /\ UNCHANGED <<code, depth, acceptedEvents, droppedEvents, queueFull>>
  /\ KeepHandler /\ KeepConsumer

IncDropped(h) ==
  /\ pc[h] = "dropped"
  /\ droppedEvents' = droppedEvents + Missing(h)
  /\ Goto(h, "droppedFull")
  /\ UNCHANGED <<code, depth, acceptedEvents, rejectedEvents, queueFull>>
  /\ KeepHandler /\ KeepConsumer

\* A slip: no return after the 503.
IncQueueFullFallsThrough(h) ==
  /\ \/ /\ pc[h] = "refusedFull" /\ Goto(h, "accepted")
        /\ code' = [code EXCEPT ![serving[h]] = "queue_full"]
     \/ pc[h] = "droppedFull" /\ Goto(h, "accepted") /\ UNCHANGED code
  /\ queueFull' = queueFull + 1
  /\ UNCHANGED <<depth, acceptedEvents, droppedEvents, rejectedEvents>>
  /\ KeepHandler /\ KeepConsumer

\* IncQueueFull, then the 503 or the rest of the 202.
IncQueueFull(h) ==
  /\ \/ pc[h] = "refusedFull" /\ Respond(h, "queue_full")
     \/ pc[h] = "droppedFull" /\ Goto(h, "accepted") /\ UNCHANGED code
  /\ queueFull' = queueFull + 1
  /\ UNCHANGED <<depth, acceptedEvents, droppedEvents, rejectedEvents>>
  /\ KeepHandler /\ KeepConsumer

AddAccepted(h, n) ==
  /\ pc[h] = "accepted"
  /\ acceptedEvents' = acceptedEvents + n
  /\ Goto(h, "read")
  /\ UNCHANGED <<code, depth, droppedEvents, rejectedEvents, queueFull>>
  /\ KeepHandler /\ KeepConsumer

\* A slip: what was dropped is counted as accepted as well.
IncAcceptedAll(h) == AddAccepted(h, Len(Enriched(h)))

IncAccepted(h) == AddAccepted(h, Len(Enriched(h)) - Missing(h))

\* SetQueueDepth(queue.Len()): the length is read, and stored later.
ReadLen(h) ==
  /\ pc[h] = "read"
  /\ depth' = [depth EXCEPT ![h] = Len(queue)]
  /\ Goto(h, "store")
  /\ UNCHANGED <<code, counters>> /\ KeepHandler /\ KeepConsumer

SetQueueDepth(h) ==
  /\ pc[h] = "store"
  /\ queuedCurrent' = depth[h]
  /\ depth' = [depth EXCEPT ![h] = 0]
  /\ Respond(h, "ok")
  /\ UNCHANGED <<queueVars, serving, content, entered, counters>> /\ KeepConsumer

HandlerStep(h) ==
  \/ Refuse(h) \/ Enqueue(h) \/ DropNewest(h)
  \/ IncRejected(h) \/ IncDropped(h) \/ IncQueueFull(h) \/ IncAccepted(h)
  \/ ReadLen(h) \/ SetQueueDepth(h)

-----------------------------------------------------------------------------
\* The batcher while Run is running.  How a batch fares is left open: it is gone
\* from the queue either way, and a failed one ends the loop.
KeepHandlers == UNCHANGED <<dropPolicy, handlerVars, counters>>

\* The ticker or a token wakes Run up.
Wake ==
  /\ consumer = "select"
  /\ consumer' = "loop"
  /\ notifyCh' \in {notifyCh, FALSE}
  /\ UNCHANGED <<queue, capacity, looping, depth, queuedCurrent>> /\ KeepHandlers

Flush ==
  /\ consumer = "loop" /\ Len(queue) > 0
  /\ Q!Drain(MaxBatchSize)
  /\ consumer' = "read" /\ looping' \in BOOLEAN
  /\ UNCHANGED <<depth, queuedCurrent>> /\ KeepHandlers

LoopEnds(next) ==
  /\ consumer = "loop"
  /\ consumer' = next /\ looping' = FALSE
  /\ UNCHANGED <<queueVars, depth, queuedCurrent>> /\ KeepHandlers

\* A slip: the gauge is set after a flush only.
LoopEndsQuietly == Len(queue) < MaxBatchSize /\ LoopEnds("select")

\* The loop ends, for want of a full batch or (the ticker's) of any event, and
\* Run sets the gauge before it selects again.
LoopReturns == Len(queue) < MaxBatchSize /\ LoopEnds("read")

BatcherReadsLen ==
  /\ consumer = "read"
  /\ depth' = [depth EXCEPT ![Batcher] = Len(queue)]
  /\ consumer' = "store"
  /\ UNCHANGED <<queueVars, looping, queuedCurrent>> /\ KeepHandlers

\* Back to the loop after a flush, or to the select; a failed flush sets the
\* gauge twice, which shows no more than once.
BatcherSetsQueueDepth ==
  /\ consumer = "store"
  /\ queuedCurrent' = depth[Batcher]
  /\ depth' = [depth EXCEPT ![Batcher] = 0]
  /\ consumer' = IF looping THEN "loop" ELSE "select"
  /\ looping' = FALSE
  /\ UNCHANGED queueVars /\ KeepHandlers

BatcherStep ==
  Wake \/ Flush \/ LoopReturns \/ BatcherReadsLen \/ BatcherSetsQueueDepth

Next ==
  \/ \E h \in Handler : HandlerStep(h) \/ \E r \in Request : Receive(h, r)
  \/ BatcherStep

Spec == Init /\ [][Next]_vars

\* Handlers that have their request run to the end and the ticker wakes Run up
\* again and again; a bulk request ends within its timeouts.
Fairness == WF_vars(BatcherStep) /\ \A h \in Handler : WF_vars(HandlerStep(h))
FairSpec == Spec /\ Fairness

-----------------------------------------------------------------------------
Requests == 1..Len(content)
Idle == \A h \in Handler : pc[h] = "idle"
GotOf(r) == Cardinality({i \in 1..Len(entered) : entered[i][1] = r})
LeftOut(r) == {j \in 1..Len(content[r].events) : <<r, j>> \notin Range(entered)}
Answered(codes) == {r \in Requests : code[r] \in codes}

\* Type invariant; every request is being served or answered.
TypeOK ==
  /\ queue \in Seq(Event) /\ Len(queue) <= capacity /\ capacity = MaxQueueSize
  /\ notifyCh \in BOOLEAN
  /\ pc \in [Handler -> {"idle", "check", "rejected", "refusedFull", "dropped",
                         "droppedFull", "accepted", "read", "store"}]
  /\ serving \in [Handler -> 0..MaxRequests]
  /\ depth \in [Handler \cup {Batcher} -> 0..MaxQueueSize]
  /\ content \in Seq(Request) /\ Len(code) = Len(content)
  /\ entered \in Seq(Event)
  /\ consumer \in {"select", "loop", "read", "store"} /\ looping \in BOOLEAN
  /\ {acceptedEvents, rejectedEvents, droppedEvents, queueFull} \subseteq Nat
  /\ queuedCurrent \in 0..MaxQueueSize
  /\ \A r \in Requests :
       code[r] = "" <=> \E h \in Handler : pc[h] # "idle" /\ serving[h] = r

\* A request is a unit, however handlers interleave: its events enter the queue
\* side by side and from the first one on, all of them if the client is told
\* so under DROP_POLICY reject, and none if the client is told of any error,
\* be it in the last event of the batch.
WholeRequests ==
  /\ \A i \in 1..Len(entered) :
       entered[i][2] > 1 =>
         i > 1 /\ entered[i - 1] = <<entered[i][1], entered[i][2] - 1>>
  /\ \A r \in Requests :
       /\ code[r] \notin {"", "ok"} => GotOf(r) = 0
       /\ code[r] = "ok" /\ dropPolicy = "reject" => GotOf(r) = Len(content[r].events)

\* The counters balance once no request is being served: accepted counts what got
\* into the queue, dropped every event that an answer of 202 passed over, rejected
\* what each refusal stands for, all events of a request when the queue is full,
\* and queue_full the requests that lost any event to a full queue.
CountersBalance ==
  LET refusedFor(r) == IF code[r] = "queue_full" THEN Len(content[r].events)
                       ELSE RejectedFor(content[r])
  IN  Idle =>
        /\ acceptedEvents = Len(entered)
        /\ droppedEvents = Cardinality(UNION {{r} \X LeftOut(r) : r \in Answered({"ok"})})
        /\ rejectedEvents = Cardinality(UNION {{r} \X (1..refusedFor(r)) :
                                                 r \in Requests \ Answered({"ok"})})
        /\ queueFull = Cardinality({r \in Answered({"ok", "queue_full"}) : LeftOut(r) # {}})

\* A handler may store a queue length that is out of date by then; Run repairs
\* it: once requests cease the gauge shows the length of the queue for good.
GaugeCatchesUp ==
  <>[](queuedCurrent = Len(queue))
=============================================================================
