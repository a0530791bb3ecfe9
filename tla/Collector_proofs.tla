-------------------------- MODULE Collector_proofs ---------------------------
(***************************************************************************)
(* The process keeps to the batcher's specification, for every number of   *)
(* handlers, events and retries and every set of statuses.                 *)
(***************************************************************************)
EXTENDS Collector, Batcher_proofs

\* A step of main, of a handler or of the shutdown goroutine that is not one of
\* the batcher's leaves the batcher alone.
LEMMA StepRefines ==
  ASSUME CollectorTypeOK, [CollectorNext]_allVars
  PROVE  [Next]_vars
<1>1. CASE UNCHANGED allVars
  BY <1>1 DEF allVars
<1>2. CASE CollectorNext
  <2>1. CASE HandlerStarts \/ HandlerReturns \/ Stop \/ ServeFails \/ GeoWatchEnds
    BY <2>1 DEF HandlerStarts, HandlerReturns, Stop, ServeFails, GeoWatchEnds
  <2>2. CASE HandlerAdmits
    BY <2>2 DEF HandlerAdmits, Next
  <2>3. CASE ShutdownBegins \/ HttpShutDown \/ MetricsShutDown \/ DrainTimesOut \/ DrainReturns
    BY <2>3 DEF ShutdownBegins, HttpShutDown, MetricsShutDown, DrainTimesOut, DrainReturns
  <2>4. CASE BatcherStopped
    BY <2>4 DEF BatcherStopped, Next
  <2>5. CASE DrainBegins
    BY <2>5 DEF DrainBegins, Next, CollectorTypeOK
  <2>6. CASE DeadlinePasses
    BY <2>6 DEF DeadlinePasses, Next
  <2>7. CASE Exit
    BY <2>7 DEF Exit
  <2>8. CASE BatcherStep \/ IndexLate
    BY <2>8 DEF Next
  <2> QED
    BY <1>2, <2>1, <2>2, <2>3, <2>4, <2>5, <2>6, <2>7, <2>8 DEF CollectorNext, ShutdownStep
<1> QED
  BY <1>1, <1>2

LEMMA StepKeepsType ==
  ASSUME CollectorTypeOK, [CollectorNext]_allVars
  PROVE  CollectorTypeOK'
<1> USE CollectorAssumption DEF CollectorTypeOK
<1>1. CASE UNCHANGED allVars
  BY <1>1 DEF allVars, mainVars
<1>2. CASE CollectorNext
  <2>1. CASE HandlerStarts \/ HandlerAdmits \/ HandlerReturns
    BY <2>1 DEF HandlerStarts, HandlerAdmits, HandlerReturns
  <2>2. CASE Stop \/ ServeFails \/ GeoWatchEnds
    BY <2>2 DEF Stop, ServeFails, GeoWatchEnds
  <2>3. CASE ShutdownStep
    BY <2>3 DEF ShutdownStep, ShutdownBegins, HttpShutDown, MetricsShutDown, BatcherStopped,
                DrainBegins, DrainTimesOut, DrainReturns, Proceed
  <2>4. CASE DeadlinePasses \/ Exit
    BY <2>4 DEF DeadlinePasses, Exit
  <2>5. CASE UNCHANGED mainVars
    BY <2>5 DEF mainVars
  <2> QED
    BY <1>2, <2>1, <2>2, <2>3, <2>4, <2>5 DEF CollectorNext
<1> QED
  BY <1>1, <1>2

\* Main's own state is well-formed; net/http's count of active handlers, which
\* Shutdown waits for, never passes its bounds (main.go:62-139).
THEOREM MainTypeCorrect == CollectorSpec => []CollectorTypeOK
<1>0. 0 \in 0..MaxHandlers
  BY CollectorAssumption
<1>1. CollectorInit => CollectorTypeOK
  BY <1>0, Zenon DEF CollectorInit, CollectorTypeOK
<1>2. CollectorTypeOK /\ [CollectorNext]_allVars => CollectorTypeOK'
  BY StepKeepsType
<1> QED
  BY <1>1, <1>2, PTL DEF CollectorSpec

\* Whatever handlers, signals, failing servers and the shutdown deadline do, Run
\* and Drain are called as the batcher expects: Drain once, after Run closed done,
\* and no step of main touches a batch in flight (main.go:96-119).
THEOREM ImplementsBatcher == CollectorSpec => BatcherSpec
<1>1. CollectorInit => Init
  BY DEF CollectorInit
<1>2. CollectorTypeOK /\ [CollectorNext]_allVars => [Next]_vars
  BY StepRefines
<1> QED
  BY <1>1, <1>2, MainTypeCorrect, PTL DEF CollectorSpec, BatcherSpec, Spec

-----------------------------------------------------------------------------
\* The shutdown.

\* How far the shutdown goroutine is, and what that tells of handlers and batcher.
\* Until the deadline passes nobody is left to admit an event once httpServer.Shutdown
\* has returned, and a Drain that reports no error leaves the queue empty.
Winding ==
  /\ shutdown # "waiting" => ~listening
  /\ ~deadline /\ shutdown \notin {"waiting", "http"} => active = 0
  /\ shutdown = "done" /\ ~deadline => life = "drained"
  /\ exited => shutdown = "done"
  /\ life = "draining" =>
       /\ shutdown = "draining" /\ need = 1 /\ (ctxErr <=> deadline)
       /\ pc \in {"loop", "send", "backoff", "failed"}
  /\ life = "drained" => pc = "select" /\ shutdown \in {"draining", "done"}
  /\ life = "drained" /\ ~deadline /\ ~flushErr => queue = <<>>

\* What the goroutine of Run and Drain may change of what Winding tells.
LEMMA StepOfBatcher ==
  ASSUME TypeOK, Control, BatcherStep
  PROVE  /\ ctxErr' = ctxErr
         /\ \/ life' = life /\ life # "drained" /\ (life = "draining" =>
                 need' = need /\ pc' \in {"loop", "send", "backoff", "failed"})
            \/ life \in {"created", "running"} /\ life' \in {"running", "returned"}
            \/ /\ life = "draining" /\ life' = "drained" /\ pc' = "select"
               /\ ~flushErr' => Len(queue) < need /\ queue' = queue
<1> USE DEF queueVars, flushVars, counters, external
<1>1. CASE Run \/ SelectDone \/ SelectTick \/ SelectNotify \/ Notified
  BY <1>1 DEF Run, SelectDone, Return, SelectTick, SelectNotify, Notified, NotifiedWith,
              StartLoop, Selecting, Control
<1>2. CASE LoopEnds
  <2>1. Len(queue) >= need => flushErr'
    BY <1>2, Zenon DEF LoopEnds, LoopReturns
  <2>2. ~(Len(queue) >= need) => Len(queue) < need
    <3>1. Len(queue) \in Nat /\ need \in Int
      BY LenProperties, BatcherAssumption DEF TypeOK
    <3> QED
      BY <3>1
  <2>3. ~flushErr' => Len(queue) < need
    BY <2>1, <2>2
  <2>4. /\ queue' = queue /\ pc' = "select" /\ life \in {"running", "draining"} /\ ctxErr' = ctxErr
        /\ life' = IF life = "draining" THEN "drained" ELSE life
    BY <1>2 DEF LoopEnds, LoopReturns, Control
  <2> QED
    BY <2>3, <2>4
<1>3. CASE LoopFlushes \/ BackoffTimer \/ BackoffCancelled
  BY <1>3 DEF LoopFlushes, BackoffTimer, BackoffCancelled, AbandonBackoff, Control
<1>4. CASE SendReturns
  BY <1>4, SendFlattened DEF SentAs, Goes, Control
<1>5. CASE FlushRestores \/ FlushDiscards
  BY <1>5 DEF FlushRestores, FlushDiscards, FlushReturns, LoopReturns, Control
<1> QED
  BY <1>1, <1>2, <1>3, <1>4, <1>5 DEF BatcherStep

LEMMA StepWinding ==
  ASSUME Safe, CollectorTypeOK, Winding, [CollectorNext]_allVars
  PROVE  Winding'
<1>0. TypeOK /\ Control
  BY DEF Safe
<1> USE DEF queueVars
<1>1. CASE UNCHANGED allVars
  BY <1>1 DEF allVars, mainVars, vars, Winding
<1>2. CASE CollectorNext
  <2>0. ~exited
    BY <1>2 DEF CollectorNext
  <2>1. CASE HandlerStarts \/ HandlerReturns \/ Stop \/ ServeFails \/ GeoWatchEnds
    BY <2>1 DEF HandlerStarts, HandlerReturns, Stop, ServeFails, GeoWatchEnds, vars, Winding,
                CollectorTypeOK
  <2>2. CASE HandlerAdmits
    <3>1. /\ active > 0 /\ active' = active - 1
          /\ UNCHANGED <<stopping, listening, shutdown, deadline, geoWatch, exited>>
          /\ UNCHANGED <<life, pc, need, ctxErr, flushErr>>
      BY <1>0, <2>2, AdmitAppends DEF HandlerAdmits, Admitted
    <3> QED
      BY <3>1 DEF Winding, CollectorTypeOK
  <2>3. CASE ShutdownBegins \/ HttpShutDown \/ MetricsShutDown \/ DrainTimesOut \/ DrainReturns
    BY <2>3 DEF ShutdownBegins, HttpShutDown, MetricsShutDown, DrainTimesOut, DrainReturns,
                Proceed, vars, Winding
  <2>4. CASE BatcherStopped
    BY <2>4 DEF BatcherStopped, Proceed, Cancel, Winding
  <2>5. CASE DrainBegins
    BY <2>5 DEF DrainBegins, Proceed, Drain, Winding
  <2>6. CASE DeadlinePasses
    BY <2>6 DEF DeadlinePasses, Cancel, vars, Winding
  <2>7. CASE Exit
    BY <2>7 DEF Exit, vars, Winding
  <2>8. CASE BatcherStep /\ UNCHANGED mainVars
    <3>1. UNCHANGED mainVars /\ ctxErr' = ctxErr
      BY <1>0, <2>8, StepOfBatcher
    <3>2. CASE life' = life /\ life # "drained" /\ (life = "draining" =>
                 need' = need /\ pc' \in {"loop", "send", "backoff", "failed"})
      BY <3>1, <3>2 DEF Winding, mainVars
    <3>3. CASE life \in {"created", "running"} /\ life' \in {"running", "returned"}
      BY <3>1, <3>3 DEF Winding, mainVars
    <3>4. CASE /\ life = "draining" /\ life' = "drained" /\ pc' = "select"
               /\ ~flushErr' => Len(queue) < need /\ queue' = queue
      <4>1. ~flushErr' => queue' = <<>>
        <5>1. need = 1
          BY <3>4 DEF Winding
        <5>2. Len(queue) < 1 => queue = <<>>
          BY <1>0, LenProperties, EmptySeq DEF TypeOK
        <5> QED
          BY <3>4, <5>1, <5>2
      <4> QED
        BY <3>1, <3>4, <4>1 DEF Winding, mainVars
    <3> QED
      BY <1>0, <2>8, <3>2, <3>3, <3>4, StepOfBatcher
  <2>9. CASE IndexLate /\ UNCHANGED mainVars
    BY <2>9 DEF IndexLate, mainVars, Winding
  <2> QED
    BY <1>2, <2>1, <2>2, <2>3, <2>4, <2>5, <2>6, <2>7, <2>8, <2>9
       DEF CollectorNext, ShutdownStep
<1> QED
  BY <1>1, <1>2

LEMMA WindingInvariant == CollectorSpec => [](Safe /\ CollectorTypeOK /\ Winding)
<1>1. CollectorInit => Winding
  BY DEF CollectorInit, Init, Q!Init, Winding
<1>2. Safe /\ CollectorTypeOK /\ Winding /\ [CollectorNext]_allVars => Winding'
  BY StepWinding
<1>3. CollectorSpec => []Safe
  BY ImplementsBatcher, SafeInvariant, PTL DEF BatcherSpec
<1> QED
  BY <1>1, <1>2, <1>3, MainTypeCorrect, PTL DEF CollectorSpec

\* A graceful exit loses nothing: if main returns before the shutdown deadline and Drain
\* reported no error, every event a handler accepted has its verdict (main.go:96-139).
THEOREM NothingLostAtExit == CollectorSpec => []GracefulExit
<1>1. Safe /\ Winding => GracefulExit
  <2> SUFFICES ASSUME Safe, Winding, exited, ~deadline, ~flushErr, NEW n \in Numbers
               PROVE  outcome[n] # "held"
    BY DEF GracefulExit
  <2>1. queue = <<>> /\ pc = "select"
    BY DEF Winding
  <2>2. InFlight = <<>>
    BY <2>1 DEF InFlight
  <2>3. Nos(<<>>) = {}
    BY DEF Nos
  <2> QED
    BY <2>1, <2>2, <2>3 DEF Safe, NothingVanishes
<1> QED
  BY <1>1, WindingInvariant, PTL

-----------------------------------------------------------------------------
\* The capacity of the queue.

\* Run restores once, as its last flush: until then the queue has the size it was made
\* with.  Drain flushes only while no handler is left to take the room of its batch.
Room ==
  /\ capacity \in Nat /\ capacity <= MaxQueueSize + MaxBatchSize
  /\ life \in {"created", "running"} /\ (~ctxErr \/ pc \in {"send", "backoff", "failed"})
       => capacity = MaxQueueSize
  /\ life = "draining" /\ pc \in {"send", "backoff", "failed"} =>
       active = 0 /\ Len(queue) + Len(batch) <= capacity

LEMMA RestoredRoom ==
  ASSUME Safe, Sizes, Room, FlushRestores
  PROVE  /\ capacity' \in Nat /\ capacity' <= MaxQueueSize + MaxBatchSize
         /\ ctxErr /\ ctxErr' = ctxErr /\ pc' = "select" /\ life' # "draining"
<1>1. TypeOK /\ Control
  BY DEF Safe
<1>2. /\ Len(queue) \in Nat /\ Len(restore) \in Nat /\ Len(batch) \in Nat
      /\ capacity \in Nat /\ Len(queue) <= capacity
      /\ MaxQueueSize \in Nat /\ MaxBatchSize \in Nat
  BY <1>1, LenProperties, BatcherAssumption DEF TypeOK
<1>3. /\ ctxErr /\ ctxErr' = ctxErr /\ pc = "failed" /\ pc' = "select" /\ life' # "draining"
      /\ capacity' = IF Len(queue) + Len(restore) > capacity
                       THEN Len(queue) + Len(restore) ELSE capacity
  BY DEF FlushRestores, FlushReturns, LoopReturns, Q!Prepend
<1>4. Len(restore) <= Len(batch) /\ Len(batch) <= MaxBatchSize
  BY <1>3 DEF Sizes
<1>5. CASE life = "running"
  <2>1. capacity = MaxQueueSize
    BY <1>3, <1>5 DEF Room
  <2> QED
    BY <1>2, <1>3, <1>4, <2>1
<1>6. CASE life = "draining"
  <2>1. Len(queue) + Len(batch) <= capacity /\ capacity <= MaxQueueSize + MaxBatchSize
    BY <1>3, <1>6 DEF Room
  <2> QED
    BY <1>2, <1>3, <1>4, <2>1
<1> QED
  BY <1>1, <1>3, <1>5, <1>6 DEF Control

LEMMA BatcherRoom ==
  ASSUME Safe, Sizes, Winding, Room, BatcherStep, UNCHANGED mainVars
  PROVE  Room'
<1> USE DEF queueVars, flushVars, counters, external
<1>1. TypeOK /\ Control /\ Line
  BY DEF Safe
<1>2. CASE Run \/ SelectDone \/ SelectTick \/ SelectNotify \/ Notified \/ LoopEnds
  <2>1. /\ UNCHANGED <<queue, capacity, ctxErr>>
        /\ pc' \notin {"send", "backoff", "failed"}
        /\ life' \in {"created", "running"} => life \in {"created", "running"}
    BY <1>1, <1>2 DEF Run, SelectDone, Return, SelectTick, SelectNotify, Notified, NotifiedWith,
              StartLoop, Selecting, Q!Receive, LoopEnds, LoopReturns, Control
  <2> QED
    BY <2>1 DEF Room
<1>3. CASE LoopFlushes
  <2>1. PICK n \in 0..Len(queue) : Len(batch') = n /\ Len(queue') = Len(queue) - n
    BY <1>1, <1>3, DrainSplits
  <2>2. Len(queue) \in Nat /\ capacity \in Nat /\ Len(queue) <= capacity
    BY <1>1, LenProperties DEF TypeOK
  <2>3. /\ ~ctxErr /\ pc' = "send" /\ life' = life /\ capacity' = capacity /\ ctxErr' = ctxErr
        /\ active' = active
    BY <1>3 DEF LoopFlushes, Q!Drain, mainVars
  <2>4. Len(queue') + Len(batch') <= capacity
    BY <2>1, <2>2
  <2>5. life = "draining" => active = 0
    BY <2>3 DEF Winding
  <2> QED
    BY <2>3, <2>4, <2>5 DEF Room
<1>4. CASE SendReturns
  <2>1. PICK reply \in Replies(Len(pending)) :
          SentAs(BuildBulkPayload(pending, reply.sent), reply, Send(Len(pending), reply))
    BY <1>1, <1>4, SendFlattened
  <2> DEFINE docs == BuildBulkPayload(pending, reply.sent)
             r == Send(Len(pending), reply)
  <2>2. SentAs(docs, reply, r)
    BY <2>1
  <2> HIDE DEF docs, r
  <2>3. /\ pc = "send" /\ Len(docs) = Len(pending) /\ batch' = Aliased(docs)
        /\ UNCHANGED <<queue, capacity, life, ctxErr>> /\ pc' \in {"loop", "failed", "backoff"}
    BY <2>2 DEF SentAs, Goes, Numbered, Exchange
  <2>4. Len(batch') = Len(batch)
    <3>1. attempt = 0 => pending = batch
      BY <1>1, <2>3 DEF Line
    <3> QED
      BY <2>3, <3>1 DEF Aliased
  <2>5. active' = active
    BY DEF mainVars
  <2> QED
    BY <2>3, <2>4, <2>5 DEF Room
<1>5. CASE BackoffTimer \/ BackoffCancelled
  <2>1. /\ UNCHANGED <<queue, capacity, life, ctxErr, batch, active>>
        /\ pc = "backoff" /\ pc' \in {"send", "failed"}
    BY <1>5 DEF BackoffTimer, BackoffCancelled, AbandonBackoff, mainVars
  <2> QED
    BY <2>1 DEF Room
<1>6. CASE FlushRestores
  <2>1. /\ capacity' \in Nat /\ capacity' <= MaxQueueSize + MaxBatchSize
        /\ ctxErr /\ ctxErr' = ctxErr /\ pc' = "select" /\ life' # "draining"
    BY <1>6, RestoredRoom
  <2>2. ctxErr'
    BY <2>1, Zenon
  <2> QED
    BY <2>1, <2>2 DEF Room
<1>7. CASE FlushDiscards
  <2>1. /\ UNCHANGED <<capacity, ctxErr>> /\ ~ctxErr /\ pc = "failed" /\ pc' = "select"
        /\ life' = life \/ life' = "drained"
    BY <1>7 DEF FlushDiscards, FlushReturns, LoopReturns
  <2> QED
    BY <2>1 DEF Room
<1> QED
  BY <1>2, <1>3, <1>4, <1>5, <1>6, <1>7 DEF BatcherStep

LEMMA StepRoom ==
  ASSUME Safe, Sizes, CollectorTypeOK, Winding, Room, [CollectorNext]_allVars
  PROVE  Room'
<1>0. TypeOK /\ Control
  BY DEF Safe
<1> USE DEF queueVars, flushVars
<1>1. CASE UNCHANGED allVars
  BY <1>1 DEF allVars, mainVars, vars, Room
<1>2. CASE CollectorNext
  <2>1. CASE HandlerStarts \/ HandlerReturns \/ Stop \/ ServeFails \/ GeoWatchEnds
    <3>1. /\ UNCHANGED <<queue, capacity, life, ctxErr, pc, batch>>
          /\ active' = active \/ (active > 0 /\ active' = active - 1) \/ listening
      BY <2>1 DEF HandlerStarts, HandlerReturns, Stop, ServeFails, GeoWatchEnds, vars
    <3>2. life = "draining" => ~listening
      BY DEF Winding
    <3> QED
      BY <3>1, <3>2 DEF Room
  <2>2. CASE HandlerAdmits
    <3>1. active > 0
      BY <2>2 DEF HandlerAdmits
    <3>2. UNCHANGED <<capacity, life, ctxErr, pc>>
      BY <1>0, <2>2, AdmitAppends DEF HandlerAdmits, Admitted
    <3> QED
      BY <3>1, <3>2 DEF Room
  <2>3. CASE ShutdownBegins \/ HttpShutDown \/ MetricsShutDown \/ DrainTimesOut \/ DrainReturns \/ Exit
    BY <2>3 DEF ShutdownBegins, HttpShutDown, MetricsShutDown, DrainTimesOut, DrainReturns,
                Proceed, Exit, vars, Room
  <2>4. CASE BatcherStopped \/ DeadlinePasses
    <3>1. /\ UNCHANGED <<queue, capacity, life, pc, batch, active>>
          /\ ctxErr' = TRUE \/ ctxErr' = ctxErr
      BY <2>4 DEF BatcherStopped, DeadlinePasses, Proceed, Cancel, vars
    <3> QED
      BY <3>1 DEF Room
  <2>5. CASE DrainBegins
    BY <2>5 DEF DrainBegins, Proceed, Drain, Room
  <2>6. CASE BatcherStep /\ UNCHANGED mainVars
    BY <2>6, BatcherRoom
  <2>7. CASE IndexLate /\ UNCHANGED mainVars
    BY <2>7 DEF IndexLate, mainVars, Room
  <2> QED
    BY <1>2, <2>1, <2>2, <2>3, <2>4, <2>5, <2>6, <2>7 DEF CollectorNext, ShutdownStep
<1> QED
  BY <1>1, <1>2

\* Restored batches make the queue outgrow MAX_QUEUE_SIZE by one batch at most, although
\* Run and Drain may both restore one and handlers may outlast the deadline (queue.go:54-79).
THEOREM BoundedQueue == CollectorSpec => []QueueBounded
<1>1. CollectorInit => Room
  BY BatcherAssumption DEF CollectorInit, Init, Q!Init, Room
<1>2. Safe /\ Sizes /\ CollectorTypeOK /\ Winding /\ Room /\ [CollectorNext]_allVars => Room'
  BY StepRoom
<1>3. CollectorSpec => []Sizes
  BY ImplementsBatcher, SizesInvariant, PTL DEF BatcherSpec
<1>4. Room => QueueBounded
  BY DEF Room, QueueBounded
<1> QED
  BY <1>1, <1>2, <1>3, <1>4, WindingInvariant, PTL DEF CollectorSpec
=============================================================================
