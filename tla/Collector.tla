------------------------------ MODULE Collector ------------------------------
(***************************************************************************)
(* cmd/collector/main.go: the life of the process.  Request handlers feed  *)
(* the queue while the HTTP server listens; a signal, or a server that     *)
(* fails, starts the shutdown goroutine, which within one ten second       *)
(* deadline stops the servers, stops the batcher, drains the queue and     *)
(* lets main return.                                                       *)
(*                                                                         *)
(* The batcher, its queue and Elasticsearch are those of module Batcher:   *)
(* every step here is one of theirs or leaves them alone (BatcherSpec).    *)
(***************************************************************************)
EXTENDS Batcher

CONSTANT MaxHandlers  \* bound: requests handled at the same time

ASSUME CollectorAssumption == MaxHandlers \in Nat

VARIABLES
  stopping,   \* ctx of signal.NotifyContext is done
  listening,  \* httpServer.ListenAndServe has not returned
  active,     \* handlers at work in httpServer
  shutdown,   \* where the shutdown goroutine is
  deadline,   \* shutdownCtx has expired
  geoWatch,   \* the goroutine of watchGeoIP is running
  exited      \* main has returned

mainVars == <<stopping, listening, active, shutdown, deadline, geoWatch, exited>>
allVars == <<vars, mainVars>>

CollectorInit ==
  /\ Init
  /\ stopping = FALSE /\ listening = TRUE /\ active = 0
  /\ shutdown = "waiting" /\ deadline = FALSE
  /\ geoWatch = TRUE /\ exited = FALSE

-----------------------------------------------------------------------------
\* net/http runs a handler for each request on a connection it accepted.
HandlerStarts ==
  /\ listening /\ active < MaxHandlers
  /\ active' = active + 1
  /\ UNCHANGED <<vars, stopping, listening, shutdown, deadline, geoWatch, exited>>

\* handleCollect gets its events into the queue and returns.
HandlerAdmits ==
  /\ active > 0
  /\ Admit
  /\ active' = active - 1
  /\ UNCHANGED <<stopping, listening, shutdown, deadline, geoWatch, exited>>

\* A handler returns without any: the request or the queue did not allow it.
HandlerReturns ==
  /\ active > 0
  /\ active' = active - 1
  /\ UNCHANGED <<vars, stopping, listening, shutdown, deadline, geoWatch, exited>>

\* SIGINT or SIGTERM, or stop() after the metrics server failed.
Stop ==
  /\ ~stopping
  /\ stopping' = TRUE
  /\ UNCHANGED <<vars, listening, active, shutdown, deadline, geoWatch, exited>>

\* ListenAndServe returns an error of its own and main calls stop().
ServeFails ==
  /\ listening
  /\ listening' = FALSE /\ stopping' = TRUE
  /\ UNCHANGED <<vars, active, shutdown, deadline, geoWatch, exited>>

GeoWatchEnds ==
  /\ geoWatch /\ stopping
  /\ geoWatch' = FALSE
  /\ UNCHANGED <<vars, stopping, listening, active, shutdown, deadline, exited>>

-----------------------------------------------------------------------------
\* The shutdown goroutine moves on, leaving batcher and queue alone.
Proceed(from, to) ==
  /\ shutdown = from /\ shutdown' = to
  /\ UNCHANGED <<stopping, active, deadline, geoWatch, exited>>

\* ctx.Done(): the ten seconds begin and Shutdown closes the listener.
ShutdownBegins ==
  /\ stopping
  /\ Proceed("waiting", "http")
  /\ listening' = FALSE
  /\ UNCHANGED vars

\* A slip: the server is closed without waiting for its handlers.
HttpClosed ==
  /\ Proceed("http", "metrics")
  /\ UNCHANGED <<vars, listening>>

\* A slip: Shutdown under a context that does not expire.
HttpShutDownPatiently ==
  /\ active = 0
  /\ Proceed("http", "metrics")
  /\ UNCHANGED <<vars, listening>>

\* httpServer.Shutdown returns when no handler is left or ctx expires.
HttpShutDown ==
  /\ active = 0 \/ deadline
  /\ Proceed("http", "metrics")
  /\ UNCHANGED <<vars, listening>>

\* metricsServer, if there is one, is shut down.
MetricsShutDown ==
  /\ Proceed("metrics", "stop")
  /\ UNCHANGED <<vars, listening>>

\* stopBatcher().
BatcherStopped ==
  /\ Proceed("stop", "select")
  /\ Cancel
  /\ UNCHANGED listening

\* A slip: Drain starts without waiting for Run to return.
DrainBeginsAtOnce ==
  /\ Proceed("select", "draining")
  /\ life' = "draining" /\ pc' = "loop" /\ need' = 1 /\ ctxErr' = deadline
  /\ UNCHANGED <<queueVars, flushVars, flushErr, counters, arrived, outcome,
                 external, listening>>

\* The select: b.Done() leads to Drain, shutdownCtx.Done() gives up.
DrainBegins ==
  /\ Done
  /\ Proceed("select", "draining")
  /\ Drain(deadline)
  /\ UNCHANGED listening

DrainTimesOut ==
  /\ deadline
  /\ Proceed("select", "done")
  /\ UNCHANGED <<vars, listening>>

DrainReturns ==
  /\ life = "drained"
  /\ Proceed("draining", "done")
  /\ UNCHANGED <<vars, listening>>

ShutdownStep ==
  \/ ShutdownBegins \/ HttpShutDown \/ MetricsShutDown \/ BatcherStopped
  \/ DrainBegins \/ DrainTimesOut \/ DrainReturns

\* The ten seconds are over; Drain, if it runs, sees its context expire.
DeadlinePasses ==
  /\ ~deadline /\ shutdown \notin {"waiting", "done"}
  /\ deadline' = TRUE
  /\ IF life = "draining" THEN Cancel ELSE UNCHANGED vars
  /\ UNCHANGED <<stopping, listening, active, shutdown, geoWatch, exited>>

\* main waits for both goroutines before it returns.
Exit ==
  /\ ~listening /\ shutdown = "done" /\ ~geoWatch
  /\ exited' = TRUE
  /\ UNCHANGED <<vars, stopping, listening, active, shutdown, deadline, geoWatch>>

-----------------------------------------------------------------------------
CollectorNext ==
  /\ ~exited
  /\ \/ HandlerStarts \/ HandlerAdmits \/ HandlerReturns
     \/ Stop \/ ServeFails \/ GeoWatchEnds
     \/ ShutdownStep \/ DeadlinePasses \/ Exit
     \/ BatcherStep /\ UNCHANGED mainVars
     \/ IndexLate /\ UNCHANGED mainVars

CollectorSpec == CollectorInit /\ [][CollectorNext]_allVars

\* A request to Elasticsearch may outlast everything here (15 seconds against
\* the 10 of the deadline) until its context is cancelled; handlers may never
\* return.  The goroutines themselves keep running and the timer fires.
PromptBatcherStep ==
  ~exited /\ (pc # "send" \/ ctxErr) /\ BatcherStep /\ UNCHANGED mainVars

CollectorFairness ==
  /\ WF_allVars(PromptBatcherStep)
  /\ SF_allVars(~exited /\ SelectDone /\ UNCHANGED mainVars)
  /\ WF_allVars(~exited /\ ShutdownStep)
  /\ WF_allVars(~exited /\ DeadlinePasses)
  /\ WF_allVars(~exited /\ GeoWatchEnds)
  /\ WF_allVars(~exited /\ Exit)

CollectorFairSpec == CollectorSpec /\ CollectorFairness

-----------------------------------------------------------------------------
\* Type invariant of main's own state.
CollectorTypeOK ==
  /\ stopping \in BOOLEAN /\ listening \in BOOLEAN
  /\ active \in 0..MaxHandlers
  /\ shutdown \in {"waiting", "http", "metrics", "stop", "select", "draining", "done"}
  /\ deadline \in BOOLEAN /\ geoWatch \in BOOLEAN /\ exited \in BOOLEAN

\* The composition keeps the batcher to its specification: Run and Drain never
\* overlap, Drain starts only after Run closed done, and nothing but handlers,
\* batcher and Elasticsearch touches the queue and the store.
BatcherSpec == Spec

\* A graceful exit loses nothing: if main returns within the deadline and Drain
\* reported no error, every accepted event has got its verdict.
GracefulExit ==
  exited /\ ~deadline /\ ~flushErr => \A n \in Numbers : outcome[n] # "held"

\* Restored batches make the queue outgrow MAX_QUEUE_SIZE by one batch at most,
\* whatever handlers do while the shutdown goes on.
QueueBounded == capacity <= MaxQueueSize + MaxBatchSize

\* Once told to stop the process exits, even if handlers hang for ever and
\* Elasticsearch does not answer.
StopLeadsToExit == stopping ~> exited
=============================================================================
