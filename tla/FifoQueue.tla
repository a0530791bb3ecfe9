------------------------------ MODULE FifoQueue ------------------------------
(***************************************************************************)
(* What internal/queue promises its callers: a bounded first-in first-out  *)
(* queue of events whose bound is enforced on admission only (Enqueue,     *)
(* DropNewest); Prepend always succeeds and raises the bound when it must. *)
(* Every method of the Go type holds the mutex for its whole body, so each *)
(* is one atomic step.  Queue.tla is the ring buffer that implements this  *)
(* specification; Batcher.tla uses its actions.                            *)
(***************************************************************************)
EXTENDS Integers, Sequences

CONSTANTS Event,         \* the events that callers put in
          MaxQueueSize,  \* config MaxQueueSize: the capacity New is given
          MaxBatch       \* bound: the longest slice passed to one call

VARIABLES queue,     \* the events held, oldest first
          capacity,  \* the admission bound
          notifyCh,  \* TRUE iff the one-slot notification channel is full
          call       \* history: the last call, its argument and its results

queueVars == <<queue, capacity, notifyCh>>
vars == <<queue, capacity, notifyCh, call>>

Batches == UNION {[1..n -> Event] : n \in 0..MaxBatch}

\* What a caller sees of a call: the operation, the slice passed in, the number
\* passed in or returned and the slice returned.
Call(op, arg, num, out) == [op |-> op, arg |-> arg, num |-> num, out |-> out]

Init ==
  /\ queue = <<>>
  /\ capacity = MaxQueueSize
  /\ notifyCh = FALSE

Fits(events) == Len(queue) + Len(events) <= capacity
Available == capacity - Len(queue)

PutLast(events) ==
  /\ queue' = queue \o events
  /\ notifyCh' = TRUE
  /\ UNCHANGED capacity

\* All or nothing.
Enqueue(events) == Fits(events) /\ PutLast(events)

\* The prefix that fits is kept; a full queue is left alone, without a token.
Kept(events) == IF Len(events) <= Available THEN Len(events) ELSE Available
DropNewest(events) == Available > 0 /\ PutLast(SubSeq(events, 1, Kept(events)))

Prepend(events) ==
  LET held == Len(queue) + Len(events)
  IN  /\ queue' = events \o queue
      /\ capacity' = IF held > capacity THEN held ELSE capacity
      /\ notifyCh' = TRUE

\* A maximum of zero or less takes everything.
DrainCount(max) ==
  IF max <= 0 \/ max > Len(queue) THEN Len(queue) ELSE max
Drained(max) == SubSeq(queue, 1, DrainCount(max))

Drain(max) ==
  /\ queue' = SubSeq(queue, DrainCount(max) + 1, Len(queue))
  /\ UNCHANGED <<capacity, notifyCh>>

\* The consumer receives from Notify().
Receive ==
  /\ notifyCh
  /\ notifyCh' = FALSE
  /\ UNCHANGED <<queue, capacity>>

CallEnqueue(events) ==
  \/ Enqueue(events) /\ call' = Call("Enqueue", events, 1, <<>>)
  \/ /\ ~Fits(events)
     /\ call' = Call("Enqueue", events, 0, <<>>)
     /\ UNCHANGED queueVars

CallDropNewest(events) ==
  \/ /\ DropNewest(events)
     /\ call' = Call("DropNewest", events, Len(events) - Kept(events), <<>>)
  \/ /\ Available <= 0
     /\ call' = Call("DropNewest", events, Len(events), <<>>)
     /\ UNCHANGED queueVars

CallPrepend(events) ==
  Prepend(events) /\ call' = Call("Prepend", events, 1, <<>>)

CallDrain(max) ==
  Drain(max) /\ call' = Call("Drain", <<>>, max, Drained(max))

CallReceive ==
  Receive /\ call' = Call("Receive", <<>>, 0, <<>>)

Next ==
  \/ \E events \in Batches :
       CallEnqueue(events) \/ CallDropNewest(events) \/ CallPrepend(events)
  \/ \E max \in 0..MaxBatch : CallDrain(max)
  \/ CallReceive

Spec == Init /\ call = Call("New", <<>>, MaxQueueSize, <<>>) /\ [][Next]_vars
=============================================================================
