-------------------------------- MODULE Queue --------------------------------
(***************************************************************************)
(* The ring buffer of internal/queue/queue.go.  The live events occupy     *)
(* size slots from head, wrapping at capacity; Offset(s) is how far slot s *)
(* lies behind head.  The loops over a batch are written in closed form,   *)
(* slot by slot; the mutex makes each method one step.                     *)
(***************************************************************************)
EXTENDS Integers, Sequences

CONSTANTS Event,         \* the events that callers put in
          Zero,          \* events.Event{}, the value of an unused slot
          MaxQueueSize,  \* the capacity New is given
          MaxBatch,      \* bound: the longest slice passed to one call
          MaxHeld        \* bound: Prepend is not explored past this many events

\* config.go:185 refuses a MaxQueueSize that is not positive.
ASSUME QueueAssumption ==
  /\ MaxQueueSize \in Nat \ {0}
  /\ MaxBatch \in Nat
  /\ MaxHeld \in Nat
  /\ Zero \notin Event

VARIABLES items,     \* the slots
          head,      \* the slot of the oldest event
          size,      \* how many events are held
          capacity,  \* the number of slots
          notifyCh,  \* TRUE iff the notification channel holds its token
          call       \* history: the last call, its argument and its results

ring == <<items, head, size, capacity>>
vars == <<items, head, size, capacity, notifyCh, call>>

Batches == UNION {[1..n -> Event] : n \in 0..MaxBatch}

\* The same record of a call as in FifoQueue.
Call(op, arg, num, out) == [op |-> op, arg |-> arg, num |-> num, out |-> out]

\* The slot k places behind head, and the inverse: the place of slot s.
Slot(k) == (head + k) % capacity
Offset(s) == (s + capacity - head) % capacity

Init ==
  /\ items = [s \in 0..MaxQueueSize - 1 |-> Zero]
  /\ head = 0
  /\ size = 0
  /\ capacity = MaxQueueSize
  /\ notifyCh = FALSE
  /\ call = Call("New", <<>>, MaxQueueSize, <<>>)

notify == notifyCh' = TRUE

append(events) ==
  /\ items' = [s \in 0..capacity - 1 |->
                 IF Offset(s) \in size..size + Len(events) - 1
                   THEN events[Offset(s) - size + 1] ELSE items[s]]
  /\ size' = size + Len(events)
  /\ UNCHANGED <<head, capacity>>

Enqueue(events) ==
  IF size + Len(events) > capacity
    THEN UNCHANGED <<ring, notifyCh>> /\ call' = Call("Enqueue", events, 0, <<>>)
    ELSE append(events) /\ notify /\ call' = Call("Enqueue", events, 1, <<>>)

DropNewest(events) ==
  LET available == capacity - size
  IN  \/ /\ available <= 0
         /\ UNCHANGED <<ring, notifyCh>>
         /\ call' = Call("DropNewest", events, Len(events), <<>>)
      \/ /\ available > 0 /\ Len(events) <= available
         /\ append(events) /\ notify
         /\ call' = Call("DropNewest", events, 0, <<>>)
      \/ /\ available > 0 /\ Len(events) > available
         /\ append(SubSeq(events, 1, available)) /\ notify
         /\ call' = Call("DropNewest", events, Len(events) - available, <<>>)

\* The slots after grow(n): the live events unwrapped to the front.
grow(n) == [s \in 0..n - 1 |-> IF s < size THEN items[Slot(s)] ELSE Zero]

\* The loop of Prepend, on slots that begin at `from`: `first` is where head
\* ends up, and the slots from there on take the batch.
PutBefore(events, slots, from, cap) ==
  LET first == (from + cap - Len(events)) % cap
      place(s) == (s + cap - first) % cap
  IN  /\ head' = first
      /\ items' = [s \in 0..cap - 1 |->
                     IF place(s) < Len(events) THEN events[place(s) + 1] ELSE slots[s]]
      /\ capacity' = cap
      /\ size' = size + Len(events)

\* A slip: the batch walked from its first event.
PrependForwards(events) ==
  LET held == size + Len(events)
      backwards == [i \in 1..Len(events) |-> events[Len(events) + 1 - i]]
  IN  /\ IF held > capacity
           THEN PutBefore(backwards, grow(held), 0, held)
           ELSE PutBefore(backwards, items, head, capacity)
      /\ notify
      /\ call' = Call("Prepend", events, 1, <<>>)

Prepend(events) ==
  LET held == size + Len(events)
  IN  /\ IF held > capacity
           THEN PutBefore(events, grow(held), 0, held)
           ELSE PutBefore(events, items, head, capacity)
      /\ notify
      /\ call' = Call("Prepend", events, 1, <<>>)

DrainCount(max) == IF max <= 0 \/ max > size THEN size ELSE max

\* A slip: the drained slots keep their events.
DrainKeepingSlots(max) ==
  LET n == DrainCount(max)
  IN  /\ call' = Call("Drain", <<>>, max, [i \in 1..n |-> items[Slot(i - 1)]])
      /\ size' = size - n
      /\ head' = IF size = n THEN 0 ELSE Slot(n)
      /\ UNCHANGED <<items, capacity, notifyCh>>

\* An empty queue returns nil and is left alone: n = 0, and head is 0 already.
Drain(max) ==
  LET n == DrainCount(max)
  IN  /\ call' = Call("Drain", <<>>, max, [i \in 1..n |-> items[Slot(i - 1)]])
      /\ items' = [s \in 0..capacity - 1 |-> IF Offset(s) < n THEN Zero ELSE items[s]]
      /\ size' = size - n
      /\ head' = IF size = n THEN 0 ELSE Slot(n)
      /\ UNCHANGED <<capacity, notifyCh>>

\* The consumer receives from the channel that Notify() returns.
Receive ==
  /\ notifyCh
  /\ notifyCh' = FALSE
  /\ call' = Call("Receive", <<>>, 0, <<>>)
  /\ UNCHANGED ring

Next ==
  \/ \E events \in Batches : Enqueue(events)
  \/ \E events \in Batches : DropNewest(events)
  \/ \E events \in Batches : size + Len(events) <= MaxHeld /\ Prepend(events)
  \/ \E max \in 0..MaxBatch : Drain(max)
  \/ Receive

Spec == Init /\ [][Next]_vars

-----------------------------------------------------------------------------
\* Type invariant of the ring: the slots are exactly those of the current
\* capacity, head is one of them, 0 when the queue is empty, and the live events
\* fit (queue.go's fields after every method, whatever mix of growth and
\* wrap-around came before).
TypeOK ==
  /\ capacity \in Nat \ {0}
  /\ items \in [0..capacity - 1 -> Event \cup {Zero}]
  /\ head \in 0..capacity - 1
  /\ size \in 0..capacity
  /\ notifyCh \in BOOLEAN
  /\ size = 0 => head = 0

\* Exactly the size slots from head hold events and every other slot is the
\* zero Event: no event lingers in memory after Drain handed it over, and no
\* live event is ever zeroed or overwritten by a wrapped write.
RingExact ==
  \A s \in 0..capacity - 1 : (items[s] # Zero) <=> (Offset(s) < size)

\* The queue a caller sees: the live slots read in ring order.
Contents == [i \in 1..size |-> items[Slot(i - 1)]]

\* The ring buffer implements the first-in first-out queue of FifoQueue, for
\* every sequence of calls: order, bounds, growth, the notification token and
\* what every call returns are the abstract ones.
Fifo == INSTANCE FifoQueue WITH queue <- Contents
FifoSpec == Fifo!Spec
=============================================================================
