---------------------------- MODULE Queue_proofs ----------------------------
(***************************************************************************)
(* The ring buffer keeps its shape and implements the first-in first-out   *)
(* queue, for every set of events, every capacity and every batch length.  *)
(***************************************************************************)
EXTENDS Queue, SequenceTheorems, TLAPS

\* The inductive invariant: the shape of the ring and what its slots hold.
IInv == TypeOK /\ RingExact

-----------------------------------------------------------------------------
\* Arithmetic of the ring, without the modulus.

LEMMA ModSmall ==
  ASSUME NEW c \in Nat \ {0}, NEW a \in 0..c - 1 PROVE a % c = a
  BY SMT

LEMMA ModWrap ==
  ASSUME NEW c \in Nat \ {0}, NEW a \in c..2 * c - 1 PROVE a % c = a - c
  BY SMT

\* A place k behind the slot h, and the place of the slot k seen from h.
LEMMA RingArithmetic ==
  ASSUME NEW c \in Nat \ {0}, NEW h \in 0..c - 1, NEW k \in 0..c - 1
  PROVE  /\ (h + k) % c = IF h + k < c THEN h + k ELSE h + k - c
         /\ (k + c - h) % c = IF k >= h THEN k - h ELSE k + c - h
<1>1. h + k < c => (h + k) % c = h + k
  BY ModSmall
<1>2. h + k >= c => (h + k) % c = h + k - c
  BY ModWrap
<1>3. k >= h => (k + c - h) % c = k - h
  <2>1. k >= h => k + c - h \in c..2 * c - 1 /\ (k + c - h) - c = k - h
    OBVIOUS
  <2> QED BY <2>1, ModWrap
<1>4. k < h => (k + c - h) % c = k + c - h
  BY ModSmall
<1> QED BY <1>1, <1>2, <1>3, <1>4

\* Slots and places of the current ring.
LEMMA SlotFacts ==
  ASSUME TypeOK
  PROVE  /\ \A k \in 0..capacity - 1 :
              /\ Slot(k) = IF head + k < capacity THEN head + k ELSE head + k - capacity
              /\ Slot(k) \in 0..capacity - 1
              /\ Offset(Slot(k)) = k
         /\ \A s \in 0..capacity - 1 :
              /\ Offset(s) = IF s >= head THEN s - head ELSE s + capacity - head
              /\ Offset(s) \in 0..capacity - 1
              /\ Slot(Offset(s)) = s
<1> USE DEF TypeOK
<1>1. ASSUME NEW k \in 0..capacity - 1
      PROVE  Slot(k) = IF head + k < capacity THEN head + k ELSE head + k - capacity
  BY RingArithmetic DEF Slot
<1>2. ASSUME NEW s \in 0..capacity - 1
      PROVE  Offset(s) = IF s >= head THEN s - head ELSE s + capacity - head
  BY RingArithmetic DEF Offset
<1> QED BY <1>1, <1>2

\* What callers pass in is a sequence of events.
LEMMA BatchesAreSequences ==
  ASSUME NEW events \in Batches
  PROVE  events \in Seq(Event) /\ Len(events) \in Nat
<1>1. PICK n \in 0..MaxBatch : events \in [1..n -> Event]
  BY DEF Batches
<1>2. n \in Nat
  BY QueueAssumption
<1> QED BY <1>1, <1>2

\* A sequence of length m is the function of its elements.
LEMMA SequenceIsFunction ==
  ASSUME NEW S, NEW q \in Seq(S), NEW m \in Nat, NEW n \in Nat, Len(q) = m + n
  PROVE  /\ q = [i \in 1..m + n |-> q[i]]
         /\ q = [i \in 1..n + m |-> q[i]]
  OBVIOUS

\* The live slots hold events.
LEMMA ContentsFacts ==
  ASSUME IInv
  PROVE  /\ Contents \in Seq(Event)
         /\ Len(Contents) = size
         /\ \A i \in 1..size : Contents[i] = items[Slot(i - 1)]
<1>1. \A i \in 1..size : items[Slot(i - 1)] \in Event
  <2> SUFFICES ASSUME NEW i \in 1..size PROVE items[Slot(i - 1)] \in Event
    OBVIOUS
  <2>1. i - 1 \in 0..capacity - 1 /\ i - 1 < size
    BY DEF IInv, TypeOK
  <2>2. Slot(i - 1) \in 0..capacity - 1 /\ Offset(Slot(i - 1)) < size
    BY <2>1, SlotFacts DEF IInv
  <2> QED BY <2>2 DEF IInv, TypeOK, RingExact
<1>2. size \in Nat
  BY DEF IInv, TypeOK
<1> QED BY <1>1, <1>2 DEF Contents

-----------------------------------------------------------------------------
\* append puts a batch that fits behind the events held.
LEMMA AppendLemma ==
  ASSUME IInv, NEW events \in Seq(Event), size + Len(events) <= capacity,
         append(events), notifyCh' \in BOOLEAN
  PROVE  /\ IInv'
         /\ Contents' = Contents \o events
<1> DEFINE n == Len(events)
<1>1. /\ n \in Nat /\ size \in Nat /\ size + n <= capacity
      /\ \A i \in 1..n : events[i] \in Event
  BY DEF IInv, TypeOK
<1>2. /\ \A k \in 0..capacity - 1 : Slot(k) \in 0..capacity - 1 /\ Offset(Slot(k)) = k
      /\ \A s \in 0..capacity - 1 : Offset(s) \in 0..capacity - 1
  BY SlotFacts DEF IInv
<1>3. /\ \A k : Slot(k)' = Slot(k)
      /\ \A s : Offset(s)' = Offset(s)
  BY DEF append, Slot, Offset
<1>4. items' = [s \in 0..capacity - 1 |->
                  IF Offset(s) \in size..size + n - 1
                    THEN events[Offset(s) - size + 1] ELSE items[s]]
  BY DEF append
<1>5. size' = size + n /\ head' = head /\ capacity' = capacity
  BY DEF append
<1>6. capacity \in Nat \ {0} /\ \A s \in 0..capacity - 1 : items[s] \in Event \cup {Zero}
  BY DEF IInv, TypeOK
<1> HIDE DEF n
<1>7. ASSUME NEW s \in 0..capacity - 1
      PROVE  /\ size <= Offset(s) /\ Offset(s) < size + n =>
                  items'[s] = events[Offset(s) - size + 1] /\ items'[s] \in Event
             /\ Offset(s) < size \/ Offset(s) >= size + n => items'[s] = items[s]
             /\ items'[s] \in Event \cup {Zero}
  <2>1. Offset(s) \in 0..capacity - 1
    BY <1>2
  <2>2. size <= Offset(s) /\ Offset(s) < size + n => Offset(s) - size + 1 \in 1..n
    BY <2>1, <1>1, <1>6
  <2> QED BY <2>1, <2>2, <1>1, <1>4, <1>6
<1>8. TypeOK'
  <2>1. items' \in [0..capacity - 1 -> Event \cup {Zero}]
    BY <1>4, <1>7
  <2> QED BY <2>1, <1>1, <1>5, <1>6 DEF IInv, TypeOK
<1>9. RingExact'
  <2> SUFFICES ASSUME NEW s \in 0..capacity - 1
               PROVE  (items'[s] # Zero) <=> (Offset(s) < size + n)
    BY <1>3, <1>5 DEF RingExact
  <2>1. (items[s] # Zero) <=> (Offset(s) < size)
    BY DEF IInv, RingExact
  <2>2. Offset(s) \in 0..capacity - 1
    BY <1>2
  <2> QED BY <1>1, <1>6, <1>7, <2>1, <2>2, QueueAssumption
<1>10. Contents' = Contents \o events
  <2>0. Contents \in Seq(Event) /\ Len(Contents) = size
    BY ContentsFacts
  <2>1. ASSUME NEW i \in 1..size + n
        PROVE  items'[Slot(i - 1)] = (Contents \o events)[i]
    <3>1. i - 1 \in 0..capacity - 1
      BY <1>1, <1>6
    <3>2. Slot(i - 1) \in 0..capacity - 1 /\ Offset(Slot(i - 1)) = i - 1
      BY <3>1, <1>2
    <3>3. CASE i <= size
      <4>1. Contents[i] = items[Slot(i - 1)]
        BY <3>3, <1>1, ContentsFacts
      <4>2. items'[Slot(i - 1)] = items[Slot(i - 1)]
        BY <3>2, <3>3, <1>1, <1>7
      <4> QED BY <4>1, <4>2, <3>3, <2>0, <1>1
    <3>4. CASE i > size
      <4>1. items'[Slot(i - 1)] = events[i - size]
        BY <3>2, <3>4, <1>1, <1>7
      <4> QED BY <4>1, <3>4, <2>0, <1>1 DEF n
    <3>5. i <= size \/ i > size
      BY <1>1
    <3> QED BY <3>3, <3>4, <3>5
  <2>2. Contents' = [i \in 1..size + n |-> items'[Slot(i - 1)]]
    BY <1>3, <1>5 DEF Contents
  <2>3. Contents \o events = [i \in 1..size + n |-> (Contents \o events)[i]]
    <3>1. Contents \o events \in Seq(Event) /\ Len(Contents \o events) = size + n
      BY <2>0, ConcatProperties DEF n
    <3> QED BY <3>1, <1>1, SequenceIsFunction
  <2> QED BY <2>1, <2>2, <2>3
<1> QED BY <1>8, <1>9, <1>10 DEF IInv

\* The slots hold the events of the queue, in order from slot `from` on, and
\* nothing else.
HoldContents(slots, from, cap) ==
  /\ slots \in [0..cap - 1 -> Event \cup {Zero}]
  /\ \A s \in 0..cap - 1 :
       (slots[s] # Zero) <=> ((IF s >= from THEN s - from ELSE s + cap - from) < size)
  /\ \A k \in 0..size - 1 :
       slots[IF from + k < cap THEN from + k ELSE from + k - cap] = Contents[k + 1]

\* The loop of Prepend puts a batch before the events held, on slots that have
\* room for it.
LEMMA PutBeforeLemma ==
  ASSUME IInv, NEW events \in Seq(Event), NEW cap \in Nat \ {0},
         NEW from \in 0..cap - 1, size + Len(events) <= cap,
         size + Len(events) = 0 => from = 0,
         NEW slots, HoldContents(slots, from, cap),
         PutBefore(events, slots, from, cap), notifyCh' \in BOOLEAN
  PROVE  /\ IInv'
         /\ Contents' = events \o Contents
<1> DEFINE n == Len(events)
           first == (from + cap - n) % cap
           place == [s \in 0..cap - 1 |-> IF s >= first THEN s - first ELSE s + cap - first]
<1>1. /\ n \in Nat /\ size \in Nat /\ size + n <= cap
      /\ \A i \in 1..n : events[i] \in Event
  BY DEF IInv, TypeOK
<1>a. size + n = 0 => from = 0
  OBVIOUS
<1> HIDE DEF n
<1>2. first = IF n <= from THEN from - n ELSE from + cap - n
  <2>1. CASE n <= from
    <3>1. from + cap - n \in cap..2 * cap - 1
      BY <2>1, <1>1
    <3>2. first = (from + cap - n) - cap
      BY <3>1, ModWrap
    <3> QED BY <2>1, <3>2, <1>1
  <2>2. CASE n > from
    <3>1. from + cap - n \in 0..cap - 1
      BY <2>2, <1>1
    <3>2. first = from + cap - n
      BY <3>1, ModSmall
    <3> QED BY <2>2, <3>2, <1>1
  <2> QED BY <2>1, <2>2, <1>1
<1>3. first \in 0..cap - 1
  BY <1>1, <1>2
<1> HIDE DEF first
<1>4. /\ head' = first /\ capacity' = cap /\ size' = size + n
      /\ items' = [s \in 0..cap - 1 |->
                     IF (s + cap - first) % cap < n
                       THEN events[((s + cap - first) % cap) + 1] ELSE slots[s]]
  BY DEF PutBefore, first, n
<1>5. \A s \in 0..cap - 1 : (s + cap - first) % cap = place[s] /\ place[s] \in 0..cap - 1
  BY <1>3, RingArithmetic
<1>6. \A s \in 0..cap - 1 : Offset(s)' = place[s]
  BY <1>4, <1>5 DEF Offset
<1>7. \A k \in 0..cap - 1 :
        Slot(k)' = IF first + k < cap THEN first + k ELSE first + k - cap
  BY <1>3, <1>4, RingArithmetic DEF Slot
\* The slot that was k places behind `from` is n + k places behind `first`.
<1>8. \A s \in 0..cap - 1 :
        /\ place[s] < n => items'[s] = events[place[s] + 1]
        /\ place[s] >= n => items'[s] = slots[s]
        /\ place[s] >= n =>
             (IF s >= from THEN s - from ELSE s + cap - from) = place[s] - n
  <2> SUFFICES ASSUME NEW s \in 0..cap - 1
               PROVE  /\ place[s] < n => items'[s] = events[place[s] + 1]
                      /\ place[s] >= n => items'[s] = slots[s]
                      /\ place[s] >= n =>
                           (IF s >= from THEN s - from ELSE s + cap - from) = place[s] - n
    OBVIOUS
  <2>1. items'[s] = IF place[s] < n THEN events[place[s] + 1] ELSE slots[s]
    BY <1>4, <1>5
  <2>2. place[s] = IF s >= first THEN s - first ELSE s + cap - first
    OBVIOUS
  <2>3. place[s] < n \/ place[s] >= n
    BY <1>1, <1>5
  <2>4. place[s] >= n =>
          (IF s >= from THEN s - from ELSE s + cap - from) = place[s] - n
    BY <2>2, <1>1, <1>2
  <2> QED BY <2>1, <2>4, <1>1, <1>5
<1>9. \A s \in 0..cap - 1 : place[s] = IF s >= first THEN s - first ELSE s + cap - first
  OBVIOUS
<1> HIDE DEF place
<1>10. items' \in [0..cap - 1 -> Event \cup {Zero}]
  <2>1. \A s \in 0..cap - 1 : items'[s] \in Event \cup {Zero}
    <3> SUFFICES ASSUME NEW s \in 0..cap - 1 PROVE items'[s] \in Event \cup {Zero}
      OBVIOUS
    <3>1. place[s] < n => place[s] + 1 \in 1..n
      BY <1>1, <1>5
    <3>2. slots[s] \in Event \cup {Zero}
      BY DEF HoldContents
    <3>3. place[s] < n \/ place[s] >= n
      BY <1>1, <1>5
    <3> QED BY <1>1, <1>8, <3>1, <3>2, <3>3
  <2> QED BY <2>1, <1>4
<1>11. TypeOK'
  BY <1>1, <1>a, <1>2, <1>3, <1>4, <1>10 DEF TypeOK
<1>12. RingExact'
  <2> SUFFICES ASSUME NEW s \in 0..cap - 1
               PROVE  (items'[s] # Zero) <=> (place[s] < size + n)
    BY <1>4, <1>6 DEF RingExact
  <2>1. place[s] < n => items'[s] \in Event
    BY <1>1, <1>5, <1>8
  <2>2. place[s] >= n => ((items'[s] # Zero) <=> (place[s] - n < size))
    BY <1>8 DEF HoldContents
  <2> QED BY <2>1, <2>2, <1>1, <1>5, QueueAssumption
<1>13. Contents' = events \o Contents
  <2>1. ASSUME NEW i \in 1..size + n
        PROVE  items'[Slot(i - 1)'] = (events \o Contents)[i]
    <3> DEFINE t == Slot(i - 1)'
    <3>1. i - 1 \in 0..cap - 1
      BY <1>1
    <3>2. t = IF first + (i - 1) < cap THEN first + (i - 1) ELSE first + (i - 1) - cap
      BY <3>1, <1>7
    <3> HIDE DEF t
    <3>3. t \in 0..cap - 1 /\ place[t] = i - 1
      BY <3>1, <3>2, <1>3, <1>9
    <3>4. CASE i <= n
      <4>1. items'[t] = events[i]
        BY <3>3, <3>4, <1>1, <1>8
      <4>2. (events \o Contents)[i] = events[i]
        BY <3>4, <1>1, ContentsFacts DEF n
      <4> QED BY <4>1, <4>2 DEF t
    <3>5. CASE i > n
      <4> DEFINE k == i - 1 - n
      <4>1. k \in 0..size - 1 /\ k \in 0..cap - 1 /\ k + 1 = i - n
        BY <3>5, <1>1
      <4>2. (IF from + k < cap THEN from + k ELSE from + k - cap) = t
        BY <3>2, <1>1, <1>2, <3>1, <3>5
      <4>3. items'[t] = Contents[i - n]
        <5>1. items'[t] = slots[t]
          BY <3>3, <3>5, <1>1, <1>8
        <5>2. slots[t] = Contents[k + 1]
          BY <4>1, <4>2 DEF HoldContents
        <5> QED BY <4>1, <5>1, <5>2
      <4>4. (events \o Contents)[i] = Contents[i - n]
        BY <3>5, <1>1, ContentsFacts DEF n
      <4> QED BY <4>3, <4>4 DEF t
    <3>6. i <= n \/ i > n
      BY <1>1
    <3> QED BY <3>4, <3>5, <3>6
  <2>2. Contents' = [i \in 1..size + n |-> items'[Slot(i - 1)']]
    BY <1>4 DEF Contents
  <2>3. events \o Contents = [i \in 1..size + n |-> (events \o Contents)[i]]
    <3>1. Contents \in Seq(Event) /\ Len(Contents) = size
      BY ContentsFacts
    <3>2. events \o Contents \in Seq(Event) /\ Len(events \o Contents) = n + size
      BY <3>1, ConcatProperties DEF n
    <3> QED BY <3>2, <1>1, SequenceIsFunction
  <2> QED BY <2>1, <2>2, <2>3
<1> QED BY <1>11, <1>12, <1>13 DEF IInv

\* Prepend puts the batch before the events held and grows when it must.
LEMMA PrependLemma ==
  ASSUME IInv, NEW events \in Seq(Event), Prepend(events)
  PROVE  /\ IInv'
         /\ Contents' = events \o Contents
         /\ capacity' = IF size + Len(events) > capacity
                          THEN size + Len(events) ELSE capacity
<1> DEFINE held == size + Len(events)
<1>1. /\ Len(events) \in Nat /\ size \in Nat /\ capacity \in Nat \ {0} /\ size <= capacity
      /\ head \in 0..capacity - 1 /\ (size = 0 => head = 0)
      /\ items \in [0..capacity - 1 -> Event \cup {Zero}]
  BY DEF IInv, TypeOK
<1>2. notifyCh' \in BOOLEAN
  BY DEF Prepend, notify
<1>3. /\ Contents \in Seq(Event) /\ Len(Contents) = size
      /\ \A i \in 1..size : Contents[i] = items[Slot(i - 1)]
  BY ContentsFacts
<1>4. \A k \in 0..size - 1 : Contents[k + 1] = items[Slot(k)] /\ Contents[k + 1] \in Event
  <2> SUFFICES ASSUME NEW k \in 0..size - 1
               PROVE  Contents[k + 1] = items[Slot(k)] /\ Contents[k + 1] \in Event
    OBVIOUS
  <2>1. k + 1 \in 1..size /\ (k + 1) - 1 = k
    BY <1>1
  <2>2. Contents[k + 1] \in Event
    BY <2>1, <1>3, ElementOfSeq
  <2> QED BY <2>1, <2>2, <1>3
<1>5. CASE held > capacity
  <2>1. held \in Nat \ {0} /\ 0 \in 0..held - 1
    BY <1>1, <1>5
  <2>2. PutBefore(events, grow(held), 0, held)
    BY <1>5 DEF Prepend
  <2>3. \A s \in 0..held - 1 : grow(held)[s] = IF s < size THEN Contents[s + 1] ELSE Zero
    <3>1. \A s \in 0..held - 1 : s < size => s \in 0..size - 1
      BY <1>1
    <3> QED BY <3>1, <1>4 DEF grow
  <2>4. grow(held) \in [0..held - 1 -> Event \cup {Zero}]
    <3>1. \A s \in 0..held - 1 : s < size => items[Slot(s)] \in Event
      <4>1. \A s \in 0..held - 1 : s < size => s \in 0..size - 1
        BY <1>1
      <4> QED BY <4>1, <1>4
    <3> QED BY <3>1 DEF grow
  <2>5. HoldContents(grow(held), 0, held)
    <3> DEFINE g == grow(held)
    <3> HIDE DEF g, held
    <3>1. \A s \in 0..held - 1 :
            (g[s] # Zero) <=> ((IF s >= 0 THEN s - 0 ELSE s + held - 0) < size)
      <4> SUFFICES ASSUME NEW s \in 0..held - 1 PROVE (g[s] # Zero) <=> (s < size)
        BY <2>1
      <4>1. s < size => s \in 0..size - 1
        BY <1>1, <2>1
      <4> QED BY <4>1, <2>3, <1>4, QueueAssumption DEF g
    <3>2. \A k \in 0..size - 1 :
            g[IF 0 + k < held THEN 0 + k ELSE 0 + k - held] = Contents[k + 1]
      <4> SUFFICES ASSUME NEW k \in 0..size - 1
                   PROVE  g[IF 0 + k < held THEN 0 + k ELSE 0 + k - held] = Contents[k + 1]
        OBVIOUS
      <4>1. k \in 0..held - 1 /\ 0 + k < held /\ 0 + k = k /\ k < size
        BY <1>1, <2>1 DEF held
      <4> QED BY <4>1, <2>3 DEF g
    <3> QED BY <3>1, <3>2, <2>4 DEF HoldContents, g
  <2>6. size + Len(events) <= held /\ (size + Len(events) = 0 => 0 = 0)
    BY <1>1
  <2>7. IInv' /\ Contents' = events \o Contents
    <3> HIDE DEF held
    <3> QED BY <2>1, <2>2, <2>5, <2>6, <1>2, PutBeforeLemma
  <2>8. capacity' = held
    BY <2>2 DEF PutBefore
  <2> QED BY <2>7, <2>8, <1>5
<1>6. CASE ~(held > capacity)
  <2>2. PutBefore(events, items, head, capacity)
    BY <1>6 DEF Prepend
  <2>3. HoldContents(items, head, capacity)
    <3>1. /\ \A s \in 0..capacity - 1 :
               Offset(s) = IF s >= head THEN s - head ELSE s + capacity - head
          /\ \A k \in 0..capacity - 1 :
               Slot(k) = IF head + k < capacity THEN head + k ELSE head + k - capacity
      BY SlotFacts DEF IInv
    <3>2. \A s \in 0..capacity - 1 :
            (items[s] # Zero) <=>
              ((IF s >= head THEN s - head ELSE s + capacity - head) < size)
      BY <3>1 DEF IInv, RingExact
    <3>3. \A k \in 0..size - 1 :
            items[IF head + k < capacity THEN head + k ELSE head + k - capacity] = Contents[k + 1]
      <4>1. \A k \in 0..size - 1 : k \in 0..capacity - 1
        BY <1>1
      <4> QED BY <4>1, <3>1, <1>4
    <3> QED BY <3>2, <3>3, <1>1 DEF HoldContents
  <2>4. size + Len(events) <= capacity /\ (size + Len(events) = 0 => head = 0)
    BY <1>1, <1>6
  <2>5. IInv' /\ Contents' = events \o Contents
    BY <2>2, <2>3, <2>4, <1>1, <1>2, PutBeforeLemma
  <2>6. capacity' = capacity
    BY <2>2 DEF PutBefore
  <2> QED BY <2>5, <2>6, <1>6
<1> QED BY <1>5, <1>6

\* Drain hands over the oldest events and leaves the others in order.
LEMMA DrainLemma ==
  ASSUME IInv, NEW max \in Int, Drain(max)
  PROVE  /\ IInv'
         /\ DrainCount(max) \in 0..size
         /\ Contents' = SubSeq(Contents, DrainCount(max) + 1, size)
         /\ call'.out = SubSeq(Contents, 1, DrainCount(max))
<1> DEFINE n == DrainCount(max)
<1>1. /\ size \in Nat /\ capacity \in Nat \ {0} /\ size <= capacity
      /\ head \in 0..capacity - 1 /\ (size = 0 => head = 0)
      /\ items \in [0..capacity - 1 -> Event \cup {Zero}]
      /\ notifyCh \in BOOLEAN
  BY DEF IInv, TypeOK
<1>2. n \in 0..size
  BY <1>1 DEF DrainCount
<1>3. /\ items' = [s \in 0..capacity - 1 |-> IF Offset(s) < n THEN Zero ELSE items[s]]
      /\ size' = size - n
      /\ head' = IF size = n THEN 0 ELSE Slot(n)
      /\ capacity' = capacity /\ notifyCh' = notifyCh
      /\ call'.out = [i \in 1..n |-> items[Slot(i - 1)]]
  BY DEF Drain, Call
<1> HIDE DEF n
<1>4. /\ Contents \in Seq(Event) /\ Len(Contents) = size
      /\ \A i \in 1..size : Contents[i] = items[Slot(i - 1)]
  BY ContentsFacts
<1>5. /\ \A k \in 0..capacity - 1 :
           /\ Slot(k) = IF head + k < capacity THEN head + k ELSE head + k - capacity
           /\ Slot(k) \in 0..capacity - 1
           /\ Offset(Slot(k)) = k
      /\ \A s \in 0..capacity - 1 :
           /\ Offset(s) = IF s >= head THEN s - head ELSE s + capacity - head
           /\ Offset(s) \in 0..capacity - 1
  BY SlotFacts DEF IInv
<1>6. \A s \in 0..capacity - 1 :
        /\ (items'[s] # Zero) <=> (n <= Offset(s) /\ Offset(s) < size)
        /\ n <= Offset(s) => items'[s] = items[s]
  <2> SUFFICES ASSUME NEW s \in 0..capacity - 1
               PROVE  /\ (items'[s] # Zero) <=> (n <= Offset(s) /\ Offset(s) < size)
                      /\ n <= Offset(s) => items'[s] = items[s]
    OBVIOUS
  <2>1. (items[s] # Zero) <=> (Offset(s) < size)
    BY DEF IInv, RingExact
  <2>2. items'[s] = IF Offset(s) < n THEN Zero ELSE items[s]
    BY <1>3
  <2>3. Offset(s) \in Int /\ n \in Int
    BY <1>2, <1>5
  <2> QED BY <2>1, <2>2, <2>3
<1>7. head' \in 0..capacity - 1 /\ size' \in 0..capacity /\ (size' = 0 => head' = 0)
  <2>1. CASE size = n
    BY <2>1, <1>1, <1>3
  <2>2. CASE size # n
    <3>1. n \in 0..capacity - 1 /\ size - n \in 1..capacity
      BY <2>2, <1>1, <1>2
    <3> QED BY <3>1, <2>2, <1>3, <1>5
  <2> QED BY <2>1, <2>2
<1>8. items' \in [0..capacity - 1 -> Event \cup {Zero}]
  BY <1>1, <1>3
<1>9. TypeOK'
  BY <1>1, <1>3, <1>7, <1>8 DEF TypeOK
<1>10. /\ \A k \in 0..capacity - 1 :
            Slot(k)' = IF head' + k < capacity THEN head' + k ELSE head' + k - capacity
       /\ \A s \in 0..capacity - 1 :
            Offset(s)' = IF s >= head' THEN s - head' ELSE s + capacity - head'
  <2>1. \A k \in 0..capacity - 1 :
          Slot(k)' = IF head' + k < capacity THEN head' + k ELSE head' + k - capacity
    BY <1>1, <1>3, <1>7, RingArithmetic DEF Slot
  <2>2. \A s \in 0..capacity - 1 :
          Offset(s)' = IF s >= head' THEN s - head' ELSE s + capacity - head'
    BY <1>1, <1>3, <1>7, RingArithmetic DEF Offset
  <2> QED BY <2>1, <2>2
\* The slots keep their order: every place is n places nearer to head.
<1>11. ASSUME size # n
       PROVE  RingExact' /\ Contents' = SubSeq(Contents, n + 1, size)
  <2>1. n \in 0..capacity - 1 /\ size - n \in 1..capacity
    BY <1>11, <1>1, <1>2
  <2>2. head' = IF head + n < capacity THEN head + n ELSE head + n - capacity
    BY <2>1, <1>11, <1>3, <1>5
  <2>3. \A s \in 0..capacity - 1 :
          Offset(s)' = IF n <= Offset(s) THEN Offset(s) - n ELSE Offset(s) + capacity - n
    <3> SUFFICES ASSUME NEW s \in 0..capacity - 1
                 PROVE  Offset(s)' = IF n <= Offset(s) THEN Offset(s) - n
                                                       ELSE Offset(s) + capacity - n
      OBVIOUS
    <3>1. Offset(s)' = IF s >= head' THEN s - head' ELSE s + capacity - head'
      BY <1>10
    <3>2. Offset(s) = IF s >= head THEN s - head ELSE s + capacity - head
      BY <1>5
    <3> QED BY <3>1, <3>2, <2>1, <2>2, <1>1
  <2>4. RingExact'
    <3> SUFFICES ASSUME NEW s \in 0..capacity - 1
                 PROVE  (items'[s] # Zero) <=> (Offset(s)' < size - n)
      BY <1>3 DEF RingExact
    <3>1. (items'[s] # Zero) <=> (n <= Offset(s) /\ Offset(s) < size)
      BY <1>6
    <3>2. Offset(s)' = IF n <= Offset(s) THEN Offset(s) - n ELSE Offset(s) + capacity - n
      BY <2>3
    <3>3. Offset(s) \in 0..capacity - 1
      BY <1>5
    <3> QED BY <3>1, <3>2, <3>3, <2>1, <1>1
  <2>5. ASSUME NEW i \in 1..size - n
        PROVE  items'[Slot(i - 1)'] = Contents[n + i]
    <3>1. i - 1 \in 0..capacity - 1 /\ (n + i) - 1 \in 0..capacity - 1 /\ n + i \in 1..size
      BY <1>1, <1>2
    <3>2. Slot(i - 1)' = Slot((n + i) - 1)
      <4>1. Slot(i - 1)' = IF head' + (i - 1) < capacity
                             THEN head' + (i - 1) ELSE head' + (i - 1) - capacity
        BY <3>1, <1>10
      <4>2. Slot((n + i) - 1) = IF head + ((n + i) - 1) < capacity
                                THEN head + ((n + i) - 1) ELSE head + ((n + i) - 1) - capacity
        BY <3>1, <1>5
      <4> QED BY <4>1, <4>2, <3>1, <2>1, <2>2, <1>1
    <3>3. Slot((n + i) - 1) \in 0..capacity - 1 /\ Offset(Slot((n + i) - 1)) = (n + i) - 1
      BY <3>1, <1>5
    <3>4. items'[Slot((n + i) - 1)] = items[Slot((n + i) - 1)]
      BY <3>1, <3>3, <1>6, <2>1
    <3>5. Contents[n + i] = items[Slot((n + i) - 1)]
      <4> DEFINE k == n + i
      <4>1. k \in 1..size
        BY <3>1
      <4> HIDE DEF k
      <4>2. Contents[k] = items[Slot(k - 1)]
        BY <4>1, <1>4
      <4> QED BY <4>2 DEF k
    <3>6. items'[Slot(i - 1)'] = items'[Slot((n + i) - 1)]
      BY <3>2, Zenon
    <3> QED BY <3>4, <3>5, <3>6, Zenon
  <2>6. Contents' = [i \in 1..size - n |-> items'[Slot(i - 1)']]
    BY <1>3 DEF Contents
  <2>7. SubSeq(Contents, n + 1, size) = [i \in 1..size - n |-> Contents[n + i]]
    BY <1>4, <2>1, <1>1, <1>2
  <2>8. Contents' = SubSeq(Contents, n + 1, size)
    BY <2>5, <2>6, <2>7
  <2> QED BY <2>4, <2>8
<1>12. ASSUME size = n
       PROVE  RingExact' /\ Contents' = SubSeq(Contents, n + 1, size)
  <2>0. size' = 0 /\ n \in Nat
    BY <1>1, <1>3, <1>12
  <2>1. \A s \in 0..capacity - 1 : items'[s] = Zero
    <3>1. \A s \in 0..capacity - 1 : ~(n <= Offset(s) /\ Offset(s) < size)
      BY <1>12, <1>5, <2>0
    <3> QED BY <3>1, <1>6
  <2>2. RingExact'
    <3>1. \A s \in 0..capacity - 1 : ~(Offset(s)' < 0)
      <4> SUFFICES ASSUME NEW s \in 0..capacity - 1 PROVE ~(Offset(s)' < 0)
        OBVIOUS
      <4>1. Offset(s)' = IF s >= head' THEN s - head' ELSE s + capacity - head'
        BY <1>10
      <4>2. head' = 0
        BY <1>3, <1>12
      <4> QED BY <4>1, <4>2, <1>1
    <3> QED BY <3>1, <2>0, <2>1, <1>3 DEF RingExact
  <2>3. Contents' = <<>>
    <3>1. Contents' = [i \in 1..0 |-> items'[Slot(i - 1)']]
      BY <2>0 DEF Contents
    <3> QED BY <3>1
  <2>4. SubSeq(Contents, n + 1, size) = <<>>
    <3>1. SubSeq(Contents, n + 1, n) = <<>>
      BY <1>4, <2>0, SubSeqEmpty
    <3> QED BY <3>1, <1>12
  <2> QED BY <2>2, <2>3, <2>4
<1>13. call'.out = SubSeq(Contents, 1, n)
  <2>1. \A i \in 1..n : items[Slot(i - 1)] = Contents[i]
    <3>1. \A i \in 1..n : i \in 1..size
      BY <1>1, <1>2
    <3> QED BY <3>1, <1>4
  <2>2. SubSeq(Contents, 1, n) = [i \in 1..n |-> Contents[i]]
    <3>1. n \in Nat /\ n <= Len(Contents)
      BY <1>1, <1>2, <1>4
    <3> QED BY <3>1, <1>4
  <2> QED BY <2>1, <2>2, <1>3
<1> QED BY <1>2, <1>9, <1>11, <1>12, <1>13 DEF IInv, n

-----------------------------------------------------------------------------
LEMMA InitLemma ==
  ASSUME Init PROVE IInv /\ Contents = <<>>
<1>1. TypeOK
  <2>1. items \in [0..capacity - 1 -> Event \cup {Zero}]
    BY DEF Init
  <2>2. 0 \in 0..MaxQueueSize - 1 /\ 0 \in 0..MaxQueueSize
    BY QueueAssumption
  <2> QED BY <2>1, <2>2, QueueAssumption DEF Init, TypeOK
<1>2. \A s \in 0..capacity - 1 : items[s] = Zero /\ Offset(s) \in 0..capacity - 1
  BY <1>1, SlotFacts, QueueAssumption DEF Init
<1>3. RingExact
  BY <1>2, QueueAssumption DEF Init, RingExact
<1>4. Contents = <<>>
  <2>1. Contents = [i \in 1..0 |-> items[Slot(i - 1)]]
    BY DEF Init, Contents
  <2> QED BY <2>1
<1> QED BY <1>1, <1>3, <1>4 DEF IInv

\* What is left alone keeps the invariant and the contents.
LEMMA RingUnchanged ==
  ASSUME IInv, UNCHANGED ring, notifyCh' \in BOOLEAN
  PROVE  IInv' /\ Contents' = Contents
<1>1. /\ \A k : Slot(k)' = Slot(k)
      /\ \A s : Offset(s)' = Offset(s)
  BY DEF ring, Slot, Offset
<1>2. TypeOK' /\ RingExact'
  BY <1>1 DEF IInv, TypeOK, RingExact, ring
<1>3. Contents' = Contents
  BY <1>1 DEF Contents, ring
<1> QED BY <1>2, <1>3 DEF IInv

LEMMA EnqueueLemma ==
  ASSUME IInv, NEW events \in Batches, Enqueue(events)
  PROVE  IInv' /\ Fifo!CallEnqueue(events)
<1>1. events \in Seq(Event) /\ Len(events) \in Nat
  BY BatchesAreSequences
<1>2. Len(Contents) = size /\ size \in Nat /\ capacity \in Nat /\ notifyCh \in BOOLEAN
  BY ContentsFacts DEF IInv, TypeOK
<1>3. CASE size + Len(events) > capacity
  <2>1. UNCHANGED ring /\ notifyCh' = notifyCh /\ call' = Call("Enqueue", events, 0, <<>>)
    BY <1>3 DEF Enqueue
  <2>2. IInv' /\ Contents' = Contents
    BY <2>1, <1>2, RingUnchanged
  <2>3. ~Fifo!Fits(events)
    BY <1>1, <1>2, <1>3 DEF Fifo!Fits
  <2> QED BY <2>1, <2>2, <2>3 DEF Fifo!CallEnqueue, Fifo!queueVars, Fifo!Call, Call, ring
<1>4. CASE ~(size + Len(events) > capacity)
  <2>1. append(events) /\ notifyCh' = TRUE /\ call' = Call("Enqueue", events, 1, <<>>)
    BY <1>4 DEF Enqueue, notify
  <2>2. size + Len(events) <= capacity
    BY <1>1, <1>2, <1>4
  <2>3. IInv' /\ Contents' = Contents \o events
    BY <2>1, <2>2, <1>1, AppendLemma
  <2>4. Fifo!Fits(events)
    BY <2>2, <1>2 DEF Fifo!Fits
  <2>5. Fifo!PutLast(events)
    BY <2>1, <2>3 DEF Fifo!PutLast, append
  <2> QED BY <2>1, <2>3, <2>4, <2>5 DEF Fifo!CallEnqueue, Fifo!Enqueue, Fifo!Call, Call
<1> QED BY <1>3, <1>4

LEMMA DropNewestLemma ==
  ASSUME IInv, NEW events \in Batches, DropNewest(events)
  PROVE  IInv' /\ Fifo!CallDropNewest(events)
<1> DEFINE available == capacity - size
<1>1. events \in Seq(Event) /\ Len(events) \in Nat
  BY BatchesAreSequences
<1>2. Len(Contents) = size /\ size \in Nat /\ capacity \in Nat /\ notifyCh \in BOOLEAN
  BY ContentsFacts DEF IInv, TypeOK
<1>3. Fifo!Available = available
  BY <1>2 DEF Fifo!Available
<1>4. CASE available <= 0
  <2>1. UNCHANGED ring /\ notifyCh' = notifyCh
        /\ call' = Call("DropNewest", events, Len(events), <<>>)
    BY <1>1, <1>2, <1>4 DEF DropNewest
  <2>2. IInv' /\ Contents' = Contents
    BY <2>1, <1>2, RingUnchanged
  <2> QED BY <2>1, <2>2, <1>3, <1>4
          DEF Fifo!CallDropNewest, Fifo!queueVars, Fifo!Call, Call, ring
<1>5. ASSUME NEW kept \in Seq(Event), available > 0,
             size + Len(kept) <= capacity, append(kept), notify,
             kept = SubSeq(events, 1, Fifo!Kept(events)),
             call' = Call("DropNewest", events, Len(events) - Fifo!Kept(events), <<>>)
      PROVE  IInv' /\ Fifo!CallDropNewest(events)
  <2>1. notifyCh' = TRUE
    BY <1>5 DEF notify
  <2>2. IInv' /\ Contents' = Contents \o kept
    BY <2>1, <1>5, AppendLemma
  <2>3. Fifo!PutLast(kept)
    BY <2>1, <2>2, <1>5 DEF Fifo!PutLast, append
  <2> QED BY <2>2, <2>3, <1>3, <1>5
          DEF Fifo!CallDropNewest, Fifo!DropNewest, Fifo!Call, Call
<1>6. CASE available > 0 /\ Len(events) <= available
  <2>1. Fifo!Kept(events) = Len(events)
    BY <1>3, <1>6 DEF Fifo!Kept
  <2>2. SubSeq(events, 1, Len(events)) = events
    BY <1>1, SubSeqFull
  <2>3. append(events) /\ notify /\ call' = Call("DropNewest", events, 0, <<>>)
    BY <1>1, <1>2, <1>6 DEF DropNewest
  <2>4. size + Len(events) <= capacity /\ Len(events) - Len(events) = 0
    BY <1>1, <1>2, <1>6
  <2> QED BY <1>1, <1>5, <1>6, <2>1, <2>2, <2>3, <2>4
<1>7. CASE available > 0 /\ Len(events) > available
  <2>1. Fifo!Kept(events) = available
    BY <1>1, <1>2, <1>3, <1>7 DEF Fifo!Kept
  <2>2. /\ SubSeq(events, 1, available) \in Seq(Event)
        /\ Len(SubSeq(events, 1, available)) = available
    <3>1. available \in Int /\ 1 \in Int /\ \A i \in 1..available : events[i] \in Event
      BY <1>1, <1>2, <1>7
    <3>2. Len(SubSeq(events, 1, available)) =
            IF 1 <= available THEN available - 1 + 1 ELSE 0
      BY <3>1, SubSeqProperties
    <3> QED BY <3>1, <3>2, <1>2, <1>7, SubSeqProperties
  <2>3. /\ append(SubSeq(events, 1, available)) /\ notify
        /\ call' = Call("DropNewest", events, Len(events) - available, <<>>)
    BY <1>1, <1>2, <1>7 DEF DropNewest
  <2>4. size + available <= capacity
    BY <1>2
  <2> QED BY <1>5, <1>7, <2>1, <2>2, <2>3, <2>4
<1> QED BY <1>1, <1>2, <1>4, <1>6, <1>7

\* Every step keeps the invariant and is a step of the abstract queue.
LEMMA NextLemma ==
  ASSUME IInv, Next PROVE IInv' /\ Fifo!Next
<1>1. /\ Len(Contents) = size /\ size \in Nat /\ notifyCh \in BOOLEAN
      /\ Fifo!Batches = Batches
  BY ContentsFacts DEF IInv, TypeOK, Batches, Fifo!Batches
<1>2. ASSUME NEW events \in Batches, Enqueue(events) PROVE IInv' /\ Fifo!Next
  BY <1>1, <1>2, EnqueueLemma DEF Fifo!Next
<1>3. ASSUME NEW events \in Batches, DropNewest(events) PROVE IInv' /\ Fifo!Next
  BY <1>1, <1>3, DropNewestLemma DEF Fifo!Next
<1>4. ASSUME NEW events \in Batches, Prepend(events) PROVE IInv' /\ Fifo!Next
  <2>1. events \in Seq(Event)
    BY BatchesAreSequences
  <2>2. /\ IInv'
        /\ Contents' = events \o Contents
        /\ capacity' = IF size + Len(events) > capacity
                         THEN size + Len(events) ELSE capacity
    BY <2>1, <1>4, PrependLemma
  <2>3. notifyCh' = TRUE /\ call' = Call("Prepend", events, 1, <<>>)
    BY <1>4 DEF Prepend, notify
  <2>4. Fifo!CallPrepend(events)
    BY <2>2, <2>3, <1>1 DEF Fifo!CallPrepend, Fifo!Prepend, Fifo!Call, Call
  <2> QED BY <2>2, <2>4, <1>1 DEF Fifo!Next
<1>5. ASSUME NEW max \in 0..MaxBatch, Drain(max) PROVE IInv' /\ Fifo!Next
  <2>1. max \in Int
    BY QueueAssumption
  <2>2. /\ IInv'
        /\ Contents' = SubSeq(Contents, DrainCount(max) + 1, size)
        /\ call'.out = SubSeq(Contents, 1, DrainCount(max))
    BY <2>1, <1>5, DrainLemma
  <2>3. Fifo!DrainCount(max) = DrainCount(max)
    BY <1>1 DEF DrainCount, Fifo!DrainCount
  <2>4. /\ capacity' = capacity /\ notifyCh' = notifyCh
        /\ call' = Call("Drain", <<>>, max, call'.out)
    BY <1>5 DEF Drain, Call
  <2>5. Fifo!CallDrain(max)
    BY <2>2, <2>3, <2>4, <1>1
       DEF Fifo!CallDrain, Fifo!Drain, Fifo!Drained, Fifo!Call, Call
  <2> QED BY <2>2, <2>5 DEF Fifo!Next
<1>6. ASSUME Receive PROVE IInv' /\ Fifo!Next
  <2>1. /\ UNCHANGED ring /\ notifyCh /\ notifyCh' = FALSE
        /\ call' = Call("Receive", <<>>, 0, <<>>)
    BY <1>6 DEF Receive
  <2>2. IInv' /\ Contents' = Contents
    BY <2>1, RingUnchanged
  <2>3. Fifo!CallReceive
    BY <2>1, <2>2 DEF Fifo!CallReceive, Fifo!Receive, Fifo!Call, Call, ring
  <2> QED BY <2>2, <2>3 DEF Fifo!Next
<1> QED BY <1>2, <1>3, <1>4, <1>5, <1>6 DEF Next

LEMMA StutterLemma ==
  ASSUME IInv, UNCHANGED vars PROVE IInv' /\ UNCHANGED Fifo!vars
<1>1. UNCHANGED ring /\ notifyCh' = notifyCh /\ call' = call
  BY DEF vars, ring
<1>2. IInv' /\ Contents' = Contents
  BY <1>1, RingUnchanged DEF IInv, TypeOK
<1> QED BY <1>1, <1>2 DEF Fifo!vars, ring

LEMMA SpecIInv == Spec => []IInv
<1>1. Init => IInv
  BY InitLemma
<1>2. IInv /\ [Next]_vars => IInv'
  BY NextLemma, StutterLemma
<1> QED BY <1>1, <1>2, PTL DEF Spec

-----------------------------------------------------------------------------
\* The fields of the ring keep their shape through every sequence of calls, for
\* every capacity, event set and batch length (queue.go, all methods).
THEOREM TypeCorrect == Spec => []TypeOK
<1>1. IInv => TypeOK
  BY DEF IInv
<1> QED BY <1>1, SpecIInv, PTL

\* Exactly the live slots hold events: Drain leaves none behind and no wrapped
\* write of append or Prepend touches a live one.
THEOREM ExactRing == Spec => []RingExact
<1>1. IInv => RingExact
  BY DEF IInv
<1> QED BY <1>1, SpecIInv, PTL

\* The ring buffer implements the first-in first-out queue: every call has the
\* result and the effect that FifoQueue gives it.
THEOREM ImplementsFifo == Spec => FifoSpec
<1>1. Init => Fifo!Init /\ call = Fifo!Call("New", <<>>, MaxQueueSize, <<>>)
  BY InitLemma DEF Init, Fifo!Init, Call, Fifo!Call
<1>2. IInv /\ [Next]_vars => [Fifo!Next]_(Fifo!vars)
  BY NextLemma, StutterLemma
<1> QED BY <1>1, <1>2, SpecIInv, PTL DEF Spec, FifoSpec, Fifo!Spec
=============================================================================
