--------------------------- MODULE Batcher_proofs ----------------------------
(***************************************************************************)
(* The batcher's safety, for every queue and batch size, number of retries *)
(* and set of statuses.                                                    *)
(***************************************************************************)
EXTENDS Batcher, SequenceTheorems, FiniteSetTheorems, TLAPS

-----------------------------------------------------------------------------
\* What the queue operations, a reply and a pick do to the slices.

LEMMA PrefixIsSeq ==
  ASSUME NEW s \in Seq(Event), NEW m \in 0..Len(s)
  PROVE  /\ SubSeq(s, 1, m) \in Seq(Event) /\ Len(SubSeq(s, 1, m)) = m
         /\ \A i \in 1..m : SubSeq(s, 1, m)[i] = s[i]
<1>1. Len(s) \in Nat /\ m \in Nat
  BY LenProperties
<1>2. \A i \in 1..m : s[i] \in Event
  BY <1>1, ElementOfSeq
<1>3. /\ SubSeq(s, 1, m) \in Seq(Event)
      /\ Len(SubSeq(s, 1, m)) = IF 1 <= m THEN m - 1 + 1 ELSE 0
      /\ \A i \in 1..(m - 1 + 1) : SubSeq(s, 1, m)[i] = s[1 + i - 1]
  BY <1>1, <1>2, SubSeqProperties
<1>4. m - 1 + 1 = m /\ \A i \in 1..m : 1 + i - 1 = i
  BY <1>1
<1> QED
  BY <1>1, <1>3, <1>4

LEMMA FreshIsSeq ==
  ASSUME arrived \in 0..MaxEvents, NEW k \in Nat, arrived + k <= MaxEvents
  PROVE  /\ Fresh(k) \in Seq(Event) /\ Len(Fresh(k)) = k
         /\ \A i \in 1..k : Fresh(k)[i] = [no |-> arrived + i, id |-> 0]
<1>1. \A i \in 1..k : [no |-> arrived + i, id |-> 0] \in Event
  BY BatcherAssumption DEF Event, Numbers
<1> QED
  BY <1>1 DEF Fresh

\* A request that gets k events in appends them, and there was room.
LEMMA AdmitAppends ==
  ASSUME TypeOK, Admit
  PROVE  \E k \in Nat :
           /\ arrived + k <= MaxEvents
           /\ queue' = queue \o Fresh(k)
           /\ Len(queue) + k <= capacity /\ capacity' = capacity
           /\ notifyCh' = TRUE
           /\ Admitted(k)
<1>1. PICK k \in 1..MaxEventsPerRequest : AdmitAll(k) \/ AdmitPrefix(k)
  BY DEF Admit
<1>2. k \in Nat
  BY BatcherAssumption
<1>3. CASE AdmitAll(k)
  <2>1. Len(Fresh(k)) = k
    BY <1>2, <1>3, FreshIsSeq DEF AdmitAll, TypeOK
  <2> QED
    BY <1>2, <1>3, <2>1 DEF AdmitAll, Q!Enqueue, Q!PutLast, Q!Fits
<1>4. CASE AdmitPrefix(k)
  <2> DEFINE m == Q!Kept(Fresh(k))
  <2>1. /\ Fresh(k) \in Seq(Event) /\ Len(Fresh(k)) = k /\ arrived + k <= MaxEvents
        /\ \A i \in 1..k : Fresh(k)[i] = [no |-> arrived + i, id |-> 0]
    BY <1>2, <1>4, FreshIsSeq DEF AdmitPrefix, TypeOK
  <2>2. Len(queue) \in Nat /\ capacity \in Nat /\ arrived \in Nat
    BY LenProperties DEF TypeOK
  <2>3. m \in 0..k /\ Len(queue) + m <= capacity
    BY <1>2, <1>4, <2>1, <2>2 DEF AdmitPrefix, Q!DropNewest, Q!Kept, Q!Available
  <2>4. /\ SubSeq(Fresh(k), 1, m) \in Seq(Event) /\ Len(SubSeq(Fresh(k), 1, m)) = m
        /\ \A i \in 1..m : SubSeq(Fresh(k), 1, m)[i] = Fresh(k)[i]
    <3> HIDE DEF m
    <3> QED
      BY <2>1, <2>3, PrefixIsSeq
  <2>5. /\ Fresh(m) \in Seq(Event) /\ Len(Fresh(m)) = m
        /\ \A i \in 1..m : Fresh(m)[i] = [no |-> arrived + i, id |-> 0]
    <3> HIDE DEF m
    <3>1. arrived \in 0..MaxEvents
      BY DEF TypeOK
    <3>2. m \in Nat /\ arrived + m <= MaxEvents
      BY <1>2, <2>1, <2>2, <2>3, BatcherAssumption
    <3> QED
      BY <3>1, <3>2, FreshIsSeq
  <2>6. SubSeq(Fresh(k), 1, m) = Fresh(m)
    <3> HIDE DEF m
    <3> QED
      BY <1>2, <2>1, <2>3, <2>4, <2>5
  <2>7. queue' = queue \o Fresh(m) /\ capacity' = capacity /\ notifyCh' = TRUE
    BY <1>4, <2>6 DEF AdmitPrefix, Q!DropNewest, Q!PutLast
  <2>8. Len(queue') - Len(queue) = m
    <3> HIDE DEF m
    <3> QED
      <4>1. queue \in Seq(Event)
        BY DEF TypeOK
      <4>2. Len(queue \o Fresh(m)) = Len(queue) + Len(Fresh(m))
        BY <2>5, <4>1, ConcatProperties
      <4> QED
        BY <2>2, <2>3, <2>5, <2>7, <4>2
  <2>9. Admitted(m)
    BY <1>4, <2>8 DEF AdmitPrefix
  <2>10. m \in Nat /\ arrived + m <= MaxEvents
    <3> HIDE DEF m
    <3> QED
      BY <1>2, <2>1, <2>2, <2>3, BatcherAssumption
  <2> HIDE DEF m
  <2> QED
    BY <2>3, <2>7, <2>9, <2>10
<1> QED
  BY <1>1, <1>3, <1>4

\* A flush takes the first events of the queue.
LEMMA DrainSplits ==
  ASSUME TypeOK, LoopFlushes
  PROVE  \E n \in 0..Len(queue) :
           /\ n <= MaxBatchSize
           /\ batch' \in Seq(Event) /\ Len(batch') = n
           /\ \A i \in 1..n : batch'[i] = queue[i]
           /\ queue' \in Seq(Event) /\ Len(queue') = Len(queue) - n
           /\ \A i \in 1..(Len(queue) - n) : queue'[i] = queue[n + i]
<1> DEFINE n == Q!DrainCount(MaxBatchSize)
<1>1. Len(queue) \in Nat /\ \A i \in 1..Len(queue) : queue[i] \in Event
  BY LenProperties, ElementOfSeq DEF TypeOK
<1>2. n \in 0..Len(queue) /\ n <= MaxBatchSize
  BY <1>1, BatcherAssumption DEF Q!DrainCount
<1>3. batch' = SubSeq(queue, 1, n) /\ queue' = SubSeq(queue, n + 1, Len(queue))
  BY DEF LoopFlushes, Q!Drain, Q!Drained
<1> HIDE DEF n
<1>4. /\ batch' \in Seq(Event) /\ Len(batch') = n
      /\ \A i \in 1..n : batch'[i] = queue[i]
  <2>1. queue \in Seq(Event)
    BY DEF TypeOK
  <2> QED
    BY <1>2, <1>3, <2>1, PrefixIsSeq
<1>5. /\ queue' \in Seq(Event) /\ Len(queue') = Len(queue) - n
      /\ \A i \in 1..(Len(queue) - n) : queue'[i] = queue[n + i]
  <2> DEFINE m == n + 1
  <2>1. m \in Int /\ \A i \in m..Len(queue) : queue[i] \in Event
    BY <1>1, <1>2
  <2>2. queue' = SubSeq(queue, m, Len(queue)) /\ Len(queue) \in Int
    BY <1>1, <1>3
  <2> HIDE DEF m
  <2>3. /\ queue' \in Seq(Event)
        /\ Len(queue') = IF m <= Len(queue) THEN Len(queue) - m + 1 ELSE 0
        /\ \A i \in 1..(Len(queue) - m + 1) : queue'[i] = queue[m + i - 1]
    BY <2>1, <2>2, SubSeqProperties
  <2>4. \A i \in 1..(Len(queue) - n) : i \in 1..(Len(queue) - m + 1) /\ m + i - 1 = n + i
    BY <1>1, <1>2 DEF m
  <2> QED
    BY <1>1, <1>2, <2>3, <2>4 DEF m
<1> QED
  BY <1>2, <1>4, <1>5

\* BuildBulkPayload changes ids only.
LEMMA DocsKeepNumbers ==
  ASSUME TypeOK, NEW k \in Int
  PROVE  LET docs == BuildBulkPayload(pending, k)
         IN  /\ docs \in Seq(Event) /\ Len(docs) = Len(pending)
             /\ \A i \in 1..Len(pending) :
                  /\ docs[i].no = pending[i].no
                  /\ docs[i].id = IF i <= k /\ pending[i].id = 0
                                    THEN drawn[pending[i].no] + 1 ELSE pending[i].id
<1> DEFINE docs == BuildBulkPayload(pending, k)
<1>1. Len(pending) \in Nat /\ \A i \in 1..Len(pending) : pending[i] \in Event
  BY LenProperties, ElementOfSeq DEF TypeOK
<1>2. ASSUME NEW i \in 1..Len(pending)
      PROVE  /\ docs[i] \in Event /\ docs[i].no = pending[i].no
             /\ docs[i].id = IF i <= k /\ pending[i].id = 0
                               THEN drawn[pending[i].no] + 1 ELSE pending[i].id
  <2>1. pending[i] \in Event /\ drawn \in [Numbers -> Nat]
    BY <1>1 DEF TypeOK
  <2>2. docs[i] = IF i <= k THEN EnsureDocumentID(pending[i]) ELSE pending[i]
    BY DEF BuildBulkPayload
  <2> QED
    BY <2>1, <2>2 DEF EnsureDocumentID, Event
<1>3. docs \in Seq(Event) /\ Len(docs) = Len(pending)
  BY <1>1, <1>2 DEF BuildBulkPayload
<1> QED
  BY <1>2, <1>3

\* A pick of positions is a slice of the events at them, in order.
LEMMA PickedIsSlice ==
  ASSUME NEW s \in Seq(Event), NEW S \in SUBSET (1..Len(s)), NEW f \in Ascending(S)
  PROVE  LET p == Picked(s, f)
         IN  /\ p \in Seq(Event) /\ Len(p) <= Len(s)
             /\ \A i \in 1..Len(p) : f[i] \in S /\ p[i] = s[f[i]]
             /\ \A i, j \in 1..Len(p) : i < j => f[i] < f[j]
             /\ \A x \in S : \E i \in 1..Len(p) : p[i] = s[x]
<1>1. IsFiniteSet(1..Len(s))
  BY LenProperties, FS_Interval
<1>2. Cardinality(S) \in Nat /\ Cardinality(S) <= Len(s)
  <2>1. Len(s) \in Nat
    BY LenProperties
  <2>2. Cardinality(1..Len(s)) = Len(s)
    <3>1. Cardinality(1..Len(s)) = IF 1 > Len(s) THEN 0 ELSE Len(s) - 1 + 1
      BY <2>1, FS_Interval
    <3> QED
      BY <2>1, <3>1
  <2> QED
    BY <1>1, <2>2, FS_Subset, FS_CardinalityType
<1>3. f \in [1..Cardinality(S) -> S]
  BY DEF Ascending
<1>4. \A i \in 1..Cardinality(S) : s[f[i]] \in Event
  BY <1>3, ElementOfSeq
<1>5. Picked(s, f) \in Seq(Event) /\ Len(Picked(s, f)) = Cardinality(S)
  BY <1>2, <1>3, <1>4 DEF Picked
<1> QED
  BY <1>2, <1>3, <1>5 DEF Picked, Ascending

\* Send gives every position at most one of its three verdicts; a reply without an
\* error judges them all, and one with an error none of them for good.
LEMMA SendJudges ==
  ASSUME NEW n \in Nat, NEW reply \in Replies(n), NEW r, r = Send(n, reply)
  PROVE  /\ r.indexed \subseteq 1..n /\ r.failed \subseteq 1..n /\ r.retry \subseteq 1..n
         /\ \A i \in r.retry : i \notin r.indexed /\ i \notin r.failed
         /\ \A i \in r.failed : i \notin r.indexed
         /\ ~r.err => \A i \in 1..n : i \in r.indexed \/ i \in r.failed \/ i \in r.retry
         /\ r.err => /\ r.indexed = {} /\ r.failed = {}
                     /\ r.retry = {} \/ r.retry = 1..n
         /\ r.err \in BOOLEAN
         /\ reply.sent \in 0..n
         /\ ~r.err \/ r.retry # {} => reply.sent = n
<1>1. /\ r.indexed = IndexedAt(n, reply) /\ r.failed = FailedAt(n, reply)
      /\ r.retry = RetryAt(n, reply) /\ r.err = (reply.kind # "created" /\ ~PerItem(n, reply))
  BY DEF Send
<1>2. \/ reply.kind = "unsent" /\ reply.sent \in 0..n
      \/ reply.kind \in {"transport", "undecodable", "created"} /\ reply.sent = n
      \/ reply.kind = "status" /\ reply.sent = n
      \/ /\ reply.kind = "items" /\ reply.sent = n
         /\ reply.items = <<>> \/ reply.items \in [1..n -> ItemStatuses]
  BY DEF Replies, Reply
<1>3. reply.sent \in 0..n
  BY <1>2
<1>4. r.indexed \subseteq 1..n /\ r.failed \subseteq 1..n /\ r.retry \subseteq 1..n
  BY <1>1 DEF IndexedAt, FailedAt, RetryAt
<1>5. \A i \in r.retry : i \notin r.indexed /\ i \notin r.failed
  <2>1. CASE reply.kind = "created"
    BY <1>1, <2>1 DEF IndexedAt, FailedAt, RetryAt, PerItem, Ambiguous
  <2>2. CASE PerItem(n, reply)
    <3>1. Len(reply.items) = n /\ reply.kind = "items"
      BY <2>2 DEF PerItem, Ambiguous
    <3>2. ASSUME NEW i \in 1..n PROVE reply.items[i] \in Int
      <4>1. CASE reply.items = <<>>
        BY <3>1, <4>1
      <4>2. CASE reply.items \in [1..n -> ItemStatuses]
        <5>1. reply.items[i] \in ItemStatuses
          BY <4>2
        <5>2. ItemStatuses \subseteq Int
          BY ElasticAssumption
        <5> QED
          BY <5>1, <5>2
      <4> QED
        BY <1>2, <3>1, <4>1, <4>2
    <3>3. \A i \in 1..n : ~(isIndexedStatus(reply.items[i]) /\ isRetryableStatus(reply.items[i]))
      BY <3>2 DEF isIndexedStatus, isRetryableStatus
    <3>4. \A i \in r.indexed : isIndexedStatus(reply.items[i])
      BY <1>1, <2>2, <3>1 DEF IndexedAt
    <3>5. \A i \in r.retry : isRetryableStatus(reply.items[i])
      BY <1>1, <2>2, <3>1 DEF RetryAt, PerItem
    <3>6. \A i \in r.failed : ~isRetryableStatus(reply.items[i])
      BY <1>1 DEF FailedAt
    <3> QED
      BY <1>4, <3>3, <3>4, <3>5, <3>6
  <2>3. CASE reply.kind # "created" /\ ~PerItem(n, reply)
    BY <1>1, <2>3 DEF IndexedAt, FailedAt
  <2> QED
    BY <2>1, <2>2, <2>3
<1>6. ~r.err => \A i \in 1..n : i \in r.indexed \/ i \in r.failed \/ i \in r.retry
  BY <1>1 DEF IndexedAt, FailedAt, RetryAt, PerItem
<1>7. r.err => /\ r.indexed = {} /\ r.failed = {}
               /\ r.retry = {} \/ r.retry = 1..n
  BY <1>1 DEF IndexedAt, FailedAt, RetryAt
<1>8. ~r.err \/ r.retry # {} => reply.sent = n
  BY <1>1, <1>2 DEF RetryAt, PerItem, Ambiguous
<1>9. r.err \in BOOLEAN
  BY <1>1
<1>10. \A i \in r.failed : i \notin r.indexed
  BY <1>1 DEF FailedAt, IndexedAt, PerItem
<1> QED
  BY <1>3, <1>4, <1>5, <1>6, <1>7, <1>8, <1>9, <1>10

LEMMA CountOfPositions ==
  ASSUME NEW n \in Nat, NEW S \in SUBSET (1..n)
  PROVE  IsFiniteSet(S) /\ Cardinality(S) \in Nat
<1>1. IsFiniteSet(1..n)
  BY FS_Interval
<1>2. IsFiniteSet(S)
  BY <1>1, FS_Subset
<1> QED
  BY <1>2, FS_CardinalityType

-----------------------------------------------------------------------------
\* A bulk request, flattened: docs is the slice with its ids, r what Send returned.

\* The positions counted as failed.
Lost(r) == IF pc' = "failed" /\ ~ctxErr THEN r.failed \cup r.retry ELSE r.failed

Judged(n, reply, r) ==
  /\ r.indexed \subseteq 1..n /\ r.failed \subseteq 1..n /\ r.retry \subseteq 1..n
  /\ \A i \in r.retry : i \notin r.indexed /\ i \notin r.failed
  /\ \A i \in r.failed : i \notin r.indexed
  /\ ~r.err => \A i \in 1..n : i \in r.indexed \/ i \in r.failed \/ i \in r.retry
  /\ r.err => /\ r.indexed = {} /\ r.failed = {}
              /\ r.retry = {} \/ r.retry = 1..n
  /\ reply.sent \in 0..n
  /\ ~r.err \/ r.retry # {} => reply.sent = n

Numbered(docs, k) ==
  /\ docs \in Seq(Event) /\ Len(docs) = Len(pending)
  /\ \A i \in 1..Len(pending) :
       /\ docs[i] \in Event /\ docs[i].no = pending[i].no
       /\ docs[i].id = IF i <= k /\ pending[i].id = 0
                         THEN drawn[pending[i].no] + 1 ELSE pending[i].id

Goes(docs, r) ==
  \/ /\ pc' = "loop" /\ r.retry = {} /\ ~r.err
     /\ pending' = <<>> /\ attempt' = 0 /\ restore' = restore
  \/ /\ pc' = "failed" /\ r.retry = {} /\ r.err
     /\ pending' = docs /\ attempt' = attempt
     /\ restore' = IF ctxErr THEN docs ELSE Aliased(docs)
  \/ /\ pc' = "failed" /\ r.retry # {} /\ attempt' = attempt
     /\ \E f \in Ascending(r.retry) : pending' = Picked(docs, f)
     /\ restore' = IF ctxErr THEN pending' ELSE Aliased(docs)
  \/ /\ pc' = "backoff" /\ r.retry # {}
     /\ attempt' = attempt /\ attempt < MaxRetries /\ restore' = restore
     /\ \E f \in Ascending(r.retry) : pending' = Picked(docs, f)

SentAs(docs, reply, r) ==
  /\ Numbered(docs, reply.sent)
  /\ Judged(Len(pending), reply, r)
  /\ Exchange(docs, reply)
  /\ AddBulk(Cardinality(r.indexed), Cardinality(Lost(r)))
  /\ Verdicts(docs, r.indexed, Lost(r))
  /\ Goes(docs, r)
  /\ queue' = queue /\ capacity' = capacity /\ notifyCh' = notifyCh /\ life' = life
  /\ need' = need /\ ctxErr' = ctxErr /\ flushErr' = flushErr /\ arrived' = arrived
  /\ pc = "send"

LEMMA SendFlattened ==
  ASSUME TypeOK, SendReturns
  PROVE  \E reply \in Replies(Len(pending)) :
           SentAs(BuildBulkPayload(pending, reply.sent), reply, Send(Len(pending), reply))
<1> DEFINE n == Len(pending)
<1>1. PICK reply \in Replies(n) :
        LET docs == BuildBulkPayload(pending, reply.sent)
        IN  /\ Exchange(docs, reply)
            /\ \/ SendSettles(docs, reply)
               \/ SendRefused(docs, reply)
               \/ SendExhausts(docs, reply)
               \/ SendRetries(docs, reply)
  BY DEF SendReturns
<1> DEFINE docs == BuildBulkPayload(pending, reply.sent)
           r == Send(n, reply)
<1>2. n \in Nat
  BY LenProperties DEF TypeOK
<1>3. Judged(n, reply, r)
  <2> HIDE DEF n, r
  <2> QED
    BY <1>2, SendJudges DEF r, Judged
<1>4. Numbered(docs, reply.sent)
  <2>1. reply.sent \in Int
    <3> HIDE DEF n, r
    <3> QED
      BY <1>2, <1>3 DEF Judged
  <2>2. /\ docs \in Seq(Event) /\ Len(docs) = n
        /\ \A i \in 1..n :
             /\ docs[i].no = pending[i].no
             /\ docs[i].id = IF i <= reply.sent /\ pending[i].id = 0
                               THEN drawn[pending[i].no] + 1 ELSE pending[i].id
    BY <2>1, DocsKeepNumbers
  <2>3. \A i \in 1..n : docs[i] \in Event
    <3> HIDE DEF docs
    <3> QED
      BY <2>2, ElementOfSeq
  <2> HIDE DEF docs
  <2> QED
    BY <2>2, <2>3 DEF Numbered
<1> HIDE DEF docs, r, n
<1>5. Exchange(docs, reply)
  BY <1>1 DEF docs
<1>6. r = Send(Len(docs), reply)
  BY <1>4 DEF r, n, Numbered
<1>7. /\ queue' = queue /\ capacity' = capacity /\ notifyCh' = notifyCh /\ life' = life
      /\ need' = need /\ ctxErr' = ctxErr /\ flushErr' = flushErr /\ arrived' = arrived
      /\ pc = "send"
  BY DEF SendReturns, queueVars
<1>8. /\ Goes(docs, r)
      /\ AddBulk(Cardinality(r.indexed), Cardinality(Lost(r)))
      /\ Verdicts(docs, r.indexed, Lost(r))
  <2>1. CASE SendSettles(docs, reply)
    <3>1. AddBulk(Cardinality(r.indexed), Cardinality(r.failed)) /\ Verdicts(docs, r.indexed, r.failed)
      BY <1>6, <2>1 DEF SendSettles, Count
    <3>2. /\ pc' = "loop" /\ pending' = <<>> /\ attempt' = 0 /\ restore' = restore
          /\ r.retry = {} /\ ~r.err
      BY <1>6, <2>1 DEF SendSettles
    <3> QED
      BY <3>1, <3>2 DEF Goes, Lost
  <2>2. CASE SendRefused(docs, reply)
    <3>1. AddBulk(Cardinality(r.indexed), Cardinality(r.failed)) /\ Verdicts(docs, r.indexed, r.failed)
      BY <1>6, <2>2 DEF SendRefused, Count
    <3>2. /\ pc' = "failed" /\ pending' = docs /\ attempt' = attempt
          /\ restore' = IF ctxErr THEN docs ELSE Aliased(docs)
          /\ r.retry = {} /\ r.err
      BY <1>6, <2>2 DEF SendRefused
    <3>3. Lost(r) = r.failed
      BY <3>2 DEF Lost
    <3> QED
      BY <3>1, <3>2, <3>3 DEF Goes
  <2>3. CASE SendExhausts(docs, reply)
    <3>1. /\ AddBulk(Cardinality(r.indexed),
                    Cardinality(r.failed) + IF ctxErr THEN 0 ELSE Cardinality(r.retry))
          /\ Verdicts(docs, r.indexed, IF ctxErr THEN r.failed ELSE r.failed \cup r.retry)
          /\ pc' = "failed" /\ r.retry # {} /\ attempt' = attempt
      BY <1>6, <2>3 DEF SendExhausts, GiveUp
    <3>2. PICK f \in Ascending(r.retry) :
            /\ pending' = Picked(docs, f)
            /\ restore' = IF ctxErr THEN Picked(docs, f) ELSE Aliased(docs)
      BY <1>6, <2>3 DEF SendExhausts, GiveUp
    <3>3. /\ IsFiniteSet(r.failed) /\ Cardinality(r.failed) \in Nat
          /\ IsFiniteSet(r.retry) /\ Cardinality(r.retry) \in Nat
      BY <1>2, <1>3, CountOfPositions DEF Judged
    <3>4. r.failed \cap r.retry = {}
      BY <1>3 DEF Judged
    <3>5. Cardinality(r.failed \cup r.retry) = Cardinality(r.failed) + Cardinality(r.retry)
      <4>1. Cardinality(r.failed \cup r.retry)
              = Cardinality(r.failed) + Cardinality(r.retry) - Cardinality(r.failed \cap r.retry)
        BY <3>3, FS_Union
      <4>2. Cardinality(r.failed \cap r.retry) = 0
        BY <3>4, FS_EmptySet
      <4> QED
        BY <3>3, <4>1, <4>2
    <3>6. Cardinality(Lost(r)) = Cardinality(r.failed) + IF ctxErr THEN 0 ELSE Cardinality(r.retry)
      BY <3>1, <3>3, <3>5 DEF Lost
    <3>7. Lost(r) = IF ctxErr THEN r.failed ELSE r.failed \cup r.retry
      BY <3>1 DEF Lost
    <3> QED
      BY <3>1, <3>2, <3>6, <3>7 DEF Goes
  <2>4. CASE SendRetries(docs, reply)
    <3>1. AddBulk(Cardinality(r.indexed), Cardinality(r.failed)) /\ Verdicts(docs, r.indexed, r.failed)
      BY <1>6, <2>4 DEF SendRetries, Retry, Count
    <3>2. PICK f \in Ascending(r.retry) :
            /\ pc' = "backoff" /\ pending' = Picked(docs, f) /\ r.retry # {}
            /\ attempt' = attempt /\ attempt < MaxRetries /\ restore' = restore
      BY <1>6, <2>4 DEF SendRetries, Retry
    <3> QED
      BY <3>1, <3>2 DEF Goes, Lost
  <2> QED
    BY <1>1, <2>1, <2>2, <2>3, <2>4 DEF docs
<1>9. SentAs(docs, reply, r)
  BY <1>3, <1>4, <1>5, <1>7, <1>8 DEF SentAs, n
<1> QED
  BY <1>9 DEF docs, r, n

-----------------------------------------------------------------------------
\* Types and control.

\* Where the goroutine may be, and what its loop and its retries wait for.
Control ==
  /\ pc \in {"loop", "send", "backoff", "failed"} =>
       life \in {"running", "draining"} /\ need \in {1, MaxBatchSize}
  /\ pc = "notified" => life = "running"
  /\ pc = "backoff" => attempt < MaxRetries

LEMMA SendTypes ==
  ASSUME TypeOK, Control, NEW reply, NEW docs, NEW r, SentAs(docs, reply, r)
  PROVE  TypeOK' /\ Control'
<1>1. Judged(Len(pending), reply, r) /\ Numbered(docs, reply.sent) /\ Len(pending) \in Nat
  BY LenProperties DEF SentAs, TypeOK
<1>2. docs \in Seq(Event) /\ Aliased(docs) \in Seq(Event)
  BY <1>1 DEF Numbered, Aliased, TypeOK
<1>3. pending' \in Seq(Event) /\ restore' \in Seq(Event)
  <2>1. \A f \in Ascending(r.retry) : Picked(docs, f) \in Seq(Event)
    BY <1>1, PickedIsSlice DEF Numbered, Judged
  <2>2. pending' \in Seq(Event)
    <3>1. pending' = <<>> \/ pending' = docs \/ \E f \in Ascending(r.retry) : pending' = Picked(docs, f)
      BY DEF SentAs, Goes
    <3>2. CASE pending' = <<>>
      BY <3>2
    <3>3. ASSUME NEW f \in Ascending(r.retry), pending' = Picked(docs, f)
          PROVE  pending' \in Seq(Event)
      BY <2>1, <3>3
    <3> QED
      BY <1>2, <3>1, <3>2, <3>3
  <2>3. restore' = restore \/ restore' = docs \/ restore' = pending' \/ restore' = Aliased(docs)
    BY DEF SentAs, Goes
  <2> QED
    BY <1>2, <2>2, <2>3 DEF TypeOK
<1>4. /\ batch' \in Seq(Event) /\ drawn' \in [Numbers -> Nat]
      /\ stored' \subseteq Event /\ wire' \subseteq Event
  <2>1. \A i \in 1..Len(docs) : docs[i] \in Event
    BY <1>1 DEF Numbered
  <2>2. Stores(docs, reply) \subseteq Event /\ Leaves(docs, reply) \subseteq Event
    BY <2>1 DEF Stores, Leaves, Created
  <2> QED
    BY <1>2, <2>2 DEF SentAs, Exchange, TypeOK
<1>5. outcome' \in [Numbers -> {"none", "held", "indexed", "failed", "discarded"}]
  BY DEF SentAs, Verdicts, TypeOK
<1>6. bulkIndexed' \in Nat /\ bulkFailed' \in Nat
  <2>1. r.indexed \subseteq 1..Len(pending) /\ Lost(r) \subseteq 1..Len(pending)
    BY <1>1 DEF Judged, Lost
  <2>2. Cardinality(r.indexed) \in Nat /\ Cardinality(Lost(r)) \in Nat
    BY <1>1, <2>1, CountOfPositions
  <2> QED
    BY <2>2 DEF SentAs, AddBulk, TypeOK
<1>7. /\ pc' \in {"loop", "backoff", "failed"}
      /\ attempt' \in 0..MaxRetries /\ (pc' = "backoff" => attempt' < MaxRetries)
  BY BatcherAssumption DEF SentAs, Goes, TypeOK
<1> QED
  BY <1>3, <1>4, <1>5, <1>6, <1>7 DEF SentAs, TypeOK, Control

LEMMA AdmitTypes ==
  ASSUME TypeOK, Control, Admit
  PROVE  TypeOK' /\ Control'
<1>1. PICK k \in Nat :
        /\ arrived + k <= MaxEvents
        /\ queue' = queue \o Fresh(k)
        /\ Len(queue) + k <= capacity /\ capacity' = capacity
        /\ notifyCh' = TRUE
        /\ Admitted(k)
  BY AdmitAppends
<1>2. Fresh(k) \in Seq(Event) /\ Len(Fresh(k)) = k
  BY <1>1, FreshIsSeq DEF TypeOK
<1>3. queue' \in Seq(Event) /\ Len(queue') = Len(queue) + k
  BY <1>1, <1>2, ConcatProperties DEF TypeOK
<1>4. arrived' \in 0..MaxEvents
  BY <1>1, BatcherAssumption DEF Admitted, TypeOK
<1>5. outcome' \in [Numbers -> {"none", "held", "indexed", "failed", "discarded"}]
  BY <1>1 DEF Admitted, TypeOK
<1> QED
  BY <1>1, <1>3, <1>4, <1>5 DEF Admitted, TypeOK, Control, flushVars, counters, external

LEMMA FlushTypes ==
  ASSUME TypeOK, Control, FlushRestores \/ FlushDiscards
  PROVE  TypeOK' /\ Control'
<1>1. /\ queue' \in Seq(Event) /\ capacity' \in Nat /\ Len(queue') <= capacity'
      /\ notifyCh' \in BOOLEAN
  <2>1. CASE FlushRestores
    <3>1. restore \o queue \in Seq(Event) /\ Len(restore \o queue) = Len(restore) + Len(queue)
      BY ConcatProperties DEF TypeOK
    <3>2. Len(restore) \in Nat /\ Len(queue) \in Nat
      BY LenProperties DEF TypeOK
    <3>3. /\ queue' = restore \o queue /\ notifyCh' = TRUE
          /\ capacity' = IF Len(queue) + Len(restore) > capacity
                           THEN Len(queue) + Len(restore) ELSE capacity
      BY <2>1 DEF FlushRestores, Q!Prepend
    <3> QED
      BY <3>1, <3>2, <3>3 DEF TypeOK
  <2>2. CASE FlushDiscards
    BY <2>2 DEF FlushDiscards, queueVars, TypeOK
  <2> QED
    BY <2>1, <2>2
<1>2. outcome' \in [Numbers -> {"none", "held", "indexed", "failed", "discarded"}]
  BY DEF FlushRestores, FlushDiscards, TypeOK
<1>3. FlushReturns /\ pc = "failed"
  BY DEF FlushRestores, FlushDiscards
<1>4. batch' \in Seq(Event) /\ pending' \in Seq(Event) /\ restore' \in Seq(Event)
  BY <1>3 DEF FlushReturns
<1> QED
  BY <1>1, <1>2, <1>3, <1>4, BatcherAssumption
     DEF FlushReturns, LoopReturns, TypeOK, Control, counters, external

LEMMA StepTypes ==
  ASSUME TypeOK, Control, [Next]_vars
  PROVE  TypeOK' /\ Control'
<1> USE DEF queueVars, flushVars, counters, external
<1>1. CASE Admit
  BY <1>1, AdmitTypes
<1>2. CASE Run \/ SelectDone \/ Cancel
  BY <1>2 DEF Run, SelectDone, Return, Selecting, Cancel, TypeOK, Control
<1>3. CASE SelectTick \/ SelectNotify
  BY <1>3 DEF SelectTick, SelectNotify, StartLoop, Selecting, Q!Receive, TypeOK, Control
<1>4. CASE Notified
  BY <1>4 DEF Notified, NotifiedWith, StartLoop, TypeOK, Control
<1>5. ASSUME NEW expired \in BOOLEAN, Drain(expired) PROVE TypeOK' /\ Control'
  BY <1>5 DEF Drain, TypeOK, Control
<1>6. CASE LoopEnds
  BY <1>6 DEF LoopEnds, LoopReturns, TypeOK, Control
<1>7. CASE LoopFlushes
  <2>1. /\ batch' \in Seq(Event) /\ queue' \in Seq(Event) /\ Len(queue') <= Len(queue)
        /\ Len(queue) \in Nat /\ Len(queue') \in Nat
    BY <1>7, DrainSplits, LenProperties DEF TypeOK
  <2>2. pending' = batch' /\ capacity' = capacity /\ notifyCh' = notifyCh
    BY <1>7 DEF LoopFlushes, Q!Drain
  <2>3. Len(queue') <= capacity'
    BY <2>1, <2>2 DEF TypeOK
  <2> QED
    BY <1>7, <2>1, <2>2, <2>3, BatcherAssumption DEF LoopFlushes, TypeOK, Control
<1>8. CASE SendReturns
  BY <1>8, SendFlattened, SendTypes
<1>9. CASE BackoffTimer \/ BackoffCancelled
  BY <1>9, BatcherAssumption DEF BackoffTimer, BackoffCancelled, AbandonBackoff, TypeOK, Control
<1>10. CASE FlushRestores \/ FlushDiscards
  BY <1>10, FlushTypes
<1>11. CASE IndexLate
  BY <1>11 DEF IndexLate, TypeOK, Control
<1>12. CASE UNCHANGED vars
  BY <1>12 DEF vars, TypeOK, Control
<1> QED
  BY <1>1, <1>2, <1>3, <1>4, <1>5, <1>6, <1>7, <1>8, <1>9, <1>10, <1>11, <1>12
     DEF Next, BatcherStep

LEMMA InitTypes ==
  ASSUME Init
  PROVE  TypeOK /\ Control
<1>1. queue = <<>> /\ capacity = MaxQueueSize /\ notifyCh = FALSE
  BY DEF Init, Q!Init
<1>2. queue \in Seq(Event) /\ Len(queue) = 0
  BY <1>1
<1>3. batch \in Seq(Event) /\ pending \in Seq(Event) /\ restore \in Seq(Event)
  BY DEF Init
<1>4. /\ outcome \in [Numbers -> {"none", "held", "indexed", "failed", "discarded"}]
      /\ drawn \in [Numbers -> Nat] /\ stored \subseteq Event /\ wire \subseteq Event
  BY DEF Init
<1>5. /\ life = "created" /\ pc = "select" /\ need = 0 /\ attempt = 0 /\ arrived = 0
      /\ ctxErr = FALSE /\ flushErr = FALSE /\ bulkIndexed = 0 /\ bulkFailed = 0
  BY DEF Init
<1>6. 0 \in 0..MaxRetries /\ 0 \in 0..MaxEvents
  BY BatcherAssumption
<1>7. notifyCh \in BOOLEAN /\ ctxErr \in BOOLEAN /\ flushErr \in BOOLEAN
  BY <1>1, <1>5
<1>8. capacity \in Nat /\ Len(queue) <= capacity
  BY <1>1, <1>2, BatcherAssumption
<1>9. Control
  BY <1>5 DEF Control
<1> QED
  BY <1>2, <1>3, <1>4, <1>5, <1>6, <1>7, <1>8, <1>9 DEF TypeOK

\* Type correctness of the batcher: whatever requests arrive, whatever Elasticsearch
\* answers and whenever the context is cancelled, sendWithRetry's counter stays within
\* MaxRetries and the queue within its capacity, also when a restore makes it grow.
THEOREM TypeCorrect == Spec => []TypeOK
<1>1. Init => TypeOK /\ Control
  BY InitTypes
<1>2. TypeOK /\ Control /\ [Next]_vars => (TypeOK /\ Control)'
  BY StepTypes
<1> QED
  BY <1>1, <1>2, PTL DEF Spec

-----------------------------------------------------------------------------
\* The notification token.

\* WakeupNotLost with the time before Run, when producers may be ahead of it.
Woken ==
  life \in {"created", "running"} /\ pc = "select" /\ ~flushErr
    /\ Len(queue) >= MaxBatchSize => notifyCh

LEMMA StepWoken ==
  ASSUME TypeOK, Control, Woken, [Next]_vars
  PROVE  Woken'
<1> USE DEF queueVars, flushVars, counters, external
<1>1. CASE Admit
  <2>1. notifyCh' = TRUE
    BY <1>1, AdmitAppends
  <2> QED
    BY <2>1 DEF Woken
<1>2. CASE Run \/ SelectDone \/ Cancel
  BY <1>2 DEF Run, SelectDone, Return, Selecting, Cancel, TypeOK, Woken
<1>3. CASE SelectTick \/ SelectNotify
  BY <1>3 DEF SelectTick, SelectNotify, StartLoop, Woken
<1>4. CASE Notified
  <2>1. Len(queue) \in Nat /\ Len(queue)' = Len(queue') /\ queue' = queue
    BY <1>4, LenProperties DEF Notified, NotifiedWith, StartLoop, TypeOK
  <2> QED
    BY <1>4, <2>1, BatcherAssumption DEF Notified, NotifiedWith, StartLoop, Woken
<1>5. ASSUME NEW expired \in BOOLEAN, Drain(expired) PROVE Woken'
  BY <1>5 DEF Drain, Woken
<1>6. CASE LoopEnds
  <2>1. /\ need \in {1, MaxBatchSize} /\ queue' = queue /\ Len(queue) \in Nat
        /\ flushErr' = (Len(queue) >= need)
    BY <1>6, LenProperties DEF LoopEnds, LoopReturns, Control, TypeOK
  <2>2. Len(queue) >= need => flushErr'
    BY <2>1, Zenon
  <2>3. ~(Len(queue) >= need) => ~(Len(queue') >= MaxBatchSize)
    BY <2>1, BatcherAssumption
  <2> QED
    BY <2>2, <2>3 DEF Woken
<1>7. CASE LoopFlushes
  BY <1>7 DEF LoopFlushes, Woken
<1>8. CASE SendReturns
  <2>1. pc' # "select"
    BY <1>8, SendFlattened DEF SentAs, Goes
  <2> QED
    BY <2>1 DEF Woken
<1>9. CASE BackoffTimer \/ BackoffCancelled
  BY <1>9 DEF BackoffTimer, BackoffCancelled, AbandonBackoff, Woken
<1>10. CASE FlushRestores \/ FlushDiscards
  BY <1>10 DEF FlushRestores, FlushDiscards, FlushReturns, LoopReturns, Woken
<1>11. CASE IndexLate
  BY <1>11 DEF IndexLate, Woken
<1>12. CASE UNCHANGED vars
  BY <1>12 DEF vars, Woken
<1> QED
  BY <1>1, <1>2, <1>3, <1>4, <1>5, <1>6, <1>7, <1>8, <1>9, <1>10, <1>11, <1>12
     DEF Next, BatcherStep

\* No wakeup is lost: the token is received before the length is read and a loop
\* goes on until it has read a short queue, so a full batch never waits for the
\* ticker unless the last flush failed.
THEOREM NoLostWakeup == Spec => []WakeupNotLost
<1>1. Init => Woken
  BY BatcherAssumption DEF Init, Q!Init, Woken
<1>2. Woken => WakeupNotLost
  BY DEF Woken, WakeupNotLost, Selecting
<1>3. TypeOK /\ Control /\ Woken /\ [Next]_vars => (TypeOK /\ Control /\ Woken)'
  BY StepTypes, StepWoken
<1> QED
  BY <1>1, <1>2, <1>3, InitTypes, PTL DEF Spec

-----------------------------------------------------------------------------
\* What is reported as indexed.

LEMMA StepIndexed ==
  ASSUME TypeOK, IndexedIsStored, [Next]_vars
  PROVE  IndexedIsStored'
<1> USE DEF queueVars, flushVars, counters, external
<1> SUFFICES ASSUME NEW n \in Numbers, outcome'[n] = "indexed"
             PROVE  \E d \in stored' : d.no = n
  BY DEF IndexedIsStored
<1>1. CASE Admit
  <2>1. PICK k \in Nat : Admitted(k)
    BY <1>1, AdmitAppends
  <2>2. outcome[n] = "indexed" /\ stored' = stored
    BY <2>1 DEF Admitted
  <2> QED
    BY <2>2 DEF IndexedIsStored
<1>2. CASE SendReturns
  <2>1. PICK reply \in Replies(Len(pending)) :
          SentAs(BuildBulkPayload(pending, reply.sent), reply, Send(Len(pending), reply))
    BY <1>2, SendFlattened
  <2> DEFINE docs == BuildBulkPayload(pending, reply.sent)
             r == Send(Len(pending), reply)
  <2>2. SentAs(docs, reply, r) /\ r.indexed = IndexedAt(Len(pending), reply)
    BY <2>1 DEF Send
  <2> HIDE DEF docs, r
  <2>3. /\ Verdicts(docs, r.indexed, Lost(r)) /\ Len(docs) = Len(pending)
        /\ Truthful(docs, reply, stored) /\ stored' = stored \cup Stores(docs, reply)
    BY <2>2 DEF SentAs, Numbered, Exchange
  <2>4. CASE \E i \in r.indexed : docs[i].no = n
    <3>1. PICK i \in IndexedAt(Len(docs), reply) : docs[i].no = n
      BY <2>2, <2>3, <2>4
    <3>2. docs[i] \in stored'
      <4>1. CASE i \in Created(reply, Len(docs))
        BY <2>3, <4>1 DEF Stores
      <4>2. CASE i \notin Created(reply, Len(docs))
        BY <2>3, <3>1, <4>2 DEF Created, IndexedAt, isIndexedStatus, Truthful
      <4> QED
        BY <4>1, <4>2
    <3> QED
      BY <3>1, <3>2
  <2>5. CASE outcome[n] = "indexed"
    BY <2>3, <2>5 DEF IndexedIsStored
  <2> QED
    BY <2>3, <2>4, <2>5 DEF Verdicts
<1>3. CASE FlushDiscards \/ FlushRestores
  BY <1>3 DEF FlushDiscards, FlushRestores, FlushReturns, IndexedIsStored
<1>4. CASE IndexLate
  BY <1>4 DEF IndexLate, IndexedIsStored
<1>5. CASE outcome' = outcome /\ stored' = stored
  BY <1>5 DEF IndexedIsStored
<1>6. CASE Run \/ SelectDone \/ SelectTick \/ SelectNotify \/ Notified \/ LoopEnds \/ LoopFlushes
  BY <1>5, <1>6 DEF Run, SelectDone, Return, SelectTick, SelectNotify, Notified, NotifiedWith,
                    StartLoop, LoopEnds, LoopFlushes
<1>7. CASE BackoffTimer \/ BackoffCancelled \/ Cancel \/ UNCHANGED vars
  BY <1>5, <1>7 DEF BackoffTimer, BackoffCancelled, AbandonBackoff, Cancel, vars
<1>8. ASSUME NEW expired \in BOOLEAN, Drain(expired) PROVE outcome' = outcome /\ stored' = stored
  BY <1>8 DEF Drain
<1> QED
  BY <1>1, <1>2, <1>3, <1>4, <1>5, <1>6, <1>7, <1>8 DEF Next, BatcherStep

\* Only what Elasticsearch holds is reported as indexed: a 409 counts as indexed, and
\* rightly, because the id was drawn for this event alone.
THEOREM ReportedIsStored == Spec => []IndexedIsStored
<1>1. Init => IndexedIsStored
  BY DEF Init, IndexedIsStored
<1>2. TypeOK /\ Control /\ IndexedIsStored /\ [Next]_vars
        => (TypeOK /\ Control /\ IndexedIsStored)'
  BY StepTypes, StepIndexed
<1> QED
  BY <1>1, <1>2, InitTypes, PTL DEF Spec

-----------------------------------------------------------------------------
\* The line: the slices in flight and the queue, in order of arrival.

Sorted(s) == \A i, j \in 1..Len(s) : i < j => s[i].no < s[j].no

Before(s, t) == \A i \in 1..Len(s), j \in 1..Len(t) : s[i].no < t[j].no

\* The events arrived, and carry the one id drawn for them, if one was.
Known(s, last, ids) ==
  \A i \in 1..Len(s) : s[i].no <= last /\ s[i].id = ids[s[i].no]

Ahead(s, q, last, ids) == Sorted(s) /\ Before(s, q) /\ Known(s, last, ids)

\* The slice pending is a part of batch, and until an id is drawn the same one; each
\* goes before the queue.  So may go back what flush restores.
Line ==
  /\ Sorted(queue) /\ Known(queue, arrived, drawn)
  /\ pc \in {"send", "backoff"} =>
       /\ Ahead(pending, queue, arrived, drawn) /\ Ahead(batch, queue, arrived, drawn)
       /\ Nos(pending) \subseteq Nos(batch)
  /\ pc = "failed" =>
       /\ Ahead(pending, queue, arrived, drawn) /\ Ahead(restore, queue, arrived, drawn)
       /\ Nos(pending) \subseteq Nos(restore)
  /\ pc = "send" /\ attempt = 0 => pending = batch
  /\ pc = "backoff" \/ (pc = "send" /\ attempt # 0) =>
       \A i \in 1..Len(pending) : pending[i].id # 0

\* What Elasticsearch got carries the id drawn for the event, and an event that has
\* not arrived has none.
Drawn ==
  /\ \A d \in stored \cup wire : d.id = drawn[d.no] /\ d.id # 0
  /\ \A n \in Numbers : n > arrived => drawn[n] = 0

\* A part of a slice, in order, stands where the slice does.
LEMMA PartAhead ==
  ASSUME NEW s \in Seq(Event), NEW q, NEW last, NEW ids, Ahead(s, q, last, ids),
         NEW t \in Seq(Event), NEW f,
         \A i \in 1..Len(t) : f[i] \in 1..Len(s) /\ t[i] = s[f[i]],
         \A i, j \in 1..Len(t) : i < j => f[i] < f[j]
  PROVE  Ahead(t, q, last, ids) /\ Nos(t) \subseteq Nos(s)
<1>1. Sorted(t)
  BY DEF Ahead, Sorted
<1>2. Before(t, q) /\ Known(t, last, ids)
  BY DEF Ahead, Before, Known
<1>3. Nos(t) \subseteq Nos(s)
  BY DEF Nos
<1> QED
  BY <1>1, <1>2, <1>3 DEF Ahead

\* Each element of a concatenation is one of the first or one of the second slice.
LEMMA ConcatSplits ==
  ASSUME NEW s \in Seq(Event), NEW t \in Seq(Event)
  PROVE  /\ s \o t \in Seq(Event) /\ Len(s \o t) = Len(s) + Len(t)
         /\ Len(s) \in Nat /\ Len(t) \in Nat
         /\ \A i \in 1..Len(s) : (s \o t)[i] = s[i]
         /\ \A i \in 1..Len(s \o t) :
              \/ i \in 1..Len(s) /\ (s \o t)[i] = s[i]
              \/ i > Len(s) /\ i - Len(s) \in 1..Len(t) /\ (s \o t)[i] = t[i - Len(s)]
<1>1. Len(s) \in Nat /\ Len(t) \in Nat
  BY LenProperties
<1>2. /\ s \o t \in Seq(Event) /\ Len(s \o t) = Len(s) + Len(t)
      /\ \A i \in 1..(Len(s) + Len(t)) : (s \o t)[i] = IF i <= Len(s) THEN s[i] ELSE t[i - Len(s)]
  BY ConcatProperties
<1> DEFINE a == Len(s)
           b == Len(t)
           u == s \o t
<1>3. \A i \in 1..a : u[i] = s[i]
  <2> HIDE DEF u
  <2> QED
    BY <1>1, <1>2 DEF u
<1>4. ASSUME NEW i \in 1..(a + b)
      PROVE  \/ i \in 1..a /\ u[i] = s[i]
             \/ i > a /\ i - a \in 1..b /\ u[i] = t[i - a]
  <2>1. u[i] = IF i <= a THEN s[i] ELSE t[i - a]
    BY <1>2
  <2> HIDE DEF a, b, u
  <2>2. a \in Nat /\ b \in Nat
    BY <1>1 DEF a, b
  <2> QED
    BY <2>1, <2>2
<1> HIDE DEF u
<1> QED
  BY <1>1, <1>2, <1>3, <1>4 DEF u

\* Two sorted slices, the first before the second, make a sorted one.
LEMMA ConcatSorted ==
  ASSUME NEW s \in Seq(Event), NEW t \in Seq(Event), Sorted(s), Sorted(t), Before(s, t)
  PROVE  Sorted(s \o t)
<1> DEFINE u == s \o t
           a == Len(s)
<1>1. /\ a \in Nat
      /\ \A i \in 1..Len(u) :
           \/ i \in 1..a /\ u[i] = s[i]
           \/ i > a /\ i - a \in 1..Len(t) /\ u[i] = t[i - a]
  BY ConcatSplits
<1>2. Len(u) \in Nat
  BY ConcatSplits
<1> HIDE DEF u, a
<1> SUFFICES ASSUME NEW i \in 1..Len(u), NEW j \in 1..Len(u), i < j
             PROVE  u[i].no < u[j].no
  BY DEF Sorted, u
<1>3. CASE i \in 1..a /\ j \in 1..a
  <2>1. u[i] = s[i] /\ u[j] = s[j]
    BY <1>1, <1>3
  <2> QED
    BY <1>3, <2>1 DEF Sorted, a
<1>4. CASE i \in 1..a /\ j > a
  <2>1. u[i] = s[i] /\ u[j] = t[j - a] /\ j - a \in 1..Len(t)
    BY <1>1, <1>4
  <2> QED
    BY <1>4, <2>1 DEF Before, a
<1>5. CASE i > a /\ j > a
  <2>1. u[i] = t[i - a] /\ i - a \in 1..Len(t) /\ u[j] = t[j - a] /\ j - a \in 1..Len(t)
    BY <1>1, <1>5
  <2>2. i - a < j - a
    BY <1>1
  <2> QED
    BY <2>1, <2>2 DEF Sorted
<1> QED
  BY <1>1, <1>2, <1>3, <1>4, <1>5

LEMMA ConcatKnown ==
  ASSUME NEW s \in Seq(Event), NEW t \in Seq(Event), NEW last, NEW ids,
         Known(s, last, ids), Known(t, last, ids)
  PROVE  Known(s \o t, last, ids)
<1> DEFINE u == s \o t
<1>1. \A i \in 1..Len(u) :
        \/ i \in 1..Len(s) /\ u[i] = s[i]
        \/ i > Len(s) /\ i - Len(s) \in 1..Len(t) /\ u[i] = t[i - Len(s)]
  BY ConcatSplits
<1> HIDE DEF u
<1>2. Known(u, last, ids)
  BY <1>1 DEF Known
<1> QED
  BY <1>2 DEF u

LEMMA BeforeConcat ==
  ASSUME NEW r, NEW s \in Seq(Event), NEW t \in Seq(Event), Before(r, s), Before(r, t)
  PROVE  Before(r, s \o t)
<1> DEFINE u == s \o t
<1>1. \A i \in 1..Len(u) :
        \/ i \in 1..Len(s) /\ u[i] = s[i]
        \/ i > Len(s) /\ i - Len(s) \in 1..Len(t) /\ u[i] = t[i - Len(s)]
  BY ConcatSplits
<1> HIDE DEF u
<1>2. Before(r, u)
  BY <1>1 DEF Before
<1> QED
  BY <1>2 DEF u

\* Events that come later do not disturb what is ahead of the queue.
LEMMA AdmitLine ==
  ASSUME TypeOK, Line, Drawn, Admit
  PROVE  Line' /\ Drawn'
<1>1. PICK k \in Nat :
        /\ arrived + k <= MaxEvents
        /\ queue' = queue \o Fresh(k)
        /\ Admitted(k)
  BY AdmitAppends
<1>2. arrived \in Nat /\ MaxEvents \in Nat /\ queue \in Seq(Event)
  BY BatcherAssumption DEF TypeOK
<1>3. /\ Fresh(k) \in Seq(Event) /\ Len(Fresh(k)) = k
      /\ \A i \in 1..k : Fresh(k)[i].no = arrived + i /\ Fresh(k)[i].id = 0
  <2>1. arrived \in 0..MaxEvents
    BY DEF TypeOK
  <2>2. /\ Fresh(k) \in Seq(Event) /\ Len(Fresh(k)) = k
        /\ \A i \in 1..k : Fresh(k)[i] = [no |-> arrived + i, id |-> 0]
    BY <1>1, <2>1, FreshIsSeq
  <2> QED
    BY <2>2
<1>4. /\ arrived' = arrived + k /\ drawn' = drawn /\ stored' = stored /\ wire' = wire
      /\ batch' = batch /\ pending' = pending /\ restore' = restore /\ attempt' = attempt
      /\ pc' = pc
  BY <1>1 DEF Admitted, flushVars, external
<1>5. \A i \in 1..k : arrived + i \in Numbers /\ drawn[arrived + i] = 0
  BY <1>1, <1>2 DEF Drawn, Numbers
<1>6. Sorted(Fresh(k))
  BY <1>2, <1>3 DEF Sorted
<1>7. Known(Fresh(k), arrived', drawn')
  <2>1. ASSUME NEW i \in 1..k
        PROVE  Fresh(k)[i].no <= arrived + k /\ Fresh(k)[i].id = drawn[Fresh(k)[i].no]
    <3>1. Fresh(k)[i].no = arrived + i /\ Fresh(k)[i].id = 0
      BY <1>3
    <3>2. arrived + i <= arrived + k /\ drawn[arrived + i] = 0
      BY <1>2, <1>5
    <3> QED
      BY <3>1, <3>2
  <2>2. Len(Fresh(k)) = k
    BY <1>3
  <2> QED
    BY <1>4, <2>1, <2>2 DEF Known
<1>8. ASSUME NEW s \in Seq(Event), Known(s, arrived, drawn)
      PROVE  Known(s, arrived', drawn') /\ Before(s, Fresh(k))
  <2>1. \A i \in 1..Len(s) : s[i] \in Event
    BY ElementOfSeq
  <2>2. \A i \in 1..Len(s) : s[i].no \in Int /\ s[i].no <= arrived /\ s[i].id = drawn[s[i].no]
    BY <1>8, <2>1 DEF Known, Event, Numbers
  <2> QED
    BY <1>2, <1>3, <1>4, <2>2 DEF Known, Before
<1>9. Sorted(queue') /\ Known(queue', arrived', drawn')
  <2>1. Sorted(queue) /\ Known(queue, arrived, drawn)
    BY DEF Line
  <2>2. Known(queue, arrived', drawn') /\ Before(queue, Fresh(k))
    BY <1>2, <1>8, <2>1
  <2>3. Sorted(queue \o Fresh(k))
    BY <1>2, <1>3, <1>6, <2>1, <2>2, ConcatSorted
  <2>4. Known(queue \o Fresh(k), arrived', drawn')
    BY <1>2, <1>3, <1>7, <2>2, ConcatKnown
  <2> QED
    BY <1>1, <2>3, <2>4
<1>10. ASSUME NEW s \in Seq(Event), Ahead(s, queue, arrived, drawn)
       PROVE  Ahead(s, queue', arrived', drawn')
  <2>1. Sorted(s) /\ Before(s, queue) /\ Known(s, arrived', drawn') /\ Before(s, Fresh(k))
    BY <1>8, <1>10 DEF Ahead
  <2>2. Before(s, queue \o Fresh(k))
    BY <1>2, <1>3, <2>1, BeforeConcat
  <2> QED
    BY <1>1, <2>1, <2>2 DEF Ahead
<1>11. Line'
  <2>1. pending \in Seq(Event) /\ batch \in Seq(Event) /\ restore \in Seq(Event)
    BY DEF TypeOK
  <2> QED
    BY <1>4, <1>9, <1>10, <2>1 DEF Line, Nos
<1>12. Drawn'
  BY <1>2, <1>4 DEF Drawn, Numbers
<1> QED
  BY <1>11, <1>12

LEMMA FlushedLine ==
  ASSUME TypeOK, Line, Drawn, LoopFlushes
  PROVE  Line' /\ Drawn'
<1>1. PICK n \in 0..Len(queue) :
        /\ batch' \in Seq(Event) /\ Len(batch') = n
        /\ \A i \in 1..n : batch'[i] = queue[i]
        /\ queue' \in Seq(Event) /\ Len(queue') = Len(queue) - n
        /\ \A i \in 1..(Len(queue) - n) : queue'[i] = queue[n + i]
  BY DrainSplits
<1>2. Len(queue) \in Nat /\ n \in Nat /\ n <= Len(queue)
  BY LenProperties DEF TypeOK
<1>3. /\ pending' = batch' /\ pc' = "send" /\ attempt' = 0 /\ arrived' = arrived
      /\ drawn' = drawn /\ stored' = stored /\ wire' = wire
  BY DEF LoopFlushes, external
<1>4. Sorted(queue) /\ Known(queue, arrived, drawn)
  BY DEF Line
<1>5. Sorted(queue') /\ Known(queue', arrived', drawn')
  <2>1. \A i \in 1..Len(queue') : n + i \in 1..Len(queue) /\ queue'[i] = queue[n + i]
    BY <1>1, <1>2
  <2>2. \A i, j \in 1..Len(queue') : i < j => n + i < n + j
    BY <1>1, <1>2
  <2> QED
    BY <1>3, <1>4, <2>1, <2>2 DEF Sorted, Known
<1>6. Ahead(batch', queue', arrived', drawn')
  <2>1. \A i \in 1..Len(batch') : i \in 1..Len(queue) /\ batch'[i] = queue[i] /\ i <= n
    BY <1>1, <1>2
  <2>2. \A i \in 1..Len(queue') : n + i \in 1..Len(queue) /\ queue'[i] = queue[n + i] /\ n < n + i
    BY <1>1, <1>2
  <2>3. \A i \in 1..Len(batch'), j \in 1..Len(queue') : i < n + j
    BY <1>1, <1>2
  <2>4. Before(batch', queue')
    BY <1>4, <2>1, <2>2, <2>3 DEF Before, Sorted
  <2> QED
    BY <1>3, <1>4, <2>1, <2>4 DEF Ahead, Sorted, Known
<1> QED
  BY <1>3, <1>5, <1>6 DEF Line, Drawn

LEMMA RestoredLine ==
  ASSUME TypeOK, Line, Drawn, FlushRestores
  PROVE  Line' /\ Drawn'
<1>1. /\ pc = "failed" /\ pc' = "select" /\ arrived' = arrived /\ queue' = restore \o queue
      /\ drawn' = drawn /\ stored' = stored /\ wire' = wire
  BY DEF FlushRestores, FlushReturns, LoopReturns, Q!Prepend, external
<1>2. /\ Sorted(queue) /\ Known(queue, arrived, drawn) /\ queue \in Seq(Event)
      /\ Sorted(restore) /\ Known(restore, arrived, drawn) /\ restore \in Seq(Event)
      /\ Before(restore, queue)
  BY <1>1 DEF Line, Ahead, TypeOK
<1>3. Sorted(restore \o queue) /\ Known(restore \o queue, arrived, drawn)
  BY <1>2, ConcatSorted, ConcatKnown
<1> QED
  BY <1>1, <1>3 DEF Line, Drawn

\* What a request does to the ids.
LEMMA SendDraws ==
  ASSUME TypeOK, Line, NEW reply, NEW docs, NEW r, SentAs(docs, reply, r)
  PROVE  /\ \A i \in 1..Len(docs) : docs[i].id = drawn'[docs[i].no]
         /\ \A n \in Numbers : n \notin Nos(pending) \/ drawn[n] # 0 => drawn'[n] = drawn[n]
         /\ attempt # 0 => drawn' = drawn
<1>1. /\ Len(docs) = Len(pending) /\ Len(pending) \in Nat
      /\ \A i \in 1..Len(pending) :
           /\ docs[i] \in Event /\ docs[i].no = pending[i].no
           /\ docs[i].id = IF i <= reply.sent /\ pending[i].id = 0
                             THEN drawn[pending[i].no] + 1 ELSE pending[i].id
  BY LenProperties DEF SentAs, Numbered, TypeOK
<1>2. /\ drawn' = [n \in Numbers |->
                 IF \E i \in 1..Len(docs) : docs[i].no = n /\ docs[i].id > drawn[n]
                   THEN drawn[n] + 1 ELSE drawn[n]]
      /\ drawn \in [Numbers -> Nat]
  BY DEF SentAs, Exchange, TypeOK
<1>3. /\ \A i \in 1..Len(pending) : pending[i].id = drawn[pending[i].no]
      /\ Sorted(pending)
      /\ attempt # 0 => \A i \in 1..Len(pending) : pending[i].id # 0
  BY DEF SentAs, Line, Ahead, Known
<1>4. \A i, j \in 1..Len(docs) : docs[i].no = docs[j].no => i = j
  <2>1. \A i \in 1..Len(docs) : docs[i].no \in Int
    BY <1>1 DEF Event, Numbers
  <2> QED
    BY <1>1, <1>3, <2>1 DEF Sorted
<1>5. \A i \in 1..Len(docs) : docs[i].no \in Numbers /\ drawn[docs[i].no] \in Nat
  BY <1>1, <1>2 DEF Event
<1>6. \A i \in 1..Len(docs) :
        docs[i].id = IF i <= reply.sent /\ drawn[docs[i].no] = 0
                       THEN drawn[docs[i].no] + 1 ELSE drawn[docs[i].no]
  BY <1>1, <1>3
<1>7. ASSUME NEW i \in 1..Len(docs) PROVE docs[i].id = drawn'[docs[i].no]
  <2>1. CASE i <= reply.sent /\ drawn[docs[i].no] = 0
    <3>1. docs[i].id > drawn[docs[i].no] /\ docs[i].id = drawn[docs[i].no] + 1
      BY <1>5, <1>6, <2>1
    <3> QED
      BY <1>2, <1>5, <3>1
  <2>2. CASE ~(i <= reply.sent /\ drawn[docs[i].no] = 0)
    <3>1. docs[i].id = drawn[docs[i].no] /\ ~(docs[i].id > drawn[docs[i].no])
      BY <1>5, <1>6, <2>2
    <3>2. ~\E j \in 1..Len(docs) : docs[j].no = docs[i].no /\ docs[j].id > drawn[docs[i].no]
      BY <1>4, <3>1
    <3> QED
      BY <1>2, <1>5, <3>1, <3>2
  <2> QED
    BY <2>1, <2>2
<1>8. ASSUME NEW n \in Numbers, n \notin Nos(pending) \/ drawn[n] # 0
      PROVE  drawn'[n] = drawn[n]
  <2>1. ~\E i \in 1..Len(docs) : docs[i].no = n /\ docs[i].id > drawn[n]
    <3> SUFFICES ASSUME NEW i \in 1..Len(docs), docs[i].no = n, docs[i].id > drawn[n]
                 PROVE  FALSE
      OBVIOUS
    <3>1. n \in Nos(pending)
      BY <1>1 DEF Nos
    <3>2. docs[i].id = drawn[n]
      BY <1>6, <1>8, <3>1
    <3> QED
      BY <1>5, <3>2
  <2> QED
    BY <1>2, <2>1
<1>9. ASSUME attempt # 0 PROVE drawn' = drawn
  <2>1. \A n \in Numbers : n \in Nos(pending) => drawn[n] # 0
    BY <1>3, <1>9 DEF Nos
  <2>2. \A n \in Numbers : drawn'[n] = drawn[n]
    BY <1>8, <2>1
  <2> QED
    BY <1>2, <2>2
<1> QED
  BY <1>7, <1>8, <1>9

\* Where a request leaves the slice it sent and the part of it that goes on.
LEMMA SendLine ==
  ASSUME TypeOK, Line, NEW reply, NEW docs, NEW r, SentAs(docs, reply, r)
  PROVE  Line'
<1>1. /\ docs \in Seq(Event) /\ Len(docs) = Len(pending)
      /\ \A i \in 1..Len(docs) : docs[i] \in Event /\ docs[i].no = pending[i].no
      /\ Judged(Len(docs), reply, r) /\ Goes(docs, r) /\ pc = "send"
      /\ queue' = queue /\ arrived' = arrived /\ batch' = Aliased(docs)
  BY DEF SentAs, Numbered, Exchange
<1>2. /\ pending \in Seq(Event) /\ batch \in Seq(Event) /\ queue \in Seq(Event)
      /\ Len(pending) \in Nat
  BY LenProperties DEF TypeOK
<1>3. /\ \A i \in 1..Len(docs) : docs[i].id = drawn'[docs[i].no]
      /\ \A n \in Numbers : n \notin Nos(pending) => drawn'[n] = drawn[n]
      /\ attempt # 0 => drawn' = drawn
  BY SendDraws
<1>4. /\ Ahead(pending, queue, arrived, drawn) /\ Ahead(batch, queue, arrived, drawn)
      /\ Nos(pending) \subseteq Nos(batch)
      /\ attempt # 0 => \A i \in 1..Len(pending) : pending[i].id # 0
  BY <1>1 DEF Line
<1>5. Sorted(queue') /\ Known(queue', arrived', drawn')
  <2>1. \A j \in 1..Len(queue) : queue[j] \in Event /\ queue[j].no \notin Nos(pending)
    <3>1. ASSUME NEW j \in 1..Len(queue) PROVE queue[j] \in Event /\ queue[j].no \in Int
      <4>1. queue[j] \in Event
        BY <1>2, ElementOfSeq
      <4> QED
        BY <4>1 DEF Event, Numbers
    <3>2. ASSUME NEW i \in 1..Len(pending), NEW j \in 1..Len(queue)
          PROVE  pending[i].no # queue[j].no
      <4>1. pending[i].no < queue[j].no /\ queue[j].no \in Int
        BY <1>4, <3>1 DEF Ahead, Before
      <4>2. pending[i].no \in Int
        <5>1. pending[i] \in Event
          BY <1>2, ElementOfSeq
        <5> QED
          BY <5>1 DEF Event, Numbers
      <4> QED
        BY <4>1, <4>2
    <3> QED
      BY <3>1, <3>2 DEF Nos
  <2>2. \A j \in 1..Len(queue) : drawn'[queue[j].no] = drawn[queue[j].no]
    BY <1>3, <2>1 DEF Event
  <2> QED
    BY <1>1, <2>2 DEF Line, Known
<1>6. Ahead(docs, queue', arrived', drawn') /\ Nos(docs) = Nos(pending)
  <2>1. Sorted(docs)
    BY <1>1, <1>4 DEF Ahead, Sorted
  <2>2. Before(docs, queue')
    BY <1>1, <1>4 DEF Ahead, Before
  <2>3. Known(docs, arrived', drawn')
    BY <1>1, <1>3, <1>4 DEF Ahead, Known
  <2>4. Nos(docs) = Nos(pending)
    BY <1>1 DEF Nos
  <2> QED
    BY <2>1, <2>2, <2>3, <2>4 DEF Ahead
<1>7. Ahead(batch', queue', arrived', drawn') /\ Nos(docs) \subseteq Nos(batch')
  <2>1. CASE attempt = 0
    BY <1>1, <1>6, <2>1 DEF Aliased
  <2>2. CASE attempt # 0
    BY <1>1, <1>3, <1>4, <1>6, <2>2 DEF Aliased
  <2> QED
    BY <2>1, <2>2
<1>8. ASSUME NEW f \in Ascending(r.retry)
      PROVE  /\ Ahead(Picked(docs, f), queue', arrived', drawn')
             /\ Nos(Picked(docs, f)) \subseteq Nos(docs)
             /\ \A i \in 1..Len(Picked(docs, f)) :
                  \E j \in r.retry : Picked(docs, f)[i] = docs[j]
  <2> DEFINE p == Picked(docs, f)
  <2>1. r.retry \in SUBSET (1..Len(docs))
    BY <1>1 DEF Judged
  <2>2. /\ p \in Seq(Event)
        /\ \A i \in 1..Len(p) : f[i] \in r.retry /\ p[i] = docs[f[i]]
        /\ \A i, j \in 1..Len(p) : i < j => f[i] < f[j]
    BY <1>1, <2>1, PickedIsSlice
  <2> HIDE DEF p
  <2>3. \A i \in 1..Len(p) : f[i] \in 1..Len(docs) /\ p[i] = docs[f[i]]
    BY <2>1, <2>2
  <2>4. Ahead(p, queue', arrived', drawn') /\ Nos(p) \subseteq Nos(docs)
    BY <1>1, <1>6, <2>2, <2>3, PartAhead
  <2> QED
    BY <2>2, <2>4 DEF p
<1>9. r.retry # {} => \A j \in 1..Len(docs) : docs[j].id # 0
  <2> SUFFICES ASSUME r.retry # {}, NEW j \in 1..Len(docs) PROVE docs[j].id # 0
    OBVIOUS
  <2>1. reply.sent = Len(docs)
    BY <1>1 DEF Judged
  <2>2. docs[j].id = IF j <= reply.sent /\ pending[j].id = 0
                       THEN drawn[pending[j].no] + 1 ELSE pending[j].id
    BY <1>1 DEF SentAs, Numbered
  <2>3. j <= reply.sent
    BY <1>1, <1>2, <2>1
  <2>4. drawn[pending[j].no] \in Nat
    BY <1>1 DEF TypeOK, Event
  <2> QED
    BY <2>2, <2>3, <2>4
<1>10. CASE pc' = "loop"
  BY <1>5, <1>10 DEF Line
<1>11. CASE pc' = "failed"
  <2>1. /\ Ahead(pending', queue', arrived', drawn') /\ Nos(pending') \subseteq Nos(docs)
        /\ restore' = (IF ctxErr THEN pending' ELSE batch')
    BY <1>1, <1>6, <1>8, <1>11 DEF Goes
  <2>2. Ahead(restore', queue', arrived', drawn') /\ Nos(pending') \subseteq Nos(restore')
    BY <1>7, <2>1
  <2> QED
    BY <1>5, <1>11, <2>1, <2>2 DEF Line, Nos
<1>12. CASE pc' = "backoff"
  <2>1. PICK f \in Ascending(r.retry) : pending' = Picked(docs, f) /\ r.retry # {}
    BY <1>1, <1>12 DEF Goes
  <2>2. /\ Ahead(pending', queue', arrived', drawn') /\ Nos(pending') \subseteq Nos(docs)
        /\ \A i \in 1..Len(pending') : \E j \in r.retry : pending'[i] = docs[j]
    BY <1>8, <2>1
  <2>3. \A i \in 1..Len(pending') : pending'[i].id # 0
    BY <1>1, <1>9, <2>1, <2>2 DEF Judged
  <2> QED
    BY <1>5, <1>7, <1>12, <2>2, <2>3 DEF Line, Nos
<1> QED
  BY <1>1, <1>10, <1>11, <1>12 DEF Goes

LEMMA SendDrawn ==
  ASSUME TypeOK, Line, Drawn, NEW reply \in Replies(Len(pending)), NEW docs, NEW r,
         r = Send(Len(pending), reply), SentAs(docs, reply, r)
  PROVE  Drawn'
<1>1. /\ Len(docs) = Len(pending) /\ Len(pending) \in Nat /\ arrived' = arrived
      /\ \A i \in 1..Len(docs) : docs[i] \in Event /\ docs[i].no = pending[i].no
      /\ Judged(Len(docs), reply, r) /\ pc = "send"
      /\ stored' = stored \cup Stores(docs, reply)
      /\ wire' = (wire \cup Leaves(docs, reply)) \ stored'
  BY LenProperties DEF SentAs, Numbered, Exchange, TypeOK
<1>2. /\ \A i \in 1..Len(docs) : docs[i].id = drawn'[docs[i].no]
      /\ \A n \in Numbers : n \notin Nos(pending) \/ drawn[n] # 0 => drawn'[n] = drawn[n]
  BY SendDraws
<1>3. Known(pending, arrived, drawn)
  BY <1>1 DEF Line, Ahead
<1>4. reply.sent = Len(docs) => \A j \in 1..Len(docs) : docs[j].id # 0
  <2> SUFFICES ASSUME reply.sent = Len(docs), NEW j \in 1..Len(docs) PROVE docs[j].id # 0
    OBVIOUS
  <2>1. docs[j].id = IF j <= reply.sent /\ pending[j].id = 0
                       THEN drawn[pending[j].no] + 1 ELSE pending[j].id
    BY <1>1 DEF SentAs, Numbered
  <2>2. j <= reply.sent
    BY <1>1
  <2>3. drawn[pending[j].no] \in Nat
    BY <1>1 DEF TypeOK, Event
  <2> QED
    BY <2>1, <2>2, <2>3
<1>5. ASSUME NEW d \in Stores(docs, reply) \cup Leaves(docs, reply)
      PROVE  d.id = drawn'[d.no] /\ d.id # 0
  <2>1. PICK j \in 1..Len(docs) : d = docs[j]
    BY DEF Stores, Created, Leaves
  <2>2. ~r.err \/ r.retry # {}
    <3>1. CASE d \in Stores(docs, reply)
      <4>1. reply.kind = "created" \/ PerItem(Len(docs), reply)
        BY <3>1 DEF Stores, Created
      <4> QED
        BY <1>1, <4>1 DEF Send
    <3>2. CASE d \in Leaves(docs, reply)
      <4>1. Ambiguous(Len(docs), reply)
        BY <3>2 DEF Leaves
      <4>2. r.retry = 1..Len(docs)
        BY <1>1, <4>1 DEF Send, RetryAt
      <4> QED
        BY <2>1, <4>2
    <3> QED
      BY <3>1, <3>2
  <2>3. reply.sent = Len(docs)
    BY <1>1, <2>2 DEF Judged
  <2> QED
    BY <1>2, <1>4, <2>1, <2>3
<1>6. ASSUME NEW d \in stored \cup wire
      PROVE  d.id = drawn'[d.no] /\ d.id # 0
  <2>1. d \in Event /\ d.no \in Numbers
    BY DEF TypeOK, Event
  <2>2. d.id = drawn[d.no] /\ d.id # 0
    BY DEF Drawn
  <2> QED
    BY <1>2, <2>1, <2>2
<1>7. ASSUME NEW n \in Numbers, n > arrived' PROVE drawn'[n] = 0
  <2>1. n > arrived /\ arrived \in Int /\ n \in Int
    BY <1>1, <1>7 DEF TypeOK, Numbers
  <2>2. n \notin Nos(pending)
    <3> SUFFICES ASSUME NEW i \in 1..Len(pending), pending[i].no = n PROVE FALSE
      BY DEF Nos
    <3>1. pending[i].no <= arrived
      BY <1>3 DEF Known
    <3> QED
      BY <2>1, <3>1
  <2>3. drawn[n] = 0
    BY <2>1 DEF Drawn
  <2> QED
    BY <1>2, <2>2, <2>3
<1> QED
  BY <1>1, <1>5, <1>6, <1>7 DEF Drawn

LEMMA StepLine ==
  ASSUME TypeOK, Line, Drawn, [Next]_vars
  PROVE  Line' /\ Drawn'
<1> USE DEF queueVars, flushVars, counters, external
<1>1. CASE Admit
  BY <1>1, AdmitLine
<1>2. CASE SendReturns
  <2>1. PICK reply \in Replies(Len(pending)) :
          SentAs(BuildBulkPayload(pending, reply.sent), reply, Send(Len(pending), reply))
    BY <1>2, SendFlattened
  <2> QED
    BY <2>1, SendLine, SendDrawn
<1>3. CASE LoopFlushes
  BY <1>3, FlushedLine
<1>4. CASE FlushRestores
  BY <1>4, RestoredLine
<1>5. CASE FlushDiscards
  BY <1>5 DEF FlushDiscards, FlushReturns, LoopReturns, Line, Drawn
<1>6. CASE BackoffTimer
  BY <1>6 DEF BackoffTimer, Line, Drawn, TypeOK
<1>7. CASE BackoffCancelled
  BY <1>7 DEF BackoffCancelled, AbandonBackoff, Line, Drawn, Nos
<1>8. CASE IndexLate
  <2>1. /\ UNCHANGED <<queue, pc, batch, pending, attempt, restore, arrived, drawn>>
        /\ stored' \cup wire' \subseteq stored \cup wire
    BY <1>8 DEF IndexLate
  <2> QED
    BY <2>1 DEF Line, Drawn
<1>9. ASSUME UNCHANGED <<queue, batch, pending, attempt, restore, arrived, drawn, stored, wire>>,
             pc' = pc \/ pc' \in {"select", "notified", "loop"}
      PROVE  Line' /\ Drawn'
  BY <1>9 DEF Line, Drawn
<1>10. CASE Run \/ SelectDone \/ SelectTick \/ SelectNotify \/ Notified \/ LoopEnds
  BY <1>9, <1>10 DEF Run, SelectDone, Return, SelectTick, SelectNotify, Notified, NotifiedWith,
                     StartLoop, LoopEnds, LoopReturns, Q!Receive
<1>11. CASE Cancel \/ UNCHANGED vars
  BY <1>9, <1>11 DEF Cancel, vars
<1>12. ASSUME NEW expired \in BOOLEAN, Drain(expired) PROVE Line' /\ Drawn'
  BY <1>9, <1>12 DEF Drain
<1> QED
  BY <1>1, <1>2, <1>3, <1>4, <1>5, <1>6, <1>7, <1>8, <1>10, <1>11, <1>12
     DEF Next, BatcherStep

LEMMA InitLine ==
  ASSUME Init
  PROVE  Line /\ Drawn
<1>1. queue = <<>> /\ pc = "select" /\ stored = {} /\ wire = {} /\ drawn = [n \in Numbers |-> 0]
  BY DEF Init, Q!Init
<1> QED
  BY <1>1 DEF Line, Drawn, Sorted, Known

\* What is in flight and what is queued are slices of events that arrived.
LEMMA FlightAhead ==
  ASSUME TypeOK, Line
  PROVE  InFlight \in Seq(Event) /\ Ahead(InFlight, queue, arrived, drawn)
<1>1. CASE pc \in {"send", "backoff"}
  BY <1>1 DEF InFlight, Line, TypeOK
<1>2. CASE pc = "failed"
  BY <1>2 DEF InFlight, Line, TypeOK
<1>3. CASE pc \notin {"send", "backoff", "failed"}
  <2>1. InFlight = <<>>
    BY <1>3 DEF InFlight
  <2> QED
    BY <2>1 DEF Ahead, Sorted, Before, Known
<1> QED
  BY <1>1, <1>2, <1>3

-----------------------------------------------------------------------------
\* What becomes of every event.

\* An event that has not arrived has no outcome.
NotYet == \A n \in Numbers : n > arrived => outcome[n] = "none"

LEMMA ConcatNos ==
  ASSUME NEW s \in Seq(Event), NEW t \in Seq(Event)
  PROVE  Nos(s \o t) = Nos(s) \cup Nos(t)
<1> DEFINE u == s \o t
           a == Len(s)
           b == Len(t)
<1>1. a \in Nat /\ b \in Nat
  BY LenProperties
<1>2. /\ Len(u) = a + b
      /\ \A i \in 1..(a + b) : u[i] = IF i <= a THEN s[i] ELSE t[i - a]
  BY ConcatProperties
<1>3. \A i \in 1..Len(u) :
        \/ i \in 1..a /\ u[i] = s[i]
        \/ i > a /\ i - a \in 1..b /\ u[i] = t[i - a]
  BY ConcatSplits
<1> HIDE DEF u, a, b
<1>4. Nos(u) \subseteq Nos(s) \cup Nos(t)
  BY <1>3 DEF Nos, a, b
<1>5. \A i \in 1..a : i \in 1..Len(u) /\ u[i] = s[i]
  BY <1>1, <1>2
<1>6. ASSUME NEW j \in 1..b PROVE a + j \in 1..Len(u) /\ u[a + j] = t[j]
  <2>1. a + j \in 1..(a + b) /\ ~(a + j <= a) /\ (a + j) - a = j
    BY <1>1
  <2>2. u[a + j] = t[(a + j) - a]
    BY <1>2, <2>1
  <2> QED
    BY <1>2, <2>1, <2>2
<1>7. Nos(s) \subseteq Nos(u)
  BY <1>5 DEF Nos, a
<1>8. Nos(t) \subseteq Nos(u)
  BY <1>6 DEF Nos, b
<1> QED
  BY <1>4, <1>7, <1>8 DEF u

\* A judged slice: outcome changes at the positions of the verdicts only.
LEMMA SendVerdicts ==
  ASSUME TypeOK, Line, NEW reply, NEW docs, NEW r, SentAs(docs, reply, r)
  PROVE  /\ Len(docs) = Len(pending) /\ Len(docs) \in Nat
         /\ \A i \in 1..Len(docs) : docs[i].no \in Nos(pending) /\ docs[i].no \in Numbers
         /\ \A i, j \in 1..Len(docs) : docs[i].no = docs[j].no => i = j
         /\ r.indexed \subseteq 1..Len(docs) /\ Lost(r) \subseteq 1..Len(docs)
         /\ \A i \in Lost(r) : i \notin r.indexed
         /\ \A i \in r.indexed : outcome'[docs[i].no] = "indexed"
         /\ \A i \in Lost(r) : outcome'[docs[i].no] = "failed"
         /\ \A n \in Numbers :
              \/ \E i \in r.indexed : docs[i].no = n
              \/ \E i \in Lost(r) : docs[i].no = n
              \/ outcome'[n] = outcome[n]
<1>1. /\ Len(docs) = Len(pending) /\ Len(pending) \in Nat
      /\ \A i \in 1..Len(docs) : docs[i] \in Event /\ docs[i].no = pending[i].no
      /\ Judged(Len(docs), reply, r) /\ pc = "send" /\ Verdicts(docs, r.indexed, Lost(r))
  BY LenProperties DEF SentAs, Numbered, TypeOK
<1>2. \A i \in 1..Len(docs) : docs[i].no \in Nos(pending) /\ docs[i].no \in Numbers
  BY <1>1 DEF Nos, Event
<1>3. \A i, j \in 1..Len(docs) : docs[i].no = docs[j].no => i = j
  <2>1. \A i \in 1..Len(docs) : docs[i].no \in Int
    BY <1>2 DEF Numbers
  <2>2. Sorted(pending)
    BY <1>1 DEF Line, Ahead
  <2> QED
    BY <1>1, <2>1, <2>2 DEF Sorted
<1>4. /\ r.indexed \subseteq 1..Len(docs) /\ Lost(r) \subseteq 1..Len(docs)
      /\ \A i \in Lost(r) : i \notin r.indexed
  BY <1>1 DEF Judged, Lost
<1>5. \A n \in Numbers :
        outcome'[n] = IF \E i \in r.indexed : docs[i].no = n THEN "indexed"
                      ELSE IF \E i \in Lost(r) : docs[i].no = n THEN "failed"
                      ELSE outcome[n]
  BY <1>1 DEF Verdicts
<1>6. ASSUME NEW i \in Lost(r) PROVE outcome'[docs[i].no] = "failed"
  <2>1. ~\E j \in r.indexed : docs[j].no = docs[i].no
    BY <1>3, <1>4
  <2> QED
    BY <1>2, <1>4, <1>5, <2>1
<1>7. \A i \in r.indexed : outcome'[docs[i].no] = "indexed"
  BY <1>2, <1>4, <1>5
<1>8. \A n \in Numbers :
        \/ \E i \in r.indexed : docs[i].no = n
        \/ \E i \in Lost(r) : docs[i].no = n
        \/ outcome'[n] = outcome[n]
  BY <1>5
<1> QED
  BY <1>1, <1>2, <1>3, <1>4, <1>6, <1>7, <1>8

\* The part of the slice that goes on is the part to retry, or all of it.
LEMMA SendKeeps ==
  ASSUME TypeOK, NEW reply, NEW docs, NEW r, SentAs(docs, reply, r)
  PROVE  /\ pc' = "loop" => r.retry = {} /\ ~r.err
         /\ pc' = "backoff" =>
              /\ r.retry # {}
              /\ \A n \in Nos(pending') : \E i \in r.retry : docs[i].no = n
              /\ \A i \in r.retry : docs[i].no \in Nos(pending')
         /\ pc' = "failed" =>
              \/ pending' = docs /\ r.err /\ r.retry = {}
              \/ r.retry # {} /\ \A i \in r.retry : docs[i].no \in Nos(pending')
<1>1. /\ docs \in Seq(Event) /\ r.retry \in SUBSET (1..Len(docs)) /\ Goes(docs, r)
  BY DEF SentAs, Numbered, Judged
<1>2. ASSUME NEW f \in Ascending(r.retry), pending' = Picked(docs, f)
      PROVE  /\ \A n \in Nos(pending') : \E i \in r.retry : docs[i].no = n
             /\ \A i \in r.retry : docs[i].no \in Nos(pending')
  <2> DEFINE q == Picked(docs, f)
  <2>1. /\ \A i \in 1..Len(q) : f[i] \in r.retry /\ q[i] = docs[f[i]]
        /\ \A x \in r.retry : \E i \in 1..Len(q) : q[i] = docs[x]
    BY <1>1, PickedIsSlice
  <2> HIDE DEF q
  <2>2. pending' = q
    BY <1>2 DEF q
  <2>3. \A n \in Nos(q) : \E i \in r.retry : docs[i].no = n
    BY <2>1 DEF Nos
  <2>4. \A x \in r.retry : docs[x].no \in Nos(q)
    BY <2>1 DEF Nos
  <2> QED
    BY <2>2, <2>3, <2>4
<1> QED
  BY <1>1, <1>2 DEF Goes

\* Where the events of a request go.
LEMMA AdmitHeld ==
  ASSUME TypeOK, NotYet, Admit
  PROVE  /\ NotYet'
         /\ \A n \in Numbers : \/ outcome'[n] = "held" /\ n \in Nos(queue') /\ outcome[n] = "none"
                               \/ outcome'[n] = outcome[n]
         /\ \A n \in Nos(queue') : n \in Nos(queue) \/ outcome'[n] = "held"
         /\ Nos(queue) \subseteq Nos(queue')
         /\ UNCHANGED <<life, pc, batch, pending, restore, ctxErr, bulkIndexed, bulkFailed>>
<1>1. PICK k \in Nat :
        /\ arrived + k <= MaxEvents
        /\ queue' = queue \o Fresh(k)
        /\ Admitted(k)
  BY AdmitAppends
<1>2. arrived \in Nat /\ MaxEvents \in Nat /\ queue \in Seq(Event) /\ arrived \in 0..MaxEvents
  BY BatcherAssumption DEF TypeOK
<1>3. /\ Fresh(k) \in Seq(Event) /\ Len(Fresh(k)) = k
      /\ \A i \in 1..k : Fresh(k)[i] = [no |-> arrived + i, id |-> 0]
  BY <1>1, <1>2, FreshIsSeq
<1>4. /\ arrived' = arrived + k
      /\ \A n \in Numbers : outcome'[n] = IF n \in arrived + 1..arrived + k THEN "held" ELSE outcome[n]
      /\ UNCHANGED <<life, pc, batch, pending, restore, ctxErr, bulkIndexed, bulkFailed>>
  BY <1>1 DEF Admitted, flushVars, counters
<1>5. Nos(queue') = Nos(queue) \cup Nos(Fresh(k))
  BY <1>1, <1>2, <1>3, ConcatNos
<1>6. Nos(Fresh(k)) = arrived + 1..arrived + k
  <2>1. ASSUME NEW n \in arrived + 1..arrived + k PROVE n \in Nos(Fresh(k))
    <3>1. n - arrived \in 1..k /\ arrived + (n - arrived) = n
      BY <1>2
    <3>2. Fresh(k)[n - arrived].no = n
      BY <1>3, <3>1
    <3> QED
      BY <1>3, <3>1, <3>2 DEF Nos
  <2>2. ASSUME NEW i \in 1..k PROVE Fresh(k)[i].no \in arrived + 1..arrived + k
    BY <1>2, <1>3
  <2> QED
    BY <1>3, <2>1, <2>2 DEF Nos
<1>7. \A n \in arrived + 1..arrived + k : n \in Numbers /\ n > arrived
  BY <1>1, <1>2 DEF Numbers
<1>8. NotYet'
  <2> SUFFICES ASSUME NEW n \in Numbers, n > arrived + k PROVE outcome'[n] = "none"
    BY <1>4 DEF NotYet
  <2>1. n > arrived /\ n \notin arrived + 1..arrived + k
    BY <1>2 DEF Numbers
  <2> QED
    BY <1>4, <2>1 DEF NotYet
<1>9. \A n \in Numbers : \/ outcome'[n] = "held" /\ n \in Nos(queue') /\ outcome[n] = "none"
                         \/ outcome'[n] = outcome[n]
  BY <1>4, <1>5, <1>6, <1>7 DEF NotYet
<1>10. \A n \in Nos(queue') : n \in Nos(queue) \/ outcome'[n] = "held"
  BY <1>4, <1>5, <1>6, <1>7
<1> QED
  BY <1>4, <1>5, <1>8, <1>9, <1>10

\* The steps of the goroutine around a flush that move no event.
Idle ==
  \/ Run \/ SelectDone \/ SelectTick \/ SelectNotify \/ Notified \/ LoopEnds
  \/ (\E expired \in BOOLEAN : Drain(expired)) \/ IndexLate \/ UNCHANGED vars

LEMMA IdleKeeps ==
  ASSUME Control, Idle
  PROVE  /\ UNCHANGED <<queue, batch, pending, restore, arrived, outcome, bulkIndexed, bulkFailed>>
         /\ \/ UNCHANGED <<pc, life, ctxErr>>
            \/ /\ pc \notin {"send", "backoff", "failed"} /\ pc' \notin {"send", "backoff", "failed"}
               /\ \/ life' = life /\ ctxErr' = ctxErr
                  \/ life = "created" /\ life' = "running" /\ ctxErr' = ctxErr
                  \/ life' \in {"returned", "draining", "drained"}
<1> USE DEF queueVars, flushVars, counters, external
<1>1. CASE Run \/ SelectDone
  BY <1>1 DEF Run, SelectDone, Return, Selecting, Control
<1>2. CASE SelectTick \/ SelectNotify \/ Notified
  BY <1>2 DEF SelectTick, SelectNotify, Selecting, Notified, NotifiedWith, StartLoop, Q!Receive
<1>3. CASE LoopEnds
  BY <1>3 DEF LoopEnds, LoopReturns, Control
<1>4. ASSUME NEW expired \in BOOLEAN, Drain(expired)
      PROVE  /\ UNCHANGED <<queue, batch, pending, restore, arrived, outcome, bulkIndexed, bulkFailed>>
             /\ pc \notin {"send", "backoff", "failed"} /\ pc' \notin {"send", "backoff", "failed"}
             /\ life' = "draining"
  BY <1>4 DEF Drain, Control
<1>5. CASE IndexLate \/ UNCHANGED vars
  BY <1>5 DEF IndexLate, vars
<1> QED
  BY <1>1, <1>2, <1>3, <1>4, <1>5 DEF Idle

LEMMA NextCases ==
  ASSUME [Next]_vars
  PROVE  \/ Admit \/ LoopFlushes \/ SendReturns \/ BackoffTimer \/ BackoffCancelled
         \/ FlushRestores \/ FlushDiscards \/ Cancel \/ Idle
BY DEF Next, BatcherStep, Idle

LEMMA StepHeld ==
  ASSUME TypeOK, Control, Line, NothingVanishes, NotYet, [Next]_vars
  PROVE  NothingVanishes' /\ NotYet'
<1> USE DEF queueVars, flushVars, counters, external
<1>1. CASE Admit
  <2>1. InFlight' = InFlight
    BY <1>1, AdmitHeld DEF InFlight
  <2> QED
    BY <1>1, <2>1, AdmitHeld DEF NothingVanishes
<1>2. CASE LoopFlushes
  <2>1. PICK n \in 0..Len(queue) :
          /\ batch' \in Seq(Event) /\ Len(batch') = n
          /\ \A i \in 1..n : batch'[i] = queue[i]
          /\ queue' \in Seq(Event) /\ Len(queue') = Len(queue) - n
          /\ \A i \in 1..(Len(queue) - n) : queue'[i] = queue[n + i]
    BY <1>2, DrainSplits
  <2>2. Len(queue) \in Nat
    BY LenProperties DEF TypeOK
  <2>3. Nos(queue) \subseteq Nos(batch') \cup Nos(queue')
    <3> SUFFICES ASSUME NEW i \in 1..Len(queue) PROVE queue[i].no \in Nos(batch') \cup Nos(queue')
      BY DEF Nos
    <3>1. CASE i <= n
      BY <2>1, <2>2, <3>1 DEF Nos
    <3>2. CASE i > n
      <4>1. i - n \in 1..(Len(queue) - n) /\ n + (i - n) = i
        BY <2>1, <2>2, <3>2
      <4>2. queue'[i - n] = queue[i] /\ i - n \in 1..Len(queue')
        BY <2>1, <4>1
      <4> QED
        BY <4>2 DEF Nos
    <3> QED
      BY <2>1, <2>2, <3>1, <3>2
  <2>4. InFlight = <<>> /\ InFlight' = batch' /\ outcome' = outcome /\ arrived' = arrived
    BY <1>2 DEF LoopFlushes, InFlight
  <2>5. Nos(<<>>) = {}
    BY DEF Nos
  <2> QED
    BY <2>3, <2>4, <2>5 DEF NothingVanishes, NotYet
<1>3. CASE SendReturns
  <2>1. PICK reply \in Replies(Len(pending)) :
          SentAs(BuildBulkPayload(pending, reply.sent), reply, Send(Len(pending), reply))
    BY <1>3, SendFlattened
  <2> DEFINE docs == BuildBulkPayload(pending, reply.sent)
             r == Send(Len(pending), reply)
  <2>2. SentAs(docs, reply, r)
    BY <2>1
  <2> HIDE DEF docs, r
  <2>3. /\ queue' = queue /\ arrived' = arrived /\ ctxErr' = ctxErr /\ pc = "send"
        /\ pc' \in {"loop", "failed", "backoff"} /\ Judged(Len(docs), reply, r)
        /\ \A i \in 1..Len(pending) : docs[i].no = pending[i].no
        /\ Len(docs) = Len(pending)
    BY <2>2 DEF SentAs, Goes, Numbered
  <2>4. NotYet'
    <3> SUFFICES ASSUME NEW n \in Numbers, n > arrived PROVE outcome'[n] = outcome[n]
      BY <2>3 DEF NotYet
    <3>1. \A i \in 1..Len(docs) : docs[i].no # n
      <4>1. \A i \in 1..Len(docs) : docs[i].no <= arrived /\ docs[i].no \in Numbers
        BY <2>2, <2>3, SendVerdicts DEF Line, Ahead, Known
      <4> QED
        BY <4>1 DEF Numbers, TypeOK
    <3> QED
      BY <2>2, <3>1, SendVerdicts
  <2>5. ASSUME NEW n \in Numbers, outcome'[n] = "held"
        PROVE  n \in Nos(queue') \cup Nos(InFlight')
    <3>1. outcome[n] = "held" /\ (~\E i \in r.indexed : docs[i].no = n) /\ ~\E i \in Lost(r) : docs[i].no = n
      BY <2>2, <2>5, SendVerdicts
    <3>2. n \in Nos(queue) \/ n \in Nos(pending)
      BY <2>3, <3>1 DEF NothingVanishes, InFlight
    <3>3. CASE n \in Nos(pending)
      <4>1. PICK i \in 1..Len(docs) : docs[i].no = n
        BY <2>3, <3>3 DEF Nos
      <4>2. i \notin r.indexed /\ i \notin r.failed
        BY <3>1, <4>1 DEF Lost
      <4>3. pc' # "loop" /\ n \in Nos(pending')
        <5>1. CASE r.retry = {} /\ r.err
          <6>1. pc' = "failed" /\ pending' = docs
            BY <2>2, <2>3, <5>1, SendKeeps
          <6> QED
            BY <4>1, <6>1 DEF Nos
        <5>2. CASE i \in r.retry
          BY <2>2, <2>3, <4>1, <5>2, SendKeeps
        <5> QED
          BY <2>3, <4>2, <5>1, <5>2 DEF Judged
      <4>4. pc' = "failed" => Nos(pending') \subseteq Nos(restore')
        BY <2>1, SendLine DEF Line
      <4> QED
        BY <2>3, <4>3, <4>4 DEF InFlight
    <3> QED
      BY <2>3, <3>2, <3>3
  <2> QED
    BY <2>4, <2>5 DEF NothingVanishes
<1>4. CASE BackoffTimer
  <2>1. InFlight' = InFlight /\ queue' = queue /\ outcome' = outcome /\ arrived' = arrived
    BY <1>4 DEF BackoffTimer, InFlight
  <2> QED
    BY <2>1 DEF NothingVanishes, NotYet
<1>5. CASE BackoffCancelled
  <2>1. InFlight' = InFlight /\ queue' = queue /\ outcome' = outcome /\ arrived' = arrived
    BY <1>5 DEF BackoffCancelled, AbandonBackoff, InFlight
  <2> QED
    BY <2>1 DEF NothingVanishes, NotYet
<1>6. CASE FlushRestores
  <2>1. /\ InFlight = restore /\ queue' = restore \o queue /\ outcome' = outcome /\ arrived' = arrived
    BY <1>6 DEF FlushRestores, FlushReturns, Q!Prepend, InFlight
  <2>2. Nos(queue') = Nos(restore) \cup Nos(queue)
    BY <2>1, ConcatNos DEF TypeOK
  <2> QED
    BY <2>1, <2>2 DEF NothingVanishes, NotYet
<1>7. CASE FlushDiscards
  <2>1. /\ InFlight = pending /\ queue' = queue /\ arrived' = arrived
        /\ outcome' = [n \in Numbers |-> IF n \in Nos(pending) /\ outcome[n] = "held"
                                           THEN "discarded" ELSE outcome[n]]
    BY <1>7 DEF FlushDiscards, FlushReturns, InFlight
  <2> QED
    BY <2>1 DEF NothingVanishes, NotYet
<1>8. CASE Cancel
  <2>1. /\ ~ctxErr /\ ctxErr' /\ queue' = queue /\ outcome' = outcome /\ arrived' = arrived
        /\ pc' = pc /\ pending' = pending /\ restore' = restore
    BY <1>8 DEF Cancel
  <2>2. Nos(InFlight) \subseteq Nos(InFlight')
    <3>1. CASE pc = "failed"
      BY <2>1, <3>1 DEF InFlight, Line
    <3>2. CASE pc # "failed"
      BY <2>1, <3>2 DEF InFlight
    <3> QED
      BY <3>1, <3>2
  <2> QED
    BY <2>1, <2>2 DEF NothingVanishes, NotYet
<1>9. CASE Idle
  <2>1. /\ InFlight' = InFlight /\ queue' = queue /\ outcome' = outcome /\ arrived' = arrived
    BY <1>9, IdleKeeps DEF InFlight
  <2> QED
    BY <2>1 DEF NothingVanishes, NotYet
<1> QED
  BY <1>1, <1>2, <1>3, <1>4, <1>5, <1>6, <1>7, <1>8, <1>9, NextCases

\* Every part of the batcher's safety, as one inductive invariant.
Safe ==
  /\ TypeOK /\ Control /\ Line /\ Drawn /\ NothingVanishes /\ NotYet

LEMMA SafeInvariant == Spec => []Safe
<1>1. Init => Safe
  <2> SUFFICES ASSUME Init PROVE NothingVanishes /\ NotYet
    BY InitTypes, InitLine DEF Safe
  <2>1. outcome = [n \in Numbers |-> "none"]
    BY DEF Init
  <2> QED
    BY <2>1 DEF NothingVanishes, NotYet
<1>2. Safe /\ [Next]_vars => Safe'
  BY StepTypes, StepLine, StepHeld DEF Safe
<1> QED
  BY <1>1, <1>2, PTL DEF Spec

\* No event vanishes: one that was accepted and has no verdict is in the queue or in the
\* slice the batcher works on, whatever is retried, cancelled, restored or cancelled late.
THEOREM NoneVanishes == Spec => []NothingVanishes
<1>1. Safe => NothingVanishes
  BY DEF Safe
<1> QED
  BY <1>1, SafeInvariant, PTL

\* First come, first served, and each event once: retries, partial verdicts and restored
\* batches keep the line in strict order of arrival.
THEOREM InOrder == Spec => []ArrivalOrder
<1>1. Safe => ArrivalOrder
  <2> SUFFICES ASSUME TypeOK, Line PROVE ArrivalOrder
    BY DEF Safe
  <2>1. /\ InFlight \in Seq(Event) /\ queue \in Seq(Event)
        /\ Sorted(InFlight) /\ Sorted(queue) /\ Before(InFlight, queue)
    BY FlightAhead DEF Ahead, Line, TypeOK
  <2>2. Sorted(InFlight \o queue)
    BY <2>1, ConcatSorted
  <2> QED
    BY <2>2 DEF Sorted, ArrivalOrder
<1> QED
  BY <1>1, SafeInvariant, PTL

\* A retry is idempotent: EnsureDocumentID draws one id for an event and every copy of it
\* carries that id, so Elasticsearch never holds two documents for one event.
THEOREM Idempotent == Spec => []StoredOnce
<1>1. Safe => StoredOnce
  <2> SUFFICES ASSUME TypeOK, Drawn,
                      NEW d \in stored \cup wire, NEW e \in stored \cup wire, d.no = e.no
               PROVE  d = e
    BY DEF StoredOnce, Safe
  <2>1. d \in Event /\ e \in Event
    BY DEF TypeOK
  <2>2. d.id = e.id
    BY DEF Drawn
  <2> QED
    BY <2>1, <2>2 DEF Event
<1> QED
  BY <1>1, SafeInvariant, PTL

-----------------------------------------------------------------------------
\* Verdicts and counters under a live context.

Live == life \in {"created", "running"} /\ ~ctxErr

LEMMA StepFinal ==
  ASSUME Safe, VerdictFinal, [Next]_vars
  PROVE  VerdictFinal'
<1> USE DEF queueVars, flushVars, counters, external
<1> SUFFICES ASSUME Live'
             PROVE  /\ \A n \in Nos(queue') : outcome'[n] = "held"
                    /\ pc' \in {"send", "backoff"} => \A n \in Nos(pending') : outcome'[n] = "held"
  <2>1. Nos(<<>>) = {}
    BY DEF Nos
  <2>2. pc' \notin {"send", "backoff", "failed"} => InFlight' = <<>>
    BY DEF InFlight
  <2>3. pc' \in {"send", "backoff"} => InFlight' = pending'
    BY DEF InFlight
  <2> QED
    BY <2>1, <2>2, <2>3 DEF VerdictFinal, Live
<1>1. Live => /\ \A n \in Nos(queue) : outcome[n] = "held"
              /\ pc \in {"send", "backoff"} => \A n \in Nos(pending) : outcome[n] = "held"
  BY DEF VerdictFinal, Live, InFlight
<1>2. TypeOK /\ Control /\ Line /\ NotYet
  BY DEF Safe
<1>3. \A n \in Nos(queue) : n \in Numbers
  <2>1. \A i \in 1..Len(queue) : queue[i] \in Event
    BY <1>2, ElementOfSeq DEF TypeOK
  <2> QED
    BY <2>1 DEF Nos, Event
<1>4. pc \in {"send", "failed"} => \A n \in Nos(queue) : n \notin Nos(pending)
  <2> SUFFICES ASSUME pc \in {"send", "failed"},
                      NEW i \in 1..Len(pending), NEW j \in 1..Len(queue)
               PROVE  pending[i].no # queue[j].no
    BY DEF Nos
  <2>1. pending[i] \in Event /\ queue[j] \in Event
    BY <1>2, ElementOfSeq DEF TypeOK
  <2>2. pending[i].no < queue[j].no
    BY <1>2 DEF Line, Ahead, Before
  <2> QED
    BY <2>1, <2>2 DEF Event, Numbers
<1>5. CASE Admit
  <2>1. Live /\ pc' = pc /\ pending' = pending
    BY <1>2, <1>5, AdmitHeld DEF Live
  <2>2. \A n \in Numbers : outcome[n] = "held" => outcome'[n] = "held"
    BY <1>2, <1>5, AdmitHeld
  <2>3. pc \in {"send", "backoff"} => \A n \in Nos(pending) : n \in Numbers
    <3>1. \A i \in 1..Len(pending) : pending[i] \in Event
      BY <1>2, ElementOfSeq DEF TypeOK
    <3> QED
      BY <3>1 DEF Nos, Event
  <2>4. \A n \in Nos(queue') : n \in Nos(queue) \/ outcome'[n] = "held"
    BY <1>2, <1>5, AdmitHeld
  <2> QED
    BY <1>1, <1>3, <2>1, <2>2, <2>3, <2>4
<1>6. CASE LoopFlushes
  <2>1. Live /\ outcome' = outcome /\ pending' = batch'
    BY <1>6 DEF LoopFlushes, Live
  <2>2. PICK n \in 0..Len(queue) :
          /\ Len(batch') = n /\ \A i \in 1..n : batch'[i] = queue[i]
          /\ Len(queue') = Len(queue) - n
          /\ \A i \in 1..(Len(queue) - n) : queue'[i] = queue[n + i]
    BY <1>2, <1>6, DrainSplits
  <2>3. Len(queue) \in Nat
    BY <1>2, LenProperties DEF TypeOK
  <2>4. \A i \in 1..Len(batch') : i \in 1..Len(queue) /\ batch'[i] = queue[i]
    BY <2>2, <2>3
  <2>5. \A i \in 1..Len(queue') : n + i \in 1..Len(queue) /\ queue'[i] = queue[n + i]
    BY <2>2, <2>3
  <2>6. Nos(batch') \subseteq Nos(queue) /\ Nos(queue') \subseteq Nos(queue)
    BY <2>4, <2>5 DEF Nos
  <2> QED
    BY <1>1, <2>1, <2>6
<1>7. CASE SendReturns
  <2>1. PICK reply \in Replies(Len(pending)) :
          SentAs(BuildBulkPayload(pending, reply.sent), reply, Send(Len(pending), reply))
    BY <1>2, <1>7, SendFlattened
  <2> DEFINE docs == BuildBulkPayload(pending, reply.sent)
             r == Send(Len(pending), reply)
  <2>2. SentAs(docs, reply, r)
    BY <2>1
  <2> HIDE DEF docs, r
  <2>3. /\ Live /\ pc = "send" /\ pc' \in {"loop", "failed", "backoff"} /\ queue' = queue
        /\ Judged(Len(docs), reply, r)
    BY <2>2 DEF SentAs, Goes, Live, Numbered
  <2>4. ASSUME NEW n \in Nos(queue) PROVE outcome'[n] = "held"
    <3>1. n \in Numbers /\ n \notin Nos(pending) /\ outcome[n] = "held"
      BY <1>1, <1>3, <1>4, <2>3
    <3> QED
      BY <1>2, <2>2, <3>1, SendVerdicts
  <2>5. ASSUME pc' = "backoff", NEW n \in Nos(pending') PROVE outcome'[n] = "held"
    <3>1. PICK j \in r.retry : docs[j].no = n
      BY <1>2, <2>2, <2>5, SendKeeps
    <3>2. /\ j \in 1..Len(docs) /\ j \notin r.indexed /\ j \notin Lost(r)
      BY <2>3, <2>5 DEF Judged, Lost
    <3>3. n \in Numbers /\ n \in Nos(pending)
      BY <1>2, <2>2, <3>1, <3>2, SendVerdicts
    <3>4. (~\E i \in r.indexed : docs[i].no = n) /\ ~\E i \in Lost(r) : docs[i].no = n
      BY <1>2, <2>2, <3>1, <3>2, SendVerdicts
    <3>5. outcome'[n] = outcome[n]
      BY <1>2, <2>2, <3>3, <3>4, SendVerdicts
    <3> QED
      BY <1>1, <2>3, <3>3, <3>5
  <2> QED
    BY <2>3, <2>4, <2>5
<1>8. CASE BackoffTimer
  BY <1>1, <1>8 DEF BackoffTimer, Live
<1>9. CASE BackoffCancelled \/ FlushRestores \/ Cancel
  <2>1. CASE Cancel
    BY <2>1 DEF Cancel, Live
  <2>2. CASE BackoffCancelled \/ FlushRestores
    <3>1. ctxErr /\ ctxErr' = ctxErr
      BY <2>2 DEF BackoffCancelled, AbandonBackoff, FlushRestores, FlushReturns
    <3> QED
      BY <3>1, Zenon DEF Live
  <2> QED
    BY <1>9, <2>1, <2>2
<1>10. CASE FlushDiscards
  <2>1. /\ pc = "failed" /\ pc' = "select" /\ queue' = queue /\ Live
        /\ outcome' = [n \in Numbers |-> IF n \in Nos(pending) /\ outcome[n] = "held"
                                           THEN "discarded" ELSE outcome[n]]
    BY <1>10 DEF FlushDiscards, FlushReturns, LoopReturns, Live
  <2> QED
    BY <1>1, <1>3, <1>4, <2>1
<1>11. CASE Idle
  <2>1. /\ Live /\ queue' = queue /\ pending' = pending /\ outcome' = outcome
        /\ pc' \in {"send", "backoff"} => pc' = pc
    BY <1>2, <1>11, IdleKeeps DEF Live
  <2> QED
    BY <1>1, <2>1
<1> QED
  BY <1>5, <1>6, <1>7, <1>8, <1>9, <1>10, <1>11, NextCases

\* While the batcher's context is live a verdict is final: what was counted as indexed or
\* failed is in no slice that is sent again.
THEOREM FinalVerdict == Spec => []VerdictFinal
<1>1. Init => VerdictFinal
  <2> SUFFICES ASSUME Init PROVE VerdictFinal
    OBVIOUS
  <2>1. queue = <<>> /\ pc = "select"
    BY DEF Init, Q!Init
  <2>2. Nos(<<>>) = {}
    BY DEF Nos
  <2> QED
    BY <2>1, <2>2 DEF VerdictFinal, InFlight
<1>2. Safe /\ VerdictFinal /\ [Next]_vars => VerdictFinal'
  BY StepFinal
<1> QED
  BY <1>1, <1>2, SafeInvariant, PTL DEF Spec

Distinct(docs, m) == \A i, j \in 1..m : docs[i].no = docs[j].no => i = j

\* D is the set of numbers at the positions S.
NumbersAt(docs, S, D) ==
  /\ \A i \in S : docs[i].no \in D
  /\ \A d \in D : \E i \in S : docs[i].no = d

\* Distinct numbers are as many as the positions they stand at.
LEMMA NumbersCounted ==
  ASSUME NEW docs, NEW m \in Nat, NEW S \in SUBSET (1..m), NEW D,
         Distinct(docs, m), NumbersAt(docs, S, D)
  PROVE  IsFiniteSet(D) /\ Cardinality(D) = Cardinality(S)
<1> DEFINE f == [i \in S |-> docs[i].no]
<1>1. IsFiniteSet(S)
  BY CountOfPositions
<1>2. f \in Surjection(S, D)
  BY DEF Surjection, NumbersAt
<1>3. f \in Injection(S, D)
  BY DEF Injection, IsInjective, Distinct, NumbersAt
<1> HIDE DEF f
<1> QED
  BY <1>1, <1>2, <1>3, FS_Surjection

Having(verdict) == {n \in Numbers : outcome[n] = verdict}

\* A verdict given to the events at positions S adds as many to those that have it.
LEMMA VerdictCounted ==
  ASSUME NEW docs, NEW m \in Nat, NEW S \in SUBSET (1..m), NEW D, NEW A \in SUBSET Numbers,
         Distinct(docs, m), NumbersAt(docs, S, D), A \cap D = {}
  PROVE  Cardinality(A \cup D) = Cardinality(A) + Cardinality(S)
<1>1. IsFiniteSet(D) /\ Cardinality(D) = Cardinality(S)
  BY NumbersCounted
<1>2. IsFiniteSet(A) /\ Cardinality(A) \in Nat
  BY BatcherAssumption, CountOfPositions DEF Numbers
<1>3. Cardinality(A \cup D) = Cardinality(A) + Cardinality(D) - Cardinality(A \cap D)
  BY <1>1, <1>2, FS_Union
<1>4. Cardinality(A \cap D) = 0
  BY FS_EmptySet
<1>5. Cardinality(D) \in Nat
  BY <1>1, FS_CardinalityType
<1> QED
  BY <1>1, <1>2, <1>3, <1>4, <1>5

LEMMA StepExact ==
  ASSUME Safe, VerdictFinal, CountersExact, [Next]_vars
  PROVE  CountersExact'
<1> USE DEF queueVars, flushVars, counters, external
<1> SUFFICES ASSUME Live'
             PROVE  /\ bulkIndexed' = Cardinality(Having("indexed")')
                    /\ bulkFailed' = Cardinality(Having("failed")')
  BY DEF CountersExact, Live, Having
<1>1. Live => /\ bulkIndexed = Cardinality(Having("indexed"))
              /\ bulkFailed = Cardinality(Having("failed"))
  BY DEF CountersExact, Live, Having
<1>2. TypeOK /\ Control /\ Line /\ NotYet
  BY DEF Safe
<1>3. ASSUME Live, bulkIndexed' = bulkIndexed, bulkFailed' = bulkFailed,
             Having("indexed")' = Having("indexed"), Having("failed")' = Having("failed")
      PROVE  /\ bulkIndexed' = Cardinality(Having("indexed")')
             /\ bulkFailed' = Cardinality(Having("failed")')
  BY <1>1, <1>3
<1>4. CASE Admit
  <2>1. Live /\ bulkIndexed' = bulkIndexed /\ bulkFailed' = bulkFailed
    BY <1>2, <1>4, AdmitHeld DEF Live
  <2>2. \A n \in Numbers : outcome'[n] = outcome[n] \/ (outcome'[n] = "held" /\ outcome[n] = "none")
    BY <1>2, <1>4, AdmitHeld
  <2>3. Having("indexed")' = Having("indexed") /\ Having("failed")' = Having("failed")
    BY <2>2 DEF Having
  <2> QED
    BY <1>3, <2>1, <2>3
<1>5. CASE LoopFlushes \/ BackoffTimer
  <2>1. Live /\ bulkIndexed' = bulkIndexed /\ bulkFailed' = bulkFailed /\ outcome' = outcome
    BY <1>5 DEF LoopFlushes, BackoffTimer, Live
  <2> QED
    BY <1>3, <2>1 DEF Having
<1>6. CASE SendReturns
  <2>1. PICK reply \in Replies(Len(pending)) :
          SentAs(BuildBulkPayload(pending, reply.sent), reply, Send(Len(pending), reply))
    BY <1>2, <1>6, SendFlattened
  <2> DEFINE docs == BuildBulkPayload(pending, reply.sent)
             r == Send(Len(pending), reply)
             m == Len(docs)
             I == {docs[i].no : i \in r.indexed}
             F == {docs[i].no : i \in Lost(r)}
  <2>2. SentAs(docs, reply, r)
    BY <2>1
  <2> HIDE DEF docs, r
  <2>3. /\ Live /\ pc = "send" /\ AddBulk(Cardinality(r.indexed), Cardinality(Lost(r)))
    BY <2>2 DEF SentAs, Live
  <2>4. /\ m \in Nat /\ r.indexed \in SUBSET (1..m) /\ Lost(r) \in SUBSET (1..m)
        /\ \A i, j \in 1..m : docs[i].no = docs[j].no => i = j
        /\ \A i \in Lost(r) : i \notin r.indexed
        /\ \A i \in 1..m : docs[i].no \in Numbers /\ docs[i].no \in Nos(pending)
        /\ \A i \in r.indexed : outcome'[docs[i].no] = "indexed"
        /\ \A i \in Lost(r) : outcome'[docs[i].no] = "failed"
    BY <1>2, <2>2, SendVerdicts
  <2>5. \A n \in Numbers : n \in I \/ n \in F \/ outcome'[n] = outcome[n]
    BY <1>2, <2>2, SendVerdicts
  <2>6. \A i \in 1..m : outcome[docs[i].no] = "held"
    BY <2>3, <2>4 DEF VerdictFinal, Live, InFlight
  <2> HIDE DEF m
  <2>7. Having("indexed")' = Having("indexed") \cup I
    BY <2>4, <2>5, <2>6 DEF Having
  <2>8. Having("failed")' = Having("failed") \cup F
    BY <2>4, <2>5, <2>6 DEF Having
  <2>9. /\ Having("indexed") \in SUBSET Numbers /\ Having("failed") \in SUBSET Numbers
        /\ Having("indexed") \cap I = {} /\ Having("failed") \cap F = {}
        /\ NumbersAt(docs, r.indexed, I) /\ NumbersAt(docs, Lost(r), F) /\ Distinct(docs, m)
    BY <2>4, <2>6 DEF Having, NumbersAt, Distinct
  <2> HIDE DEF I, F
  <2>10. Cardinality(Having("indexed") \cup I) = Cardinality(Having("indexed")) + Cardinality(r.indexed)
    BY <2>4, <2>9, VerdictCounted
  <2>11. Cardinality(Having("failed") \cup F) = Cardinality(Having("failed")) + Cardinality(Lost(r))
    BY <2>4, <2>9, VerdictCounted
  <2> QED
    BY <1>1, <2>3, <2>7, <2>8, <2>10, <2>11 DEF AddBulk
<1>7. CASE FlushDiscards
  <2>1. /\ Live /\ bulkIndexed' = bulkIndexed /\ bulkFailed' = bulkFailed
        /\ outcome' = [n \in Numbers |-> IF n \in Nos(pending) /\ outcome[n] = "held"
                                           THEN "discarded" ELSE outcome[n]]
    BY <1>7 DEF FlushDiscards, FlushReturns, LoopReturns, Live
  <2>2. \A n \in Numbers : outcome'[n] = outcome[n] \/ (outcome'[n] = "discarded" /\ outcome[n] = "held")
    BY <2>1
  <2>3. Having("indexed")' = Having("indexed") /\ Having("failed")' = Having("failed")
    BY <2>2 DEF Having
  <2> QED
    BY <1>3, <2>1, <2>3
<1>8. CASE Cancel
  BY <1>8 DEF Cancel, Live
<1>9. CASE BackoffCancelled \/ FlushRestores
  <2>1. ctxErr /\ ctxErr' = ctxErr
    BY <1>9 DEF BackoffCancelled, AbandonBackoff, FlushRestores, FlushReturns
  <2> QED
    BY <2>1, Zenon DEF Live
<1>10. CASE Idle
  <2>1. Live /\ bulkIndexed' = bulkIndexed /\ bulkFailed' = bulkFailed /\ outcome' = outcome
    BY <1>2, <1>10, IdleKeeps DEF Live
  <2> QED
    BY <1>3, <2>1 DEF Having
<1> QED
  BY <1>4, <1>5, <1>6, <1>7, <1>8, <1>9, <1>10, NextCases

\* While the batcher's context is live the metrics are exact: every event is counted once,
\* as indexed or as failed, over all attempts of its batch.
THEOREM ExactCounters == Spec => []CountersExact
<1>1. Init => CountersExact
  <2> SUFFICES ASSUME Init PROVE CountersExact
    OBVIOUS
  <2>1. {n \in Numbers : outcome[n] = "indexed"} = {} /\ {n \in Numbers : outcome[n] = "failed"} = {}
    BY DEF Init
  <2>2. Cardinality({}) = 0
    BY FS_EmptySet
  <2> QED
    BY <2>1, <2>2 DEF Init, CountersExact
<1>2. Safe /\ VerdictFinal /\ CountersExact /\ [Next]_vars => CountersExact'
  BY StepExact
<1> QED
  BY <1>1, <1>2, SafeInvariant, FinalVerdict, PTL DEF Spec

-----------------------------------------------------------------------------
\* How much a flush holds.

Sizes ==
  /\ pc \in {"send", "backoff", "failed"} =>
       Len(batch) <= MaxBatchSize /\ Len(pending) <= Len(batch)
  /\ pc = "failed" => Len(restore) <= Len(batch)

LEMMA StepSizes ==
  ASSUME Safe, Sizes, [Next]_vars
  PROVE  Sizes'
<1> USE DEF queueVars, flushVars, counters, external
<1>1. TypeOK /\ Control /\ Line /\ NotYet
  BY DEF Safe
<1>2. Len(batch) \in Nat /\ Len(pending) \in Nat /\ Len(queue) \in Nat
  BY <1>1, LenProperties DEF TypeOK
<1>3. CASE Admit
  <2>1. UNCHANGED <<pc, batch, pending, restore>>
    BY <1>1, <1>3, AdmitHeld
  <2> QED
    BY <2>1 DEF Sizes
<1>4. CASE LoopFlushes
  <2>1. PICK n \in 0..Len(queue) : n <= MaxBatchSize /\ Len(batch') = n
    BY <1>1, <1>4, DrainSplits
  <2>2. pending' = batch' /\ pc' = "send"
    BY <1>4 DEF LoopFlushes
  <2> QED
    BY <1>2, <2>1, <2>2 DEF Sizes
<1>5. CASE SendReturns
  <2>1. PICK reply \in Replies(Len(pending)) :
          SentAs(BuildBulkPayload(pending, reply.sent), reply, Send(Len(pending), reply))
    BY <1>1, <1>5, SendFlattened
  <2> DEFINE docs == BuildBulkPayload(pending, reply.sent)
             r == Send(Len(pending), reply)
  <2>2. SentAs(docs, reply, r)
    BY <2>1
  <2> HIDE DEF docs, r
  <2>3. /\ docs \in Seq(Event) /\ Len(docs) = Len(pending) /\ Goes(docs, r) /\ pc = "send"
        /\ r.retry \in SUBSET (1..Len(docs)) /\ batch' = Aliased(docs)
    BY <2>2 DEF SentAs, Numbered, Judged, Exchange
  <2>4. Len(batch') = Len(batch)
    <3>1. attempt = 0 => pending = batch
      BY <1>1, <2>3 DEF Line
    <3> QED
      BY <2>3, <3>1 DEF Aliased
  <2>5. \A f \in Ascending(r.retry) : Len(Picked(docs, f)) <= Len(docs)
    BY <2>3, PickedIsSlice
  <2>6. Len(docs) <= Len(batch) /\ Len(batch) <= MaxBatchSize
    BY <2>3 DEF Sizes
  <2>7. CASE pc' = "loop"
    BY <2>7 DEF Sizes
  <2>8. CASE pc' \in {"failed", "backoff"}
    <3>1. pending' = docs \/ \E f \in Ascending(r.retry) : pending' = Picked(docs, f)
      BY <2>3, <2>8 DEF Goes
    <3>2. Len(pending') \in Nat
      <4>1. pending' \in Seq(Event)
        BY <1>1, <2>2, SendTypes DEF TypeOK
      <4> QED
        BY <4>1, LenProperties
    <3>3. Len(pending') <= Len(docs)
      BY <1>2, <2>3, <2>5, <3>1
    <3>4. Len(pending') <= Len(batch)
      BY <1>2, <2>3, <2>6, <3>2, <3>3
    <3>5. pc' = "failed" => restore' = docs \/ restore' = pending' \/ restore' = batch'
      BY <2>3 DEF Goes
    <3> QED
      BY <1>2, <2>3, <2>4, <2>6, <2>8, <3>4, <3>5 DEF Sizes
  <2> QED
    BY <2>3, <2>7, <2>8 DEF Goes
<1>6. CASE BackoffTimer \/ Cancel
  BY <1>6 DEF BackoffTimer, Cancel, Sizes
<1>7. CASE BackoffCancelled
  BY <1>7 DEF BackoffCancelled, AbandonBackoff, Sizes
<1>8. CASE FlushRestores \/ FlushDiscards
  BY <1>8 DEF FlushRestores, FlushDiscards, FlushReturns, LoopReturns, Sizes
<1>9. CASE Idle
  <2>1. /\ UNCHANGED <<batch, pending, restore>>
        /\ pc' = pc \/ pc' \notin {"send", "backoff", "failed"}
    BY <1>1, <1>9, IdleKeeps
  <2> QED
    BY <2>1 DEF Sizes
<1> QED
  BY <1>3, <1>4, <1>5, <1>6, <1>7, <1>8, <1>9, NextCases

LEMMA SizesInvariant == Spec => []Sizes
<1>1. Init => Sizes
  BY DEF Init, Sizes
<1>2. Safe /\ Sizes /\ [Next]_vars => Sizes'
  BY StepSizes
<1> QED
  BY <1>1, <1>2, SafeInvariant, PTL DEF Spec
=============================================================================
