------------------------------- MODULE Elastic -------------------------------
(***************************************************************************)
(* One bulk request of internal/elastic/client.go, as the batcher sees it. *)
(* A batch is known by its positions 1..n: Send maps the reply to a bulk   *)
(* request to the positions it reports as indexed and failed, the ones     *)
(* the caller has to send again and whether it returns an error.           *)
(*                                                                         *)
(* Elasticsearch itself is external: Truthful and Stores say what a reply  *)
(* to `create` operations tells about the documents it stores.             *)
(***************************************************************************)
EXTENDS Integers, Sequences

CONSTANTS HttpStatuses,  \* the error statuses a bulk request may get
          ItemStatuses   \* the statuses an item of a bulk response may carry

\* HttpStatuses are the ones from 400 up: redirects are followed by the HTTP
\* client and what is below 400 is judged by its body.
ASSUME ElasticAssumption ==
  /\ HttpStatuses \subseteq 400..599
  /\ ItemStatuses \subseteq 0..599

\* What may come back for a request with n documents: the request was never
\* built (`sent` ids were drawn before it failed), the connection failed, an
\* error status, a body that is no JSON, a response without errors, or one
\* whose items may be too few.
Reply(kind, status, sent, items) ==
  [kind |-> kind, status |-> status, sent |-> sent, items |-> items]

Replies(n) ==
       {Reply("unsent", 0, k, <<>>) : k \in 0..n}
  \cup {Reply(kind, 0, n, <<>>) : kind \in {"transport", "undecodable", "created"}}
  \cup {Reply("status", s, n, <<>>) : s \in HttpStatuses}
  \cup {Reply("items", 200, n, items) : items \in {<<>>} \cup [1..n -> ItemStatuses]}

isRetryableStatus(status) == status = 408 \/ status = 429 \/ status >= 500

\* A slip: every status not worth a retry passes for success.
isSettledStatus(status) == ~isRetryableStatus(status)

isIndexedStatus(status) == status \in 200..299 \/ status = 409

\* The reply leaves the fate of every document open: Send asks for the whole
\* batch again.
Ambiguous(n, reply) ==
  \/ reply.kind \in {"transport", "undecodable"}
  \/ reply.kind = "status" /\ isRetryableStatus(reply.status)
  \/ /\ reply.kind = "items"
     /\ Len(reply.items) # n \/ \E i \in 1..Len(reply.items) : reply.items[i] = 0

\* The reply judges each document separately.
PerItem(n, reply) == reply.kind = "items" /\ ~Ambiguous(n, reply)

IndexedAt(n, reply) ==
  IF reply.kind = "created" THEN 1..n
  ELSE {i \in 1..n : PerItem(n, reply) /\ isIndexedStatus(reply.items[i])}

RetryAt(n, reply) ==
  IF Ambiguous(n, reply) THEN 1..n
  ELSE {i \in 1..n : PerItem(n, reply) /\ isRetryableStatus(reply.items[i])}

FailedAt(n, reply) ==
  {i \in 1..n : /\ PerItem(n, reply)
                /\ ~isIndexedStatus(reply.items[i])
                /\ ~isRetryableStatus(reply.items[i])}

\* BulkResult and error of Client.Send.
Send(n, reply) ==
  [indexed |-> IndexedAt(n, reply),
   failed  |-> FailedAt(n, reply),
   retry   |-> RetryAt(n, reply),
   err     |-> reply.kind # "created" /\ ~PerItem(n, reply)]

-----------------------------------------------------------------------------
\* External.  `create` stores a document whose id is new and answers 409 for
\* one that is stored; a response without errors created every document.
Created(reply, n) ==
  IF reply.kind = "created" THEN 1..n
  ELSE {i \in 1..n : PerItem(n, reply) /\ reply.items[i] \in 200..299}

Truthful(docs, reply, stored) ==
  /\ \A i \in Created(reply, Len(docs)) : docs[i] \notin stored
  /\ PerItem(Len(docs), reply) =>
       \A i \in 1..Len(docs) : reply.items[i] = 409 => docs[i] \in stored

\* External.  The documents a truthful reply says are now stored.
Stores(docs, reply) == {docs[i] : i \in Created(reply, Len(docs))}

\* External.  The documents that may have been stored, or may be stored later,
\* without the sender learning of it.
Leaves(docs, reply) ==
  IF Ambiguous(Len(docs), reply) THEN {docs[i] : i \in 1..Len(docs)} ELSE {}
=============================================================================
