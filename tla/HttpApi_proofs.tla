--------------------------- MODULE HttpApi_proofs ----------------------------
(***************************************************************************)
(* The request handlers' safety, for any number of handlers and requests,  *)
(* any requests, queue and batch sizes and both drop policies.             *)
(***************************************************************************)
EXTENDS HttpApi, SequenceTheorems, FiniteSetTheorems, WellFoundedInduction, TLAPS

-----------------------------------------------------------------------------
\* What the checks may answer.

Refusals ==
  {"rate_limited", "origin_required", "content_type_must_be_application_json",
   "payload_too_large", "empty_body", "empty_batch", "invalid_json", "too_many_events",
   "domain_not_allowed", "origin_not_allowed_for_site", "url_host_mismatch",
   "invalid_event"}

LEMMA MinInSet ==
  ASSUME NEW S, S \subseteq Nat, S # {}
  PROVE  Min(S) \in S
<1>1. PICK x \in S : \A y \in S : <<y, x>> \notin OpToRel(<, Nat)
  BY NatLessThanWellFounded, WFMin
<1>2. \A y \in S : ~(y < x)
  BY <1>1 DEF OpToRel
<1>3. \A y \in S : x <= y
  BY <1>2
<1> QED
  BY <1>3 DEF Min

LEMMA FirstErrorIn ==
  ASSUME NEW checks, Len(checks) \in Nat, NEW C,
         \A i \in 1..Len(checks) : checks[i].fails => checks[i].code \in C
  PROVE  FirstError(checks) \in C \cup {""}
<1> DEFINE failing == {i \in 1..Len(checks) : checks[i].fails}
<1>1. CASE failing = {}
  BY <1>1 DEF FirstError
<1>2. CASE failing # {}
  <2>1. Min(failing) \in failing
    BY <1>2, MinInSet
  <2> QED
    BY <1>2, <2>1 DEF FirstError
<1> QED
  BY <1>1, <1>2

LEMMA EventErrorIn ==
  ASSUME NEW e PROVE FirstError(EventErrors(e)) \in Refusals \cup {""}
<1> DEFINE s == EventErrors(e)
<1>1. Len(s) = 3 /\ Len(s) \in Nat
  BY DEF EventErrors
<1>2. /\ s[1].code = "origin_not_allowed_for_site"
      /\ s[2].code = "url_host_mismatch" /\ s[3].code = "invalid_event"
  BY DEF EventErrors
<1>3. \A i \in 1..Len(s) : s[i].code \in Refusals
  <2>1. \A i \in 1..Len(s) : i = 1 \/ i = 2 \/ i = 3
    BY <1>1
  <2> QED
    BY <1>2, <2>1 DEF Refusals
<1> HIDE DEF s
<1>4. FirstError(s) \in Refusals \cup {""}
  BY <1>1, <1>3, FirstErrorIn
<1> QED
  BY <1>4 DEF s

LEMMA LoopErrorIn ==
  ASSUME NEW events \in Seq(Findings) PROVE LoopError(events) \in Refusals \cup {""}
<1> DEFINE s == [i \in 1..Len(events) |->
                   [fails |-> FirstError(EventErrors(events[i])) # "",
                    code  |-> FirstError(EventErrors(events[i]))]]
<1>1. Len(events) \in Nat
  BY LenProperties
<1>2. Len(s) = Len(events)
  BY <1>1
<1>3. \A i \in 1..Len(s) : s[i].fails => s[i].code \in Refusals
  BY <1>2, EventErrorIn
<1> HIDE DEF s
<1>4. FirstError(s) \in Refusals \cup {""}
  BY <1>1, <1>2, <1>3, FirstErrorIn
<1> QED
  BY <1>4 DEF LoopError, s

\* A request is refused with one of the codes of the checks.
LEMMA RequestErrorIn ==
  ASSUME NEW r \in Request PROVE RequestError[r] \in Refusals \cup {""}
<1> DEFINE s == RequestErrors(r)
<1>1. Len(s) = 10 /\ Len(s) \in Nat
  BY DEF RequestErrors
<1>2. LoopError(r.events) \in Refusals \cup {""}
  BY HttpApiAssumption, LoopErrorIn
<1>3. /\ s[1].code = "rate_limited" /\ s[2].code = "origin_required"
      /\ s[3].code = "content_type_must_be_application_json"
      /\ s[4].code = "payload_too_large" /\ s[5].code = "empty_body"
      /\ s[6].code = "empty_batch" /\ s[7].code = "invalid_json"
      /\ s[8].code = "too_many_events" /\ s[9].code = "domain_not_allowed"
      /\ s[10].code = LoopError(r.events)
      /\ s[10].fails = (LoopError(r.events) # "")
  BY DEF RequestErrors
<1>4. \A i \in 1..Len(s) : s[i].fails => s[i].code \in Refusals
  <2>1. \A i \in 1..Len(s) :
          i = 1 \/ i = 2 \/ i = 3 \/ i = 4 \/ i = 5 \/ i = 6 \/ i = 7 \/ i = 8 \/ i = 9 \/ i = 10
    BY <1>1
  <2> HIDE DEF s
  <2> QED
    BY <1>2, <1>3, <2>1 DEF Refusals
<1> HIDE DEF s
<1>5. FirstError(s) \in Refusals \cup {""}
  BY <1>1, <1>4, FirstErrorIn
<1> QED
  BY <1>5 DEF RequestError, s

LEMMA RejectedForNat ==
  ASSUME NEW r \in Request PROVE RejectedFor(r) \in Nat /\ Len(r.events) \in Nat
<1>1. Len(r.events) \in Nat
  BY HttpApiAssumption, LenProperties
<1> QED
  BY <1>1 DEF RejectedFor

-----------------------------------------------------------------------------
\* The handlers and the answers.

Places == {"check", "rejected", "refusedFull", "dropped", "droppedFull", "accepted",
           "read", "store"}
Stages == Places \cup {"ok", "queue_full", "refused"}
Codes == {"ok", "queue_full"} \cup Refusals

\* Every request received is being served by one handler or answered with a code.
Ledger ==
  /\ pc \in [Handler -> Places \cup {"idle"}] /\ serving \in [Handler -> 0..MaxRequests]
  /\ content \in Seq(Request) /\ Len(content) <= MaxRequests
  /\ code \in Seq(Codes \cup {""}) /\ Len(code) = Len(content)
  /\ dropPolicy \in {"reject", "drop_newest"}
  /\ \A h \in Handler : pc[h] # "idle" => serving[h] \in Requests /\ code[serving[h]] = ""
  /\ \A r \in Requests : code[r] = "" => \E h \in Handler : pc[h] # "idle" /\ serving[h] = r
  /\ \A g, h \in Handler :
       pc[g] # "idle" /\ pc[h] # "idle" /\ serving[g] = serving[h] => g = h

\* Request r is in one of the stages: at a place of its handler, or answered.
In(r, stages) ==
  \/ \E h \in Handler : pc[h] \in stages /\ serving[h] = r
  \/ code[r] \in {"ok", "queue_full"} \cap stages
  \/ code[r] \in Refusals /\ "refused" \in stages

StageOfCode(c) == IF c \in {"ok", "queue_full"} THEN c ELSE "refused"

LEMMA StageOf ==
  ASSUME Ledger, NEW h \in Handler, pc[h] # "idle", NEW S \in SUBSET Stages
  PROVE  In(serving[h], S) <=> pc[h] \in S
<1>1. code[serving[h]] = ""
  BY DEF Ledger
<1>2. \A g \in Handler : pc[g] \in S => pc[g] # "idle"
  BY DEF Stages, Places
<1> QED
  BY <1>1, <1>2 DEF Ledger, In, Refusals

LEMMA StageOfAnswer ==
  ASSUME Ledger, NEW r \in Requests, code[r] # "", NEW S \in SUBSET Stages
  PROVE  In(r, S) <=> StageOfCode(code[r]) \in S
<1>1. code[r] \in Codes
  <2>1. r \in 1..Len(code) /\ code \in Seq(Codes \cup {""})
    BY DEF Ledger, Requests
  <2>2. code[r] \in Codes \cup {""}
    BY <2>1, ElementOfSeq
  <2> QED
    BY <2>2
<1>2. \A h \in Handler : pc[h] \in S => serving[h] # r
  BY DEF Ledger, Stages, Places
<1> QED
  BY <1>1, <1>2 DEF In, StageOfCode, Codes, Refusals, Stages, Places

\* A handler goes on to another place.
MovesTo(h, label) ==
  /\ Goto(h, label) /\ label \in Places
  /\ UNCHANGED <<serving, content, code, dropPolicy>>

\* A handler answers its request.
Answers(h, c) ==
  /\ Respond(h, c) /\ c \in Codes
  /\ UNCHANGED <<serving, content, dropPolicy>>

LEMMA MovesLedger ==
  ASSUME Ledger, NEW h \in Handler, pc[h] # "idle", NEW label, MovesTo(h, label)
  PROVE  /\ Ledger'
         /\ \A r \in Requests, S \in SUBSET Stages :
              In(r, S)' <=> IF r = serving[h] THEN label \in S ELSE In(r, S)
<1>1. /\ \A g \in Handler : pc'[g] = IF g = h THEN label ELSE pc[g]
      /\ label # "idle" /\ pc' \in [Handler -> Places \cup {"idle"}]
      /\ serving' = serving /\ content' = content /\ code' = code /\ dropPolicy' = dropPolicy
  BY DEF MovesTo, Goto, Ledger, Places
<1>2. Requests' = Requests
  BY <1>1 DEF Requests
<1>3. Ledger'
  <2>1. \A g \in Handler : pc'[g] # "idle" <=> pc[g] # "idle"
    BY <1>1
  <2>2. \A g \in Handler : pc'[g] # "idle" => serving[g] \in Requests /\ code[serving[g]] = ""
    BY <2>1 DEF Ledger
  <2>3. \A r \in Requests : code[r] = "" => \E g \in Handler : pc'[g] # "idle" /\ serving[g] = r
    BY <2>1 DEF Ledger
  <2>4. \A g, k \in Handler :
          pc'[g] # "idle" /\ pc'[k] # "idle" /\ serving[g] = serving[k] => g = k
    BY <2>1 DEF Ledger
  <2> QED
    BY <1>1, <1>2, <2>2, <2>3, <2>4 DEF Ledger
<1>4. ASSUME NEW r \in Requests, NEW S \in SUBSET Stages
      PROVE  In(r, S)' <=> IF r = serving[h] THEN label \in S ELSE In(r, S)
  <2>1. "idle" \notin S
    BY DEF Stages, Places
  <2>2. CASE r = serving[h]
    <3>1. code[r] = ""
      BY <2>2 DEF Ledger
    <3>2. \A g \in Handler : pc'[g] \in S /\ serving[g] = r => g = h
      <4>1. \A g \in Handler : pc'[g] \in S => pc'[g] # "idle"
        BY <2>1
      <4>2. \A g \in Handler : pc'[g] \in S => g = h \/ pc[g] # "idle"
        BY <1>1, <4>1
      <4> QED
        BY <2>2, <4>2 DEF Ledger
    <3> QED
      BY <1>1, <2>2, <3>1, <3>2 DEF In, Refusals
  <2>3. CASE r # serving[h]
    BY <1>1, <2>3 DEF In
  <2> QED
    BY <2>2, <2>3
<1> QED
  BY <1>3, <1>4

LEMMA AnswersLedger ==
  ASSUME Ledger, NEW h \in Handler, pc[h] # "idle", NEW c, Answers(h, c)
  PROVE  /\ Ledger'
         /\ \A r \in Requests, S \in SUBSET Stages :
              In(r, S)' <=> IF r = serving[h] THEN StageOfCode(c) \in S ELSE In(r, S)
<1>1. /\ \A g \in Handler : pc'[g] = IF g = h THEN "idle" ELSE pc[g]
      /\ pc' \in [Handler -> Places \cup {"idle"}]
      /\ serving' = serving /\ content' = content /\ dropPolicy' = dropPolicy
  BY DEF Answers, Respond, Goto, Ledger
<1>2. Requests' = Requests
  BY <1>1 DEF Requests
<1>3. /\ code' \in Seq(Codes \cup {""}) /\ Len(code') = Len(code)
      /\ \A r \in Requests : code'[r] = IF r = serving[h] THEN c ELSE code[r]
  <2>1. /\ code \in Seq(Codes \cup {""}) /\ serving[h] \in 1..Len(code)
        /\ c \in Codes \cup {""} /\ code' = [code EXCEPT ![serving[h]] = c]
        /\ Requests = 1..Len(code)
    BY DEF Answers, Respond, Ledger, Requests
  <2>2. /\ [code EXCEPT ![serving[h]] = c] \in Seq(Codes \cup {""})
        /\ Len([code EXCEPT ![serving[h]] = c]) = Len(code)
        /\ \A r \in 1..Len(code) :
             [code EXCEPT ![serving[h]] = c][r] = IF r = serving[h] THEN c ELSE code[r]
    <3> DEFINE T == Codes \cup {""}  i == serving[h]
    <3>1. code \in Seq(T) /\ i \in 1..Len(code) /\ c \in T
      BY <2>1
    <3> HIDE DEF T, i
    <3>2. /\ [code EXCEPT ![i] = c] \in Seq(T)
          /\ Len([code EXCEPT ![i] = c]) = Len(code)
          /\ \A r \in 1..Len(code) : [code EXCEPT ![i] = c][r] = IF r = i THEN c ELSE code[r]
      BY <3>1, ExceptSeq
    <3> QED
      BY <3>2 DEF T, i
  <2> QED
    BY <2>1, <2>2
<1>4. c # ""
  BY DEF Answers, Codes, Refusals
<1>5. Ledger'
  <2>1. \A g \in Handler : pc'[g] # "idle" => g # h /\ pc[g] # "idle" /\ serving[g] # serving[h]
    BY <1>1 DEF Ledger
  <2>2. \A g \in Handler : pc'[g] # "idle" => serving[g] \in Requests /\ code'[serving[g]] = ""
    BY <1>3, <2>1 DEF Ledger
  <2>3. \A r \in Requests : code'[r] = "" => \E g \in Handler : pc'[g] # "idle" /\ serving[g] = r
    <3>1. SUFFICES ASSUME NEW r \in Requests, code'[r] = ""
                   PROVE  \E g \in Handler : pc'[g] # "idle" /\ serving[g] = r
      OBVIOUS
    <3>2. r # serving[h] /\ code[r] = ""
      BY <1>3, <1>4, <3>1
    <3>3. PICK g \in Handler : pc[g] # "idle" /\ serving[g] = r
      BY <3>2 DEF Ledger
    <3> QED
      BY <1>1, <3>2, <3>3
  <2>4. \A g, k \in Handler :
          pc'[g] # "idle" /\ pc'[k] # "idle" /\ serving[g] = serving[k] => g = k
    BY <2>1 DEF Ledger
  <2> QED
    BY <1>1, <1>2, <1>3, <2>2, <2>3, <2>4 DEF Ledger
<1>6. ASSUME NEW r \in Requests, NEW S \in SUBSET Stages
      PROVE  In(r, S)' <=> IF r = serving[h] THEN StageOfCode(c) \in S ELSE In(r, S)
  <2>1. "idle" \notin S
    BY DEF Stages, Places
  <2>2. CASE r = serving[h]
    <3>1. code'[r] = c /\ c \in Codes
      BY <1>3, <2>2 DEF Answers
    <3>2. \A g \in Handler : ~(pc'[g] \in S /\ serving'[g] = r)
      <4>1. \A g \in Handler : pc'[g] \in S => g # h /\ pc[g] # "idle"
        BY <1>1, <2>1
      <4> QED
        BY <1>1, <2>2, <4>1 DEF Ledger
    <3> QED
      BY <2>2, <3>1, <3>2 DEF In, StageOfCode, Codes, Refusals
  <2>3. CASE r # serving[h]
    <3>1. code'[r] = code[r]
      BY <1>3, <2>3
    <3>2. \A g \in Handler : pc'[g] \in S /\ serving'[g] = r <=> pc[g] \in S /\ serving[g] = r
      BY <1>1, <2>1, <2>3
    <3> QED
      BY <2>3, <3>1, <3>2 DEF In
  <2> QED
    BY <2>2, <2>3
<1> QED
  BY <1>5, <1>6

\* A request arrives.
LEMMA ReceiveLedger ==
  ASSUME Ledger, NEW h \in Handler, NEW q \in Request, Receive(h, q)
  PROVE  /\ Ledger'
         /\ Requests' = Requests \cup {Len(content) + 1} /\ Len(content) + 1 \notin Requests
         /\ \A r \in Requests : content'[r] = content[r]
         /\ \A r \in Requests \cup {Len(content) + 1}, S \in SUBSET Stages :
              In(r, S)' <=> IF r \in Requests THEN In(r, S) ELSE "check" \in S
<1> DEFINE n == Len(content) + 1
<1>1. Len(content) \in Nat /\ Len(content) < MaxRequests /\ MaxRequests \in Nat
  BY HttpApiAssumption, LenProperties DEF Ledger, Receive
<1>2. /\ content' \in Seq(Request) /\ Len(content') = n
      /\ \A r \in Requests : content'[r] = content[r]
  <2>1. content \in Seq(Request) /\ content' = Append(content, q)
    BY DEF Ledger, Receive
  <2> QED
    BY <2>1, AppendProperties DEF Requests
<1>3. /\ code' \in Seq(Codes \cup {""}) /\ Len(code') = n
      /\ code'[n] = "" /\ \A r \in Requests : code'[r] = code[r]
  <2>1. code \in Seq(Codes \cup {""}) /\ Len(code) = Len(content) /\ code' = Append(code, "")
    BY DEF Ledger, Receive
  <2> DEFINE T == Codes \cup {""}
  <2>2. code \in Seq(T) /\ "" \in T
    BY <2>1
  <2> HIDE DEF T
  <2>3. /\ code' \in Seq(T) /\ Len(code') = Len(code) + 1 /\ code'[Len(code) + 1] = ""
        /\ \A r \in 1..Len(code) : code'[r] = code[r]
    BY <2>1, <2>2, AppendProperties
  <2> QED
    BY <2>1, <2>3 DEF T, Requests
<1>4. Requests' = Requests \cup {n} /\ n \notin Requests
  BY <1>1, <1>2 DEF Requests
<1>5. /\ pc[h] = "idle" /\ dropPolicy' = dropPolicy
      /\ \A g \in Handler : pc'[g] = IF g = h THEN "check" ELSE pc[g]
      /\ pc' \in [Handler -> Places \cup {"idle"}]
      /\ \A g \in Handler : serving'[g] = IF g = h THEN n ELSE serving[g]
      /\ serving' \in [Handler -> 0..MaxRequests]
  <2>1. /\ pc[h] = "idle" /\ dropPolicy' = dropPolicy
        /\ pc' = [pc EXCEPT ![h] = "check"] /\ serving' = [serving EXCEPT ![h] = n]
    BY DEF Receive, Goto, KeepConsumer
  <2>2. /\ pc \in [Handler -> Places \cup {"idle"}] /\ serving \in [Handler -> 0..MaxRequests]
    BY DEF Ledger
  <2>3. n \in 0..MaxRequests /\ "check" \in Places \cup {"idle"}
    BY <1>1 DEF Places
  <2> HIDE DEF n
  <2> QED
    BY <2>1, <2>2, <2>3
<1>6. \A g \in Handler : pc[g] # "idle" =>
        g # h /\ serving[g] \in Requests /\ serving[g] # n /\ code[serving[g]] = ""
  <2>1. \A g \in Handler : pc[g] # "idle" => serving[g] \in Requests /\ code[serving[g]] = ""
    BY DEF Ledger
  <2> HIDE DEF n
  <2> QED
    BY <1>4, <1>5, <2>1
<1>7. Ledger'
  <2>1. ASSUME NEW g \in Handler, pc'[g] # "idle"
        PROVE  serving'[g] \in Requests' /\ code'[serving'[g]] = ""
    <3>1. CASE g = h
      BY <1>3, <1>4, <1>5, <3>1
    <3>2. CASE g # h
      <4>1. pc[g] # "idle" /\ serving'[g] = serving[g]
        BY <1>5, <2>1, <3>2
      <4> QED
        BY <1>3, <1>4, <1>6, <4>1
    <3> QED
      BY <3>1, <3>2
  <2>2. ASSUME NEW r \in Requests', code'[r] = ""
        PROVE  \E g \in Handler : pc'[g] # "idle" /\ serving'[g] = r
    <3>1. CASE r = n
      BY <1>5, <3>1
    <3>2. CASE r # n
      <4>1. r \in Requests /\ code[r] = ""
        BY <1>3, <1>4, <2>2, <3>2
      <4>2. PICK g \in Handler : pc[g] # "idle" /\ serving[g] = r
        BY <4>1 DEF Ledger
      <4> QED
        BY <1>5, <1>6, <4>2
    <3> QED
      BY <3>1, <3>2
  <2>3. ASSUME NEW g \in Handler, NEW k \in Handler,
               pc'[g] # "idle", pc'[k] # "idle", serving'[g] = serving'[k]
        PROVE  g = k
    <3>1. /\ g # h => pc[g] # "idle" /\ serving'[g] = serving[g] /\ serving[g] # n
          /\ k # h => pc[k] # "idle" /\ serving'[k] = serving[k] /\ serving[k] # n
      BY <1>5, <1>6, <2>3
    <3>2. /\ g = h => serving'[g] = n
          /\ k = h => serving'[k] = n
      BY <1>5
    <3>3. \A x, y \in Handler :
            pc[x] # "idle" /\ pc[y] # "idle" /\ serving[x] = serving[y] => x = y
      BY DEF Ledger
    <3> HIDE DEF n
    <3> QED
      BY <2>3, <3>1, <3>2, <3>3
  <2>4. Len(content') <= MaxRequests
    BY <1>1, <1>2
  <2>5. dropPolicy' \in {"reject", "drop_newest"}
    BY <1>5 DEF Ledger
  <2> QED
    BY <1>2, <1>3, <1>5, <2>1, <2>2, <2>3, <2>4, <2>5 DEF Ledger
<1>8. ASSUME NEW r \in Requests \cup {n}, NEW S \in SUBSET Stages
      PROVE  In(r, S)' <=> IF r \in Requests THEN In(r, S) ELSE "check" \in S
  <2> HIDE DEF n
  <2>1. "idle" \notin S
    BY DEF Stages, Places
  <2>2. CASE r = n
    <3>1. \A g \in Handler : pc'[g] \in S /\ serving'[g] = n => g = h
      <4>1. \A g \in Handler : pc'[g] \in S /\ g # h => pc[g] # "idle" /\ serving'[g] = serving[g]
        BY <1>5, <2>1
      <4> QED
        BY <1>6, <4>1
    <3>2. code'[r] = "" /\ "" \notin Refusals
      BY <1>3, <2>2 DEF Refusals
    <3>3. (\E g \in Handler : pc'[g] \in S /\ serving'[g] = r) <=> "check" \in S
      BY <1>5, <2>2, <3>1
    <3> QED
      BY <1>4, <2>2, <3>2, <3>3 DEF In
  <2>3. CASE r # n
    <3>1. code'[r] = code[r] /\ r \in Requests
      BY <1>3, <1>4, <2>3
    <3>2. ASSUME NEW g \in Handler
          PROVE  pc'[g] \in S /\ serving'[g] = r <=> pc[g] \in S /\ serving[g] = r
      <4>1. CASE g = h
        BY <1>5, <2>1, <2>3, <4>1
      <4>2. CASE g # h
        BY <1>5, <4>2
      <4> QED
        BY <4>1, <4>2
    <3> QED
      BY <3>1, <3>2 DEF In
  <2> QED
    BY <2>2, <2>3
<1> QED
  BY <1>2, <1>4, <1>7, <1>8

-----------------------------------------------------------------------------
\* The steps of a handler, as its request goes from stage to stage.

\* Request i goes from stage a to stage b; the others stay where they are.
Shift(i, a, b) ==
  /\ i \in Requests /\ a \in Stages /\ b \in Stages
  /\ Requests' = Requests /\ content' = content /\ dropPolicy' = dropPolicy
  /\ \A S \in SUBSET Stages : In(i, S) <=> a \in S
  /\ \A r \in Requests, S \in SUBSET Stages :
       In(r, S)' <=> IF r = i THEN b \in S ELSE In(r, S)

LEMMA RequestAt ==
  ASSUME NEW c \in Seq(Request), NEW r \in 1..Len(c)
  PROVE  c[r] \in Request /\ c[r].events \in Seq(Findings) /\ Len(c[r].events) \in Nat
<1>1. c[r] \in Request
  BY ElementOfSeq
<1>2. c[r].events \in Seq(Findings)
  BY <1>1, HttpApiAssumption
<1> QED
  BY <1>1, <1>2, LenProperties

LEMMA Serves ==
  ASSUME Ledger, NEW r \in Requests
  PROVE  content[r] \in Request /\ content[r].events \in Seq(Findings)
         /\ Len(content[r].events) \in Nat /\ r \in 1..MaxRequests
<1>1. content \in Seq(Request) /\ r \in 1..Len(content) /\ Len(content) <= MaxRequests
  BY DEF Ledger, Requests
<1>2. content[r] \in Request /\ content[r].events \in Seq(Findings)
      /\ Len(content[r].events) \in Nat
  BY <1>1, RequestAt
<1>3. Len(content) \in Nat /\ MaxRequests \in Nat
  BY <1>1, HttpApiAssumption, LenProperties
<1> QED
  BY <1>1, <1>2, <1>3

LEMMA PlaceOf ==
  ASSUME Ledger, NEW h \in Handler, pc[h] # "idle"
  PROVE  serving[h] \in Requests /\ pc[h] \in Stages
<1>1. pc \in [Handler -> Places \cup {"idle"}] /\ serving[h] \in Requests
  BY DEF Ledger
<1>2. pc[h] \in Places
  BY <1>1
<1> QED
  BY <1>1, <1>2 DEF Stages

LEMMA MoveShifts ==
  ASSUME Ledger, NEW h \in Handler, pc[h] # "idle", NEW label, MovesTo(h, label)
  PROVE  Ledger' /\ Shift(serving[h], pc[h], label)
<1>1. serving[h] \in Requests /\ pc[h] \in Stages /\ label \in Stages
  BY PlaceOf DEF MovesTo, Stages
<1>2. Requests' = Requests /\ content' = content /\ dropPolicy' = dropPolicy
  BY DEF MovesTo, Requests
<1> QED
  BY <1>1, <1>2, StageOf, MovesLedger DEF Shift

LEMMA AnswerShifts ==
  ASSUME Ledger, NEW h \in Handler, pc[h] # "idle", NEW c, Answers(h, c)
  PROVE  Ledger' /\ Shift(serving[h], pc[h], StageOfCode(c))
<1>1. serving[h] \in Requests /\ pc[h] \in Stages /\ StageOfCode(c) \in Stages
  <2>1. serving[h] \in Requests /\ pc[h] \in Stages
    BY PlaceOf
  <2>2. StageOfCode(c) \in Stages
    BY DEF Stages, StageOfCode
  <2> QED
    BY <2>1, <2>2
<1>2. Requests' = Requests /\ content' = content /\ dropPolicy' = dropPolicy
  BY DEF Answers, Requests
<1> QED
  BY <1>1, <1>2, StageOf, AnswersLedger DEF Shift

LEMMA RefuseShifts ==
  ASSUME Ledger, NEW h \in Handler, Refuse(h)
  PROVE  Ledger' /\ Shift(serving[h], "check", "refused")
<1> DEFINE c == RequestError[content[serving[h]]]
<1>1. pc[h] = "check" /\ pc[h] # "idle" /\ serving[h] \in Requests
  BY DEF Refuse, Ledger
<1>2. c \in Refusals
  BY <1>1, Serves, RequestErrorIn DEF Refuse
<1>3. c \in Codes /\ StageOfCode(c) = "refused"
  BY <1>2 DEF Codes, Refusals, StageOfCode
<1>4. Answers(h, c)
  BY <1>3 DEF Refuse, Answers, KeepConsumer
<1> HIDE DEF c
<1> QED
  BY <1>1, <1>3, <1>4, AnswerShifts

LEMMA EnqueueShifts ==
  ASSUME Ledger, NEW h \in Handler, Enqueue(h) \/ DropNewest(h), NEW label \in Places,
         Goto(h, label)
  PROVE  Ledger' /\ Shift(serving[h], "check", label)
<1>1. pc[h] = "check" /\ pc[h] # "idle"
  BY DEF Enqueue, DropNewest
<1>2. MovesTo(h, label)
  BY DEF Enqueue, DropNewest, MovesTo, KeepConsumer
<1> QED
  BY <1>1, <1>2, MoveShifts

\* What the steps after the queue's have in common.
LEMMA CountShifts ==
  ASSUME Ledger, NEW h \in Handler
  PROVE  /\ IncRejected(h) => Ledger' /\ Shift(serving[h], "rejected", "refusedFull")
         /\ IncDropped(h) => Ledger' /\ Shift(serving[h], "dropped", "droppedFull")
         /\ IncQueueFull(h) =>
              /\ Ledger'
              /\ \/ pc[h] = "refusedFull" /\ Shift(serving[h], "refusedFull", "queue_full")
                 \/ pc[h] = "droppedFull" /\ Shift(serving[h], "droppedFull", "accepted")
         /\ IncAccepted(h) => Ledger' /\ Shift(serving[h], "accepted", "read")
         /\ ReadLen(h) => Ledger' /\ Shift(serving[h], "read", "store")
         /\ SetQueueDepth(h) => Ledger' /\ Shift(serving[h], "store", "ok")
<1>1. IncRejected(h) => pc[h] = "rejected" /\ MovesTo(h, "refusedFull")
  BY DEF IncRejected, MovesTo, Places, KeepHandler, KeepConsumer
<1>2. IncDropped(h) => pc[h] = "dropped" /\ MovesTo(h, "droppedFull")
  BY DEF IncDropped, MovesTo, Places, KeepHandler, KeepConsumer
<1>3. IncQueueFull(h) => \/ pc[h] = "refusedFull" /\ Answers(h, "queue_full")
                         \/ pc[h] = "droppedFull" /\ MovesTo(h, "accepted")
  BY DEF IncQueueFull, MovesTo, Answers, Places, Codes, KeepHandler, KeepConsumer
<1>4. IncAccepted(h) => pc[h] = "accepted" /\ MovesTo(h, "read")
  BY DEF IncAccepted, AddAccepted, MovesTo, Places, KeepHandler, KeepConsumer
<1>5. ReadLen(h) => pc[h] = "read" /\ MovesTo(h, "store")
  BY DEF ReadLen, MovesTo, Places, KeepHandler, KeepConsumer
<1>6. SetQueueDepth(h) => pc[h] = "store" /\ Answers(h, "ok")
  BY DEF SetQueueDepth, Answers, Codes, KeepConsumer
<1>7. StageOfCode("ok") = "ok" /\ StageOfCode("queue_full") = "queue_full"
  BY DEF StageOfCode
<1>8. IncRejected(h) => Ledger' /\ Shift(serving[h], "rejected", "refusedFull")
  BY <1>1, MoveShifts
<1>9. IncDropped(h) => Ledger' /\ Shift(serving[h], "dropped", "droppedFull")
  BY <1>2, MoveShifts
<1>10. ASSUME IncQueueFull(h)
       PROVE  /\ Ledger'
              /\ \/ pc[h] = "refusedFull" /\ Shift(serving[h], "refusedFull", "queue_full")
                 \/ pc[h] = "droppedFull" /\ Shift(serving[h], "droppedFull", "accepted")
  <2>1. CASE pc[h] = "refusedFull" /\ Answers(h, "queue_full")
    <3>1. Ledger' /\ Shift(serving[h], pc[h], StageOfCode("queue_full"))
      BY <2>1, AnswerShifts
    <3> QED
      BY <1>7, <2>1, <3>1
  <2>2. CASE pc[h] = "droppedFull" /\ MovesTo(h, "accepted")
    <3>1. Ledger' /\ Shift(serving[h], pc[h], "accepted")
      BY <2>2, MoveShifts
    <3> QED
      BY <2>2, <3>1
  <2> QED
    BY <1>3, <1>10, <2>1, <2>2
<1>11. IncAccepted(h) => Ledger' /\ Shift(serving[h], "accepted", "read")
  BY <1>4, MoveShifts
<1>12. ReadLen(h) => Ledger' /\ Shift(serving[h], "read", "store")
  BY <1>5, MoveShifts
<1>13. ASSUME SetQueueDepth(h) PROVE Ledger' /\ Shift(serving[h], "store", "ok")
  <2>1. Ledger' /\ Shift(serving[h], pc[h], StageOfCode("ok"))
    BY <1>6, <1>13, AnswerShifts
  <2> QED
    BY <1>6, <1>7, <1>13, <2>1
<1> QED
  BY <1>8, <1>9, <1>10, <1>11, <1>12, <1>13

-----------------------------------------------------------------------------
\* The queue and the gauge.

\* The rest of the types.
Stored ==
  /\ queue \in Seq(Event) /\ Len(queue) <= capacity /\ capacity = MaxQueueSize
  /\ notifyCh \in BOOLEAN
  /\ depth \in [Handler \cup {Batcher} -> 0..MaxQueueSize]
  /\ entered \in Seq(Event)
  /\ consumer \in {"select", "loop", "read", "store"} /\ looping \in BOOLEAN
  /\ queuedCurrent \in 0..MaxQueueSize

\* The first m events of request r.
Block(r, m) == [i \in 1..m |-> <<r, i>>]

Width(r) == Len(content[r].events)

LEMMA BlockSeq ==
  ASSUME NEW r \in 1..MaxRequests, NEW m \in Nat
  PROVE  /\ Block(r, m) \in Seq(Event) /\ Len(Block(r, m)) = m
         /\ \A i \in 1..m : Block(r, m)[i] = <<r, i>>
<1>1. \A i \in 1..m : <<r, i>> \in Event
  BY DEF Event
<1> QED
  BY <1>1 DEF Block

\* What is put behind a sequence is its new end.
LEMMA NewEnd ==
  ASSUME NEW S, NEW s \in Seq(S), NEW t \in Seq(S)
  PROVE  SubSeq(s \o t, Len(s) + 1, Len(s \o t)) = t
<1> DEFINE u == SubSeq(s \o t, Len(s) + 1, Len(s \o t))
<1>1. /\ s \o t \in Seq(S) /\ Len(s \o t) = Len(s) + Len(t)
      /\ \A i \in 1..Len(s) + Len(t) :
           (s \o t)[i] = IF i <= Len(s) THEN s[i] ELSE t[i - Len(s)]
      /\ Len(s) \in Nat /\ Len(t) \in Nat
  BY ConcatProperties, LenProperties
<1>2. u \in Seq(S) /\ Len(u) = Len(t) /\ \A i \in 1..Len(t) : u[i] = t[i]
  BY <1>1, SubSeqProperties
<1> HIDE DEF u
<1>3. u = t
  BY <1>2, SeqEqual
<1> QED
  BY <1>3 DEF u

\* What the queue's steps do: m events of the handler's request get in.
PutsIn(h, m) ==
  /\ queue' = queue \o Block(serving[h], m) /\ entered' = entered \o Block(serving[h], m)
  /\ Len(queue) + m <= capacity /\ capacity' = capacity /\ notifyCh' \in BOOLEAN

LEMMA PutBlock ==
  ASSUME Stored, NEW h \in Handler, serving[h] \in 1..MaxRequests, NEW m \in Nat,
         queue' = queue \o Block(serving[h], m), TakenIn
  PROVE  /\ entered' = entered \o Block(serving[h], m) /\ entered' \in Seq(Event)
         /\ queue' \in Seq(Event) /\ Len(queue') = Len(queue) + m
<1> DEFINE b == Block(serving[h], m)
<1>1. b \in Seq(Event) /\ Len(b) = m
  BY BlockSeq
<1>2. queue \in Seq(Event) /\ entered \in Seq(Event)
  BY DEF Stored
<1> HIDE DEF b
<1>3. SubSeq(queue \o b, Len(queue) + 1, Len(queue \o b)) = b
  BY <1>1, <1>2, NewEnd
<1>4. entered' = entered \o b
  BY <1>3 DEF TakenIn, b
<1>5. queue' = queue \o b
  BY DEF b
<1>6. /\ entered \o b \in Seq(Event) /\ queue \o b \in Seq(Event)
      /\ Len(queue \o b) = Len(queue) + Len(b)
  BY <1>1, <1>2, ConcatProperties
<1> QED
  BY <1>1, <1>4, <1>5, <1>6 DEF b

\* A step that leaves the queue alone puts nothing in.
LEMMA PutNothing ==
  ASSUME Stored, NEW r \in 1..MaxRequests PROVE queue = queue \o Block(r, 0)
<1>1. queue \in Seq(Event)
  BY DEF Stored
<1>2. Block(r, 0) = <<>>
  BY BlockSeq, EmptySeq
<1> QED
  BY <1>1, <1>2, ConcatEmptySeq

LEMMA EnrichedBlock ==
  ASSUME Ledger, NEW h \in Handler, pc[h] # "idle"
  PROVE  /\ serving[h] \in Requests /\ serving[h] \in 1..MaxRequests
         /\ Width(serving[h]) \in Nat
         /\ Enriched(h) = Block(serving[h], Width(serving[h]))
         /\ Len(Enriched(h)) = Width(serving[h])
<1>1. serving[h] \in Requests
  BY DEF Ledger
<1>2. serving[h] \in 1..MaxRequests /\ Width(serving[h]) \in Nat
  BY <1>1, Serves DEF Width
<1>3. Enriched(h) = Block(serving[h], Width(serving[h]))
  BY DEF Enriched, Block, Width
<1> QED
  BY <1>1, <1>2, <1>3, BlockSeq

LEMMA BlockPrefix ==
  ASSUME NEW r \in 1..MaxRequests, NEW n \in Nat, NEW m \in 0..n
  PROVE  SubSeq(Block(r, n), 1, m) = Block(r, m)
<1> DEFINE u == SubSeq(Block(r, n), 1, m)
<1>1. /\ Block(r, n) \in Seq(Event) /\ Len(Block(r, n)) = n
      /\ \A i \in 1..n : Block(r, n)[i] = <<r, i>>
  BY BlockSeq
<1>2. /\ Block(r, m) \in Seq(Event) /\ Len(Block(r, m)) = m
      /\ \A i \in 1..m : Block(r, m)[i] = <<r, i>>
  BY BlockSeq
<1>3. \A i \in 1..m : Block(r, n)[i] \in Event
  BY <1>1 DEF Event
<1>4. u \in Seq(Event) /\ Len(u) = m /\ \A i \in 1..m : u[i] = Block(r, n)[i]
  BY <1>3, SubSeqProperties
<1>5. \A i \in 1..m : u[i] = Block(r, m)[i]
  <2>1. \A i \in 1..m : i \in 1..n
    OBVIOUS
  <2>2. \A i \in 1..m : Block(r, n)[i] = <<r, i>>
    BY <1>1, <2>1
  <2> HIDE DEF u
  <2> QED
    BY <1>2, <1>4, <2>2
<1> HIDE DEF u
<1>6. u = Block(r, m)
  BY <1>2, <1>4, <1>5, SeqEqual
<1> QED
  BY <1>6 DEF u

LEMMA PutsStored ==
  ASSUME Ledger, Stored, NEW h \in Handler, pc[h] # "idle", NEW m \in Nat, TakenIn,
         queue' = queue \o Block(serving[h], m), Len(queue) + m <= capacity,
         capacity' = capacity, notifyCh' \in BOOLEAN,
         UNCHANGED <<depth, queuedCurrent, consumer, looping>>
  PROVE  Stored' /\ PutsIn(h, m)
<1>1. /\ entered' = entered \o Block(serving[h], m) /\ entered' \in Seq(Event)
      /\ queue' \in Seq(Event) /\ Len(queue') = Len(queue) + m
  BY EnrichedBlock, PutBlock
<1>2. PutsIn(h, m)
  BY <1>1 DEF PutsIn
<1> QED
  BY <1>1, <1>2 DEF Stored

LEMMA EnqueuePuts ==
  ASSUME Ledger, Stored, NEW h \in Handler, Enqueue(h)
  PROVE  /\ Stored' /\ dropPolicy = "reject" /\ pc[h] = "check"
         /\ \/ PutsIn(h, Width(serving[h])) /\ Goto(h, "accepted")
            \/ PutsIn(h, 0) /\ Width(serving[h]) > 0 /\ Goto(h, "rejected")
<1> DEFINE r == serving[h]  n == Width(serving[h])
<1>1. /\ pc[h] = "check" /\ pc[h] # "idle" /\ dropPolicy = "reject" /\ TakenIn
      /\ UNCHANGED <<depth, queuedCurrent, consumer, looping>>
  BY DEF Enqueue, KeepConsumer
<1>2. /\ r \in 1..MaxRequests /\ n \in Nat /\ Enriched(h) = Block(r, n) /\ Len(Enriched(h)) = n
  BY <1>1, EnrichedBlock
<1>3. Len(queue) \in Nat /\ Len(queue) <= capacity /\ capacity \in Nat /\ notifyCh \in BOOLEAN
  BY HttpApiAssumption, LenProperties DEF Stored
<1>4. CASE Q!Enqueue(Enriched(h)) /\ Goto(h, "accepted")
  <2>1. /\ queue' = queue \o Block(r, n) /\ Len(queue) + n <= capacity
        /\ capacity' = capacity /\ notifyCh' \in BOOLEAN
    BY <1>2, <1>4 DEF Q!Enqueue, Q!Fits, Q!PutLast
  <2>2. Stored' /\ PutsIn(h, n)
    BY <1>1, <1>2, <2>1, PutsStored
  <2> QED
    BY <1>1, <1>4, <2>2
<1>5. CASE ~Q!Fits(Enriched(h)) /\ UNCHANGED queueVars /\ Goto(h, "rejected")
  <2>1. queue' = queue /\ capacity' = capacity /\ notifyCh' = notifyCh
    BY <1>5 DEF queueVars
  <2>2. queue' = queue \o Block(r, 0)
    BY <1>2, <2>1, PutNothing
  <2>3. n > 0
    BY <1>2, <1>3, <1>5 DEF Q!Fits
  <2>4. Len(queue) + 0 <= capacity /\ notifyCh' \in BOOLEAN
    BY <1>3, <2>1
  <2>5. Stored' /\ PutsIn(h, 0)
    BY <1>1, <2>1, <2>2, <2>4, PutsStored
  <2> QED
    BY <1>1, <1>5, <2>3, <2>5
<1> QED
  BY <1>4, <1>5 DEF Enqueue

LEMMA DropNewestPuts ==
  ASSUME Ledger, Stored, NEW h \in Handler, DropNewest(h)
  PROVE  /\ Stored' /\ dropPolicy = "drop_newest" /\ pc[h] = "check"
         /\ \E m \in 0..Width(serving[h]) :
              /\ PutsIn(h, m)
              /\ Goto(h, IF m < Width(serving[h]) THEN "dropped" ELSE "accepted")
<1> DEFINE r == serving[h]  n == Width(serving[h])
<1>1. /\ pc[h] = "check" /\ pc[h] # "idle" /\ dropPolicy = "drop_newest" /\ TakenIn
      /\ UNCHANGED <<depth, queuedCurrent, consumer, looping>>
      /\ Goto(h, IF Len(queue') - Len(queue) < Len(Enriched(h)) THEN "dropped" ELSE "accepted")
  BY DEF DropNewest, KeepConsumer
<1>2. /\ r \in 1..MaxRequests /\ n \in Nat /\ Enriched(h) = Block(r, n) /\ Len(Enriched(h)) = n
  BY <1>1, EnrichedBlock
<1>3. Len(queue) \in Nat /\ Len(queue) <= capacity /\ capacity \in Nat /\ notifyCh \in BOOLEAN
  BY HttpApiAssumption, LenProperties DEF Stored
<1>4. \E m \in 0..n : /\ queue' = queue \o Block(r, m) /\ Len(queue) + m <= capacity
                      /\ capacity' = capacity /\ notifyCh' \in BOOLEAN
  <2>1. CASE Q!DropNewest(Enriched(h))
    <3> DEFINE m == Q!Kept(Enriched(h))
    <3>1. m \in 0..n /\ Len(queue) + m <= capacity
      BY <1>2, <1>3, <2>1 DEF Q!DropNewest, Q!Kept, Q!Available
    <3>2. /\ queue' = queue \o SubSeq(Enriched(h), 1, m) /\ capacity' = capacity
          /\ notifyCh' \in BOOLEAN
      BY <2>1 DEF Q!DropNewest, Q!PutLast
    <3> HIDE DEF m
    <3>3. SubSeq(Enriched(h), 1, m) = Block(r, m)
      BY <1>2, <3>1, BlockPrefix
    <3> QED
      BY <3>1, <3>2, <3>3
  <2>2. CASE Q!Available <= 0 /\ UNCHANGED queueVars
    <3>1. queue' = queue /\ capacity' = capacity /\ notifyCh' = notifyCh
      BY <2>2 DEF queueVars
    <3>2. queue' = queue \o Block(r, 0)
      BY <1>2, <3>1, PutNothing
    <3>3. 0 \in 0..n /\ Len(queue) + 0 <= capacity /\ notifyCh' \in BOOLEAN
      BY <1>2, <1>3, <3>1
    <3> QED
      BY <3>1, <3>2, <3>3
  <2> QED
    BY <2>1, <2>2 DEF DropNewest
<1>5. PICK m \in 0..n : /\ queue' = queue \o Block(r, m) /\ Len(queue) + m <= capacity
                        /\ capacity' = capacity /\ notifyCh' \in BOOLEAN
  BY <1>4
<1>6. m \in Nat /\ Len(queue') = Len(queue) + m
  BY <1>1, <1>2, <1>5, PutBlock
<1>7. Stored' /\ PutsIn(h, m)
  BY <1>1, <1>5, <1>6, PutsStored
<1>8. Goto(h, IF m < n THEN "dropped" ELSE "accepted")
  <2>1. Len(queue') - Len(queue) = m
    BY <1>3, <1>6
  <2> QED
    BY <1>1, <1>2, <2>1
<1> QED
  BY <1>1, <1>7, <1>8

-----------------------------------------------------------------------------
\* What got into the queue.

Copies(r) == {k \in 1..Len(entered) : entered[k][1] = r}

Contents ==
  /\ \A k \in 1..Len(entered) : entered[k][1] \in Requests
  /\ \A k \in 1..Len(entered) :
       entered[k][2] > 1 => k > 1 /\ entered[k - 1] = <<entered[k][1], entered[k][2] - 1>>
  /\ \A r \in Requests, j \in Nat : <<r, j>> \in Range(entered) <=> j \in 1..GotOf(r)

LEMMA GotNat ==
  ASSUME entered \in Seq(Event), NEW r
  PROVE  /\ IsFiniteSet(Copies(r)) /\ GotOf(r) = Cardinality(Copies(r)) /\ GotOf(r) \in Nat
         /\ GotOf(r) = 0 <=> Copies(r) = {}
<1>1. IsFiniteSet(1..Len(entered))
  BY LenProperties, FS_Interval
<1>2. IsFiniteSet(Copies(r))
  BY <1>1, FS_Subset DEF Copies
<1>3. GotOf(r) = Cardinality(Copies(r))
  BY DEF GotOf, Copies
<1> QED
  BY <1>2, <1>3, FS_CardinalityType, FS_EmptySet

LEMMA InRange ==
  ASSUME NEW s \in Seq(Event), NEW x
  PROVE  x \in Range(s) <=> \E k \in 1..Len(s) : s[k] = x
<1>1. DOMAIN s = 1..Len(s)
  BY LenProperties
<1> QED
  BY <1>1 DEF Range

LEMMA Extended ==
  ASSUME NEW s \in Seq(Event), NEW i \in 1..MaxRequests, NEW m \in Nat
  PROVE  LET t == s \o Block(i, m)
         IN  /\ t \in Seq(Event) /\ Len(s) \in Nat /\ Len(t) = Len(s) + m
             /\ \A k \in 1..Len(s) : t[k] = s[k]
             /\ \A k \in (Len(s) + 1)..(Len(s) + m) : t[k] = <<i, k - Len(s)>>
<1> DEFINE b == Block(i, m)
<1>1. b \in Seq(Event) /\ Len(b) = m /\ \A k \in 1..m : b[k] = <<i, k>>
  BY BlockSeq
<1>2. Len(s) \in Nat
  BY LenProperties
<1> HIDE DEF b
<1>3. /\ s \o b \in Seq(Event) /\ Len(s \o b) = Len(s) + Len(b)
      /\ \A k \in 1..Len(s) + Len(b) :
           (s \o b)[k] = IF k <= Len(s) THEN s[k] ELSE b[k - Len(s)]
  BY <1>1, ConcatProperties
<1>4. \A k \in 1..Len(s) : (s \o b)[k] = s[k]
  BY <1>1, <1>2, <1>3
<1>5. ASSUME NEW k \in (Len(s) + 1)..(Len(s) + m) PROVE (s \o b)[k] = <<i, k - Len(s)>>
  <2>1. k \in 1..Len(s) + Len(b) /\ ~(k <= Len(s)) /\ k - Len(s) \in 1..m
    BY <1>1, <1>2
  <2> QED
    BY <1>1, <1>3, <2>1
<1> QED
  BY <1>1, <1>2, <1>3, <1>4, <1>5 DEF b

LEMMA ContentsPuts ==
  ASSUME Ledger, Stored, Contents, NEW h \in Handler, pc[h] # "idle", NEW m \in Nat,
         PutsIn(h, m), GotOf(serving[h]) = 0, Requests' = Requests
  PROVE  /\ Contents' /\ Len(entered') = Len(entered) + m
         /\ \A k \in 1..Len(entered) : entered'[k] = entered[k]
         /\ \A k \in (Len(entered) + 1)..(Len(entered) + m) : entered'[k][1] = serving[h]
         /\ \A r \in Requests : GotOf(r)' = IF r = serving[h] THEN m ELSE GotOf(r)
<1> DEFINE i == serving[h]  n == Len(entered)
<1>1. i \in Requests /\ i \in 1..MaxRequests /\ entered \in Seq(Event)
  BY EnrichedBlock DEF Stored
<1>2. /\ entered' \in Seq(Event) /\ n \in Nat /\ Len(entered') = n + m
      /\ \A k \in 1..n : entered'[k] = entered[k]
      /\ \A k \in (n + 1)..(n + m) : entered'[k] = <<i, k - n>>
  BY <1>1, Extended DEF PutsIn
<1>3. \A k \in 1..(n + m) : k \in 1..n \/ k \in (n + 1)..(n + m)
  BY <1>2
<1>4. \A k \in 1..n : entered[k][1] # i
  BY <1>1, GotNat DEF Copies
<1> HIDE DEF i, n
<1>5. ASSUME NEW r \in Requests
      PROVE  GotOf(r)' = IF r = i THEN m ELSE GotOf(r)
  <2>1. CASE r = i
    <3>1. Copies(r)' = (n + 1)..(n + m)
      <4>1. \A k \in (n + 1)..(n + m) : k \in 1..(n + m) /\ entered'[k][1] = i
        BY <1>2
      <4>2. \A k \in 1..n : entered'[k][1] # i
        BY <1>2, <1>4
      <4>3. Copies(r)' = {k \in 1..(n + m) : entered'[k][1] = i}
        BY <1>2, <2>1 DEF Copies
      <4> QED
        BY <1>3, <4>1, <4>2, <4>3
    <3>2. Cardinality((n + 1)..(n + m)) = m
      <4>1. n + 1 \in Int /\ n + m \in Int
        BY <1>2
      <4> QED
        BY <1>2, <4>1, FS_Interval
    <3>3. GotOf(r)' = Cardinality(Copies(r)')
      BY DEF GotOf, Copies
    <3> QED
      BY <2>1, <3>1, <3>2, <3>3
  <2>2. CASE r # i
    <3>1. Copies(r)' = Copies(r)
      <4>1. \A k \in (n + 1)..(n + m) : entered'[k][1] # r
        BY <1>2, <2>2
      <4>2. /\ Copies(r)' = {k \in 1..(n + m) : entered'[k][1] = r}
            /\ Copies(r) = {k \in 1..n : entered[k][1] = r}
        BY <1>2 DEF Copies, n
      <4>3. \A k \in 1..n : k \in 1..(n + m)
        BY <1>2
      <4> QED
        BY <1>2, <1>3, <4>1, <4>2, <4>3
    <3>2. GotOf(r)' = Cardinality(Copies(r)') /\ GotOf(r) = Cardinality(Copies(r))
      BY DEF GotOf, Copies
    <3> QED
      BY <2>2, <3>1, <3>2
  <2> QED
    BY <2>1, <2>2
<1>6. \A k \in (n + 1)..(n + m) : entered'[k][1] = i /\ entered'[k][2] = k - n
  BY <1>2
<1>7. \A k \in 1..Len(entered') : entered'[k][1] \in Requests'
  <2>1. \A k \in 1..n : entered[k][1] \in Requests
    BY DEF Contents, n
  <2> QED
    BY <1>1, <1>2, <1>3, <1>6, <2>1
<1>8. ASSUME NEW k \in 1..Len(entered'), entered'[k][2] > 1
      PROVE  k > 1 /\ entered'[k - 1] = <<entered'[k][1], entered'[k][2] - 1>>
  <2>1. CASE k \in 1..n
    <3>1. k > 1 /\ entered[k - 1] = <<entered[k][1], entered[k][2] - 1>>
      BY <1>2, <1>8, <2>1 DEF Contents, n
    <3>2. k - 1 \in 1..n
      BY <1>2, <2>1, <3>1
    <3> QED
      BY <1>2, <2>1, <3>1, <3>2
  <2>2. CASE k \in (n + 1)..(n + m)
    <3>1. k - n > 1
      BY <1>6, <1>8, <2>2
    <3>2. k > 1 /\ k - 1 \in (n + 1)..(n + m)
      BY <1>2, <2>2, <3>1
    <3>3. entered'[k - 1] = <<i, (k - 1) - n>> /\ (k - 1) - n = (k - n) - 1
      BY <1>2, <2>2, <3>2
    <3> QED
      BY <1>6, <2>2, <3>2, <3>3
  <2> QED
    BY <1>2, <1>3, <2>1, <2>2
<1>9. ASSUME NEW r \in Requests, NEW j \in Nat
      PROVE  <<r, j>> \in Range(entered)' <=> j \in 1..GotOf(r)'
  <2>1. <<r, j>> \in Range(entered)' <=> \E k \in 1..(n + m) : entered'[k] = <<r, j>>
    BY <1>2, InRange
  <2>2. <<r, j>> \in Range(entered) <=> \E k \in 1..n : entered[k] = <<r, j>>
    BY <1>1, InRange DEF n
  <2>3. CASE r = i
    <3>1. \A k \in 1..n : entered'[k] # <<r, j>>
      BY <1>2, <1>4, <2>3
    <3>2. (\E k \in 1..(n + m) : entered'[k] = <<r, j>>) => j \in 1..m
      <4>1. ASSUME NEW k \in 1..(n + m), entered'[k] = <<r, j>> PROVE j \in 1..m
        <5>1. k \in (n + 1)..(n + m)
          BY <1>3, <3>1, <4>1
        <5>2. j = k - n
          BY <1>6, <4>1, <5>1
        <5> QED
          BY <1>2, <5>1, <5>2
      <4> QED
        BY <4>1
    <3>3. ASSUME j \in 1..m PROVE \E k \in 1..(n + m) : entered'[k] = <<r, j>>
      <4>1. n + j \in (n + 1)..(n + m) /\ n + j \in 1..(n + m) /\ (n + j) - n = j
        BY <1>2, <3>3
      <4>2. entered'[n + j] = <<i, (n + j) - n>>
        BY <1>2, <4>1
      <4> QED
        BY <2>3, <4>1, <4>2
    <3> QED
      BY <1>5, <2>1, <2>3, <3>2, <3>3
  <2>4. CASE r # i
    <3>1. \A k \in (n + 1)..(n + m) : entered'[k] # <<r, j>>
      BY <1>2, <2>4
    <3>2. \A k \in 1..n : k \in 1..(n + m)
      BY <1>2
    <3>3. (\E k \in 1..(n + m) : entered'[k] = <<r, j>>) <=> (\E k \in 1..n : entered[k] = <<r, j>>)
      BY <1>2, <1>3, <3>1, <3>2
    <3>4. <<r, j>> \in Range(entered) <=> j \in 1..GotOf(r)
      BY DEF Contents
    <3> QED
      BY <1>5, <2>1, <2>2, <2>4, <3>3, <3>4
  <2> QED
    BY <2>3, <2>4
<1>10. Contents'
  BY <1>7, <1>8, <1>9 DEF Contents
<1> QED
  BY <1>2, <1>5, <1>6, <1>10 DEF i, n

LEMMA ContentsReceive ==
  ASSUME Ledger, Stored, Contents, entered' = entered, NEW n,
         Requests' = Requests \cup {n}, n \notin Requests
  PROVE  Contents' /\ GotOf(n)' = 0 /\ \A r \in Requests : GotOf(r)' = GotOf(r)
<1>1. entered \in Seq(Event) /\ \A k \in 1..Len(entered) : entered[k][1] # n
  BY DEF Stored, Contents
<1>2. \A r : GotOf(r)' = GotOf(r)
  BY DEF GotOf
<1>3. GotOf(n) = 0
  <2>1. Copies(n) = {}
    BY <1>1 DEF Copies
  <2> QED
    BY <1>1, <2>1, GotNat
<1>4. ASSUME NEW j \in Nat PROVE <<n, j>> \notin Range(entered)
  BY <1>1, InRange
<1>5. Range(entered)' = Range(entered)
  OBVIOUS
<1>6. \A j \in Nat : j \notin 1..GotOf(n)
  BY <1>3
<1>7. \A r \in Requests', j \in Nat : <<r, j>> \in Range(entered)' <=> j \in 1..GotOf(r)'
  <2>1. \A r \in Requests, j \in Nat : <<r, j>> \in Range(entered) <=> j \in 1..GotOf(r)
    BY DEF Contents
  <2>2. \A j \in Nat : <<n, j>> \in Range(entered) <=> j \in 1..GotOf(n)
    BY <1>4, <1>6
  <2> QED
    BY <1>2, <1>5, <2>1, <2>2
<1>8. \A k \in 1..Len(entered') : entered'[k][1] \in Requests'
  BY DEF Contents
<1> QED
  BY <1>2, <1>3, <1>7, <1>8 DEF Contents

-----------------------------------------------------------------------------
\* How much of a request got in, stage by stage.

Untaken == {"check", "rejected", "refusedFull", "queue_full", "refused"}
LostAll == {"rejected", "refusedFull", "queue_full"}
LostSome == {"dropped", "droppedFull"}
Took == {"accepted", "read", "store", "ok"}

Progress ==
  \A r \in Requests :
    /\ GotOf(r) \in 0..Width(r)
    /\ In(r, Untaken) => GotOf(r) = 0
    /\ In(r, LostAll) => Width(r) > 0
    /\ In(r, LostSome) => dropPolicy = "drop_newest" /\ GotOf(r) < Width(r)
    /\ In(r, Took) /\ dropPolicy = "reject" => GotOf(r) = Width(r)

LEMMA Groups ==
  /\ Untaken \in SUBSET Stages /\ LostAll \in SUBSET Stages
  /\ LostSome \in SUBSET Stages /\ Took \in SUBSET Stages
BY DEF Untaken, LostAll, LostSome, Took, Stages, Places

\* A step beside the queue.
LEMMA ProgressShift ==
  ASSUME Progress, NEW i, NEW a, NEW b, Shift(i, a, b), entered' = entered,
         b \in Untaken => a \in Untaken, b \in LostAll => a \in LostAll,
         b \in LostSome => a \in LostSome, b \in Took => a \in Took \cup LostSome
  PROVE  Progress'
<1>1. /\ i \in Requests /\ Requests' = Requests /\ content' = content
      /\ dropPolicy' = dropPolicy
      /\ \A S \in SUBSET Stages : In(i, S) <=> a \in S
      /\ \A r \in Requests, S \in SUBSET Stages :
           In(r, S)' <=> IF r = i THEN b \in S ELSE In(r, S)
  BY DEF Shift
<1>2. \A r : GotOf(r)' = GotOf(r) /\ Width(r)' = Width(r)
  BY <1>1 DEF GotOf, Width
<1>3. SUFFICES ASSUME NEW r \in Requests
               PROVE  /\ GotOf(r) \in 0..Width(r)
                      /\ In(r, Untaken)' => GotOf(r) = 0
                      /\ In(r, LostAll)' => Width(r) > 0
                      /\ In(r, LostSome)' => dropPolicy = "drop_newest" /\ GotOf(r) < Width(r)
                      /\ In(r, Took)' /\ dropPolicy = "reject" => GotOf(r) = Width(r)
  BY <1>1, <1>2 DEF Progress
<1>4. /\ GotOf(r) \in 0..Width(r)
      /\ In(r, Untaken) => GotOf(r) = 0
      /\ In(r, LostAll) => Width(r) > 0
      /\ In(r, LostSome) => dropPolicy = "drop_newest" /\ GotOf(r) < Width(r)
      /\ In(r, Took) /\ dropPolicy = "reject" => GotOf(r) = Width(r)
  BY DEF Progress
<1>5. CASE r = i
  <2>1. /\ In(r, Untaken) <=> a \in Untaken
        /\ In(r, LostAll) <=> a \in LostAll
        /\ In(r, LostSome) <=> a \in LostSome
        /\ In(r, Took) <=> a \in Took
    BY <1>1, <1>5, Groups
  <2>2. /\ In(r, Untaken)' <=> b \in Untaken
        /\ In(r, LostAll)' <=> b \in LostAll
        /\ In(r, LostSome)' <=> b \in LostSome
        /\ In(r, Took)' <=> b \in Took
    BY <1>1, <1>5, Groups
  <2> QED
    BY <1>4, <2>1, <2>2
<1>6. CASE r # i
  <2>1. /\ In(r, Untaken)' <=> In(r, Untaken)
        /\ In(r, LostAll)' <=> In(r, LostAll)
        /\ In(r, LostSome)' <=> In(r, LostSome)
        /\ In(r, Took)' <=> In(r, Took)
    BY <1>1, <1>6, Groups
  <2> QED
    BY <1>4, <2>1
<1> QED
  BY <1>5, <1>6

\* A step that puts m events of request i into the queue.
LEMMA ProgressPuts ==
  ASSUME Ledger, Progress, NEW i, NEW m, NEW b, Shift(i, "check", b),
         \A r \in Requests : GotOf(r)' = IF r = i THEN m ELSE GotOf(r),
         \/ b = "accepted" /\ m = Width(i)
         \/ b = "rejected" /\ m = 0 /\ Width(i) > 0
         \/ b = "dropped" /\ m \in 0..Width(i) /\ m < Width(i) /\ dropPolicy = "drop_newest"
  PROVE  Progress'
<1>1. /\ i \in Requests /\ Requests' = Requests /\ content' = content
      /\ dropPolicy' = dropPolicy
      /\ \A r \in Requests, S \in SUBSET Stages :
           In(r, S)' <=> IF r = i THEN b \in S ELSE In(r, S)
  BY DEF Shift
<1>2. \A r : Width(r)' = Width(r)
  BY <1>1 DEF Width
<1>3. SUFFICES ASSUME NEW r \in Requests
               PROVE  /\ GotOf(r)' \in 0..Width(r)
                      /\ In(r, Untaken)' => GotOf(r)' = 0
                      /\ In(r, LostAll)' => Width(r) > 0
                      /\ In(r, LostSome)' => dropPolicy = "drop_newest" /\ GotOf(r)' < Width(r)
                      /\ In(r, Took)' /\ dropPolicy = "reject" => GotOf(r)' = Width(r)
  BY <1>1, <1>2 DEF Progress
<1>4. Width(r) \in Nat
  BY Serves DEF Width
<1>5. CASE r = i
  <2>1. /\ In(r, Untaken)' <=> b \in Untaken
        /\ In(r, LostAll)' <=> b \in LostAll
        /\ In(r, LostSome)' <=> b \in LostSome
        /\ In(r, Took)' <=> b \in Took
    BY <1>1, <1>5, Groups
  <2>2. GotOf(r)' = m
    BY <1>5
  <2>3. CASE b = "accepted" /\ m = Width(i)
    BY <1>4, <1>5, <2>1, <2>2, <2>3 DEF Untaken, LostAll, LostSome
  <2>4. CASE b = "rejected" /\ m = 0 /\ Width(i) > 0
    BY <1>4, <1>5, <2>1, <2>2, <2>4 DEF LostSome, Took
  <2>5. CASE b = "dropped" /\ m \in 0..Width(i) /\ m < Width(i) /\ dropPolicy = "drop_newest"
    BY <1>4, <1>5, <2>1, <2>2, <2>5 DEF Untaken, LostAll, Took
  <2> QED
    BY <2>3, <2>4, <2>5
<1>6. CASE r # i
  <2>1. /\ In(r, Untaken)' <=> In(r, Untaken)
        /\ In(r, LostAll)' <=> In(r, LostAll)
        /\ In(r, LostSome)' <=> In(r, LostSome)
        /\ In(r, Took)' <=> In(r, Took)
    BY <1>1, <1>6, Groups
  <2>2. GotOf(r)' = GotOf(r)
    BY <1>6
  <2> QED
    BY <2>1, <2>2 DEF Progress
<1> QED
  BY <1>5, <1>6

-----------------------------------------------------------------------------
\* The part of the invariant that the counters rest on.
Safe == Ledger /\ Stored /\ Contents /\ Progress

LEMMA SafeInit ==
  Init => Safe
<1>1. SUFFICES ASSUME Init PROVE Safe
  OBVIOUS
<1>2. /\ content = <<>> /\ code = <<>> /\ entered = <<>> /\ queue = <<>>
      /\ MaxQueueSize \in Nat /\ MaxRequests \in Nat
  <2>1. MaxQueueSize \in Nat /\ MaxRequests \in Nat
    BY HttpApiAssumption
  <2>2. content = <<>> /\ code = <<>> /\ entered = <<>>
    BY <1>1 DEF Init
  <2>3. queue = <<>>
    BY <1>1 DEF Init, Q!Init
  <2> QED
    BY <2>1, <2>2, <2>3
<1>3. Requests = {} /\ Len(content) = 0 /\ Len(entered) = 0 /\ Len(queue) = 0
  BY <1>2 DEF Requests
<1>4. Ledger
  <2>1. content \in Seq(Request) /\ code \in Seq(Codes \cup {""})
    BY <1>2
  <2>2. /\ pc \in [Handler -> Places \cup {"idle"}] /\ \A h \in Handler : pc[h] = "idle"
        /\ serving \in [Handler -> 0..MaxRequests]
        /\ dropPolicy \in {"reject", "drop_newest"}
    <3>1. /\ pc = [h \in Handler |-> "idle"] /\ serving = [h \in Handler |-> 0]
          /\ dropPolicy \in {"reject", "drop_newest"}
      BY <1>1 DEF Init
    <3>2. 0 \in 0..MaxRequests /\ "idle" \in Places \cup {"idle"}
      BY <1>2
    <3> QED
      BY <3>1, <3>2
  <2> QED
    BY <1>2, <1>3, <2>1, <2>2 DEF Ledger
<1>5. Stored
  <2>1. capacity = MaxQueueSize /\ notifyCh = FALSE
    BY <1>1 DEF Init, Q!Init
  <2>2. /\ depth = [g \in Handler \cup {Batcher} |-> 0]
        /\ consumer = "select" /\ looping = FALSE /\ queuedCurrent = 0
    BY <1>1 DEF Init
  <2>3. 0 \in 0..MaxQueueSize
    BY <1>2
  <2>4. queue \in Seq(Event) /\ entered \in Seq(Event)
    BY <1>2
  <2>5. depth \in [Handler \cup {Batcher} -> 0..MaxQueueSize]
    BY <2>2, <2>3
  <2>6. Len(queue) <= capacity /\ queuedCurrent \in 0..MaxQueueSize
    BY <1>2, <1>3, <2>1, <2>2
  <2>7. notifyCh \in BOOLEAN /\ looping \in BOOLEAN
    BY <2>1, <2>2
  <2> QED
    BY <2>1, <2>2, <2>4, <2>5, <2>6, <2>7, Zenon DEF Stored
<1>6. Contents /\ Progress
  BY <1>3 DEF Contents, Progress
<1> QED
  BY <1>4, <1>5, <1>6 DEF Safe

\* The steps beside the queue.
LEMMA StepStored ==
  ASSUME Ledger, Stored, NEW h \in Handler,
         \/ Refuse(h) \/ IncRejected(h) \/ IncDropped(h) \/ IncQueueFull(h) \/ IncAccepted(h)
         \/ ReadLen(h) \/ SetQueueDepth(h)
  PROVE  Stored' /\ entered' = entered
<1>1. /\ queue' = queue /\ capacity' = capacity /\ notifyCh' = notifyCh
      /\ entered' = entered /\ consumer' = consumer /\ looping' = looping
  BY DEF Refuse, IncRejected, IncDropped, IncQueueFull, IncAccepted, AddAccepted, ReadLen,
         SetQueueDepth, KeepHandler, KeepConsumer, queueVars
<1>2. /\ queue \in Seq(Event) /\ Len(queue) <= capacity /\ capacity = MaxQueueSize
      /\ depth \in [Handler \cup {Batcher} -> 0..MaxQueueSize]
      /\ queuedCurrent \in 0..MaxQueueSize /\ MaxQueueSize \in Nat
  BY HttpApiAssumption DEF Stored
<1>3. Len(queue) \in 0..MaxQueueSize /\ 0 \in 0..MaxQueueSize
  BY <1>2, LenProperties
<1>4. /\ depth' \in [Handler \cup {Batcher} -> 0..MaxQueueSize]
      /\ queuedCurrent' \in 0..MaxQueueSize
  <2>1. CASE ReadLen(h)
    BY <1>2, <1>3, <2>1 DEF ReadLen, KeepHandler
  <2>2. CASE SetQueueDepth(h)
    BY <1>2, <1>3, <2>2 DEF SetQueueDepth
  <2>3. CASE ~ReadLen(h) /\ ~SetQueueDepth(h)
    <3>1. depth' = depth /\ queuedCurrent' = queuedCurrent
      BY <2>3 DEF Refuse, IncRejected, IncDropped, IncQueueFull, IncAccepted, AddAccepted,
                  KeepHandler
    <3> QED
      BY <1>2, <3>1
  <2> QED
    BY <2>1, <2>2, <2>3
<1> QED
  BY <1>1, <1>4 DEF Stored

\* A step beside the queue keeps what is known of the queue's history.
LEMMA ShiftSafe ==
  ASSUME Safe, Ledger', Stored', NEW i, NEW a, NEW b, Shift(i, a, b), entered' = entered,
         b \in Untaken => a \in Untaken, b \in LostAll => a \in LostAll,
         b \in LostSome => a \in LostSome, b \in Took => a \in Took \cup LostSome
  PROVE  Safe'
<1>1. Progress'
  BY ProgressShift DEF Safe
<1>2. Requests' = Requests
  BY DEF Shift
<1>3. Contents'
  <2>1. Contents
    BY DEF Safe
  <2> QED
    BY <1>2, <2>1 DEF Contents, GotOf
<1> QED
  BY <1>1, <1>3 DEF Safe

\* A step of the queue.
LEMMA PutsSafe ==
  ASSUME Safe, Ledger', Stored', NEW h \in Handler, pc[h] = "check", NEW m \in Nat, NEW b,
         PutsIn(h, m), Shift(serving[h], "check", b),
         \/ b = "accepted" /\ m = Width(serving[h])
         \/ b = "rejected" /\ m = 0 /\ Width(serving[h]) > 0
         \/ /\ b = "dropped" /\ m \in 0..Width(serving[h]) /\ m < Width(serving[h])
            /\ dropPolicy = "drop_newest"
  PROVE  /\ Safe' /\ GotOf(serving[h]) = 0
         /\ Len(entered') = Len(entered) + m
         /\ \A k \in 1..Len(entered) : entered'[k] = entered[k]
         /\ \A k \in (Len(entered) + 1)..(Len(entered) + m) : entered'[k][1] = serving[h]
         /\ \A r \in Requests : GotOf(r)' = IF r = serving[h] THEN m ELSE GotOf(r)
<1>1. Ledger /\ Stored /\ Contents /\ Progress
  BY DEF Safe
<1>2. serving[h] \in Requests /\ Requests' = Requests
  BY DEF Shift
<1>3. GotOf(serving[h]) = 0
  <2>1. In(serving[h], Untaken)
    BY Groups DEF Shift, Untaken
  <2> QED
    BY <1>1, <1>2, <2>1 DEF Progress
<1>4. /\ Contents' /\ Len(entered') = Len(entered) + m
      /\ \A k \in 1..Len(entered) : entered'[k] = entered[k]
      /\ \A k \in (Len(entered) + 1)..(Len(entered) + m) : entered'[k][1] = serving[h]
      /\ \A r \in Requests : GotOf(r)' = IF r = serving[h] THEN m ELSE GotOf(r)
  BY <1>1, <1>2, <1>3, ContentsPuts
<1>5. Progress'
  BY <1>1, <1>4, ProgressPuts
<1> QED
  BY <1>3, <1>4, <1>5 DEF Safe

LEMMA HandlerSafe ==
  ASSUME Safe, NEW h \in Handler, HandlerStep(h)
  PROVE  Safe'
<1>1. Ledger /\ Stored
  BY DEF Safe
<1>2. CASE Refuse(h)
  <2>1. Ledger' /\ Shift(serving[h], "check", "refused")
    BY <1>1, <1>2, RefuseShifts
  <2>2. Stored' /\ entered' = entered
    BY <1>1, <1>2, StepStored
  <2> QED
    BY <2>1, <2>2, ShiftSafe DEF Untaken, LostAll, LostSome, Took
<1>3. CASE Enqueue(h)
  <2>1. /\ Stored' /\ dropPolicy = "reject" /\ pc[h] = "check"
        /\ \/ PutsIn(h, Width(serving[h])) /\ Goto(h, "accepted")
           \/ PutsIn(h, 0) /\ Width(serving[h]) > 0 /\ Goto(h, "rejected")
    BY <1>1, <1>3, EnqueuePuts
  <2>2. Width(serving[h]) \in Nat
    BY <1>1, <2>1, EnrichedBlock
  <2>3. CASE PutsIn(h, Width(serving[h])) /\ Goto(h, "accepted")
    <3>1. Ledger' /\ Shift(serving[h], "check", "accepted")
      BY <1>1, <1>3, <2>3, EnqueueShifts DEF Places
    <3> QED
      BY <2>1, <2>2, <2>3, <3>1, PutsSafe
  <2>4. CASE PutsIn(h, 0) /\ Width(serving[h]) > 0 /\ Goto(h, "rejected")
    <3>1. Ledger' /\ Shift(serving[h], "check", "rejected")
      BY <1>1, <1>3, <2>4, EnqueueShifts DEF Places
    <3> QED
      BY <2>1, <2>2, <2>4, <3>1, PutsSafe
  <2> QED
    BY <2>1, <2>3, <2>4
<1>4. CASE DropNewest(h)
  <2>1. Stored' /\ dropPolicy = "drop_newest" /\ pc[h] = "check"
    BY <1>1, <1>4, DropNewestPuts
  <2>2. PICK m \in 0..Width(serving[h]) :
          /\ PutsIn(h, m)
          /\ Goto(h, IF m < Width(serving[h]) THEN "dropped" ELSE "accepted")
    BY <1>1, <1>4, DropNewestPuts
  <2>3. Width(serving[h]) \in Nat /\ m \in Nat
    BY <1>1, <2>1, EnrichedBlock
  <2>4. CASE m < Width(serving[h])
    <3>1. Ledger' /\ Shift(serving[h], "check", "dropped")
      BY <1>1, <1>4, <2>2, <2>4, EnqueueShifts DEF Places
    <3> QED
      BY <2>1, <2>2, <2>3, <2>4, <3>1, PutsSafe
  <2>5. CASE ~(m < Width(serving[h]))
    <3>1. Ledger' /\ Shift(serving[h], "check", "accepted")
      BY <1>1, <1>4, <2>2, <2>5, EnqueueShifts DEF Places
    <3>2. m = Width(serving[h])
      BY <2>3, <2>5
    <3> QED
      BY <2>1, <2>2, <2>3, <3>1, <3>2, PutsSafe
  <2> QED
    BY <2>4, <2>5
<1>5. CASE IncRejected(h)
  <2>1. Ledger' /\ Shift(serving[h], "rejected", "refusedFull")
    BY <1>1, <1>5, CountShifts
  <2>2. Stored' /\ entered' = entered
    BY <1>1, <1>5, StepStored
  <2> QED
    BY <2>1, <2>2, ShiftSafe DEF Untaken, LostAll, LostSome, Took
<1>6. CASE IncDropped(h)
  <2>1. Ledger' /\ Shift(serving[h], "dropped", "droppedFull")
    BY <1>1, <1>6, CountShifts
  <2>2. Stored' /\ entered' = entered
    BY <1>1, <1>6, StepStored
  <2> QED
    BY <2>1, <2>2, ShiftSafe DEF Untaken, LostAll, LostSome, Took
<1>7. CASE IncQueueFull(h)
  <2>1. /\ Ledger'
        /\ \/ Shift(serving[h], "refusedFull", "queue_full")
           \/ Shift(serving[h], "droppedFull", "accepted")
    BY <1>1, <1>7, CountShifts
  <2>2. Stored' /\ entered' = entered
    BY <1>1, <1>7, StepStored
  <2>3. CASE Shift(serving[h], "refusedFull", "queue_full")
    BY <2>1, <2>2, <2>3, ShiftSafe DEF Untaken, LostAll, LostSome, Took
  <2>4. CASE Shift(serving[h], "droppedFull", "accepted")
    BY <2>1, <2>2, <2>4, ShiftSafe DEF Untaken, LostAll, LostSome, Took
  <2> QED
    BY <2>1, <2>3, <2>4
<1>8. CASE IncAccepted(h)
  <2>1. Ledger' /\ Shift(serving[h], "accepted", "read")
    BY <1>1, <1>8, CountShifts
  <2>2. Stored' /\ entered' = entered
    BY <1>1, <1>8, StepStored
  <2> QED
    BY <2>1, <2>2, ShiftSafe DEF Untaken, LostAll, LostSome, Took
<1>9. CASE ReadLen(h)
  <2>1. Ledger' /\ Shift(serving[h], "read", "store")
    BY <1>1, <1>9, CountShifts
  <2>2. Stored' /\ entered' = entered
    BY <1>1, <1>9, StepStored
  <2> QED
    BY <2>1, <2>2, ShiftSafe DEF Untaken, LostAll, LostSome, Took
<1>10. CASE SetQueueDepth(h)
  <2>1. Ledger' /\ Shift(serving[h], "store", "ok")
    BY <1>1, <1>10, CountShifts
  <2>2. Stored' /\ entered' = entered
    BY <1>1, <1>10, StepStored
  <2> QED
    BY <2>1, <2>2, ShiftSafe DEF Untaken, LostAll, LostSome, Took
<1> QED
  BY <1>2, <1>3, <1>4, <1>5, <1>6, <1>7, <1>8, <1>9, <1>10 DEF HandlerStep

LEMMA ReceiveSafe ==
  ASSUME Safe, NEW h \in Handler, NEW q \in Request, Receive(h, q)
  PROVE  Safe' /\ \A r \in Requests : GotOf(r)' = GotOf(r)
<1>0. PICK n : n = Len(content) + 1
  OBVIOUS
<1>1. Ledger /\ Stored /\ Contents /\ Progress
  BY DEF Safe
<1>2. /\ Ledger' /\ Requests' = Requests \cup {n} /\ n \notin Requests
      /\ \A r \in Requests : content'[r] = content[r]
      /\ \A r \in Requests \cup {n}, S \in SUBSET Stages :
           In(r, S)' <=> IF r \in Requests THEN In(r, S) ELSE "check" \in S
  BY <1>0, <1>1, ReceiveLedger
<1>3. entered' = entered /\ dropPolicy' = dropPolicy
  BY DEF Receive, KeepConsumer
<1>4. Stored'
  BY <1>1 DEF Receive, KeepConsumer, queueVars, Stored
<1>5. Contents' /\ GotOf(n)' = 0 /\ \A r \in Requests : GotOf(r)' = GotOf(r)
  BY <1>1, <1>2, <1>3, ContentsReceive
<1>6. ASSUME NEW r \in Requests'
      PROVE  /\ GotOf(r)' \in 0..Width(r)'
             /\ In(r, Untaken)' => GotOf(r)' = 0
             /\ In(r, LostAll)' => Width(r)' > 0
             /\ In(r, LostSome)' => dropPolicy' = "drop_newest" /\ GotOf(r)' < Width(r)'
             /\ In(r, Took)' /\ dropPolicy' = "reject" => GotOf(r)' = Width(r)'
  <2>1. CASE r \in Requests
    <3>1. /\ In(r, Untaken)' <=> In(r, Untaken)
          /\ In(r, LostAll)' <=> In(r, LostAll)
          /\ In(r, LostSome)' <=> In(r, LostSome)
          /\ In(r, Took)' <=> In(r, Took)
      BY <1>2, <2>1, Groups
    <3>2. GotOf(r)' = GotOf(r) /\ Width(r)' = Width(r)
      BY <1>2, <1>5, <2>1 DEF Width
    <3> QED
      BY <1>1, <1>3, <2>1, <3>1, <3>2 DEF Progress
  <2>2. CASE r = n
    <3>1. ~In(r, LostAll)' /\ ~In(r, LostSome)' /\ ~In(r, Took)'
      <4>1. "check" \notin LostAll /\ "check" \notin LostSome /\ "check" \notin Took
        BY DEF LostAll, LostSome, Took
      <4> QED
        BY <1>2, <2>2, <4>1, Groups
    <3>2. Width(r)' \in Nat
      <4>1. content' \in Seq(Request) /\ r \in 1..Len(content')
        BY <1>2 DEF Ledger, Requests
      <4> QED
        BY <4>1, RequestAt DEF Width
    <3>3. GotOf(r)' = 0
      BY <1>5, <2>2
    <3> QED
      BY <3>1, <3>2, <3>3
  <2> QED
    BY <1>2, <2>1, <2>2
<1>7. Progress'
  BY <1>6 DEF Progress
<1> QED
  BY <1>2, <1>4, <1>5, <1>7 DEF Safe

LEMMA BatcherSafe ==
  ASSUME Safe, BatcherStep
  PROVE  Safe' /\ UNCHANGED <<handlerVars, counters>>
<1>1. UNCHANGED <<dropPolicy, handlerVars, counters>>
  BY DEF BatcherStep, Wake, Flush, LoopReturns, LoopEnds, BatcherReadsLen,
         BatcherSetsQueueDepth, KeepHandlers
<1>2. /\ pc' = pc /\ serving' = serving /\ content' = content /\ code' = code
      /\ entered' = entered /\ dropPolicy' = dropPolicy
  BY <1>1 DEF handlerVars
<1>3. Ledger' /\ Contents' /\ Progress'
  <2>1. Ledger /\ Contents /\ Progress
    BY DEF Safe
  <2>2. Requests' = Requests
    BY <1>2 DEF Requests
  <2>3. Ledger'
    BY <1>2, <2>1, <2>2 DEF Ledger
  <2>4. \A r : GotOf(r)' = GotOf(r) /\ Width(r)' = Width(r)
    BY <1>2 DEF GotOf, Width
  <2>5. Contents'
    BY <1>2, <2>1, <2>2, <2>4 DEF Contents
  <2>6. \A r, S : In(r, S)' <=> In(r, S)
    BY <1>2 DEF In
  <2>7. Progress'
    BY <1>2, <2>1, <2>2, <2>4, <2>6 DEF Progress
  <2> QED
    BY <2>3, <2>5, <2>7
<1>4. Stored'
  <2>1. /\ queue \in Seq(Event) /\ Len(queue) <= capacity /\ capacity = MaxQueueSize
        /\ notifyCh \in BOOLEAN
        /\ depth \in [Handler \cup {Batcher} -> 0..MaxQueueSize]
        /\ entered \in Seq(Event) /\ queuedCurrent \in 0..MaxQueueSize
        /\ consumer \in {"select", "loop", "read", "store"} /\ looping \in BOOLEAN
    BY DEF Safe, Stored
  <2>2. Len(queue) \in Nat /\ MaxQueueSize \in Nat /\ MaxBatchSize \in Nat
    BY <2>1, HttpApiAssumption, LenProperties
  <2>3. CASE Wake
    BY <1>2, <2>1, <2>3 DEF Wake, Stored
  <2>4. CASE Flush
    <3> DEFINE d == Q!DrainCount(MaxBatchSize)
    <3>1. d \in 0..Len(queue)
      BY <2>2 DEF Q!DrainCount
    <3>2. /\ queue' = SubSeq(queue, d + 1, Len(queue)) /\ capacity' = capacity
          /\ notifyCh' = notifyCh
      BY <2>4 DEF Flush, Q!Drain
    <3> HIDE DEF d
    <3>3. \A k \in (d + 1)..Len(queue) : queue[k] \in Event
      <4>1. \A k \in (d + 1)..Len(queue) : k \in 1..Len(queue)
        BY <2>2, <3>1
      <4> QED
        BY <2>1, <4>1, ElementOfSeq
    <3>4. queue' \in Seq(Event) /\ Len(queue') <= Len(queue)
      <4>1. d + 1 \in Int /\ Len(queue) \in Int
        BY <2>2, <3>1
      <4>2. /\ SubSeq(queue, d + 1, Len(queue)) \in Seq(Event)
            /\ Len(SubSeq(queue, d + 1, Len(queue))) =
                 IF d + 1 <= Len(queue) THEN Len(queue) - (d + 1) + 1 ELSE 0
        BY <3>3, <4>1, SubSeqProperties
      <4> QED
        BY <2>2, <3>1, <3>2, <4>2
    <3>5. Len(queue') <= capacity'
      <4>1. Len(queue') \in Nat
        BY <3>4, LenProperties
      <4> QED
        BY <2>1, <2>2, <3>2, <3>4, <4>1
    <3>6. /\ depth' = depth /\ queuedCurrent' = queuedCurrent /\ consumer' = "read"
          /\ looping' \in BOOLEAN
      BY <2>4 DEF Flush
    <3> QED
      BY <1>2, <2>1, <3>2, <3>4, <3>5, <3>6 DEF Stored
  <2>5. CASE LoopReturns
    BY <1>2, <2>1, <2>5 DEF LoopReturns, LoopEnds, Stored, queueVars
  <2>6. CASE BatcherReadsLen
    <3>1. Len(queue) \in 0..MaxQueueSize
      BY <2>1, <2>2
    <3>2. depth' \in [Handler \cup {Batcher} -> 0..MaxQueueSize]
      BY <2>1, <2>6, <3>1 DEF BatcherReadsLen
    <3> QED
      BY <1>2, <2>1, <2>6, <3>2 DEF BatcherReadsLen, Stored, queueVars
  <2>7. CASE BatcherSetsQueueDepth
    <3>1. 0 \in 0..MaxQueueSize /\ depth[Batcher] \in 0..MaxQueueSize
      BY <2>1, <2>2
    <3>2. depth' \in [Handler \cup {Batcher} -> 0..MaxQueueSize]
      BY <2>1, <2>7, <3>1 DEF BatcherSetsQueueDepth
    <3>3. consumer' \in {"select", "loop", "read", "store"} /\ looping' \in BOOLEAN
      BY <2>7 DEF BatcherSetsQueueDepth
    <3> QED
      BY <1>2, <2>1, <2>7, <3>1, <3>2, <3>3 DEF BatcherSetsQueueDepth, Stored, queueVars
  <2> QED
    BY <2>3, <2>4, <2>5, <2>6, <2>7 DEF BatcherStep
<1> QED
  BY <1>1, <1>3, <1>4 DEF Safe

-----------------------------------------------------------------------------
\* What each counter has counted so far.

CountedStages == {"read", "store", "ok"}
PassedStages == {"droppedFull", "accepted", "read", "store", "ok"}
RefusedStages == {"refusedFull", "queue_full", "refused"}

\* What IncRejected is given for request r, by the checks or by the full queue.
RefusedFor(r) == IF In(r, {"refused"}) THEN RejectedFor(content[r]) ELSE Width(r)

CountedIn == {k \in 1..Len(entered) : In(entered[k][1], CountedStages)}
CountedOut ==
  {p \in Requests \X Nat : /\ In(p[1], PassedStages)
                           /\ GotOf(p[1]) < p[2] /\ p[2] <= Width(p[1])}
CountedRefused ==
  {p \in Requests \X Nat : In(p[1], RefusedStages) /\ 0 < p[2] /\ p[2] <= RefusedFor(p[1])}
CountedFull ==
  {r \in Requests : In(r, {"queue_full"}) \/ (In(r, Took) /\ GotOf(r) < Width(r))}

Counts ==
  /\ IsFiniteSet(CountedIn) /\ acceptedEvents = Cardinality(CountedIn)
  /\ IsFiniteSet(CountedOut) /\ droppedEvents = Cardinality(CountedOut)
  /\ IsFiniteSet(CountedRefused) /\ rejectedEvents = Cardinality(CountedRefused)
  /\ IsFiniteSet(CountedFull) /\ queueFull = Cardinality(CountedFull)

LEMMA CountGroups ==
  /\ CountedStages \in SUBSET Stages /\ PassedStages \in SUBSET Stages
  /\ RefusedStages \in SUBSET Stages
  /\ {"queue_full"} \in SUBSET Stages /\ {"refused"} \in SUBSET Stages
BY DEF CountedStages, PassedStages, RefusedStages, Stages, Places

LEMMA DisjointSum ==
  ASSUME NEW S, NEW X, IsFiniteSet(S), IsFiniteSet(X), S \cap X = {}
  PROVE  /\ IsFiniteSet(S \cup X)
         /\ Cardinality(S \cup X) = Cardinality(S) + Cardinality(X)
<1>1. /\ IsFiniteSet(S \cup X)
      /\ Cardinality(S \cup X) = Cardinality(S) + Cardinality(X) - Cardinality(S \cap X)
  BY FS_Union
<1>2. Cardinality(S \cap X) = 0
  BY FS_EmptySet
<1>3. Cardinality(S) \in Nat /\ Cardinality(X) \in Nat
  BY FS_CardinalityType
<1> QED
  BY <1>1, <1>2, <1>3

\* The pairs <<i, j>> for j from a + 1 to b.
RowOf(i, a, b) == {i} \X ((a + 1)..b)

LEMMA Row ==
  ASSUME NEW i, NEW a \in Nat, NEW b \in Nat, a <= b
  PROVE  /\ IsFiniteSet(RowOf(i, a, b))
         /\ Cardinality(RowOf(i, a, b)) = b - a
<1>1. IsFiniteSet({i}) /\ Cardinality({i}) = 1
  BY FS_Singleton
<1>2. IsFiniteSet((a + 1)..b) /\ Cardinality((a + 1)..b) = b - a
  <2>1. a + 1 \in Int /\ b \in Int
    OBVIOUS
  <2>2. /\ IsFiniteSet((a + 1)..b)
        /\ Cardinality((a + 1)..b) = IF a + 1 > b THEN 0 ELSE b - (a + 1) + 1
    BY <2>1, FS_Interval
  <2> QED
    BY <2>2
<1>3. /\ IsFiniteSet({i} \X ((a + 1)..b))
      /\ Cardinality({i} \X ((a + 1)..b)) = Cardinality({i}) * Cardinality((a + 1)..b)
  BY <1>1, <1>2, FS_Product
<1>4. 1 * (b - a) = b - a
  OBVIOUS
<1> QED
  BY <1>1, <1>2, <1>3, <1>4 DEF RowOf

LEMMA PairsGrow ==
  ASSUME NEW S, IsFiniteSet(S), NEW i, NEW a \in Nat, NEW b \in Nat, a <= b,
         \A p \in S : p[1] # i
  PROVE  /\ IsFiniteSet(S \cup RowOf(i, a, b))
         /\ Cardinality(S \cup RowOf(i, a, b)) = Cardinality(S) + (b - a)
<1> DEFINE X == RowOf(i, a, b)
<1>1. S \cap X = {}
  BY DEF RowOf
<1>2. IsFiniteSet(X) /\ Cardinality(X) = b - a
  BY Row
<1> HIDE DEF X
<1>3. IsFiniteSet(S \cup X) /\ Cardinality(S \cup X) = Cardinality(S) + Cardinality(X)
  BY <1>1, <1>2, DisjointSum
<1> QED
  BY <1>2, <1>3 DEF X

\* IncAccepted counts the events of its request that got in.
LEMMA CountedInShift ==
  ASSUME Safe, NEW i, NEW a, NEW b, Shift(i, a, b), entered' = entered,
         IsFiniteSet(CountedIn)
  PROVE  /\ (a \in CountedStages <=> b \in CountedStages) => CountedIn' = CountedIn
         /\ a \notin CountedStages /\ b \in CountedStages =>
              /\ IsFiniteSet(CountedIn')
              /\ Cardinality(CountedIn') = Cardinality(CountedIn) + GotOf(i)
<1>1. \A k \in 1..Len(entered) : entered[k][1] \in Requests
  BY DEF Safe, Contents
<1>2. /\ In(i, CountedStages) <=> a \in CountedStages
      /\ \A r \in Requests : In(r, CountedStages)' <=>
           IF r = i THEN b \in CountedStages ELSE In(r, CountedStages)
  BY CountGroups DEF Shift
<1>3. \A k : k \in CountedIn <=> k \in 1..Len(entered) /\ In(entered[k][1], CountedStages)
  BY DEF CountedIn
<1>4. \A k : k \in CountedIn' <=>
        /\ k \in 1..Len(entered)
        /\ IF entered[k][1] = i THEN b \in CountedStages ELSE In(entered[k][1], CountedStages)
  <2>1. CountedIn' = {k \in 1..Len(entered) : In(entered[k][1], CountedStages)'}
    BY DEF CountedIn
  <2> QED
    BY <1>1, <1>2, <2>1
<1>5. ASSUME a \in CountedStages <=> b \in CountedStages PROVE CountedIn' = CountedIn
  BY <1>2, <1>3, <1>4, <1>5
<1>6. ASSUME a \notin CountedStages, b \in CountedStages
      PROVE  /\ IsFiniteSet(CountedIn')
             /\ Cardinality(CountedIn') = Cardinality(CountedIn) + GotOf(i)
  <2>1. CountedIn' = CountedIn \cup Copies(i)
    BY <1>2, <1>3, <1>4, <1>6 DEF Copies
  <2>2. CountedIn \cap Copies(i) = {}
    BY <1>2, <1>3, <1>6 DEF Copies
  <2>3. IsFiniteSet(Copies(i)) /\ GotOf(i) = Cardinality(Copies(i))
    BY GotNat DEF Safe, Stored
  <2> QED
    BY <2>1, <2>2, <2>3, DisjointSum
<1> QED
  BY <1>5, <1>6

\* IncDropped counts the events of its request that did not.
LEMMA CountedOutShift ==
  ASSUME Safe, NEW i, NEW a, NEW b, Shift(i, a, b), entered' = entered,
         IsFiniteSet(CountedOut)
  PROVE  /\ (a \in PassedStages <=> b \in PassedStages) => CountedOut' = CountedOut
         /\ a \notin PassedStages /\ b \in PassedStages =>
              /\ IsFiniteSet(CountedOut')
              /\ Cardinality(CountedOut') = Cardinality(CountedOut) + (Width(i) - GotOf(i))
<1>1. i \in Requests /\ Requests' = Requests /\ content' = content
  BY DEF Shift
<1>2. /\ In(i, PassedStages) <=> a \in PassedStages
      /\ \A r \in Requests : In(r, PassedStages)' <=>
           IF r = i THEN b \in PassedStages ELSE In(r, PassedStages)
  BY CountGroups DEF Shift
<1>3. \A r : GotOf(r)' = GotOf(r) /\ Width(r)' = Width(r)
  BY <1>1 DEF GotOf, Width
<1>4. \A p : p \in CountedOut <=>
        /\ p \in Requests \X Nat /\ In(p[1], PassedStages)
        /\ GotOf(p[1]) < p[2] /\ p[2] <= Width(p[1])
  BY DEF CountedOut
<1>5. \A p : p \in CountedOut' <=>
        /\ p \in Requests \X Nat
        /\ IF p[1] = i THEN b \in PassedStages ELSE In(p[1], PassedStages)
        /\ GotOf(p[1]) < p[2] /\ p[2] <= Width(p[1])
  <2>1. CountedOut' = {p \in Requests \X Nat : /\ In(p[1], PassedStages)'
                                               /\ GotOf(p[1])' < p[2] /\ p[2] <= Width(p[1])'}
    BY <1>1 DEF CountedOut
  <2> QED
    BY <1>2, <1>3, <2>1
<1>6. ASSUME a \in PassedStages <=> b \in PassedStages PROVE CountedOut' = CountedOut
  BY <1>2, <1>4, <1>5, <1>6
<1>7. ASSUME a \notin PassedStages, b \in PassedStages
      PROVE  /\ IsFiniteSet(CountedOut')
             /\ Cardinality(CountedOut') = Cardinality(CountedOut) + (Width(i) - GotOf(i))
  <2>1. Width(i) \in Nat /\ GotOf(i) \in Nat /\ GotOf(i) <= Width(i)
    <3>1. Width(i) \in Nat
      BY <1>1, Serves DEF Safe, Width
    <3> QED
      BY <1>1, <3>1 DEF Safe, Progress
  <2>2. ASSUME NEW p
        PROVE  p \in CountedOut' <=> p \in CountedOut \cup RowOf(i, GotOf(i), Width(i))
    <3>1. CASE p \in Requests \X Nat /\ p[1] = i
      <4>1. p \notin CountedOut
        BY <1>2, <1>4, <1>7, <3>1
      <4>2. p \in CountedOut' <=> GotOf(i) < p[2] /\ p[2] <= Width(i)
        BY <1>5, <1>7, <3>1
      <4>3. p = <<i, p[2]>> /\ p[2] \in Nat
        BY <3>1
      <4>4. p[2] \in (GotOf(i) + 1)..Width(i) <=> GotOf(i) < p[2] /\ p[2] <= Width(i)
        BY <2>1, <4>3
      <4>5. p \in RowOf(i, GotOf(i), Width(i)) <=> p[2] \in (GotOf(i) + 1)..Width(i)
        BY <4>3 DEF RowOf
      <4> QED
        BY <4>1, <4>2, <4>4, <4>5
    <3>2. CASE ~(p \in Requests \X Nat /\ p[1] = i)
      <4>1. p \in CountedOut' <=> p \in CountedOut
        BY <1>4, <1>5, <3>2
      <4>2. p \notin RowOf(i, GotOf(i), Width(i))
        BY <1>1, <2>1, <3>2 DEF RowOf
      <4> QED
        BY <4>1, <4>2
    <3> QED
      BY <3>1, <3>2
  <2>3. CountedOut' = CountedOut \cup RowOf(i, GotOf(i), Width(i))
    BY <2>2
  <2>4. \A p \in CountedOut : p[1] # i
    BY <1>2, <1>4, <1>7
  <2>5. /\ IsFiniteSet(CountedOut \cup RowOf(i, GotOf(i), Width(i)))
        /\ Cardinality(CountedOut \cup RowOf(i, GotOf(i), Width(i))) =
             Cardinality(CountedOut) + (Width(i) - GotOf(i))
    BY <2>1, <2>4, PairsGrow
  <2> QED
    BY <2>3, <2>5
<1> QED
  BY <1>6, <1>7

\* IncRejected counts what its request's refusal stands for.
LEMMA CountedRefusedShift ==
  ASSUME Safe, NEW i, NEW a, NEW b, Shift(i, a, b), IsFiniteSet(CountedRefused)
  PROVE  /\ /\ a \in RefusedStages <=> b \in RefusedStages
            /\ a \in {"refused"} <=> b \in {"refused"}
            => CountedRefused' = CountedRefused
         /\ a \notin RefusedStages /\ b \in RefusedStages =>
              /\ IsFiniteSet(CountedRefused')
              /\ Cardinality(CountedRefused') = Cardinality(CountedRefused) +
                   IF b \in {"refused"} THEN RejectedFor(content[i]) ELSE Width(i)
<1>1. i \in Requests /\ Requests' = Requests /\ content' = content
  BY DEF Shift
<1>2. /\ In(i, RefusedStages) <=> a \in RefusedStages
      /\ In(i, {"refused"}) <=> a \in {"refused"}
      /\ \A r \in Requests : In(r, RefusedStages)' <=>
           IF r = i THEN b \in RefusedStages ELSE In(r, RefusedStages)
      /\ \A r \in Requests : In(r, {"refused"})' <=>
           IF r = i THEN b \in {"refused"} ELSE In(r, {"refused"})
  BY CountGroups DEF Shift
<1> DEFINE new == IF b \in {"refused"} THEN RejectedFor(content[i]) ELSE Width(i)
<1>3. \A r \in Requests : RefusedFor(r)' = IF r = i THEN new ELSE RefusedFor(r)
  <2>1. \A r : Width(r)' = Width(r)
    BY <1>1 DEF Width
  <2>2. \A r : RejectedFor(content[r])' = RejectedFor(content[r])
    BY <1>1 DEF RejectedFor
  <2> QED
    BY <1>2, <2>1, <2>2 DEF RefusedFor
<1>4. \A p : p \in CountedRefused <=>
        /\ p \in Requests \X Nat /\ In(p[1], RefusedStages)
        /\ 0 < p[2] /\ p[2] <= RefusedFor(p[1])
  BY DEF CountedRefused
<1>5. RefusedFor(i) = IF a \in {"refused"} THEN RejectedFor(content[i]) ELSE Width(i)
  BY <1>2 DEF RefusedFor
<1>6. new \in Nat
  BY <1>1, Serves, RejectedForNat DEF Safe, Width
<1> HIDE DEF new
<1>7. \A p : p \in CountedRefused' <=>
        /\ p \in Requests \X Nat
        /\ IF p[1] = i THEN b \in RefusedStages ELSE In(p[1], RefusedStages)
        /\ 0 < p[2] /\ p[2] <= IF p[1] = i THEN new ELSE RefusedFor(p[1])
  <2>1. CountedRefused' = {p \in Requests \X Nat : /\ In(p[1], RefusedStages)'
                                                   /\ 0 < p[2] /\ p[2] <= RefusedFor(p[1])'}
    BY <1>1 DEF CountedRefused
  <2> QED
    BY <1>2, <1>3, <2>1
<1>8. ASSUME a \in RefusedStages <=> b \in RefusedStages, a \in {"refused"} <=> b \in {"refused"}
      PROVE  CountedRefused' = CountedRefused
  <2>1. new = RefusedFor(i)
    BY <1>5, <1>8 DEF new
  <2> QED
    BY <1>2, <1>4, <1>7, <1>8, <2>1
<1>9. ASSUME a \notin RefusedStages, b \in RefusedStages
      PROVE  /\ IsFiniteSet(CountedRefused')
             /\ Cardinality(CountedRefused') = Cardinality(CountedRefused) + new
  <2>1. ASSUME NEW p
        PROVE  p \in CountedRefused' <=> p \in CountedRefused \cup RowOf(i, 0, new)
    <3>1. CASE p \in Requests \X Nat /\ p[1] = i
      <4>1. p \notin CountedRefused
        BY <1>2, <1>4, <1>9, <3>1
      <4>2. p \in CountedRefused' <=> 0 < p[2] /\ p[2] <= new
        BY <1>7, <1>9, <3>1
      <4>3. p = <<i, p[2]>> /\ p[2] \in Nat
        BY <3>1
      <4>4. p[2] \in (0 + 1)..new <=> 0 < p[2] /\ p[2] <= new
        BY <1>6, <4>3
      <4>5. p \in RowOf(i, 0, new) <=> p[2] \in (0 + 1)..new
        BY <4>3 DEF RowOf
      <4> QED
        BY <4>1, <4>2, <4>4, <4>5
    <3>2. CASE ~(p \in Requests \X Nat /\ p[1] = i)
      <4>1. p \in CountedRefused' <=> p \in CountedRefused
        BY <1>4, <1>7, <3>2
      <4>2. p \notin RowOf(i, 0, new)
        BY <1>1, <1>6, <3>2 DEF RowOf
      <4> QED
        BY <4>1, <4>2
    <3> QED
      BY <3>1, <3>2
  <2>2. CountedRefused' = CountedRefused \cup RowOf(i, 0, new)
    BY <2>1
  <2>3. \A p \in CountedRefused : p[1] # i
    BY <1>2, <1>4, <1>9
  <2>4. new - 0 = new /\ 0 <= new
    BY <1>6
  <2>5. /\ IsFiniteSet(CountedRefused \cup RowOf(i, 0, new))
        /\ Cardinality(CountedRefused \cup RowOf(i, 0, new)) =
             Cardinality(CountedRefused) + (new - 0)
    BY <1>6, <2>3, <2>4, PairsGrow
  <2> QED
    BY <2>2, <2>4, <2>5
<1> QED
  BY <1>8, <1>9 DEF new

\* IncQueueFull counts requests that lost events to a full queue.
LEMMA CountedFullShift ==
  ASSUME Safe, NEW i, NEW a, NEW b, Shift(i, a, b), entered' = entered,
         IsFiniteSet(CountedFull)
  PROVE  /\ /\ a \in {"queue_full"} <=> b \in {"queue_full"}
            /\ a \in Took <=> b \in Took
            => CountedFull' = CountedFull
         /\ /\ a \notin {"queue_full"} /\ a \notin Took
            /\ b \in {"queue_full"} \/ (b \in Took /\ a \in LostSome)
            => /\ IsFiniteSet(CountedFull')
               /\ Cardinality(CountedFull') = Cardinality(CountedFull) + 1
<1>1. i \in Requests /\ Requests' = Requests /\ content' = content
  BY DEF Shift
<1>2. /\ In(i, {"queue_full"}) <=> a \in {"queue_full"}
      /\ In(i, Took) <=> a \in Took
      /\ In(i, LostSome) <=> a \in LostSome
      /\ \A r \in Requests : In(r, {"queue_full"})' <=>
           IF r = i THEN b \in {"queue_full"} ELSE In(r, {"queue_full"})
      /\ \A r \in Requests : In(r, Took)' <=> IF r = i THEN b \in Took ELSE In(r, Took)
  BY Groups, CountGroups DEF Shift
<1>3. \A r : GotOf(r)' = GotOf(r) /\ Width(r)' = Width(r)
  BY <1>1 DEF GotOf, Width
<1>4. \A r : r \in CountedFull <=>
        r \in Requests /\ (In(r, {"queue_full"}) \/ (In(r, Took) /\ GotOf(r) < Width(r)))
  BY DEF CountedFull
<1>5. \A r : r \in CountedFull' <=>
        /\ r \in Requests
        /\ IF r = i THEN b \in {"queue_full"} \/ (b \in Took /\ GotOf(r) < Width(r))
           ELSE In(r, {"queue_full"}) \/ (In(r, Took) /\ GotOf(r) < Width(r))
  <2>1. CountedFull' = {r \in Requests : \/ In(r, {"queue_full"})'
                                         \/ In(r, Took)' /\ GotOf(r)' < Width(r)'}
    BY <1>1 DEF CountedFull
  <2> QED
    BY <1>2, <1>3, <2>1
<1>6. ASSUME a \in {"queue_full"} <=> b \in {"queue_full"}, a \in Took <=> b \in Took
      PROVE  CountedFull' = CountedFull
  <2>1. \A r \in Requests : r \in CountedFull' <=> r \in CountedFull
    BY <1>2, <1>4, <1>5, <1>6
  <2> QED
    BY <1>4, <1>5, <2>1
<1>7. ASSUME a \notin {"queue_full"}, a \notin Took,
             b \in {"queue_full"} \/ (b \in Took /\ a \in LostSome)
      PROVE  /\ IsFiniteSet(CountedFull')
             /\ Cardinality(CountedFull') = Cardinality(CountedFull) + 1
  <2>1. a \in LostSome => GotOf(i) < Width(i)
    BY <1>1, <1>2 DEF Safe, Progress
  <2>2. i \in CountedFull' /\ i \notin CountedFull
    BY <1>1, <1>2, <1>4, <1>5, <1>7, <2>1
  <2>3. \A r : r # i => (r \in CountedFull' <=> r \in CountedFull)
    BY <1>4, <1>5
  <2>4. CountedFull' = CountedFull \cup {i}
    BY <2>2, <2>3
  <2> QED
    BY <2>2, <2>4, FS_AddElement
<1> QED
  BY <1>6, <1>7

\* Nothing is counted while the queue takes a request's events in.
LEMMA PutsCounted ==
  ASSUME Safe, NEW i, NEW m \in Nat, NEW b, Shift(i, "check", b),
         Len(entered') = Len(entered) + m,
         \A k \in 1..Len(entered) : entered'[k] = entered[k],
         \A k \in (Len(entered) + 1)..(Len(entered) + m) : entered'[k][1] = i,
         \A r \in Requests : GotOf(r)' = IF r = i THEN m ELSE GotOf(r),
         b \in {"rejected", "dropped"} \/ (b = "accepted" /\ m = Width(i)),
         IsFiniteSet(CountedRefused)
  PROVE  /\ CountedIn' = CountedIn /\ CountedOut' = CountedOut
         /\ CountedRefused' = CountedRefused /\ CountedFull' = CountedFull
<1>1. i \in Requests /\ Requests' = Requests /\ content' = content
  BY DEF Shift
<1>2. \A r : Width(r)' = Width(r)
  BY <1>1 DEF Width
<1>3. Width(i) \in Nat
  BY <1>1, Serves DEF Safe, Width
<1>4. \A S \in SUBSET Stages :
        /\ In(i, S) <=> "check" \in S
        /\ \A r \in Requests : In(r, S)' <=> IF r = i THEN b \in S ELSE In(r, S)
  BY DEF Shift
<1>5. CountedIn' = CountedIn
  <2>1. Len(entered) \in Nat
    BY LenProperties DEF Safe, Stored
  <2>2. \A r \in Requests : In(r, CountedStages)' <=> In(r, CountedStages)
    <3>1. "check" \notin CountedStages /\ b \notin CountedStages
      BY DEF CountedStages
    <3> QED
      BY <1>4, <3>1, CountGroups
  <2>3. ~In(i, CountedStages)
    <3>1. "check" \notin CountedStages
      BY DEF CountedStages
    <3> QED
      BY <1>4, <3>1, CountGroups
  <2>4. \A k \in 1..Len(entered) : entered[k][1] \in Requests
    BY DEF Safe, Contents
  <2>5. \A k \in 1..(Len(entered) + m) :
          k \in 1..Len(entered) \/ k \in (Len(entered) + 1)..(Len(entered) + m)
    BY <2>1
  <2>6. \A k \in 1..Len(entered) : k \in 1..(Len(entered) + m)
    BY <2>1
  <2>7. \A k \in 1..(Len(entered) + m) : entered'[k][1] \in Requests
    BY <1>1, <2>4, <2>5
  <2>8. CountedIn' = {k \in 1..(Len(entered) + m) : In(entered'[k][1], CountedStages)}
    <3>1. CountedIn' = {k \in 1..Len(entered') : In(entered[k][1], CountedStages)'}
      BY DEF CountedIn
    <3>2. \A k \in 1..(Len(entered) + m) :
            In(entered[k][1], CountedStages)' <=> In(entered'[k][1], CountedStages)
      <4>1. SUFFICES ASSUME NEW k \in 1..(Len(entered) + m)
                     PROVE  In(entered[k][1], CountedStages)' <=> In(entered'[k][1], CountedStages)
        OBVIOUS
      <4>2. PICK r \in Requests : r = entered'[k][1]
        BY <2>7
      <4>3. In(entered[k][1], CountedStages)' <=> In(r, CountedStages)'
        BY <4>2 DEF In
      <4> QED
        BY <2>2, <4>2, <4>3
    <3> QED
      BY <3>1, <3>2
  <2>9. CountedIn = {k \in 1..Len(entered) : In(entered[k][1], CountedStages)}
    BY DEF CountedIn
  <2>10. \A k \in (Len(entered) + 1)..(Len(entered) + m) : ~In(entered'[k][1], CountedStages)
    BY <2>3
  <2>11. \A k \in 1..Len(entered) :
           In(entered'[k][1], CountedStages) <=> In(entered[k][1], CountedStages)
    OBVIOUS
  <2> QED
    BY <2>5, <2>6, <2>8, <2>9, <2>10, <2>11
<1>6. CountedOut' = CountedOut
  <2>1. "check" \notin PassedStages /\ (b \in PassedStages => b = "accepted")
    BY DEF PassedStages
  <2>2. CountedOut' = {p \in Requests \X Nat : /\ In(p[1], PassedStages)'
                                               /\ GotOf(p[1])' < p[2] /\ p[2] <= Width(p[1])'}
    BY <1>1 DEF CountedOut
  <2>3. ASSUME NEW p \in Requests \X Nat
        PROVE  /\ In(p[1], PassedStages)'
               /\ GotOf(p[1])' < p[2] /\ p[2] <= Width(p[1])'
               <=> /\ In(p[1], PassedStages)
                   /\ GotOf(p[1]) < p[2] /\ p[2] <= Width(p[1])
    <3>1. p[1] \in Requests /\ p[2] \in Nat
      OBVIOUS
    <3>2. CASE p[1] = i
      <4>1. ~In(p[1], PassedStages)
        BY <1>4, <2>1, <3>2, CountGroups
      <4>2. In(p[1], PassedStages)' => m = Width(i)
        <5>1. "accepted" \notin {"rejected", "dropped"}
          OBVIOUS
        <5> QED
          BY <1>4, <2>1, <3>1, <3>2, <5>1, CountGroups
      <4>3. GotOf(p[1])' = m /\ Width(p[1])' = Width(i)
        BY <1>2, <3>1, <3>2
      <4>4. ~(Width(i) < p[2] /\ p[2] <= Width(i))
        BY <1>3, <3>1
      <4> QED
        BY <4>1, <4>2, <4>3, <4>4
    <3>3. CASE p[1] # i
      <4>1. /\ In(p[1], PassedStages)' <=> In(p[1], PassedStages)
            /\ GotOf(p[1])' = GotOf(p[1]) /\ Width(p[1])' = Width(p[1])
        BY <1>2, <1>4, <3>1, <3>3, CountGroups
      <4> QED
        BY <4>1
    <3> QED
      BY <3>2, <3>3
  <2> QED
    BY <2>2, <2>3 DEF CountedOut
<1>7. CountedRefused' = CountedRefused
  <2>1. /\ "check" \notin RefusedStages /\ b \notin RefusedStages
        /\ "check" \notin {"refused"} /\ b \notin {"refused"}
    BY DEF RefusedStages
  <2> QED
    BY <2>1, CountedRefusedShift
<1>8. CountedFull' = CountedFull
  <2>1. /\ "check" \notin Took /\ "check" \notin {"queue_full"} /\ b \notin {"queue_full"}
        /\ b \in Took => m = Width(i)
    BY DEF Took
  <2>2. CountedFull' = {r \in Requests : \/ In(r, {"queue_full"})'
                                         \/ In(r, Took)' /\ GotOf(r)' < Width(r)'}
    BY <1>1 DEF CountedFull
  <2>3. ASSUME NEW r \in Requests
        PROVE  In(r, {"queue_full"})' \/ (In(r, Took)' /\ GotOf(r)' < Width(r)')
               <=> In(r, {"queue_full"}) \/ (In(r, Took) /\ GotOf(r) < Width(r))
    <3>1. CASE r = i
      <4>1. ~In(r, {"queue_full"}) /\ ~In(r, Took) /\ ~In(r, {"queue_full"})'
        BY <1>4, <2>1, <3>1, Groups, CountGroups
      <4>2. In(r, Took)' => GotOf(r)' = Width(r)'
        BY <1>2, <1>4, <2>1, <3>1, Groups
      <4>3. ~(Width(i) < Width(i)) /\ Width(r)' = Width(i)
        BY <1>2, <1>3, <3>1
      <4> QED
        BY <4>1, <4>2, <4>3
    <3>2. CASE r # i
      <4>1. /\ In(r, {"queue_full"})' <=> In(r, {"queue_full"})
            /\ In(r, Took)' <=> In(r, Took)
            /\ GotOf(r)' = GotOf(r) /\ Width(r)' = Width(r)
        BY <1>2, <1>4, <3>2, Groups, CountGroups
      <4> QED
        BY <4>1
    <3> QED
      BY <3>1, <3>2
  <2> QED
    BY <2>2, <2>3 DEF CountedFull
<1> QED
  BY <1>5, <1>6, <1>7, <1>8

LEMMA ReceiveCounted ==
  ASSUME Safe, Counts, NEW h \in Handler, NEW q \in Request, Receive(h, q)
  PROVE  Counts'
<1>0. PICK n : n = Len(content) + 1
  OBVIOUS
<1>1. Ledger /\ Contents
  BY DEF Safe
<1>2. /\ Requests' = Requests \cup {n} /\ n \notin Requests
      /\ \A r \in Requests : content'[r] = content[r]
      /\ \A r \in Requests \cup {n}, S \in SUBSET Stages :
           In(r, S)' <=> IF r \in Requests THEN In(r, S) ELSE "check" \in S
  BY <1>0, <1>1, ReceiveLedger
<1>3. \A r \in Requests : GotOf(r)' = GotOf(r)
  BY ReceiveSafe
<1>4. entered' = entered /\ UNCHANGED counters
  BY DEF Receive
<1>5. /\ "check" \notin CountedStages /\ "check" \notin PassedStages
      /\ "check" \notin RefusedStages /\ "check" \notin Took /\ "check" \notin {"queue_full"}
  BY DEF CountedStages, PassedStages, RefusedStages, Took
<1>6. /\ ~In(n, CountedStages)' /\ ~In(n, PassedStages)' /\ ~In(n, RefusedStages)'
      /\ ~In(n, Took)' /\ ~In(n, {"queue_full"})'
  BY <1>2, <1>5, Groups, CountGroups
<1>7. ASSUME NEW r \in Requests
      PROVE  /\ In(r, CountedStages)' <=> In(r, CountedStages)
             /\ In(r, PassedStages)' <=> In(r, PassedStages)
             /\ In(r, RefusedStages)' <=> In(r, RefusedStages)
             /\ In(r, Took)' <=> In(r, Took)
             /\ In(r, {"queue_full"})' <=> In(r, {"queue_full"})
             /\ GotOf(r)' = GotOf(r) /\ Width(r)' = Width(r) /\ RefusedFor(r)' = RefusedFor(r)
  <2>1. /\ In(r, {"refused"})' <=> In(r, {"refused"})
        /\ content'[r] = content[r]
    BY <1>2, CountGroups
  <2>2. Width(r)' = Width(r)
    BY <2>1 DEF Width
  <2>3. RefusedFor(r)' = RefusedFor(r)
    BY <2>1, <2>2 DEF RefusedFor, RejectedFor
  <2> QED
    BY <1>2, <1>3, <2>2, <2>3, Groups, CountGroups
<1>8. CountedIn' = CountedIn
  <2>1. CountedIn' = {k \in 1..Len(entered) : In(entered[k][1], CountedStages)'}
    BY <1>4 DEF CountedIn
  <2>2. \A k \in 1..Len(entered) :
          In(entered[k][1], CountedStages)' <=> In(entered[k][1], CountedStages)
    <3>1. SUFFICES ASSUME NEW k \in 1..Len(entered)
                   PROVE  In(entered[k][1], CountedStages)' <=> In(entered[k][1], CountedStages)
      OBVIOUS
    <3>2. PICK r \in Requests : r = entered[k][1]
      BY <1>1 DEF Contents
    <3>3. In(entered[k][1], CountedStages)' <=> In(r, CountedStages)'
      BY <1>4, <3>2 DEF In
    <3> QED
      BY <1>7, <3>2, <3>3
  <2> QED
    BY <2>1, <2>2 DEF CountedIn
<1>9. CountedOut' = CountedOut
  <2>1. CountedOut' = {p \in (Requests \cup {n}) \X Nat :
                         /\ In(p[1], PassedStages)'
                         /\ GotOf(p[1])' < p[2] /\ p[2] <= Width(p[1])'}
    BY <1>2 DEF CountedOut
  <2>2. \A p \in (Requests \cup {n}) \X Nat : p[1] = n \/ p[1] \in Requests
    OBVIOUS
  <2> QED
    BY <1>6, <1>7, <2>1, <2>2 DEF CountedOut
<1>10. CountedRefused' = CountedRefused
  <2>1. CountedRefused' = {p \in (Requests \cup {n}) \X Nat :
                             /\ In(p[1], RefusedStages)'
                             /\ 0 < p[2] /\ p[2] <= RefusedFor(p[1])'}
    BY <1>2 DEF CountedRefused
  <2>2. \A p \in (Requests \cup {n}) \X Nat : p[1] = n \/ p[1] \in Requests
    OBVIOUS
  <2> QED
    BY <1>6, <1>7, <2>1, <2>2 DEF CountedRefused
<1>11. CountedFull' = CountedFull
  <2>1. CountedFull' = {r \in Requests \cup {n} : \/ In(r, {"queue_full"})'
                                                  \/ In(r, Took)' /\ GotOf(r)' < Width(r)'}
    BY <1>2 DEF CountedFull
  <2> QED
    BY <1>6, <1>7, <2>1 DEF CountedFull
<1> QED
  BY <1>4, <1>8, <1>9, <1>10, <1>11 DEF Counts, counters

LEMMA HandlerCounted ==
  ASSUME Safe, Counts, NEW h \in Handler, HandlerStep(h)
  PROVE  Counts'
<1> DEFINE i == serving[h]
<1>1. Ledger /\ Stored
  BY DEF Safe
<1>2. CASE Refuse(h)
  <2>1. Shift(i, "check", "refused") /\ entered' = entered
    BY <1>1, <1>2, RefuseShifts, StepStored
  <2>2. CountedIn' = CountedIn
    BY <2>1, CountedInShift DEF CountedStages, Counts
  <2>3. CountedOut' = CountedOut
    BY <2>1, CountedOutShift DEF PassedStages, Counts
  <2>4. CountedFull' = CountedFull
    BY <2>1, CountedFullShift DEF Took, Counts
  <2>5. /\ IsFiniteSet(CountedRefused')
        /\ Cardinality(CountedRefused') = Cardinality(CountedRefused) + RejectedFor(content[i])
    <3>1. "check" \notin RefusedStages /\ "refused" \in RefusedStages
      BY DEF RefusedStages
    <3> QED
      BY <2>1, <3>1, CountedRefusedShift DEF Counts
  <2>6. /\ rejectedEvents' = rejectedEvents + RejectedFor(content[i])
        /\ UNCHANGED <<acceptedEvents, droppedEvents, queueFull>>
    BY <1>2 DEF Refuse
  <2> QED
    BY <2>2, <2>3, <2>4, <2>5, <2>6 DEF Counts
<1>3. ASSUME NEW m \in Nat, NEW b, PutsIn(h, m), Shift(i, "check", b), pc[h] = "check",
             Ledger', Stored', UNCHANGED counters,
             \/ b = "accepted" /\ m = Width(i)
             \/ b = "rejected" /\ m = 0 /\ Width(i) > 0
             \/ b = "dropped" /\ m \in 0..Width(i) /\ m < Width(i) /\ dropPolicy = "drop_newest"
      PROVE  Counts'
  <2>1. /\ Len(entered') = Len(entered) + m
        /\ \A k \in 1..Len(entered) : entered'[k] = entered[k]
        /\ \A k \in (Len(entered) + 1)..(Len(entered) + m) : entered'[k][1] = i
        /\ \A r \in Requests : GotOf(r)' = IF r = i THEN m ELSE GotOf(r)
    BY <1>3, PutsSafe
  <2>2. /\ CountedIn' = CountedIn /\ CountedOut' = CountedOut
        /\ CountedRefused' = CountedRefused /\ CountedFull' = CountedFull
    <3>1. b \in {"rejected", "dropped"} \/ (b = "accepted" /\ m = Width(i))
      BY <1>3
    <3> HIDE DEF i
    <3> QED
      BY <1>3, <2>1, <3>1, PutsCounted DEF Counts
  <2> QED
    BY <1>3, <2>2 DEF Counts, counters
<1>4. CASE Enqueue(h)
  <2>1. /\ Stored' /\ pc[h] = "check"
        /\ \/ PutsIn(h, Width(i)) /\ Goto(h, "accepted")
           \/ PutsIn(h, 0) /\ Width(i) > 0 /\ Goto(h, "rejected")
    BY <1>1, <1>4, EnqueuePuts
  <2>2. Width(i) \in Nat /\ UNCHANGED counters
    <3>1. Width(i) \in Nat
      BY <1>1, <2>1, EnrichedBlock
    <3>2. UNCHANGED counters
      BY <1>4 DEF Enqueue
    <3> QED
      BY <3>1, <3>2
  <2>3. CASE PutsIn(h, Width(i)) /\ Goto(h, "accepted")
    <3>1. Ledger' /\ Shift(i, "check", "accepted")
      BY <1>1, <1>4, <2>3, EnqueueShifts DEF Places
    <3> QED
      BY <1>3, <2>1, <2>2, <2>3, <3>1
  <2>4. CASE PutsIn(h, 0) /\ Width(i) > 0 /\ Goto(h, "rejected")
    <3>1. Ledger' /\ Shift(i, "check", "rejected")
      BY <1>1, <1>4, <2>4, EnqueueShifts DEF Places
    <3> QED
      BY <1>3, <2>1, <2>2, <2>4, <3>1
  <2> QED
    BY <2>1, <2>3, <2>4
<1>5. CASE DropNewest(h)
  <2>1. Stored' /\ dropPolicy = "drop_newest" /\ pc[h] = "check"
    BY <1>1, <1>5, DropNewestPuts
  <2>2. PICK m \in 0..Width(i) :
          PutsIn(h, m) /\ Goto(h, IF m < Width(i) THEN "dropped" ELSE "accepted")
    BY <1>1, <1>5, DropNewestPuts
  <2>3. Width(i) \in Nat /\ m \in Nat /\ UNCHANGED counters
    <3>1. Width(i) \in Nat
      BY <1>1, <2>1, EnrichedBlock
    <3>2. UNCHANGED counters
      BY <1>5 DEF DropNewest
    <3> QED
      BY <3>1, <3>2
  <2>4. CASE m < Width(i)
    <3>1. Ledger' /\ Shift(i, "check", "dropped")
      BY <1>1, <1>5, <2>2, <2>4, EnqueueShifts DEF Places
    <3> QED
      BY <1>3, <2>1, <2>2, <2>3, <2>4, <3>1
  <2>5. CASE ~(m < Width(i))
    <3>1. Ledger' /\ Shift(i, "check", "accepted")
      BY <1>1, <1>5, <2>2, <2>5, EnqueueShifts DEF Places
    <3>2. m = Width(i)
      BY <2>3, <2>5
    <3> QED
      BY <1>3, <2>1, <2>2, <2>3, <3>1, <3>2
  <2> QED
    BY <2>4, <2>5
<1>6. CASE IncRejected(h)
  <2>1. Shift(i, "rejected", "refusedFull") /\ entered' = entered
    BY <1>1, <1>6, CountShifts, StepStored
  <2>2. CountedIn' = CountedIn
    BY <2>1, CountedInShift DEF CountedStages, Counts
  <2>3. CountedOut' = CountedOut
    BY <2>1, CountedOutShift DEF PassedStages, Counts
  <2>4. CountedFull' = CountedFull
    BY <2>1, CountedFullShift DEF Took, Counts
  <2>5. /\ IsFiniteSet(CountedRefused')
        /\ Cardinality(CountedRefused') = Cardinality(CountedRefused) + Width(i)
    <3>1. "rejected" \notin RefusedStages /\ "refusedFull" \in RefusedStages
      BY DEF RefusedStages
    <3> QED
      BY <2>1, <3>1, CountedRefusedShift DEF Counts
  <2>6. /\ rejectedEvents' = rejectedEvents + Width(i)
        /\ UNCHANGED <<acceptedEvents, droppedEvents, queueFull>>
    BY <1>1, <1>6, EnrichedBlock DEF IncRejected
  <2> QED
    BY <2>2, <2>3, <2>4, <2>5, <2>6 DEF Counts
<1>7. CASE IncDropped(h)
  <2>1. Shift(i, "dropped", "droppedFull") /\ entered' = entered
    BY <1>1, <1>7, CountShifts, StepStored
  <2>2. CountedIn' = CountedIn
    BY <2>1, CountedInShift DEF CountedStages, Counts
  <2>3. CountedRefused' = CountedRefused
    BY <2>1, CountedRefusedShift DEF RefusedStages, Counts
  <2>4. CountedFull' = CountedFull
    BY <2>1, CountedFullShift DEF Took, Counts
  <2>5. /\ IsFiniteSet(CountedOut')
        /\ Cardinality(CountedOut') = Cardinality(CountedOut) + (Width(i) - GotOf(i))
    <3>1. "dropped" \notin PassedStages /\ "droppedFull" \in PassedStages
      BY DEF PassedStages
    <3> QED
      BY <2>1, <3>1, CountedOutShift DEF Counts
  <2>6. /\ droppedEvents' = droppedEvents + (Width(i) - GotOf(i))
        /\ UNCHANGED <<acceptedEvents, rejectedEvents, queueFull>>
    BY <1>1, <1>7, EnrichedBlock DEF IncDropped, Missing, Got, GotOf
  <2> QED
    BY <2>2, <2>3, <2>4, <2>5, <2>6 DEF Counts
<1>8. CASE IncQueueFull(h)
  <2>1. /\ entered' = entered
        /\ \/ Shift(i, "refusedFull", "queue_full")
           \/ Shift(i, "droppedFull", "accepted")
    BY <1>1, <1>8, CountShifts, StepStored
  <2>2. queueFull' = queueFull + 1 /\ UNCHANGED <<acceptedEvents, droppedEvents, rejectedEvents>>
    BY <1>8 DEF IncQueueFull
  <2>3. CASE Shift(i, "refusedFull", "queue_full")
    <3>1. CountedIn' = CountedIn
      BY <2>1, <2>3, CountedInShift DEF CountedStages, Counts
    <3>2. CountedOut' = CountedOut
      BY <2>1, <2>3, CountedOutShift DEF PassedStages, Counts
    <3>3. CountedRefused' = CountedRefused
      BY <2>1, <2>3, CountedRefusedShift DEF RefusedStages, Counts
    <3>4. IsFiniteSet(CountedFull') /\ Cardinality(CountedFull') = Cardinality(CountedFull) + 1
      BY <2>1, <2>3, CountedFullShift DEF Took, Counts
    <3> QED
      BY <2>2, <3>1, <3>2, <3>3, <3>4 DEF Counts
  <2>4. CASE Shift(i, "droppedFull", "accepted")
    <3>1. CountedIn' = CountedIn
      BY <2>1, <2>4, CountedInShift DEF CountedStages, Counts
    <3>2. CountedOut' = CountedOut
      BY <2>1, <2>4, CountedOutShift DEF PassedStages, Counts
    <3>3. CountedRefused' = CountedRefused
      BY <2>1, <2>4, CountedRefusedShift DEF RefusedStages, Counts
    <3>4. IsFiniteSet(CountedFull') /\ Cardinality(CountedFull') = Cardinality(CountedFull) + 1
      BY <2>1, <2>4, CountedFullShift DEF Took, LostSome, Counts
    <3> QED
      BY <2>2, <3>1, <3>2, <3>3, <3>4 DEF Counts
  <2> QED
    BY <2>1, <2>3, <2>4
<1>9. CASE IncAccepted(h)
  <2>1. Shift(i, "accepted", "read") /\ entered' = entered
    BY <1>1, <1>9, CountShifts, StepStored
  <2>2. CountedOut' = CountedOut
    BY <2>1, CountedOutShift DEF PassedStages, Counts
  <2>3. CountedRefused' = CountedRefused
    BY <2>1, CountedRefusedShift DEF RefusedStages, Counts
  <2>4. CountedFull' = CountedFull
    BY <2>1, CountedFullShift DEF Took, Counts
  <2>5. /\ IsFiniteSet(CountedIn')
        /\ Cardinality(CountedIn') = Cardinality(CountedIn) + GotOf(i)
    <3>1. "accepted" \notin CountedStages /\ "read" \in CountedStages
      BY DEF CountedStages
    <3> QED
      BY <2>1, <3>1, CountedInShift DEF Counts
  <2>6. /\ acceptedEvents' = acceptedEvents + GotOf(i)
        /\ UNCHANGED <<droppedEvents, rejectedEvents, queueFull>>
    <3>1. Width(i) \in Nat /\ Len(Enriched(h)) = Width(i)
      BY <1>1, <1>9, EnrichedBlock DEF IncAccepted, AddAccepted
    <3>2. GotOf(i) \in Nat
      BY <1>1, GotNat DEF Stored
    <3>3. Len(Enriched(h)) - Missing(h) = GotOf(i)
      <4>1. Missing(h) = Width(i) - GotOf(i)
        BY <3>1 DEF Missing, Got, GotOf
      <4> QED
        BY <3>1, <3>2, <4>1
    <3> QED
      BY <1>9, <3>3 DEF IncAccepted, AddAccepted
  <2> QED
    BY <2>2, <2>3, <2>4, <2>5, <2>6 DEF Counts
<1>10. ASSUME NEW a, NEW b, Shift(i, a, b), entered' = entered, UNCHANGED counters,
              \/ a = "read" /\ b = "store"
              \/ a = "store" /\ b = "ok"
       PROVE  Counts'
  <2> HIDE DEF i
  <2>1. CountedIn' = CountedIn
    BY <1>10, CountedInShift DEF CountedStages, Counts
  <2>2. CountedOut' = CountedOut
    BY <1>10, CountedOutShift DEF PassedStages, Counts
  <2>3. CountedRefused' = CountedRefused
    BY <1>10, CountedRefusedShift DEF RefusedStages, Counts
  <2>4. CountedFull' = CountedFull
    BY <1>10, CountedFullShift DEF Took, Counts
  <2> QED
    BY <1>10, <2>1, <2>2, <2>3, <2>4 DEF Counts, counters
<1>11. CASE ReadLen(h)
  <2>1. Shift(i, "read", "store") /\ entered' = entered
    BY <1>1, <1>11, CountShifts, StepStored
  <2>2. UNCHANGED counters
    BY <1>11 DEF ReadLen
  <2> QED
    BY <1>10, <2>1, <2>2
<1>12. CASE SetQueueDepth(h)
  <2>1. Shift(i, "store", "ok") /\ entered' = entered
    BY <1>1, <1>12, CountShifts, StepStored
  <2>2. UNCHANGED counters
    BY <1>12 DEF SetQueueDepth
  <2> QED
    BY <1>10, <2>1, <2>2
<1> QED
  BY <1>2, <1>4, <1>5, <1>6, <1>7, <1>8, <1>9, <1>11, <1>12 DEF HandlerStep

-----------------------------------------------------------------------------
\* The inductive invariant.
Inv == Safe /\ Counts

LEMMA InvInit ==
  Init => Inv
<1>1. SUFFICES ASSUME Init PROVE Inv
  OBVIOUS
<1>2. Safe
  BY <1>1, SafeInit
<1>3. content = <<>> /\ entered = <<>>
  BY <1>1 DEF Init
<1>4. acceptedEvents = 0 /\ rejectedEvents = 0 /\ droppedEvents = 0 /\ queueFull = 0
  BY <1>1 DEF Init
<1>5. Requests = {} /\ Len(entered) = 0
  BY <1>3 DEF Requests
<1>6. CountedIn = {} /\ CountedOut = {} /\ CountedRefused = {} /\ CountedFull = {}
  BY <1>5 DEF CountedIn, CountedOut, CountedRefused, CountedFull
<1> QED
  BY <1>2, <1>4, <1>6, FS_EmptySet DEF Inv, Counts

\* Nothing that the counters depend on has changed.
LEMMA SameCounted ==
  ASSUME Counts, UNCHANGED <<handlerVars, counters>>
  PROVE  Counts'
<1>1. /\ pc' = pc /\ serving' = serving /\ content' = content /\ code' = code
      /\ entered' = entered
  BY DEF handlerVars
<1>2. Requests' = Requests /\ \A r, S : In(r, S)' <=> In(r, S)
  BY <1>1 DEF Requests, In
<1>3. \A r : GotOf(r)' = GotOf(r) /\ Width(r)' = Width(r)
  BY <1>1 DEF GotOf, Width
<1>4. \A r : RefusedFor(r)' = RefusedFor(r)
  BY <1>1, <1>2, <1>3 DEF RefusedFor, RejectedFor
<1>5. CountedIn' = CountedIn
  <2>1. \A k : In(entered[k][1], CountedStages)' <=> In(entered[k][1], CountedStages)
    BY <1>1 DEF In
  <2> QED
    BY <1>1, <2>1 DEF CountedIn
<1>6. CountedOut' = CountedOut
  BY <1>2, <1>3 DEF CountedOut
<1>7. CountedRefused' = CountedRefused
  BY <1>2, <1>4 DEF CountedRefused
<1>8. CountedFull' = CountedFull
  BY <1>2, <1>3 DEF CountedFull
<1> QED
  BY <1>5, <1>6, <1>7, <1>8 DEF Counts, counters

LEMMA InvNext ==
  Inv /\ [Next]_vars => Inv'
<1>1. SUFFICES ASSUME Inv, [Next]_vars PROVE Inv'
  OBVIOUS
<1>2. Safe /\ Counts
  BY <1>1 DEF Inv
<1>3. CASE \E h \in Handler : HandlerStep(h)
  BY <1>2, <1>3, HandlerSafe, HandlerCounted DEF Inv
<1>4. CASE \E h \in Handler : \E q \in Request : Receive(h, q)
  BY <1>2, <1>4, ReceiveSafe, ReceiveCounted DEF Inv
<1>5. CASE BatcherStep
  BY <1>2, <1>5, BatcherSafe, SameCounted DEF Inv
<1>6. CASE UNCHANGED vars
  <2>1. /\ pc' = pc /\ serving' = serving /\ content' = content /\ code' = code
        /\ entered' = entered /\ dropPolicy' = dropPolicy /\ UNCHANGED <<handlerVars, counters>>
        /\ queue' = queue /\ capacity' = capacity /\ notifyCh' = notifyCh /\ depth' = depth
        /\ consumer' = consumer /\ looping' = looping /\ queuedCurrent' = queuedCurrent
    BY <1>6 DEF vars, handlerVars, queueVars
  <2>2. Counts'
    BY <1>2, <2>1, SameCounted
  <2>3. Requests' = Requests /\ \A r, S : In(r, S)' <=> In(r, S)
    BY <2>1 DEF Requests, In
  <2>4. \A r : GotOf(r)' = GotOf(r) /\ Width(r)' = Width(r)
    BY <2>1 DEF GotOf, Width
  <2>5. Ledger' /\ Stored'
    BY <1>2, <2>1, <2>3 DEF Safe, Ledger, Stored
  <2>6. Contents'
    BY <1>2, <2>1, <2>3, <2>4 DEF Safe, Contents
  <2>7. Progress'
    BY <1>2, <2>1, <2>3, <2>4 DEF Safe, Progress
  <2> QED
    BY <2>2, <2>5, <2>6, <2>7 DEF Inv, Safe
<1> QED
  BY <1>1, <1>3, <1>4, <1>5, <1>6 DEF Next

LEMMA Invariance ==
  Spec => []Inv
BY InvInit, InvNext, PTL DEF Spec

LEMMA InvTypeOK ==
  Inv => TypeOK
<1>1. SUFFICES ASSUME Inv PROVE TypeOK
  OBVIOUS
<1>2. Ledger /\ Stored /\ Counts
  BY <1>1 DEF Inv, Safe
<1>3. {acceptedEvents, rejectedEvents, droppedEvents, queueFull} \subseteq Nat
  BY <1>2, FS_CardinalityType DEF Counts
<1>4. pc \in [Handler -> {"idle", "check", "rejected", "refusedFull", "dropped",
                          "droppedFull", "accepted", "read", "store"}]
  BY <1>2 DEF Ledger, Places
<1>5. \A r \in Requests :
        code[r] = "" <=> \E h \in Handler : pc[h] # "idle" /\ serving[h] = r
  BY <1>2 DEF Ledger
<1>6. /\ serving \in [Handler -> 0..MaxRequests]
      /\ content \in Seq(Request) /\ Len(code) = Len(content)
  BY <1>2 DEF Ledger
<1> QED
  BY <1>2, <1>3, <1>4, <1>5, <1>6 DEF Stored, TypeOK

LEMMA InvWholeRequests ==
  Inv => WholeRequests
<1>1. SUFFICES ASSUME Inv PROVE WholeRequests
  OBVIOUS
<1>2. Ledger /\ Contents /\ Progress
  BY <1>1 DEF Inv, Safe
<1>3. ASSUME NEW r \in Requests
      PROVE  /\ code[r] \notin {"", "ok"} => GotOf(r) = 0
             /\ code[r] = "ok" /\ dropPolicy = "reject" => GotOf(r) = Width(r)
  <2>1. ASSUME code[r] \notin {"", "ok"} PROVE GotOf(r) = 0
    <3>1. StageOfCode(code[r]) \in Untaken
      BY <2>1 DEF StageOfCode, Untaken
    <3>2. In(r, Untaken)
      BY <1>2, <2>1, <3>1, StageOfAnswer, Groups
    <3> QED
      BY <1>2, <3>2 DEF Progress
  <2>2. ASSUME code[r] = "ok", dropPolicy = "reject" PROVE GotOf(r) = Width(r)
    <3>1. StageOfCode(code[r]) \in Took
      BY <2>2 DEF StageOfCode, Took
    <3>2. In(r, Took)
      BY <1>2, <2>2, <3>1, StageOfAnswer, Groups
    <3> QED
      BY <1>2, <2>2, <3>2 DEF Progress
  <2> QED
    BY <2>1, <2>2
<1>4. \A k \in 1..Len(entered) :
        entered[k][2] > 1 => k > 1 /\ entered[k - 1] = <<entered[k][1], entered[k][2] - 1>>
  BY <1>2 DEF Contents
<1> QED
  BY <1>3, <1>4 DEF WholeRequests, Width

LEMMA LeftOutIs ==
  ASSUME Safe, NEW r \in Requests
  PROVE  /\ \A j : j \in LeftOut(r) <=> j \in Nat /\ GotOf(r) < j /\ j <= Width(r)
         /\ LeftOut(r) # {} <=> GotOf(r) < Width(r)
<1>1. Width(r) \in Nat /\ GotOf(r) \in Nat
  <2>1. Width(r) \in Nat
    BY Serves DEF Safe, Width
  <2> QED
    BY GotNat, <2>1 DEF Safe, Stored
<1>2. \A j \in Nat : <<r, j>> \in Range(entered) <=> j \in 1..GotOf(r)
  BY DEF Safe, Contents
<1>3. \A j : j \in LeftOut(r) <=> j \in 1..Width(r) /\ <<r, j>> \notin Range(entered)
  BY DEF LeftOut, Width
<1>4. \A j : j \in 1..Width(r) => j \in Nat
  BY <1>1
<1>5. \A j : j \in LeftOut(r) <=> j \in 1..Width(r) /\ j \notin 1..GotOf(r)
  BY <1>2, <1>3, <1>4
<1>6. \A j : j \in 1..Width(r) /\ j \notin 1..GotOf(r) <=>
        j \in Nat /\ GotOf(r) < j /\ j <= Width(r)
  BY <1>1
<1>7. \A j : j \in LeftOut(r) <=> j \in Nat /\ GotOf(r) < j /\ j <= Width(r)
  BY <1>5, <1>6
<1>8. GotOf(r) < Width(r) => Width(r) \in LeftOut(r)
  BY <1>1, <1>7
<1>9. \A j : j \in LeftOut(r) => GotOf(r) < Width(r)
  BY <1>1, <1>7
<1> QED
  BY <1>7, <1>8, <1>9

\* Once no request is being served, the stages are the answers.
LEMMA IdleStages ==
  ASSUME Safe, Idle, NEW r \in Requests
  PROVE  /\ code[r] \in Codes
         /\ In(r, CountedStages) <=> code[r] = "ok"
         /\ In(r, PassedStages) <=> code[r] = "ok"
         /\ In(r, Took) <=> code[r] = "ok"
         /\ In(r, {"queue_full"}) <=> code[r] = "queue_full"
         /\ In(r, RefusedStages) <=> code[r] # "ok"
         /\ In(r, {"refused"}) <=> code[r] \notin {"ok", "queue_full"}
<1>1. Ledger
  BY DEF Safe
<1>2. code[r] # ""
  BY <1>1 DEF Idle, Ledger
<1>3. \A S \in SUBSET Stages : In(r, S) <=> StageOfCode(code[r]) \in S
  BY <1>1, <1>2, StageOfAnswer
<1>4. code[r] \in Codes
  <2>1. code \in Seq(Codes \cup {""}) /\ r \in 1..Len(code)
    BY <1>1 DEF Ledger, Requests
  <2>2. code[r] \in Codes \cup {""}
    BY <2>1, ElementOfSeq
  <2> QED
    BY <1>2, <2>2
<1>5. /\ StageOfCode(code[r]) \in CountedStages <=> code[r] = "ok"
      /\ StageOfCode(code[r]) \in PassedStages <=> code[r] = "ok"
      /\ StageOfCode(code[r]) \in Took <=> code[r] = "ok"
  BY DEF StageOfCode, CountedStages, PassedStages, Took
<1>6. /\ StageOfCode(code[r]) \in {"queue_full"} <=> code[r] = "queue_full"
      /\ StageOfCode(code[r]) \in RefusedStages <=> code[r] # "ok"
      /\ StageOfCode(code[r]) \in {"refused"} <=> code[r] \notin {"ok", "queue_full"}
  BY DEF StageOfCode, RefusedStages
<1> QED
  BY <1>3, <1>4, <1>5, <1>6, Groups, CountGroups

LEMMA InvCountersBalance ==
  Inv => CountersBalance
<1> DEFINE refusedFor(r) == IF code[r] = "queue_full" THEN Len(content[r].events)
                            ELSE RejectedFor(content[r])
<1>1. SUFFICES ASSUME Inv, Idle
               PROVE  /\ acceptedEvents = Len(entered)
                      /\ droppedEvents =
                           Cardinality(UNION {{r} \X LeftOut(r) : r \in Answered({"ok"})})
                      /\ rejectedEvents =
                           Cardinality(UNION {{r} \X (1..refusedFor(r)) :
                                                r \in Requests \ Answered({"ok"})})
                      /\ queueFull =
                           Cardinality({r \in Answered({"ok", "queue_full"}) : LeftOut(r) # {}})
  BY DEF CountersBalance
<1>2. Safe /\ Counts /\ WholeRequests
  BY <1>1, InvWholeRequests DEF Inv
<1>3. \A r : r \in Answered({"ok"}) <=> r \in Requests /\ code[r] = "ok"
  BY DEF Answered
<1>4. acceptedEvents = Len(entered)
  <2>1. Len(entered) \in Nat /\ entered \in Seq(Event)
    BY <1>2, LenProperties DEF Safe, Stored
  <2>2. ASSUME NEW k \in 1..Len(entered) PROVE In(entered[k][1], CountedStages)
    <3>1. PICK r \in Requests : r = entered[k][1]
      BY <1>2 DEF Safe, Contents
    <3>2. GotOf(r) # 0
      <4>1. k \in Copies(r)
        BY <3>1 DEF Copies
      <4> QED
        BY <2>1, <4>1, GotNat
    <3>3. code[r] \in Codes /\ "" \notin Codes
      BY <1>1, <1>2, IdleStages DEF Codes, Refusals
    <3>4. code[r] \notin {"", "ok"} => GotOf(r) = 0
      BY <1>2 DEF WholeRequests
    <3>5. code[r] = "ok"
      BY <3>2, <3>3, <3>4
    <3> QED
      BY <1>1, <1>2, <3>1, <3>5, IdleStages
  <2>3. CountedIn = 1..Len(entered)
    BY <2>2 DEF CountedIn
  <2>4. Cardinality(1..Len(entered)) = Len(entered)
    BY <2>1, FS_Interval
  <2> QED
    BY <1>2, <2>3, <2>4 DEF Counts
<1>5. CountedOut = UNION {{r} \X LeftOut(r) : r \in Answered({"ok"})}
  <2>1. ASSUME NEW p
        PROVE  p \in CountedOut <=> \E r \in Answered({"ok"}) : p \in {r} \X LeftOut(r)
    <3>1. ASSUME p \in CountedOut PROVE \E r \in Answered({"ok"}) : p \in {r} \X LeftOut(r)
      <4>1. /\ p \in Requests \X Nat /\ In(p[1], PassedStages)
            /\ GotOf(p[1]) < p[2] /\ p[2] <= Width(p[1])
        BY <3>1 DEF CountedOut
      <4>2. p = <<p[1], p[2]>> /\ p[1] \in Requests /\ p[2] \in Nat
        BY <4>1
      <4>3. p[1] \in Answered({"ok"})
        BY <1>1, <1>2, <1>3, <4>1, <4>2, IdleStages
      <4>4. p[2] \in LeftOut(p[1])
        BY <1>2, <4>1, <4>2, LeftOutIs
      <4> QED
        BY <4>2, <4>3, <4>4
    <3>2. ASSUME NEW r \in Answered({"ok"}), p \in {r} \X LeftOut(r) PROVE p \in CountedOut
      <4>1. r \in Requests /\ code[r] = "ok" /\ In(r, PassedStages)
        BY <1>1, <1>2, <1>3, IdleStages
      <4>2. p[1] = r /\ p[2] \in LeftOut(r) /\ p = <<p[1], p[2]>>
        BY <3>2
      <4>3. p[2] \in Nat /\ GotOf(r) < p[2] /\ p[2] <= Width(r)
        BY <1>2, <4>1, <4>2, LeftOutIs
      <4> QED
        BY <4>1, <4>2, <4>3 DEF CountedOut
    <3> QED
      BY <3>1, <3>2
  <2> QED
    BY <2>1
<1>6. CountedRefused = UNION {{r} \X (1..refusedFor(r)) : r \in Requests \ Answered({"ok"})}
  <2>1. ASSUME NEW r \in Requests, code[r] # "ok"
        PROVE  refusedFor(r) = RefusedFor(r) /\ refusedFor(r) \in Nat
    <3>1. In(r, {"refused"}) <=> code[r] \notin {"ok", "queue_full"}
      BY <1>1, <1>2, IdleStages
    <3>2. Len(content[r].events) \in Nat /\ RejectedFor(content[r]) \in Nat
      BY <1>2, Serves, RejectedForNat DEF Safe
    <3> QED
      BY <2>1, <3>1, <3>2 DEF RefusedFor, Width
  <2> HIDE DEF refusedFor
  <2>2. ASSUME NEW p
        PROVE  p \in CountedRefused <=>
                 \E r \in Requests \ Answered({"ok"}) : p \in {r} \X (1..refusedFor(r))
    <3>1. ASSUME p \in CountedRefused
          PROVE  \E r \in Requests \ Answered({"ok"}) : p \in {r} \X (1..refusedFor(r))
      <4>1. /\ p \in Requests \X Nat /\ In(p[1], RefusedStages)
            /\ 0 < p[2] /\ p[2] <= RefusedFor(p[1])
        BY <3>1 DEF CountedRefused
      <4>2. p = <<p[1], p[2]>> /\ p[1] \in Requests /\ p[2] \in Nat
        BY <4>1
      <4>3. code[p[1]] # "ok"
        BY <1>1, <1>2, <4>1, <4>2, IdleStages
      <4>4. p[1] \in Requests \ Answered({"ok"})
        BY <1>3, <4>2, <4>3
      <4>5. p[2] \in 1..refusedFor(p[1])
        BY <2>1, <4>1, <4>2, <4>3
      <4> QED
        BY <4>2, <4>4, <4>5
    <3>2. ASSUME NEW r \in Requests \ Answered({"ok"}), p \in {r} \X (1..refusedFor(r))
          PROVE  p \in CountedRefused
      <4>1. r \in Requests /\ code[r] # "ok"
        BY <1>3
      <4>2. In(r, RefusedStages)
        BY <1>1, <1>2, <4>1, IdleStages
      <4>3. p[1] = r /\ p[2] \in 1..refusedFor(r) /\ p = <<p[1], p[2]>>
        BY <3>2
      <4>4. p[2] \in Nat /\ 0 < p[2] /\ p[2] <= RefusedFor(r)
        BY <2>1, <4>1, <4>3
      <4> QED
        BY <4>1, <4>2, <4>3, <4>4 DEF CountedRefused
    <3> QED
      BY <3>1, <3>2
  <2> QED
    BY <2>2
<1>7. CountedFull = {r \in Answered({"ok", "queue_full"}) : LeftOut(r) # {}}
  <2>1. ASSUME NEW r \in Requests
        PROVE  In(r, {"queue_full"}) \/ (In(r, Took) /\ GotOf(r) < Width(r)) <=>
               code[r] \in {"ok", "queue_full"} /\ LeftOut(r) # {}
    <3>1. /\ In(r, {"queue_full"}) <=> code[r] = "queue_full"
          /\ In(r, Took) <=> code[r] = "ok"
          /\ LeftOut(r) # {} <=> GotOf(r) < Width(r)
      BY <1>1, <1>2, IdleStages, LeftOutIs
    <3>2. code[r] = "queue_full" => GotOf(r) < Width(r)
      <4>1. SUFFICES ASSUME code[r] = "queue_full" PROVE GotOf(r) < Width(r)
        OBVIOUS
      <4>2. In(r, LostAll) /\ In(r, Untaken)
        <5>1. code[r] # "" /\ StageOfCode(code[r]) = "queue_full"
          BY <4>1 DEF StageOfCode
        <5> QED
          BY <1>2, <5>1, StageOfAnswer, Groups DEF Safe, LostAll, Untaken
      <4> QED
        BY <1>2, <4>2 DEF Safe, Progress
    <3> QED
      BY <3>1, <3>2
  <2> QED
    BY <2>1 DEF CountedFull, Answered
<1> QED
  BY <1>2, <1>4, <1>5, <1>6, <1>7 DEF Counts

-----------------------------------------------------------------------------
\* Type correctness, with any number of goroutines in handleCollect beside the
\* batcher's: the queue never exceeds MaxQueueSize and every request is being
\* served or answered.
THEOREM TypeCorrect ==
  Spec => []TypeOK
BY Invariance, InvTypeOK, PTL

\* handleCollect and the queue's methods keep a request whole: what enters the queue
\* is an unbroken prefix of it, all of it or nothing under DROP_POLICY reject, and
\* nothing when the client is told of an error.
THEOREM RequestsWhole ==
  Spec => []WholeRequests
BY Invariance, InvWholeRequests, PTL

\* The counters of internal/metrics that handleCollect updates, each in a step of its
\* own, balance whenever no request is being served.
THEOREM CountersExact ==
  Spec => []CountersBalance
BY Invariance, InvCountersBalance, PTL
=============================================================================
