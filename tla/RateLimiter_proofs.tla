------------------------- MODULE RateLimiter_proofs -------------------------
(***************************************************************************)
(* What the rate limiter guarantees for every number of clients, handlers  *)
(* and minutes and every limit.                                            *)
(***************************************************************************)
EXTENDS RateLimiter, FiniteSetTheorems, TLAPS

\* How many requests of this minute the table knows of for client c.
Count(c) == IF c \in DOMAIN clients THEN clients[c].count ELSE 0

\* The minute m has been entered once more than windowStart went back, unless it
\* still lies ahead.  While m is the table's minute, what the client did not use
\* of its limit is not used of the bound either.
Quota(c, m) ==
  /\ windowStart < m => allowed[c][m] <= Limit * rollbacks
  /\ windowStart > m => allowed[c][m] <= Limit * rollbacks + Limit
  /\ windowStart = m => allowed[c][m] <= Limit * rollbacks + Count(c)

\* The inductive invariant.
IInv ==
  /\ TypeOK
  /\ IsFiniteSet(DOMAIN clients)
  /\ TableBounded
  /\ \A c \in DOMAIN clients : clients[c].count <= Limit
  /\ \A c \in Client, m \in Minutes : Quota(c, m)

\* Multiplication by one more.
LEMMA TimesSucc ==
  ASSUME NEW a \in Nat, NEW b \in Nat
  PROVE  /\ a * b \in Nat
         /\ a * (b + 1) = a * b + a
         /\ a * (1 + b) = a * b + a
  BY SMT

\* The table after the test of the window has the properties of the table, for the
\* minute of the call.
LEMMA TableFacts ==
  ASSUME IInv, NEW now \in Minutes
  PROVE  /\ DOMAIN Table(now) \subseteq Client
         /\ IsFiniteSet(DOMAIN Table(now))
         /\ Cardinality(DOMAIN Table(now)) <= MaxClients
         /\ \A c \in DOMAIN Table(now) :
              /\ Table(now)[c] \in [windowStart : Minutes, count : Nat]
              /\ Table(now)[c].windowStart = now
              /\ Table(now)[c].count <= Limit
<1>1. CASE windowStart = now
  BY <1>1 DEF IInv, TypeOK, TableBounded, Table
<1>2. CASE windowStart # now
  <2>1. DOMAIN Table(now) = {}
    BY <1>2 DEF Table
  <2>2. IsFiniteSet({}) /\ Cardinality({}) = 0
    BY FS_EmptySet
  <2> QED BY <2>1, <2>2, RateLimiterAssumption
<1> QED BY <1>1, <1>2

\* Entering the window of a call keeps every quota, if the client's count becomes
\* that of the new table (0 for those it does not have).
LEMMA QuotaOnEntry ==
  ASSUME IInv, NEW now \in Minutes, EnterWindow(now),
         NEW c \in Client, NEW m \in Minutes
  PROVE  /\ now < m => allowed[c][m] <= Limit * rollbacks'
         /\ now > m => allowed[c][m] <= Limit * rollbacks' + Limit
         /\ now = m /\ windowStart # now => allowed[c][m] <= Limit * rollbacks'
         /\ now = m /\ windowStart = now =>
              rollbacks' = rollbacks /\ allowed[c][m] <= Limit * rollbacks + Count(c)
<1> DEFINE P == Limit * rollbacks
<1>1. /\ P \in Nat /\ Limit \in Nat
      /\ Limit * (rollbacks + 1) = P + Limit
  BY TimesSucc, RateLimiterAssumption DEF IInv, TypeOK
<1>2. /\ allowed[c][m] \in Nat /\ windowStart \in Int /\ now \in Int /\ m \in Int
  BY RateLimiterAssumption DEF IInv, TypeOK, Minutes, Requester
<1>3. Count(c) \in Nat /\ Count(c) <= Limit
  BY RateLimiterAssumption DEF IInv, TypeOK, Count
<1>4. /\ windowStart < m => allowed[c][m] <= P
      /\ windowStart > m => allowed[c][m] <= P + Limit
      /\ windowStart = m => allowed[c][m] <= P + Count(c)
  BY DEF IInv, Quota
<1>5. Limit * rollbacks' = IF now < windowStart THEN P + Limit ELSE P
  BY <1>1 DEF EnterWindow
<1>6. now >= windowStart => rollbacks' = rollbacks
  BY <1>2 DEF EnterWindow
<1> HIDE DEF P
<1> QED BY <1>1, <1>2, <1>3, <1>4, <1>5, <1>6 DEF P

\* The step that matters: one call of Allow under the mutex.
LEMMA AllowKeepsIInv ==
  ASSUME IInv, NEW h \in Handler, AllowLocked(h, call[h].client, call[h].now)
  PROVE  IInv'
<1> DEFINE c == call[h].client
           now == call[h].now
<1>1. c \in Client /\ now \in Minutes /\ c \in Requester
  BY DEF IInv, TypeOK, AllowLocked, Stamped, Requester
<1> HIDE DEF c, now
<1>2. /\ EnterWindow(now) /\ Limit \in Nat /\ Limit > 0
      /\ \/ Full(c, now) /\ clients' = Table(now) /\ UNCHANGED allowed
         \/ /\ ~Full(c, now) /\ AtLimit(c, now)
            /\ Put(c, now, State(c, now)) /\ UNCHANGED allowed
         \/ /\ ~Full(c, now) /\ ~AtLimit(c, now)
            /\ Put(c, now, [State(c, now) EXCEPT !.count = @ + 1])
            /\ allowed' = [allowed EXCEPT ![c][now] = @ + 1]
  BY RateLimiterAssumption DEF AllowLocked, Locked, c, now
<1>3. /\ minute' = minute
      /\ call' = [call EXCEPT ![h] = Idle]
      /\ \E a \in {"allowed", "refused"} : answer' = [answer EXCEPT ![h] = a]
  BY DEF AllowLocked, Locked, Answer
<1>4. /\ windowStart' = now
      /\ rollbacks' \in Nat
  BY <1>2 DEF EnterWindow, IInv, TypeOK
<1> DEFINE T == Table(now)
<1>5. /\ DOMAIN T \subseteq Client /\ IsFiniteSet(DOMAIN T)
      /\ Cardinality(DOMAIN T) <= MaxClients
      /\ \A d \in DOMAIN T : /\ T[d] \in [windowStart : Minutes, count : Nat]
                             /\ T[d].windowStart = now /\ T[d].count <= Limit
  BY <1>1, TableFacts
<1>6. T = [d \in DOMAIN T |-> T[d]]
  BY DEF Table, IInv, TypeOK
<1> DEFINE S == State(c, now)
           old == IF c \in DOMAIN T THEN T[c].count ELSE 0
<1>7. /\ S \in [windowStart : Minutes, count : Nat]
      /\ S.windowStart = now /\ S.count = old /\ S.count <= Limit
  BY <1>1, <1>2, <1>5 DEF State
<1>8. S = [windowStart |-> now, count |-> old]
  BY <1>7
<1> HIDE DEF T, S
\* The table after the step: refused for want of room, or c entered with its count.
<1>9. \/ clients' = T /\ allowed' = allowed
      \/ /\ c \in DOMAIN T \/ Cardinality(DOMAIN T) < MaxClients
         /\ \E n \in Nat :
              /\ n <= Limit
              /\ clients' = [d \in DOMAIN T \cup {c} |->
                              IF d = c THEN [windowStart |-> now, count |-> n] ELSE T[d]]
              /\ \/ n = old /\ allowed' = allowed
                 \/ n = old + 1 /\ allowed' = [allowed EXCEPT ![c][now] = @ + 1]
  <2>1. Cardinality(DOMAIN T) \in Nat /\ MaxClients \in Nat
    BY <1>5, FS_CardinalityType, RateLimiterAssumption
  <2>2. ~Full(c, now) => c \in DOMAIN T \/ Cardinality(DOMAIN T) < MaxClients
    BY <2>1 DEF Full, T
  <2>3. old \in Nat /\ old <= Limit
    BY <1>7
  <2>4. CASE Full(c, now) /\ clients' = Table(now) /\ UNCHANGED allowed
    BY <2>4 DEF T
  <2>5. CASE ~Full(c, now) /\ Put(c, now, State(c, now)) /\ UNCHANGED allowed
    BY <2>5, <2>2, <2>3, <1>8 DEF Put, T, S
  <2>6. CASE /\ ~Full(c, now) /\ ~AtLimit(c, now)
             /\ Put(c, now, [State(c, now) EXCEPT !.count = @ + 1])
             /\ allowed' = [allowed EXCEPT ![c][now] = @ + 1]
    <3>1. old + 1 <= Limit /\ old + 1 \in Nat
      BY <2>6, <2>3, <1>2, <1>7 DEF AtLimit, S
    <3>2. [State(c, now) EXCEPT !.count = @ + 1] = [windowStart |-> now, count |-> old + 1]
      BY <1>8 DEF S
    <3> QED BY <2>6, <2>2, <3>1, <3>2 DEF Put, T
  <2> QED BY <1>2, <2>4, <2>5, <2>6
<1>10. /\ DOMAIN clients' \subseteq Client
       /\ clients' \in [DOMAIN clients' -> [windowStart : Minutes, count : Nat]]
       /\ \A d \in DOMAIN clients' : clients'[d].windowStart = now
       /\ \A d \in DOMAIN clients' : clients'[d].count <= Limit
  BY <1>9, <1>5, <1>6, <1>1
<1>11. IsFiniteSet(DOMAIN clients') /\ Cardinality(DOMAIN clients') <= MaxClients
  <2>1. CASE DOMAIN clients' = DOMAIN T
    BY <2>1, <1>5
  <2>2. CASE /\ DOMAIN clients' = DOMAIN T \cup {c} /\ c \notin DOMAIN T
             /\ Cardinality(DOMAIN T) < MaxClients
    <3>1. /\ IsFiniteSet(DOMAIN T \cup {c})
          /\ Cardinality(DOMAIN T \cup {c}) = Cardinality(DOMAIN T) + 1
      BY <2>2, <1>5, FS_AddElement, Zenon
    <3>2. Cardinality(DOMAIN T) \in Nat
      BY <1>5, FS_CardinalityType
    <3> QED BY <3>1, <3>2, <2>2, RateLimiterAssumption
  <2> QED BY <2>1, <2>2, <1>9
<1>12. TypeOK'
  <2>1. allowed' \in [Requester -> [Minutes -> Nat]]
    BY <1>9, <1>1 DEF IInv, TypeOK
  <2>2. call' \in [Handler -> Stamped \cup {Idle}]
    BY <1>3 DEF IInv, TypeOK
  <2>3. answer' \in [Handler -> {"none", "allowed", "refused"}]
    BY <1>3 DEF IInv, TypeOK
  <2> QED BY <1>1, <1>3, <1>4, <1>10, <2>1, <2>2, <2>3 DEF IInv, TypeOK
<1>13. ASSUME NEW d \in Client, NEW m \in Minutes
       PROVE  Quota(d, m)'
  <2> DEFINE P == Limit * rollbacks'
             a == allowed[d][m]
  <2>1. /\ now < m => a <= P
        /\ now > m => a <= P + Limit
        /\ now = m /\ windowStart # now => a <= P
        /\ now = m /\ windowStart = now => a <= P + Count(d)
    BY <1>1, <1>2, QuotaOnEntry
  <2>2. a \in Nat /\ P \in Nat
    BY <1>2, <1>4, TimesSucc DEF IInv, TypeOK, Requester
  <2> DEFINE before == IF d \in DOMAIN T THEN T[d].count ELSE 0
  <2>3. now = m => a <= P + before
    BY <2>1, <2>2 DEF T, Table, Count
  <2>4. before \in Nat
    BY <1>5
  <2>5. \/ allowed'[d][m] = a /\ Count(d)' >= before /\ Count(d)' \in Nat
        \/ allowed'[d][m] = a + 1 /\ now = m /\ Count(d)' = before + 1
    <3> USE DEF Count, IInv, TypeOK
    <3>1. CASE clients' = T /\ allowed' = allowed
      BY <3>1, <2>4
    <3>2. CASE clients' # T \/ allowed' # allowed
      <4>1. PICK n \in Nat :
              /\ clients' = [e \in DOMAIN T \cup {c} |->
                              IF e = c THEN [windowStart |-> now, count |-> n] ELSE T[e]]
              /\ \/ n = old /\ allowed' = allowed
                 \/ n = old + 1 /\ allowed' = [allowed EXCEPT ![c][now] = @ + 1]
        BY <1>9, <3>2
      <4>2. CASE d # c
        BY <4>1, <4>2, <2>4, <1>1 DEF Requester
      <4>3. CASE d = c
        <5>1. Count(d)' = n /\ before = old
          BY <4>1, <4>3
        <5>2. CASE n = old /\ allowed' = allowed
          BY <5>1, <5>2, <2>4
        <5>3. CASE n = old + 1 /\ allowed' = [allowed EXCEPT ![c][now] = @ + 1] /\ now = m
          BY <5>1, <5>3, <4>3, <1>1 DEF Requester
        <5>4. CASE n = old + 1 /\ allowed' = [allowed EXCEPT ![c][now] = @ + 1] /\ now # m
          BY <5>1, <5>4, <4>3, <1>1, <2>4 DEF Requester
        <5> QED BY <4>1, <5>2, <5>3, <5>4
      <4> QED BY <4>2, <4>3
    <3> QED BY <3>1, <3>2
  <2> HIDE DEF P, a, before
  <2> QED BY <1>1, <1>2, <1>4, <2>1, <2>2, <2>3, <2>4, <2>5 DEF Quota, Minutes, P, a
<1> QED BY <1>4, <1>10, <1>11, <1>12, <1>13 DEF IInv, TableBounded

\* Every step of the limiter and of its callers preserves the invariant.
LEMMA NextKeepsIInv == IInv /\ [Next]_vars => IInv'
<1> SUFFICES ASSUME IInv, [Next]_vars PROVE IInv'
  OBVIOUS
<1>1. CASE Tick
  <2>1. minute' \in Minutes
    BY <1>1, RateLimiterAssumption DEF Tick, IInv, TypeOK, Minutes
  <2> QED BY <1>1, <2>1 DEF Tick, IInv, TypeOK, TableBounded, Quota, Count
<1>2. ASSUME NEW h \in Handler, NEW c \in Requester, ReadClock(h, c)
      PROVE  IInv'
  <2>1. call' \in [Handler -> Stamped \cup {Idle}]
    BY <1>2 DEF ReadClock, IInv, TypeOK, Stamped
  <2>2. answer' \in [Handler -> {"none", "allowed", "refused"}]
    BY <1>2 DEF ReadClock, IInv, TypeOK
  <2> QED BY <1>2, <2>1, <2>2 DEF ReadClock, IInv, TypeOK, TableBounded, Quota, Count
<1>3. ASSUME NEW h \in Handler, AllowUnlimited(h)
      PROVE  IInv'
  <2>1. call' \in [Handler -> Stamped \cup {Idle}]
    BY <1>3 DEF AllowUnlimited, Answer, IInv, TypeOK
  <2>2. answer' \in [Handler -> {"none", "allowed", "refused"}]
    BY <1>3 DEF AllowUnlimited, Answer, IInv, TypeOK
  <2> QED BY <1>3, <2>1, <2>2
          DEF AllowUnlimited, Answer, IInv, TypeOK, TableBounded, Quota, Count
<1>4. ASSUME NEW h \in Handler, AllowLocked(h, call[h].client, call[h].now)
      PROVE  IInv'
  BY <1>4, AllowKeepsIInv
<1>5. CASE UNCHANGED vars
  BY <1>5 DEF vars, IInv, TypeOK, TableBounded, Quota, Count
<1> QED BY <1>1, <1>2, <1>3, <1>4, <1>5 DEF Next

LEMMA InitIInv == Init => IInv
<1> SUFFICES ASSUME Init PROVE IInv
  OBVIOUS
<1>1. DOMAIN clients = {} /\ IsFiniteSet({}) /\ Cardinality({}) = 0
  BY FS_EmptySet DEF Init
<1>2. Limit * rollbacks = 0
  BY RateLimiterAssumption DEF Init
<1>3. TypeOK
  BY <1>1, RateLimiterAssumption DEF Init, TypeOK, Minutes, Stamped, Requester
<1>4. \A c \in Client, m \in Minutes : Quota(c, m)
  BY <1>1, <1>2, RateLimiterAssumption DEF Init, Quota, Minutes, Requester, Count
<1> QED BY <1>1, <1>3, <1>4, RateLimiterAssumption DEF IInv, TableBounded

LEMMA SpecIInv == Spec => []IInv
  BY InitIInv, NextKeepsIInv, PTL DEF Spec

\* The limiter's state keeps its types.
THEOREM TypeCorrect == Spec => []TypeOK
  BY SpecIInv, PTL DEF IInv

\* rateLimiter.clients never holds more than maxClients entries, all of one minute.
THEOREM BoundedTable == Spec => []TableBounded
  BY SpecIInv, PTL DEF IInv

\* A client gets at most Limit requests of one minute through for each time that
\* the limiter's window went back, and once more.
THEOREM RateLimited == Spec => []LimitedButForRollbacks
<1>1. IInv => LimitedButForRollbacks
  <2> SUFFICES ASSUME IInv, NEW c \in Client, NEW m \in Minutes
               PROVE  allowed[c][m] <= Limit * (1 + rollbacks)
    BY DEF LimitedButForRollbacks
  <2> DEFINE P == Limit * rollbacks
  <2>1. P \in Nat /\ Limit * (1 + rollbacks) = P + Limit /\ Limit \in Nat
    BY TimesSucc, RateLimiterAssumption DEF IInv, TypeOK
  <2>2. Count(c) \in Nat /\ Count(c) <= Limit
    BY RateLimiterAssumption DEF IInv, TypeOK, Count
  <2>3. /\ allowed[c][m] \in Nat /\ windowStart \in Int /\ m \in Int
    BY RateLimiterAssumption DEF IInv, TypeOK, Minutes, Requester
  <2>4. /\ windowStart < m => allowed[c][m] <= P
        /\ windowStart > m => allowed[c][m] <= P + Limit
        /\ windowStart = m => allowed[c][m] <= P + Count(c)
    BY DEF IInv, Quota
  <2> HIDE DEF P
  <2> QED BY <2>1, <2>2, <2>3, <2>4
<1> QED BY <1>1, SpecIInv, PTL

-----------------------------------------------------------------------------
\* What the table counts was let through, and a handler that waits for the lock
\* has no answer yet.
Counted ==
  /\ \A h \in Handler : call[h] # Idle => answer[h] = "none"
  /\ \A c \in DOMAIN clients : clients[c].count <= allowed[c][windowStart]

\* The entry that Allow finds or makes counts what was let through at most.
LEMMA StateCounted ==
  ASSUME IInv, Counted, NEW c \in Client, NEW now \in Minutes
  PROVE  /\ State(c, now).count \in Nat /\ State(c, now).count <= allowed[c][now]
         /\ DOMAIN State(c, now) = {"windowStart", "count"}
         /\ \A d \in DOMAIN Table(now) : Table(now)[d].count <= allowed[d][now]
<1>1. allowed[c][now] \in Nat
  BY DEF IInv, TypeOK, Requester
<1>2. \A d \in DOMAIN Table(now) : Table(now)[d].count <= allowed[d][now]
  <2>1. CASE windowStart = now
    BY <2>1 DEF Counted, Table
  <2>2. CASE windowStart # now
    BY <2>2 DEF Table
  <2> QED BY <2>1, <2>2
<1>3. \A d \in DOMAIN Table(now) : Table(now)[d] \in [windowStart : Minutes, count : Nat]
  BY TableFacts
<1>4. CASE c \in DOMAIN Table(now) /\ Table(now)[c].windowStart = now
  BY <1>2, <1>3, <1>4 DEF State
<1>5. CASE ~(c \in DOMAIN Table(now) /\ Table(now)[c].windowStart = now)
  <2>1. State(c, now) = [windowStart |-> now, count |-> 0]
    BY <1>5 DEF State
  <2> QED BY <1>1, <1>2, <2>1
<1> QED BY <1>4, <1>5

\* Who calls Allow under the lock, and for which minute.
LEMMA Caller ==
  ASSUME IInv, NEW h \in Handler, AllowLocked(h, call[h].client, call[h].now)
  PROVE  call[h].client \in Client /\ call[h].now \in Minutes /\ Limit > 0
BY DEF IInv, TypeOK, AllowLocked, Stamped, Requester

LEMMA NextKeepsCounted ==
  ASSUME IInv, Counted, [Next]_vars
  PROVE  Counted'
<1>1. CASE UNCHANGED <<windowStart, clients, call, answer, allowed>>
  BY <1>1 DEF Counted
<1>2. ASSUME NEW h \in Handler, NEW c \in Requester, ReadClock(h, c) PROVE Counted'
  <2>1. \A g \in Handler : call'[g] # Idle => answer'[g] = "none"
    BY <1>2 DEF ReadClock, Counted, IInv, TypeOK
  <2> QED BY <1>2, <2>1 DEF ReadClock, Counted
<1>3. ASSUME NEW h \in Handler, NEW ok, Answer(h, ok)
      PROVE  \A g \in Handler : call'[g] # Idle => answer'[g] = "none"
  BY <1>3 DEF Answer, Counted, IInv, TypeOK
<1>4. ASSUME NEW h \in Handler, AllowUnlimited(h) PROVE Counted'
  BY <1>3, <1>4 DEF AllowUnlimited, Counted
<1>5. ASSUME NEW h \in Handler, AllowLocked(h, call[h].client, call[h].now) PROVE Counted'
  <2> DEFINE c == call[h].client
  <2> DEFINE now == call[h].now
  <2>1. c \in Client /\ now \in Minutes
    BY <1>5, Caller
  <2>2. Locked(h, c, now) /\ windowStart' = now
    BY <1>5 DEF AllowLocked, Locked, EnterWindow
  <2> HIDE DEF c, now
  <2>3. /\ State(c, now).count \in Nat /\ State(c, now).count <= allowed[c][now]
        /\ DOMAIN State(c, now) = {"windowStart", "count"}
        /\ \A d \in DOMAIN Table(now) : Table(now)[d].count <= allowed[d][now]
    BY <2>1, StateCounted
  <2>4. \A g \in Handler : call'[g] # Idle => answer'[g] = "none"
    BY <1>3, <2>2 DEF Locked
  <2>5. DOMAIN Table(now) \subseteq Client
    BY <2>1, TableFacts
  <2>6. CASE clients' = Table(now) /\ UNCHANGED allowed
    BY <2>2, <2>3, <2>4, <2>6 DEF Counted
  <2>7. CASE Put(c, now, State(c, now)) /\ UNCHANGED allowed
    BY <2>2, <2>3, <2>4, <2>7 DEF Counted, Put
  <2>8. CASE /\ Put(c, now, [State(c, now) EXCEPT !.count = @ + 1])
             /\ allowed' = [allowed EXCEPT ![c][now] = @ + 1]
    <3> DEFINE more == [State(c, now) EXCEPT !.count = @ + 1]
    <3>1. more.count = State(c, now).count + 1
      BY <2>3
    <3>2. /\ DOMAIN clients' = DOMAIN Table(now) \cup {c} /\ clients'[c] = more
          /\ \A d \in DOMAIN Table(now) : d # c => clients'[d] = Table(now)[d]
      BY <2>8 DEF Put
    <3> HIDE DEF more
    <3>3. allowed \in [Requester -> [Minutes -> Nat]] /\ Client \subseteq Requester
      BY DEF IInv, TypeOK, Requester
    <3>4. /\ allowed'[c][now] = allowed[c][now] + 1 /\ allowed[c][now] \in Nat
          /\ \A d \in Client : d # c => allowed'[d] = allowed[d]
      BY <2>1, <2>8, <3>3
    <3>5. ASSUME NEW d \in DOMAIN clients' PROVE clients'[d].count <= allowed'[d][now]
      <4>1. CASE d = c
        BY <2>3, <3>1, <3>2, <3>4, <4>1
      <4>2. CASE d # c
        BY <2>3, <2>5, <3>2, <3>4, <4>2
      <4> QED BY <4>1, <4>2
    <3> QED BY <2>2, <2>4, <3>5 DEF Counted
  <2> QED BY <2>2, <2>6, <2>7, <2>8 DEF Locked
<1> QED BY <1>1, <1>2, <1>4, <1>5 DEF Next, Tick, vars

LEMMA SpecCounted == Spec => [](IInv /\ Counted)
<1>1. Init => Counted
  BY DEF Init, Counted
<1> QED BY <1>1, InitIInv, NextKeepsIInv, NextKeepsCounted, PTL DEF Spec

\* Allow refuses only a client that has used up its limit of the minute or that
\* finds the table full of others, whatever handlers wait for the lock.
THEOREM RefusalsJustified == Spec => RefusalJustified
<1> DEFINE Justified(h) ==
      call[h] # Idle /\ answer'[h] = "refused" =>
        \/ allowed[call[h].client][call[h].now] >= Limit
        \/ /\ call[h].client \notin DOMAIN clients'
           /\ Cardinality(DOMAIN clients') = MaxClients
<1>1. ASSUME IInv, Counted, [Next]_vars, NEW g \in Handler PROVE Justified(g)
  <2> SUFFICES ASSUME call[g] # Idle, answer'[g] = "refused"
               PROVE  \/ allowed[call[g].client][call[g].now] >= Limit
                      \/ /\ call[g].client \notin DOMAIN clients'
                         /\ Cardinality(DOMAIN clients') = MaxClients
    OBVIOUS
  <2>1. answer[g] = "none" /\ answer \in [Handler -> {"none", "allowed", "refused"}]
    BY <1>1 DEF Counted, IInv, TypeOK
  <2>2. AllowLocked(g, call[g].client, call[g].now)
    <3>1. ~Tick /\ ~(UNCHANGED vars)
      BY <2>1 DEF Tick, vars
    <3>2. ASSUME NEW h \in Handler, NEW c \in Requester, ReadClock(h, c) PROVE FALSE
      BY <2>1, <3>2 DEF ReadClock
    <3>3. ASSUME NEW h \in Handler, AllowUnlimited(h) PROVE FALSE
      BY <2>1, <3>3 DEF AllowUnlimited, Answer
    <3>4. ASSUME NEW h \in Handler, AllowLocked(h, call[h].client, call[h].now), h # g PROVE FALSE
      <4>1. PICK ok : Answer(h, ok)
        BY <3>4 DEF AllowLocked, Locked
      <4> QED BY <2>1, <3>4, <4>1 DEF Answer
    <3> QED BY <1>1, <3>1, <3>2, <3>3, <3>4 DEF Next
  <2> DEFINE c == call[g].client
  <2> DEFINE now == call[g].now
  <2>3. c \in Client /\ now \in Minutes /\ Limit > 0 /\ Locked(g, c, now)
    BY <1>1, <2>2, Caller DEF AllowLocked
  <2> HIDE DEF c, now
  <2>4. CASE Full(c, now) /\ clients' = Table(now)
    <3>1. c \notin DOMAIN Table(now) /\ Cardinality(DOMAIN Table(now)) >= MaxClients
      BY <2>4 DEF Full
    <3>2. /\ Cardinality(DOMAIN Table(now)) <= MaxClients
          /\ IsFiniteSet(DOMAIN Table(now))
      BY <1>1, <2>3, TableFacts
    <3>3. Cardinality(DOMAIN Table(now)) \in Nat
      BY <3>2, FS_CardinalityType
    <3> QED BY <2>4, <3>1, <3>2, <3>3, RateLimiterAssumption DEF c
  <2>5. CASE AtLimit(c, now)
    <3>1. State(c, now).count >= Limit /\ State(c, now).count \in Nat
          /\ State(c, now).count <= allowed[c][now]
      BY <1>1, <2>3, <2>5, StateCounted DEF AtLimit
    <3>2. allowed[c][now] \in Nat
      BY <1>1, <2>3 DEF IInv, TypeOK, Requester
    <3> QED BY <3>1, <3>2, RateLimiterAssumption DEF c, now
  <2>6. ~Answer(g, TRUE)
    BY <2>1 DEF Answer
  <2> QED BY <2>3, <2>4, <2>5, <2>6 DEF Locked
<1>2. IInv /\ Counted /\ [Next]_vars => [\A h \in Handler : Justified(h)]_vars
  BY <1>1
<1> QED BY <1>2, SpecCounted, PTL DEF Spec, RefusalJustified
=============================================================================
