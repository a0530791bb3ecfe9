----------------------------- MODULE RateLimiter -----------------------------
(***************************************************************************)
(* internal/httpapi/ratelimiter.go and its one caller, handleCollect.  The *)
(* handler reads the clock, then calls Allow, which takes the mutex: other *)
(* handlers, and the end of the minute, may come in between.  One table    *)
(* serves all clients; it is thrown away whenever a call arrives whose     *)
(* minute differs from the table's, be it newer or older.                  *)
(***************************************************************************)
EXTENDS Integers, FiniteSets

CONSTANTS Client,      \* the client addresses
          NoClient,    \* clientID == "", an address that could not be read
          Handler,     \* bound: handlers at work at the same time
          Limit,       \* config RateLimitPerMinute, 0 for no limit
          MaxClients,  \* config RateLimitMaxClients
          MaxMinute    \* bound: the last minute explored

\* config.go:185; MaxClients of zero or less is replaced by newRateLimiter.
ASSUME RateLimiterAssumption ==
  /\ Limit \in Nat
  /\ MaxClients \in Nat \ {0}
  /\ MaxMinute \in Nat
  /\ NoClient \notin Client

VARIABLES minute,       \* the wall clock, truncated to the minute
          windowStart,  \* rateLimiter.windowStart, -1 for the zero Time
          clients,      \* rateLimiter.clients: a map from some of Client
          call,         \* each handler's client and the minute it read
          answer,       \* what Allow told each handler last
          allowed,      \* history: requests let through, by client and minute
          rollbacks     \* history: how often windowStart went back

vars == <<minute, windowStart, clients, call, answer, allowed, rollbacks>>

Minutes == 0..MaxMinute
Idle == [client |-> NoClient, now |-> -1]
Requester == Client \cup {NoClient}
Stamped == [client : Requester, now : Minutes]

Init ==
  /\ minute = 0
  /\ windowStart = -1
  /\ clients = [c \in {} |-> [windowStart |-> -1, count |-> 0]]
  /\ call = [h \in Handler |-> Idle]
  /\ answer = [h \in Handler |-> "none"]
  /\ allowed = [c \in Requester |-> [m \in Minutes |-> 0]]
  /\ rollbacks = 0

Tick ==
  /\ minute < MaxMinute
  /\ minute' = minute + 1
  /\ UNCHANGED <<windowStart, clients, call, answer, allowed, rollbacks>>

\* handleCollect evaluates clientIP and time.Now(), the arguments of Allow.
ReadClock(h, c) ==
  /\ call[h] = Idle
  /\ call' = [call EXCEPT ![h] = [client |-> c, now |-> minute]]
  /\ answer' = [answer EXCEPT ![h] = "none"]
  /\ UNCHANGED <<minute, windowStart, clients, allowed, rollbacks>>

Answer(h, ok) ==
  /\ answer' = [answer EXCEPT ![h] = IF ok THEN "allowed" ELSE "refused"]
  /\ call' = [call EXCEPT ![h] = Idle]
  /\ UNCHANGED minute

\* No limit is configured or the client is unknown: the lock is not taken.
AllowUnlimited(h) ==
  /\ call[h] # Idle
  /\ Limit = 0 \/ call[h].client = NoClient
  /\ Answer(h, TRUE)
  /\ UNCHANGED <<windowStart, clients, allowed, rollbacks>>

\* The table after the test of the window: emptied if the minute differs.
Table(now) ==
  IF windowStart = now THEN clients
  ELSE [c \in {} |-> [windowStart |-> now, count |-> 0]]

\* The client's entry, or a new one if it has none of this minute.
State(c, now) ==
  IF c \in DOMAIN Table(now) /\ Table(now)[c].windowStart = now
    THEN Table(now)[c] ELSE [windowStart |-> now, count |-> 0]

Put(c, now, state) ==
  clients' = [d \in DOMAIN Table(now) \cup {c} |->
                IF d = c THEN state ELSE Table(now)[d]]

\* A slip: no bound on the number of clients in the table.
NeverFull(c, now) == FALSE

Full(c, now) ==
  c \notin DOMAIN Table(now) /\ Cardinality(DOMAIN Table(now)) >= MaxClients

\* A slip: one request too few.
AtLimitEarly(c, now) == State(c, now).count >= Limit - 1

\* A slip: one request too many.
PastLimit(c, now) == State(c, now).count > Limit

AtLimit(c, now) == State(c, now).count >= Limit

EnterWindow(now) ==
  /\ windowStart' = now
  /\ rollbacks' = IF now < windowStart THEN rollbacks + 1 ELSE rollbacks

\* The part of Allow under the mutex.
Locked(h, c, now) ==
  /\ EnterWindow(now)
  /\ \/ /\ Full(c, now)
        /\ clients' = Table(now)
        /\ Answer(h, FALSE)
        /\ UNCHANGED allowed
     \/ /\ ~Full(c, now) /\ AtLimit(c, now)
        /\ Put(c, now, State(c, now))
        /\ Answer(h, FALSE)
        /\ UNCHANGED allowed
     \/ /\ ~Full(c, now) /\ ~AtLimit(c, now)
        /\ Put(c, now, [State(c, now) EXCEPT !.count = @ + 1])
        /\ Answer(h, TRUE)
        /\ allowed' = [allowed EXCEPT ![c][now] = @ + 1]

\* Allow for the client c and the minute that the handler read.
AllowLocked(h, c, now) ==
  /\ call[h] # Idle /\ Limit > 0 /\ c # NoClient
  /\ Locked(h, c, now)

Next ==
  \/ Tick
  \/ \E h \in Handler :
       \/ \E c \in Requester : ReadClock(h, c)
       \/ AllowUnlimited(h)
       \/ AllowLocked(h, call[h].client, call[h].now)

Spec == Init /\ [][Next]_vars

-----------------------------------------------------------------------------
\* Type invariant; the table is a map from some of the clients.
TypeOK ==
  /\ minute \in Minutes
  /\ windowStart \in Minutes \cup {-1}
  /\ DOMAIN clients \subseteq Client
  /\ clients \in [DOMAIN clients -> [windowStart : Minutes, count : Nat]]
  /\ call \in [Handler -> Stamped \cup {Idle}]
  /\ answer \in [Handler -> {"none", "allowed", "refused"}]
  /\ allowed \in [Requester -> [Minutes -> Nat]]
  /\ rollbacks \in Nat

\* Memory is bounded whatever addresses clients come from: the table has at most
\* MaxClients entries, all of them of the table's own minute.
TableBounded ==
  /\ Cardinality(DOMAIN clients) <= MaxClients
  /\ \A c \in DOMAIN clients : clients[c].windowStart = windowStart

\* What the limiter does guarantee: a client gets more than Limit requests of one
\* minute through only if handlers that read the clock before the minute changed
\* took the lock after it, and at most Limit more for each time that happened.
LimitedButForRollbacks ==
  \A c \in Client, m \in Minutes : allowed[c][m] <= Limit * (1 + rollbacks)

\* Nobody is refused without reason: a refused client had used up its Limit of
\* that minute, or found the table full of other clients.
RefusalJustified ==
  [][\A h \in Handler :
       call[h] # Idle /\ answer'[h] = "refused" =>
         \/ allowed[call[h].client][call[h].now] >= Limit
         \/ /\ call[h].client \notin DOMAIN clients'
            /\ Cardinality(DOMAIN clients') = MaxClients]_vars

\* README.md:208: "Requests are rate limited per client IP in-memory with
\* `RATE_LIMIT_PER_MINUTE`": no client gets more through in one minute.
LimitedPerMinute ==
  \A c \in Client, m \in Minutes : Limit > 0 => allowed[c][m] <= Limit
=============================================================================
