------------------------------ MODULE Admission ------------------------------
(***************************************************************************)
(* What a request must be for its events to be accepted: Load of config.go *)
(* at the start of the process, then for one request after another the     *)
(* checks of handleCollect (server.go) that depend on its content, with    *)
(* DecodeBatch, Enrich, ApplyFieldLimits and Validate of events.go.        *)
(*                                                                         *)
(* Requests are handled at the same time, but the content checks share     *)
(* only the configuration, which never changes, and validTimezoneCache,    *)
(* which only grows: one after another they find the same.  The checks     *)
(* that do not look at the content, the queue and the counters are in      *)
(* module HttpApi.                                                         *)
(*                                                                         *)
(* A request has the addresses origin, host, forwarded and referer (the    *)
(* headers Origin, Host, X-Forwarded-Host and Referer) and a body          *)
(*   shape     "broken", "null", "other" (a list or a scalar), "object"    *)
(*   trailing  something follows the first JSON value                      *)
(*   keys      which of "events" and "more" (all others) a batch has; {}   *)
(*             when the object is a single event                           *)
(*   list      what "events" is: "null", "other", "array"                  *)
(*   events    the events of a batch, or the single event                  *)
(*                                                                         *)
(* Of an event, unknown says that it has a field that Event has not.  The  *)
(* fields that the server fills in are fields of Event, and a client may   *)
(* send them: claimed is which of those that Enrich is about it has sent,  *)
(* "metadata" (host, domain, agent, language, Origin, Referer, scheme,     *)
(* version, parts of the time zone), "client_ip" and "ip_metadata"         *)
(* (forwarded_for, remote_addr).  referrer is the field it sends, referer  *)
(* the one filled in from the header.                                      *)
(***************************************************************************)
EXTENDS Config, Payload

CONSTANTS Environment,  \* the environments the process is started in
          Event,        \* the events that clients send
          Request,      \* the requests that clients send
          Zone          \* the names that time.LoadLocation knows

VARIABLES
  env,       \* the environment
  cfg,       \* the result of Load
  phase,     \* "start", "exit", "idle", "checks", "enrich", "validate", "replied"
  request,   \* the request being handled
  batch,     \* its events that are not enriched yet
  event,     \* the event in the loop
  enriched,  \* the events that passed
  reply,     \* the last reply: its code, and the detail of invalid_event
  validTimezoneCache,
  decoded    \* history: the events as they were sent

vars == <<env, cfg, phase, request, batch, event, enriched, reply, validTimezoneCache, decoded>>

NoReply == [code |-> Blank, detail |-> Blank]

\* The event that {} and null are decoded to; without a payload it has NoPayload.
ZeroEvent ==
  [unknown |-> FALSE, claimed |-> {}, type |-> Blank, site |-> Blank, stamp |-> Blank, session |-> 0, anonymous |-> 0,
   user |-> 0, title |-> 0, path |-> [len |-> 0, tail |-> 0], url |-> Empty,
   referrer |-> Empty, origin |-> Empty, referer |-> Empty, zone |-> Blank, offset |-> 0, payload |-> NoPayload]

NoRequest == [origin |-> Empty]

\* No payload becomes an empty one; a time that cannot be parsed, the time of arrival.
Normalize(e) ==
  [e EXCEPT !.stamp = IF @ = "given" THEN @ ELSE "received",
            !.payload = IF @ = NoPayload THEN EmptyPayload ELSE @]

\* What the environments, events and requests are.  An address with another scheme
\* than http and https stands for no host: normalizeDomain leaves its scheme, and
\* nobody asks for that (config.go:278-283).
IsEnvironment(v) ==
  /\ v.domains \in Seq(Addresses)
  /\ v.sites \in Seq([colon : BOOLEAN, site : STRING, origins : Seq(Addresses)])
  /\ DOMAIN v.value \subseteq DOMAIN Default
  /\ \A f \in DOMAIN v.value : v.value[f] \in IF f \in Flags THEN BOOLEAN ELSE Int

IsEvent(e) ==
  /\ DOMAIN e = DOMAIN ZeroEvent
  /\ {e.url, e.referrer} \subseteq Addresses
  /\ e.claimed \subseteq {"metadata", "client_ip", "ip_metadata"}
  /\ e.path \in [len : Nat, tail : Nat]
  /\ {e.session, e.anonymous, e.user, e.title} \subseteq Nat
  /\ IsPayload(e.payload)

IsRequest(r) ==
  /\ {r.origin, r.host, r.forwarded, r.referer} \subseteq Addresses
  /\ r.body.events \in Seq(Event)
  /\ r.body.shape \in {"broken", "null", "other", "object"}
  /\ r.body.keys \subseteq {"events", "more"}
  /\ r.body.keys = {} => Len(r.body.events) = 1
  /\ r.body.list \in {"null", "other", "array"}
  /\ r.body.list = "null" => r.body.events = <<>>

Plain(a) == a.scheme \in {Blank, "//", "http", "https"}
NotAsked(listed, asked) ==
  \A k \in 1..Len(listed) :
    (Plain(listed[k]) /\ Plain(asked)) \/ normalizeDomain(listed[k]) # normalizeDomain(asked)

ASSUME AdmissionAssumption ==
  /\ \A v \in Environment : IsEnvironment(v)
  /\ ZeroEvent \in Event /\ \A e \in Event : IsEvent(e)
  /\ \A r \in Request : IsRequest(r)
  /\ \A v \in Environment, r \in Request :
       /\ NotAsked(v.domains, r.host) /\ NotAsked(v.domains, r.forwarded)
       /\ \A k \in 1..Len(v.sites) : NotAsked(v.sites[k].origins, r.origin)

Init ==
  /\ env \in Environment
  /\ cfg = <<>>
  /\ phase = "start"
  /\ request = NoRequest /\ batch = <<>> /\ event = ZeroEvent
  /\ enriched = <<>> /\ reply = NoReply
  /\ validTimezoneCache = {} /\ decoded = <<>>

Load ==
  /\ phase = "start"
  /\ IF LoadError(env) = Blank THEN phase' = "idle" /\ cfg' = Filled(env)
                            ELSE phase' = "exit" /\ UNCHANGED cfg
  /\ UNCHANGED <<env, request, batch, event, enriched, reply, validTimezoneCache, decoded>>

-----------------------------------------------------------------------------
\* The body.

\* A slip: other keys beside the events are ignored.
decodeAnyBatch(body) ==
  LET is == body.shape = "object" /\ ~body.trailing /\ "events" \in body.keys
  IN  [is |-> is,
       error |-> is /\ (body.list = "other" \/ \E k \in 1..Len(body.events) : body.events[k].unknown)]

\* Whether the body is taken for a batch, and whether that fails.
decodeBatchRequest(body) ==
  LET is == body.shape = "object" /\ ~body.trailing /\ "events" \in body.keys
  IN  [is |-> is,
       error |-> is /\ (\/ body.keys # {"events"}
                        \/ body.list = "other"
                        \/ \E k \in 1..Len(body.events) : body.events[k].unknown)]

\* The error of DecodeBatch.  In a single event "events" is an unknown field.
decodeError(body) ==
  LET request_ == decodeBatchRequest(body)
  IN  IF request_.is
        THEN First(<<When(request_.error, "invalid_json"),
                     When(body.events = <<>>, "empty_batch")>>)
        ELSE When(\/ body.shape \in {"broken", "other"}
                  \/ body.trailing
                  \/ body.keys # {}
                  \/ body.shape = "object" /\ body.events[1].unknown, "invalid_json")

DecodeBatch(body) == IF body.shape = "null" THEN <<ZeroEvent>> ELSE body.events

effectiveHost(r) ==
  IF cfg.TrustProxyHeaders /\ r.forwarded # Empty THEN r.forwarded ELSE r.host

AllowedDomain(domain) == domain \in cfg.AllowedDomainSet

\* The checks of the request before the loop over its events.
requestError(r) ==
  First(<<When(cfg.RequireOrigin /\ r.origin = Empty, "origin_required"),
          decodeError(r.body),
          When(Len(DecodeBatch(r.body)) > cfg.MaxEventsPerRequest, "too_many_events"),
          When(~AllowedDomain(normalizeDomain(effectiveHost(r))), "domain_not_allowed")>>)

Receive(r) ==
  /\ phase = "idle"
  /\ phase' = "checks" /\ request' = r
  /\ UNCHANGED <<env, cfg, batch, event, enriched, reply, validTimezoneCache, decoded>>

Reply(code, detail) ==
  /\ reply' = [code |-> code, detail |-> detail]
  /\ phase' = "replied" /\ batch' = <<>> /\ event' = ZeroEvent

CheckRequest ==
  /\ phase = "checks"
  /\ LET error == requestError(request)
     IN  \/ error # Blank /\ Reply(error, Blank) /\ UNCHANGED decoded
         \/ /\ error = Blank
            /\ phase' = "enrich"
            /\ batch' = DecodeBatch(request.body) /\ decoded' = DecodeBatch(request.body)
            /\ UNCHANGED <<event, reply>>
  /\ UNCHANGED <<env, cfg, request, enriched, validTimezoneCache>>

-----------------------------------------------------------------------------
\* One event in the loop.

\* A path is cut at its first ? or #: tail is what follows.
sanitizePath(path) == [path EXCEPT !.tail = 0]

refererHeader(r) == IF cfg.SanitizeURLs THEN sanitizeURL(r.referer) ELSE r.referer

\* The fields that Enrich fills in whatever the client sent.
FilledIn ==
  {"metadata"} \cup (IF cfg.CaptureClientIP THEN {"client_ip"} ELSE {})
    \cup (IF cfg.StoreIPMetadata THEN {"ip_metadata"} ELSE {})

Enrich(e, r) ==
  LET n == [Normalize(e) EXCEPT !.origin = r.origin, !.referer = refererHeader(r),
                                !.claimed = @ \ FilledIn]
  IN  IF cfg.SanitizeURLs
        THEN [n EXCEPT !.url = sanitizeURL(@), !.referrer = sanitizeURL(@), !.path = sanitizePath(@)]
        ELSE n

originAllowedForSite(e) ==
  \/ DOMAIN cfg.SiteOriginSet = {}
  \/ /\ e.site \in DOMAIN cfg.SiteOriginSet
     /\ normalizeDomain(e.origin) \in cfg.SiteOriginSet[e.site]

EnrichEvent ==
  /\ phase = "enrich" /\ batch # <<>>
  /\ LET e == Enrich(Head(batch), request)
         error == First(<<When(~originAllowedForSite(e), "origin_not_allowed_for_site"),
                          When(cfg.RequireURLHostMatch /\ ~urlMatchesOrigin(e.url, e.origin),
                               "url_host_mismatch")>>)
     IN  \/ error # Blank /\ Reply(error, Blank)
         \/ /\ error = Blank /\ phase' = "validate"
            /\ event' = e /\ batch' = Tail(batch)
            /\ UNCHANGED reply
  /\ UNCHANGED <<env, cfg, request, enriched, validTimezoneCache, decoded>>

cutPath(path, max) ==
  [len |-> truncateString(path.len, max),
   tail |-> truncateString(path.tail, max - truncateString(path.len, max))]

ApplyFieldLimits(e) ==
  LET max == cfg.MaxFieldLength
  IN  [e EXCEPT !.session = truncateString(@, max), !.anonymous = truncateString(@, max),
                !.user = truncateString(@, max), !.title = truncateString(@, max),
                !.path = cutPath(@, max),
                !.url = truncateURLField(@, max), !.referrer = truncateURLField(@, max),
                !.payload = truncatePayload(@, max)]

\* identifierPattern: here "?" is a text it does not match.
Identifier(text) == text \notin {Blank, "?"}
tooLong(length) == length > cfg.MaxFieldLength

\* The checks of Validate before the timezone.
fieldError(e) ==
  First(<<When(~Identifier(e.type), "invalid_type"),
          When(~Identifier(e.site), "invalid_site_id"),
          When(tooLong(e.session) \/ tooLong(e.anonymous), "invalid_identifiers"),
          When(tooLong(e.user), "invalid_user_id"),
          When(tooLong(e.path.len + e.path.tail) \/ tooLong(e.title), "invalid_path_or_title"),
          validateURLField(e.url, cfg.MaxFieldLength),
          validateURLField(e.referrer, cfg.MaxFieldLength)>>)

\* A slip: a name is put into the cache before it is loaded.
storedFirst(name) == {name} \ {Blank}

\* What validateTimezone puts into the cache: a name that LoadLocation knows.
stored(name) == {name} \cap Zone

validateTimezone(e) ==
  First(<<When(e.zone \notin validTimezoneCache \cup Zone \cup {Blank}, "invalid_timezone"),
          When(e.offset \notin -840..840, "invalid_timezone_offset")>>)

\* The errors Validate may return, {} when it returns none.
Validate(e) ==
  LET early == First(<<fieldError(e), validateTimezone(e)>>)
  IN  IF early # Blank THEN {early}
      ELSE validatePayload(e.payload, cfg.MaxPayloadEntries, cfg.MaxPayloadDepth, cfg.MaxFieldLength)

ValidateEvent ==
  /\ phase = "validate"
  /\ LET e == ApplyFieldLimits(event)
     IN  /\ validTimezoneCache' =
              validTimezoneCache \cup (IF fieldError(e) = Blank THEN stored(e.zone) ELSE {})
         /\ \/ /\ Validate(e) = {}
               /\ enriched' = Append(enriched, e)
               /\ phase' = "enrich" /\ event' = ZeroEvent
               /\ UNCHANGED <<batch, reply>>
            \/ \E error \in Validate(e) : Reply("invalid_event", error) /\ UNCHANGED enriched
  /\ UNCHANGED <<env, cfg, request, decoded>>

\* The events go to the queue.
Accept ==
  /\ phase = "enrich" /\ batch = <<>>
  /\ Reply("ok", Blank)
  /\ UNCHANGED <<env, cfg, request, enriched, validTimezoneCache, decoded>>

\* The handler returns, and what it knew is gone.
Return ==
  /\ phase = "replied"
  /\ phase' = "idle" /\ request' = NoRequest
  /\ enriched' = <<>> /\ reply' = NoReply /\ decoded' = <<>>
  /\ UNCHANGED <<env, cfg, batch, event, validTimezoneCache>>

Next ==
  \/ Load
  \/ \E r \in Request : Receive(r)
  \/ CheckRequest \/ EnrichEvent \/ ValidateEvent \/ Accept \/ Return

Spec == Init /\ [][Next]_vars

-----------------------------------------------------------------------------
\* Properties.  What was asked for is read from the environment and the request as
\* they were given, not from what the code made of them.
Served == phase \notin {"start", "exit"}
Accepted == reply.code = "ok"
Reached(codes) == reply.code \in codes
Setting(flag) == IF flag \in DOMAIN env.value THEN env.value[flag] ELSE Default[flag]

\* The name that an address of a host stands for.
Host(a) == IF a.scheme \in {Blank, "http", "https"} THEN Lower(a.name) ELSE Blank
Hosts(list) == {Host(list[k]) : k \in 1..Len(list)} \ {Blank}

\* A process that serves has a configuration every other component can run with:
\* the sizes they divide and allocate by are positive, the backoff has an ordered
\* range, a policy is chosen, and no list of domains or origins holds the blank
\* name, which a missing header would match (config.go:185-193, 202-205, 250).
ConfigSound ==
  Served =>
    /\ \A f \in Counts \cup Durations : cfg[f] > 0
    /\ \A f \in ZeroCounts : cfg[f] >= 0
    /\ \A f \in Flags : cfg[f] \in BOOLEAN
    /\ cfg.RetryMinBackoff <= cfg.RetryMaxBackoff
    /\ cfg.DropPolicy \in {"reject", "drop_newest"}
    /\ cfg.AllowedDomainSet # {} /\ Blank \notin cfg.AllowedDomainSet
    /\ \A s \in DOMAIN cfg.SiteOriginSet :
         s # Blank /\ cfg.SiteOriginSet[s] # {} /\ Blank \notin cfg.SiteOriginSet[s]

\* A request gets past the domain check exactly when the host it was sent to is
\* listed in ALLOWED_DOMAINS, however both are written; the header of a proxy
\* stands for the host only where proxies are trusted (events.go:311-330).
DomainDecision ==
  LET r == request
      host == IF Setting("TrustProxyHeaders") /\ r.forwarded # Empty THEN r.forwarded ELSE r.host
      listed == Host(host) \in Hosts(env.domains)
  IN  /\ Reached({"ok", "invalid_event", "origin_not_allowed_for_site", "url_host_mismatch"}) => listed
      /\ Reached({"domain_not_allowed"}) => ~listed

\* With a SITE_ORIGIN_MAP every event accepted names a site whose last mapping
\* lists the Origin of the request, also when no Origin is required, and a
\* request whose sites all do is not refused for them (server.go:142, config.go:257).
SiteBinding ==
  LET ofSite(s) == {k \in 1..Len(env.sites) : env.sites[k].site = s}
      bound(e)  == /\ ofSite(e.site) # {}
                   /\ Host(request.origin) \in Hosts(env.sites[Max(ofSite(e.site))].origins)
  IN  env.sites # <<>> =>
        /\ Accepted => \A k \in 1..Len(decoded) : bound(decoded[k])
        /\ Reached({"origin_not_allowed_for_site"}) => \E k \in 1..Len(decoded) : ~bound(decoded[k])

\* What of an event must be shortened by more than its query, fragment and userinfo.
CutShort(a) == Length(Stripped(a)) > cfg.MaxFieldLength

\* The URL of an event is compared with the Origin before it is shortened, and
\* what is stored of it still names the host it was admitted for (server.go:147-152).
\* Only a host without // before it that is longer than the limit is cut itself:
\* url.Parse takes it for a path (events.go:407-421).
UrlStillMatches ==
  Accepted /\ cfg.RequireURLHostMatch =>
    \A k \in 1..Len(enriched) :
      LET e    == enriched[k]
          sent == decoded[k].url
      IN  \/ e.url = Empty \/ e.origin = Empty
          \/ Lower(e.url.name) = Lower(e.origin.name)
          \/ sent.scheme = Blank /\ NameLength(sent.name) > cfg.MaxFieldLength

\* Where URLs are sanitized, no accepted event holds a query, a fragment or
\* userinfo in its path, url or referrer: sanitizeURL leaves a URL that cannot be
\* parsed as it is, and it takes truncateURLField or validateURLField to keep it
\* out (events.go:445).  Nothing behind sanitizeURL looks at the Referer header:
\* it is clean if it can be parsed (events.go:200-203).
UrlsSanitized ==
  Accepted /\ cfg.SanitizeURLs =>
    \A k \in 1..Len(enriched) :
      LET e == enriched[k]
      IN  /\ e.path.tail = 0
          /\ \A a \in {e.url, e.referrer} \cup {b \in {e.referer} : b.ok} :
               ~a.query /\ ~a.frag /\ ~a.user

\* "Query strings and fragments are stripped from `url`, `referrer`,
\* `referer_header`, and `path` by default" (README.md:212), whatever they are.
QueriesStripped ==
  Accepted /\ cfg.SanitizeURLs =>
    \A k \in 1..Len(enriched) :
      LET e == enriched[k]
      IN  /\ e.path.tail = 0
          /\ \A a \in {e.url, e.referrer, e.referer} : ~a.query /\ ~a.frag

TooLongErrors == {"invalid_identifiers", "invalid_user_id", "invalid_path_or_title",
                  "url_field_too_long", "payload_string_too_long"}

\* What being too long can do to an event.  No error that names a length is ever
\* given: ApplyFieldLimits shortens what Validate tests, the strings at any depth of
\* a payload included (events.go:144-156, 481-508).  But a URL that is shortened may
\* be refused for what is left of it, in two cases only: it has an escape, which may
\* be cut in the middle, or it has // and a port without a scheme, and loses the //
\* (events.go:407-421).  Any other URL that is refused was sent so.
LengthVerdict ==
  LET e    == decoded[Len(enriched) + 1]
      sent == {e.url, e.referrer}
  IN  /\ reply.detail \notin TooLongErrors
      /\ reply.detail = "invalid_url" =>
           \E a \in sent : ~a.ok \/ (CutShort(a) /\ \E k \in 1..Len(a.path) : a.path[k] # "p")
      /\ reply.detail = "invalid_url_scheme" =>
           \E a \in sent :
             \/ ParsedScheme(a) \notin {Blank, "//", "http", "https"}
             \/ CutShort(a) /\ a.scheme = "//" /\ a.port

\* The payload of an accepted event keeps the limits on depth, keys and entries, as
\* WithinLimits counts them without a walk, and one that is refused for its depth,
\* a key or its entries does not: the error found first in any order of the walk is
\* a true one, and none is missed (events.go:467-548).
PayloadVerdict ==
  LET fits(e) == WithinLimits(Normalize(e).payload, cfg.MaxPayloadEntries, cfg.MaxPayloadDepth,
                              cfg.MaxFieldLength)
  IN  /\ Accepted => \A k \in 1..Len(decoded) : fits(decoded[k])
      /\ reply.detail \in {"payload_exceeds_max_depth", "invalid_payload_key",
                           "payload_has_too_many_entries"} => ~fits(decoded[Len(enriched) + 1])

\* The cache of time zones answers as time.LoadLocation would: a name that was
\* refused once is refused again, and none is accepted that is not known
\* (events.go:427-431).
ZoneVerdict ==
  /\ Accepted => \A k \in 1..Len(decoded) : decoded[k].zone \in Zone \cup {Blank}
  /\ reply.detail = "invalid_timezone" => decoded[Len(enriched) + 1].zone \notin Zone

\* A body is accepted only when it is one JSON object, either an event whose fields
\* Event knows or a list of at most MaxEventsPerRequest of them under the one key
\* events; every event of it is stored, in order, and of the fields that Enrich is
\* about it keeps what the client sent only where they are IP addresses that the
\* configuration does not capture.  A body that is null gets through DecodeBatch as
\* an event without fields (events.go:274-281, 289-309, 560-582).
BodyVerdict ==
  Accepted =>
    LET body == request.body
    IN  /\ body.shape = "object" /\ ~body.trailing /\ body.keys \in {{}, {"events"}}
        /\ body.keys = {"events"} => body.list = "array"
        /\ Len(body.events) \in 1..(IF body.keys = {} THEN 1 ELSE Setting("MaxEventsPerRequest"))
        /\ [k \in 1..Len(enriched) |-> enriched[k].site]
             = [k \in 1..Len(body.events) |-> body.events[k].site]
        /\ \A k \in 1..Len(body.events) :
             /\ ~body.events[k].unknown
             /\ enriched[k].claimed \subseteq body.events[k].claimed \ {"metadata"}
             /\ Setting("CaptureClientIP") => "client_ip" \notin enriched[k].claimed
             /\ Setting("StoreIPMetadata") => "ip_metadata" \notin enriched[k].claimed
=============================================================================
