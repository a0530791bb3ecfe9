--------------------------- MODULE Admission_proofs ---------------------------
(***************************************************************************)
(* Proofs about Admission, and with it about Config, Address and Payload:  *)
(* for any environments, events with payloads of any size, requests and    *)
(* time zones.                                                             *)
(***************************************************************************)
EXTENDS Admission, FiniteSetTheorems, SequenceTheorems, WellFoundedInduction, TLAPS

-----------------------------------------------------------------------------
\* The invariant.

Phases == {"start", "exit", "idle", "checks", "enrich", "validate", "replied"}
InLoop == phase \in {"enrich", "validate"}
PastChecks == {"ok", "invalid_event", "origin_not_allowed_for_site", "url_host_mismatch"}

\* The request has passed the checks before the loop.
Through == InLoop \/ (phase = "replied" /\ reply.code \in PastChecks)

\* The k-th event as the loop has it, and whether its site and URL are admitted.
At(k) == Enrich(decoded[k], request)
Admitted(e) ==
  originAllowedForSite(e) /\ (cfg.RequireURLHostMatch => urlMatchesOrigin(e.url, e.origin))
Kept == {ApplyFieldLimits(At(k)) : k \in 1..Len(decoded)}

Base ==
  /\ env \in Environment /\ phase \in Phases
  /\ Served => LoadError(env) = Blank /\ cfg = Filled(env)
  /\ phase # "replied" => reply = NoReply
  /\ phase \in {"checks", "enrich", "validate", "replied"} => request \in Request
  /\ phase \in {"start", "exit", "idle", "checks"} => enriched = <<>>
  /\ validTimezoneCache \subseteq Zone

Checked ==
  /\ phase = "replied" /\ reply.code \notin PastChecks =>
       reply.code = requestError(request) /\ reply.detail = Blank
  /\ Through => requestError(request) = Blank /\ decoded = DecodeBatch(request.body)

\* What is stored is what was sent, event by event, and passed every check.
Stored ==
  Through =>
    /\ enriched \in Seq(Kept) /\ Len(enriched) <= Len(decoded)
    /\ \A k \in 1..Len(enriched) :
         /\ enriched[k] = ApplyFieldLimits(At(k)) /\ Admitted(At(k))
         /\ fieldError(enriched[k]) = Blank /\ decoded[k].zone \in Zone \cup {Blank}

\* What the loop has before it, and why it was left.
Loop ==
  /\ InLoop =>
       /\ batch \in Seq(Event)
       /\ Len(decoded) = Len(enriched) + Len(batch) + (IF phase = "validate" THEN 1 ELSE 0)
       /\ \A k \in 1..Len(batch) : batch[k] = decoded[(Len(decoded) - Len(batch)) + k]
  /\ phase = "validate" => event = At(Len(enriched) + 1) /\ Admitted(event)
  /\ Accepted => Len(enriched) = Len(decoded)
  /\ Reached({"origin_not_allowed_for_site"}) =>
       Len(enriched) < Len(decoded) /\ ~originAllowedForSite(At(Len(enriched) + 1))
  /\ reply.detail = "invalid_timezone" =>
       Len(enriched) < Len(decoded) /\ decoded[Len(enriched) + 1].zone \notin Zone

Inv == Base /\ Checked /\ Stored /\ Loop

\* The errors that the payload of an event may cause, its strings being cut.
Refusals == {"payload_exceeds_max_depth", "invalid_payload_key", "payload_has_too_many_entries"}

\* The payload of an event, as it was sent, is within the limits.
Fits(e) ==
  WithinLimits(Normalize(e).payload, cfg.MaxPayloadEntries, cfg.MaxPayloadDepth, cfg.MaxFieldLength)

\* A URL that cannot be parsed, or not when it is cut; and one whose scheme is not
\* known, or not when it is cut.
Unparsable(a) == ~a.ok \/ (CutShort(a) /\ \E k \in 1..Len(a.path) : a.path[k] # "p")
BadScheme(a) ==
  \/ ParsedScheme(a) \notin {Blank, "//", "http", "https"}
  \/ CutShort(a) /\ a.scheme = "//" /\ a.port

\* No error names a length, a URL is refused for one of these reasons, and a payload
\* when it exceeds the limits.
Verdicts ==
  LET e == decoded[Len(enriched) + 1]
  IN  /\ reply.detail \notin TooLongErrors
      /\ reply.detail = "invalid_url" => Unparsable(e.url) \/ Unparsable(e.referrer)
      /\ reply.detail = "invalid_url_scheme" => BadScheme(e.url) \/ BadScheme(e.referrer)
      /\ Through => \A k \in 1..Len(enriched) : Fits(decoded[k])
      /\ reply.detail \in Refusals => ~Fits(e)

-----------------------------------------------------------------------------
\* The first of several errors.

LessThan == {p \in Nat \X Nat : p[1] < p[2]}

LEMMA LeastOf ==
  ASSUME NEW T, T \subseteq Nat, T # {}
  PROVE  \E m \in T : \A k \in T : m <= k
<1>1. OpToRel(<, Nat) = LessThan
  BY DEF OpToRel, LessThan
<1>2. IsWellFoundedOn(LessThan, Nat)
  BY <1>1, NatLessThanWellFounded
<1>3. PICK m \in T : \A k \in T : ~(<<k, m>> \in LessThan)
  BY <1>2, WFMin
<1>4. ASSUME NEW k \in T PROVE m <= k
  <2>1. m \in Nat /\ k \in Nat /\ <<k, m>> \in Nat \X Nat
    OBVIOUS
  <2>2. <<k, m>> \notin LessThan
    BY <1>3
  <2>3. ~(k < m)
    BY <2>1, <2>2 DEF LessThan
  <2> QED
    BY <2>1, <2>3
<1> QED
  BY <1>4

LEMMA GreatestOf ==
  ASSUME NEW n \in Nat, NEW T, T \subseteq 0..n, T # {}
  PROVE  Max(T) \in T /\ \A k \in T : k <= Max(T)
<1> DEFINE U == {n - k : k \in T}
<1>1. U \subseteq Nat /\ U # {}
  <2>1. \A k \in T : n - k \in Nat
    OBVIOUS
  <2>2. PICK k \in T : TRUE
    OBVIOUS
  <2>3. n - k \in U
    BY <2>2
  <2> QED
    BY <2>1, <2>3
<1>2. PICK u \in U : \A x \in U : u <= x
  BY <1>1, LeastOf
<1>3. PICK m \in T : u = n - m
  OBVIOUS
<1>4. \A k \in T : m >= k
  <2>1. ASSUME NEW k \in T PROVE m >= k
    <3>1. u <= n - k
      BY <1>2
    <3> QED
      BY <1>3, <3>1
  <2> QED
    BY <2>1
<1>5. Max(T) \in T /\ \A k \in T : Max(T) >= k
  BY <1>4 DEF Max
<1> QED
  BY <1>5

\* First is the first of the codes that is not blank, if there is one.
LEMMA FirstIs ==
  ASSUME NEW codes, NEW n \in Nat, Len(codes) = n
  PROVE  \/ First(codes) = Blank /\ \A k \in 1..n : codes[k] = Blank
         \/ First(codes) # Blank /\ \E k \in 1..n : First(codes) = codes[k]
<1> DEFINE failing == {k \in 1..n : codes[k] # Blank}
<1>1. First(codes) = IF failing = {} THEN Blank ELSE codes[Min(failing)]
  BY DEF First
<1>2. CASE failing = {}
  <2>1. \A k \in 1..n : codes[k] = Blank
    BY <1>2
  <2> QED
    BY <1>1, <1>2, <2>1
<1>3. CASE failing # {}
  <2>1. \A k \in failing : k \in Nat
    OBVIOUS
  <2> HIDE DEF failing
  <2>2. \E m \in failing : \A k \in failing : m <= k
    BY <1>3, <2>1, LeastOf
  <2>3. Min(failing) \in failing
    BY <2>2 DEF Min
  <2> QED
    BY <1>1, <1>3, <2>3 DEF failing
<1> QED
  BY <1>2, <1>3

LEMMA FirstOf2 ==
  ASSUME NEW a, NEW b
  PROVE  /\ First(<<a, b>>) = Blank <=> a = Blank /\ b = Blank
         /\ First(<<a, b>>) \in {a, b}
<1> DEFINE codes == <<a, b>>
<1>1. Len(codes) = 2 /\ codes[1] = a /\ codes[2] = b
  OBVIOUS
<1>2. \A k \in 1..2 : k = 1 \/ k = 2
  OBVIOUS
<1> HIDE DEF codes
<1>3. \/ First(codes) = Blank /\ \A k \in 1..2 : codes[k] = Blank
      \/ First(codes) # Blank /\ \E k \in 1..2 : First(codes) = codes[k]
  BY <1>1, FirstIs
<1>4. First(codes) = Blank <=> a = Blank /\ b = Blank
  BY <1>1, <1>2, <1>3
<1>5. First(codes) \in {a, b}
  BY <1>1, <1>2, <1>3
<1> QED
  BY <1>4, <1>5 DEF codes

LEMMA FirstBlank ==
  ASSUME NEW codes, NEW n \in Nat, Len(codes) = n, First(codes) = Blank
  PROVE  \A k \in 1..n : codes[k] = Blank
BY FirstIs

-----------------------------------------------------------------------------
\* The configuration.

Field == Counts \cup ZeroCounts \cup Durations \cup {"RetentionDays"}

LEMMA Defaults ==
  /\ DOMAIN Default = Field \cup Flags
  /\ \A f \in Field : Default[f] \in Int /\ f \notin Flags
  /\ \A f \in Flags : Default[f] \in BOOLEAN
BY DEF Default, Field, Counts, ZeroCounts, Durations, Flags

LEMMA FilledIs ==
  ASSUME NEW v \in Environment
  PROVE  LET c == Filled(v)
         IN  /\ c.AllowedDomainSet = parseDomains(v.domains)
             /\ c.SiteOriginSet = parseSiteOrigins(v.sites)
             /\ c.DropPolicy = IF v.policy = Blank THEN "reject" ELSE v.policy
             /\ \A f \in Field \cup Flags :
                  c[f] = IF f \in DOMAIN v.value THEN v.value[f] ELSE Default[f]
             /\ \A f \in Field : c[f] \in Int
             /\ \A f \in Flags : c[f] \in BOOLEAN
<1> DEFINE rest == [AllowedDomainSet |-> parseDomains(v.domains),
                    SiteOriginSet |-> parseSiteOrigins(v.sites),
                    DropPolicy |-> IF v.policy = Blank THEN "reject" ELSE v.policy]
<1> DEFINE c == Filled(v)
<1>1. /\ DOMAIN v.value \subseteq Field \cup Flags
      /\ \A f \in DOMAIN v.value : v.value[f] \in IF f \in Flags THEN BOOLEAN ELSE Int
  BY AdmissionAssumption, Defaults DEF IsEnvironment
<1>2. {"AllowedDomainSet", "SiteOriginSet", "DropPolicy"} \cap (Field \cup Flags) = {}
  BY DEF Field, Counts, ZeroCounts, Durations, Flags
<1>3. /\ DOMAIN rest = {"AllowedDomainSet", "SiteOriginSet", "DropPolicy"}
      /\ rest["AllowedDomainSet"] = parseDomains(v.domains)
      /\ rest["SiteOriginSet"] = parseSiteOrigins(v.sites)
      /\ rest["DropPolicy"] = IF v.policy = Blank THEN "reject" ELSE v.policy
  OBVIOUS
<1>4. c = Over(v.value, Over(Default, rest))
  BY DEF Filled
<1> HIDE DEF rest, c
<1>5. /\ \A f \in Field \cup Flags : Over(Default, rest)[f] = Default[f]
      /\ \A f \in DOMAIN rest : Over(Default, rest)[f] = rest[f]
      /\ DOMAIN Over(Default, rest) = Field \cup Flags \cup DOMAIN rest
  BY <1>2, <1>3, Defaults DEF Over
<1>6. /\ \A f \in Field \cup Flags : c[f] = IF f \in DOMAIN v.value THEN v.value[f] ELSE Default[f]
      /\ \A f \in DOMAIN rest : c[f] = rest[f]
  BY <1>1, <1>2, <1>3, <1>4, <1>5 DEF Over
<1>7. /\ \A f \in Field : c[f] \in Int
      /\ \A f \in Flags : c[f] \in BOOLEAN
  <2>1. ASSUME NEW f \in Field PROVE c[f] \in Int
    <3>1. f \notin Flags /\ Default[f] \in Int
      BY Defaults
    <3> QED
      BY <1>1, <1>6, <3>1
  <2>2. ASSUME NEW f \in Flags PROVE c[f] \in BOOLEAN
    <3>1. Default[f] \in BOOLEAN
      BY Defaults
    <3> QED
      BY <1>1, <1>6, <3>1
  <2> QED
    BY <2>1, <2>2
<1> QED
  BY <1>3, <1>6, <1>7 DEF c

\* No code is blank.
LEMMA CodesNotBlank ==
  /\ Blank \notin {"invalid_site_origin_mapping", "site_has_no_allowed_origins",
                   "numeric_config_values_must_be_positive",
                   "duration_config_values_must_be_positive",
                   "RETRY_MIN_BACKOFF_must_not_exceed_RETRY_MAX_BACKOFF",
                   "ALLOWED_DOMAINS_is_required", "invalid_DROP_POLICY"}
  /\ Blank \notin {"origin_required", "invalid_json", "empty_batch", "too_many_events",
                   "domain_not_allowed", "origin_not_allowed_for_site", "url_host_mismatch",
                   "ok", "invalid_event"}
  /\ Blank \notin {"invalid_type", "invalid_timezone", "invalid_timezone_offset",
                   "invalid_url", "url_field_too_long", "invalid_url_scheme"}
BY Zenon DEF Blank

\* What a configuration that Load returns has been tested for.
LEMMA LoadTests ==
  ASSUME NEW v, LoadError(v) = Blank
  PROVE  LET c == Filled(v)
         IN  /\ siteOriginsError(v.sites) = Blank /\ outOfRange(c) = Blank
             /\ c.AllowedDomainSet # {} /\ c.DropPolicy \in {"reject", "drop_newest"}
<1> DEFINE c == Filled(v)
<1> DEFINE e1 == siteOriginsError(v.sites)
<1> DEFINE e2 == When(c.AllowedDomainSet = {}, "ALLOWED_DOMAINS_is_required")
<1> DEFINE e3 == When("url" \notin v.set, "ELASTICSEARCH_URL_is_required")
<1> DEFINE e4 == When("geoip" \notin v.set, "GEOIP_DB_PATH_is_required")
<1> DEFINE e5 == When("key" \notin v.set /\ ~({"username", "password"} \subseteq v.set),
                      "ELASTICSEARCH_API_KEY_or_username/password_is_required")
<1> DEFINE e6 == When(v.garbled # {}, "unparsable_value")
<1> DEFINE e7 == When(c.DropPolicy \notin {"reject", "drop_newest"}, "invalid_DROP_POLICY")
<1> DEFINE e8 == outOfRange(c)
<1> DEFINE codes == <<e1, e2, e3, e4, e5, e6, e7, e8>>
<1>1. First(codes) = Blank
  BY DEF LoadError
<1> HIDE DEF c, e1, e2, e3, e4, e5, e6, e7, e8
<1>2. Len(codes) = 8 /\ codes[1] = e1 /\ codes[2] = e2 /\ codes[7] = e7 /\ codes[8] = e8
  OBVIOUS
<1> HIDE DEF codes
<1>3. \A k \in 1..8 : codes[k] = Blank
  BY <1>1, <1>2, FirstBlank
<1>4. e1 = Blank /\ e2 = Blank /\ e7 = Blank /\ e8 = Blank
  BY <1>2, <1>3
<1>5. c.AllowedDomainSet # {} /\ c.DropPolicy \in {"reject", "drop_newest"}
  BY <1>4, CodesNotBlank DEF When, e2, e7
<1> QED
  BY <1>4, <1>5 DEF c, e1, e8

LEMMA InRange ==
  ASSUME NEW c, outOfRange(c) = Blank, \A f \in Field : c[f] \in Int
  PROVE  /\ \A f \in Counts \cup Durations : c[f] > 0
         /\ \A f \in ZeroCounts : c[f] >= 0
         /\ c.RetryMinBackoff <= c.RetryMaxBackoff
<1> DEFINE e1 == When(\/ \E f \in Counts : c[f] <= 0
                      \/ \E f \in ZeroCounts : c[f] < 0, "numeric_config_values_must_be_positive")
<1> DEFINE e2 == When(\E f \in Durations : c[f] <= 0, "duration_config_values_must_be_positive")
<1> DEFINE e3 == When(c.RetryMinBackoff > c.RetryMaxBackoff,
                      "RETRY_MIN_BACKOFF_must_not_exceed_RETRY_MAX_BACKOFF")
<1> DEFINE codes == <<e1, e2, e3>>
<1>1. First(codes) = Blank
  BY DEF outOfRange
<1> HIDE DEF e1, e2, e3
<1>2. Len(codes) = 3 /\ codes[1] = e1 /\ codes[2] = e2 /\ codes[3] = e3
  OBVIOUS
<1> HIDE DEF codes
<1>3. \A k \in 1..3 : codes[k] = Blank
  BY <1>1, <1>2, FirstBlank
<1>4. e1 = Blank /\ e2 = Blank /\ e3 = Blank
  BY <1>2, <1>3
<1>5. /\ ~(\E f \in Counts : c[f] <= 0) /\ ~(\E f \in ZeroCounts : c[f] < 0)
      /\ ~(\E f \in Durations : c[f] <= 0) /\ ~(c.RetryMinBackoff > c.RetryMaxBackoff)
  BY <1>4, CodesNotBlank DEF When, e1, e2, e3
<1>6. c.RetryMinBackoff \in Int /\ c.RetryMaxBackoff \in Int
  BY DEF Field, Durations
<1> QED
  BY <1>5, <1>6 DEF Field

\* Every mapping of a site that Load accepts names a site and a host.
LEMMA SitesTested ==
  ASSUME NEW v \in Environment, siteOriginsError(v.sites) = Blank
  PROVE  \A k \in 1..Len(v.sites) :
           v.sites[k].site # Blank /\ parseDomains(v.sites[k].origins) # {}
<1> DEFINE n == Len(v.sites)
<1> DEFINE inner(k) ==
      First(<<When(~v.sites[k].colon \/ v.sites[k].site = Blank, "invalid_site_origin_mapping"),
              When(parseDomains(v.sites[k].origins) = {}, "site_has_no_allowed_origins")>>)
<1> DEFINE codes == [k \in 1..n |-> inner(k)]
<1>1. n \in Nat
  BY AdmissionAssumption, LenProperties DEF IsEnvironment
<1>2. First(codes) = Blank
  BY DEF siteOriginsError
<1> HIDE DEF n, inner
<1>3. Len(codes) = n /\ \A k \in 1..n : codes[k] = inner(k)
  BY <1>1
<1> HIDE DEF codes
<1>4. \A k \in 1..n : inner(k) = Blank
  BY <1>1, <1>2, <1>3, FirstBlank
<1>5. ASSUME NEW k \in 1..n
      PROVE  v.sites[k].site # Blank /\ parseDomains(v.sites[k].origins) # {}
  <2> DEFINE a == When(~v.sites[k].colon \/ v.sites[k].site = Blank, "invalid_site_origin_mapping")
  <2> DEFINE b == When(parseDomains(v.sites[k].origins) = {}, "site_has_no_allowed_origins")
  <2>1. First(<<a, b>>) = Blank
    BY <1>4 DEF inner
  <2> HIDE DEF a, b
  <2>2. a = Blank /\ b = Blank
    BY <2>1, FirstOf2
  <2> QED
    BY <2>2, CodesNotBlank DEF a, b, When
<1> QED
  BY <1>5 DEF n

LEMMA SiteSets ==
  ASSUME NEW v \in Environment, siteOriginsError(v.sites) = Blank
  PROVE  LET sets == parseSiteOrigins(v.sites)
         IN  \A s \in DOMAIN sets : s # Blank /\ sets[s] # {} /\ Blank \notin sets[s]
<1> DEFINE sets == parseSiteOrigins(v.sites)
<1> DEFINE n == Len(v.sites)
<1>1. n \in Nat
  BY AdmissionAssumption, LenProperties DEF IsEnvironment
<1>2. ASSUME NEW s \in DOMAIN sets
      PROVE  s # Blank /\ sets[s] # {} /\ Blank \notin sets[s]
  <2> DEFINE of == {k \in 1..n : v.sites[k].site = s}
  <2>1. PICK k \in 1..n : s = v.sites[k].site
    BY <1>2 DEF parseSiteOrigins
  <2>2. of # {} /\ of \subseteq 0..n
    BY <1>1, <2>1
  <2>3. Max(of) \in of
    BY <1>1, <2>2, GreatestOf
  <2>4. sets[s] = parseDomains(v.sites[Max(of)].origins)
    BY <1>2 DEF parseSiteOrigins
  <2>5. parseDomains(v.sites[Max(of)].origins) # {} /\ s # Blank
    BY <2>1, <2>3, SitesTested
  <2> QED
    BY <2>4, <2>5 DEF parseDomains
<1> QED
  BY <1>2

-----------------------------------------------------------------------------
\* Hosts.

LEMMA HostOf ==
  ASSUME NEW a
  PROVE  /\ Plain(a) => normalizeDomain(a) = Host(a)
         /\ ~Plain(a) => Host(a) = Blank
<1>1. Blank # "//"
  BY Zenon DEF Blank
<1> QED
  BY <1>1 DEF Plain, normalizeDomain, Host

\* However a listed and a requested host are written, normalizeDomain compares
\* what they stand for.
LEMMA SameHosts ==
  ASSUME NEW list, NEW a, NotAsked(list, a)
  PROVE  normalizeDomain(a) \in parseDomains(list) <=> Host(a) \in Hosts(list)
<1>1. ASSUME normalizeDomain(a) \in parseDomains(list) PROVE Host(a) \in Hosts(list)
  <2>1. PICK k \in 1..Len(list) :
          normalizeDomain(list[k]) = normalizeDomain(a) /\ normalizeDomain(a) # Blank
    BY <1>1 DEF parseDomains
  <2>2. Plain(list[k]) /\ Plain(a)
    BY <2>1 DEF NotAsked
  <2>3. Host(list[k]) = Host(a) /\ Host(a) # Blank
    BY <2>1, <2>2, HostOf
  <2> QED
    BY <2>3 DEF Hosts
<1>2. ASSUME Host(a) \in Hosts(list) PROVE normalizeDomain(a) \in parseDomains(list)
  <2>1. PICK k \in 1..Len(list) : Host(list[k]) = Host(a) /\ Host(a) # Blank
    BY <1>2 DEF Hosts
  <2>2. Plain(list[k]) /\ Plain(a)
    BY <2>1, HostOf
  <2>3. normalizeDomain(list[k]) = normalizeDomain(a) /\ normalizeDomain(a) # Blank
    BY <2>1, <2>2, HostOf
  <2> QED
    BY <2>3 DEF parseDomains
<1> QED
  BY <1>1, <1>2

-----------------------------------------------------------------------------
\* What the loop makes of an event.

LEMMA EventFields ==
  DOMAIN ZeroEvent = {"unknown", "claimed", "type", "site", "stamp", "session", "anonymous", "user",
                      "title", "path", "url", "referrer", "origin", "referer", "zone", "offset",
                      "payload"}
BY DEF ZeroEvent

LEMMA EnrichKeeps ==
  ASSUME NEW e \in Event, NEW r
  PROVE  LET n == Enrich(e, r)
         IN  /\ DOMAIN n = DOMAIN ZeroEvent
             /\ n.type = e.type /\ n.site = e.site /\ n.zone = e.zone
             /\ n.session = e.session /\ n.anonymous = e.anonymous /\ n.user = e.user
             /\ n.title = e.title
             /\ n.origin = r.origin /\ n.referer = refererHeader(r)
             /\ n.claimed = e.claimed \ FilledIn
             /\ n.payload = Normalize(e).payload
             /\ IF cfg.SanitizeURLs
                  THEN /\ n.url = sanitizeURL(e.url) /\ n.referrer = sanitizeURL(e.referrer)
                       /\ n.path = sanitizePath(e.path)
                  ELSE n.url = e.url /\ n.referrer = e.referrer /\ n.path = e.path
<1>1. DOMAIN e = DOMAIN ZeroEvent
  BY AdmissionAssumption DEF IsEvent
<1> DEFINE n1 == Normalize(e)
<1> DEFINE same(n) == /\ DOMAIN n = DOMAIN ZeroEvent
                      /\ n.type = e.type /\ n.site = e.site /\ n.zone = e.zone
                      /\ n.session = e.session /\ n.anonymous = e.anonymous /\ n.user = e.user
                      /\ n.title = e.title
<1>2. /\ same(n1) /\ n1.claimed = e.claimed
      /\ n1.url = e.url /\ n1.referrer = e.referrer /\ n1.path = e.path
  BY <1>1, EventFields DEF Normalize
<1> HIDE DEF n1
<1> DEFINE n2 == [n1 EXCEPT !.origin = r.origin, !.referer = refererHeader(r),
                            !.claimed = @ \ FilledIn]
<1>3. /\ same(n2) /\ n2.origin = r.origin /\ n2.referer = refererHeader(r)
      /\ n2.claimed = e.claimed \ FilledIn
      /\ n2.url = e.url /\ n2.referrer = e.referrer /\ n2.path = e.path
      /\ n2.payload = n1.payload
  BY <1>2, EventFields
<1>4. Enrich(e, r) = IF cfg.SanitizeURLs
                       THEN [n2 EXCEPT !.url = sanitizeURL(@), !.referrer = sanitizeURL(@),
                                       !.path = sanitizePath(@)]
                       ELSE n2
  BY DEF Enrich, n1
<1> HIDE DEF n2
<1>5. CASE cfg.SanitizeURLs
  BY <1>3, <1>4, <1>5, EventFields DEF n1
<1>6. CASE ~cfg.SanitizeURLs
  BY <1>3, <1>4, <1>6 DEF n1
<1> QED
  BY <1>5, <1>6

LEMMA LimitsKeep ==
  ASSUME NEW e, DOMAIN e = DOMAIN ZeroEvent
  PROVE  LET n == ApplyFieldLimits(e)
         IN  /\ n.type = e.type /\ n.site = e.site /\ n.zone = e.zone /\ n.origin = e.origin
             /\ n.referer = e.referer /\ n.claimed = e.claimed
             /\ n.path = cutPath(e.path, cfg.MaxFieldLength)
             /\ n.url = truncateURLField(e.url, cfg.MaxFieldLength)
             /\ n.referrer = truncateURLField(e.referrer, cfg.MaxFieldLength)
             /\ n.payload = truncatePayload(e.payload, cfg.MaxFieldLength)
BY EventFields DEF ApplyFieldLimits

-----------------------------------------------------------------------------
\* The checks before the loop.

LEMMA decodeErrorIs ==
  ASSUME NEW body
  PROVE  decodeError(body) \in {Blank, "invalid_json", "empty_batch"}
<1>1. CASE decodeBatchRequest(body).is
  <2> DEFINE a == When(decodeBatchRequest(body).error, "invalid_json")
  <2> DEFINE b == When(body.events = <<>>, "empty_batch")
  <2>1. decodeError(body) = First(<<a, b>>)
    BY <1>1 DEF decodeError
  <2>2. a \in {Blank, "invalid_json"} /\ b \in {Blank, "empty_batch"}
    BY DEF When
  <2> HIDE DEF a, b
  <2>3. First(<<a, b>>) \in {a, b}
    BY FirstOf2
  <2> QED
    BY <2>1, <2>2, <2>3
<1>2. CASE ~decodeBatchRequest(body).is
  BY <1>2 DEF decodeError, When
<1> QED
  BY <1>1, <1>2

\* A body that is decoded is null, or an object of the documented kind.
LEMMA DecodedBody ==
  ASSUME NEW r \in Request, decodeError(r.body) = Blank
  PROVE  \/ r.body.shape = "null" /\ DecodeBatch(r.body) = <<ZeroEvent>>
         \/ /\ r.body.shape = "object" /\ ~r.body.trailing /\ r.body.keys \in {{}, {"events"}}
            /\ r.body.keys = {"events"} => r.body.list = "array"
            /\ r.body.keys = {} => Len(r.body.events) = 1
            /\ r.body.events # <<>> /\ DecodeBatch(r.body) = r.body.events
            /\ \A k \in 1..Len(r.body.events) : ~r.body.events[k].unknown
<1> DEFINE body == r.body
<1>1. IsRequest(r)
  BY AdmissionAssumption
<1>2. /\ body.events \in Seq(Event) /\ body.shape \in {"broken", "null", "other", "object"}
      /\ body.keys = {} => Len(body.events) = 1
      /\ body.list \in {"null", "other", "array"} /\ (body.list = "null" => body.events = <<>>)
  BY <1>1 DEF IsRequest
<1> HIDE DEF body
<1>3. CASE body.shape = "object" /\ ~body.trailing /\ "events" \in body.keys
  <2> DEFINE bad == \/ body.keys # {"events"} \/ body.list = "other"
                    \/ \E k \in 1..Len(body.events) : body.events[k].unknown
  <2>1. decodeBatchRequest(body).is /\ (decodeBatchRequest(body).error <=> bad)
    BY <1>3 DEF decodeBatchRequest
  <2> HIDE DEF bad
  <2> DEFINE a == When(decodeBatchRequest(body).error, "invalid_json")
  <2> DEFINE b == When(body.events = <<>>, "empty_batch")
  <2>2. First(<<a, b>>) = Blank
    BY <2>1 DEF decodeError, body
  <2> HIDE DEF a, b
  <2>3. a = Blank /\ b = Blank
    BY <2>2, FirstOf2
  <2>4. ~bad /\ body.events # <<>>
    BY <2>1, <2>3, CodesNotBlank DEF a, b, When
  <2>5. DecodeBatch(body) = body.events
    BY <1>3 DEF DecodeBatch
  <2> QED
    BY <1>2, <1>3, <2>4, <2>5 DEF bad, body
<1>4. CASE ~(body.shape = "object" /\ ~body.trailing /\ "events" \in body.keys)
  <2>1. ~decodeBatchRequest(body).is
    BY <1>4 DEF decodeBatchRequest
  <2>2. /\ body.shape \notin {"broken", "other"} /\ ~body.trailing /\ body.keys = {}
        /\ ~(body.shape = "object" /\ body.events[1].unknown)
    BY <2>1, CodesNotBlank DEF decodeError, When, body
  <2>3. body.shape \in {"null", "object"} /\ Len(body.events) = 1
    BY <1>2, <2>2
  <2>4. CASE body.shape = "null"
    BY <2>4 DEF DecodeBatch, body
  <2>5. CASE body.shape = "object"
    <3>1. DecodeBatch(body) = body.events /\ body.events # <<>>
      <4>1. Len(<<>>) = 0
        OBVIOUS
      <4>2. body.events # <<>>
        <5>1. ASSUME NEW x, x = <<>> PROVE Len(x) # 1
          BY <4>1, <5>1
        <5> QED
          BY <2>3, <5>1, Zenon
      <4> QED
        BY <2>5, <4>2 DEF DecodeBatch
    <3>2. \A k \in 1..Len(body.events) : ~body.events[k].unknown
      <4>1. \A k \in 1..1 : k = 1
        OBVIOUS
      <4> QED
        BY <2>2, <2>3, <2>5, <4>1
    <3> QED
      BY <2>2, <2>3, <2>5, <3>1, <3>2 DEF body
  <2> QED
    BY <2>3, <2>4, <2>5
<1> QED
  BY <1>3, <1>4

LEMMA DecodedEvents ==
  ASSUME NEW r \in Request
  PROVE  DecodeBatch(r.body) \in Seq(Event)
<1>1. r.body.events \in Seq(Event) /\ ZeroEvent \in Event
  BY AdmissionAssumption DEF IsRequest
<1>2. <<ZeroEvent>> \in Seq(Event)
  BY <1>1
<1> QED
  BY <1>1, <1>2 DEF DecodeBatch

LEMMA requestErrorIs ==
  ASSUME NEW r
  PROVE  /\ requestError(r) \notin PastChecks
         /\ requestError(r) = Blank =>
              /\ decodeError(r.body) = Blank
              /\ ~(Len(DecodeBatch(r.body)) > cfg.MaxEventsPerRequest)
              /\ AllowedDomain(normalizeDomain(effectiveHost(r)))
         /\ requestError(r) = "domain_not_allowed" =>
              ~AllowedDomain(normalizeDomain(effectiveHost(r)))
<1> DEFINE e1 == When(cfg.RequireOrigin /\ r.origin = Empty, "origin_required")
<1> DEFINE e2 == decodeError(r.body)
<1> DEFINE e3 == When(Len(DecodeBatch(r.body)) > cfg.MaxEventsPerRequest, "too_many_events")
<1> DEFINE e4 == When(~AllowedDomain(normalizeDomain(effectiveHost(r))), "domain_not_allowed")
<1> DEFINE codes == <<e1, e2, e3, e4>>
<1>1. requestError(r) = First(codes)
  BY DEF requestError
<1>2. /\ e1 \in {Blank, "origin_required"} /\ e3 \in {Blank, "too_many_events"}
      /\ e4 \in {Blank, "domain_not_allowed"}
      /\ e4 = "domain_not_allowed" => ~AllowedDomain(normalizeDomain(effectiveHost(r)))
      /\ e4 = Blank => AllowedDomain(normalizeDomain(effectiveHost(r)))
      /\ e3 = Blank => ~(Len(DecodeBatch(r.body)) > cfg.MaxEventsPerRequest)
  BY CodesNotBlank DEF When
<1>3. e2 \in {Blank, "invalid_json", "empty_batch"}
  BY decodeErrorIs
<1> HIDE DEF e1, e2, e3, e4
<1>4. Len(codes) = 4 /\ codes[1] = e1 /\ codes[2] = e2 /\ codes[3] = e3 /\ codes[4] = e4
  OBVIOUS
<1>5. \A k \in 1..4 : k \in {1, 2, 3, 4}
  OBVIOUS
<1> HIDE DEF codes
<1>6. \/ First(codes) = Blank /\ \A k \in 1..4 : codes[k] = Blank
      \/ First(codes) # Blank /\ \E k \in 1..4 : First(codes) = codes[k]
  BY <1>4, FirstIs
<1>7. /\ First(codes) \in {Blank, e1, e2, e3, e4}
      /\ First(codes) = Blank => e2 = Blank /\ e3 = Blank /\ e4 = Blank
  BY <1>4, <1>5, <1>6
<1>8. requestError(r) \notin PastChecks
  <2>1. First(codes) \in {Blank, "origin_required", "invalid_json", "empty_batch",
                          "too_many_events", "domain_not_allowed"}
    BY <1>2, <1>3, <1>7
  <2> QED
    BY <1>1, <2>1, CodesNotBlank DEF PastChecks
<1>9. First(codes) = "domain_not_allowed" => e4 = "domain_not_allowed"
  BY <1>2, <1>3, <1>7, CodesNotBlank
<1> QED
  BY <1>1, <1>2, <1>7, <1>8, <1>9 DEF e2

-----------------------------------------------------------------------------
\* Validate.

LEMMA validateURLFieldIs ==
  ASSUME NEW a, NEW m
  PROVE  /\ validateURLField(a, m) \in
              {Blank, "url_field_too_long", "invalid_url", "invalid_url_scheme"}
         /\ validateURLField(a, m) = Blank => a = Empty \/ a.ok
BY CodesNotBlank DEF validateURLField

LEMMA fieldErrorIs ==
  ASSUME NEW e
  PROVE  /\ fieldError(e) # "invalid_timezone"
         /\ fieldError(e) = Blank =>
              /\ Identifier(e.type)
              /\ validateURLField(e.url, cfg.MaxFieldLength) = Blank
              /\ validateURLField(e.referrer, cfg.MaxFieldLength) = Blank
<1> DEFINE e1 == When(~Identifier(e.type), "invalid_type")
<1> DEFINE e2 == When(~Identifier(e.site), "invalid_site_id")
<1> DEFINE e3 == When(tooLong(e.session) \/ tooLong(e.anonymous), "invalid_identifiers")
<1> DEFINE e4 == When(tooLong(e.user), "invalid_user_id")
<1> DEFINE e5 == When(tooLong(e.path.len + e.path.tail) \/ tooLong(e.title), "invalid_path_or_title")
<1> DEFINE e6 == validateURLField(e.url, cfg.MaxFieldLength)
<1> DEFINE e7 == validateURLField(e.referrer, cfg.MaxFieldLength)
<1> DEFINE codes == <<e1, e2, e3, e4, e5, e6, e7>>
<1>1. fieldError(e) = First(codes)
  BY DEF fieldError
<1>2. /\ e1 \in {Blank, "invalid_type"} /\ e2 \in {Blank, "invalid_site_id"}
      /\ e3 \in {Blank, "invalid_identifiers"} /\ e4 \in {Blank, "invalid_user_id"}
      /\ e5 \in {Blank, "invalid_path_or_title"} /\ (e1 = Blank => Identifier(e.type))
  BY CodesNotBlank DEF When
<1>3. /\ e6 \in {Blank, "url_field_too_long", "invalid_url", "invalid_url_scheme"}
      /\ e7 \in {Blank, "url_field_too_long", "invalid_url", "invalid_url_scheme"}
  BY validateURLFieldIs
<1> HIDE DEF e1, e2, e3, e4, e5, e6, e7
<1>4. /\ Len(codes) = 7 /\ codes[1] = e1 /\ codes[2] = e2 /\ codes[3] = e3 /\ codes[4] = e4
      /\ codes[5] = e5 /\ codes[6] = e6 /\ codes[7] = e7
  OBVIOUS
<1>5. \A k \in 1..7 : k \in {1, 2, 3, 4, 5, 6, 7}
  OBVIOUS
<1> HIDE DEF codes
<1>6. \/ First(codes) = Blank /\ \A k \in 1..7 : codes[k] = Blank
      \/ First(codes) # Blank /\ \E k \in 1..7 : First(codes) = codes[k]
  BY <1>4, FirstIs
<1>7. /\ First(codes) \in {Blank, e1, e2, e3, e4, e5, e6, e7}
      /\ First(codes) = Blank => e1 = Blank /\ e6 = Blank /\ e7 = Blank
  BY <1>4, <1>5, <1>6
<1>8. First(codes) # "invalid_timezone"
  BY <1>2, <1>3, <1>7, CodesNotBlank
<1> QED
  BY <1>1, <1>2, <1>7, <1>8 DEF e6, e7

LEMMA validateTimezoneIs ==
  ASSUME NEW e, validTimezoneCache \subseteq Zone
  PROVE  /\ validateTimezone(e) = Blank => e.zone \in Zone \cup {Blank}
         /\ validateTimezone(e) = "invalid_timezone" => e.zone \notin Zone
<1> DEFINE a == When(e.zone \notin validTimezoneCache \cup Zone \cup {Blank}, "invalid_timezone")
<1> DEFINE b == When(e.offset \notin -840..840, "invalid_timezone_offset")
<1>1. validateTimezone(e) = First(<<a, b>>)
  BY DEF validateTimezone
<1>2. /\ a = Blank => e.zone \in Zone \cup {Blank}
      /\ a = "invalid_timezone" => e.zone \notin Zone
      /\ b # "invalid_timezone"
  BY CodesNotBlank DEF When
<1> HIDE DEF a, b
<1>3. /\ First(<<a, b>>) = Blank => a = Blank
      /\ First(<<a, b>>) \in {a, b}
  BY FirstOf2
<1> QED
  BY <1>1, <1>2, <1>3

\* An event that Validate lets through, and one whose time zone it refuses.
LEMMA ValidateIs ==
  ASSUME NEW e, validTimezoneCache \subseteq Zone,
         "invalid_timezone" \notin validatePayload(e.payload, cfg.MaxPayloadEntries,
                                                   cfg.MaxPayloadDepth, cfg.MaxFieldLength)
  PROVE  /\ Validate(e) = {} => fieldError(e) = Blank /\ e.zone \in Zone \cup {Blank}
         /\ "invalid_timezone" \in Validate(e) => e.zone \notin Zone
<1> DEFINE a == fieldError(e)
<1> DEFINE b == validateTimezone(e)
<1> DEFINE early == First(<<a, b>>)
<1>1. /\ a # "invalid_timezone" /\ (b = Blank => e.zone \in Zone \cup {Blank})
      /\ b = "invalid_timezone" => e.zone \notin Zone
  BY fieldErrorIs, validateTimezoneIs
<1>2. Validate(e) = IF early # Blank THEN {early}
                    ELSE validatePayload(e.payload, cfg.MaxPayloadEntries, cfg.MaxPayloadDepth,
                                         cfg.MaxFieldLength)
  BY DEF Validate
<1> HIDE DEF a, b
<1>3. (early = Blank <=> a = Blank /\ b = Blank) /\ early \in {a, b}
  BY FirstOf2
<1> HIDE DEF early
<1>4. ASSUME Validate(e) = {} PROVE fieldError(e) = Blank /\ e.zone \in Zone \cup {Blank}
  <2>1. early = Blank
    BY <1>2, <1>4
  <2> QED
    BY <1>1, <1>3, <2>1 DEF a
<1>5. ASSUME "invalid_timezone" \in Validate(e) PROVE e.zone \notin Zone
  <2>1. early = "invalid_timezone"
    BY <1>2, <1>5
  <2> QED
    BY <1>1, <1>3, <2>1
<1> QED
  BY <1>4, <1>5

-----------------------------------------------------------------------------
\* URLs.

LEMMA AddressFields ==
  /\ DOMAIN Empty = {"ok", "scheme", "user", "name", "port", "path", "query", "frag"}
  /\ Empty.ok /\ ~Empty.user /\ ~Empty.query /\ ~Empty.frag /\ Empty.name = Blank
  /\ \A a \in Addresses : DOMAIN a = DOMAIN Empty
BY DEF Empty, Addresses

LEMMA StrippedIs ==
  ASSUME NEW a, DOMAIN a = DOMAIN Empty
  PROVE  LET s == Stripped(a)
         IN  /\ DOMAIN s = DOMAIN Empty /\ s.name = a.name /\ s.ok = a.ok
             /\ s.scheme = a.scheme /\ s.port = a.port
             /\ ~s.user /\ ~s.query /\ ~s.frag
BY AddressFields DEF Stripped

\* What truncateURLField puts together: what is kept before the path, and as much of
\* the path as there is room for.
InPath(a) == a.scheme = Blank /\ ~Opaque(a)
Before(a, m) == IF InPath(a) THEN [Prefix(a) EXCEPT !.name = FirstLetters(@, m)] ELSE Prefix(a)
PathOf(a) == IF Opaque(a) THEN <<>> ELSE Escaped(a)
Behind(a, m) == FirstBytes(PathOf(a), m - Length(Before(a, m)))

LEMMA CutAfterHostIs ==
  ASSUME NEW a, NEW m
  PROVE  LET q == Before(a, m)
             cut == Behind(a, m)
         IN  CutAfterHost(a, m) = IF InPath(a) \/ m - Length(q) > 0
                                    THEN [q EXCEPT !.path = cut.path, !.ok = cut.ok] ELSE Empty
BY DEF CutAfterHost, Behind, PathOf, Before, InPath

\* Part by part.
LEMMA CutParts ==
  ASSUME NEW a, NEW m, CutAfterHost(a, m) # Empty
  PROVE  LET c == CutAfterHost(a, m)
         IN  /\ InPath(a) \/ m - Length(Before(a, m)) > 0
             /\ c.ok = Behind(a, m).ok /\ ~c.user /\ ~c.query /\ ~c.frag
             /\ Opaque(a) => c.scheme = a.name /\ c.name = Blank /\ ~c.port
             /\ ~Opaque(a) => /\ c.scheme = (IF a.scheme = "//" THEN Blank ELSE a.scheme)
                              /\ c.name = IF a.scheme = Blank THEN FirstLetters(a.name, m)
                                                              ELSE a.name
                              /\ c.port = a.port
<1> DEFINE p == Prefix(a)
<1> DEFINE q == Before(a, m)
<1> DEFINE room == m - Length(q)
<1>1. /\ DOMAIN p = DOMAIN Empty /\ ~p.user /\ ~p.query /\ ~p.frag
      /\ Opaque(a) => p.scheme = a.name /\ p.name = Blank /\ ~p.port
      /\ ~Opaque(a) => /\ p.scheme = (IF a.scheme = "//" THEN Blank ELSE a.scheme)
                       /\ p.name = a.name /\ p.port = a.port
  <2>1. ~Empty.port
    BY DEF Empty
  <2> QED
    BY <2>1, AddressFields DEF Prefix
<1> HIDE DEF p
<1>2. q = IF InPath(a) THEN [p EXCEPT !.name = FirstLetters(@, m)] ELSE p
  BY DEF Before, p
<1> HIDE DEF q
<1>3. /\ DOMAIN q = DOMAIN Empty /\ ~q.user /\ ~q.query /\ ~q.frag
      /\ q.scheme = p.scheme /\ q.port = p.port
      /\ q.name = IF InPath(a) THEN FirstLetters(p.name, m) ELSE p.name
  BY <1>1, <1>2, AddressFields
<1> DEFINE cut == Behind(a, m)
<1>4. CutAfterHost(a, m) = IF InPath(a) \/ room > 0
                             THEN [q EXCEPT !.path = cut.path, !.ok = cut.ok] ELSE Empty
  BY CutAfterHostIs DEF q
<1> HIDE DEF cut, room
<1> DEFINE c == [q EXCEPT !.path = cut.path, !.ok = cut.ok]
<1>5. /\ c.ok = cut.ok /\ ~c.user /\ ~c.query /\ ~c.frag
      /\ c.scheme = q.scheme /\ c.port = q.port /\ c.name = q.name
  BY <1>3, AddressFields
<1>6. (InPath(a) \/ room > 0) /\ CutAfterHost(a, m) = c
  BY <1>4
<1> HIDE DEF c
<1>7. /\ Opaque(a) => c.scheme = a.name /\ c.name = Blank /\ ~c.port
      /\ ~Opaque(a) => /\ c.scheme = (IF a.scheme = "//" THEN Blank ELSE a.scheme)
                       /\ c.name = IF a.scheme = Blank THEN FirstLetters(a.name, m) ELSE a.name
                       /\ c.port = a.port
  BY <1>1, <1>3, <1>5 DEF InPath
<1> QED
  BY <1>5, <1>6, <1>7 DEF q, cut, room

\* What sanitizeURL leaves of a URL, shortened and accepted, has no query, no
\* fragment and no userinfo.
LEMMA Sanitized ==
  ASSUME NEW a \in Addresses, NEW m,
         validateURLField(truncateURLField(sanitizeURL(a), m), m) = Blank
  PROVE  LET t == truncateURLField(sanitizeURL(a), m)
         IN  ~t.user /\ ~t.query /\ ~t.frag
<1> DEFINE s == sanitizeURL(a)
<1> DEFINE t == truncateURLField(s, m)
<1>1. /\ DOMAIN s = DOMAIN Empty
      /\ (~s.user /\ ~s.query /\ ~s.frag) \/ ~s.ok
  BY AddressFields, StrippedIs DEF sanitizeURL
<1>2. t = Empty \/ t.ok
  BY validateURLFieldIs
<1>3. t = s \/ t = Empty \/ t = Stripped(s) \/ t = CutAfterHost(s, m)
  BY DEF truncateURLField
<1> HIDE DEF s, t
<1>4. t = s => ~t.user /\ ~t.query /\ ~t.frag
  BY <1>1, <1>2, AddressFields
<1>5. t = Empty => ~t.user /\ ~t.query /\ ~t.frag
  BY AddressFields
<1>6. t = Stripped(s) => ~t.user /\ ~t.query /\ ~t.frag
  BY <1>1, StrippedIs
<1>7. t = CutAfterHost(s, m) => ~t.user /\ ~t.query /\ ~t.frag
  BY CutParts, AddressFields
<1>8. ~t.user /\ ~t.query /\ ~t.frag
  BY <1>3, <1>4, <1>5, <1>6, <1>7
<1> QED
  BY <1>8 DEF s, t

LEMMA EmptyPath == PathLength(<<>>) = 0
<1>1. Len(<<>>) = 0 /\ {k \in 1..Len(<<>>) : <<>>[k] = "e"} = {}
  OBVIOUS
<1>2. Cardinality({}) = 0
  BY FS_EmptySet
<1> QED
  BY <1>1, <1>2 DEF PathLength

LEMMA LengthOfEmpty == Length(Empty) = 0
<1>1. Empty.path = <<>> /\ Empty.scheme = Blank /\ ~Empty.port
  BY DEF Empty
<1>2. PathLength(<<>>) = 0
  BY EmptyPath
<1>3. SchemeLength(Empty) = 0 /\ NameLength(Empty.name) = 0
  <2>1. Blank # "//" /\ Blank # "http" /\ Blank # "https" /\ Blank # "ab"
    BY Zenon DEF Blank
  <2> QED
    BY <1>1, <2>1, AddressFields DEF SchemeLength, NameLength
<1> QED
  BY <1>1, <1>2, <1>3, AddressFields DEF Length

\* What is stored of a URL that matched the origin still names its host, unless the
\* URL begins with a host that is longer than the limit.
LEMMA StillNames ==
  ASSUME NEW a, DOMAIN a = DOMAIN Empty, NEW o, NEW m \in Nat, urlMatchesOrigin(a, o),
         truncateURLField(a, m) # Empty, o # Empty
  PROVE  \/ Lower(truncateURLField(a, m).name) = Lower(o.name)
         \/ a.scheme = Blank /\ NameLength(a.name) > m
<1> DEFINE t == truncateURLField(a, m)
<1>1. a # Empty
  BY LengthOfEmpty DEF truncateURLField
<1>2. normalizedURLHost(a) # Blank /\ normalizedURLHost(a) = normalizedURLHost(o)
  BY <1>1 DEF urlMatchesOrigin
<1>3. ~Opaque(a) /\ Lower(a.name) = Lower(o.name)
  BY <1>2 DEF normalizedURLHost
<1>4. t = a \/ t = Stripped(a) \/ t = CutAfterHost(a, m)
  BY DEF truncateURLField
<1>5. t # Empty
  OBVIOUS
<1> HIDE DEF t
<1>6. \/ t.name = a.name
      \/ a.scheme = Blank /\ t.name = FirstLetters(a.name, m)
  BY <1>3, <1>4, <1>5, StrippedIs, CutParts
<1>7. NameLength(a.name) \in Nat
  BY DEF NameLength
<1>8. FirstLetters(a.name, m) = a.name \/ NameLength(a.name) > m
  BY <1>7 DEF FirstLetters
<1> QED
  BY <1>3, <1>6, <1>8 DEF t

LEMMA PathSanitized ==
  ASSUME NEW p \in [len : Nat, tail : Nat], NEW m \in Nat
  PROVE  cutPath(sanitizePath(p), m).tail = 0
<1>1. sanitizePath(p).tail = 0 /\ sanitizePath(p).len = p.len /\ p.len \in Nat
  BY DEF sanitizePath
<1>2. 0 <= m - truncateString(p.len, m)
  BY <1>1 DEF truncateString
<1> QED
  BY <1>1, <1>2 DEF cutPath, truncateString

-----------------------------------------------------------------------------
\* Payloads.  What the recursive functions of Payload are follows from their
\* equations once a function with that equation is known to exist (Recursion); what
\* they compute, by going through the places of a payload upwards or downwards.

\* Induction upwards and downwards on 0..n.  The hypothesis is the set of the numbers
\* for which the claim holds.
LEMMA Upwards ==
  ASSUME NEW n \in Nat, NEW S, 0 \in S, \A m \in 1..n : m - 1 \in S => m \in S
  PROVE  \A m \in 0..n : m \in S
<1> DEFINE T == {m \in 0..n : m \notin S}
<1>1. T \subseteq Nat
  OBVIOUS
<1>2. ASSUME T # {} PROVE FALSE
  <2>1. PICK m \in T : \A k \in T : m <= k
    <3> HIDE DEF T
    <3> QED
      BY <1>1, <1>2, LeastOf
  <2>2. m \in 1..n /\ m - 1 \in 0..n /\ ~(m <= m - 1) /\ m \notin S
    BY <2>1
  <2>3. m - 1 \in S
    BY <2>1, <2>2
  <2> QED
    BY <2>2, <2>3
<1> QED
  BY <1>2

\* Every place follows when those before it do.
LEMMA ByPlaces ==
  ASSUME NEW n \in Nat, NEW S,
         \A k \in 1..n : (\A j \in 1..n : j < k => j \in S) => k \in S
  PROVE  \A k \in 1..n : k \in S
<1> DEFINE T == {k \in 1..n : k \notin S}
<1>1. T \subseteq Nat
  OBVIOUS
<1>2. ASSUME T # {} PROVE FALSE
  <2>1. PICK m \in T : \A k \in T : m <= k
    <3> HIDE DEF T
    <3> QED
      BY <1>1, <1>2, LeastOf
  <2>2. m \in 1..n /\ m \notin S
    BY <2>1
  <2>3. \A j \in 1..n : j < m => j \in S
    BY <2>1, <2>2
  <2> QED
    BY <2>2, <2>3
<1> QED
  BY <1>2

\* Every place follows when those behind it do.
LEMMA ByPlacesBehind ==
  ASSUME NEW n \in Nat, NEW S,
         \A k \in 1..n : (\A j \in 1..n : j > k => j \in S) => k \in S
  PROVE  \A k \in 1..n : k \in S
<1> DEFINE R == {k \in 1..n : (n + 1) - k \in S}
<1>1. ASSUME NEW k \in 1..n, \A j \in 1..n : j < k => j \in R PROVE k \in R
  <2>1. (n + 1) - k \in 1..n
    OBVIOUS
  <2>2. ASSUME NEW j \in 1..n, j > (n + 1) - k PROVE j \in S
    <3>1. (n + 1) - j \in 1..n /\ (n + 1) - j < k /\ (n + 1) - ((n + 1) - j) = j
      BY <2>2
    <3> QED
      BY <1>1, <3>1
  <2> QED
    BY <2>1, <2>2
<1>2. \A k \in 1..n : k \in R
  <2> HIDE DEF R
  <2> QED
    BY <1>1, ByPlaces
<1>3. ASSUME NEW k \in 1..n PROVE k \in S
  <2>1. (n + 1) - k \in 1..n /\ (n + 1) - ((n + 1) - k) = k
    OBVIOUS
  <2> QED
    BY <1>2, <2>1
<1> QED
  BY <1>3

\* A function whose value at each x of D is what step makes of the function, where
\* step looks only at what has a lower rank.
Local(D, V, rank, step) ==
  \A x \in D : \A f, g \in [D -> V] :
    (\A y \in D : rank[y] < rank[x] => f[y] = g[y]) => step[x][f] = step[x][g]
Solves(f, D, step) == \A x \in D : f[x] = step[x][f]

\* Such functions exist.
LEMMA Recursion ==
  ASSUME NEW D, NEW V, NEW v \in V, NEW n \in Nat, NEW rank \in [D -> 0..n],
         NEW step \in [D -> [[D -> V] -> V]], Local(D, V, rank, step)
  PROVE  \E f \in [D -> V] : Solves(f, D, step)
<1> DEFINE Upto(m) == \E f \in [D -> V] : \A x \in D : rank[x] < m => f[x] = step[x][f]
<1> DEFINE S == {m \in 0..(n + 1) : Upto(m)}
<1>1. 0 \in S
  <2>1. [x \in D |-> v] \in [D -> V] /\ \A x \in D : ~(rank[x] < 0)
    OBVIOUS
  <2>2. Upto(0)
    BY <2>1
  <2> QED
    BY <2>2
<1>2. ASSUME NEW m \in 1..(n + 1), m - 1 \in S PROVE m \in S
  <2>1. PICK g \in [D -> V] : \A x \in D : rank[x] < m - 1 => g[x] = step[x][g]
    BY <1>2
  <2> DEFINE f == [x \in D |-> IF rank[x] < m - 1 THEN g[x] ELSE step[x][g]]
  <2>2. \A x \in D : step[x][g] \in V /\ rank[x] \in 0..n
    OBVIOUS
  <2>3. f \in [D -> V]
    BY <2>2
  <2>4. ASSUME NEW x \in D, rank[x] < m PROVE f[x] = step[x][f]
    <3>1. f[x] = step[x][g]
      BY <2>1
    <3>2. \A y \in D : rank[y] < rank[x] => rank[y] < m - 1
      BY <2>2, <2>4
    <3>3. \A y \in D : rank[y] < rank[x] => g[y] = f[y]
      BY <3>2
    <3> HIDE DEF f
    <3>4. step[x][g] = step[x][f]
      BY <2>3, <3>3 DEF Local
    <3> QED
      BY <3>1, <3>4
  <2> HIDE DEF f
  <2>5. Upto(m)
    BY <2>3, <2>4
  <2> QED
    BY <2>5
<1>3. \A m \in 0..(n + 1) : m \in S
  <2> HIDE DEF S
  <2>1. n + 1 \in Nat
    OBVIOUS
  <2> QED
    BY <1>1, <1>2, <2>1, Upwards
<1>4. Upto(n + 1)
  BY <1>3
<1>5. PICK f \in [D -> V] : \A x \in D : rank[x] < n + 1 => f[x] = step[x][f]
  BY <1>4
<1>6. \A x \in D : rank[x] < n + 1
  <2> TAKE x \in D
  <2>1. rank[x] \in 0..n
    OBVIOUS
  <2> QED
    BY <2>1
<1> QED
  BY <1>5, <1>6 DEF Solves

-----------------------------------------------------------------------------
\* Payloads.

\* Where the members of a value are.
LEMMA Places ==
  ASSUME NEW p, IsPayload(p)
  PROVE  /\ Len(p) \in Nat /\ DOMAIN p = 1..Len(p)
         /\ \A k \in 1..Len(p) :
              /\ p[k] \in Values
              /\ k = 1 => p[k].in = 0 /\ p[k].kind = "map"
              /\ k # 1 => p[k].in \in 1..Len(p) /\ p[k].in < k /\ p[p[k].in].kind \in Collection
<1>1. Len(p) \in Nat /\ DOMAIN p = 1..Len(p) /\ \A k \in 1..Len(p) : p[k] \in Values
  BY LenProperties, ElementOfSeq DEF IsPayload
<1>2. 1 \in 1..Len(p) => p # NoPayload
  <2>1. Len(<<>>) = 0
    OBVIOUS
  <2> QED
    BY <2>1 DEF NoPayload
<1>3. ASSUME NEW k \in 1..Len(p)
      PROVE  /\ k = 1 => p[k].in = 0 /\ p[k].kind = "map"
             /\ k # 1 => p[k].in \in 1..Len(p) /\ p[k].in < k /\ p[p[k].in].kind \in Collection
  <2>1. k # 1 => k \in 2..Len(p)
    BY <1>1
  <2>2. k \in 2..Len(p) => p[k].in \in 1..(k - 1) /\ p[p[k].in].kind \in Collection
    BY DEF IsPayload
  <2>3. k = 1 => p[k].in = 0 /\ p[k].kind = "map"
    BY <1>2 DEF IsPayload
  <2>4. \A j \in 1..(k - 1) : j \in 1..Len(p) /\ j < k
    BY <1>1
  <2> QED
    BY <2>1, <2>2, <2>3, <2>4
<1> QED
  BY <1>1, <1>3

\* The walk of truncatePayload comes to every value.
LEMMA WalkedAll ==
  ASSUME NEW p, IsPayload(p)
  PROVE  \A k \in 1..Len(p) : Walk(p)[k]
<1> DEFINE E(g) == [k \in 1..Len(p) |-> k = 1 \/ (p[p[k].in].kind \in Collection /\ g[p[k].in])]
<1> DEFINE all == [k \in 1..Len(p) |-> TRUE]
<1>1. all = E(all)
  <2>1. \A k \in 1..Len(p) : (k = 1 \/ (p[p[k].in].kind \in Collection /\ all[p[k].in])) = TRUE
    BY Places
  <2> QED
    BY <2>1
<1>2. Walk(p) = CHOOSE g : g = E(g)
  BY DEF Walk, Visited
<1> HIDE DEF E, all
<1>3. Walk(p) = E(Walk(p))
  BY <1>1, <1>2
<1> DEFINE S == {k \in 1..Len(p) : Walk(p)[k] = TRUE}
<1>4. ASSUME NEW k \in 1..Len(p), \A j \in 1..Len(p) : j < k => j \in S PROVE k \in S
  <2>1. Walk(p)[k] = (k = 1 \/ (p[p[k].in].kind \in Collection /\ Walk(p)[p[k].in]))
    BY <1>3, Zenon DEF E
  <2>2. k = 1 \/ (p[p[k].in].kind \in Collection /\ p[k].in \in S)
    BY <1>4, Places
  <2>3. Walk(p)[k] = TRUE
    BY <2>1, <2>2, Zenon
  <2> QED
    BY <2>3
<1>5. \A k \in 1..Len(p) : k \in S
  <2> HIDE DEF S
  <2> QED
    BY <1>4, Places, ByPlaces
<1> QED
  BY <1>5

LEMMA DepthIs ==
  ASSUME NEW p, IsPayload(p)
  PROVE  /\ Depth(p) \in [1..Len(p) -> Nat]
         /\ \A k \in 1..Len(p) : Depth(p)[k] = IF k = 1 THEN 1 ELSE Depth(p)[p[k].in] + 1
<1> DEFINE n == Len(p)
<1> DEFINE D == 1..n
<1> DEFINE N == Nat
<1> DEFINE e(g, k) == IF k = 1 THEN 1 ELSE g[p[k].in] + 1
<1> DEFINE rank == [k \in D |-> k]
<1> DEFINE step == [k \in D |-> [g \in [D -> N] |-> e(g, k)]]
<1>1. n \in Nat /\ \A k \in D : k # 1 => p[k].in \in D /\ p[k].in < k
  BY Places
<1>2. \A g \in [D -> N] : \A k \in D : e(g, k) \in N
  BY <1>1
<1>3. rank \in [D -> 0..n] /\ step \in [D -> [[D -> N] -> N]] /\ 0 \in N
  BY <1>1, <1>2
<1>4. Local(D, N, rank, step)
  <2> SUFFICES ASSUME NEW k \in D, NEW f \in [D -> N], NEW g \in [D -> N],
                      \A y \in D : rank[y] < rank[k] => f[y] = g[y]
               PROVE  step[k][f] = step[k][g]
    BY DEF Local
  <2>1. k # 1 => f[p[k].in] = g[p[k].in]
    BY <1>1
  <2> QED
    BY <2>1
<1>5. \A g \in [D -> N] : \A k \in D : step[k][g] = e(g, k)
  OBVIOUS
<1>6. PICK f \in [D -> N] : Solves(f, D, step)
  <2> HIDE DEF D, N, rank, step
  <2> QED
    BY <1>1, <1>3, <1>4, Recursion
<1> DEFINE E(g) == [k \in D |-> e(g, k)]
<1>7. f = E(f)
  BY <1>5, <1>6 DEF Solves
<1>8. Depth(p) = CHOOSE g : g = E(g)
  BY DEF Depth
<1> HIDE DEF E
<1>9. Depth(p) = E(Depth(p))
  BY <1>7, <1>8
<1> DEFINE d == Depth(p)
<1>10. /\ d = [k \in D |-> d[k]]
       /\ \A k \in D : d[k] = IF k = 1 THEN 1 ELSE d[p[k].in] + 1
  BY <1>9 DEF E
<1> HIDE DEF d
<1> DEFINE S == {k \in D : d[k] \in Nat}
<1>11. ASSUME NEW k \in D, \A j \in D : j < k => j \in S PROVE k \in S
  <2>1. k # 1 => d[p[k].in] \in Nat
    BY <1>1, <1>11
  <2>2. d[k] = IF k = 1 THEN 1 ELSE d[p[k].in] + 1
    BY <1>10
  <2>3. d[k] \in Nat
    BY <2>1, <2>2
  <2> QED
    BY <2>3
<1>12. \A k \in D : k \in S
  <2> HIDE DEF S
  <2> QED
    BY <1>1, <1>11, ByPlaces
<1>13. d \in [D -> Nat]
  BY <1>10, <1>12
<1> QED
  BY <1>10, <1>13 DEF d

\* The errors of a call.
PayloadCodes == {"payload_exceeds_max_depth", "invalid_payload_key", "payload_string_too_long"}

\* What the call for value k returns, given what the calls for the others return.
MetIn(p, max, errors, k, j) ==
  IF p[k].kind = "map" /\ p[j].key \notin 1..max THEN {"invalid_payload_key"} ELSE errors[j]
BadIn(p, max, errors, k) == {j \in Members(p, k) : MetIn(p, max, errors, k, j) # {}}
ReturnedFor(p, deepest, max, errors, k) ==
  CASE Depth(p)[k] > deepest -> {"payload_exceeds_max_depth"}
    [] Depth(p)[k] <= deepest /\ p[k].kind = "scalar" -> {}
    [] Depth(p)[k] <= deepest /\ p[k].kind = "string" ->
         IF p[k].len > max THEN {"payload_string_too_long"} ELSE {}
    [] Depth(p)[k] <= deepest /\ p[k].kind = "map" ->
         UNION {MetIn(p, max, errors, k, j) : j \in BadIn(p, max, errors, k)}
    [] Depth(p)[k] <= deepest /\ p[k].kind = "list" ->
         IF BadIn(p, max, errors, k) = {} THEN {}
         ELSE MetIn(p, max, errors, k, Min(BadIn(p, max, errors, k)))

\* The first bad member is one.
LEMMA FirstBad ==
  ASSUME NEW T, T \subseteq Nat, T # {}
  PROVE  Min(T) \in T
<1>1. PICK m \in T : \A k \in T : m <= k
  BY LeastOf
<1> QED
  BY <1>1 DEF Min

LEMMA MembersBehind ==
  ASSUME NEW p, IsPayload(p), NEW k \in 1..Len(p), NEW j \in Members(p, k)
  PROVE  j \in 1..Len(p) /\ j > k /\ j # 1 /\ p[j].in = k
<1>1. j \in 1..Len(p) /\ p[j].in = k
  BY DEF Members
<1>2. j # 1
  BY <1>1, Places
<1> QED
  BY <1>1, <1>2, Places

\* The cases of the call, one by one.
LEMMA ReturnedCases ==
  ASSUME NEW p, IsPayload(p), NEW deepest \in Int, NEW max, NEW errors, NEW k \in 1..Len(p)
  PROVE  LET r == ReturnedFor(p, deepest, max, errors, k)
             bad == BadIn(p, max, errors, k)
         IN  /\ Depth(p)[k] \in Nat
             /\ Depth(p)[k] > deepest => r = {"payload_exceeds_max_depth"}
             /\ Depth(p)[k] <= deepest =>
                  /\ p[k].kind = "scalar" => r = {}
                  /\ p[k].kind = "string" =>
                       r = IF p[k].len > max THEN {"payload_string_too_long"} ELSE {}
                  /\ p[k].kind = "map" => r = UNION {MetIn(p, max, errors, k, j) : j \in bad}
                  /\ p[k].kind = "list" =>
                       /\ bad = {} => r = {}
                       /\ bad # {} => Min(bad) \in bad /\ r = MetIn(p, max, errors, k, Min(bad))
             /\ p[k].kind \in {"scalar", "string", "map", "list"}
<1> DEFINE bad == BadIn(p, max, errors, k)
<1> DEFINE r == ReturnedFor(p, deepest, max, errors, k)
<1>1. Depth(p)[k] \in Nat
  BY DepthIs
<1>2. p[k].kind \in {"scalar", "string", "map", "list"}
  BY Places DEF Values, Collection
<1>3. bad \subseteq Nat
  BY MembersBehind, Places DEF BadIn
<1>4. bad # {} => Min(bad) \in bad
  <2> HIDE DEF bad
  <2> QED
    BY <1>3, FirstBad
<1>5. ~(Depth(p)[k] > deepest /\ Depth(p)[k] <= deepest)
  BY <1>1
<1>6. Depth(p)[k] > deepest => r = {"payload_exceeds_max_depth"}
  BY <1>5 DEF ReturnedFor
<1>7. ASSUME Depth(p)[k] <= deepest, p[k].kind = "scalar" PROVE r = {}
  BY <1>5, <1>7 DEF ReturnedFor
<1>8. ASSUME Depth(p)[k] <= deepest, p[k].kind = "string"
      PROVE  r = IF p[k].len > max THEN {"payload_string_too_long"} ELSE {}
  BY <1>5, <1>8 DEF ReturnedFor
<1>9. ASSUME Depth(p)[k] <= deepest, p[k].kind = "map"
      PROVE  r = UNION {MetIn(p, max, errors, k, j) : j \in bad}
  BY <1>5, <1>9 DEF ReturnedFor
<1>10. ASSUME Depth(p)[k] <= deepest, p[k].kind = "list"
       PROVE  r = IF bad = {} THEN {} ELSE MetIn(p, max, errors, k, Min(bad))
  BY <1>5, <1>10 DEF ReturnedFor
<1> QED
  BY <1>1, <1>2, <1>4, <1>6, <1>7, <1>8, <1>9, <1>10

\* The call returns no other errors than its own and those of its members.
LEMMA ReturnedIs ==
  ASSUME NEW p, IsPayload(p), NEW deepest \in Int, NEW max, NEW errors, NEW k \in 1..Len(p),
         NEW codes, {"payload_exceeds_max_depth", "invalid_payload_key"} \subseteq codes,
         p[k].kind = "string" /\ p[k].len > max => "payload_string_too_long" \in codes,
         \A j \in Members(p, k) : errors[j] \subseteq codes
  PROVE  ReturnedFor(p, deepest, max, errors, k) \subseteq codes
<1> DEFINE r == ReturnedFor(p, deepest, max, errors, k)
<1> DEFINE bad == BadIn(p, max, errors, k)
<1> DEFINE met(j) == MetIn(p, max, errors, k, j)
<1>1. /\ Depth(p)[k] > deepest => r = {"payload_exceeds_max_depth"}
      /\ Depth(p)[k] <= deepest =>
           /\ p[k].kind = "scalar" => r = {}
           /\ p[k].kind = "string" =>
                r = IF p[k].len > max THEN {"payload_string_too_long"} ELSE {}
           /\ p[k].kind = "map" => r = UNION {met(j) : j \in bad}
           /\ p[k].kind = "list" =>
                (bad = {} => r = {}) /\ (bad # {} => Min(bad) \in bad /\ r = met(Min(bad)))
      /\ p[k].kind \in {"scalar", "string", "map", "list"}
      /\ Depth(p)[k] \in Nat
  BY ReturnedCases
<1>2. \A j \in bad : met(j) \subseteq codes
  BY DEF BadIn, MetIn
<1> HIDE DEF bad, met, r
<1>3. Depth(p)[k] > deepest \/ Depth(p)[k] <= deepest
  BY <1>1
<1>4. p[k].kind = "map" /\ Depth(p)[k] <= deepest => r \subseteq codes
  BY <1>1, <1>2
<1>5. p[k].kind = "list" /\ Depth(p)[k] <= deepest => r \subseteq codes
  BY <1>1, <1>2
<1>6. p[k].kind \in {"scalar", "string"} /\ Depth(p)[k] <= deepest => r \subseteq codes
  BY <1>1
<1>7. Depth(p)[k] > deepest => r \subseteq codes
  BY <1>1
<1>8. r \subseteq codes
  BY <1>1, <1>3, <1>4, <1>5, <1>6, <1>7
<1> QED
  BY <1>8 DEF r

\* A call looks at what its own calls return.
LEMMA ReturnedLocal ==
  ASSUME NEW p, NEW deepest, NEW max, NEW f, NEW g, NEW k,
         \A j \in Members(p, k) : f[j] = g[j]
  PROVE  ReturnedFor(p, deepest, max, f, k) = ReturnedFor(p, deepest, max, g, k)
<1>1. \A j \in Members(p, k) : MetIn(p, max, f, k, j) = MetIn(p, max, g, k, j)
  BY DEF MetIn
<1>2. BadIn(p, max, f, k) = BadIn(p, max, g, k)
  BY <1>1 DEF BadIn
<1> DEFINE bad == BadIn(p, max, g, k)
<1>3. \A j \in bad : MetIn(p, max, f, k, j) = MetIn(p, max, g, k, j)
  BY <1>1 DEF BadIn
<1>4. {MetIn(p, max, f, k, j) : j \in bad} = {MetIn(p, max, g, k, j) : j \in bad}
  BY <1>3
<1>5. ASSUME bad # {}, bad \subseteq Nat
      PROVE  MetIn(p, max, f, k, Min(bad)) = MetIn(p, max, g, k, Min(bad))
  <2> HIDE DEF bad
  <2>1. Min(bad) \in bad
    BY <1>5, FirstBad
  <2> QED
    BY <1>3, <2>1
<1>6. bad \subseteq Nat
  BY DEF BadIn, Members
<1> QED
  BY <1>2, <1>4, <1>5, <1>6, Zenon DEF ReturnedFor

\* What validatePayloadValue returns for each value follows from what it returns
\* for the members of that value.
LEMMA ErrorsAre ==
  ASSUME NEW p, IsPayload(p), NEW deepest \in Int, NEW max
  PROVE  LET errors == PayloadErrors(p, deepest, max)
         IN  \A k \in 1..Len(p) : /\ errors[k] = ReturnedFor(p, deepest, max, errors, k)
                                  /\ errors[k] \subseteq PayloadCodes
<1> DEFINE n == Len(p)
<1> DEFINE D == 1..n
<1> DEFINE V == SUBSET PayloadCodes
<1> DEFINE e(g, k) == ReturnedFor(p, deepest, max, g, k)
<1> DEFINE rank == [k \in D |-> n - k]
<1> DEFINE step == [k \in D |-> [g \in [D -> V] |-> e(g, k)]]
<1>1. n \in Nat /\ \A k \in D : \A j \in Members(p, k) : j \in D /\ j > k
  BY Places, MembersBehind
<1>2. \A g \in [D -> V] : \A k \in D : e(g, k) \in V
  <2>1. ASSUME NEW g \in [D -> V], NEW k \in D PROVE e(g, k) \subseteq PayloadCodes
    <3>1. \A j \in Members(p, k) : g[j] \subseteq PayloadCodes
      BY <1>1
    <3>2. {"payload_exceeds_max_depth", "invalid_payload_key"} \subseteq PayloadCodes
          /\ "payload_string_too_long" \in PayloadCodes
      BY DEF PayloadCodes
    <3> QED
      BY <3>1, <3>2, ReturnedIs
  <2> QED
    BY <2>1
<1> HIDE DEF e
<1>3. rank \in [D -> 0..n] /\ step \in [D -> [[D -> V] -> V]] /\ {} \in V
  BY <1>1, <1>2
<1>4. Local(D, V, rank, step)
  <2> SUFFICES ASSUME NEW k \in D, NEW f \in [D -> V], NEW g \in [D -> V],
                      \A y \in D : rank[y] < rank[k] => f[y] = g[y]
               PROVE  step[k][f] = step[k][g]
    BY DEF Local
  <2>1. ASSUME NEW j \in Members(p, k) PROVE f[j] = g[j]
    <3>1. j \in D /\ j > k
      BY <1>1
    <3>2. rank[j] < rank[k]
      BY <1>1, <3>1
    <3> QED
      BY <3>1, <3>2
  <2>2. e(f, k) = e(g, k)
    BY <2>1, ReturnedLocal DEF e
  <2> QED
    BY <2>2
<1>5. \A g \in [D -> V] : \A k \in D : step[k][g] = e(g, k)
  OBVIOUS
<1>6. PICK f \in [D -> V] : Solves(f, D, step)
  <2> HIDE DEF D, V, rank, step
  <2> QED
    BY <1>1, <1>3, <1>4, Recursion
<1> DEFINE E(g) == [k \in D |-> e(g, k)]
<1>7. f = E(f)
  BY <1>5, <1>6 DEF Solves
<1> DEFINE d == PayloadErrors(p, deepest, max)
<1>8. d = CHOOSE g : g = E(g)
  BY DEF PayloadErrors, e, ReturnedFor, MetIn, BadIn
<1> HIDE DEF E, d
<1>9. d = E(d)
  BY <1>7, <1>8
<1>10. \A k \in D : d[k] = e(d, k)
  BY <1>9 DEF E
<1> DEFINE S == {k \in D : d[k] \subseteq PayloadCodes}
<1>11. ASSUME NEW k \in D, \A j \in D : j > k => j \in S PROVE k \in S
  <2>1. \A j \in Members(p, k) : d[j] \subseteq PayloadCodes
    BY <1>1, <1>11
  <2>2. e(d, k) \subseteq PayloadCodes
    BY <2>1, ReturnedIs DEF e, PayloadCodes
  <2> QED
    BY <1>10, <2>2
<1>12. \A k \in D : k \in S
  <2> HIDE DEF S
  <2> QED
    BY <1>1, <1>11, ByPlacesBehind
<1> QED
  BY <1>10, <1>12 DEF d, e

\* No error for the payload means no error for any value in it.
LEMMA NoErrorInside ==
  ASSUME NEW p, IsPayload(p), NEW deepest \in Int, NEW max, p # NoPayload
  PROVE  LET errors == PayloadErrors(p, deepest, max)
         IN  errors[1] = {} <=>
               \A k \in 1..Len(p) :
                 /\ Depth(p)[k] <= deepest
                 /\ InMap(p, k) => p[k].key \in 1..max
                 /\ p[k].kind = "string" => ~(p[k].len > max)
<1> DEFINE n == Len(p)
<1> DEFINE D == 1..n
<1> DEFINE d == PayloadErrors(p, deepest, max)
<1> DEFINE met(k, j) == MetIn(p, max, d, k, j)
<1> DEFINE bad(k) == BadIn(p, max, d, k)
<1> DEFINE fine(k) == /\ Depth(p)[k] <= deepest
                      /\ InMap(p, k) => p[k].key \in 1..max
                      /\ p[k].kind = "string" => ~(p[k].len > max)
<1>1. n \in Nat /\ 1 \in D
  <2>1. p \in Seq(Values) /\ p # <<>>
    BY DEF IsPayload, NoPayload
  <2>2. Len(p) \in Nat /\ Len(p) # 0
    BY <2>1, EmptySeq, LenProperties
  <2> QED
    BY <2>2
<1>2. ASSUME NEW k \in D
      PROVE  /\ Depth(p)[k] > deepest => d[k] = {"payload_exceeds_max_depth"}
             /\ Depth(p)[k] <= deepest =>
                  /\ p[k].kind = "scalar" => d[k] = {}
                  /\ p[k].kind = "string" =>
                       d[k] = IF p[k].len > max THEN {"payload_string_too_long"} ELSE {}
                  /\ p[k].kind = "map" => d[k] = UNION {met(k, j) : j \in bad(k)}
                  /\ p[k].kind = "list" =>
                       /\ bad(k) = {} => d[k] = {}
                       /\ bad(k) # {} => Min(bad(k)) \in bad(k) /\ d[k] = met(k, Min(bad(k)))
             /\ p[k].kind \in {"scalar", "string", "map", "list"}
             /\ Depth(p)[k] \in Nat
  <2>1. d[k] = ReturnedFor(p, deepest, max, d, k)
    BY ErrorsAre
  <2> HIDE DEF d
  <2> QED
    BY <2>1, ReturnedCases
<1>3. \A k \in D : \A j \in Members(p, k) :
        /\ j \in D /\ j > k /\ j # 1 /\ p[j].in = k
        /\ p[k].kind \in Collection
        /\ InMap(p, j) = (p[k].kind = "map")
  <2> TAKE k \in D
  <2> TAKE j \in Members(p, k)
  <2>1. j \in D /\ j > k /\ j # 1 /\ p[j].in = k
    BY MembersBehind
  <2>2. p[k].kind \in Collection /\ j > 1
    BY <1>1, <2>1, Places
  <2>3. InMap(p, j) = (p[k].kind = "map")
    BY <2>1, <2>2 DEF InMap
  <2> QED
    BY <2>1, <2>2, <2>3
<1>4. \A k \in D : \A j : j \in bad(k) <=> j \in Members(p, k) /\ met(k, j) # {}
  BY DEF BadIn
<1>5. \A k \in D : \A j \in Members(p, k) :
        met(k, j) = {} <=> (InMap(p, j) => p[j].key \in 1..max) /\ d[j] = {}
  BY <1>3 DEF MetIn
<1> HIDE DEF d, met, bad
<1>6. ASSUME NEW k \in D
      PROVE  d[k] = {} <=> /\ Depth(p)[k] <= deepest
                           /\ p[k].kind = "string" => ~(p[k].len > max)
                           /\ \A j \in Members(p, k) : met(k, j) = {}
  <2>1. CASE Depth(p)[k] > deepest
    <3>1. d[k] # {}
      BY <1>2, <2>1
    <3>2. Depth(p)[k] \in Nat
      BY <1>2
    <3>3. ~(Depth(p)[k] <= deepest)
      BY <2>1, <3>2
    <3> QED
      BY <3>1, <3>3
  <2>2. CASE Depth(p)[k] <= deepest /\ p[k].kind \in {"scalar", "string"}
    <3>1. Members(p, k) = {}
      BY <1>3, <2>2 DEF Collection
    <3>2. p[k].kind = "scalar" => d[k] = {}
      BY <1>2, <2>2
    <3>3. p[k].kind = "string" =>
            d[k] = IF p[k].len > max THEN {"payload_string_too_long"} ELSE {}
      BY <1>2, <2>2
    <3> QED
      BY <2>2, <3>1, <3>2, <3>3
  <2>3. CASE Depth(p)[k] <= deepest /\ p[k].kind = "map"
    <3>1. d[k] = UNION {met(k, j) : j \in bad(k)}
      BY <1>2, <2>3
    <3>2. d[k] = {} <=> \A j \in Members(p, k) : met(k, j) = {}
      BY <1>4, <3>1
    <3> QED
      BY <2>3, <3>2
  <2>4. CASE Depth(p)[k] <= deepest /\ p[k].kind = "list"
    <3>1. /\ bad(k) = {} => d[k] = {}
          /\ bad(k) # {} => Min(bad(k)) \in bad(k) /\ d[k] = met(k, Min(bad(k)))
      BY <1>2, <2>4
    <3>2. d[k] = {} <=> bad(k) = {}
      BY <1>4, <3>1
    <3>3. bad(k) = {} <=> \A j \in Members(p, k) : met(k, j) = {}
      BY <1>4
    <3> QED
      BY <2>4, <3>2, <3>3
  <2> QED
    BY <1>2, <2>1, <2>2, <2>3, <2>4
<1>7. ASSUME d[1] = {} PROVE \A k \in D : fine(k)
  <2> DEFINE S == {k \in D : d[k] = {} /\ (InMap(p, k) => p[k].key \in 1..max)}
  <2>1. ASSUME NEW k \in D, \A j \in D : j < k => j \in S PROVE k \in S
    <3>1. CASE k = 1
      <4>1. ~InMap(p, 1)
        BY DEF InMap
      <4> QED
        BY <1>7, <3>1, <4>1
    <3>2. CASE k # 1
      <4>1. p[k].in \in D /\ p[k].in < k /\ k \in Members(p, p[k].in)
        BY <3>2, Places DEF Members
      <4>2. d[p[k].in] = {}
        BY <2>1, <4>1
      <4>3. met(p[k].in, k) = {}
        BY <1>6, <4>1, <4>2
      <4> QED
        BY <1>5, <4>1, <4>3
    <3> QED
      BY <3>1, <3>2
  <2>2. \A k \in D : k \in S
    <3> HIDE DEF S
    <3> QED
      BY <1>1, <2>1, ByPlaces
  <2> QED
    BY <1>6, <2>2
<1>8. ASSUME \A k \in D : fine(k) PROVE d[1] = {}
  <2> DEFINE S == {k \in D : d[k] = {}}
  <2>1. ASSUME NEW k \in D, \A j \in D : j > k => j \in S PROVE k \in S
    <3>1. \A j \in Members(p, k) : d[j] = {} /\ fine(j)
      BY <1>3, <1>8, <2>1
    <3>2. \A j \in Members(p, k) : met(k, j) = {}
      BY <1>5, <3>1
    <3> QED
      BY <1>6, <1>8, <3>2
  <2>2. \A k \in D : k \in S
    <3> HIDE DEF S
    <3> QED
      BY <1>1, <2>1, ByPlacesBehind
  <2> QED
    BY <1>1, <2>2
<1> QED
  BY <1>7, <1>8 DEF d

-----------------------------------------------------------------------------
\* Sums.

\* s has the sums of the first numbers of f.
Sums(s, f, n) ==
  /\ s \in [0..n -> Int] /\ s[0] = 0
  /\ \A k \in 1..n : s[k] = s[k - 1] + f[k]

LEMMA TotalIs ==
  ASSUME NEW n \in Nat, NEW f \in [1..n -> Int]
  PROVE  \E s : Sums(s, f, n) /\ Total(f) = s[n]
<1> DEFINE D == 0..n
<1> DEFINE V == Int
<1> DEFINE e(g, k) == IF k = 0 THEN 0 ELSE g[k - 1] + f[k]
<1> DEFINE rank == [k \in D |-> k]
<1> DEFINE step == [k \in D |-> [g \in [D -> V] |-> e(g, k)]]
<1>1. Len(f) = n
  <2>1. f \in Seq(Int) /\ DOMAIN f = 1..n
    BY IsASeq
  <2>2. Len(f) \in Nat /\ DOMAIN f = 1..Len(f)
    BY <2>1, LenProperties
  <2> QED
    BY <2>1, <2>2
<1>2. \A k \in D : k # 0 => k - 1 \in D /\ k \in 1..n /\ k - 1 < k
  OBVIOUS
<1>3. ASSUME NEW g \in [D -> V], NEW k \in D PROVE e(g, k) \in V
  <2>1. k # 0 => g[k - 1] \in Int /\ f[k] \in Int
    BY <1>2
  <2> QED
    BY <2>1
<1>4. rank \in [D -> 0..n] /\ step \in [D -> [[D -> V] -> V]] /\ 0 \in V
  BY <1>3
<1>5. Local(D, V, rank, step)
  <2> SUFFICES ASSUME NEW k \in D, NEW g \in [D -> V], NEW h \in [D -> V],
                      \A y \in D : rank[y] < rank[k] => g[y] = h[y]
               PROVE  step[k][g] = step[k][h]
    BY DEF Local
  <2>1. k # 0 => g[k - 1] = h[k - 1]
    BY <1>2
  <2> QED
    BY <2>1
<1>6. \A g \in [D -> V] : \A k \in D : step[k][g] = e(g, k)
  OBVIOUS
<1>7. PICK s \in [D -> V] : Solves(s, D, step)
  <2> HIDE DEF D, V, rank, step
  <2> QED
    BY <1>4, <1>5, Recursion
<1> DEFINE E(g) == [k \in D |-> e(g, k)]
<1>8. s = E(s)
  BY <1>6, <1>7 DEF Solves
<1> DEFINE t == CHOOSE g : g = E(g)
<1>9. Total(f) = t[n]
  BY <1>1 DEF Total
<1> HIDE DEF E
<1>10. t = E(t)
  BY <1>8
<1> HIDE DEF t
<1>11. /\ t[0] = 0 /\ 0 \in D
       /\ \A k \in 1..n : k \in D /\ k - 1 \in D /\ t[k] = t[k - 1] + f[k] /\ f[k] \in Int
  <2>1. 0 \in D /\ \A k \in 1..n : k \in D /\ k - 1 \in D /\ k # 0 /\ f[k] \in Int
    OBVIOUS
  <2>2. \A k \in D : t[k] = IF k = 0 THEN 0 ELSE t[k - 1] + f[k]
    BY <1>10, Zenon DEF E
  <2> QED
    BY <2>1, <2>2
<1>16. t = [k \in D |-> t[k]]
  BY <1>10 DEF E
<1> DEFINE S == {k \in D : t[k] \in Int}
<1>12. 0 \in S
  BY <1>11
<1>13. ASSUME NEW k \in 1..n, k - 1 \in S PROVE k \in S
  <2>1. k \in D /\ t[k] = t[k - 1] + f[k] /\ t[k - 1] \in Int /\ f[k] \in Int
    BY <1>11, <1>13
  <2>2. t[k] \in Int
    BY <2>1
  <2> QED
    BY <2>1, <2>2
<1>14. \A k \in D : k \in S
  <2> HIDE DEF S
  <2> QED
    BY <1>12, <1>13, Upwards
<1>15. Sums(t, f, n)
  <2>1. t \in [D -> Int]
    BY <1>14, <1>16
  <2> QED
    BY <1>11, <2>1 DEF Sums
<1> QED
  BY <1>9, <1>15

\* Sums that differ in one number.
LEMMA TotalDiffers ==
  ASSUME NEW n \in Nat, NEW f \in [1..n -> Int], NEW g \in [1..n -> Int], NEW i \in 1..n,
         \A j \in 1..n : j # i => f[j] = g[j]
  PROVE  Total(f) \in Int /\ Total(g) = Total(f) + (g[i] - f[i])
<1>1. PICK s : Sums(s, f, n) /\ Total(f) = s[n]
  BY TotalIs
<1>2. PICK t : Sums(t, g, n) /\ Total(g) = t[n]
  BY TotalIs
<1> DEFINE more == g[i] - f[i]
<1> DEFINE S == {m \in 0..n : t[m] = s[m] + (IF m < i THEN 0 ELSE more)}
<1>3. \A m \in 0..n : s[m] \in Int /\ t[m] \in Int
  BY <1>1, <1>2 DEF Sums
<1>4. more \in Int /\ f[i] \in Int /\ g[i] \in Int
  OBVIOUS
<1>5. 0 \in S
  BY <1>1, <1>2 DEF Sums
<1>6. ASSUME NEW m \in 1..n, m - 1 \in S PROVE m \in S
  <2>1. /\ s[m] = s[m - 1] + f[m] /\ t[m] = t[m - 1] + g[m] /\ m - 1 \in 0..n /\ m \in 0..n
        /\ f[m] \in Int /\ g[m] \in Int /\ s[m - 1] \in Int /\ t[m - 1] \in Int
    BY <1>1, <1>2, <1>3 DEF Sums
  <2>2. t[m - 1] = s[m - 1] + (IF m - 1 < i THEN 0 ELSE more)
    BY <1>6
  <2>3. m # i => f[m] = g[m]
    OBVIOUS
  <2>4. t[m] = s[m] + (IF m < i THEN 0 ELSE more)
    BY <2>1, <2>2, <2>3
  <2> QED
    BY <2>1, <2>4
<1>7. \A m \in 0..n : m \in S
  <2> HIDE DEF S
  <2> QED
    BY <1>5, <1>6, Upwards
<1>8. t[n] = s[n] + more
  BY <1>7
<1> QED
  BY <1>1, <1>2, <1>3, <1>8

LEMMA TotalOfNothing ==
  ASSUME NEW n \in Nat, NEW f \in [1..n -> Int], \A j \in 1..n : f[j] = 0
  PROVE  Total(f) = 0
<1>1. PICK s : Sums(s, f, n) /\ Total(f) = s[n]
  BY TotalIs
<1> DEFINE S == {m \in 0..n : s[m] = 0}
<1>2. 0 \in S
  BY <1>1 DEF Sums
<1>3. ASSUME NEW m \in 1..n, m - 1 \in S PROVE m \in S
  BY <1>1, <1>3 DEF Sums
<1>4. \A m \in 0..n : m \in S
  <2> HIDE DEF S
  <2> QED
    BY <1>2, <1>3, Upwards
<1> QED
  BY <1>1, <1>4

\* Adding up what two properties count is adding up their numbers.
LEMMA TotalCounts ==
  ASSUME NEW n \in Nat, NEW A, NEW B, A \subseteq 1..n, B \subseteq 1..n
  PROVE  Total([j \in 1..n |-> One(j \in A) + One(j \in B)]) = Cardinality(A) + Cardinality(B)
<1> DEFINE f == [j \in 1..n |-> One(j \in A) + One(j \in B)]
<1>1. f \in [1..n -> Int]
  BY DEF One
<1> DEFINE a(m) == A \cap (1..m)
<1> DEFINE b(m) == B \cap (1..m)
<1>2. PICK s : Sums(s, f, n) /\ Total(f) = s[n]
  <2> HIDE DEF f
  <2> QED
    BY <1>1, TotalIs
<1>3. ASSUME NEW T, T \subseteq 1..n, NEW m \in 1..n
      PROVE  /\ Cardinality(T \cap (1..(m - 1))) \in Nat
             /\ Cardinality(T \cap (1..m)) = Cardinality(T \cap (1..(m - 1))) + One(m \in T)
  <2>1. IsFiniteSet(T \cap (1..(m - 1)))
    <3>1. IsFiniteSet(1..n)
      BY FS_Interval
    <3>2. T \cap (1..(m - 1)) \subseteq 1..n
      OBVIOUS
    <3> QED
      BY <3>1, <3>2, FS_Subset
  <2>2. Cardinality(T \cap (1..(m - 1))) \in Nat
    BY <2>1, FS_CardinalityType
  <2>3. CASE m \in T
    <3>1. T \cap (1..m) = (T \cap (1..(m - 1))) \cup {m} /\ m \notin T \cap (1..(m - 1))
      BY <2>3
    <3>2. Cardinality(T \cap (1..m)) = Cardinality(T \cap (1..(m - 1))) + 1
      BY <2>1, <3>1, FS_AddElement
    <3> QED
      BY <2>2, <2>3, <3>2 DEF One
  <2>4. CASE m \notin T
    <3>1. T \cap (1..m) = T \cap (1..(m - 1))
      BY <2>4
    <3> QED
      BY <2>2, <2>4, <3>1 DEF One
  <2> QED
    BY <2>3, <2>4
<1> DEFINE S == {m \in 0..n : s[m] = Cardinality(a(m)) + Cardinality(b(m))}
<1>4. 0 \in S
  <2>1. a(0) = {} /\ b(0) = {}
    OBVIOUS
  <2>2. Cardinality({}) = 0
    BY FS_EmptySet
  <2>3. s[0] = 0
    BY <1>2 DEF Sums
  <2> QED
    BY <2>1, <2>2, <2>3
<1>5. ASSUME NEW m \in 1..n, m - 1 \in S PROVE m \in S
  <2>1. /\ Cardinality(a(m - 1)) \in Nat /\ Cardinality(a(m)) = Cardinality(a(m - 1)) + One(m \in A)
        /\ Cardinality(b(m - 1)) \in Nat /\ Cardinality(b(m)) = Cardinality(b(m - 1)) + One(m \in B)
    BY <1>3
  <2>2. s[m] = s[m - 1] + f[m] /\ s[m - 1] = Cardinality(a(m - 1)) + Cardinality(b(m - 1))
    BY <1>2, <1>5 DEF Sums
  <2>3. f[m] = One(m \in A) + One(m \in B)
    OBVIOUS
  <2>4. One(m \in A) \in Nat /\ One(m \in B) \in Nat
    BY DEF One
  <2> HIDE DEF f, a, b
  <2>5. s[m] = Cardinality(a(m)) + Cardinality(b(m))
    BY <2>1, <2>2, <2>3, <2>4
  <2>6. m \in 0..n
    OBVIOUS
  <2> QED
    BY <2>5, <2>6
<1>6. \A m \in 0..n : m \in S
  <2> HIDE DEF S
  <2> QED
    BY <1>4, <1>5, Upwards
<1>7. a(n) = A /\ b(n) = B
  OBVIOUS
<1>8. s[n] = Cardinality(a(n)) + Cardinality(b(n))
  BY <1>6
<1> HIDE DEF a, b
<1> QED
  BY <1>2, <1>7, <1>8

-----------------------------------------------------------------------------
\* The count.

\* What the members of value k behind m add to its count.
FromMembers(p, count, m, k) ==
  [j \in 1..Len(p) |->
     IF j > m /\ j \in Members(p, k) THEN count[j] + One(p[k].kind = "map") ELSE 0]

LEMMA FromMembersIs ==
  ASSUME NEW p, NEW count \in [1..Len(p) -> Nat], Len(p) \in Nat, NEW m, NEW k
  PROVE  FromMembers(p, count, m, k) \in [1..Len(p) -> Int]
<1>1. \A j \in 1..Len(p) : count[j] + One(p[k].kind = "map") \in Int
  BY DEF One
<1> QED
  BY <1>1 DEF FromMembers

\* The sum of natural numbers is one.
LEMMA TotalNat ==
  ASSUME NEW n \in Nat, NEW f \in [1..n -> Nat]
  PROVE  Total(f) \in Nat
<1>1. f \in [1..n -> Int]
  OBVIOUS
<1>2. PICK s : Sums(s, f, n) /\ Total(f) = s[n]
  BY <1>1, TotalIs
<1> DEFINE S == {m \in 0..n : s[m] \in Nat}
<1>3. 0 \in S
  BY <1>2 DEF Sums
<1>4. ASSUME NEW m \in 1..n, m - 1 \in S PROVE m \in S
  <2>1. m \in 0..n /\ s[m] = s[m - 1] + f[m] /\ s[m - 1] \in Nat /\ f[m] \in Nat
    BY <1>2, <1>4 DEF Sums
  <2>2. s[m] \in Nat
    BY <2>1
  <2> QED
    BY <2>1, <2>2
<1>5. \A m \in 0..n : m \in S
  <2> HIDE DEF S
  <2> QED
    BY <1>3, <1>4, Upwards
<1> QED
  BY <1>2, <1>5

CountFor(p, count, k) ==
  IF p[k].kind \notin Collection THEN 1
  ELSE Total([j \in 1..Len(p) |->
         IF j \in Members(p, k) THEN count[j] + One(p[k].kind = "map") ELSE 0])

LEMMA CountForIs ==
  ASSUME NEW p, Len(p) \in Nat, NEW count, NEW k,
         \A j \in Members(p, k) : count[j] \in Nat
  PROVE  CountFor(p, count, k) \in Nat
<1> DEFINE f == [j \in 1..Len(p) |->
                   IF j \in Members(p, k) THEN count[j] + One(p[k].kind = "map") ELSE 0]
<1>1. \A j \in Members(p, k) : count[j] + One(p[k].kind = "map") \in Nat
  BY DEF One
<1>2. f \in [1..Len(p) -> Nat]
  BY <1>1
<1>3. Total(f) \in Nat
  <2> HIDE DEF f
  <2> QED
    BY <1>2, TotalNat
<1> QED
  BY <1>3 DEF CountFor

LEMMA CountLocal ==
  ASSUME NEW p, NEW f, NEW g, NEW k, \A j \in Members(p, k) : f[j] = g[j]
  PROVE  CountFor(p, f, k) = CountFor(p, g, k)
<1>1. [j \in 1..Len(p) |-> IF j \in Members(p, k) THEN f[j] + One(p[k].kind = "map") ELSE 0]
      = [j \in 1..Len(p) |-> IF j \in Members(p, k) THEN g[j] + One(p[k].kind = "map") ELSE 0]
  OBVIOUS
<1> QED
  BY <1>1 DEF CountFor

\* What validatePayloadValue counts for each value follows from what it counts for
\* the members of that value.
LEMMA CountsAre ==
  ASSUME NEW p, IsPayload(p)
  PROVE  /\ PayloadCount(p) \in [1..Len(p) -> Nat]
         /\ \A k \in 1..Len(p) : PayloadCount(p)[k] = CountFor(p, PayloadCount(p), k)
<1> DEFINE n == Len(p)
<1> DEFINE D == 1..n
<1> DEFINE V == Nat
<1> DEFINE e(g, k) == CountFor(p, g, k)
<1> DEFINE rank == [k \in D |-> n - k]
<1> DEFINE step == [k \in D |-> [g \in [D -> V] |-> e(g, k)]]
<1>1. n \in Nat /\ \A k \in D : \A j \in Members(p, k) : j \in D /\ j > k
  BY Places, MembersBehind
<1>2. \A g \in [D -> V] : \A k \in D : e(g, k) \in V
  BY <1>1, CountForIs
<1> HIDE DEF e
<1>3. rank \in [D -> 0..n] /\ step \in [D -> [[D -> V] -> V]] /\ 0 \in V
  BY <1>1, <1>2
<1>4. Local(D, V, rank, step)
  <2> SUFFICES ASSUME NEW k \in D, NEW f \in [D -> V], NEW g \in [D -> V],
                      \A y \in D : rank[y] < rank[k] => f[y] = g[y]
               PROVE  step[k][f] = step[k][g]
    BY DEF Local
  <2>1. ASSUME NEW j \in Members(p, k) PROVE f[j] = g[j]
    <3>1. j \in D /\ j > k
      BY <1>1
    <3>2. rank[j] < rank[k]
      BY <1>1, <3>1
    <3> QED
      BY <3>1, <3>2
  <2>2. e(f, k) = e(g, k)
    BY <2>1, CountLocal DEF e
  <2> QED
    BY <2>2
<1>5. \A g \in [D -> V] : \A k \in D : step[k][g] = e(g, k)
  OBVIOUS
<1>6. PICK f \in [D -> V] : Solves(f, D, step)
  <2> HIDE DEF D, V, rank, step
  <2> QED
    BY <1>1, <1>3, <1>4, Recursion
<1> DEFINE E(g) == [k \in D |-> e(g, k)]
<1>7. f = E(f)
  BY <1>5, <1>6 DEF Solves
<1> DEFINE d == PayloadCount(p)
<1>8. d = CHOOSE g : g = E(g)
  BY DEF PayloadCount, e, CountFor
<1> HIDE DEF E, d
<1>9. d = E(d)
  BY <1>7, <1>8
<1>10. \A k \in D : d[k] = e(d, k)
  BY <1>9 DEF E
<1>11. d = [k \in D |-> d[k]]
  BY <1>9 DEF E
<1> DEFINE S == {k \in D : d[k] \in Nat}
<1>12. ASSUME NEW k \in D, \A j \in D : j > k => j \in S PROVE k \in S
  <2>1. \A j \in Members(p, k) : d[j] \in Nat
    BY <1>1, <1>12
  <2>2. e(d, k) \in Nat
    BY <1>1, <2>1, CountForIs DEF e
  <2> QED
    BY <1>10, <2>2
<1>13. \A k \in D : k \in S
  <2> HIDE DEF S
  <2> QED
    BY <1>1, <1>12, ByPlacesBehind
<1>14. d \in [D -> Nat]
  BY <1>11, <1>13
<1> QED
  BY <1>10, <1>14 DEF d, e

\* What a value adds on its own to the count of the payload.
Own(p, k) == One(InMap(p, k)) + One(p[k].kind \notin Collection)
OwnBehind(p, m) == [k \in 1..Len(p) |-> IF k > m THEN Own(p, k) ELSE 0]

\* What the values behind m have handed to those up to m.
HandedUp(p, count, m) ==
  [k \in 1..Len(p) |-> IF k <= m THEN Total(FromMembers(p, count, m, k)) ELSE 0]

\* The count of a value is its own and what its members hand up.
LEMMA CountSplits ==
  ASSUME NEW p, IsPayload(p), NEW k \in 1..Len(p)
  PROVE  /\ Total(FromMembers(p, PayloadCount(p), k, k)) \in Int
         /\ PayloadCount(p)[k] =
              One(p[k].kind \notin Collection) + Total(FromMembers(p, PayloadCount(p), k, k))
<1> DEFINE c == PayloadCount(p)
<1> DEFINE f == FromMembers(p, c, k, k)
<1>1. Len(p) \in Nat /\ c \in [1..Len(p) -> Nat] /\ c[k] = CountFor(p, c, k)
  BY Places, CountsAre
<1>2. f \in [1..Len(p) -> Int]
  BY <1>1, FromMembersIs
<1>3. Total(f) \in Int
  <2> HIDE DEF f
  <2> QED
    BY <1>1, <1>2, TotalDiffers
<1>4. f = [j \in 1..Len(p) |-> IF j \in Members(p, k) THEN c[j] + One(p[k].kind = "map") ELSE 0]
  BY MembersBehind DEF FromMembers
<1> HIDE DEF c
<1>5. CASE p[k].kind \notin Collection
  <2>1. Members(p, k) = {}
    BY <1>5, MembersBehind, Places
  <2>2. \A j \in 1..Len(p) : f[j] = 0
    BY <1>4, <2>1
  <2>3. Total(f) = 0
    <3> HIDE DEF f
    <3> QED
      BY <1>1, <1>2, <2>2, TotalOfNothing
  <2>4. c[k] = 1 /\ One(p[k].kind \notin Collection) = 1
    BY <1>1, <1>5 DEF CountFor, One
  <2> QED
    BY <2>3, <2>4 DEF c
<1>6. CASE p[k].kind \in Collection
  <2>1. c[k] = Total(f) /\ One(p[k].kind \notin Collection) = 0
    BY <1>1, <1>4, <1>6 DEF CountFor, One
  <2> HIDE DEF f
  <2>2. c[k] = One(p[k].kind \notin Collection) + Total(f)
    BY <1>3, <2>1
  <2> QED
    BY <1>3, <2>2 DEF c, f
<1> QED
  BY <1>5, <1>6

LEMMA HandedUpIs ==
  ASSUME NEW p, IsPayload(p), NEW m \in 1..Len(p)
  PROVE  /\ HandedUp(p, PayloadCount(p), m) \in [1..Len(p) -> Int]
         /\ OwnBehind(p, m) \in [1..Len(p) -> Int]
<1> DEFINE c == PayloadCount(p)
<1>1. Len(p) \in Nat /\ c \in [1..Len(p) -> Nat]
  BY Places, CountsAre
<1>2. ASSUME NEW k \in 1..Len(p) PROVE Total(FromMembers(p, c, m, k)) \in Int
  <2> DEFINE f == FromMembers(p, c, m, k)
  <2>1. f \in [1..Len(p) -> Int]
    BY <1>1, FromMembersIs
  <2> HIDE DEF f
  <2> QED
    BY <1>1, <2>1, TotalDiffers DEF f
<1>3. \A k \in 1..Len(p) : Own(p, k) \in Int
  BY DEF Own, One
<1> HIDE DEF c
<1>4. HandedUp(p, c, m) \in [1..Len(p) -> Int]
  BY <1>2 DEF HandedUp
<1> QED
  BY <1>3, <1>4 DEF c, OwnBehind

\* What value q hands to the value it is a member of.
LEMMA HandedOn ==
  ASSUME NEW p, IsPayload(p), NEW m \in 1..Len(p), NEW q \in 1..Len(p), q = m + 1, NEW k \in 1..m
  PROVE  LET c == PayloadCount(p)
         IN  /\ Total(FromMembers(p, c, q, k)) \in Int
             /\ Total(FromMembers(p, c, m, k)) =
                  Total(FromMembers(p, c, q, k))
                    + (IF p[q].in = k THEN c[q] + One(InMap(p, q)) ELSE 0)
<1> DEFINE c == PayloadCount(p)
<1> DEFINE f == FromMembers(p, c, q, k)
<1> DEFINE g == FromMembers(p, c, m, k)
<1>1. Len(p) \in Nat /\ c \in [1..Len(p) -> Nat]
  BY Places, CountsAre
<1>2. f \in [1..Len(p) -> Int] /\ g \in [1..Len(p) -> Int]
  BY <1>1, FromMembersIs
<1> HIDE DEF c
<1>3. \A j \in 1..Len(p) : j # q => (j > m <=> j > q)
  BY <1>1
<1>4. \A j \in 1..Len(p) : j # q => f[j] = g[j]
  BY <1>3 DEF FromMembers
<1>5. f[q] = 0 /\ g[q] = IF p[q].in = k THEN c[q] + One(InMap(p, q)) ELSE 0
  <2>1. ~(q > q) /\ q > m /\ q > 1
    BY <1>1
  <2>2. q \in Members(p, k) <=> p[q].in = k
    BY DEF Members
  <2>3. f[q] = 0 /\ g[q] = IF q \in Members(p, k) THEN c[q] + One(p[k].kind = "map") ELSE 0
    BY <2>1 DEF FromMembers
  <2>4. p[q].in = k => (InMap(p, q) <=> p[k].kind = "map")
    BY <2>1 DEF InMap
  <2>5. p[q].in = k => One(InMap(p, q)) = One(p[k].kind = "map")
    BY <2>4 DEF One
  <2> QED
    BY <2>2, <2>3, <2>5
<1> HIDE DEF f, g
<1>6. Total(f) \in Int /\ Total(g) = Total(f) + (g[q] - f[q])
  BY <1>1, <1>2, <1>4, TotalDiffers
<1>7. g[q] \in Int /\ g[q] - f[q] = g[q]
  BY <1>2, <1>5
<1>8. Total(g) = Total(f) + (IF p[q].in = k THEN c[q] + One(InMap(p, q)) ELSE 0)
  BY <1>5, <1>6, <1>7
<1> QED
  BY <1>6, <1>8 DEF c, f, g

\* Taking one value more into account adds what it adds on its own.
LEMMA HandedStep ==
  ASSUME NEW p, IsPayload(p), NEW m \in 1..Len(p), NEW q \in 1..Len(p), q = m + 1
  PROVE  /\ Total(HandedUp(p, PayloadCount(p), q)) \in Int
         /\ Own(p, q) \in Int
         /\ Total(HandedUp(p, PayloadCount(p), m)) = Total(HandedUp(p, PayloadCount(p), q)) + Own(p, q)
<1> DEFINE c == PayloadCount(p)
<1> DEFINE i == p[q].in
<1> DEFINE old == HandedUp(p, c, q)
<1> DEFINE new == HandedUp(p, c, m)
<1>1. Len(p) \in Nat /\ c \in [1..Len(p) -> Nat] /\ q # 1
  BY Places, CountsAre
<1>2. i \in 1..Len(p) /\ i < q /\ i # q /\ i \in 1..m
  <2>1. i \in 1..Len(p) /\ i < q
    BY <1>1, Places
  <2> QED
    BY <1>1, <2>1
<1>3. old \in [1..Len(p) -> Int] /\ new \in [1..Len(p) -> Int]
  BY HandedUpIs
<1>4. \A k \in 1..m : k \in 1..Len(p) /\ k <= q /\ k <= m
  BY <1>1
<1>5. ASSUME NEW k \in 1..m
      PROVE  old[k] \in Int /\ new[k] = old[k] + (IF i = k THEN c[q] + One(InMap(p, q)) ELSE 0)
  <2>1. old[k] = Total(FromMembers(p, c, q, k)) /\ new[k] = Total(FromMembers(p, c, m, k))
    BY <1>4 DEF HandedUp
  <2> QED
    BY <2>1, HandedOn
<1>6. /\ old[q] = Total(FromMembers(p, c, q, q)) /\ new[q] = 0
      /\ \A k \in 1..Len(p) : k > q => old[k] = 0 /\ new[k] = 0
  <2>1. q <= q /\ ~(q <= m) /\ \A k \in 1..Len(p) : k > q => ~(k <= q) /\ ~(k <= m)
    BY <1>1
  <2> QED
    BY <2>1 DEF HandedUp
<1>7. old[q] \in Int /\ c[q] = One(p[q].kind \notin Collection) + old[q]
  BY <1>6, CountSplits
<1>8. One(p[q].kind \notin Collection) \in Int /\ One(InMap(p, q)) \in Int
  BY DEF One
<1> HIDE DEF c, old, new, i
<1> DEFINE mid == [k \in 1..Len(p) |-> IF k = i THEN new[i] ELSE old[k]]
<1>9. mid \in [1..Len(p) -> Int] /\ mid[i] = new[i] /\ mid[q] = old[q]
  BY <1>2, <1>3
<1>10. \A k \in 1..Len(p) : k # i => old[k] = mid[k]
  OBVIOUS
<1>11. ASSUME NEW k \in 1..Len(p), k # q PROVE mid[k] = new[k]
  <2>1. CASE k = i
    BY <1>9, <2>1
  <2>2. CASE k # i /\ k \in 1..m
    BY <1>5, <2>2
  <2>3. CASE k # i /\ k \notin 1..m
    <3>1. k > q
      BY <1>1, <1>11, <2>3
    <3> QED
      BY <1>6, <2>3, <3>1
  <2> QED
    BY <2>1, <2>2, <2>3
<1> HIDE DEF mid
<1>12. Total(old) \in Int /\ Total(mid) = Total(old) + (mid[i] - old[i])
  BY <1>1, <1>2, <1>3, <1>9, <1>10, TotalDiffers
<1>13. Total(mid) \in Int /\ Total(new) = Total(mid) + (new[q] - mid[q])
  BY <1>1, <1>3, <1>9, <1>11, TotalDiffers
<1>14. old[i] \in Int /\ new[i] = old[i] + (c[q] + One(InMap(p, q)))
  BY <1>2, <1>5
<1>15. c[q] \in Int /\ new[i] \in Int /\ new[q] \in Int
  BY <1>1, <1>2, <1>3
<1> DEFINE here == One(InMap(p, q))
<1> DEFINE leaf == One(p[q].kind \notin Collection)
<1>16. Total(new) = Total(old) + (here + leaf)
  <2>1. here \in Int /\ leaf \in Int /\ c[q] = leaf + old[q] /\ new[i] = old[i] + (c[q] + here)
    BY <1>7, <1>8, <1>14
  <2> HIDE DEF here, leaf
  <2>2. Total(mid) = Total(old) + (leaf + old[q] + here)
    BY <1>7, <1>9, <1>12, <1>14, <1>15, <2>1
  <2>3. Total(new) = Total(mid) - old[q]
    BY <1>6, <1>7, <1>9, <1>13
  <2> QED
    BY <1>7, <1>12, <2>1, <2>2, <2>3
<1>17. Own(p, q) = here + leaf
  BY DEF Own
<1> QED
  BY <1>8, <1>12, <1>16, <1>17 DEF c, old, new

\* What the values up to m are handed is what those behind m add on their own.
LEMMA HandedTelescopes ==
  ASSUME NEW p, IsPayload(p)
  PROVE  \A m \in 1..Len(p) : Total(HandedUp(p, PayloadCount(p), m)) = Total(OwnBehind(p, m))
<1> DEFINE n == Len(p)
<1> DEFINE h(m) == HandedUp(p, PayloadCount(p), m)
<1> DEFINE o(m) == OwnBehind(p, m)
<1> DEFINE S == {m \in 1..n : Total(h(m)) = Total(o(m))}
<1>1. n \in Nat
  BY Places
<1>2. ASSUME NEW m \in 1..n, \A j \in 1..n : j > m => j \in S PROVE m \in S
  <2>1. h(m) \in [1..n -> Int] /\ o(m) \in [1..n -> Int]
    BY HandedUpIs
  <2>2. CASE m = n
    <3>1. ASSUME NEW k \in 1..n PROVE h(m)[k] = 0
      <4> DEFINE f == FromMembers(p, PayloadCount(p), m, k)
      <4>1. k <= m
        BY <1>1, <2>2
      <4>2. h(m)[k] = Total(f)
        BY <4>1 DEF HandedUp
      <4>3. f \in [1..n -> Int]
        BY <1>1, CountsAre, FromMembersIs
      <4>4. \A j \in 1..n : ~(j > m)
        BY <1>1, <2>2
      <4>5. \A j \in 1..n : f[j] = 0
        BY <4>4 DEF FromMembers
      <4> HIDE DEF f
      <4>6. Total(f) = 0
        BY <1>1, <4>3, <4>5, TotalOfNothing
      <4> QED
        BY <4>2, <4>6
    <3>2. \A k \in 1..n : o(m)[k] = 0
      <4>1. \A k \in 1..n : ~(k > m)
        BY <1>1, <2>2
      <4> QED
        BY <4>1 DEF OwnBehind
    <3> HIDE DEF h, o
    <3>3. Total(h(m)) = 0 /\ Total(o(m)) = 0
      BY <1>1, <2>1, <3>1, <3>2, TotalOfNothing
    <3> QED
      BY <3>3
  <2>3. CASE m # n
    <3> DEFINE q == m + 1
    <3>1. q \in 1..n /\ q > m
      BY <1>1, <2>3
    <3>2. Total(h(q)) = Total(o(q))
      BY <1>2, <3>1
    <3>3. /\ Total(h(q)) \in Int /\ Own(p, q) \in Int
          /\ Total(h(m)) = Total(h(q)) + Own(p, q)
      <4> HIDE DEF q
      <4>1. q = m + 1
        BY DEF q
      <4> QED
        BY <3>1, <4>1, HandedStep
    <3>4. o(q) \in [1..n -> Int]
      BY <3>1, HandedUpIs
    <3>5. o(q)[q] = 0 /\ o(m)[q] = Own(p, q)
      BY <1>1, <3>1 DEF OwnBehind
    <3>6. \A k \in 1..n : k # q => o(q)[k] = o(m)[k]
      <4>1. \A k \in 1..n : k # q => (k > m <=> k > q)
        BY <1>1
      <4> QED
        BY <4>1 DEF OwnBehind
    <3> HIDE DEF h, o, q
    <3>7. Total(o(q)) \in Int /\ Total(o(m)) = Total(o(q)) + (o(m)[q] - o(q)[q])
      BY <1>1, <2>1, <3>1, <3>4, <3>6, TotalDiffers
    <3>8. Total(h(m)) = Total(o(m))
      BY <3>2, <3>3, <3>5, <3>7
    <3> QED
      BY <3>8
  <2> QED
    BY <2>2, <2>3
<1>3. \A m \in 1..n : m \in S
  <2> HIDE DEF S
  <2> QED
    BY <1>1, <1>2, ByPlacesBehind
<1> QED
  BY <1>3

\* The count of a payload: the members of its maps, and its strings and scalars.
LEMMA CountTotal ==
  ASSUME NEW p, IsPayload(p), p # NoPayload
  PROVE  PayloadCount(p)[1] = Cardinality({k \in 1..Len(p) : InMap(p, k)})
                                + Cardinality({k \in 1..Len(p) : p[k].kind \notin Collection})
<1> DEFINE n == Len(p)
<1> DEFINE A == {k \in 1..n : InMap(p, k)}
<1> DEFINE B == {k \in 1..n : p[k].kind \notin Collection}
<1> DEFINE c == PayloadCount(p)
<1> DEFINE h == HandedUp(p, c, 1)
<1> DEFINE o == OwnBehind(p, 1)
<1>1. n \in Nat /\ 1 \in 1..n /\ p[1].kind = "map"
  <2>1. p \in Seq(Values) /\ p # <<>>
    BY DEF IsPayload, NoPayload
  <2>2. Len(p) \in Nat /\ Len(p) # 0
    BY <2>1, EmptySeq, LenProperties
  <2> QED
    BY <2>2, Places
<1>2. h \in [1..n -> Int] /\ Total(h) = Total(o)
  BY <1>1, HandedUpIs, HandedTelescopes
<1>3. h[1] = Total(FromMembers(p, c, 1, 1)) /\ \A k \in 1..n : k # 1 => h[k] = 0
  <2>1. 1 <= 1 /\ \A k \in 1..n : k # 1 => ~(k <= 1)
    OBVIOUS
  <2> QED
    BY <1>1, <2>1 DEF HandedUp
<1>4. c[1] = h[1]
  <2>1. /\ Total(FromMembers(p, c, 1, 1)) \in Int
        /\ c[1] = One(p[1].kind \notin Collection) + Total(FromMembers(p, c, 1, 1))
    BY <1>1, CountSplits
  <2>2. One(p[1].kind \notin Collection) = 0
    BY <1>1 DEF One, Collection
  <2> QED
    BY <1>3, <2>1, <2>2
<1>5. o = [k \in 1..n |-> One(k \in A) + One(k \in B)]
  <2>1. ASSUME NEW k \in 1..n PROVE (IF k > 1 THEN Own(p, k) ELSE 0) = One(k \in A) + One(k \in B)
    <3>1. One(k \in A) = One(InMap(p, k)) /\ One(k \in B) = One(p[k].kind \notin Collection)
      BY DEF One
    <3>2. CASE k > 1
      BY <3>1, <3>2 DEF Own
    <3>3. CASE ~(k > 1)
      <4>1. k = 1
        BY <3>3
      <4>2. One(InMap(p, k)) = 0 /\ One(p[k].kind \notin Collection) = 0
        BY <1>1, <4>1 DEF One, InMap, Collection
      <4> QED
        BY <3>1, <3>3, <4>2
    <3> QED
      BY <3>2, <3>3
  <2> HIDE DEF A, B
  <2> QED
    BY <2>1 DEF OwnBehind
<1>6. Total(o) = Cardinality(A) + Cardinality(B)
  <2>1. A \subseteq 1..n /\ B \subseteq 1..n
    OBVIOUS
  <2> HIDE DEF A, B, o
  <2> QED
    BY <1>1, <1>5, <2>1, TotalCounts
<1> HIDE DEF h, o, c, A, B
<1> DEFINE z == [k \in 1..n |-> 0]
<1>7. Total(z) = 0 /\ z \in [1..n -> Int] /\ z[1] = 0
  <2>1. z \in [1..n -> Int] /\ \A k \in 1..n : z[k] = 0
    OBVIOUS
  <2> HIDE DEF z
  <2> QED
    BY <1>1, <2>1, TotalOfNothing
<1>8. \A k \in 1..n : k # 1 => z[k] = h[k]
  BY <1>3
<1> HIDE DEF z
<1>9. Total(h) = Total(z) + (h[1] - z[1])
  BY <1>1, <1>2, <1>7, <1>8, TotalDiffers
<1>10. h[1] \in Int
  BY <1>1, <1>2
<1>11. Total(h) = h[1]
  BY <1>7, <1>9, <1>10
<1>12. c[1] = Cardinality(A) + Cardinality(B)
  BY <1>2, <1>4, <1>6, <1>11
<1> QED
  BY <1>12 DEF c, A, B

-----------------------------------------------------------------------------
\* Payloads whose strings are cut.

\* Where no string is too long, none is refused for it.
LEMMA NoStringRefused ==
  ASSUME NEW p, IsPayload(p), NEW deepest \in Int, NEW max,
         \A k \in 1..Len(p) : p[k].kind = "string" => ~(p[k].len > max)
  PROVE  \A k \in 1..Len(p) :
           PayloadErrors(p, deepest, max)[k] \subseteq {"payload_exceeds_max_depth", "invalid_payload_key"}
<1> DEFINE n == Len(p)
<1> DEFINE codes == {"payload_exceeds_max_depth", "invalid_payload_key"}
<1> DEFINE d == PayloadErrors(p, deepest, max)
<1> DEFINE S == {k \in 1..n : d[k] \subseteq codes}
<1>1. n \in Nat /\ \A k \in 1..n : \A j \in Members(p, k) : j \in 1..n /\ j > k
  BY Places, MembersBehind
<1>2. \A k \in 1..n : d[k] = ReturnedFor(p, deepest, max, d, k)
  BY ErrorsAre
<1> HIDE DEF d
<1>3. ASSUME NEW k \in 1..n, \A j \in 1..n : j > k => j \in S PROVE k \in S
  <2>1. \A j \in Members(p, k) : d[j] \subseteq codes
    BY <1>1, <1>3
  <2>2. ReturnedFor(p, deepest, max, d, k) \subseteq codes
    BY <2>1, ReturnedIs
  <2> QED
    BY <1>2, <2>2
<1>4. \A k \in 1..n : k \in S
  <2> HIDE DEF S
  <2> QED
    BY <1>1, <1>3, ByPlacesBehind
<1> QED
  BY <1>4 DEF d

\* truncatePayload changes the strings only, and leaves none that is too long.
LEMMA Truncated ==
  ASSUME NEW p, IsPayload(p), p # NoPayload, NEW max \in Nat
  PROVE  LET t == truncatePayload(p, max)
         IN  /\ IsPayload(t) /\ t # NoPayload /\ Len(t) = Len(p)
             /\ \A k \in 1..Len(p) :
                  /\ t[k].kind = p[k].kind /\ t[k].in = p[k].in /\ t[k].key = p[k].key
                  /\ p[k].kind = "string" => ~(t[k].len > max)
<1> DEFINE n == Len(p)
<1> DEFINE t == truncatePayload(p, max)
<1>1. n \in Nat /\ n # 0
  <2>1. p \in Seq(Values) /\ p # <<>>
    BY DEF IsPayload, NoPayload
  <2> QED
    BY <2>1, EmptySeq, LenProperties
<1>2. ASSUME NEW k \in 1..n
      PROVE  /\ t[k] \in Values
             /\ t[k].kind = p[k].kind /\ t[k].in = p[k].in /\ t[k].key = p[k].key
             /\ p[k].kind = "string" => ~(t[k].len > max)
  <2>1. Walk(p)[k] /\ p[k] \in Values
    BY WalkedAll, Places
  <2>2. CASE p[k].kind = "string"
    <3>1. t[k] = [p[k] EXCEPT !.len = truncateString(@, max)]
      BY <2>1, <2>2 DEF truncatePayload
    <3>2. truncateString(p[k].len, max) \in Nat /\ ~(truncateString(p[k].len, max) > max)
      BY <2>1 DEF truncateString, Values
    <3> QED
      BY <2>1, <3>1, <3>2 DEF Values
  <2>3. CASE p[k].kind # "string"
    <3>1. t[k] = p[k]
      BY <2>3 DEF truncatePayload
    <3> QED
      BY <2>1, <2>3, <3>1
  <2> QED
    BY <2>2, <2>3
<1>3. t = [k \in 1..n |-> t[k]]
  BY DEF truncatePayload
<1>4. t \in Seq(Values) /\ Len(t) = n
  <2> HIDE DEF t
  <2>1. t \in [1..n -> Values]
    BY <1>2, <1>3
  <2>2. t \in Seq(Values) /\ DOMAIN t = 1..n
    BY <1>1, <2>1, IsASeq
  <2>3. Len(t) \in Nat /\ DOMAIN t = 1..Len(t)
    BY <2>2, LenProperties
  <2> QED
    BY <1>1, <2>2, <2>3
<1> HIDE DEF t
<1>5. t # NoPayload
  <2>1. Len(<<>>) = 0
    OBVIOUS
  <2> QED
    BY <1>1, <1>4, <2>1 DEF NoPayload
<1>6. IsPayload(t)
  <2>1. 1 \in 1..n
    BY <1>1
  <2>2. t[1].kind = "map" /\ t[1].in = 0
    BY <1>2, <2>1, Places
  <2>3. ASSUME NEW k \in 2..n PROVE t[k].in \in 1..(k - 1) /\ t[t[k].in].kind \in Collection
    <3>1. k \in 1..n /\ p[k].in \in 1..(k - 1) /\ p[k].in \in 1..n /\ p[p[k].in].kind \in Collection
      BY <1>1 DEF IsPayload
    <3> QED
      BY <1>2, <3>1
  <2> QED
    BY <1>4, <2>2, <2>3 DEF IsPayload
<1> QED
  BY <1>2, <1>4, <1>5, <1>6 DEF t

\* What the limits say of a payload does not depend on the lengths of its strings.
LEMMA SamePlaces ==
  ASSUME NEW p, IsPayload(p), NEW t, IsPayload(t), Len(t) = Len(p),
         \A k \in 1..Len(p) : t[k].kind = p[k].kind /\ t[k].in = p[k].in /\ t[k].key = p[k].key,
         NEW entries, NEW deepest, NEW max
  PROVE  WithinLimits(t, entries, deepest, max) <=> WithinLimits(p, entries, deepest, max)
<1> DEFINE n == Len(p)
<1> DEFINE S == {k \in 1..n : Depth(t)[k] = Depth(p)[k]}
<1>1. n \in Nat /\ \A k \in 1..n : k # 1 => p[k].in \in 1..n /\ p[k].in < k
  BY Places
<1>2. ASSUME NEW k \in 1..n, \A j \in 1..n : j < k => j \in S PROVE k \in S
  <2>1. Depth(p)[k] = IF k = 1 THEN 1 ELSE Depth(p)[p[k].in] + 1
    BY DepthIs
  <2>2. Depth(t)[k] = IF k = 1 THEN 1 ELSE Depth(t)[p[k].in] + 1
    BY DepthIs
  <2> QED
    BY <1>1, <1>2, <2>1, <2>2
<1>3. \A k \in 1..n : Depth(t)[k] = Depth(p)[k]
  <2>1. \A k \in 1..n : k \in S
    <3> HIDE DEF S
    <3> QED
      BY <1>1, <1>2, ByPlaces
  <2> QED
    BY <2>1
<1>4. ASSUME NEW k \in 1..n PROVE InMap(t, k) <=> InMap(p, k)
  <2>1. k > 1 => p[k].in \in 1..n
    BY <1>1
  <2> QED
    BY <2>1 DEF InMap
<1>5. {k \in 1..n : InMap(t, k)} = {k \in 1..n : InMap(p, k)}
  BY <1>4
<1>6. {k \in 1..n : t[k].kind \notin Collection} = {k \in 1..n : p[k].kind \notin Collection}
  OBVIOUS
<1>7. (\A k \in 1..n : Depth(t)[k] <= deepest /\ (InMap(t, k) => t[k].key \in 1..max))
      <=> (\A k \in 1..n : Depth(p)[k] <= deepest /\ (InMap(p, k) => p[k].key \in 1..max))
  BY <1>3, <1>4
<1> QED
  BY <1>5, <1>6, <1>7, Zenon DEF WithinLimits

\* validatePayload says of a payload whose strings were cut what the limits say of
\* it as it was.
LEMMA Judged ==
  ASSUME NEW p, IsPayload(p), p # NoPayload, NEW entries \in Int, NEW deepest \in Int, NEW max \in Nat
  PROVE  LET errors == validatePayload(truncatePayload(p, max), entries, deepest, max)
         IN  /\ errors \subseteq {"payload_exceeds_max_depth", "invalid_payload_key",
                                  "payload_has_too_many_entries"}
             /\ errors = {} <=> WithinLimits(p, entries, deepest, max)
<1> DEFINE t == truncatePayload(p, max)
<1> DEFINE d == PayloadErrors(t, deepest, max)
<1> DEFINE A == {k \in 1..Len(t) : InMap(t, k)}
<1> DEFINE B == {k \in 1..Len(t) : t[k].kind \notin Collection}
<1> DEFINE errors == validatePayload(t, entries, deepest, max)
<1>1. /\ IsPayload(t) /\ t # NoPayload /\ Len(t) = Len(p) /\ Len(p) \in Nat
      /\ \A k \in 1..Len(p) : t[k].kind = p[k].kind /\ t[k].in = p[k].in /\ t[k].key = p[k].key
      /\ \A k \in 1..Len(t) : t[k].kind = "string" => ~(t[k].len > max)
  BY Truncated, Places
<1> HIDE DEF t
<1>2. 1 \in 1..Len(t)
  <2>1. t \in Seq(Values) /\ t # <<>>
    BY <1>1 DEF IsPayload, NoPayload
  <2>2. Len(t) \in Nat /\ Len(t) # 0
    BY <2>1, EmptySeq, LenProperties
  <2> QED
    BY <2>2
<1>3. d[1] \subseteq {"payload_exceeds_max_depth", "invalid_payload_key"}
  BY <1>1, <1>2, NoStringRefused
<1>4. d[1] = {} <=> \A k \in 1..Len(t) : Depth(t)[k] <= deepest /\ (InMap(t, k) => t[k].key \in 1..max)
  <2>1. d[1] = {} <=>
          \A k \in 1..Len(t) : /\ Depth(t)[k] <= deepest
                               /\ InMap(t, k) => t[k].key \in 1..max
                               /\ t[k].kind = "string" => ~(t[k].len > max)
    BY <1>1, NoErrorInside
  <2> HIDE DEF d
  <2> QED
    BY <1>1, <2>1
<1>5. PayloadCount(t)[1] = Cardinality(A) + Cardinality(B)
  BY <1>1, CountTotal
<1>6. PayloadCount(t)[1] \in Nat
  BY <1>1, <1>2, CountsAre
<1>7. errors = IF d[1] # {} THEN d[1]
               ELSE IF PayloadCount(t)[1] > entries THEN {"payload_has_too_many_entries"} ELSE {}
  BY <1>1 DEF validatePayload
<1>8. WithinLimits(t, entries, deepest, max) <=> d[1] = {} /\ Cardinality(A) + Cardinality(B) <= entries
  BY <1>4 DEF WithinLimits
<1>9. WithinLimits(t, entries, deepest, max) <=> WithinLimits(p, entries, deepest, max)
  BY <1>1, SamePlaces
<1> HIDE DEF d, A, B, errors
<1>10. errors = {} <=> WithinLimits(t, entries, deepest, max)
  BY <1>5, <1>6, <1>7, <1>8
<1>11. errors \subseteq {"payload_exceeds_max_depth", "invalid_payload_key", "payload_has_too_many_entries"}
  BY <1>3, <1>7
<1> QED
  BY <1>9, <1>10, <1>11 DEF errors, t

\* The payload of an event that has none.
LEMMA EmptyIsPayload == IsPayload(EmptyPayload) /\ EmptyPayload # NoPayload
<1>1. EmptyPayload \in Seq(Values) /\ Len(EmptyPayload) = 1 /\ EmptyPayload # <<>>
  BY DEF EmptyPayload, Values, Collection
<1>2. EmptyPayload[1].kind = "map" /\ EmptyPayload[1].in = 0
  BY DEF EmptyPayload
<1> QED
  BY <1>1, <1>2 DEF IsPayload, NoPayload

LEMMA ConfiguredLimits ==
  ASSUME NEW v \in Environment, LoadError(v) = Blank
  PROVE  /\ Filled(v).MaxFieldLength \in Nat \ {0}
         /\ Filled(v).MaxPayloadEntries \in Int /\ Filled(v).MaxPayloadDepth \in Int
<1> DEFINE c == Filled(v)
<1>1. outOfRange(c) = Blank
  BY LoadTests
<1>2. \A f \in Field : c[f] \in Int
  BY FilledIs
<1> HIDE DEF c
<1>3. /\ "MaxFieldLength" \in Counts /\ "MaxFieldLength" \in Field
      /\ "MaxPayloadEntries" \in Field /\ "MaxPayloadDepth" \in Field
  BY DEF Counts, Field
<1>4. c["MaxFieldLength"] > 0 /\ c["MaxFieldLength"] \in Int
  BY <1>1, <1>2, <1>3, InRange
<1> QED
  BY <1>2, <1>3, <1>4 DEF c

\* What validatePayload says of an event in the loop.
LEMMA EventJudged ==
  ASSUME NEW e \in Event, NEW r, cfg.MaxFieldLength \in Nat \ {0},
         cfg.MaxPayloadEntries \in Int, cfg.MaxPayloadDepth \in Int
  PROVE  LET errors == validatePayload(ApplyFieldLimits(Enrich(e, r)).payload, cfg.MaxPayloadEntries,
                                       cfg.MaxPayloadDepth, cfg.MaxFieldLength)
         IN  errors \subseteq Refusals /\ (errors = {} <=> Fits(e))
<1> DEFINE p == Normalize(e).payload
<1>1. DOMAIN e = DOMAIN ZeroEvent /\ IsPayload(e.payload)
  BY AdmissionAssumption DEF IsEvent
<1>2. p = IF e.payload = NoPayload THEN EmptyPayload ELSE e.payload
  BY <1>1, EventFields DEF Normalize
<1>3. IsPayload(p) /\ p # NoPayload
  BY <1>1, <1>2, EmptyIsPayload
<1>4. ApplyFieldLimits(Enrich(e, r)).payload = truncatePayload(p, cfg.MaxFieldLength)
  BY EnrichKeeps, LimitsKeep
<1>5. LET errors == validatePayload(truncatePayload(p, cfg.MaxFieldLength), cfg.MaxPayloadEntries,
                                    cfg.MaxPayloadDepth, cfg.MaxFieldLength)
      IN  /\ errors \subseteq {"payload_exceeds_max_depth", "invalid_payload_key",
                               "payload_has_too_many_entries"}
          /\ errors = {} <=> WithinLimits(p, cfg.MaxPayloadEntries, cfg.MaxPayloadDepth,
                                          cfg.MaxFieldLength)
  <2> HIDE DEF p
  <2> QED
    BY <1>3, Judged
<1> QED
  BY <1>4, <1>5 DEF Refusals, Fits

-----------------------------------------------------------------------------
\* Every step keeps the invariant.

LEMMA Initial == Init => Inv
<1> SUFFICES ASSUME Init PROVE Inv
  OBVIOUS
<1>1. /\ env \in Environment /\ phase = "start" /\ enriched = <<>> /\ reply = NoReply
      /\ validTimezoneCache = {}
  BY DEF Init
<1>2. reply.code = Blank /\ reply.detail = Blank
  BY <1>1 DEF NoReply
<1>3. ~Through /\ ~InLoop
  BY <1>1 DEF Through, InLoop
<1>4. Base
  BY <1>1 DEF Base, Phases, Served
<1>5. Checked /\ Stored
  BY <1>1, <1>3 DEF Checked, Stored
<1>6. Loop
  BY <1>1, <1>2, <1>3, CodesNotBlank DEF Loop, Accepted, Reached
<1> QED
  BY <1>4, <1>5, <1>6 DEF Inv

\* A step before the loop, or after the reply, has nothing to show for it.
LEMMA OutOfLoop ==
  ASSUME phase' \in {"exit", "idle", "checks"}, reply' = NoReply
  PROVE  Checked' /\ Stored' /\ Loop'
<1>1. reply'.code = Blank /\ reply'.detail = Blank
  BY DEF NoReply
<1>2. ~Through' /\ ~InLoop' /\ phase' # "replied" /\ phase' # "validate"
  BY DEF Through, InLoop
<1>3. ~Accepted' /\ ~Reached({"origin_not_allowed_for_site"})'
  BY <1>1, CodesNotBlank DEF Accepted, Reached
<1>4. reply'.detail # "invalid_timezone"
  BY <1>1, CodesNotBlank
<1> QED
  BY <1>2, <1>3, <1>4 DEF Checked, Stored, Loop

LEMMA LoadInv ==
  ASSUME Inv, Load
  PROVE  Inv'
<1>1. /\ phase = "start" /\ phase' \in {"idle", "exit"}
      /\ UNCHANGED <<env, enriched, reply, validTimezoneCache>>
      /\ phase' = "idle" => LoadError(env) = Blank /\ cfg' = Filled(env)
  BY DEF Load
<1>2. reply' = NoReply /\ Base'
  BY <1>1 DEF Inv, Base, Served, Phases
<1> QED
  BY <1>1, <1>2, OutOfLoop DEF Inv

LEMMA ReceiveInv ==
  ASSUME Inv, NEW r \in Request, Receive(r)
  PROVE  Inv'
<1>1. /\ phase = "idle" /\ phase' = "checks" /\ request' = r
      /\ UNCHANGED <<env, cfg, enriched, reply, validTimezoneCache>>
  BY DEF Receive
<1>2. reply' = NoReply /\ Base'
  BY <1>1 DEF Inv, Base, Served, Phases
<1> QED
  BY <1>1, <1>2, OutOfLoop DEF Inv

LEMMA ReturnInv ==
  ASSUME Inv, Return
  PROVE  Inv'
<1>1. /\ phase = "replied" /\ phase' = "idle" /\ enriched' = <<>> /\ reply' = NoReply
      /\ UNCHANGED <<env, cfg, validTimezoneCache>>
  BY DEF Return
<1>2. Base'
  BY <1>1 DEF Inv, Base, Served, Phases
<1> QED
  BY <1>1, <1>2, OutOfLoop DEF Inv

LEMMA SameVerdict ==
  ASSUME cfg' = cfg, request' = request
  PROVE  requestError(request)' = requestError(request)
BY DEF requestError, effectiveHost, AllowedDomain

\* The loop changes neither the configuration nor the request.
LEMMA Unmoved ==
  ASSUME cfg' = cfg, request' = request, decoded' = decoded
  PROVE  /\ \A e : fieldError(e)' = fieldError(e)
         /\ \A k : /\ At(k)' = At(k) /\ originAllowedForSite(At(k))' = originAllowedForSite(At(k))
                   /\ Admitted(At(k))' = Admitted(At(k))
                   /\ ApplyFieldLimits(At(k))' = ApplyFieldLimits(At(k))
         /\ Kept' = Kept
<1>1. \A e, r : Enrich(e, r)' = Enrich(e, r)
  BY DEF Enrich, refererHeader, FilledIn
<1>2. \A e : ApplyFieldLimits(e)' = ApplyFieldLimits(e)
  BY DEF ApplyFieldLimits
<1>3. \A e : originAllowedForSite(e)' = originAllowedForSite(e) /\ Admitted(e)' = Admitted(e)
  BY DEF Admitted, originAllowedForSite
<1>4. \A k : At(k)' = At(k)
  BY <1>1 DEF At
<1>5. \A e : fieldError(e)' = fieldError(e)
  BY DEF fieldError, tooLong
<1> QED
  BY <1>1, <1>2, <1>3, <1>4, <1>5 DEF Kept

LEMMA CheckRequestInv ==
  ASSUME Inv, CheckRequest
  PROVE  Inv'
<1>1. /\ phase = "checks" /\ UNCHANGED <<env, cfg, request, enriched, validTimezoneCache>>
      /\ enriched = <<>> /\ reply = NoReply /\ request \in Request
      /\ validTimezoneCache \subseteq Zone
  BY DEF CheckRequest, Inv, Base
<1>2. requestError(request)' = requestError(request)
  BY <1>1, SameVerdict
<1>3. CASE requestError(request) # Blank
  <2>1. phase' = "replied" /\ reply' = [code |-> requestError(request), detail |-> Blank]
    BY <1>3 DEF CheckRequest, Reply
  <2>2. reply'.code = requestError(request) /\ reply'.detail = Blank
    BY <2>1
  <2>3. reply'.code \notin PastChecks
    BY <2>2, requestErrorIs
  <2>4. ~Through' /\ ~InLoop' /\ ~Accepted' /\ ~Reached({"origin_not_allowed_for_site"})'
    BY <2>1, <2>3 DEF Through, InLoop, Accepted, Reached, PastChecks
  <2>5. Base'
    BY <1>1, <2>1 DEF Inv, Base, Served, Phases
  <2>6. Checked' /\ Stored'
    BY <1>2, <2>2, <2>4 DEF Checked, Stored
  <2>7. reply'.detail # "invalid_timezone" /\ phase' # "validate"
    BY <2>1, <2>2, CodesNotBlank
  <2>8. Loop'
    BY <2>4, <2>7 DEF Loop
  <2> QED
    BY <2>5, <2>6, <2>8 DEF Inv
<1>4. CASE requestError(request) = Blank
  <2> DEFINE sent == DecodeBatch(request.body)
  <2>1. phase' = "enrich" /\ batch' = sent /\ decoded' = sent /\ reply' = NoReply
    BY <1>1, <1>4 DEF CheckRequest
  <2>2. sent \in Seq(Event) /\ Len(sent) \in Nat
    BY <1>1, DecodedEvents, LenProperties
  <2>3. DecodeBatch(request.body)' = sent
    BY <1>1 DEF DecodeBatch, ZeroEvent
  <2> HIDE DEF sent
  <2>4. reply'.code = Blank /\ reply'.detail = Blank
    BY <2>1 DEF NoReply
  <2>5. ~Accepted' /\ ~Reached({"origin_not_allowed_for_site"})' /\ InLoop'
        /\ phase' # "replied" /\ phase' # "validate" /\ reply'.detail # "invalid_timezone"
    BY <2>1, <2>4, CodesNotBlank DEF Accepted, Reached, InLoop
  <2>6. Base'
    BY <1>1, <2>1 DEF Inv, Base, Served, Phases
  <2>7. Checked'
    BY <1>2, <1>4, <2>1, <2>3, <2>5 DEF Checked
  <2>8. enriched' = <<>> /\ Len(enriched') = 0 /\ enriched' \in Seq(Kept')
    BY <1>1
  <2>9. Stored'
    <3>1. Len(enriched') <= Len(decoded') /\ \A k \in 1..Len(enriched') : FALSE
      BY <2>1, <2>2, <2>8
    <3> QED
      BY <2>8, <3>1 DEF Stored
  <2>10. Loop'
    <3>1. Len(decoded') = Len(enriched') + Len(batch') + 0
      BY <2>1, <2>2, <2>8
    <3>2. \A k \in 1..Len(batch') : batch'[k] = decoded'[(Len(decoded') - Len(batch')) + k]
      BY <2>1, <2>2
    <3> QED
      BY <2>1, <2>2, <2>5, <3>1, <3>2 DEF Loop
  <2> QED
    BY <2>6, <2>7, <2>9, <2>10 DEF Inv
<1> QED
  BY <1>3, <1>4

\* The loop is left with a reply.
LEMMA LoopReply ==
  ASSUME Inv, InLoop, NEW code \in PastChecks, NEW detail, Reply(code, detail),
         UNCHANGED <<env, cfg, request, enriched, decoded>>, validTimezoneCache' \subseteq Zone,
         code = "ok" => Len(enriched) = Len(decoded),
         code = "origin_not_allowed_for_site" =>
           Len(enriched) < Len(decoded) /\ ~originAllowedForSite(At(Len(enriched) + 1)),
         detail = "invalid_timezone" =>
           Len(enriched) < Len(decoded) /\ decoded[Len(enriched) + 1].zone \notin Zone
  PROVE  Inv'
<1>1. /\ phase' = "replied" /\ reply' = [code |-> code, detail |-> detail]
  BY DEF Reply
<1>2. reply'.code = code /\ reply'.detail = detail
  BY <1>1
<1>3. Through /\ Through' /\ ~InLoop' /\ Served
  BY <1>1, <1>2 DEF Through, InLoop, Served
<1>4. Base'
  BY <1>1, <1>3 DEF Inv, Base, Served, Phases, InLoop
<1>5. Checked'
  <2>1. requestError(request)' = requestError(request)
    BY SameVerdict
  <2>2. DecodeBatch(request.body)' = DecodeBatch(request.body)
    BY DEF DecodeBatch, ZeroEvent
  <2> QED
    BY <1>2, <1>3, <2>1, <2>2 DEF Inv, Checked
<1>6. Stored'
  BY <1>3, Unmoved DEF Inv, Stored
<1>7. Loop'
  <2>1. originAllowedForSite(At(Len(enriched) + 1))' = originAllowedForSite(At(Len(enriched) + 1))
    BY Unmoved DEF originAllowedForSite
  <2> QED
    BY <1>1, <1>2, <1>3, <2>1 DEF Loop, Accepted, Reached
<1> QED
  BY <1>4, <1>5, <1>6, <1>7 DEF Inv

LEMMA AcceptInv ==
  ASSUME Inv, Accept
  PROVE  Inv'
<1>1. /\ phase = "enrich" /\ batch = <<>> /\ Reply("ok", Blank)
      /\ UNCHANGED <<env, cfg, request, enriched, validTimezoneCache, decoded>>
  BY DEF Accept
<1>2. InLoop /\ Through /\ "ok" \in PastChecks
  BY <1>1 DEF InLoop, Through, PastChecks
<1>3. Len(enriched) = Len(decoded)
  <2>1. Len(decoded) = Len(enriched) + Len(batch) + 0
    BY <1>1, <1>2 DEF Inv, Loop
  <2>2. Len(enriched) \in Nat /\ Len(batch) = 0
    BY <1>1, <1>2, LenProperties DEF Inv, Stored
  <2> QED
    BY <2>1, <2>2
<1>4. validTimezoneCache' \subseteq Zone
  BY <1>1 DEF Inv, Base
<1>5. Blank # "invalid_timezone"
  BY CodesNotBlank
<1> QED
  BY <1>1, <1>2, <1>3, <1>4, <1>5, LoopReply

LEMMA InTheLoop ==
  ASSUME Inv, InLoop
  PROVE  /\ Through /\ Served /\ env \in Environment /\ cfg = Filled(env)
         /\ request \in Request /\ decoded \in Seq(Event) /\ batch \in Seq(Event)
         /\ enriched \in Seq(Kept)
         /\ Len(decoded) \in Nat /\ Len(batch) \in Nat /\ Len(enriched) \in Nat
<1>1. Through /\ Served
  BY DEF Through, InLoop, Served
<1>2. env \in Environment /\ cfg = Filled(env) /\ request \in Request
  BY <1>1 DEF Inv, Base, InLoop
<1>3. decoded \in Seq(Event) /\ batch \in Seq(Event) /\ enriched \in Seq(Kept)
  BY <1>1, <1>2, DecodedEvents DEF Inv, Checked, Stored, Loop
<1>4. Len(decoded) \in Nat /\ Len(batch) \in Nat /\ Len(enriched) \in Nat
  BY <1>3, LenProperties
<1> QED
  BY <1>1, <1>2, <1>3, <1>4

LEMMA EnrichEventInv ==
  ASSUME Inv, EnrichEvent
  PROVE  Inv'
<1> DEFINE e == Enrich(Head(batch), request)
<1> DEFINE a == When(~originAllowedForSite(e), "origin_not_allowed_for_site")
<1> DEFINE b == When(cfg.RequireURLHostMatch /\ ~urlMatchesOrigin(e.url, e.origin),
                     "url_host_mismatch")
<1> DEFINE error == First(<<a, b>>)
<1> DEFINE n == Len(enriched) + 1
<1>1. /\ phase = "enrich" /\ batch # <<>>
      /\ UNCHANGED <<env, cfg, request, enriched, validTimezoneCache, decoded>>
      /\ \/ error # Blank /\ Reply(error, Blank)
         \/ /\ error = Blank /\ phase' = "validate"
            /\ event' = e /\ batch' = Tail(batch) /\ UNCHANGED reply
  BY DEF EnrichEvent
<1>2. InLoop
  BY <1>1 DEF InLoop
<1>3. /\ Through /\ Served /\ decoded \in Seq(Event) /\ batch \in Seq(Event)
      /\ Len(decoded) \in Nat /\ Len(batch) \in Nat /\ Len(enriched) \in Nat
  BY <1>2, InTheLoop
<1>4. Len(batch) > 0 /\ Len(decoded) = Len(enriched) + Len(batch)
  <2>1. Len(batch) > 0
    BY <1>1, <1>3, EmptySeq
  <2>2. Len(decoded) = Len(enriched) + Len(batch) + 0
    BY <1>1, <1>2 DEF Inv, Loop
  <2> QED
    BY <1>3, <2>1, <2>2
<1>5. e = At(n)
  <2>1. 1 \in 1..Len(batch) /\ (Len(decoded) - Len(batch)) + 1 = n
    BY <1>3, <1>4
  <2>2. batch[1] = decoded[n]
    BY <1>2, <2>1 DEF Inv, Loop
  <2> QED
    BY <1>1, <1>3, <2>2 DEF At
<1>6. validTimezoneCache' \subseteq Zone
  BY <1>1 DEF Inv, Base
<1>7. /\ a \in {Blank, "origin_not_allowed_for_site"} /\ b \in {Blank, "url_host_mismatch"}
      /\ a = Blank /\ b = Blank => Admitted(e)
      /\ a = "origin_not_allowed_for_site" => ~originAllowedForSite(e)
  BY CodesNotBlank DEF When, Admitted
<1> HIDE DEF a, b, e
<1>8. (error = Blank <=> a = Blank /\ b = Blank) /\ error \in {a, b}
  BY FirstOf2
<1> HIDE DEF error
<1>9. error # Blank => Inv'
  <2> SUFFICES ASSUME error # Blank PROVE Inv'
    OBVIOUS
  <2>1. Reply(error, Blank) /\ error \in {"origin_not_allowed_for_site", "url_host_mismatch"}
    BY <1>1, <1>7, <1>8
  <2>2. error \in PastChecks /\ error # "ok"
    BY <2>1 DEF PastChecks
  <2>3. error = "origin_not_allowed_for_site" =>
          Len(enriched) < Len(decoded) /\ ~originAllowedForSite(At(Len(enriched) + 1))
    BY <1>3, <1>4, <1>5, <1>7, <1>8
  <2>4. Blank # "invalid_timezone"
    BY CodesNotBlank
  <2> QED
    BY <1>1, <1>2, <1>6, <2>1, <2>2, <2>3, <2>4, LoopReply
<1>10. error = Blank => Inv'
  <2> SUFFICES ASSUME error = Blank PROVE Inv'
    OBVIOUS
  <2>1. phase' = "validate" /\ event' = e /\ batch' = Tail(batch) /\ reply' = reply
    BY <1>1
  <2>2. reply = NoReply /\ reply'.code = Blank /\ reply'.detail = Blank
    BY <1>1, <2>1 DEF Inv, Base, NoReply
  <2>3. Through' /\ InLoop' /\ phase' # "replied"
    BY <2>1 DEF Through, InLoop
  <2>4. ~Accepted' /\ ~Reached({"origin_not_allowed_for_site"})' /\ reply'.detail # "invalid_timezone"
    BY <2>2, CodesNotBlank DEF Accepted, Reached
  <2>5. Base'
    BY <1>1, <1>6, <2>1, <2>2 DEF Inv, Base, Served, Phases
  <2>6. Checked'
    <3>1. requestError(request)' = requestError(request)
      BY <1>1, SameVerdict
    <3>2. DecodeBatch(request.body)' = DecodeBatch(request.body)
      BY <1>1 DEF DecodeBatch, ZeroEvent
    <3> QED
      BY <1>1, <1>3, <2>3, <3>1, <3>2 DEF Inv, Checked
  <2>7. Stored'
    <3>1. /\ \A x : fieldError(x)' = fieldError(x)
          /\ \A k : /\ At(k)' = At(k) /\ Admitted(At(k))' = Admitted(At(k))
                    /\ ApplyFieldLimits(At(k))' = ApplyFieldLimits(At(k))
          /\ Kept' = Kept
      BY <1>1, Unmoved
    <3> QED
      BY <1>1, <1>3, <2>3, <3>1 DEF Inv, Stored
  <2>8. Loop'
    <3>1. batch' \in Seq(Event) /\ Len(batch') = Len(batch) - 1
          /\ \A k \in 1..Len(batch') : batch'[k] = batch[k + 1]
      BY <1>1, <1>3, <2>1, HeadTailProperties
    <3>2. Len(decoded') = Len(enriched') + Len(batch') + 1
      BY <1>1, <1>3, <1>4, <3>1
    <3>3. ASSUME NEW k \in 1..Len(batch')
          PROVE  batch'[k] = decoded'[(Len(decoded') - Len(batch')) + k]
      <4>1. k + 1 \in 1..Len(batch)
            /\ (Len(decoded') - Len(batch')) + k = (Len(decoded) - Len(batch)) + (k + 1)
        BY <1>1, <1>3, <1>4, <3>1
      <4>2. batch[k + 1] = decoded[(Len(decoded) - Len(batch)) + (k + 1)]
        BY <1>2, <4>1 DEF Inv, Loop
      <4> QED
        BY <1>1, <3>1, <4>1, <4>2
    <3>4. At(n)' = At(n) /\ Admitted(At(n))' = Admitted(At(n))
      BY <1>1, Unmoved
    <3>5. event' = At(Len(enriched) + 1)' /\ Admitted(event)'
      <4>1. Admitted(At(n))
        BY <1>5, <1>7, <1>8
      <4>2. event' = At(n)'
        BY <1>5, <2>1, <3>4
      <4>3. Len(enriched') = Len(enriched)
        BY <1>1
      <4> QED
        BY <1>5, <3>4, <4>1, <4>2, <4>3
    <3> QED
      BY <2>1, <2>3, <2>4, <3>1, <3>2, <3>3, <3>5 DEF Loop
  <2> QED
    BY <2>5, <2>6, <2>7, <2>8 DEF Inv
<1> QED
  BY <1>9, <1>10

LEMMA ValidateEventInv ==
  ASSUME Inv, ValidateEvent
  PROVE  Inv'
<1> DEFINE e == ApplyFieldLimits(event)
<1> DEFINE n == Len(enriched) + 1
<1>1. /\ phase = "validate" /\ UNCHANGED <<env, cfg, request, decoded>>
      /\ validTimezoneCache' =
           validTimezoneCache \cup (IF fieldError(e) = Blank THEN stored(e.zone) ELSE {})
      /\ \/ /\ Validate(e) = {} /\ enriched' = Append(enriched, e)
            /\ phase' = "enrich" /\ event' = ZeroEvent /\ UNCHANGED <<batch, reply>>
         \/ \E error \in Validate(e) : Reply("invalid_event", error) /\ UNCHANGED enriched
  BY DEF ValidateEvent
<1>2. InLoop /\ reply = NoReply /\ validTimezoneCache \subseteq Zone
  BY <1>1 DEF InLoop, Inv, Base
<1>3. /\ Through /\ Served /\ env \in Environment /\ cfg = Filled(env)
      /\ decoded \in Seq(Event) /\ batch \in Seq(Event) /\ enriched \in Seq(Kept)
      /\ Len(decoded) \in Nat /\ Len(batch) \in Nat /\ Len(enriched) \in Nat
  BY <1>2, InTheLoop
<1>4. Len(decoded) = Len(enriched) + Len(batch) + 1
  BY <1>1, <1>2 DEF Inv, Loop
<1>5. n \in 1..Len(decoded) /\ Len(enriched) < Len(decoded) /\ decoded[n] \in Event
  BY <1>3, <1>4
<1>6. event = At(n) /\ Admitted(At(n)) /\ e = ApplyFieldLimits(At(n)) /\ e \in Kept
  <2>1. event = At(Len(enriched) + 1) /\ Admitted(event)
    BY <1>1 DEF Inv, Loop
  <2> QED
    BY <1>5, <2>1 DEF Kept
<1>7. validTimezoneCache' \subseteq Zone
  BY <1>1, <1>2 DEF stored
<1>8. e.zone = decoded[n].zone
      /\ e.payload = truncatePayload(Normalize(decoded[n]).payload, cfg.MaxFieldLength)
  <2>1. /\ DOMAIN At(n) = DOMAIN ZeroEvent /\ At(n).zone = decoded[n].zone
        /\ At(n).payload = Normalize(decoded[n]).payload
    BY <1>5, EnrichKeeps DEF At
  <2> QED
    BY <1>6, <2>1, LimitsKeep
<1>9. "invalid_timezone" \notin validatePayload(e.payload, cfg.MaxPayloadEntries,
                                                 cfg.MaxPayloadDepth, cfg.MaxFieldLength)
  <2>1. LoadError(env) = Blank
    BY <1>3 DEF Inv, Base
  <2>2. /\ cfg.MaxFieldLength \in Nat \ {0}
        /\ cfg.MaxPayloadEntries \in Int /\ cfg.MaxPayloadDepth \in Int
    BY <1>3, <2>1, ConfiguredLimits
  <2>3. validatePayload(e.payload, cfg.MaxPayloadEntries, cfg.MaxPayloadDepth, cfg.MaxFieldLength)
          \subseteq Refusals
    BY <1>5, <1>6, <2>2, EventJudged DEF At
  <2> QED
    BY <2>3 DEF Refusals
<1> HIDE DEF e
<1>10. /\ Validate(e) = {} => fieldError(e) = Blank /\ e.zone \in Zone \cup {Blank}
       /\ "invalid_timezone" \in Validate(e) => e.zone \notin Zone
  BY <1>2, <1>9, ValidateIs
<1>11. ASSUME NEW error \in Validate(e), Reply("invalid_event", error), UNCHANGED enriched
       PROVE  Inv'
  <2>1. "invalid_event" \in PastChecks /\ "invalid_event" # "ok"
        /\ "invalid_event" # "origin_not_allowed_for_site"
    BY DEF PastChecks
  <2>2. error = "invalid_timezone" =>
          Len(enriched) < Len(decoded) /\ decoded[Len(enriched) + 1].zone \notin Zone
    BY <1>5, <1>8, <1>10
  <2> QED
    BY <1>1, <1>2, <1>7, <1>11, <2>1, <2>2, LoopReply
<1>12. ASSUME Validate(e) = {}, enriched' = Append(enriched, e), phase' = "enrich",
              UNCHANGED <<batch, reply>>
       PROVE  Inv'
  <2>1. reply' = NoReply /\ reply'.code = Blank /\ reply'.detail = Blank
    BY <1>2, <1>12 DEF NoReply
  <2>2. Through' /\ InLoop' /\ phase' # "replied" /\ phase' # "validate"
    BY <1>12 DEF Through, InLoop
  <2>3. ~Accepted' /\ ~Reached({"origin_not_allowed_for_site"})' /\ reply'.detail # "invalid_timezone"
    BY <2>1, CodesNotBlank DEF Accepted, Reached
  <2>4. Base'
    BY <1>1, <1>7, <1>12, <2>1 DEF Inv, Base, Served, Phases
  <2>5. Checked'
    <3>1. requestError(request)' = requestError(request)
      BY <1>1, SameVerdict
    <3>2. DecodeBatch(request.body)' = DecodeBatch(request.body)
      BY <1>1 DEF DecodeBatch, ZeroEvent
    <3> QED
      BY <1>1, <1>3, <2>2, <3>1, <3>2 DEF Inv, Checked
  <2>6. /\ enriched' \in Seq(Kept) /\ Len(enriched') = n /\ enriched'[n] = e
        /\ \A k \in 1..Len(enriched) : enriched'[k] = enriched[k]
    BY <1>3, <1>6, <1>12, AppendProperties
  <2>7. Stored'
    <3>1. /\ \A x : fieldError(x)' = fieldError(x)
          /\ \A k : /\ At(k)' = At(k) /\ Admitted(At(k))' = Admitted(At(k))
                    /\ ApplyFieldLimits(At(k))' = ApplyFieldLimits(At(k))
          /\ Kept' = Kept
      BY <1>1, Unmoved
    <3>2. ASSUME NEW k \in 1..Len(enriched')
          PROVE  /\ enriched'[k] = ApplyFieldLimits(At(k)) /\ Admitted(At(k))
                 /\ fieldError(enriched'[k]) = Blank /\ decoded[k].zone \in Zone \cup {Blank}
      <4>1. k \in 1..Len(enriched) \/ k = n
        BY <1>3, <2>6
      <4>2. k \in 1..Len(enriched) =>
              /\ enriched'[k] = ApplyFieldLimits(At(k)) /\ Admitted(At(k))
              /\ fieldError(enriched'[k]) = Blank /\ decoded[k].zone \in Zone \cup {Blank}
        BY <1>3, <2>6 DEF Inv, Stored
      <4>3. k = n =>
              /\ enriched'[k] = ApplyFieldLimits(At(k)) /\ Admitted(At(k))
              /\ fieldError(enriched'[k]) = Blank /\ decoded[k].zone \in Zone \cup {Blank}
        BY <1>6, <1>8, <1>10, <1>12, <2>6
      <4> QED
        BY <4>1, <4>2, <4>3
    <3>3. Len(enriched') <= Len(decoded')
      BY <1>1, <1>5, <2>6
    <3> QED
      BY <1>1, <2>6, <3>1, <3>2, <3>3 DEF Stored
  <2>8. Loop'
    <3>1. Len(decoded') = Len(enriched') + Len(batch') + 0
      BY <1>1, <1>3, <1>4, <1>12, <2>6
    <3>2. \A k \in 1..Len(batch') : batch'[k] = decoded'[(Len(decoded') - Len(batch')) + k]
      BY <1>1, <1>2, <1>12 DEF Inv, Loop
    <3> QED
      BY <1>3, <1>12, <2>2, <2>3, <3>1, <3>2 DEF Loop
  <2> QED
    BY <2>4, <2>5, <2>7, <2>8 DEF Inv
<1> QED
  BY <1>1, <1>11, <1>12 DEF e

LEMMA Preserves ==
  ASSUME Inv, [Next]_vars
  PROVE  Inv'
<1>1. CASE UNCHANGED vars
  <2>1. /\ env' = env /\ cfg' = cfg /\ phase' = phase /\ request' = request /\ batch' = batch
        /\ event' = event /\ enriched' = enriched /\ reply' = reply
        /\ validTimezoneCache' = validTimezoneCache /\ decoded' = decoded
    BY <1>1 DEF vars
  <2>2. requestError(request)' = requestError(request)
    BY <2>1, SameVerdict
  <2>3. DecodeBatch(request.body)' = DecodeBatch(request.body)
    BY <2>1 DEF DecodeBatch, ZeroEvent
  <2>4. /\ \A x : fieldError(x)' = fieldError(x)
        /\ \A k : /\ At(k)' = At(k) /\ originAllowedForSite(At(k))' = originAllowedForSite(At(k))
                  /\ Admitted(At(k))' = Admitted(At(k))
                  /\ ApplyFieldLimits(At(k))' = ApplyFieldLimits(At(k))
        /\ Kept' = Kept
    BY <2>1, Unmoved
  <2>5. Base'
    BY <2>1 DEF Inv, Base, Served
  <2>6. Through' = Through /\ InLoop' = InLoop
    BY <2>1 DEF Through, InLoop
  <2>7. Checked'
    BY <2>1, <2>2, <2>3, <2>6 DEF Inv, Checked
  <2>8. Stored'
    BY <2>1, <2>4, <2>6 DEF Inv, Stored
  <2>9. Loop'
    <3>1. phase = "validate" => Admitted(event)'
      BY <2>1 DEF Inv, Loop, Admitted, originAllowedForSite
    <3> QED
      BY <2>1, <2>4, <2>6, <3>1 DEF Inv, Loop, Accepted, Reached
  <2> QED
    BY <2>5, <2>7, <2>8, <2>9 DEF Inv
<1> QED
  BY <1>1, LoadInv, ReceiveInv, CheckRequestInv, EnrichEventInv, ValidateEventInv, AcceptInv,
     ReturnInv DEF Next

LEMMA Invariant == Spec => []Inv
BY Initial, Preserves, PTL DEF Spec

-----------------------------------------------------------------------------
\* The theorems.

\* A reply comes from a handler that has read its request.
LEMMA Replied ==
  ASSUME Inv, reply.code # Blank
  PROVE  /\ phase = "replied" /\ Served /\ env \in Environment /\ cfg = Filled(env)
         /\ request \in Request
         /\ reply.code \in PastChecks =>
              /\ Through /\ requestError(request) = Blank /\ decoded = DecodeBatch(request.body)
              /\ decoded \in Seq(Event) /\ Len(decoded) \in Nat /\ Len(enriched) \in Nat
              /\ Len(enriched) <= Len(decoded)
<1>1. phase = "replied"
  BY DEF Inv, Base, NoReply
<1>2. Served /\ env \in Environment /\ cfg = Filled(env) /\ request \in Request
  BY <1>1 DEF Inv, Base, Served
<1>3. ASSUME reply.code \in PastChecks
      PROVE  /\ Through /\ requestError(request) = Blank /\ decoded = DecodeBatch(request.body)
             /\ decoded \in Seq(Event) /\ Len(decoded) \in Nat /\ Len(enriched) \in Nat
             /\ Len(enriched) <= Len(decoded)
  <2>1. Through
    BY <1>1, <1>3 DEF Through
  <2>2. requestError(request) = Blank /\ decoded = DecodeBatch(request.body)
    BY <2>1 DEF Inv, Checked
  <2>3. enriched \in Seq(Kept) /\ Len(enriched) <= Len(decoded)
    BY <2>1 DEF Inv, Stored
  <2>4. decoded \in Seq(Event)
    BY <1>2, <2>2, DecodedEvents
  <2>5. Len(decoded) \in Nat /\ Len(enriched) \in Nat
    BY <2>3, <2>4, LenProperties
  <2> QED
    BY <2>1, <2>2, <2>3, <2>4, <2>5
<1> QED
  BY <1>1, <1>2, <1>3

LEMMA SettingIs ==
  ASSUME env \in Environment, cfg = Filled(env), NEW f \in Field \cup Flags
  PROVE  Setting(f) = cfg[f]
BY FilledIs DEF Setting

\* Load lets no process serve with a configuration that the other components
\* cannot run with.
THEOREM ConfigIsSound == Spec => []ConfigSound
<1>1. ASSUME Inv PROVE ConfigSound
  <2> SUFFICES ASSUME Served PROVE ConfigSound
    BY DEF ConfigSound
  <2>1. env \in Environment /\ LoadError(env) = Blank /\ cfg = Filled(env)
    BY <1>1 DEF Inv, Base
  <2>2. /\ siteOriginsError(env.sites) = Blank /\ outOfRange(cfg) = Blank
        /\ cfg.AllowedDomainSet # {} /\ cfg.DropPolicy \in {"reject", "drop_newest"}
    BY <2>1, LoadTests
  <2>3. /\ cfg.AllowedDomainSet = parseDomains(env.domains)
        /\ cfg.SiteOriginSet = parseSiteOrigins(env.sites)
        /\ \A f \in Field : cfg[f] \in Int
        /\ \A f \in Flags : cfg[f] \in BOOLEAN
    BY <2>1, FilledIs
  <2>4. /\ \A f \in Counts \cup Durations : cfg[f] > 0
        /\ \A f \in ZeroCounts : cfg[f] >= 0
        /\ cfg.RetryMinBackoff <= cfg.RetryMaxBackoff
    BY <2>2, <2>3, InRange
  <2>5. \A s \in DOMAIN cfg.SiteOriginSet :
          s # Blank /\ cfg.SiteOriginSet[s] # {} /\ Blank \notin cfg.SiteOriginSet[s]
    BY <2>1, <2>2, <2>3, SiteSets
  <2>6. Blank \notin cfg.AllowedDomainSet
    BY <2>3 DEF parseDomains
  <2> QED
    BY <2>2, <2>3, <2>4, <2>5, <2>6 DEF ConfigSound
<1> QED
  BY <1>1, Invariant, PTL

\* Whether the check of the domain is passed depends on nothing but the host that
\* the request names and the domains that are listed.
THEOREM DomainsDecided == Spec => []DomainDecision
<1>1. ASSUME Inv PROVE DomainDecision
  <2> DEFINE host == IF Setting("TrustProxyHeaders") /\ request.forwarded # Empty
                     THEN request.forwarded ELSE request.host
  <2> DEFINE listed == Host(host) \in Hosts(env.domains)
  <2>1. reply.code # Blank => (AllowedDomain(normalizeDomain(effectiveHost(request))) <=> listed)
    <3> SUFFICES ASSUME reply.code # Blank
                 PROVE  AllowedDomain(normalizeDomain(effectiveHost(request))) <=> listed
      OBVIOUS
    <3>1. env \in Environment /\ cfg = Filled(env) /\ request \in Request
      BY <1>1, Replied
    <3>2. cfg.AllowedDomainSet = parseDomains(env.domains)
      BY <3>1, FilledIs
    <3>3. "TrustProxyHeaders" \in Field \cup Flags
      BY DEF Flags
    <3>4. Setting("TrustProxyHeaders") = cfg["TrustProxyHeaders"]
      BY <3>1, <3>3, SettingIs
    <3>5. host = effectiveHost(request)
      BY <3>4 DEF effectiveHost
    <3>6. NotAsked(env.domains, request.host) /\ NotAsked(env.domains, request.forwarded)
      BY <3>1, AdmissionAssumption
    <3>7. NotAsked(env.domains, host)
      BY <3>6
    <3> HIDE DEF host
    <3>8. normalizeDomain(host) \in parseDomains(env.domains) <=> Host(host) \in Hosts(env.domains)
      BY <3>7, SameHosts
    <3> QED
      BY <3>2, <3>5, <3>8 DEF AllowedDomain
  <2> HIDE DEF listed
  <2>2. Reached(PastChecks) => listed
    <3>1. Reached(PastChecks) => reply.code # Blank /\ requestError(request) = Blank
      BY <1>1, Replied, CodesNotBlank DEF Reached, PastChecks
    <3> QED
      BY <2>1, <3>1, requestErrorIs
  <2>3. Reached({"domain_not_allowed"}) => ~listed
    <3>1. Reached({"domain_not_allowed"}) =>
            reply.code # Blank /\ requestError(request) = "domain_not_allowed"
      <4> SUFFICES ASSUME reply.code = "domain_not_allowed"
                   PROVE  reply.code # Blank /\ requestError(request) = "domain_not_allowed"
        BY DEF Reached
      <4>1. reply.code # Blank /\ reply.code \notin PastChecks
        BY CodesNotBlank DEF PastChecks
      <4> QED
        BY <1>1, <4>1, Replied DEF Inv, Checked
    <3> QED
      BY <2>1, <3>1, requestErrorIs
  <2> QED
    BY <2>2, <2>3 DEF DomainDecision, PastChecks, listed, host
<1> QED
  BY <1>1, Invariant, PTL

\* The site of an event is bound to the origins that the environment lists for it
\* last, and to no others.
LEMMA SiteBound ==
  ASSUME env \in Environment, cfg = Filled(env), request \in Request, env.sites # <<>>,
         NEW e, e.origin = request.origin
  PROVE  LET of == {k \in 1..Len(env.sites) : env.sites[k].site = e.site}
         IN  originAllowedForSite(e) <=>
               /\ of # {}
               /\ Host(request.origin) \in Hosts(env.sites[Max(of)].origins)
<1> DEFINE n == Len(env.sites)
<1> DEFINE of == {k \in 1..n : env.sites[k].site = e.site}
<1>1. cfg.SiteOriginSet = parseSiteOrigins(env.sites)
  BY FilledIs
<1>2. n \in Nat /\ n > 0
  <2>1. env.sites \in Seq([colon : BOOLEAN, site : STRING, origins : Seq(Addresses)])
    BY AdmissionAssumption DEF IsEnvironment
  <2> QED
    BY <2>1, EmptySeq, LenProperties
<1>3. DOMAIN cfg.SiteOriginSet = {env.sites[k].site : k \in 1..n}
  BY <1>1 DEF parseSiteOrigins
<1>4. DOMAIN cfg.SiteOriginSet # {}
  <2>1. 1 \in 1..n
    BY <1>2
  <2> QED
    BY <1>3, <2>1
<1>5. e.site \in DOMAIN cfg.SiteOriginSet <=> of # {}
  BY <1>3
<1>6. ASSUME of # {}
      PROVE  normalizeDomain(e.origin) \in cfg.SiteOriginSet[e.site]
               <=> Host(request.origin) \in Hosts(env.sites[Max(of)].origins)
  <2>1. cfg.SiteOriginSet[e.site] = parseDomains(env.sites[Max(of)].origins)
    BY <1>1, <1>3, <1>5, <1>6 DEF parseSiteOrigins
  <2>2. of \subseteq 0..n
    BY <1>2
  <2>3. Max(of) \in of
    BY <1>2, <1>6, <2>2, GreatestOf
  <2>4. Max(of) \in 1..n
    BY <2>3
  <2>5. NotAsked(env.sites[Max(of)].origins, request.origin)
    BY <2>4, AdmissionAssumption
  <2> QED
    BY <2>1, <2>5, SameHosts
<1> QED
  BY <1>4, <1>5, <1>6 DEF originAllowedForSite

\* The events of a request are checked one by one against the sites that the
\* environment maps, and a refused request holds one that is not bound.
THEOREM SitesBound == Spec => []SiteBinding
<1>1. ASSUME Inv PROVE SiteBinding
  <2> DEFINE of(s) == {k \in 1..Len(env.sites) : env.sites[k].site = s}
  <2> DEFINE bound(e) == /\ of(e.site) # {}
                         /\ Host(request.origin) \in Hosts(env.sites[Max(of(e.site))].origins)
  <2> SUFFICES ASSUME env.sites # <<>>
               PROVE  /\ Accepted => \A k \in 1..Len(decoded) : bound(decoded[k])
                      /\ Reached({"origin_not_allowed_for_site"}) =>
                           \E k \in 1..Len(decoded) : ~bound(decoded[k])
    BY DEF SiteBinding
  <2>1. ASSUME reply.code # Blank, reply.code \in PastChecks, NEW k \in 1..Len(decoded)
        PROVE  originAllowedForSite(At(k)) <=> bound(decoded[k])
    <3>1. env \in Environment /\ cfg = Filled(env) /\ request \in Request /\ decoded \in Seq(Event)
      BY <1>1, <2>1, Replied
    <3>2. decoded[k] \in Event
      BY <3>1
    <3>3. At(k).origin = request.origin /\ At(k).site = decoded[k].site
      BY <3>2, EnrichKeeps DEF At
    <3>4. originAllowedForSite(At(k)) <=>
            /\ of(At(k).site) # {}
            /\ Host(request.origin) \in Hosts(env.sites[Max(of(At(k).site))].origins)
      BY <3>1, <3>3, SiteBound
    <3> QED
      BY <3>3, <3>4
  <2> HIDE DEF bound
  <2>2. Accepted => \A k \in 1..Len(decoded) : bound(decoded[k])
    <3> SUFFICES ASSUME Accepted, NEW k \in 1..Len(decoded) PROVE bound(decoded[k])
      OBVIOUS
    <3>1. reply.code # Blank /\ reply.code \in PastChecks
      BY CodesNotBlank DEF Accepted, PastChecks
    <3>2. Through /\ Len(enriched) = Len(decoded)
      BY <1>1, <3>1, Replied DEF Inv, Loop
    <3>3. originAllowedForSite(At(k))
      BY <1>1, <3>2 DEF Inv, Stored, Admitted
    <3> QED
      BY <2>1, <3>1, <3>3
  <2>3. Reached({"origin_not_allowed_for_site"}) => \E k \in 1..Len(decoded) : ~bound(decoded[k])
    <3> SUFFICES ASSUME Reached({"origin_not_allowed_for_site"})
                 PROVE  \E k \in 1..Len(decoded) : ~bound(decoded[k])
      OBVIOUS
    <3>1. reply.code # Blank /\ reply.code \in PastChecks
      BY CodesNotBlank DEF Reached, PastChecks
    <3>2. Len(enriched) < Len(decoded) /\ ~originAllowedForSite(At(Len(enriched) + 1))
      BY <1>1 DEF Inv, Loop
    <3>3. Len(enriched) + 1 \in 1..Len(decoded)
      BY <1>1, <3>1, <3>2, Replied
    <3> QED
      BY <2>1, <3>1, <3>2, <3>3
  <2> QED
    BY <2>2, <2>3
<1> QED
  BY <1>1, Invariant, PTL

LEMMA LimitPositive ==
  ASSUME Inv, Served
  PROVE  cfg.MaxFieldLength \in Nat \ {0}
BY ConfiguredLimits DEF Inv, Base

\* Every event of an accepted request is stored, as the loop made it.
LEMMA StoredAs ==
  ASSUME Inv, Accepted
  PROVE  /\ env \in Environment /\ cfg = Filled(env) /\ request \in Request
         /\ requestError(request) = Blank /\ decoded = DecodeBatch(request.body)
         /\ Len(enriched) = Len(decoded) /\ Len(decoded) \in Nat /\ cfg.MaxFieldLength \in Nat
         /\ \A k \in 1..Len(decoded) :
              /\ decoded[k] \in Event /\ enriched[k] = ApplyFieldLimits(At(k)) /\ Admitted(At(k))
              /\ DOMAIN At(k) = DOMAIN ZeroEvent
              /\ fieldError(enriched[k]) = Blank /\ decoded[k].zone \in Zone \cup {Blank}
<1>1. reply.code # Blank /\ reply.code \in PastChecks
  BY CodesNotBlank DEF Accepted, PastChecks
<1>2. /\ Through /\ Served /\ env \in Environment /\ cfg = Filled(env) /\ request \in Request
      /\ requestError(request) = Blank /\ decoded = DecodeBatch(request.body)
      /\ decoded \in Seq(Event) /\ Len(decoded) \in Nat
  BY <1>1, Replied
<1>3. Len(enriched) = Len(decoded)
  BY DEF Inv, Loop
<1>4. cfg.MaxFieldLength \in Nat
  BY <1>2, LimitPositive
<1>5. ASSUME NEW k \in 1..Len(decoded)
      PROVE  /\ decoded[k] \in Event /\ enriched[k] = ApplyFieldLimits(At(k)) /\ Admitted(At(k))
             /\ DOMAIN At(k) = DOMAIN ZeroEvent
             /\ fieldError(enriched[k]) = Blank /\ decoded[k].zone \in Zone \cup {Blank}
  <2>1. decoded[k] \in Event
    BY <1>2
  <2>2. DOMAIN At(k) = DOMAIN ZeroEvent
    BY <2>1, EnrichKeeps DEF At
  <2> QED
    BY <1>2, <1>3, <2>1, <2>2 DEF Inv, Stored
<1> QED
  BY <1>2, <1>3, <1>4, <1>5

\* What is stored of a URL names the host it was admitted for, however long the URL
\* was, but for a host without // before it that is itself longer than the limit:
\* truncateURLField takes the host of any other URL whole or not at all.
THEOREM UrlsStillMatch == Spec => []UrlStillMatches
<1>1. ASSUME Inv PROVE UrlStillMatches
  <2> SUFFICES ASSUME Accepted, cfg.RequireURLHostMatch, NEW k \in 1..Len(enriched),
                      enriched[k].url # Empty, enriched[k].origin # Empty
               PROVE  \/ Lower(enriched[k].url.name) = Lower(enriched[k].origin.name)
                      \/ /\ decoded[k].url.scheme = Blank
                         /\ NameLength(decoded[k].url.name) > cfg.MaxFieldLength
    BY DEF UrlStillMatches
  <2> DEFINE m == cfg.MaxFieldLength
  <2>1. /\ decoded[k] \in Event /\ enriched[k] = ApplyFieldLimits(At(k)) /\ Admitted(At(k))
        /\ DOMAIN At(k) = DOMAIN ZeroEvent /\ m \in Nat
    BY <1>1, StoredAs
  <2>2. /\ enriched[k].url = truncateURLField(At(k).url, m)
        /\ enriched[k].origin = At(k).origin
    BY <2>1, LimitsKeep
  <2>3. urlMatchesOrigin(At(k).url, At(k).origin)
    BY <2>1 DEF Admitted
  <2>4. decoded[k].url \in Addresses
    BY <2>1, AdmissionAssumption DEF IsEvent
  <2>5. At(k).url = decoded[k].url \/ At(k).url = sanitizeURL(decoded[k].url)
    BY <2>1, EnrichKeeps DEF At
  <2>6. /\ DOMAIN At(k).url = DOMAIN Empty
        /\ At(k).url.scheme = decoded[k].url.scheme /\ At(k).url.name = decoded[k].url.name
    <3>1. DOMAIN decoded[k].url = DOMAIN Empty
      BY <2>4, AddressFields
    <3>2. LET s == sanitizeURL(decoded[k].url)
          IN  /\ DOMAIN s = DOMAIN Empty
              /\ s.scheme = decoded[k].url.scheme /\ s.name = decoded[k].url.name
      BY <3>1, StrippedIs DEF sanitizeURL
    <3> QED
      BY <2>5, <3>1, <3>2
  <2>7. \/ Lower(enriched[k].url.name) = Lower(enriched[k].origin.name)
        \/ At(k).url.scheme = Blank /\ NameLength(At(k).url.name) > m
    <3> HIDE DEF m
    <3> QED
      BY <2>1, <2>2, <2>3, <2>6, StillNames
  <2> QED
    BY <2>6, <2>7
<1> QED
  BY <1>1, Invariant, PTL

\* Where URLs are sanitized, no stored event holds a query, a fragment or userinfo
\* in a URL it has sent: one that sanitizeURL could not parse is refused.  Nothing
\* refuses such a Referer header, and of it the theorem says nothing; one that can
\* be parsed is clean.
THEOREM UrlsAreSanitized == Spec => []UrlsSanitized
<1>1. ASSUME Inv PROVE UrlsSanitized
  <2> SUFFICES ASSUME Accepted, cfg.SanitizeURLs, NEW k \in 1..Len(enriched)
               PROVE  /\ enriched[k].path.tail = 0
                      /\ \A a \in {enriched[k].url, enriched[k].referrer} :
                           ~a.query /\ ~a.frag /\ ~a.user
                      /\ enriched[k].referer.ok =>
                           LET a == enriched[k].referer IN ~a.query /\ ~a.frag /\ ~a.user
    BY DEF UrlsSanitized
  <2> DEFINE m == cfg.MaxFieldLength
  <2>1. /\ decoded[k] \in Event /\ enriched[k] = ApplyFieldLimits(At(k)) /\ request \in Request
        /\ DOMAIN At(k) = DOMAIN ZeroEvent /\ fieldError(enriched[k]) = Blank /\ m \in Nat
    BY <1>1, StoredAs
  <2>2. /\ At(k).url = sanitizeURL(decoded[k].url)
        /\ At(k).referrer = sanitizeURL(decoded[k].referrer)
        /\ At(k).path = sanitizePath(decoded[k].path)
        /\ At(k).referer = refererHeader(request)
    BY <2>1, EnrichKeeps DEF At
  <2>3. /\ enriched[k].url = truncateURLField(sanitizeURL(decoded[k].url), m)
        /\ enriched[k].referrer = truncateURLField(sanitizeURL(decoded[k].referrer), m)
        /\ enriched[k].path = cutPath(sanitizePath(decoded[k].path), m)
        /\ enriched[k].referer = sanitizeURL(request.referer)
    BY <2>1, <2>2, LimitsKeep DEF refererHeader
  <2>4. /\ decoded[k].url \in Addresses /\ decoded[k].referrer \in Addresses
        /\ decoded[k].path \in [len : Nat, tail : Nat] /\ request.referer \in Addresses
    BY <2>1, AdmissionAssumption DEF IsEvent, IsRequest
  <2>5. /\ validateURLField(enriched[k].url, m) = Blank
        /\ validateURLField(enriched[k].referrer, m) = Blank
    BY <2>1, fieldErrorIs
  <2> HIDE DEF m
  <2>6. /\ ~enriched[k].url.user /\ ~enriched[k].url.query /\ ~enriched[k].url.frag
    BY <2>3, <2>4, <2>5, Sanitized
  <2>7. /\ ~enriched[k].referrer.user /\ ~enriched[k].referrer.query /\ ~enriched[k].referrer.frag
    BY <2>3, <2>4, <2>5, Sanitized
  <2>8. enriched[k].path.tail = 0
    BY <2>1, <2>3, <2>4, PathSanitized
  <2>9. enriched[k].referer.ok =>
          ~enriched[k].referer.user /\ ~enriched[k].referer.query /\ ~enriched[k].referer.frag
    <3> DEFINE a == request.referer
    <3>1. a = Empty => ~a.user /\ ~a.query /\ ~a.frag
      BY AddressFields
    <3>2. DOMAIN a = DOMAIN Empty
      BY <2>4, AddressFields
    <3>3. sanitizeURL(a) = IF a = Empty \/ ~a.ok THEN a ELSE Stripped(a)
      BY DEF sanitizeURL
    <3> HIDE DEF a
    <3>4. sanitizeURL(a).ok => LET s == sanitizeURL(a) IN ~s.user /\ ~s.query /\ ~s.frag
      BY <3>1, <3>2, <3>3, StrippedIs
    <3> QED
      BY <2>3, <3>4 DEF a
  <2> QED
    BY <2>6, <2>7, <2>8, <2>9
<1> QED
  BY <1>1, Invariant, PTL

\* The cache of time zones never changes what Validate says of a name.
THEOREM ZonesDecided == Spec => []ZoneVerdict
<1>1. ASSUME Inv PROVE ZoneVerdict
  <2>1. Accepted => \A k \in 1..Len(decoded) : decoded[k].zone \in Zone \cup {Blank}
    BY <1>1, StoredAs
  <2>2. reply.detail = "invalid_timezone" => decoded[Len(enriched) + 1].zone \notin Zone
    BY <1>1 DEF Inv, Loop
  <2> QED
    BY <2>1, <2>2 DEF ZoneVerdict
<1> QED
  BY <1>1, Invariant, PTL

\* Only one event, or a list of events under the one key, is accepted, with no field
\* that Event has not, and every event of it is stored without what Enrich is to fill
\* in: the event that null is decoded to is stopped by Validate.
THEOREM BodiesDecided == Spec => []BodyVerdict
<1>1. ASSUME Inv PROVE BodyVerdict
  <2> SUFFICES ASSUME Accepted PROVE BodyVerdict
    BY DEF BodyVerdict
  <2> DEFINE body == request.body
  <2> DEFINE most == Setting("MaxEventsPerRequest")
  <2>1. /\ env \in Environment /\ cfg = Filled(env) /\ request \in Request
        /\ requestError(request) = Blank /\ decoded = DecodeBatch(body)
        /\ Len(enriched) = Len(decoded) /\ Len(decoded) \in Nat
        /\ \A k \in 1..Len(decoded) :
             /\ decoded[k] \in Event /\ enriched[k] = ApplyFieldLimits(At(k))
             /\ DOMAIN At(k) = DOMAIN ZeroEvent /\ fieldError(enriched[k]) = Blank
    BY <1>1, StoredAs
  <2>2. decodeError(body) = Blank /\ ~(Len(decoded) > cfg.MaxEventsPerRequest)
    BY <2>1, requestErrorIs
  <2>3. ASSUME NEW k \in 1..Len(decoded)
        PROVE  enriched[k].site = decoded[k].site /\ enriched[k].type = decoded[k].type
               /\ Identifier(decoded[k].type)
    <3>1. At(k).site = decoded[k].site /\ At(k).type = decoded[k].type
      BY <2>1, EnrichKeeps DEF At
    <3>2. enriched[k].site = decoded[k].site /\ enriched[k].type = decoded[k].type
      BY <2>1, <3>1, LimitsKeep
    <3>3. Identifier(enriched[k].type)
      BY <2>1, fieldErrorIs
    <3> QED
      BY <3>2, <3>3
  <2>4. body.shape # "null"
    <3> SUFFICES ASSUME body.shape = "null" PROVE FALSE
      OBVIOUS
    <3>1. decoded = <<ZeroEvent>>
      BY <2>1 DEF DecodeBatch
    <3>2. 1 \in 1..Len(decoded) /\ decoded[1] = ZeroEvent
      BY <3>1
    <3>3. ZeroEvent.type = Blank
      BY DEF ZeroEvent
    <3> QED
      BY <2>3, <3>2, <3>3 DEF Identifier
  <2>5. /\ body.shape = "object" /\ ~body.trailing /\ body.keys \in {{}, {"events"}}
        /\ body.keys = {"events"} => body.list = "array"
        /\ body.keys = {} => Len(body.events) = 1
        /\ body.events # <<>> /\ decoded = body.events
        /\ \A k \in 1..Len(body.events) : ~body.events[k].unknown
    BY <2>1, <2>2, <2>4, DecodedBody
  <2>6. most \in Int /\ most = cfg.MaxEventsPerRequest
    <3>1. "MaxEventsPerRequest" \in Field
      BY DEF Field, Counts
    <3>2. cfg["MaxEventsPerRequest"] \in Int
      BY <2>1, <3>1, FilledIs
    <3>3. Setting("MaxEventsPerRequest") = cfg["MaxEventsPerRequest"]
      BY <2>1, <3>1, SettingIs
    <3> QED
      BY <3>2, <3>3
  <2> HIDE DEF most
  <2>7. Len(body.events) \in 1..(IF body.keys = {} THEN 1 ELSE most)
    <3>1. body.events \in Seq(Event)
      BY <2>1, AdmissionAssumption DEF IsRequest
    <3>2. Len(body.events) > 0
      BY <2>1, <2>5, <3>1, EmptySeq
    <3>3. Len(body.events) \in Nat /\ (body.keys = {} => Len(body.events) = 1)
      BY <2>5, <3>1
    <3>4. Len(body.events) <= most
      BY <2>1, <2>2, <2>5, <2>6, <3>3
    <3>5. Len(body.events) \in 1..most
      BY <2>6, <3>2, <3>3, <3>4
    <3>6. body.keys = {} => Len(body.events) \in 1..1
      BY <3>3
    <3> HIDE DEF body
    <3> QED
      BY <3>5, <3>6, Zenon
  <2>8. [k \in 1..Len(enriched) |-> enriched[k].site]
          = [k \in 1..Len(body.events) |-> body.events[k].site]
    BY <2>1, <2>3, <2>5
  <2>9. ASSUME NEW k \in 1..Len(body.events)
        PROVE  /\ enriched[k].claimed \subseteq body.events[k].claimed \ {"metadata"}
               /\ Setting("CaptureClientIP") => "client_ip" \notin enriched[k].claimed
               /\ Setting("StoreIPMetadata") => "ip_metadata" \notin enriched[k].claimed
    <3>1. At(k).claimed = decoded[k].claimed \ FilledIn
      BY <2>1, <2>5, EnrichKeeps DEF At
    <3>2. enriched[k].claimed = body.events[k].claimed \ FilledIn
      BY <2>1, <2>5, <3>1, LimitsKeep
    <3>3. {"CaptureClientIP", "StoreIPMetadata"} \subseteq Field \cup Flags
      BY DEF Flags
    <3>4. /\ Setting("CaptureClientIP") = cfg["CaptureClientIP"]
          /\ Setting("StoreIPMetadata") = cfg["StoreIPMetadata"]
      BY <2>1, <3>3, SettingIs
    <3>5. /\ "metadata" \in FilledIn
          /\ cfg.CaptureClientIP => "client_ip" \in FilledIn
          /\ cfg.StoreIPMetadata => "ip_metadata" \in FilledIn
      BY DEF FilledIn
    <3> HIDE DEF body
    <3> QED
      BY <3>2, <3>4, <3>5
  <2> QED
    BY <2>5, <2>7, <2>8, <2>9 DEF BodyVerdict, most
<1> QED
  BY <1>1, Invariant, PTL

-----------------------------------------------------------------------------
\* Nothing that ApplyFieldLimits has shortened is too long for Validate; and what
\* Validate finds wrong with a URL that is shortened.

PathItem == {"p", "e", "u"}

LEMMA PathLengthIs ==
  ASSUME NEW S, NEW p \in Seq(S)
  PROVE  PathLength(p) \in Nat
<1> DEFINE escapes == {k \in 1..Len(p) : p[k] = "e"}
<1>1. Len(p) \in Nat
  BY LenProperties
<1>2. IsFiniteSet(escapes)
  <2>1. IsFiniteSet(1..Len(p))
    BY <1>1, FS_Interval
  <2> QED
    BY <2>1, FS_Subset
<1>3. Cardinality(escapes) \in Nat
  BY <1>2, FS_CardinalityType
<1> HIDE DEF escapes
<1>4. PathLength(p) = Len(p) + 2 * Cardinality(escapes)
  BY DEF PathLength, escapes
<1> QED
  BY <1>1, <1>3, <1>4

\* As many bytes as there is room for.
LEMMA FirstBytesFit ==
  ASSUME NEW path \in Seq(PathItem), NEW n \in Nat
  PROVE  LET cut == FirstBytes(path, n).path
         IN  cut \in Seq(PathItem) /\ PathLength(cut) \in Nat /\ PathLength(cut) <= n
<1> DEFINE fits == {k \in 0..Len(path) : PathLength(SubSeq(path, 1, k)) <= n}
<1> DEFINE fit == Max(fits)
<1> DEFINE sub == SubSeq(path, 1, fit)
<1> DEFINE left == IF fit = Len(path) THEN 0 ELSE n - PathLength(sub)
<1> DEFINE more == [k \in 1..left |-> "p"]
<1> DEFINE cut == sub \o more
<1>1. FirstBytes(path, n).path = cut
  BY DEF FirstBytes
<1>2. Len(path) \in Nat
  BY LenProperties
<1>3. 0 \in fits
  <2>1. SubSeq(path, 1, 0) = <<>>
    OBVIOUS
  <2>2. PathLength(SubSeq(path, 1, 0)) <= n
    <3>1. PathLength(SubSeq(path, 1, 0)) = 0
      BY <2>1, EmptyPath, Zenon
    <3> QED
      BY <3>1
  <2>3. 0 \in 0..Len(path)
    BY <1>2
  <2> QED
    BY <2>2, <2>3
<1>4. fit \in fits
  BY <1>2, <1>3, GreatestOf
<1>5. fit \in 0..Len(path) /\ PathLength(sub) <= n
  BY <1>4
<1>6. sub \in Seq(PathItem) /\ Len(sub) = fit
  <2> HIDE DEF fit
  <2> QED
    BY <1>2, <1>5
<1>7. PathLength(sub) \in Nat
  BY <1>6, PathLengthIs
<1> HIDE DEF fits, fit, sub
<1>8. left \in Nat /\ PathLength(sub) + left <= n
  BY <1>5, <1>7
<1> HIDE DEF left
<1>9. more \in Seq(PathItem) /\ Len(more) = left /\ \A k \in 1..left : more[k] = "p"
  BY <1>8 DEF PathItem
<1> HIDE DEF more
<1>10. cut \in Seq(PathItem) /\ Len(cut) = fit + left
       /\ \A k \in 1..(fit + left) : cut[k] = IF k <= fit THEN sub[k] ELSE more[k - fit]
  BY <1>6, <1>9, ConcatProperties
<1> HIDE DEF cut
<1>11. {k \in 1..Len(cut) : cut[k] = "e"} = {k \in 1..Len(sub) : sub[k] = "e"}
  <2>1. ASSUME NEW k \in 1..(fit + left) PROVE cut[k] = "e" <=> k \in 1..fit /\ sub[k] = "e"
    <3>1. k <= fit => (cut[k] = "e" <=> k \in 1..fit /\ sub[k] = "e")
      BY <1>5, <1>8, <1>10
    <3>2. ~(k <= fit) => k - fit \in 1..left /\ cut[k] = "p" /\ k \notin 1..fit
      BY <1>5, <1>8, <1>9, <1>10
    <3> QED
      BY <3>1, <3>2
  <2>2. 1..fit \subseteq 1..(fit + left)
    BY <1>5, <1>8
  <2> QED
    BY <1>6, <1>10, <2>1, <2>2
<1>12. PathLength(cut) = PathLength(sub) + left
  <2> DEFINE c == Cardinality({k \in 1..Len(sub) : sub[k] = "e"})
  <2>1. PathLength(sub) = fit + 2 * c /\ PathLength(cut) = (fit + left) + 2 * c
    BY <1>6, <1>10, <1>11 DEF PathLength
  <2>2. c \in Nat
    <3>1. IsFiniteSet(1..Len(sub))
      BY <1>5, <1>6, FS_Interval
    <3> QED
      BY <3>1, FS_Subset, FS_CardinalityType
  <2> HIDE DEF c
  <2> QED
    BY <1>5, <1>8, <2>1, <2>2
<1> QED
  BY <1>1, <1>7, <1>8, <1>10, <1>12

\* What an address has beside its path.
HeadLength(a) ==
  SchemeLength(a) + NameLength(a.name) + (IF a.user THEN 2 ELSE 0)
    + (IF a.port THEN 2 ELSE 0) + (IF a.query THEN 2 ELSE 0) + (IF a.frag THEN 2 ELSE 0)

LEMMA LengthIs ==
  ASSUME NEW a, PathLength(a.path) \in Nat
  PROVE  /\ HeadLength(a) \in Nat /\ Length(a) = HeadLength(a) + PathLength(a.path)
         /\ Length(a) \in Nat
<1>1. SchemeLength(a) \in Nat /\ NameLength(a.name) \in Nat
  BY DEF SchemeLength, NameLength
<1> QED
  BY <1>1 DEF Length, HeadLength

LEMMA EscapedIs ==
  ASSUME NEW a, a.path \in Seq(PathItem)
  PROVE  Escaped(a) \in Seq(PathItem)
<1>1. Len(a.path) \in Nat /\ \A k \in 1..Len(a.path) : a.path[k] \in PathItem
  BY LenProperties
<1>2. \A k \in 1..Len(a.path) : Escaped(a)[k] \in PathItem
  BY <1>1 DEF Escaped, PathItem
<1>3. Escaped(a) \in [1..Len(a.path) -> PathItem]
  BY <1>2 DEF Escaped
<1> QED
  BY <1>1, <1>3

LEMMA AddressPath ==
  ASSUME NEW a \in Addresses
  PROVE  /\ DOMAIN a = DOMAIN Empty /\ a.path \in Seq(PathItem)
         /\ sanitizeURL(a).path \in Seq(PathItem) /\ DOMAIN sanitizeURL(a) = DOMAIN Empty
<1>1. DOMAIN a = DOMAIN Empty /\ a.path \in Seq(PathItem)
  BY AddressFields DEF Addresses, PathItem
<1>2. Escaped(a) \in Seq(PathItem)
  BY <1>1, EscapedIs
<1>3. Stripped(a).path = Escaped(a) /\ DOMAIN Stripped(a) = DOMAIN Empty
  BY <1>1, AddressFields DEF Stripped
<1> QED
  BY <1>1, <1>2, <1>3 DEF sanitizeURL

\* There is room for what is kept before the path where the path is cut at all.
LEMMA BeforeIs ==
  ASSUME NEW a, NEW m \in Nat \ {0}
  PROVE  LET q == Before(a, m)
         IN  /\ DOMAIN q = DOMAIN Empty /\ Length(q) \in Nat /\ Length(q) = HeadLength(q)
             /\ InPath(a) => Length(q) <= m
<1> DEFINE p == Prefix(a)
<1> DEFINE q == Before(a, m)
<1>1. /\ DOMAIN p = DOMAIN Empty /\ p.path = <<>> /\ ~p.user /\ ~p.query /\ ~p.frag
      /\ InPath(a) => p.scheme = Blank /\ ~p.port
  <2>1. /\ DOMAIN p = DOMAIN Empty /\ p.path = <<>> /\ ~p.user /\ ~p.query /\ ~p.frag
    BY AddressFields DEF Prefix, Empty
  <2>2. InPath(a) => ~Opaque(a) /\ a.scheme = Blank /\ ~a.port
    BY DEF InPath, Opaque
  <2>3. Blank # "//"
    BY Zenon DEF Blank
  <2>4. InPath(a) => p.scheme = Blank /\ ~p.port
    BY <2>2, <2>3, AddressFields DEF Prefix
  <2> QED
    BY <2>1, <2>4
<1>2. q = IF InPath(a) THEN [p EXCEPT !.name = FirstLetters(@, m)] ELSE p
  BY DEF Before
<1> HIDE DEF p, q
<1>3. /\ DOMAIN q = DOMAIN Empty /\ q.path = <<>> /\ ~q.user /\ ~q.query /\ ~q.frag
      /\ InPath(a) => q.scheme = Blank /\ ~q.port /\ q.name = FirstLetters(p.name, m)
  BY <1>1, <1>2, AddressFields
<1>4. PathLength(q.path) = 0
  BY <1>3, EmptyPath, Zenon
<1>5. HeadLength(q) \in Nat /\ Length(q) = HeadLength(q)
  BY <1>4, LengthIs
<1>6. InPath(a) => HeadLength(q) <= m
  <2>1. NameLength(FirstLetters(p.name, m)) \in Nat /\ NameLength(FirstLetters(p.name, m)) <= m
    <3>1. NameLength(p.name) \in Nat /\ NameLength("a") \in {0, 1}
      BY DEF NameLength
    <3> QED
      BY <3>1 DEF FirstLetters
  <2>2. Blank # "//" /\ Blank # "http" /\ Blank # "https"
    BY Zenon DEF Blank
  <2>3. q.scheme = Blank => SchemeLength(q) = 0
    BY <2>2 DEF SchemeLength
  <2> QED
    BY <1>3, <2>1, <2>3 DEF HeadLength
<1> QED
  BY <1>3, <1>5, <1>6 DEF q

LEMMA PathOfIs ==
  ASSUME NEW a, a.path \in Seq(PathItem)
  PROVE  PathOf(a) \in Seq(PathItem)
<1>1. <<>> \in Seq(PathItem)
  OBVIOUS
<1> QED
  BY <1>1, EscapedIs DEF PathOf

LEMMA CutFits ==
  ASSUME NEW a, a.path \in Seq(PathItem), NEW m \in Nat \ {0}
  PROVE  Length(CutAfterHost(a, m)) \in Nat /\ Length(CutAfterHost(a, m)) <= m
<1> DEFINE q == Before(a, m)
<1> DEFINE cut == Behind(a, m)
<1> DEFINE r == CutAfterHost(a, m)
<1>1. /\ DOMAIN q = DOMAIN Empty /\ Length(q) \in Nat /\ Length(q) = HeadLength(q)
      /\ InPath(a) => Length(q) <= m
  BY BeforeIs
<1>2. \/ r = Empty
      \/ /\ InPath(a) \/ m - Length(q) > 0
         /\ r = [q EXCEPT !.path = cut.path, !.ok = cut.ok]
  BY CutAfterHostIs
<1>3. cut = FirstBytes(PathOf(a), m - Length(q))
  BY DEF Behind
<1> HIDE DEF q, cut, r
<1>4. CASE InPath(a) \/ m - Length(q) > 0
  <2>1. m - Length(q) \in Nat
    BY <1>1, <1>4
  <2>2. PathLength(cut.path) \in Nat /\ PathLength(cut.path) <= m - Length(q)
    BY <1>3, <2>1, PathOfIs, FirstBytesFit
  <2> DEFINE c == [q EXCEPT !.path = cut.path, !.ok = cut.ok]
  <2>3. /\ c.path = cut.path /\ c.scheme = q.scheme /\ c.name = q.name /\ c.user = q.user
        /\ c.port = q.port /\ c.query = q.query /\ c.frag = q.frag
    BY <1>1, AddressFields
  <2> HIDE DEF c
  <2>4. HeadLength(c) = HeadLength(q)
    BY <2>3 DEF HeadLength, SchemeLength
  <2>5. Length(c) = HeadLength(c) + PathLength(cut.path)
    BY <2>2, <2>3, LengthIs
  <2>6. Length(c) \in Nat /\ Length(c) <= m
    BY <1>1, <2>2, <2>4, <2>5
  <2>7. r = Empty \/ r = c
    BY <1>2 DEF c
  <2> QED
    BY <2>6, <2>7, LengthOfEmpty DEF r
<1>5. CASE ~(InPath(a) \/ m - Length(q) > 0)
  BY <1>2, <1>5, LengthOfEmpty DEF r
<1> QED
  BY <1>4, <1>5

LEMMA Shortened ==
  ASSUME NEW a, a.path \in Seq(PathItem), DOMAIN a = DOMAIN Empty, NEW m \in Nat \ {0}
  PROVE  ~(Length(truncateURLField(a, m)) > m)
<1>1. PathLength(a.path) \in Nat
  BY PathLengthIs
<1>2. Length(a) \in Nat
  BY <1>1, LengthIs
<1>3. Length(Stripped(a)) \in Nat
  <2>1. Stripped(a).path = Escaped(a)
    BY AddressFields DEF Stripped
  <2>2. PathLength(Stripped(a).path) \in Nat
    BY <2>1, EscapedIs, PathLengthIs
  <2> QED
    BY <2>2, LengthIs
<1>4. Length(CutAfterHost(a, m)) \in Nat /\ Length(CutAfterHost(a, m)) <= m
  BY CutFits
<1> QED
  BY <1>2, <1>3, <1>4, LengthOfEmpty DEF truncateURLField

\* A path is cut within an escape only where it has one.
LEMMA CutInEscape ==
  ASSUME NEW path \in Seq(PathItem), NEW n \in Nat, ~FirstBytes(path, n).ok
  PROVE  \E k \in 1..Len(path) : path[k] = "e"
<1> SUFFICES ASSUME \A k \in 1..Len(path) : path[k] # "e" PROVE FALSE
  OBVIOUS
<1> DEFINE fits == {k \in 0..Len(path) : PathLength(SubSeq(path, 1, k)) <= n}
<1> DEFINE fit == Max(fits)
<1>1. Len(path) \in Nat
  BY LenProperties
<1>2. ASSUME NEW j \in 0..Len(path) PROVE PathLength(SubSeq(path, 1, j)) = j
  <2> DEFINE sub == SubSeq(path, 1, j)
  <2>1. Len(sub) = j /\ \A k \in 1..j : sub[k] = path[k]
    BY <1>1
  <2>2. \A k \in 1..j : k \in 1..Len(path)
    BY <1>1
  <2> HIDE DEF sub
  <2>3. {k \in 1..Len(sub) : sub[k] = "e"} = {}
    BY <2>1, <2>2
  <2>4. Cardinality({k \in 1..Len(sub) : sub[k] = "e"}) = 0
    BY <2>3, FS_EmptySet
  <2>5. PathLength(sub) = j
    BY <2>1, <2>4 DEF PathLength
  <2> QED
    BY <2>5 DEF sub
<1>3. FirstBytes(path, n).ok
        = ((IF fit = Len(path) THEN 0 ELSE n - PathLength(SubSeq(path, 1, fit))) = 0)
  BY DEF FirstBytes
<1>4. fits = {k \in 0..Len(path) : k <= n}
  BY <1>2
<1>5. fit \in fits /\ \A k \in fits : k <= fit
  <2>1. 0 \in fits
    BY <1>1, <1>4
  <2> QED
    BY <1>1, <2>1, GreatestOf
<1> HIDE DEF fits, fit
<1>6. fit \in 0..Len(path) /\ fit <= n
  BY <1>4, <1>5
<1>7. fit # Len(path) /\ n - fit # 0
  BY <1>2, <1>3, <1>6
<1>8. fit + 1 \in fits
  BY <1>1, <1>4, <1>6, <1>7
<1> QED
  BY <1>5, <1>6, <1>8

\* What sanitizeURL leaves of the parts that matter to a later refusal.
LEMMA SanitizedIs ==
  ASSUME NEW a \in Addresses, NEW b, b \in {a, sanitizeURL(a)}
  PROVE  /\ b \in {a, Stripped(a)} /\ DOMAIN b = DOMAIN Empty
         /\ b.scheme = a.scheme /\ b.name = a.name /\ b.port = a.port /\ b.ok = a.ok
         /\ b.path \in Seq(PathItem)
         /\ \A k \in 1..Len(b.path) : b.path[k] # "p" => k \in 1..Len(a.path) /\ a.path[k] # "p"
<1>1. /\ DOMAIN a = DOMAIN Empty /\ a.path \in Seq(PathItem) /\ Len(a.path) \in Nat
  BY AddressPath, LenProperties
<1>2. b \in {a, Stripped(a)}
  BY DEF sanitizeURL
<1>3. CASE b = a
  BY <1>1, <1>2, <1>3
<1>4. CASE b = Stripped(a)
  <2>1. /\ DOMAIN b = DOMAIN Empty
        /\ b.scheme = a.scheme /\ b.name = a.name /\ b.port = a.port /\ b.ok = a.ok
    BY <1>1, <1>4, StrippedIs
  <2>2. b.path = Escaped(a)
    BY <1>1, <1>4, AddressFields DEF Stripped
  <2>3. Escaped(a) \in Seq(PathItem)
    BY <1>1, EscapedIs
  <2>4. Len(Escaped(a)) = Len(a.path)
        /\ \A k \in 1..Len(a.path) : Escaped(a)[k] # "p" => a.path[k] # "p"
    BY <1>1 DEF Escaped
  <2> QED
    BY <1>2, <2>1, <2>2, <2>3, <2>4
<1> QED
  BY <1>2, <1>3, <1>4

\* Why a URL is refused that is stored as it was sent or sanitized.
LEMMA UrlRefused ==
  ASSUME NEW a \in Addresses, NEW b, b \in {a, sanitizeURL(a)},
         cfg.MaxFieldLength \in Nat \ {0}
  PROVE  LET m == cfg.MaxFieldLength
             error == validateURLField(truncateURLField(b, m), m)
         IN  /\ error = "invalid_url" => Unparsable(a)
             /\ error = "invalid_url_scheme" => BadScheme(a)
<1> DEFINE m == cfg.MaxFieldLength
<1> DEFINE t == truncateURLField(b, m)
<1> DEFINE Known == {Blank, "//", "http", "https"}
<1>1. /\ b \in {a, Stripped(a)} /\ DOMAIN b = DOMAIN Empty
      /\ b.scheme = a.scheme /\ b.name = a.name /\ b.port = a.port /\ b.ok = a.ok
      /\ b.path \in Seq(PathItem)
      /\ \A k \in 1..Len(b.path) : b.path[k] # "p" => k \in 1..Len(a.path) /\ a.path[k] # "p"
  BY SanitizedIs
<1>2. /\ validateURLField(t, m) = "invalid_url" => t # Empty /\ ~t.ok
      /\ validateURLField(t, m) = "invalid_url_scheme" => t # Empty /\ ParsedScheme(t) \notin Known
  BY CodesNotBlank DEF validateURLField
<1>3. \/ t = b \/ t = Empty \/ t = Stripped(b)
      \/ t = CutAfterHost(b, m) /\ CutShort(a)
  <2>1. \/ t = b \/ t = Empty \/ t = Stripped(b)
        \/ /\ t = CutAfterHost(b, m) /\ ~(Length(b) <= m) /\ ~(Length(Stripped(b)) <= m)
    BY DEF truncateURLField
  <2>2. Length(Stripped(a)) \in Nat
    <3>1. a.path \in Seq(PathItem) /\ DOMAIN a = DOMAIN Empty
      BY AddressPath
    <3>2. Stripped(a).path = Escaped(a)
      BY <3>1, AddressFields DEF Stripped
    <3>3. PathLength(Stripped(a).path) \in Nat
      BY <3>1, <3>2, EscapedIs, PathLengthIs
    <3> QED
      BY <3>3, LengthIs
  <2>3. ~(Length(b) <= m) /\ ~(Length(Stripped(b)) <= m) => ~(Length(Stripped(a)) <= m)
    BY <1>1
  <2> HIDE DEF t
  <2> QED
    BY <2>1, <2>2, <2>3 DEF CutShort
<1> HIDE DEF t
<1>4. ParsedScheme(b) = ParsedScheme(a) /\ (Opaque(b) <=> Opaque(a))
  BY <1>1 DEF ParsedScheme, Opaque
<1>5. CASE t = b
  BY <1>1, <1>2, <1>4, <1>5 DEF Unparsable, BadScheme, t
<1>6. CASE t = Empty
  BY <1>2, <1>6 DEF t
<1>7. CASE t = Stripped(b)
  <2>1. t.ok = a.ok /\ t.scheme = a.scheme /\ t.port = a.port /\ t.name = a.name
    BY <1>1, <1>7, StrippedIs
  <2>2. ParsedScheme(t) = ParsedScheme(a)
    BY <2>1 DEF ParsedScheme, Opaque
  <2> QED
    BY <1>2, <2>1, <2>2 DEF Unparsable, BadScheme, t
<1>8. CASE t = CutAfterHost(b, m) /\ CutShort(a) /\ t # Empty
  <2>1. /\ InPath(b) \/ m - Length(Before(b, m)) > 0
        /\ t.ok = Behind(b, m).ok
        /\ Opaque(a) => t.scheme = a.name /\ ~t.port
        /\ ~Opaque(a) => /\ t.scheme = (IF a.scheme = "//" THEN Blank ELSE a.scheme)
                         /\ t.port = a.port
    BY <1>1, <1>4, <1>8, CutParts
  <2>2. ASSUME ~t.ok PROVE Unparsable(a)
    <3>1. m - Length(Before(b, m)) \in Nat
      BY <2>1, BeforeIs
    <3>2. PathOf(b) \in Seq(PathItem)
      BY <1>1, PathOfIs
    <3>3. PICK k \in 1..Len(PathOf(b)) : PathOf(b)[k] = "e"
      BY <2>1, <2>2, <3>1, <3>2, CutInEscape DEF Behind
    <3>4. ~Opaque(b) /\ PathOf(b) = Escaped(b)
      <4>1. Len(<<>>) = 0
        OBVIOUS
      <4> QED
        BY <3>3, <4>1 DEF PathOf
    <3>5. Len(b.path) \in Nat
      BY <1>1, LenProperties
    <3>6. k \in 1..Len(b.path) /\ b.path[k] # "p"
      BY <3>3, <3>4, <3>5 DEF Escaped
    <3> QED
      BY <1>1, <1>8, <3>6 DEF Unparsable
  <2>3. ASSUME ParsedScheme(t) \notin Known PROVE BadScheme(a)
    <3>1. CASE Opaque(a)
      <4>1. ParsedScheme(t) = a.name /\ ParsedScheme(a) = a.name
        BY <2>1, <3>1 DEF ParsedScheme, Opaque
      <4> QED
        BY <2>3, <4>1 DEF BadScheme
    <3>2. CASE ~Opaque(a) /\ a.scheme = "//"
      <4>1. t.scheme = Blank /\ t.port = a.port
        BY <2>1, <3>2
      <4>2. ~a.port => ParsedScheme(t) = Blank
        BY <4>1 DEF ParsedScheme, Opaque
      <4> QED
        BY <1>8, <2>3, <3>2, <4>2 DEF BadScheme
    <3>3. CASE ~Opaque(a) /\ a.scheme # "//"
      <4>1. t.scheme = a.scheme /\ t.port = a.port
        BY <2>1, <3>3
      <4>2. ParsedScheme(t) = a.scheme /\ ParsedScheme(a) = a.scheme
        BY <3>3, <4>1 DEF ParsedScheme, Opaque
      <4> QED
        BY <2>3, <4>2 DEF BadScheme
    <3> QED
      BY <3>1, <3>2, <3>3
  <2> QED
    BY <1>2, <2>2, <2>3 DEF t
<1> QED
  BY <1>3, <1>5, <1>6, <1>7, <1>8

LEMMA LengthsNotBlank ==
  Blank \notin TooLongErrors \cup Refusals \cup {"invalid_url", "invalid_url_scheme"}
BY Zenon DEF Blank, TooLongErrors, Refusals

\* The checks of Validate on an event whose fields are short enough.
LEMMA NoneTooLong ==
  ASSUME NEW e, ~tooLong(e.session), ~tooLong(e.anonymous), ~tooLong(e.user), ~tooLong(e.title),
         ~tooLong(e.path.len + e.path.tail),
         ~(Length(e.url) > cfg.MaxFieldLength), ~(Length(e.referrer) > cfg.MaxFieldLength),
         NEW judged, judged \subseteq Refusals,
         judged = validatePayload(e.payload, cfg.MaxPayloadEntries, cfg.MaxPayloadDepth,
                                  cfg.MaxFieldLength)
  PROVE  /\ Validate(e) \cap TooLongErrors = {}
         /\ \A error \in Validate(e) \cap {"invalid_url", "invalid_url_scheme"} :
              error \in {validateURLField(e.url, cfg.MaxFieldLength),
                         validateURLField(e.referrer, cfg.MaxFieldLength)}
         /\ Validate(e) = {} => judged = {}
         /\ Validate(e) \cap Refusals # {} => judged # {}
<1> DEFINE e1 == When(~Identifier(e.type), "invalid_type")
<1> DEFINE e2 == When(~Identifier(e.site), "invalid_site_id")
<1> DEFINE e3 == When(tooLong(e.session) \/ tooLong(e.anonymous), "invalid_identifiers")
<1> DEFINE e4 == When(tooLong(e.user), "invalid_user_id")
<1> DEFINE e5 == When(tooLong(e.path.len + e.path.tail) \/ tooLong(e.title), "invalid_path_or_title")
<1> DEFINE e6 == validateURLField(e.url, cfg.MaxFieldLength)
<1> DEFINE e7 == validateURLField(e.referrer, cfg.MaxFieldLength)
<1> DEFINE codes == <<e1, e2, e3, e4, e5, e6, e7>>
<1> DEFINE z1 == When(e.zone \notin validTimezoneCache \cup Zone \cup {Blank}, "invalid_timezone")
<1> DEFINE z2 == When(e.offset \notin -840..840, "invalid_timezone_offset")
<1> DEFINE Plainly == {Blank, "invalid_type", "invalid_site_id", "invalid_timezone",
                       "invalid_timezone_offset"}
<1> DEFINE OfUrls == {"invalid_url", "invalid_url_scheme"}
<1> DEFINE Others == Plainly \cup (OfUrls \cap {e6, e7})
<1>1. fieldError(e) = First(codes) /\ validateTimezone(e) = First(<<z1, z2>>)
  BY DEF fieldError, validateTimezone
<1>2. {e1, e2, e3, e4, e5, z1, z2} \subseteq Plainly
  BY DEF When
<1>3. {e6, e7} \subseteq {Blank} \cup OfUrls
  BY DEF validateURLField
<1>4. Blank \notin TooLongErrors \cup Refusals \cup OfUrls
  BY LengthsNotBlank
<1>5. /\ (Plainly \cup OfUrls) \cap (TooLongErrors \cup Refusals) = {}
      /\ Refusals \cap (TooLongErrors \cup OfUrls) = {} /\ Plainly \cap OfUrls = {}
  BY <1>4 DEF TooLongErrors, Refusals
<1> HIDE DEF e1, e2, e3, e4, e5, e6, e7, z1, z2
<1>6. /\ Len(codes) = 7 /\ codes[1] = e1 /\ codes[2] = e2 /\ codes[3] = e3 /\ codes[4] = e4
      /\ codes[5] = e5 /\ codes[6] = e6 /\ codes[7] = e7
  OBVIOUS
<1>7. \A k \in 1..7 : k \in {1, 2, 3, 4, 5, 6, 7}
  OBVIOUS
<1> HIDE DEF codes
<1>8. First(codes) \in Others
  <2>1. \A k \in 1..7 : codes[k] \in Others
    BY <1>2, <1>3, <1>6, <1>7
  <2>2. First(codes) = Blank \/ \E k \in 1..7 : First(codes) = codes[k]
    BY <1>6, FirstIs
  <2> QED
    BY <2>1, <2>2
<1>9. First(<<z1, z2>>) \in Others
  <2>1. First(<<z1, z2>>) \in {z1, z2}
    BY FirstOf2
  <2> QED
    BY <1>2, <2>1
<1>10. Others \cap OfUrls \subseteq {e6, e7} /\ Others \subseteq Plainly \cup OfUrls
  BY <1>5
<1> HIDE DEF Others, Plainly, OfUrls
<1> DEFINE a == fieldError(e)
<1> DEFINE b == validateTimezone(e)
<1>11. a \in Others /\ b \in Others
  BY <1>1, <1>8, <1>9
<1>12. Validate(e) = IF First(<<a, b>>) # Blank THEN {First(<<a, b>>)}
                     ELSE judged
  BY DEF Validate
<1> HIDE DEF a, b
<1>13. First(<<a, b>>) \in Others
  BY <1>11, FirstOf2
<1>14. Validate(e) \subseteq Others \/ Validate(e) = judged
  BY <1>12, <1>13
<1>15. Validate(e) \cap TooLongErrors = {}
  BY <1>5, <1>10, <1>14
<1>16. \A error \in Validate(e) \cap OfUrls : error \in {e6, e7}
  BY <1>5, <1>10, <1>14
<1>17. Validate(e) = {} => judged = {}
  BY <1>12
<1>18. Validate(e) \cap Refusals # {} => judged # {}
  BY <1>5, <1>10, <1>14
<1> QED
  BY <1>15, <1>16, <1>17, <1>18 DEF OfUrls, e6, e7

\* ApplyFieldLimits leaves no field and no string that Validate finds too long, and
\* Validate lets the payload through when the limits do.
LEMMA LimitsSuffice ==
  ASSUME NEW e \in Event, NEW r, env \in Environment, cfg = Filled(env), LoadError(env) = Blank
  PROVE  LET errors == Validate(ApplyFieldLimits(Enrich(e, r)))
         IN  /\ errors \cap TooLongErrors = {}
             /\ "invalid_url" \in errors => Unparsable(e.url) \/ Unparsable(e.referrer)
             /\ "invalid_url_scheme" \in errors => BadScheme(e.url) \/ BadScheme(e.referrer)
             /\ errors = {} => Fits(e)
             /\ errors \cap Refusals # {} => ~Fits(e)
<1> DEFINE m == cfg.MaxFieldLength
<1> DEFINE n == Enrich(e, r)
<1> DEFINE f == ApplyFieldLimits(n)
<1>0. /\ m \in Nat \ {0}
      /\ cfg.MaxPayloadEntries \in Int /\ cfg.MaxPayloadDepth \in Int
  BY ConfiguredLimits
<1>1. /\ DOMAIN e = DOMAIN ZeroEvent /\ e.url \in Addresses /\ e.referrer \in Addresses
      /\ e.path \in [len : Nat, tail : Nat]
      /\ {e.session, e.anonymous, e.user, e.title} \subseteq Nat
  BY AdmissionAssumption DEF IsEvent
<1>2. /\ DOMAIN n = DOMAIN ZeroEvent /\ n.payload = Normalize(e).payload
      /\ n.url \in {e.url, sanitizeURL(e.url)} /\ n.referrer \in {e.referrer, sanitizeURL(e.referrer)}
      /\ n.path \in {e.path, sanitizePath(e.path)}
  BY EnrichKeeps
<1>3. n.session = e.session /\ n.anonymous = e.anonymous /\ n.user = e.user /\ n.title = e.title
  BY EnrichKeeps
<1> HIDE DEF n
<1>4. /\ f.session = truncateString(n.session, m) /\ f.anonymous = truncateString(n.anonymous, m)
      /\ f.user = truncateString(n.user, m) /\ f.title = truncateString(n.title, m)
      /\ f.path = cutPath(n.path, m)
      /\ f.url = truncateURLField(n.url, m) /\ f.referrer = truncateURLField(n.referrer, m)
      /\ f.payload = truncatePayload(n.payload, m)
  BY <1>2, EventFields DEF ApplyFieldLimits
<1> HIDE DEF f
<1>5. ~tooLong(f.session) /\ ~tooLong(f.anonymous) /\ ~tooLong(f.user) /\ ~tooLong(f.title)
  BY <1>0, <1>1, <1>3, <1>4 DEF tooLong, truncateString
<1>6. ~tooLong(f.path.len + f.path.tail)
  <2>1. n.path.len \in Nat /\ n.path.tail \in Nat
    BY <1>1, <1>2 DEF sanitizePath
  <2>2. f.path.len = truncateString(n.path.len, m)
        /\ f.path.tail = truncateString(n.path.tail, m - truncateString(n.path.len, m))
    BY <1>4 DEF cutPath
  <2> QED
    BY <1>0, <2>1, <2>2 DEF tooLong, truncateString
<1>7. ~(Length(f.url) > m)
  <2>1. DOMAIN n.url = DOMAIN Empty /\ n.url.path \in Seq(PathItem)
    BY <1>1, <1>2, AddressPath
  <2> QED
    BY <1>0, <1>4, <2>1, Shortened
<1>8. ~(Length(f.referrer) > m)
  <2>1. DOMAIN n.referrer = DOMAIN Empty /\ n.referrer.path \in Seq(PathItem)
    BY <1>1, <1>2, AddressPath
  <2> QED
    BY <1>0, <1>4, <2>1, Shortened
<1> DEFINE judged == validatePayload(f.payload, cfg.MaxPayloadEntries, cfg.MaxPayloadDepth,
                                     cfg.MaxFieldLength)
<1>9. judged \subseteq Refusals /\ (judged = {} <=> Fits(e))
  BY <1>0, EventJudged DEF f, n
<1> HIDE DEF judged
<1>10. /\ Validate(f) \cap TooLongErrors = {}
       /\ \A error \in Validate(f) \cap {"invalid_url", "invalid_url_scheme"} :
            error \in {validateURLField(f.url, m), validateURLField(f.referrer, m)}
       /\ Validate(f) = {} => judged = {}
       /\ Validate(f) \cap Refusals # {} => judged # {}
  BY <1>5, <1>6, <1>7, <1>8, <1>9, NoneTooLong DEF judged
<1>11. ASSUME NEW a \in {e.url, e.referrer}, NEW b, b \in {a, sanitizeURL(a)}
       PROVE  LET error == validateURLField(truncateURLField(b, m), m)
              IN  /\ error = "invalid_url" => Unparsable(a)
                  /\ error = "invalid_url_scheme" => BadScheme(a)
  BY <1>0, <1>1, <1>11, UrlRefused
<1> HIDE DEF m
<1>12. "invalid_url" \in Validate(f) => Unparsable(e.url) \/ Unparsable(e.referrer)
  BY <1>2, <1>4, <1>10, <1>11
<1>13. "invalid_url_scheme" \in Validate(f) => BadScheme(e.url) \/ BadScheme(e.referrer)
  BY <1>2, <1>4, <1>10, <1>11
<1> QED
  BY <1>9, <1>10, <1>12, <1>13 DEF f, n

\* Where neither the reply nor what was stored changes, neither do the verdicts.
LEMMA SameVerdicts ==
  ASSUME Inv, Verdicts, UNCHANGED <<cfg, enriched, decoded>>, Through' => Through,
         reply'.detail = Blank \/ UNCHANGED reply
  PROVE  Verdicts'
<1>1. reply'.detail \in TooLongErrors \cup Refusals \cup {"invalid_url", "invalid_url_scheme"}
        => reply' = reply
  BY LengthsNotBlank
<1>2. \A e : Fits(e)' = Fits(e)
  BY DEF Fits
<1>3. \A a : Unparsable(a)' = Unparsable(a) /\ BadScheme(a)' = BadScheme(a)
  BY DEF Unparsable, BadScheme, CutShort
<1> QED
  BY <1>1, <1>2, <1>3 DEF Verdicts

\* A step after which nothing is stored.
LEMMA NoVerdicts ==
  ASSUME reply'.detail = Blank, Through' => enriched' = <<>>
  PROVE  Verdicts'
<1>1. reply'.detail \notin TooLongErrors \cup Refusals \cup {"invalid_url", "invalid_url_scheme"}
  BY LengthsNotBlank
<1>2. Through' => \A k \in 1..Len(enriched') : FALSE
  OBVIOUS
<1> QED
  BY <1>1, <1>2 DEF Verdicts

LEMMA ValidateEventVerdicts ==
  ASSUME Inv, Verdicts, ValidateEvent
  PROVE  Verdicts'
<1> DEFINE n == Len(enriched) + 1
<1> DEFINE errors == Validate(ApplyFieldLimits(event))
<1>1. phase = "validate" /\ InLoop /\ UNCHANGED <<cfg, decoded>>
  BY DEF ValidateEvent, InLoop
<1>2. /\ Through /\ Served /\ env \in Environment /\ cfg = Filled(env) /\ decoded \in Seq(Event)
      /\ enriched \in Seq(Kept)
      /\ Len(decoded) \in Nat /\ Len(batch) \in Nat /\ Len(enriched) \in Nat
  BY <1>1, InTheLoop
<1>3. /\ event = Enrich(decoded[n], request) /\ Len(decoded) = Len(enriched) + Len(batch) + 1
      /\ LoadError(env) = Blank /\ reply = NoReply
  BY <1>1, <1>2 DEF Inv, Base, Loop, At
<1>4. decoded[n] \in Event
  BY <1>2, <1>3
<1>5. /\ errors \cap TooLongErrors = {} /\ (errors = {} => Fits(decoded[n]))
      /\ "invalid_url" \in errors => Unparsable(decoded[n].url) \/ Unparsable(decoded[n].referrer)
      /\ "invalid_url_scheme" \in errors => BadScheme(decoded[n].url) \/ BadScheme(decoded[n].referrer)
      /\ errors \cap Refusals # {} => ~Fits(decoded[n])
  BY <1>2, <1>3, <1>4, LimitsSuffice
<1> HIDE DEF errors
<1>6. /\ \A e : Fits(e)' = Fits(e)
      /\ \A a : Unparsable(a)' = Unparsable(a) /\ BadScheme(a)' = BadScheme(a)
  BY <1>1 DEF Fits, Unparsable, BadScheme, CutShort
<1>7. ASSUME errors = {}, enriched' = Append(enriched, ApplyFieldLimits(event)), UNCHANGED reply
      PROVE  Verdicts'
  <2>1. reply'.detail = Blank
    BY <1>3, <1>7 DEF NoReply
  <2>2. reply'.detail \notin TooLongErrors \cup Refusals \cup {"invalid_url", "invalid_url_scheme"}
    BY <2>1, LengthsNotBlank
  <2>3. ASSUME NEW k \in 1..Len(enriched') PROVE Fits(decoded[k])
    <3>1. Len(enriched') = n
      BY <1>2, <1>7
    <3>2. k \in 1..Len(enriched) \/ k = n
      BY <1>2, <3>1
    <3>3. k \in 1..Len(enriched) => Fits(decoded[k])
      BY <1>2 DEF Verdicts
    <3> QED
      BY <1>5, <1>7, <3>2, <3>3
  <2>4. \A k \in 1..Len(enriched') : Fits(decoded[k])'
    BY <1>1, <1>6, <2>3
  <2> QED
    BY <2>2, <2>4 DEF Verdicts
<1>8. ASSUME NEW error \in errors, Reply("invalid_event", error), UNCHANGED enriched
      PROVE  Verdicts'
  <2>1. reply'.detail = error
    BY <1>8 DEF Reply
  <2>2. /\ error \notin TooLongErrors /\ (error \in Refusals => ~Fits(decoded[n]))
        /\ error = "invalid_url" => Unparsable(decoded[n].url) \/ Unparsable(decoded[n].referrer)
        /\ error = "invalid_url_scheme" =>
             BadScheme(decoded[n].url) \/ BadScheme(decoded[n].referrer)
    BY <1>5, <1>8
  <2>3. \A k \in 1..Len(enriched') : Fits(decoded[k])'
    <3>1. \A k \in 1..Len(enriched) : Fits(decoded[k])
      BY <1>2 DEF Verdicts
    <3> QED
      BY <1>1, <1>6, <1>8, <3>1
  <2>4. (decoded[Len(enriched) + 1])' = decoded[n]
    BY <1>1, <1>8
  <2>5. /\ Fits(decoded[Len(enriched) + 1])' = Fits(decoded[n])
        /\ Unparsable((decoded[Len(enriched) + 1]).url)' = Unparsable(decoded[n].url)
        /\ Unparsable((decoded[Len(enriched) + 1]).referrer)' = Unparsable(decoded[n].referrer)
        /\ BadScheme((decoded[Len(enriched) + 1]).url)' = BadScheme(decoded[n].url)
        /\ BadScheme((decoded[Len(enriched) + 1]).referrer)' = BadScheme(decoded[n].referrer)
    BY <1>1, <1>6, <1>8
  <2> QED
    BY <2>1, <2>2, <2>3, <2>5 DEF Verdicts
<1> QED
  BY <1>7, <1>8 DEF ValidateEvent, errors

LEMMA VerdictsPreserved ==
  ASSUME Inv, Verdicts, [Next]_vars
  PROVE  Verdicts'
<1>1. CASE Load \/ \E r \in Request : Receive(r)
  <2>1. reply' = NoReply /\ ~Through'
    BY <1>1 DEF Load, Receive, Inv, Base, Through, InLoop
  <2> QED
    BY <2>1, NoVerdicts DEF NoReply
<1>2. CASE Return
  <2>1. reply' = NoReply /\ ~Through'
    BY <1>2 DEF Return, Through, InLoop
  <2> QED
    BY <2>1, NoVerdicts DEF NoReply
<1>3. CASE CheckRequest
  <2>1. enriched' = <<>> /\ reply = NoReply
    BY <1>3 DEF CheckRequest, Inv, Base
  <2>2. reply'.detail = Blank
    BY <1>3, <2>1 DEF CheckRequest, Reply, NoReply
  <2> QED
    BY <2>1, <2>2, NoVerdicts
<1>4. CASE EnrichEvent
  <2>1. Through /\ UNCHANGED <<cfg, enriched, decoded>>
    BY <1>4 DEF EnrichEvent, Through, InLoop
  <2>2. reply'.detail = Blank \/ UNCHANGED reply
    BY <1>4 DEF EnrichEvent, Reply
  <2> QED
    BY <2>1, <2>2, SameVerdicts
<1>5. CASE Accept
  <2>1. Through /\ UNCHANGED <<cfg, enriched, decoded>> /\ reply'.detail = Blank
    BY <1>5 DEF Accept, Reply, Through, InLoop
  <2> QED
    BY <2>1, SameVerdicts
<1>6. CASE UNCHANGED vars
  <2>1. (Through' => Through) /\ UNCHANGED <<cfg, enriched, decoded, reply>>
    BY <1>6 DEF vars, Through, InLoop
  <2> QED
    BY <2>1, SameVerdicts
<1> QED
  BY <1>1, <1>2, <1>3, <1>4, <1>5, <1>6, ValidateEventVerdicts DEF Next

LEMMA VerdictsAlways == Spec => []Verdicts
<1>1. Init => Verdicts
  <2> SUFFICES ASSUME Init PROVE Verdicts
    OBVIOUS
  <2>1. reply.detail = Blank /\ ~Through
    BY DEF Init, NoReply, Through, InLoop
  <2>2. reply.detail \notin TooLongErrors \cup Refusals \cup {"invalid_url", "invalid_url_scheme"}
    BY <2>1, LengthsNotBlank
  <2> QED
    BY <2>1, <2>2 DEF Verdicts
<1> QED
  BY <1>1, VerdictsPreserved, Invariant, PTL DEF Spec

\* Validate never finds a field or a string of a payload too long, at whatever depth
\* and in lists as in maps; and a URL it refuses was sent so, or had to be shortened
\* and has an escape to be cut in, or a port and a // to be lost.
THEOREM LengthsDecided == Spec => []LengthVerdict
<1>1. Verdicts => LengthVerdict
  <2> SUFFICES ASSUME Verdicts PROVE LengthVerdict
    OBVIOUS
  <2> DEFINE e == decoded[Len(enriched) + 1]
  <2> DEFINE sent == {e.url, e.referrer}
  <2>1. /\ reply.detail \notin TooLongErrors
        /\ reply.detail = "invalid_url" => \E a \in sent : Unparsable(a)
        /\ reply.detail = "invalid_url_scheme" => \E a \in sent : BadScheme(a)
    BY DEF Verdicts
  <2> HIDE DEF sent
  <2> QED
    BY <2>1 DEF LengthVerdict, Unparsable, BadScheme, sent, e
<1> QED
  BY <1>1, VerdictsAlways, PTL

\* validatePayload, which gives up at the first error and counts as it returns,
\* accepts exactly the payloads whose depth and keys are within the limits and that
\* have few enough members of maps and scalars, added up, whatever the order in
\* which it walks the maps.
THEOREM PayloadsJudged == Spec => []PayloadVerdict
<1>1. ASSUME Inv, Verdicts PROVE PayloadVerdict
  <2>1. ASSUME Accepted, NEW k \in 1..Len(decoded) PROVE Fits(decoded[k])
    <3>1. reply.code = "ok" /\ reply.code # Blank /\ reply.code \in PastChecks
      BY <2>1, CodesNotBlank DEF Accepted, PastChecks
    <3>2. Through
      BY <1>1, <3>1, Replied
    <3>3. Len(enriched) = Len(decoded)
      BY <1>1, <2>1 DEF Inv, Loop
    <3> QED
      BY <1>1, <3>2, <3>3 DEF Verdicts
  <2>2. reply.detail \in Refusals => ~Fits(decoded[Len(enriched) + 1])
    BY <1>1 DEF Verdicts
  <2> QED
    BY <2>1, <2>2 DEF PayloadVerdict, Refusals, Fits
<1> QED
  BY <1>1, VerdictsAlways, Invariant, PTL
=============================================================================
