------------------------------- MODULE Config --------------------------------
(***************************************************************************)
(* internal/config/config.go: Load, from the environment to a              *)
(* configuration or an error.  An environment is a record                  *)
(*                                                                         *)
(*   domains  ALLOWED_DOMAINS, split at its commas: addresses              *)
(*   sites    SITE_ORIGIN_MAP, split at its semicolons without the blank   *)
(*            parts: [colon, site, origins], the origins split at | and ,  *)
(*   set      which of the texts that must not be blank are set            *)
(*   value    the numbers, durations (in milliseconds) and booleans that   *)
(*            are set, by the name of their field                          *)
(*   garbled  the fields that are set to what cannot be parsed             *)
(*   policy   DROP_POLICY, "" when it is not set                           *)
(***************************************************************************)
EXTENDS Address

Counts == {"MaxBatchSize", "MaxQueueSize", "MaxPayloadBytes", "MaxEventsPerRequest",
           "MaxFieldLength", "MaxPayloadEntries", "MaxPayloadDepth", "RateLimitMaxClients"}
ZeroCounts == {"MaxRetries", "RateLimitPerMinute"}
Durations == {"FlushInterval", "RetryMinBackoff", "RetryMaxBackoff", "ReadTimeout",
              "WriteTimeout", "IdleTimeout"}
Flags == {"TrustProxyHeaders", "CaptureClientIP", "StoreIPMetadata", "SanitizeURLs",
          "RequireOrigin", "RequireURLHostMatch", "RequireElasticReady", "MetricsEnabled"}

\* The default values given to intValue, int64Value, duration and boolValue.
Default ==
  [FlushInterval |-> 5000, MaxBatchSize |-> 500, MaxQueueSize |-> 10000,
   MaxPayloadBytes |-> 1048576, MaxEventsPerRequest |-> 100, MaxFieldLength |-> 10240,
   MaxPayloadEntries |-> 128, MaxPayloadDepth |-> 4, MaxRetries |-> 10,
   RetryMinBackoff |-> 1000, RetryMaxBackoff |-> 60000, RetentionDays |-> 90,
   ReadTimeout |-> 10000, WriteTimeout |-> 15000, IdleTimeout |-> 60000,
   RateLimitPerMinute |-> 300, RateLimitMaxClients |-> 100000,
   TrustProxyHeaders |-> TRUE, CaptureClientIP |-> FALSE, StoreIPMetadata |-> FALSE,
   SanitizeURLs |-> TRUE, RequireOrigin |-> TRUE, RequireURLHostMatch |-> TRUE,
   RequireElasticReady |-> FALSE, MetricsEnabled |-> FALSE]

\* The code of the first check that fails, or "".
First(codes) ==
  LET failing == {k \in 1..Len(codes) : codes[k] # Blank}
  IN  IF failing = {} THEN Blank ELSE codes[Min(failing)]

When(condition, code) == IF condition THEN code ELSE Blank

\* A normalized domain has no slash: the error of addDomain never happens.
parseDomains(parts) == {normalizeDomain(parts[k]) : k \in 1..Len(parts)} \ {Blank}

\* A slip: the origins of a site's mappings are gathered.
parseGatheredOrigins(mappings) ==
  [s \in {mappings[k].site : k \in 1..Len(mappings)} |->
     UNION {parseDomains(mappings[k].origins) : k \in {j \in 1..Len(mappings) : mappings[j].site = s}}]

\* Of two mappings of a site the later one holds.
parseSiteOrigins(mappings) ==
  [s \in {mappings[k].site : k \in 1..Len(mappings)} |->
     parseDomains(mappings[Max({k \in 1..Len(mappings) : mappings[k].site = s})].origins)]

siteOriginsError(mappings) ==
  First([k \in 1..Len(mappings) |->
    First(<<When(~mappings[k].colon \/ mappings[k].site = Blank, "invalid_site_origin_mapping"),
            When(parseDomains(mappings[k].origins) = {}, "site_has_no_allowed_origins")>>)])

-----------------------------------------------------------------------------
\* A slip: the numbers are tested for a minus sign only.
outOfRangeBelowZero(c) ==
  First(<<When(\E f \in Counts \cup ZeroCounts : c[f] < 0, "numeric_config_values_must_be_positive"),
          When(\E f \in Durations : c[f] <= 0, "duration_config_values_must_be_positive"),
          When(c.RetryMinBackoff > c.RetryMaxBackoff,
               "RETRY_MIN_BACKOFF_must_not_exceed_RETRY_MAX_BACKOFF")>>)

\* The last checks of Load.
outOfRange(c) ==
  First(<<When(\/ \E f \in Counts : c[f] <= 0
               \/ \E f \in ZeroCounts : c[f] < 0, "numeric_config_values_must_be_positive"),
          When(\E f \in Durations : c[f] <= 0, "duration_config_values_must_be_positive"),
          When(c.RetryMinBackoff > c.RetryMaxBackoff,
               "RETRY_MIN_BACKOFF_must_not_exceed_RETRY_MAX_BACKOFF")>>)

\* What f says, and otherwise g.
Over(f, g) == [x \in DOMAIN f \cup DOMAIN g |-> IF x \in DOMAIN f THEN f[x] ELSE g[x]]

\* The configuration that Load fills in.
Filled(env) ==
  Over(env.value,
       Over(Default, [AllowedDomainSet |-> parseDomains(env.domains),
                      SiteOriginSet |-> parseSiteOrigins(env.sites),
                      DropPolicy |-> IF env.policy = Blank THEN "reject" ELSE env.policy]))

\* The error of Load, or "".
LoadError(env) ==
  LET c == Filled(env)
  IN  First(<<siteOriginsError(env.sites),
              When(c.AllowedDomainSet = {}, "ALLOWED_DOMAINS_is_required"),
              When("url" \notin env.set, "ELASTICSEARCH_URL_is_required"),
              When("geoip" \notin env.set, "GEOIP_DB_PATH_is_required"),
              When("key" \notin env.set /\ ~({"username", "password"} \subseteq env.set),
                   "ELASTICSEARCH_API_KEY_or_username/password_is_required"),
              When(env.garbled # {}, "unparsable_value"),
              When(c.DropPolicy \notin {"reject", "drop_newest"}, "invalid_DROP_POLICY"),
              outOfRange(c)>>)
=============================================================================
