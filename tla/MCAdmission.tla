----------------------------- MODULE MCAdmission -----------------------------
(* The environments and requests are a usual one and what differs from it in one
   respect or two. *)
EXTENDS Admission, TLC

A == [Empty EXCEPT !.name = "a"]
B == [Empty EXCEPT !.name = "b"]
Https(a) == [a EXCEPT !.scheme = "https"]
AB == [Empty EXCEPT !.name = "ab"]
Port(a) == [a EXCEPT !.port = TRUE]
Big == [Https(Port(A)) EXCEPT !.name = "A", !.path = <<"p">>]  \* https://A:8/
Ftp == [A EXCEPT !.scheme = "f"]

Base ==
  [domains |-> <<A>>, sites |-> <<>>, set |-> {"url", "geoip", "key"}, garbled |-> {}, policy |-> "",
   value |-> [MaxFieldLength |-> 12, MaxPayloadEntries |-> 4, MaxPayloadDepth |-> 3,
              MaxEventsPerRequest |-> 2]]
With(v) == [Base EXCEPT !.value = v @@ @]
Site(s, origins) == [colon |-> TRUE, site |-> s, origins |-> origins]

MCEnvironment ==
  {Base}
  \cup {[Base EXCEPT !.domains = d] : d \in {<<>>, <<Empty>>, <<Empty, Big, B>>, <<Ftp>>}}
  \cup {[Base EXCEPT !.sites = s] :
          s \in {<<Site("s", <<A>>)>>, <<Site("s", <<A>>), Site("s", <<B>>)>>,
                 <<Site("t", <<[Ftp EXCEPT !.scheme = "g"], B>>), Site("s", <<Empty, Big>>)>>,
                 <<Site("s", <<Empty>>)>>, <<Site("", <<A>>)>>,
                 <<[Site("s", <<A>>) EXCEPT !.colon = FALSE]>>}}
  \cup {[With([RequireOrigin |-> FALSE]) EXCEPT !.sites = <<Site("s", <<A>>)>>]}
  \cup {[Base EXCEPT !.set = s] :
          s \in {{"geoip", "key"}, {"url", "key"}, {"url", "geoip", "username"},
                 {"url", "geoip", "username", "password"}}}
  \cup {[Base EXCEPT !.policy = x] : x \in {"drop_newest", "other"}}
  \cup {[Base EXCEPT !.garbled = {"MaxRetries"}]}
  \cup {With(v) : v \in {[MaxBatchSize |-> 0], [MaxFieldLength |-> -1], [MaxRetries |-> 0],
                         [MaxRetries |-> -1], [FlushInterval |-> 0], [RetryMinBackoff |-> 60001],
                         [RetryMaxBackoff |-> 999], [RetryMaxBackoff |-> 1000],
                         [MaxFieldLength |-> 1], [MaxFieldLength |-> 4], [MaxPayloadDepth |-> 1]}}
  \cup {With(v) : v \in {[TrustProxyHeaders |-> FALSE], [SanitizeURLs |-> FALSE],
                         [RequireOrigin |-> FALSE], [RequireURLHostMatch |-> FALSE],
                         [CaptureClientIP |-> TRUE], [StoreIPMetadata |-> TRUE],
                         [RequireURLHostMatch |-> FALSE, SanitizeURLs |-> FALSE]}}

-----------------------------------------------------------------------------
Page == [ZeroEvent EXCEPT !.type = "t", !.site = "s", !.url = [Https(A) EXCEPT !.path = <<"p">>]]
Single(e) == [shape |-> "object", trailing |-> FALSE, keys |-> {}, list |-> "array", events |-> <<e>>]
Batch(es) == [Single(Page) EXCEPT !.keys = {"events"}, !.events = es]
Ask(body) == [origin |-> Https(A), host |-> A, forwarded |-> Empty, referer |-> Empty, body |-> body]

Origins == {Empty, A, Port(A), Https(A), Https(AB), Https(B), Big, Ftp, [Https(A) EXCEPT !.ok = FALSE]}

Paths == {<<>>, <<"p">>, <<"p", "p", "p", "p">>, <<"p", "u", "p">>, <<"p", "e", "p">>, <<"p", "u", "u">>}
Urls ==
  {[Empty EXCEPT !.scheme = s, !.name = "a", !.port = p, !.path = x] :
     s \in {"", "//", "http", "https", "f"}, p \in BOOLEAN, x \in Paths}
  \cup {[Https(A) EXCEPT !.user = u, !.query = q, !.frag = f, !.ok = o] :
          u \in BOOLEAN, q \in BOOLEAN, f \in BOOLEAN, o \in BOOLEAN}
  \cup {[A EXCEPT !.query = TRUE, !.ok = o, !.path = x] : o \in BOOLEAN, x \in Paths}
  \cup {[AB EXCEPT !.scheme = s, !.path = x] : s \in {"", "//", "https"}, x \in Paths}
  \cup {Empty, B, [Empty EXCEPT !.path = <<"p">>]}

\* Payloads are built from the inside: x becomes the last member of p.
Leaf(kind, len) == <<[kind |-> kind, in |-> 0, key |-> 0, len |-> len]>>
Scalar == Leaf("scalar", 0)
String(n) == Leaf("string", n)
Put(p, key, x) ==
  p \o [k \in 1..Len(x) |-> IF k = 1 THEN [x[k] EXCEPT !.in = 1, !.key = key]
                            ELSE [x[k] EXCEPT !.in = @ + Len(p)]]
Filling(kind, keys, xs) ==
  IF xs = <<>> THEN Leaf(kind, 0)
  ELSE LET one == Put(Leaf(kind, 0), keys[1], xs[1])
       IN  IF Len(xs) = 1 THEN one ELSE Put(one, keys[2], xs[2])
Map(keys, xs) == Filling("map", keys, xs)
List(xs) == Filling("list", <<0, 0>>, xs)

Leaves == {Scalar, String(3), String(13)}
Nested ==
  Leaves \cup {List(<<x, y>>) : x \in Leaves, y \in {Scalar, List(<<Scalar>>)}}
  \cup {Map(<<k>>, <<x>>) : k \in {0, 1, 12, 13}, x \in {Scalar, String(13), List(<<Scalar>>)}}
  \cup {List(<<>>), Map(<<>>, <<>>), Map(<<1, 13>>, <<Map(<<0>>, <<Scalar>>), Scalar>>)}
Payloads ==
  {Map(<<>>, <<>>)} \cup {Map(<<1>>, <<x>>) : x \in Nested}
  \cup {Map(<<1, 2>>, <<x, y>>) : x \in Leaves, y \in Nested}

Events ==
  {Page}
  \cup {[Page EXCEPT !.url = a] : a \in Urls} \cup {[Page EXCEPT !.referrer = a] : a \in Urls}
  \cup {[Page EXCEPT !.payload = v] : v \in Payloads}
  \cup {[Page EXCEPT !.path = [len |-> n, tail |-> t]] : n \in {0, 11, 13}, t \in {0, 3}}
  \cup {[Page EXCEPT !.session = 13, !.anonymous = 13, !.user = 13, !.title = 13]}
  \cup {[Page EXCEPT !.zone = z, !.offset = o] : z \in {"", "z", "nowhere"}, o \in {-841, -840, 840, 841}}
  \cup {[Page EXCEPT !.stamp = t] : t \in {"given", "garbled"}}
  \cup {[Page EXCEPT !.site = s] : s \in {"t", "?"}} \cup {[Page EXCEPT !.type = "?"]}
  \cup {[Page EXCEPT !.unknown = TRUE]}
  \cup {[Page EXCEPT !.claimed = c] : c \in SUBSET {"metadata", "client_ip", "ip_metadata"}}

Few == {Page, [Page EXCEPT !.site = "t"], [Page EXCEPT !.zone = "z"], [Page EXCEPT !.zone = "nowhere"],
        [Page EXCEPT !.unknown = TRUE], ZeroEvent}
MCEvent == Events \cup Few

Bodies ==
  {[Single(Page) EXCEPT !.shape = s, !.trailing = t] : s \in {"broken", "null", "other", "object"}, t \in BOOLEAN}
  \cup {[Batch(es) EXCEPT !.trailing = t, !.keys = k, !.list = "array"] :
          t \in BOOLEAN, k \in {{"events"}, {"events", "more"}},
          es \in {<<>>, <<Page, Page, Page>>} \cup {<<x, y>> : x \in Few, y \in Few}}
  \cup {[Batch(<<>>) EXCEPT !.list = x] : x \in {"null", "other"}}

MCRequest ==
  {Ask(Single(e)) : e \in Events}
  \cup {[Ask(Single([Page EXCEPT !.url = u])) EXCEPT !.origin = o] : u \in Urls, o \in Origins}
  \cup {Ask(b) : b \in Bodies}
  \cup {[Ask(Single(Page)) EXCEPT !.referer = a] : a \in Urls}
  \cup {[Ask(Single(Page)) EXCEPT !.origin = o, !.host = h, !.forwarded = f] :
          o \in Origins, h \in {A, B, Port(A)}, f \in {Empty, B, Big}}

\* One environment is enough for a counterexample.
OneEnvironment == {Base}
=============================================================================
