------------------------------- MODULE Address -------------------------------
(***************************************************************************)
(* Host names, origins and URLs, and what config.go, events.go and         *)
(* server.go make of them.  An address is the parts of a text:             *)
(*                                                                         *)
(*   scheme  "" (the text begins with the name), "//", or a scheme and //  *)
(*   user    there is userinfo before the name (only after a //)           *)
(*   name    "", a name of one letter, or the longer name "ab"             *)
(*   port    there is a port                                               *)
(*   path    one item per character, the first one a slash: "p" stands for *)
(*           itself, "e" is an escape %xx, "u" has to be escaped           *)
(*   query, frag   there is a ? or a # part                                *)
(*   ok      url.Parse accepts it                                          *)
(*                                                                         *)
(* Userinfo, ports, queries and fragments have the length of the shortest  *)
(* ones there are.  A blank text is the empty one: nothing below depends   *)
(* on the difference but the spaces kept in a field.                       *)
(***************************************************************************)
EXTENDS Integers, Sequences, FiniteSetsExt

\* The blank text.
Blank == ""

Empty == [ok |-> TRUE, scheme |-> Blank, user |-> FALSE, name |-> Blank, port |-> FALSE,
          path |-> <<>>, query |-> FALSE, frag |-> FALSE]

Addresses ==
  [ok : BOOLEAN, scheme : STRING, user : BOOLEAN, name : STRING, port : BOOLEAN,
   path : Seq({"p", "e", "u"}), query : BOOLEAN, frag : BOOLEAN]

NameLength(name) == CASE name = Blank -> 0 [] name = "ab" -> 2 [] OTHER -> 1

\* The scheme and the slashes; another scheme than these is a name.
SchemeLength(a) ==
  CASE a.scheme = Blank -> 0 [] a.scheme = "//" -> 2 [] a.scheme = "http" -> 7
    [] a.scheme = "https" -> 8 [] OTHER -> NameLength(a.scheme) + 3

PathLength(path) == Len(path) + 2 * Cardinality({k \in 1..Len(path) : path[k] = "e"})

\* The bytes of an address.
Length(a) ==
  LET two(b) == IF b THEN 2 ELSE 0
  IN  SchemeLength(a) + NameLength(a.name) + PathLength(a.path)
        + two(a.user) + two(a.port) + two(a.query) + two(a.frag)

Lower(name) == IF name = "A" THEN "a" ELSE name

\* A slip: only http:// is stripped.
normalizeHttpDomain(a) ==
  CASE a.scheme \in {Blank, "http"} -> Lower(a.name)
    [] a.scheme = "//" -> Blank
    [] OTHER -> a.scheme

\* http:// and https:// are stripped, then everything from the first / and from
\* the first colon: of another scheme the scheme is left.  Only addresses with no
\* userinfo and no query are normalized: hosts, origins and listed domains.
normalizeDomain(a) ==
  CASE a.scheme \in {Blank, "http", "https"} -> Lower(a.name)
    [] a.scheme = "//" -> Blank
    [] OTHER -> a.scheme

\* What is left of a text of n bytes.
truncateString(n, max) == IF n <= max THEN n ELSE max

-----------------------------------------------------------------------------
\* External: without a scheme, url.Parse takes what precedes a colon for the
\* scheme, and the rest for an opaque part without host and path.
Opaque(a) == a.scheme = Blank /\ a.port
ParsedScheme(a) == IF Opaque(a) THEN a.name ELSE a.scheme

\* The parsed host, or else the parsed path, as a domain.
normalizedURLHost(a) == IF ~a.ok \/ Opaque(a) THEN Blank ELSE Lower(a.name)

\* Blank texts match; what has no host matches nothing.
urlMatchesOrigin(url, origin) ==
  \/ url = Empty \/ origin = Empty
  \/ normalizedURLHost(url) # Blank /\ normalizedURLHost(url) = normalizedURLHost(origin)

\* External: parsed.String() and EscapedPath() escape what has to be escaped, but
\* not in an opaque part.
Escaped(a) ==
  [k \in 1..Len(a.path) |-> IF a.path[k] = "u" /\ ~Opaque(a) THEN "e" ELSE a.path[k]]

Stripped(a) ==
  [a EXCEPT !.user = FALSE, !.query = FALSE, !.frag = FALSE, !.path = Escaped(a)]

\* A slip: a fragment stays.
sanitizeQuery(a) ==
  IF a = Empty \/ ~a.ok THEN a ELSE [Stripped(a) EXCEPT !.frag = a.frag]

sanitizeURL(a) == IF a = Empty \/ ~a.ok THEN a ELSE Stripped(a)

\* The first n bytes of an escaped path.  Within an escape they leave a % that
\* url.Parse refuses.
FirstBytes(path, n) ==
  LET fit  == Max({k \in 0..Len(path) : PathLength(SubSeq(path, 1, k)) <= n})
      left == IF fit = Len(path) THEN 0 ELSE n - PathLength(SubSeq(path, 1, fit))
  IN  [path |-> SubSeq(path, 1, fit) \o [k \in 1..left |-> "p"], ok |-> left = 0]

\* A slip: what is kept is put together without the host.
PrefixNoHost(a) == [Empty EXCEPT !.scheme = IF a.scheme = "//" THEN Blank ELSE a.scheme]

\* What is kept before the path: scheme://host, or the host alone; and the name
\* that stands at the beginning of the text.
Prefix(a) ==
  IF Opaque(a) THEN [Empty EXCEPT !.scheme = a.name]
  ELSE [Empty EXCEPT !.scheme = IF a.scheme = "//" THEN Blank ELSE a.scheme,
                     !.name = a.name, !.port = a.port]

\* The first n bytes of a name, n > 0: only "ab" is ever cut.
FirstLetters(name, n) == IF NameLength(name) <= n THEN name ELSE "a"

\* The prefix, before as much of the path as there is room for.  A name at the
\* beginning of the text is not the host but part of the parsed path: the prefix
\* is empty, and the name is cut like the rest of the path.
CutAfterHost(a, max) ==
  LET inPath == a.scheme = Blank /\ ~Opaque(a)
      before == IF inPath THEN [Prefix(a) EXCEPT !.name = FirstLetters(@, max)] ELSE Prefix(a)
      room   == max - Length(before)
      cut    == FirstBytes(IF Opaque(a) THEN <<>> ELSE Escaped(a), room)
  IN  IF inPath \/ room > 0 THEN [before EXCEPT !.path = cut.path, !.ok = cut.ok] ELSE Empty

truncateURLField(a, max) ==
  IF Length(a) <= max THEN a
  ELSE IF ~a.ok THEN Empty
  ELSE IF Length(Stripped(a)) <= max THEN Stripped(a)
  ELSE CutAfterHost(a, max)

validateURLField(a, max) ==
  CASE a = Empty -> Blank
    [] a # Empty /\ Length(a) > max -> "url_field_too_long"
    [] a # Empty /\ ~(Length(a) > max) /\ ~a.ok -> "invalid_url"
    [] OTHER -> IF ParsedScheme(a) \in {Blank, "//", "http", "https"} THEN Blank ELSE "invalid_url_scheme"
=============================================================================
