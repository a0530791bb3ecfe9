------------------------------- MODULE Payload -------------------------------
(***************************************************************************)
(* The payload of an event, events.go: truncatePayload, validatePayload.   *)
(* A payload is the sequence of the values in it, itself the first, as     *)
(* they begin in its text.  A value is a record                            *)
(*   kind  "scalar" (null, a boolean or a number), "string", "map", "list" *)
(*   in    the place of the map or list it is a member of, 0 for the first *)
(*   key   the length of its key, in a map                                 *)
(*   len   the length of a string                                          *)
(* JSON knows no other kinds, so that the default of validatePayloadValue  *)
(* is never taken.  Go walks the members of a map in any order, those of a *)
(* list in theirs.  What a call of a recursive function returns for each   *)
(* value is a function on the places.                                      *)
(***************************************************************************)
EXTENDS Address

NoPayload == <<>>  \* nil
EmptyPayload == <<[kind |-> "map", in |-> 0, key |-> 0, len |-> 0]>>

Collection == {"map", "list"}
Values == [kind : {"scalar", "string"} \cup Collection, in : Nat, key : Nat, len : Nat]

IsPayload(p) ==
  /\ p \in Seq(Values)
  /\ p # NoPayload => p[1].kind = "map" /\ p[1].in = 0
  /\ \A k \in 2..Len(p) : p[k].in \in 1..(k - 1) /\ p[p[k].in].kind \in Collection

Members(p, k) == {j \in 1..Len(p) : p[j].in = k}
InMap(p, k) == k > 1 /\ p[p[k].in].kind = "map"

-----------------------------------------------------------------------------
\* The values to which the walk comes that goes into collections of these kinds.
Visited(p, kinds) ==
  LET visited[k \in 1..Len(p)] ==
        k = 1 \/ (p[p[k].in].kind \in kinds /\ visited[p[k].in])
  IN  visited

\* A slip: the walk does not go into lists.
WalkMaps(p) == Visited(p, {"map"})

\* The walk of truncatePayload and truncatePayloadValue.
Walk(p) == Visited(p, Collection)

\* The strings it comes to are cut; keys are not.
truncatePayload(p, max) ==
  [k \in 1..Len(p) |->
     IF Walk(p)[k] /\ p[k].kind = "string" THEN [p[k] EXCEPT !.len = truncateString(@, max)]
     ELSE p[k]]

-----------------------------------------------------------------------------
\* The depth with which validatePayloadValue is called for a value.
Depth(p) ==
  LET depth[k \in 1..Len(p)] == IF k = 1 THEN 1 ELSE depth[p[k].in] + 1
  IN  depth

\* The errors that it may return for each value, none when it comes to its end:
\* for a list those of the first bad member, for a map those of any.
PayloadErrors(p, maxDepth, maxFieldLength) ==
  LET errors[k \in 1..Len(p)] ==
        LET badKey(j) == p[k].kind = "map" /\ p[j].key \notin 1..maxFieldLength
            met(j) == IF badKey(j) THEN {"invalid_payload_key"} ELSE errors[j]
            bad == {j \in Members(p, k) : met(j) # {}}
        IN  CASE Depth(p)[k] > maxDepth -> {"payload_exceeds_max_depth"}
              [] Depth(p)[k] <= maxDepth /\ p[k].kind = "scalar" -> {}
              [] Depth(p)[k] <= maxDepth /\ p[k].kind = "string" ->
                   IF p[k].len > maxFieldLength THEN {"payload_string_too_long"} ELSE {}
              [] Depth(p)[k] <= maxDepth /\ p[k].kind = "map" -> UNION {met(j) : j \in bad}
              [] Depth(p)[k] <= maxDepth /\ p[k].kind = "list" ->
                   IF bad = {} THEN {} ELSE met(Min(bad))
  IN  errors

\* The numbers of a sequence added up.
Total(numbers) ==
  LET sum[n \in 0..Len(numbers)] == IF n = 0 THEN 0 ELSE sum[n - 1] + numbers[n]
  IN  sum[Len(numbers)]

One(b) == IF b THEN 1 ELSE 0

\* A slip: a member that is a map or a list counts for what is in it only.
LeafCount(p) ==
  LET count[k \in 1..Len(p)] ==
        IF p[k].kind \notin Collection THEN 1
        ELSE Total([j \in 1..Len(p) |->
               IF j \in Members(p, k)
                 THEN count[j] + One(p[k].kind = "map" /\ p[j].kind \notin Collection) ELSE 0])
  IN  count

\* The count that it returns for each value when there is no error.
PayloadCount(p) ==
  LET count[k \in 1..Len(p)] ==
        IF p[k].kind \notin Collection THEN 1
        ELSE Total([j \in 1..Len(p) |->
               IF j \in Members(p, k) THEN count[j] + One(p[k].kind = "map") ELSE 0])
  IN  count

\* The errors of validatePayload.
validatePayload(p, maxEntries, maxDepth, maxFieldLength) ==
  LET errors == PayloadErrors(p, maxDepth, maxFieldLength)[1]
  IN  CASE p = NoPayload -> {}
        [] p # NoPayload /\ errors # {} -> errors
        [] p # NoPayload /\ errors = {} ->
             IF PayloadCount(p)[1] > maxEntries THEN {"payload_has_too_many_entries"} ELSE {}

-----------------------------------------------------------------------------
\* What validatePayload asks for, strings being shortened and without a walk: no
\* value is too deep, no key empty or too long, and there are not too many entries.
\* An entry is what validatePayloadValue counts as one: every member of a map, and
\* once more every scalar or string wherever it stands.  A flat map of n scalars
\* has 2n of them.
WithinLimits(p, maxEntries, maxDepth, maxFieldLength) ==
  /\ \A k \in 1..Len(p) :
       /\ Depth(p)[k] <= maxDepth
       /\ InMap(p, k) => p[k].key \in 1..maxFieldLength
  /\ Cardinality({k \in 1..Len(p) : InMap(p, k)})
       + Cardinality({k \in 1..Len(p) : p[k].kind \notin Collection}) <= maxEntries
=============================================================================
