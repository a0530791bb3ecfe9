------------------------------ MODULE MCHttpApi ------------------------------
(* The request handlers on small instances: each kind of request once.     *)
EXTENDS HttpApi

Good == [site |-> TRUE, url |-> TRUE, valid |-> TRUE]
Sent(events) ==
  [allowed |-> TRUE, origin |-> TRUE, json |-> TRUE, domain |-> TRUE,
   body |-> IF events = <<>> THEN "no_events" ELSE "events", events |-> events]

\* One or two good events, then everything that can be wrong with a request.
Accepted == {Sent(<<Good>>), Sent(<<Good, Good>>)}
Refused ==
  {[Sent(<<Good>>) EXCEPT !.allowed = FALSE], [Sent(<<Good>>) EXCEPT !.origin = FALSE],
   [Sent(<<Good, Good>>) EXCEPT !.domain = FALSE],
   [Sent(<<Good>>) EXCEPT !.json = FALSE], [Sent(<<>>) EXCEPT !.body = "unreadable"],
   [Sent(<<>>) EXCEPT !.body = "empty"], [Sent(<<>>) EXCEPT !.body = "garbled"],
   Sent(<<>>), Sent(<<Good, Good, Good>>),
   Sent(<<Good, [Good EXCEPT !.site = FALSE]>>),
   Sent(<<Good, [Good EXCEPT !.url = FALSE]>>),
   Sent(<<Good, [Good EXCEPT !.valid = FALSE]>>)}

MCRequest == Accepted \cup Refused
=============================================================================
