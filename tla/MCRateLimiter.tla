---------------------------- MODULE MCRateLimiter ----------------------------
(* The rate limiter on small instances; the clients, and the handlers, are *)
(* interchangeable.                                                        *)
EXTENDS RateLimiter, TLC

Symmetry == Permutations(Client) \cup Permutations(Handler)
=============================================================================
