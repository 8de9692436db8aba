--------------------------- MODULE MCRateLimiter ----------------------------
(* Requests are interchangeable: each may come from any address.            *)
EXTENDS RateLimiter, TLC

RequestSymmetry == Permutations(Requests)
=============================================================================
