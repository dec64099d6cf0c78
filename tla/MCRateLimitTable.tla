--------------------------- MODULE MCRateLimitTable ---------------------------
(* RateLimitTable on a small instance for TLC. *)
EXTENDS RateLimitTable, TLC

\* Two overlapping requests are interchangeable.
RequestSymmetry == Permutations(Requests)
=============================================================================
