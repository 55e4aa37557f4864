--------------------------- MODULE MCRateLimiter ---------------------------
(* An instance of RateLimiter.  The rounded pairs are those of IEEE doubles: *)
(* with four ticks to the second the periods are powers of two of a second,  *)
(* and every quotient is exact.                                              *)
EXTENDS RateLimiter

ExactPairs == {}

\* 0/0 as a long: a negative number, as on x86, or 0, as on ARM.
SomeNaNCasts == {-1, 0}
=============================================================================
