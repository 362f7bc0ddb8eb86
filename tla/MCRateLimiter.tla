---------------------------- MODULE MCRateLimiter ----------------------------
(* RateLimiter with two callers, two ticks per second and two units per     *)
(* tick for one request per second, so that the rates 0..3 are one request  *)
(* per second by default, then 0.5, 1 and 1.5.                              *)
EXTENDS RateLimiter

CONSTANTS c1, c2

TwoCallers == {c1, c2}

AllRates == 0..3

\* Below one request per second, as startpage's default of 0.2.
SlowRates == {1}
=============================================================================
