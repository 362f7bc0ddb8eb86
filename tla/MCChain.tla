------------------------------- MODULE MCChain -------------------------------
(* Chain with two searches over two entries, the first retried once.         *)
EXTENDS Chain

CONSTANTS s1, s2

TwoSearches == {s1, s2}
TwoEntries == <<1, 0>>
=============================================================================
