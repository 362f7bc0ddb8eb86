----------------------------- MODULE MCFetcher -----------------------------
(* Fetcher with one URL, two interchangeable workers, and a robots.txt that *)
(* denies it, or loses the denial in its group, or does not deny it.        *)
EXTENDS Fetcher, FiniteSets, SequencesExt

CONSTANTS w1, w2, u

TwoWorkers == {w1, w2}
OneUrl == {u}
Symmetry == Permutations(TwoWorkers)

Denying == <<Agent("star"), Deny({u})>>
Sparing == <<Agent("other"), Deny({u})>>

\* The caches take no notice of the rules, and the rules none of the caches or
\* of what a page is. Three pages are an older, a newer and one overtaken; with a
\* restart, which empties the first tier, two tell the story.
Caches == [robots : {FALSE}, disk : BOOLEAN, file : {Denying}, pages : {2}, restarts : {1}]
LongCaches == [robots : {FALSE}, disk : {TRUE}, file : {Denying}, pages : {3}, restarts : {0}]
Rules == [robots : {TRUE}, disk : {FALSE}, file : {Denying, Sparing}, pages : {1}, restarts : {1}]
AllSettings == Caches \cup LongCaches \cup Rules

LineKinds == {Agent("star"), Agent("fragment"), Agent("other"), Deny({1}), Deny({2}), Ignored}

\* Every file of up to four lines.
ShortFiles == BoundedSeq(LineKinds, 4)
=============================================================================
