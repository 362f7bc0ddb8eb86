----------------------------- MODULE TokenBucket -----------------------------
(***************************************************************************)
(* What package ratelimit promises, without callers, contexts or timers: a *)
(* bucket of rate * Hz units, filled by `rate` units per tick, from which   *)
(* a token of Token units is taken only when a whole one is there.          *)
(* `taken` and `span` are the grants and the ticks of the current window   *)
(* of observation; Mark closes it and opens the next one at any moment.     *)
(***************************************************************************)
EXTENDS Integers

CONSTANTS Hz,       \* ticks per second: the burst is one second of refill
          Token     \* units of one token

VARIABLES rate, level, span, taken

vars == <<rate, level, span, taken>>

Init ==
    /\ rate \in Nat \ {0}
    /\ level = rate * Hz
    /\ span = 0
    /\ taken = 0

Take ==
    /\ level >= Token
    /\ level' = level - Token
    /\ taken' = taken + 1
    /\ UNCHANGED <<rate, span>>

Tick ==
    /\ level' = IF level + rate <= rate * Hz THEN level + rate ELSE rate * Hz
    /\ span' = span + 1
    /\ UNCHANGED <<rate, taken>>

Mark ==
    /\ span' = 0
    /\ taken' = 0
    /\ UNCHANGED <<rate, level>>

Next == Take \/ Tick \/ Mark

Spec == Init /\ [][Next]_vars
=============================================================================
