----------------------------- MODULE RateLimiter -----------------------------
(***************************************************************************)
(* ratelimit/ratelimit.go: one Limiter shared by concurrent callers of     *)
(* Wait.  Tokens are integers: a limiter configured for one request per    *)
(* second gains Unit units per tick, there are Hz ticks in a second, and    *)
(* one token is Unit * Hz units, so rates on either side of one per second  *)
(* are exact.  The section under the mutex is one action.                   *)
(***************************************************************************)
EXTENDS Integers, FiniteSets

CONSTANTS Callers,  \* goroutines that call Wait
          Rates,    \* configured rates, in units per tick (may be <= 0)
          Unit,     \* the rate of one request per second, in units per tick
          Hz,       \* ticks per second
          MaxSpan   \* bound: ticks in one window of observation

ASSUME RatesAssumption == Rates \subseteq Int
ASSUME ScaleAssumption == Unit \in Nat \ {0} /\ Hz \in Nat \ {0}
ASSUME SpanAssumption  == MaxSpan \in Nat

VARIABLES
    rate,    \* Limiter.rate, and Limiter.max in tokens per second
    tokens,  \* Limiter.tokens, as of lastFill
    idle,    \* ticks since lastFill; counting stops at Hz, when the bucket is full
    phase,   \* "out", "try" (at the top of the loop) or "nap" (in the select)
    nap,     \* ticks until the caller's time.After fires
    ctx,     \* "live" or "done"
    span,    \* history: ticks of the current window
    taken    \* history: tokens granted in the current window

vars == <<rate, tokens, idle, phase, nap, ctx, span, taken>>
window == <<span, taken>>

Lesser(a, b) == IF a <= b THEN a ELSE b

Token == Unit * Hz

\* The definitions whose names end in _Bug are plausible mistakes in the
\* definition that follows; no specification uses them.

\* New: a rate of zero or less means one request per second.
EffectiveRate(r) == IF r <= 0 THEN Unit ELSE r

\* (one unit short of a second's worth)
Capacity_Bug(r) == r * Hz - 1

\* (never smaller than one token)
CapacityFloor_Bug(r) == IF r * Hz < Token THEN Token ELSE r * Hz

\* The bucket holds one second of refill, not at least one token.
Capacity(r) == r * Hz

\* (the refill is not capped)
Refill_Bug(r, t, ticks) == t + r * ticks

\* The refill Wait computes on entry to its critical section.
Refill(r, t, ticks) == Lesser(Capacity(r), t + r * ticks)
Level == Refill(rate, tokens, idle)

\* Ticks until the missing part of a token has been earned, rounded up.
Need(r, level) == (Token - level + r - 1) \div r

Waiting(c) == phase[c] # "out"

-----------------------------------------------------------------------------
Init ==
    /\ rate \in {EffectiveRate(r) : r \in Rates}
    /\ tokens = Capacity(rate)
    /\ idle = 0
    /\ phase = [c \in Callers |-> "out"]
    /\ nap = [c \in Callers |-> 0]
    /\ ctx = [c \in Callers |-> "live"]
    /\ span = 0
    /\ taken = 0

\* A caller enters Wait with a fresh context, which may already be done.
Call(c) ==
    /\ phase[c] = "out"
    /\ phase' = [phase EXCEPT ![c] = "try"]
    /\ \E s \in {"live", "done"} : ctx' = [ctx EXCEPT ![c] = s]
    /\ UNCHANGED <<rate, tokens, idle, nap, window>>

\* (lastFill is not updated by the pass that takes a token)
Grant_Bug(c) ==
    /\ phase[c] = "try"
    /\ Level >= Token
    /\ tokens' = Level - Token
    /\ taken' = taken + 1
    /\ phase' = [phase EXCEPT ![c] = "out"]
    /\ UNCHANGED <<rate, idle, nap, ctx, span>>

\* The locked section finds a whole token: Wait returns nil.  The context
\* has not been looked at.
Grant(c) ==
    /\ phase[c] = "try"
    /\ Level >= Token
    /\ tokens' = Level - Token
    /\ idle' = 0
    /\ taken' = taken + 1
    /\ phase' = [phase EXCEPT ![c] = "out"]
    /\ UNCHANGED <<rate, nap, ctx, span>>

\* The locked section finds too little: unlock and wait for the timer.
Sleep(c) ==
    /\ phase[c] = "try"
    /\ Level < Token
    /\ tokens' = Level
    /\ idle' = 0
    /\ nap' = [nap EXCEPT ![c] = Need(rate, Level)]
    /\ phase' = [phase EXCEPT ![c] = "nap"]
    /\ UNCHANGED <<rate, ctx, window>>

\* The timer branch of the select: go round the loop.
Wake(c) ==
    /\ phase[c] = "nap"
    /\ nap[c] = 0
    /\ phase' = [phase EXCEPT ![c] = "try"]
    /\ UNCHANGED <<rate, tokens, idle, nap, ctx, window>>

\* (the context is looked at only once the timer has fired and a token is there)
Abort_Bug(c) ==
    /\ phase[c] = "nap"
    /\ nap[c] = 0
    /\ ctx[c] = "done"
    /\ Level >= Token
    /\ phase' = [phase EXCEPT ![c] = "out"]
    /\ nap' = [nap EXCEPT ![c] = 0]
    /\ UNCHANGED <<rate, tokens, idle, ctx, window>>

\* The context branch of the select: Wait returns ctx.Err().
Abort(c) ==
    /\ phase[c] = "nap"
    /\ ctx[c] = "done"
    /\ phase' = [phase EXCEPT ![c] = "out"]
    /\ nap' = [nap EXCEPT ![c] = 0]
    /\ UNCHANGED <<rate, tokens, idle, ctx, window>>

Cancel(c) ==
    /\ Waiting(c)
    /\ ctx[c] = "live"
    /\ ctx' = [ctx EXCEPT ![c] = "done"]
    /\ UNCHANGED <<rate, tokens, idle, phase, nap, window>>

Tick ==
    /\ span < MaxSpan
    /\ span' = span + 1
    /\ idle' = Lesser(idle + 1, Hz)
    /\ nap' = [c \in Callers |-> IF nap[c] > 0 THEN nap[c] - 1 ELSE 0]
    /\ UNCHANGED <<rate, tokens, phase, ctx, taken>>

\* Observation only: start a new window.
Mark ==
    /\ span' = 0
    /\ taken' = 0
    /\ UNCHANGED <<rate, tokens, idle, phase, nap, ctx>>

Step(c) == Call(c) \/ Grant(c) \/ Sleep(c) \/ Wake(c) \/ Abort(c) \/ Cancel(c)

Next == Tick \/ Mark \/ \E c \in Callers : Step(c)

Spec == Init /\ [][Next]_vars

\* Time passes, the mutex is eventually granted, and a select with a ready
\* branch returns.  Go picks a ready branch of a select at random, so a done
\* context found again and again is not overlooked for ever (strong fairness).
\* Nobody is obliged to call Wait or to cancel it.
Fairness ==
    /\ WF_vars(Tick)
    /\ WF_vars(Mark)
    /\ \A c \in Callers :
        /\ WF_vars(Grant(c) \/ Sleep(c))
        /\ WF_vars(Wake(c) \/ Abort(c))
        /\ SF_vars(Abort(c))

FairSpec == Spec /\ Fairness

-----------------------------------------------------------------------------
\* The types of the limiter's fields and of the callers' positions.
TypeOK ==
    /\ rate \in Nat \ {0}
    /\ tokens \in 0..Capacity(rate)
    /\ idle \in 0..Hz
    /\ phase \in [Callers -> {"out", "try", "nap"}]
    /\ nap \in [Callers -> Nat]
    /\ ctx \in [Callers -> {"live", "done"}]
    /\ span \in Nat
    /\ taken \in Nat

\* However the callers interleave, a window of any length admits at most one
\* burst (a second's worth of requests) plus what is earned during it.
WindowBound == taken * Token <= Capacity(rate) + rate * span

\* A limiter below one request per second never admits anybody: its bucket
\* is smaller than one token, so Wait goes round its loop for ever.
SubUnitNeverAdmits == rate < Unit => Level < Token /\ taken = 0

\* At one request per second or more, a caller that is left alone with the
\* limiter comes back, whatever the others took before they left.
ServedWhenAlone ==
    \A c \in Callers :
        (/\ rate >= Unit
         /\ <>[](\A d \in Callers \ {c} : ~Waiting(d)))
            => (Waiting(c) ~> ~Waiting(c))

\* A caller whose context is done comes back, at any rate and whatever the
\* others do, although the context is looked at only while it naps.
CancelledReturns ==
    \A c \in Callers : Waiting(c) /\ ctx[c] = "done" ~> ~Waiting(c)

\* Every configured rate lets requests through, only slower: what the
\* startpage default of 0.2 requests per second relies on.
ServedAtAnyRate ==
    \A c \in Callers :
        (<>[](\A d \in Callers \ {c} : ~Waiting(d)))
            => (Waiting(c) ~> ~Waiting(c))

Bucket == INSTANCE TokenBucket WITH level <- Level

\* The lazy refill, done only when somebody calls, implements a bucket that
\* is refilled at every tick.
ImplementsTokenBucket == Bucket!Spec
=============================================================================
