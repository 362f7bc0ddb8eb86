-------------------------------- MODULE Chain --------------------------------
(***************************************************************************)
(* chain/chain.go: searches that run concurrently over one Chain, its       *)
(* entries in configuration order with their limiter, retries and breaker.  *)
(* Each critical section of Chain.mu is one action, and so is everything    *)
(* between two of them that waits: the limiter, the provider, the back-off. *)
(* A provider's answer is one of "results" (a list of any length, also an   *)
(* empty one), "limited" (a RateLimitError) and "error" (anything else).    *)
(***************************************************************************)
EXTENDS Integers, Sequences

CONSTANTS Searches,   \* goroutines that call Search, each any number of times
          Retries,    \* the retries of each entry, in configuration order
          Starved,    \* entries whose limiter never grants (RateLimiter, SubUnitNeverAdmits)
          Thresholds, \* values of breakerThreshold
          Cooldown    \* breakerCooldown, in ticks

ASSUME RetriesAssumption  == Retries \in Seq(Nat)
ASSUME BreakerAssumption  == Thresholds \subseteq Nat \ {0} /\ Cooldown \in Nat \ {0}

Providers == 1..Len(Retries)

VARIABLES
    threshold, \* breakerThreshold, a constant of the code: no step changes it
    fails,     \* entry.fails
    openFor,   \* ticks until entry.openUntil; 0 when the breaker is closed
    pc,        \* where each search is; "idle" outside Search
    at,        \* the entry the loop is at; Len(Retries) + 1 after the last
    attempt,   \* the attempt of that entry
    ctx,       \* the caller's context, "live" or "done"
    outcome,   \* of the last Search: "none" while it runs
    leaked,    \* history: calls, as <<search, attempt>>, started at an entry
               \* since its breaker opened
    refused,   \* history: entries that answered "limited" to this search
    blame      \* history: what has gone wrong with each entry so far: "none",
               \* "abandoned" (a caller gave up waiting for its limiter) or
               \* "faulty" (it failed a call)

breaker == <<threshold, fails, openFor, leaked>>
history == <<refused, blame>>
vars == <<breaker, pc, at, attempt, ctx, outcome, history>>

Running(s) == pc[s] # "idle"
IsOpen(p) == openFor[p] > 0

\* The search is at an entry it found closed when it came to it.
Visiting(s) == pc[s] \in {"limiter", "calling", "won", "backoff", "failed"}

Goto(s, label) == pc' = [pc EXCEPT ![s] = label]

-----------------------------------------------------------------------------
Init ==
    /\ threshold \in Thresholds
    /\ fails = [p \in Providers |-> 0]
    /\ openFor = [p \in Providers |-> 0]
    /\ pc = [s \in Searches |-> "idle"]
    /\ at = [s \in Searches |-> 1]
    /\ attempt = [s \in Searches |-> 0]
    /\ ctx = [s \in Searches |-> "live"]
    /\ outcome = [s \in Searches |-> "none"]
    /\ leaked = [p \in Providers |-> {}]
    /\ refused = [s \in Searches |-> {}]
    /\ blame = [p \in Providers |-> "none"]

Begin(s) ==
    /\ pc[s] = "idle"
    /\ Goto(s, "gate")
    /\ outcome' = [outcome EXCEPT ![s] = "none"]
    /\ UNCHANGED <<breaker, at, attempt, ctx, history>>

\* Search returns; its local variables go back to their initial values.
Return(s, result) ==
    /\ Goto(s, "idle")
    /\ outcome' = [outcome EXCEPT ![s] = result]
    /\ at' = [at EXCEPT ![s] = 1]
    /\ attempt' = [attempt EXCEPT ![s] = 0]
    /\ ctx' = [ctx EXCEPT ![s] = "live"]
    /\ refused' = [refused EXCEPT ![s] = {}]

\* The definitions whose names end in _Bug are plausible mistakes in the
\* definition that follows; no specification uses them.

\* (the last entry is forgotten)
Exhaust_Bug(s) ==
    /\ pc[s] = "gate"
    /\ at[s] >= Len(Retries)
    /\ Return(s, "noresults")
    /\ UNCHANGED <<breaker, blame>>

\* The loop is over: ErrNoResults.
Exhaust(s) ==
    /\ pc[s] = "gate"
    /\ at[s] > Len(Retries)
    /\ Return(s, "noresults")
    /\ UNCHANGED <<breaker, blame>>

\* isOpen, the only time a visit looks at the breaker.
Skip(s) ==
    /\ pc[s] = "gate"
    /\ at[s] \in Providers
    /\ IsOpen(at[s])
    /\ at' = [at EXCEPT ![s] = at[s] + 1]
    /\ UNCHANGED <<breaker, pc, attempt, ctx, outcome, history>>

\* (the breaker is not looked at)
Enter_Bug(s) ==
    /\ pc[s] = "gate"
    /\ at[s] \in Providers
    /\ Goto(s, "limiter")
    /\ UNCHANGED <<breaker, at, attempt, ctx, outcome, history>>

Enter(s) ==
    /\ pc[s] = "gate"
    /\ at[s] \in Providers
    /\ ~IsOpen(at[s])
    /\ Goto(s, "limiter")
    /\ UNCHANGED <<breaker, at, attempt, ctx, outcome, history>>

\* limiter.Wait returns nil and the provider is called.
Admit(s) ==
    /\ pc[s] = "limiter"
    /\ at[s] \notin Starved
    /\ Goto(s, "calling")
    /\ leaked' = IF IsOpen(at[s])
                 THEN [leaked EXCEPT ![at[s]] = @ \cup {<<s, attempt[s]>>}]
                 ELSE leaked
    /\ UNCHANGED <<threshold, fails, openFor, at, attempt, ctx, outcome, history>>

\* limiter.Wait returns ctx.Err(), which leaves the loop of attempts like a
\* failure of the provider.
WaitCancelled(s) ==
    /\ pc[s] = "limiter"
    /\ ctx[s] = "done"
    /\ Goto(s, "failed")
    /\ blame' = [blame EXCEPT ![at[s]] = IF @ = "none" THEN "abandoned" ELSE @]
    /\ UNCHANGED <<breaker, at, attempt, ctx, outcome, refused>>

\* The provider's answer: a list of results, possibly empty ...
ReplyResults(s) ==
    /\ pc[s] = "calling"
    /\ Goto(s, "won")
    /\ UNCHANGED <<breaker, at, attempt, ctx, outcome, history>>

\* (retried like any error)
ReplyLimited_Bug(s) ==
    /\ pc[s] = "calling"
    /\ Goto(s, "backoff")
    /\ blame' = [blame EXCEPT ![at[s]] = "faulty"]
    /\ refused' = [refused EXCEPT ![s] = @ \cup {at[s]}]
    /\ UNCHANGED <<breaker, at, attempt, ctx, outcome>>

\* ... a RateLimitError, which is not retried ...
ReplyLimited(s) ==
    /\ pc[s] = "calling"
    /\ Goto(s, "failed")
    /\ blame' = [blame EXCEPT ![at[s]] = "faulty"]
    /\ refused' = [refused EXCEPT ![s] = @ \cup {at[s]}]
    /\ UNCHANGED <<breaker, at, attempt, ctx, outcome>>

\* ... or any other error, after which the search backs off.
ReplyError(s) ==
    /\ pc[s] = "calling"
    /\ Goto(s, "backoff")
    /\ blame' = [blame EXCEPT ![at[s]] = "faulty"]
    /\ UNCHANGED <<breaker, at, attempt, ctx, outcome, refused>>

\* (the attempt is not counted)
Retry_Bug(s) ==
    /\ pc[s] = "backoff"
    /\ attempt[s] < Retries[at[s]]
    /\ Goto(s, "limiter")
    /\ UNCHANGED <<breaker, at, attempt, ctx, outcome, history>>

\* The back-off is over: next attempt, or none is left.
Retry(s) ==
    /\ pc[s] = "backoff"
    /\ attempt[s] < Retries[at[s]]
    /\ Goto(s, "limiter")
    /\ attempt' = [attempt EXCEPT ![s] = @ + 1]
    /\ UNCHANGED <<breaker, at, ctx, outcome, history>>

LastAttemptOver(s) ==
    /\ pc[s] = "backoff"
    /\ attempt[s] >= Retries[at[s]]
    /\ Goto(s, "failed")
    /\ UNCHANGED <<breaker, at, attempt, ctx, outcome, history>>

\* (a timer that fires is taken for a cancellation)
BackoffCancelled_Bug(s) ==
    /\ pc[s] = "backoff"
    /\ Return(s, "cancelled")
    /\ UNCHANGED <<breaker, blame>>

\* The context is done during the back-off: Search returns its error, and
\* the failures it has seen are not recorded.
BackoffCancelled(s) ==
    /\ pc[s] = "backoff"
    /\ ctx[s] = "done"
    /\ Return(s, "cancelled")
    /\ UNCHANGED <<breaker, blame>>

RecordSuccess(s) ==
    /\ pc[s] = "won"
    /\ fails' = [fails EXCEPT ![at[s]] = 0]
    /\ Return(s, "results")
    /\ UNCHANGED <<threshold, openFor, leaked, blame>>

\* (the count is not reset when the breaker opens)
RecordFailure_Bug(s) ==
    /\ pc[s] = "failed"
    /\ fails' = [fails EXCEPT ![at[s]] = @ + 1]
    /\ openFor' = IF fails[at[s]] + 1 >= threshold
                  THEN [openFor EXCEPT ![at[s]] = Cooldown] ELSE openFor
    /\ Goto(s, "gate")
    /\ at' = [at EXCEPT ![s] = @ + 1]
    /\ attempt' = [attempt EXCEPT ![s] = 0]
    /\ UNCHANGED <<threshold, leaked, ctx, outcome, history>>

\* recordFailure: the threshold-th failure opens the breaker, for Cooldown
\* from now even if it is open already.
RecordFailure(s) ==
    /\ pc[s] = "failed"
    /\ LET p == at[s]
           trips == fails[p] + 1 >= threshold
       IN  /\ fails' = [fails EXCEPT ![p] = IF trips THEN 0 ELSE @ + 1]
           /\ openFor' = IF trips THEN [openFor EXCEPT ![p] = Cooldown] ELSE openFor
    /\ Goto(s, "gate")
    /\ at' = [at EXCEPT ![s] = @ + 1]
    /\ attempt' = [attempt EXCEPT ![s] = 0]
    /\ UNCHANGED <<threshold, leaked, ctx, outcome, history>>

Cancel(s) ==
    /\ Running(s)
    /\ ctx[s] = "live"
    /\ ctx' = [ctx EXCEPT ![s] = "done"]
    /\ UNCHANGED <<breaker, pc, at, attempt, outcome, history>>

\* Time passes; a breaker whose cooldown is over closes.
Tick ==
    /\ \E p \in Providers : IsOpen(p)
    /\ openFor' = [p \in Providers |-> IF IsOpen(p) THEN openFor[p] - 1 ELSE 0]
    /\ leaked' = [p \in Providers |-> IF openFor[p] > 1 THEN leaked[p] ELSE {}]
    /\ UNCHANGED <<threshold, fails, pc, at, attempt, ctx, outcome, history>>

Progress(s) ==
    \/ Exhaust(s) \/ Skip(s) \/ Enter(s) \/ Admit(s) \/ WaitCancelled(s)
    \/ ReplyResults(s) \/ ReplyLimited(s) \/ ReplyError(s)
    \/ Retry(s) \/ LastAttemptOver(s) \/ BackoffCancelled(s)
    \/ RecordSuccess(s) \/ RecordFailure(s)

Next == Tick \/ \E s \in Searches : Begin(s) \/ Progress(s) \/ Cancel(s)

Spec == Init /\ [][Next]_vars

\* Time passes.  A search that can go on does: providers answer or time out
\* (every client has a Timeout of 15 s), timers fire, mutexes are granted.
\* That the limiter admits a search which others compete with is not
\* guaranteed by the code, and SearchReturns does not rely on it.
Fairness ==
    /\ WF_vars(Tick)
    /\ \A s \in Searches : WF_vars(Progress(s))

FairSpec == Spec /\ Fairness

-----------------------------------------------------------------------------
\* The types of the chain's fields and of the searches' positions.
TypeOK ==
    /\ threshold \in Thresholds
    /\ fails \in [Providers -> 0..threshold - 1]
    /\ openFor \in [Providers -> 0..Cooldown]
    /\ pc \in [Searches -> {"idle", "gate", "limiter", "calling", "won", "backoff", "failed"}]
    /\ at \in [Searches -> 1..Len(Retries) + 1]
    /\ attempt \in [Searches -> Nat]
    /\ ctx \in [Searches -> {"live", "done"}]
    /\ outcome \in [Searches -> {"none", "results", "noresults", "cancelled"}]
    /\ leaked \in [Providers -> SUBSET (Searches \X Nat)]
    /\ refused \in [Searches -> SUBSET Providers]
    /\ blame \in [Providers -> {"none", "abandoned", "faulty"}]
    /\ \A s \in Searches : Visiting(s) => at[s] \in Providers

\* Something has gone wrong with the entry, for this search or another one.
Blamed == {p \in Providers : blame[p] # "none"}

\* ErrNoResults reaches a caller only if every provider has failed a call
\* or had a caller give up waiting for its limiter, now or earlier.
NoResultsAccounted ==
    \A s \in Searches : outcome[s] = "noresults" => Providers \subseteq Blamed

\* types.go says more: ErrNoResults means that all providers have failed (or
\* returned nothing).  For callers who have not cancelled, at least.
NoResultsMeansAllFailed ==
    [][\A s \in Searches :
        Exhaust(s) /\ ctx[s] = "live" => \A p \in Providers : blame[p] = "faulty"]_vars

\* An open breaker does not stop the searches that passed it while it was
\* closed, but it bounds them: until it closes again, each search makes each
\* of its attempts at that provider at most once, however often the breaker
\* is opened anew and however often Search is called.
LeakBounded ==
    [][\A s \in Searches :
        Admit(s) /\ IsOpen(at[s]) =>
            /\ attempt[s] <= Retries[at[s]]
            /\ <<s, attempt[s]>> \notin leaked[at[s]]]_vars

\* A provider that answered 429 is not called again by the same search.
NeverHammered ==
    [][\A s \in Searches : Admit(s) => at[s] \notin refused[s]]_vars

\* An open breaker closes again: failures recorded by the searches that were
\* on their way can prolong the cooldown, but not for ever.
BreakerCloses == \A p \in Providers : IsOpen(p) ~> ~IsOpen(p)

\* Left alone, a search returns, unless it waits with a live context for a
\* limiter that never grants.
SearchReturns ==
    \A s \in Searches :
        (<>[](\A t \in Searches \ {s} : ~Running(t)))
            => (Running(s) ~> \/ ~Running(s)
                              \/ pc[s] = "limiter" /\ at[s] \in Starved /\ ctx[s] = "live")

Promise == INSTANCE Fallback WITH
    Last <- Len(Retries),
    running <- [s \in Searches |-> Running(s)],
    cursor <- at,
    blamed <- Blamed

\* Every search is a walk down the providers as Fallback describes it.
ImplementsFallback == Promise!Spec
=============================================================================
