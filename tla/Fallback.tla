------------------------------- MODULE Fallback -------------------------------
(***************************************************************************)
(* What package chain promises each caller of Search, without attempts,    *)
(* breakers, limiters or back-off: providers are passed in order, one is    *)
(* passed over only after it has been blamed for something, the answer is   *)
(* that of the provider the search stands at, "no results" comes after the  *)
(* last one, and a context error only reaches a caller whose context is     *)
(* done.                                                                    *)
(***************************************************************************)
EXTENDS Integers

CONSTANTS Searches,
          Last        \* the number of providers

VARIABLES running,    \* [Searches -> BOOLEAN]
          cursor,     \* [Searches -> 1..Last + 1], the provider a search is at
          outcome,    \* "none", "results", "noresults" or "cancelled"
          ctx,        \* "live" or "done"
          blamed      \* providers something has gone wrong with, ever

vars == <<running, cursor, outcome, ctx, blamed>>

Init ==
    /\ running = [s \in Searches |-> FALSE]
    /\ cursor = [s \in Searches |-> 1]
    /\ outcome = [s \in Searches |-> "none"]
    /\ ctx = [s \in Searches |-> "live"]
    /\ blamed = {}

Start(s) ==
    /\ ~running[s]
    /\ running' = [running EXCEPT ![s] = TRUE]
    /\ outcome' = [outcome EXCEPT ![s] = "none"]
    /\ UNCHANGED <<cursor, ctx, blamed>>

PassOver(s) ==
    /\ running[s]
    /\ cursor[s] \in blamed
    /\ cursor' = [cursor EXCEPT ![s] = cursor[s] + 1]
    /\ UNCHANGED <<running, outcome, ctx, blamed>>

Return(s, result) ==
    /\ running[s]
    /\ running' = [running EXCEPT ![s] = FALSE]
    /\ cursor' = [cursor EXCEPT ![s] = 1]
    /\ outcome' = [outcome EXCEPT ![s] = result]
    /\ ctx' = [ctx EXCEPT ![s] = "live"]
    /\ UNCHANGED blamed

Answer(s) == cursor[s] <= Last /\ Return(s, "results")

GiveUp(s) == cursor[s] = Last + 1 /\ Return(s, "noresults")

Abandon(s) == ctx[s] = "done" /\ Return(s, "cancelled")

Cancel(s) ==
    /\ running[s]
    /\ ctx' = [ctx EXCEPT ![s] = "done"]
    /\ UNCHANGED <<running, cursor, outcome, blamed>>

Blame(p) ==
    /\ blamed' = blamed \cup {p}
    /\ UNCHANGED <<running, cursor, outcome, ctx>>

Next ==
    \/ \E s \in Searches :
        Start(s) \/ PassOver(s) \/ Answer(s) \/ GiveUp(s) \/ Abandon(s) \/ Cancel(s)
    \/ \E p \in 1..Last : Blame(p)

Spec == Init /\ [][Next]_vars
=============================================================================
