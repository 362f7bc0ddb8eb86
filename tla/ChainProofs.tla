----------------------------- MODULE ChainProofs -----------------------------
(***************************************************************************)
(* What Chain guarantees for every number of searches and entries, every   *)
(* retry policy, threshold and cooldown.                                    *)
(***************************************************************************)
EXTENDS Chain, TLAPS

LEMMA LenNat == Len(Retries) \in Nat /\ \A p \in Providers : Retries[p] \in Nat
BY RetriesAssumption DEF Providers

LEMMA InitType == Init => TypeOK
BY LenNat, BreakerAssumption DEF Init, TypeOK, Visiting, Providers

\* Every action keeps the types; a search stands at an entry during a visit.
LEMMA StepType == TypeOK /\ [Next]_vars => TypeOK'
<1> SUFFICES ASSUME TypeOK, [Next]_vars PROVE TypeOK'
    OBVIOUS
<1> USE LenNat, BreakerAssumption DEF TypeOK, breaker, history, Goto, Return, Visiting
<1>1. ASSUME NEW s \in Searches, Begin(s) PROVE TypeOK'
    BY <1>1 DEF Begin
<1>2. ASSUME NEW s \in Searches, Exhaust(s) PROVE TypeOK'
    BY <1>2 DEF Exhaust
<1>3. ASSUME NEW s \in Searches, Skip(s) PROVE TypeOK'
    BY <1>3, SMTT(30) DEF Skip, Providers
<1>4. ASSUME NEW s \in Searches, Enter(s) PROVE TypeOK'
    BY <1>4 DEF Enter
<1>5. ASSUME NEW s \in Searches, Admit(s) PROVE TypeOK'
    <2>1. leaked' \in [Providers -> SUBSET (Searches \X Nat)]
        <3>1. at[s] \in Providers /\ <<s, attempt[s]>> \in Searches \X Nat
            BY <1>5 DEF Admit
        <3>2. QED
            BY <1>5, <3>1 DEF Admit
    <2>2. QED
        BY <1>5, <2>1 DEF Admit
<1>6. ASSUME NEW s \in Searches, WaitCancelled(s) PROVE TypeOK'
    BY <1>6 DEF WaitCancelled
<1>7. ASSUME NEW s \in Searches, ReplyResults(s) PROVE TypeOK'
    BY <1>7 DEF ReplyResults
<1>8. ASSUME NEW s \in Searches, ReplyLimited(s) PROVE TypeOK'
    BY <1>8 DEF ReplyLimited
<1>9. ASSUME NEW s \in Searches, ReplyError(s) PROVE TypeOK'
    BY <1>9 DEF ReplyError
<1>10. ASSUME NEW s \in Searches, Retry(s) PROVE TypeOK'
    BY <1>10, SMTT(30) DEF Retry
<1>11. ASSUME NEW s \in Searches, LastAttemptOver(s) PROVE TypeOK'
    BY <1>11 DEF LastAttemptOver
<1>12. ASSUME NEW s \in Searches, BackoffCancelled(s) PROVE TypeOK'
    BY <1>12, SMTT(30) DEF BackoffCancelled
<1>13. ASSUME NEW s \in Searches, RecordSuccess(s) PROVE TypeOK'
    BY <1>13, SMTT(30) DEF RecordSuccess
<1>14. ASSUME NEW s \in Searches, RecordFailure(s) PROVE TypeOK'
    <2>1. at[s] \in 1..Len(Retries)
        BY <1>14 DEF RecordFailure, Providers
    <2>2. /\ fails' \in [Providers -> 0..threshold - 1]
          /\ openFor' \in [Providers -> 0..Cooldown]
        BY <1>14, SMTT(30) DEF RecordFailure
    <2>3. QED
        BY <1>14, <2>1, <2>2, SMTT(30) DEF RecordFailure
<1>15. ASSUME NEW s \in Searches, Cancel(s) PROVE TypeOK'
    BY <1>15 DEF Cancel
<1>16. ASSUME Tick PROVE TypeOK'
    BY <1>16, SMTT(30) DEF Tick, IsOpen
<1>17. ASSUME UNCHANGED vars PROVE TypeOK'
    BY <1>17 DEF vars
<1>18. QED
    BY <1>1, <1>2, <1>3, <1>4, <1>5, <1>6, <1>7, <1>8, <1>9, <1>10, <1>11, <1>12,
       <1>13, <1>14, <1>15, <1>16, <1>17 DEF Next, Progress

\* The chain's fields and the searches' positions keep their types; fails
\* stays below the threshold whatever the order of the recordings.
THEOREM TypeCorrect == Spec => []TypeOK
BY InitType, StepType, PTL DEF Spec

-----------------------------------------------------------------------------
\* Strengthening of NoResultsAccounted: a counter that is not zero, an open
\* breaker, an entry a search has left behind and one it is about to record
\* have all been blamed.
Accounted ==
    /\ \A p \in Providers : fails[p] > 0 \/ IsOpen(p) => p \in Blamed
    /\ \A s \in Searches : \A p \in Providers : p < at[s] => p \in Blamed
    /\ \A s \in Searches : pc[s] \in {"backoff", "failed"} => at[s] \in Blamed
    /\ NoResultsAccounted

LEMMA InitAccounted == Init => Accounted
BY LenNat DEF Init, Accounted, NoResultsAccounted, IsOpen, Providers

\* Blame is never taken back.
LEMMA BlameGrows == TypeOK /\ [Next]_vars => Blamed \subseteq Blamed'
<1> SUFFICES ASSUME TypeOK, [Next]_vars, NEW p \in Providers, blame[p] # "none"
             PROVE  blame'[p] # "none"
    BY DEF Blamed
<1> QED
    BY DEF TypeOK, Next, Progress, vars, history, Begin, Exhaust, Skip, Enter, Admit,
           WaitCancelled, ReplyResults, ReplyLimited, ReplyError, Retry, LastAttemptOver,
           BackoffCancelled, RecordSuccess, RecordFailure, Cancel, Tick

LEMMA StepAccounted == TypeOK /\ Accounted /\ [Next]_vars => Accounted'
<1> SUFFICES ASSUME TypeOK, Accounted, [Next]_vars PROVE Accounted'
    OBVIOUS
<1>0. Blamed \subseteq Blamed'
    BY BlameGrows
<1> USE <1>0, LenNat DEF TypeOK, Accounted, NoResultsAccounted, IsOpen, breaker, history,
        Goto, Return, Visiting
<1>1. ASSUME NEW s \in Searches, Begin(s) PROVE Accounted'
    BY <1>1 DEF Begin
<1>2. ASSUME NEW s \in Searches, Exhaust(s) PROVE Accounted'
    <2>1. Providers \subseteq Blamed
        BY <1>2 DEF Exhaust, Providers
    <2>2. QED
        BY <1>2, <2>1 DEF Exhaust, Providers
<1>3. ASSUME NEW s \in Searches, Skip(s) PROVE Accounted'
    BY <1>3 DEF Skip, Providers
<1>4. ASSUME NEW s \in Searches, Enter(s) PROVE Accounted'
    BY <1>4 DEF Enter
<1>5. ASSUME NEW s \in Searches, Admit(s) PROVE Accounted'
    BY <1>5 DEF Admit
<1>6. ASSUME NEW s \in Searches, WaitCancelled(s) \/ ReplyLimited(s) \/ ReplyError(s)
      PROVE  Accounted'
    <2>1. at[s] \in Providers /\ at[s] \in Blamed'
        BY <1>6 DEF WaitCancelled, ReplyLimited, ReplyError, Blamed
    <2>2. QED
        BY <1>6, <2>1 DEF WaitCancelled, ReplyLimited, ReplyError
<1>7. ASSUME NEW s \in Searches, ReplyResults(s) \/ Retry(s) \/ LastAttemptOver(s)
      PROVE  Accounted'
    BY <1>7 DEF ReplyResults, Retry, LastAttemptOver
<1>8. ASSUME NEW s \in Searches, BackoffCancelled(s) PROVE Accounted'
    BY <1>8 DEF BackoffCancelled, Providers
<1>9. ASSUME NEW s \in Searches, RecordSuccess(s) PROVE Accounted'
    BY <1>9 DEF RecordSuccess, Providers
<1>10. ASSUME NEW s \in Searches, RecordFailure(s) PROVE Accounted'
    <2>1. at[s] \in Providers /\ at[s] \in Blamed
        BY <1>10 DEF RecordFailure
    <2>2. \A p \in Providers : p # at[s] => fails'[p] = fails[p] /\ openFor'[p] = openFor[p]
        BY <1>10, <2>1 DEF RecordFailure
    <2>3. \A p \in Providers : p < at'[s] => p \in Blamed
        BY <1>10, <2>1 DEF RecordFailure, Providers
    <2>4. QED
        BY <1>10, <2>1, <2>2, <2>3 DEF RecordFailure
<1>11. ASSUME NEW s \in Searches, Cancel(s) PROVE Accounted'
    BY <1>11 DEF Cancel
<1>12. ASSUME Tick PROVE Accounted'
    BY <1>12 DEF Tick
<1>13. ASSUME UNCHANGED vars PROVE Accounted'
    BY <1>13 DEF vars
<1>14. QED
    BY <1>1, <1>2, <1>3, <1>4, <1>5, <1>6, <1>7, <1>8, <1>9, <1>10, <1>11, <1>12, <1>13
       DEF Next, Progress

LEMMA AccountedCorrect == Spec => []Accounted
BY InitAccounted, StepAccounted, TypeCorrect, PTL DEF Spec

\* A caller gets ErrNoResults only if every provider has failed a call or has
\* had a caller give up waiting for its limiter.
THEOREM NoResultsCorrect == Spec => []NoResultsAccounted
BY AccountedCorrect, PTL DEF Accounted

-----------------------------------------------------------------------------
\* Strengthening of LeakBounded.  Only an open breaker has leaked calls; a
\* search that is at the entry has leaked attempts up to the current one,
\* which is not among them while it waits for the limiter.
SearchLeak(s) ==
    IF Visiting(s)
    THEN /\ attempt[s] <= Retries[at[s]]
         /\ \A k \in Nat : <<s, k>> \in leaked[at[s]] =>
                k <= attempt[s] /\ (pc[s] = "limiter" => k < attempt[s])
    ELSE attempt[s] = 0

LeakInv ==
    /\ \A p \in Providers : ~IsOpen(p) => leaked[p] = {}
    /\ \A s \in Searches : SearchLeak(s)

LEMMA InitLeak == Init => LeakInv
BY DEF Init, LeakInv, SearchLeak, Visiting

LEMMA StepLeak == TypeOK /\ LeakInv /\ [Next]_vars => LeakInv'
<1> SUFFICES ASSUME TypeOK, LeakInv, [Next]_vars PROVE LeakInv'
    OBVIOUS
<1> USE LenNat, BreakerAssumption DEF TypeOK, LeakInv, SearchLeak, IsOpen, breaker, history,
        Goto, Return, Visiting
<1>1. ASSUME NEW s \in Searches, Begin(s) PROVE LeakInv'
    BY <1>1 DEF Begin
<1>2. ASSUME NEW s \in Searches, Exhaust(s) PROVE LeakInv'
    BY <1>2 DEF Exhaust
<1>3. ASSUME NEW s \in Searches, Skip(s) PROVE LeakInv'
    BY <1>3 DEF Skip
<1>4. ASSUME NEW s \in Searches, Enter(s) PROVE LeakInv'
    BY <1>4 DEF Enter
<1>5. ASSUME NEW s \in Searches, Admit(s) PROVE LeakInv'
    <2>1. \A t \in Searches : \A k \in Nat :
              t # s /\ Visiting(t) /\ <<t, k>> \in leaked'[at[t]] => <<t, k>> \in leaked[at[t]]
        BY <1>5 DEF Admit
    <2>2. \A k \in Nat : <<s, k>> \in leaked'[at[s]] => <<s, k>> \in leaked[at[s]] \/ k = attempt[s]
        BY <1>5 DEF Admit
    <2>3. \A p \in Providers : ~IsOpen(p) => leaked'[p] = {}
        BY <1>5 DEF Admit
    <2>4. QED
        BY <1>5, <2>1, <2>2, <2>3, SMTT(30) DEF Admit
<1>0. ASSUME NEW s \in Searches, Visiting(s),
             NEW label \in {"won", "backoff", "failed"}, Goto(s, label),
             UNCHANGED <<openFor, leaked, at, attempt>>
      PROVE  LeakInv'
    <2>1. \A t \in Searches : /\ Visiting(t)' <=> Visiting(t)
                              /\ pc'[t] = "limiter" => pc[t] = "limiter"
        BY <1>0
    <2>2. QED
        BY <1>0, <2>1
<1>6. ASSUME NEW s \in Searches, WaitCancelled(s) PROVE LeakInv'
    BY <1>0, <1>6 DEF WaitCancelled
<1>7. ASSUME NEW s \in Searches, ReplyResults(s) \/ ReplyLimited(s) \/ ReplyError(s)
      PROVE  LeakInv'
    BY <1>0, <1>7 DEF ReplyResults, ReplyLimited, ReplyError
<1>8. ASSUME NEW s \in Searches, Retry(s) PROVE LeakInv'
    <2>1. at[s] \in Providers /\ Retries[at[s]] \in Nat /\ attempt[s] + 1 <= Retries[at[s]]
        BY <1>8 DEF Retry
    <2>2. \A t \in Searches : t # s => pc'[t] = pc[t] /\ attempt'[t] = attempt[t]
        BY <1>8 DEF Retry
    <2>3. pc'[s] = "limiter" /\ attempt'[s] = attempt[s] + 1
        BY <1>8 DEF Retry
    <2>4. UNCHANGED <<openFor, leaked, at>>
        BY <1>8 DEF Retry
    <2>5. \A k \in Nat : <<s, k>> \in leaked[at[s]] => k < attempt[s] + 1
        BY <1>8 DEF Retry
    <2>6. SearchLeak(s)'
        BY <2>1, <2>3, <2>4, <2>5
    <2>7. ASSUME NEW t \in Searches, t # s PROVE SearchLeak(t)'
        BY <2>2, <2>4, <2>7
    <2>8. \A p \in Providers : IsOpen(p)' <=> IsOpen(p)
        BY <2>4
    <2> QED
        BY <2>4, <2>6, <2>7, <2>8 DEF LeakInv
<1>9. ASSUME NEW s \in Searches, LastAttemptOver(s) PROVE LeakInv'
    BY <1>9 DEF LastAttemptOver
<1>10. ASSUME NEW s \in Searches, BackoffCancelled(s) PROVE LeakInv'
    BY <1>10 DEF BackoffCancelled
<1>11. ASSUME NEW s \in Searches, RecordSuccess(s) PROVE LeakInv'
    BY <1>11 DEF RecordSuccess
<1>12. ASSUME NEW s \in Searches, RecordFailure(s) PROVE LeakInv'
    <2>1. \A p \in Providers : openFor'[p] = 0 => openFor[p] = 0
        BY <1>12 DEF RecordFailure
    <2>2. QED
        BY <1>12, <2>1, SMTT(30) DEF RecordFailure
<1>13. ASSUME NEW s \in Searches, Cancel(s) PROVE LeakInv'
    BY <1>13 DEF Cancel
<1>14. ASSUME Tick PROVE LeakInv'
    BY <1>14, SMTT(30) DEF Tick
<1>15. ASSUME UNCHANGED vars PROVE LeakInv'
    BY <1>15 DEF vars
<1>16. QED
    BY <1>1, <1>2, <1>3, <1>4, <1>5, <1>6, <1>7, <1>8, <1>9, <1>10, <1>11, <1>12, <1>13,
       <1>14, <1>15 DEF Next, Progress

\* Until an open breaker closes again, a search makes each of its attempts at
\* that provider at most once.
THEOREM LeakCorrect == Spec => LeakBounded
<1>1. ASSUME TypeOK, LeakInv, NEW s \in Searches, Admit(s)
      PROVE  attempt[s] <= Retries[at[s]] /\ <<s, attempt[s]>> \notin leaked[at[s]]
    BY <1>1 DEF TypeOK, LeakInv, SearchLeak, Admit, Visiting
<1>2. TypeOK /\ LeakInv /\ [Next]_vars =>
          [\A s \in Searches :
              Admit(s) /\ IsOpen(at[s]) =>
                  /\ attempt[s] <= Retries[at[s]]
                  /\ <<s, attempt[s]>> \notin leaked[at[s]]]_vars
    BY <1>1
<1>3. QED
    BY <1>2, InitLeak, StepLeak, TypeCorrect, PTL DEF Spec, LeakBounded

-----------------------------------------------------------------------------
\* Strengthening of NeverHammered: an entry that refused the search is behind
\* it, or about to be.
RefusedInv ==
    \A s \in Searches : \A p \in refused[s] :
        p < at[s] \/ (p = at[s] /\ pc[s] = "failed")

LEMMA StepRefused == TypeOK /\ RefusedInv /\ [Next]_vars => RefusedInv'
<1> SUFFICES ASSUME TypeOK, RefusedInv, [Next]_vars PROVE RefusedInv'
    OBVIOUS
<1> USE LenNat DEF TypeOK, RefusedInv, breaker, history, Goto, Return, Visiting, Providers
<1>0. ASSUME NEW s \in Searches, Begin(s) \/ Enter(s) \/ Admit(s) \/ Cancel(s)
      PROVE  RefusedInv'
    BY <1>0 DEF Begin, Enter, Admit, Cancel
<1>1. ASSUME NEW s \in Searches, Skip(s) PROVE RefusedInv'
    BY <1>1 DEF Skip
<1>2. ASSUME NEW s \in Searches, Exhaust(s) \/ BackoffCancelled(s) \/ RecordSuccess(s)
      PROVE  RefusedInv'
    BY <1>2, ZenonT(30) DEF Exhaust, BackoffCancelled, RecordSuccess
<1>3. ASSUME NEW s \in Searches, WaitCancelled(s) \/ ReplyResults(s) \/ ReplyError(s)
                                  \/ Retry(s) \/ LastAttemptOver(s)
      PROVE  RefusedInv'
    BY <1>3 DEF WaitCancelled, ReplyResults, ReplyError, Retry, LastAttemptOver
<1>4. ASSUME NEW s \in Searches, ReplyLimited(s) PROVE RefusedInv'
    BY <1>4 DEF ReplyLimited
<1>5. ASSUME NEW s \in Searches, RecordFailure(s) PROVE RefusedInv'
    BY <1>5, SMTT(30) DEF RecordFailure
<1>6. ASSUME Tick \/ UNCHANGED vars PROVE RefusedInv'
    BY <1>6 DEF Tick, vars
<1>7. QED
    BY <1>0, <1>1, <1>2, <1>3, <1>4, <1>5, <1>6 DEF Next, Progress

\* A provider that answered 429 is not called again by the same search.
THEOREM HammerCorrect == Spec => NeverHammered
<1>1. Init => RefusedInv
    BY DEF Init, RefusedInv
<1>2. ASSUME TypeOK, RefusedInv, NEW s \in Searches, Admit(s) PROVE at[s] \notin refused[s]
    BY <1>2 DEF TypeOK, RefusedInv, Admit, Providers
<1>3. TypeOK /\ RefusedInv /\ [Next]_vars =>
          [\A s \in Searches : Admit(s) => at[s] \notin refused[s]]_vars
    BY <1>2
<1>4. QED
    BY <1>1, <1>3, StepRefused, TypeCorrect, PTL DEF Spec, NeverHammered

-----------------------------------------------------------------------------
LEMMA InitRefines == Init => Promise!Init
<1> SUFFICES ASSUME Init PROVE Promise!Init
    OBVIOUS
<1>1. [s \in Searches |-> Running(s)] = [s \in Searches |-> FALSE]
    BY DEF Init, Running
<1>2. Blamed = {}
    BY DEF Init, Blamed
<1>3. QED
    BY <1>1, <1>2 DEF Init, Promise!Init

\* Every step of the chain is a step of the fallback, or none.
LEMMA StepRefines ==
    TypeOK /\ Accounted /\ [Next]_vars => [Promise!Next]_(Promise!vars)
<1> SUFFICES ASSUME TypeOK, Accounted, [Next]_vars
             PROVE  [Promise!Next]_(Promise!vars)
    OBVIOUS
<1> DEFINE running == [s \in Searches |-> Running(s)]
<1> USE LenNat DEF TypeOK, breaker, history, Goto, Running, Visiting
<1>1. ASSUME NEW s \in Searches, Begin(s) PROVE Promise!Start(s)
    BY <1>1 DEF Begin, Promise!Start, Blamed
<1>2. ASSUME NEW s \in Searches, NEW result, Return(s, result), pc[s] # "idle",
             UNCHANGED blame
      PROVE  Promise!Return(s, result)
    BY <1>2 DEF Return, Promise!Return, Blamed
<1>3. ASSUME NEW s \in Searches, Exhaust(s) PROVE Promise!GiveUp(s)
    BY <1>2, <1>3 DEF Exhaust, Promise!GiveUp
<1>4. ASSUME NEW s \in Searches, BackoffCancelled(s) PROVE Promise!Abandon(s)
    BY <1>2, <1>4 DEF BackoffCancelled, Promise!Abandon
<1>5. ASSUME NEW s \in Searches, RecordSuccess(s) PROVE Promise!Answer(s)
    BY <1>2, <1>5 DEF RecordSuccess, Promise!Answer, Providers
<1>6. ASSUME NEW s \in Searches, Skip(s) PROVE Promise!PassOver(s)
    BY <1>6 DEF Skip, Promise!PassOver, Accounted, Blamed
<1>7. ASSUME NEW s \in Searches, RecordFailure(s) PROVE Promise!PassOver(s)
    <2>1. at[s] \in Blamed
        BY <1>7 DEF RecordFailure, Accounted
    <2>2. [t \in Searches |-> Running(t)]' = [t \in Searches |-> Running(t)]
        BY <1>7 DEF RecordFailure
    <2>3. QED
        BY <1>7, <2>1, <2>2, ZenonT(30) DEF RecordFailure, Promise!PassOver, Blamed
<1>8. ASSUME NEW s \in Searches, WaitCancelled(s) \/ ReplyLimited(s) \/ ReplyError(s)
      PROVE  Promise!Blame(at[s]) /\ at[s] \in Providers
    <2>1. at[s] \in Providers /\ Blamed' = Blamed \cup {at[s]}
        BY <1>8 DEF WaitCancelled, ReplyLimited, ReplyError, Blamed
    <2>2. [t \in Searches |-> Running(t)]' = [t \in Searches |-> Running(t)]
        BY <1>8 DEF WaitCancelled, ReplyLimited, ReplyError
    <2>3. QED
        BY <1>8, <2>1, <2>2 DEF WaitCancelled, ReplyLimited, ReplyError, Promise!Blame
<1>9. ASSUME NEW s \in Searches, Cancel(s) PROVE Promise!Cancel(s)
    BY <1>9 DEF Cancel, Promise!Cancel, Blamed
<1>10. ASSUME NEW s \in Searches, Enter(s) \/ Admit(s) \/ ReplyResults(s) \/ Retry(s)
                                   \/ LastAttemptOver(s)
       PROVE  UNCHANGED Promise!vars
    <2>1. [t \in Searches |-> Running(t)]' = [t \in Searches |-> Running(t)]
        BY <1>10 DEF Enter, Admit, ReplyResults, Retry, LastAttemptOver
    <2>2. QED
        BY <1>10, <2>1 DEF Enter, Admit, ReplyResults, Retry, LastAttemptOver, Promise!vars, Blamed
<1>11. ASSUME Tick \/ UNCHANGED vars PROVE UNCHANGED Promise!vars
    BY <1>11 DEF Tick, vars, Promise!vars, Blamed
<1>12. QED
    BY <1>1, <1>3, <1>4, <1>5, <1>6, <1>7, <1>8, <1>9, <1>10, <1>11
       DEF Next, Progress, Promise!Next, Providers

\* The chain implements the fallback: providers are passed in order and only
\* once they have been blamed, whatever the other searches do.
THEOREM Refinement == Spec => ImplementsFallback
BY InitRefines, StepRefines, AccountedCorrect, TypeCorrect, PTL
   DEF Spec, ImplementsFallback, Promise!Spec
=============================================================================
