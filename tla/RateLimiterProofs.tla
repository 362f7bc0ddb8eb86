-------------------------- MODULE RateLimiterProofs --------------------------
(***************************************************************************)
(* What RateLimiter guarantees for every set of callers, every set of      *)
(* configured rates and every scale.                                       *)
(***************************************************************************)
EXTENDS RateLimiter, TLAPS

\* Facts about products that the provers do not find on their own: they are
\* given where a product of two variables appears.
LEMMA ProductMonotone ==
    ASSUME NEW a \in Nat, NEW b \in Nat, NEW h \in Nat \ {0}, a < b
    PROVE  a * h < b * h
BY SMT

LEMMA ProductNat ==
    ASSUME NEW a \in Nat, NEW b \in Nat
    PROVE  a * b \in Nat
BY SMT

LEMMA ProductStep ==
    ASSUME NEW r \in Nat, NEW i \in Int
    PROVE  r * (i + 1) = r * i + r
BY SMT

LEMMA ProductBounded ==
    ASSUME NEW r \in Nat, NEW a \in Nat, NEW b \in Nat, a <= b
    PROVE  r * a <= r * b
BY SMT

LEMMA ScaleFacts == Token \in Nat \ {0}
BY ScaleAssumption, SMT DEF Token

LEMMA CapacityNat == ASSUME NEW r \in Nat PROVE Capacity(r) \in Nat
BY ScaleAssumption, ProductNat DEF Capacity

-----------------------------------------------------------------------------
\* The level of the bucket is a number between zero and the capacity.
LEMMA LevelBounds == TypeOK => Level \in 0..Capacity(rate)
<1> SUFFICES ASSUME TypeOK PROVE Level \in 0..Capacity(rate)
    OBVIOUS
<1>1. Capacity(rate) \in Nat
    BY CapacityNat DEF TypeOK
<1>2. rate * idle \in Nat
    BY ProductNat, ScaleAssumption DEF TypeOK
<1>3. QED
    BY <1>1, <1>2 DEF Level, Refill, Lesser, TypeOK

\* A pass that stores the refilled level leaves the level where it was; one
\* that also takes a token leaves it one token lower.
LEMMA RefillStored ==
    ASSUME TypeOK, NEW t \in 0..Capacity(rate)
    PROVE  Refill(rate, t, 0) = t
BY CapacityNat, SMT DEF Refill, Lesser, TypeOK

\* A tick adds what the rate earns in a tick, up to the capacity: idle may
\* stop counting at Hz because the bucket is full by then.
LEMMA LevelTick ==
    ASSUME TypeOK
    PROVE  Refill(rate, tokens, Lesser(idle + 1, Hz)) =
               IF Level + rate <= rate * Hz THEN Level + rate ELSE rate * Hz
<1> USE DEF TypeOK
<1>1. rate * Hz \in Nat /\ rate * idle \in Nat /\ tokens \in Nat /\ rate \in Nat
    BY CapacityNat, ProductNat, ScaleAssumption DEF Capacity
<1>2. CASE idle < Hz
    <2>1. Lesser(idle + 1, Hz) = idle + 1
        BY <1>2, ScaleAssumption DEF Lesser
    <2>2. rate * (idle + 1) = rate * idle + rate
        BY ProductStep, ScaleAssumption
    <2> DEFINE earned == rate * idle
               next == rate * (idle + 1)
               cap == rate * Hz
    <2>3. /\ earned \in Nat /\ cap \in Nat /\ next = earned + rate
        BY <1>1, <2>2
    <2> HIDE DEF earned, next, cap
    <2>4. Lesser(cap, tokens + next) =
              IF Lesser(cap, tokens + earned) + rate <= cap
              THEN Lesser(cap, tokens + earned) + rate ELSE cap
        BY <1>1, <2>3 DEF Lesser
    <2>5. QED
        BY <2>1, <2>4 DEF earned, next, cap, Level, Refill, Capacity
<1>3. CASE idle = Hz
    <2>1. Lesser(idle + 1, Hz) = Hz
        BY <1>3, ScaleAssumption DEF Lesser
    <2> DEFINE cap == rate * Hz
    <2>2. cap \in Nat
        BY <1>1
    <2> HIDE DEF cap
    <2>3. Lesser(cap, tokens + cap) = cap /\ ~(cap + rate <= cap)
        BY <1>1, <2>2 DEF Lesser
    <2>4. QED
        BY <1>3, <2>1, <2>3 DEF cap, Level, Refill, Capacity
<1>4. QED
    BY <1>2, <1>3, ScaleAssumption

-----------------------------------------------------------------------------
LEMMA InitType == Init => TypeOK
<1> SUFFICES ASSUME Init PROVE TypeOK
    OBVIOUS
<1>1. rate \in Nat \ {0}
    BY RatesAssumption, ScaleAssumption DEF Init, EffectiveRate
<1>2. Capacity(rate) \in Nat
    BY <1>1, CapacityNat
<1>3. QED
    BY <1>1, <1>2, ScaleAssumption DEF Init, TypeOK

LEMMA StepType == TypeOK /\ [Next]_vars => TypeOK'
<1> SUFFICES ASSUME TypeOK, [Next]_vars PROVE TypeOK'
    OBVIOUS
<1> USE DEF TypeOK
<1>1. Level \in 0..Capacity(rate) /\ Capacity(rate) \in Nat /\ Token \in Nat \ {0}
    BY LevelBounds, CapacityNat, ScaleFacts
<1>2. ASSUME NEW c \in Callers, Call(c) PROVE TypeOK'
    BY <1>2 DEF Call, window
<1>3. ASSUME NEW c \in Callers, Grant(c) PROVE TypeOK'
    <2>1. tokens' \in 0..Capacity(rate')
        BY <1>1, <1>3 DEF Grant
    <2>2. QED
        BY <2>1, <1>3, ScaleAssumption DEF Grant
<1>4. ASSUME NEW c \in Callers, Sleep(c) PROVE TypeOK'
    <2>1. tokens' \in 0..Capacity(rate')
        BY <1>1, <1>4 DEF Sleep
    <2>2. Need(rate, Level) \in Nat
        <3> DEFINE n == Token - Level + rate - 1
        <3>1. n \in Nat
            BY <1>1, <1>4 DEF Sleep
        <3> HIDE DEF n
        <3>2. n \div rate \in Nat
            BY <3>1, SMT
        <3>3. QED
            BY <3>2 DEF n, Need
    <2>3. QED
        BY <2>1, <2>2, <1>4, ScaleAssumption DEF Sleep, window
<1>5. ASSUME NEW c \in Callers, Wake(c) PROVE TypeOK'
    BY <1>5 DEF Wake, window
<1>6. ASSUME NEW c \in Callers, Abort(c) PROVE TypeOK'
    BY <1>6 DEF Abort, window
<1>7. ASSUME NEW c \in Callers, Cancel(c) PROVE TypeOK'
    BY <1>7 DEF Cancel, window
<1>8. ASSUME Tick PROVE TypeOK'
    BY <1>8, ScaleAssumption DEF Tick, Lesser
<1>9. ASSUME Mark PROVE TypeOK'
    BY <1>9 DEF Mark
<1>10. ASSUME UNCHANGED vars PROVE TypeOK'
    BY <1>10 DEF vars
<1>11. QED
    BY <1>2, <1>3, <1>4, <1>5, <1>6, <1>7, <1>8, <1>9, <1>10 DEF Next, Step

\* The fields keep their types: in particular the stored tokens never leave
\* 0..Capacity, with any number of callers in Wait.
THEOREM TypeCorrect == Spec => []TypeOK
BY InitType, StepType, PTL DEF Spec

-----------------------------------------------------------------------------
\* Every step of the limiter is a step of the token bucket, or none.
LEMMA StepRefines == TypeOK /\ [Next]_vars => [Bucket!Next]_(Bucket!vars)
<1> SUFFICES ASSUME TypeOK, [Next]_vars PROVE [Bucket!Next]_(Bucket!vars)
    OBVIOUS
<1>1. Level \in 0..Capacity(rate) /\ Capacity(rate) \in Nat /\ Token \in Nat \ {0}
    BY LevelBounds, CapacityNat, ScaleFacts DEF TypeOK
<1> USE DEF Bucket!Next, Bucket!vars
<1>2. ASSUME UNCHANGED <<rate, tokens, idle, window>> PROVE UNCHANGED Bucket!vars
    BY <1>2 DEF Level, Refill, Lesser, Capacity, window
<1>3. ASSUME NEW c \in Callers, Grant(c) PROVE Bucket!Take
    <2>1. Level - Token \in 0..Capacity(rate)
        BY <1>1, <1>3 DEF Grant
    <2>2. Level' = Level - Token
        BY <1>3, <2>1, RefillStored DEF Grant, Level
    <2>3. QED
        BY <1>3, <2>2 DEF Grant, Bucket!Take
<1>4. ASSUME NEW c \in Callers, Sleep(c) PROVE UNCHANGED Bucket!vars
    <2>1. Level' = Level
        BY <1>1, <1>4, RefillStored DEF Sleep, Level
    <2>2. QED
        BY <1>4, <2>1 DEF Sleep, window
<1>5. ASSUME Tick PROVE Bucket!Tick
    <2>1. Level' = Refill(rate, tokens, Lesser(idle + 1, Hz))
        BY <1>5 DEF Tick, Level
    <2>2. QED
        BY <1>5, <2>1, LevelTick DEF Tick, Bucket!Tick
<1>6. ASSUME Mark PROVE Bucket!Mark
    <2>1. Level' = Level
        BY <1>6 DEF Mark, Level, Refill, Lesser, Capacity
    <2>2. QED
        BY <1>6, <2>1 DEF Mark, Bucket!Mark
<1>7. ASSUME NEW c \in Callers, Call(c) \/ Wake(c) \/ Abort(c) \/ Cancel(c)
      PROVE  UNCHANGED <<rate, tokens, idle, window>>
    BY <1>7 DEF Call, Wake, Abort, Cancel
<1>8. ASSUME UNCHANGED vars PROVE UNCHANGED <<rate, tokens, idle, window>>
    BY <1>8 DEF vars, window
<1>9. QED
    BY <1>2, <1>3, <1>4, <1>5, <1>6, <1>7, <1>8 DEF Next, Step

LEMMA InitRefines == Init => Bucket!Init
<1> SUFFICES ASSUME Init PROVE Bucket!Init
    OBVIOUS
<1>1. TypeOK /\ Capacity(rate) \in Nat
    BY InitType, CapacityNat DEF TypeOK
<1>2. Level = Capacity(rate)
    <2>1. tokens \in 0..Capacity(rate) /\ idle = 0 /\ tokens = Capacity(rate)
        BY <1>1 DEF Init, TypeOK
    <2>2. QED
        BY <1>1, <2>1, RefillStored DEF Level
<1>3. QED
    BY <1>1, <1>2 DEF Init, Bucket!Init, TypeOK, Capacity

\* The limiter, refilled only when a caller comes, implements the bucket that
\* is refilled at every tick.
THEOREM Refinement == Spec => ImplementsTokenBucket
BY InitRefines, StepRefines, TypeCorrect, PTL DEF Spec, ImplementsTokenBucket, Bucket!Spec

-----------------------------------------------------------------------------
\* The strengthening of WindowBound that is inductive: what was granted plus
\* what is left never exceeds a burst plus what was earned.
Account == taken * Token + Level <= Capacity(rate) + rate * span

LEMMA AccountInit == TypeOK /\ Bucket!Init => Account
<1> SUFFICES ASSUME TypeOK, Bucket!Init PROVE Account
    OBVIOUS
<1>1. Capacity(rate) \in Nat /\ Token \in Nat
    BY CapacityNat, ScaleFacts DEF TypeOK
<1>2. taken * Token = 0 /\ rate * span = 0
    BY <1>1 DEF Bucket!Init, TypeOK
<1>3. QED
    BY <1>1, <1>2 DEF Account, Bucket!Init, Capacity

LEMMA AccountStep ==
    TypeOK /\ TypeOK' /\ Account /\ [Bucket!Next]_(Bucket!vars) => Account'
<1> SUFFICES ASSUME TypeOK, TypeOK', Account, [Bucket!Next]_(Bucket!vars)
             PROVE  Account'
    OBVIOUS
<1> DEFINE spent == taken * Token
           earned == rate * span
           cap == Capacity(rate)
<1>1. /\ spent \in Nat /\ earned \in Nat /\ cap \in Nat
      /\ Token \in Nat /\ rate \in Nat /\ Level \in 0..cap
    BY CapacityNat, ProductNat, ScaleFacts, LevelBounds DEF TypeOK
<1>2. CASE Bucket!Take
    <2>1. taken' * Token = spent + Token
        BY <1>2, ScaleFacts DEF Bucket!Take, TypeOK
    <2>2. /\ Level' = Level - Token /\ rate' * span' = earned
          /\ Capacity(rate') = cap
        BY <1>2 DEF Bucket!Take
    <2> HIDE DEF spent, earned, cap
    <2>3. (spent + Token) + (Level - Token) <= cap + earned
        BY <1>1 DEF Account, spent, earned, cap
    <2>4. QED
        BY <2>1, <2>2, <2>3 DEF Account
<1>3. CASE Bucket!Tick
    <2>1. rate' * span' = earned + rate
        BY <1>3, ProductStep DEF Bucket!Tick, TypeOK
    <2>2. /\ taken' * Token = spent /\ Capacity(rate') = cap
        BY <1>3 DEF Bucket!Tick
    <2>3. Level' <= Level + rate /\ Level' \in Int
        <3>1. cap = rate * Hz
            BY DEF Capacity
        <3> HIDE DEF cap
        <3>2. QED
            BY <1>1, <1>3, <3>1 DEF Bucket!Tick
    <2>4. spent + Level <= cap + earned
        BY DEF Account
    <2> DEFINE next == Level'
    <2>5. next <= Level + rate /\ next \in Int
        BY <2>3
    <2> HIDE DEF spent, earned, cap, next
    <2>6. spent + next <= cap + (earned + rate)
        BY <1>1, <2>4, <2>5
    <2>7. QED
        BY <2>1, <2>2, <2>6 DEF Account, next
<1>4. CASE Bucket!Mark
    <2>1. taken' * Token = 0 /\ rate' * span' = 0
        BY <1>4, ScaleFacts DEF Bucket!Mark, TypeOK
    <2>2. Level' = Level /\ Capacity(rate') = cap
        BY <1>4 DEF Bucket!Mark
    <2> HIDE DEF cap
    <2>3. QED
        BY <1>1, <2>1, <2>2 DEF Account
<1>5. CASE UNCHANGED Bucket!vars
    BY <1>5 DEF Bucket!vars, Account
<1>6. QED
    BY <1>2, <1>3, <1>4, <1>5 DEF Bucket!Next

LEMMA AccountBounds == TypeOK /\ Account => WindowBound
<1> SUFFICES ASSUME TypeOK, Account PROVE WindowBound
    OBVIOUS
<1> DEFINE spent == taken * Token
           allowed == Capacity(rate) + rate * span
<1>1. spent \in Nat /\ allowed \in Nat /\ Level \in Nat
    BY CapacityNat, ProductNat, ScaleFacts, LevelBounds DEF TypeOK
<1>2. spent + Level <= allowed
    BY DEF Account
<1> HIDE DEF spent, allowed
<1>3. spent <= allowed
    BY <1>1, <1>2
<1>4. QED
    BY <1>3 DEF spent, allowed, WindowBound

\* No interleaving of callers gets more than one burst plus what is earned
\* out of the limiter, over any window of time.
THEOREM WindowBounded == Spec => []WindowBound
<1>1. Init => Account
    BY InitType, InitRefines, AccountInit
<1>2. TypeOK /\ TypeOK' /\ Account /\ [Next]_vars => Account'
    BY StepRefines, AccountStep
<1>3. QED
    BY <1>1, <1>2, TypeCorrect, AccountBounds, PTL DEF Spec

-----------------------------------------------------------------------------
\* A limiter below one request per second never grants a token, so that an
\* uncancelled Wait on it never returns.
THEOREM SubUnitStarves == Spec => []SubUnitNeverAdmits
<1>1. ASSUME TypeOK, rate < Unit PROVE Level < Token
    <2>1. Capacity(rate) < Token
        BY <1>1, ProductMonotone, ScaleAssumption DEF Capacity, Token, TypeOK
    <2>2. QED
        BY <1>1, <2>1, LevelBounds, CapacityNat, ScaleFacts DEF TypeOK
<1>2. Init => SubUnitNeverAdmits
    BY <1>1, InitType DEF Init, SubUnitNeverAdmits
<1>3. TypeOK /\ TypeOK' /\ SubUnitNeverAdmits /\ [Next]_vars => SubUnitNeverAdmits'
    <2> SUFFICES ASSUME TypeOK, TypeOK', SubUnitNeverAdmits, [Next]_vars, (rate < Unit)'
                 PROVE  (Level < Token)' /\ taken' = 0
        BY DEF SubUnitNeverAdmits
    <2>1. rate' = rate /\ Unit' = Unit
        BY DEF Next, Step, vars, window, Call, Grant, Sleep, Wake, Abort, Cancel, Tick, Mark
    <2>2. Level < Token /\ taken = 0
        BY <2>1 DEF SubUnitNeverAdmits
    <2>3. taken' = 0
        <3>1. ~(\E c \in Callers : Grant(c))
            BY <2>2, LevelBounds, ScaleFacts, CapacityNat DEF Grant, TypeOK
        <3>2. QED
            BY <2>2, <3>1 DEF Next, Step, vars, window, Call, Sleep, Wake, Abort, Cancel, Tick, Mark
    <2>4. (Level < Token)'
        <3>1. TypeOK' /\ (rate < Unit)' => (Level < Token)'
            BY <1>1, PTL
        <3>2. QED
            BY <3>1
    <2>5. QED
        BY <2>3, <2>4
<1>4. QED
    BY <1>2, <1>3, TypeCorrect, PTL DEF Spec
=============================================================================
