------------------------- MODULE FetchStreamProofs -------------------------
(***************************************************************************)
(* What a streamed fetch guarantees for all capacities of the two channels  *)
(* and all documents, and what the walks over a document make of it.        *)
(***************************************************************************)
EXTENDS StreamedPage, SequenceTheorems, FiniteSetTheorems, WellFoundedInduction, TLAPS

(* Sequences that are filled at one end and emptied at the other.           *)

\* 0, 1, 2, ...: the first n numbers.
Count(n) == [i \in 1..n |-> i - 1]

LEMMA CountSeq ==
    ASSUME NEW n \in Nat
    PROVE  /\ Count(n) \in Seq(Nat)
           /\ Len(Count(n)) = n
           /\ \A i \in 1..n : Count(n)[i] = i - 1
<1>1. \A i \in 1..n : i - 1 \in Nat
    OBVIOUS
<1>2. QED
    BY <1>1, SMT DEF Count

\* Writing the next number keeps the count.
LEMMA CountNext ==
    ASSUME NEW n \in Nat
    PROVE  Append(Count(n), n) = Count(n + 1)
<1> DEFINE s == Append(Count(n), n)
           t == Count(n + 1)
<1>1. /\ s \in Seq(Nat) /\ Len(s) = n + 1 /\ s[n + 1] = n
      /\ \A i \in 1..n : s[i] = i - 1
    <2>1. Count(n) \in Seq(Nat) /\ Len(Count(n)) = n /\ \A i \in 1..n : Count(n)[i] = i - 1
        BY CountSeq
    <2>2. /\ s \in Seq(Nat) /\ Len(s) = Len(Count(n)) + 1 /\ s[Len(Count(n)) + 1] = n
          /\ \A i \in 1..Len(Count(n)) : s[i] = Count(n)[i]
        BY <2>1, AppendProperties
    <2>3. QED
        BY <2>1, <2>2
<1>2. t \in Seq(Nat) /\ Len(t) = n + 1 /\ \A i \in 1..n + 1 : t[i] = i - 1
    BY CountSeq
<1>3. \A i \in 1..Len(s) : s[i] = t[i]
    <2> SUFFICES ASSUME NEW i \in 1..n + 1 PROVE s[i] = t[i]
        BY <1>1
    <2>1. CASE i = n + 1
        BY <1>1, <1>2, <2>1
    <2>2. CASE i # n + 1
        <3>1. i \in 1..n
            BY <2>2
        <3>2. QED
            BY <1>1, <1>2, <3>1
    <2>3. QED
        BY <2>1, <2>2
<1>4. QED
    BY <1>1, <1>2, <1>3, SeqEqual

\* A value enters at the back ...
LEMMA EnterBack ==
    ASSUME NEW S, NEW s \in Seq(S), NEW t \in Seq(S), NEW e \in S
    PROVE  s \o Append(t, e) = Append(s \o t, e)
<1>1. <<e>> \in Seq(S) /\ s \o t \in Seq(S)
    BY ConcatProperties
<1>2. Append(t, e) = t \o <<e>> /\ Append(s \o t, e) = (s \o t) \o <<e>>
    BY <1>1, AppendIsConcat
<1>3. QED
    BY <1>1, <1>2, ConcatAssociative

\* ... and moves from the front of one part to the back of the part before it.
LEMMA MoveFront ==
    ASSUME NEW S, NEW s \in Seq(S), NEW t \in Seq(S), t # <<>>
    PROVE  Append(s, Head(t)) \o Tail(t) = s \o t
<1>1. Head(t) \in S /\ Tail(t) \in Seq(S)
    BY HeadTailProperties
<1>2. <<Head(t)>> \in Seq(S) /\ t = <<Head(t)>> \o Tail(t)
    <2>1. /\ Len(Tail(t)) = Len(t) - 1
          /\ \A i \in 1..Len(Tail(t)) : Tail(t)[i] = t[i + 1]
        BY HeadTailProperties
    <2>2. /\ <<Head(t)>> \o Tail(t) \in Seq(S)
          /\ Len(<<Head(t)>> \o Tail(t)) = 1 + Len(Tail(t))
          /\ \A i \in 1..1 + Len(Tail(t)) : (<<Head(t)>> \o Tail(t))[i] =
                IF i <= 1 THEN <<Head(t)>>[i] ELSE Tail(t)[i - 1]
        <3>1. <<Head(t)>> \in Seq(S) /\ Len(<<Head(t)>>) = 1
            BY <1>1
        <3>2. QED
            BY <1>1, <3>1, ConcatProperties
    <2>3. \A i \in 1..Len(t) : t[i] = (<<Head(t)>> \o Tail(t))[i]
        <3> SUFFICES ASSUME NEW i \in 1..Len(t) PROVE t[i] = (<<Head(t)>> \o Tail(t))[i]
            OBVIOUS
        <3>1. CASE i = 1
            BY <2>1, <2>2, <3>1
        <3>2. CASE i # 1
            <4>1. i - 1 \in 1..Len(Tail(t)) /\ i \in 1..1 + Len(Tail(t)) /\ ~(i <= 1)
                BY <2>1, <3>2
            <4>2. QED
                BY <2>1, <2>2, <4>1
        <3>3. QED
            BY <3>1, <3>2
    <2>4. QED
        BY <1>1, <2>1, <2>2, <2>3, SeqEqual
<1>3. Append(s, Head(t)) = s \o <<Head(t)>>
    BY <1>1, AppendIsConcat
<1>4. QED
    BY <1>1, <1>2, <1>3, ConcatAssociative

-----------------------------------------------------------------------------
LEMMA InitType == Init => TypeOK
<1> SUFFICES ASSUME Init PROVE TypeOK
    OBVIOUS
<1>1. <<>> \in Seq(Nat) /\ Len(<<>>) = 0
    OBVIOUS
<1>2. /\ innerClosed \in BOOLEAN /\ innerErr \in BOOLEAN /\ innerDone \in BOOLEAN
      /\ outerClosed \in BOOLEAN /\ outerErr \in BOOLEAN /\ cached \in BOOLEAN /\ gone \in BOOLEAN
    BY DEF Init
<1>3. QED
    BY <1>1, <1>2, CapacityAssumption, LengthType DEF Init, TypeOK

\* Every action keeps the types.
LEMMA StepType == TypeOK /\ [Next]_vars => TypeOK'
<1> SUFFICES ASSUME TypeOK, [Next]_vars PROVE TypeOK'
    OBVIOUS
<1>0. Length[page] \in Nat
    BY LengthType DEF TypeOK
<1> USE <1>0, CapacityAssumption
        DEF TypeOK, innerVars, outerVars, extractVars, forwardVars, serveVars
<1>1. CASE ParseFails
    BY <1>1 DEF ParseFails
<1>2. CASE ParseSucceeds
    <2>1. emitted = 0
        BY <1>2 DEF ParseSucceeds
    <2>2. QED
        BY <1>2, <2>1 DEF ParseSucceeds
<1>3. CASE Flush
    BY <1>3 DEF Flush
<1>4. CASE Deliver
    BY <1>4 DEF Deliver
<1>5. CASE CloseInner
    BY <1>5 DEF CloseInner
<1>6. CASE FetchFails
    BY <1>6 DEF FetchFails
<1>7. CASE FetchSucceeds
    <2>1. total = 0
        BY <1>7 DEF FetchSucceeds
    <2>2. QED
        BY <1>7, <2>1 DEF FetchSucceeds
<1>8. CASE Receive
    <2>1. Head(inner) \in Nat /\ Tail(inner) \in Seq(Nat) /\ Len(Tail(inner)) = Len(inner) - 1
        BY <1>8, HeadTailProperties DEF Receive
    <2>2. QED
        BY <1>8, <2>1 DEF Receive
<1>9. CASE Send
    BY <1>9 DEF Send
<1>10. CASE RangeEnds
    BY <1>10 DEF RangeEnds
<1>11. CASE SettlePage
    BY <1>11 DEF SettlePage
<1>12. CASE SettleError
    BY <1>12 DEF SettleError
<1>13. CASE CloseOuter
    BY <1>13 DEF CloseOuter
<1>14. CASE TakeChunk
    <2>1. Head(outer) \in Nat /\ Tail(outer) \in Seq(Nat) /\ Len(Tail(outer)) = Len(outer) - 1
        BY <1>14, HeadTailProperties DEF TakeChunk
    <2>2. QED
        BY <1>14, <2>1 DEF TakeChunk
<1>15. CASE TakeClosed
    BY <1>15 DEF TakeClosed
<1>16. CASE TakeError
    <2>1. outerErr' \in BOOLEAN
        BY <1>16, Zenon DEF TakeError
    <2>2. QED
        BY <1>16, <2>1 DEF TakeError
<1>17. CASE TakeCancelled
    BY <1>17 DEF TakeCancelled
<1>18. CASE Disconnect
    BY <1>18 DEF Disconnect
<1>19. CASE UNCHANGED vars
    BY <1>19 DEF vars
<1>20. QED
    BY <1>1, <1>2, <1>3, <1>4, <1>5, <1>6, <1>7, <1>8, <1>9, <1>10, <1>11, <1>12, <1>13,
       <1>14, <1>15, <1>16, <1>17, <1>18, <1>19
       DEF Next, Extract, Forward, Serve

\* The channels, the positions of the goroutines and the frames keep their types.
THEOREM TypeCorrect == Spec => []TypeOK
BY InitType, StepType, PTL DEF Spec

-----------------------------------------------------------------------------
\* The chunk that the forwarder has taken and not yet passed on.
Hand == IF forwarder = "send" THEN <<hand>> ELSE <<>>

LEMMA InitPipe == Init => PipeOrdered
<1> SUFFICES ASSUME Init PROVE PipeOrdered
    OBVIOUS
<1>1. Count(0) \in Seq(Nat) /\ Len(Count(0)) = 0
    BY CountSeq
<1>2. Count(0) = <<>>
    BY <1>1, EmptySeq
<1>3. ((<<>> \o <<>>) \o <<>>) \o <<>> = <<>>
    OBVIOUS
<1>4. QED
    BY <1>2, <1>3 DEF Init, PipeOrdered, Pipe, Count

\* Flush feeds the pipe; Receive, Send and TakeChunk move a chunk from one of its
\* parts to the next; nothing else touches it.
LEMMA StepPipe == TypeOK /\ PipeOrdered /\ [Next]_vars => PipeOrdered'
<1> SUFFICES ASSUME TypeOK, PipeOrdered, [Next]_vars PROVE PipeOrdered'
    OBVIOUS
<1>0. /\ wire \in Seq(Nat) /\ outer \in Seq(Nat) /\ inner \in Seq(Nat) /\ hand \in Nat
      /\ Hand \in Seq(Nat) /\ emitted \in Nat
    BY LengthType DEF TypeOK, Hand
<1>1. ((wire \o outer) \o Hand) \o inner = Count(emitted)
    BY DEF PipeOrdered, Pipe, Count, Hand
<1> SUFFICES ((wire' \o outer') \o Hand') \o inner' = Count(emitted')
    BY DEF PipeOrdered, Pipe, Count, Hand
<1>2. wire \o outer \in Seq(Nat) /\ (wire \o outer) \o Hand \in Seq(Nat)
    BY <1>0, ConcatProperties
<1>3. \A s \in Seq(Nat) : s \o <<>> = s
    OBVIOUS
<1>4. \A s \in Seq(Nat), e \in Nat : s \o <<e>> = Append(s, e)
    BY AppendIsConcat
<1>5. CASE Flush
    <2>1. \A s, t \in Seq(Nat), e \in Nat : s \o Append(t, e) = Append(s \o t, e)
        BY EnterBack
    <2>2. ((wire \o outer) \o Hand) \o Append(inner, emitted)
            = Append(((wire \o outer) \o Hand) \o inner, emitted)
        BY <1>0, <1>2, <2>1
    <2>3. Append(((wire \o outer) \o Hand) \o inner, emitted) = Count(emitted + 1)
        BY <1>0, <1>1, CountNext
    <2>4. Hand' = Hand
        BY <1>5 DEF Flush, forwardVars, Hand
    <2>5. QED
        BY <1>5, <2>2, <2>3, <2>4 DEF Flush, outerVars, serveVars
<1>6. CASE Receive
    <2>1. Hand = <<>> /\ Hand' = <<Head(inner)>>
        BY <1>6 DEF Receive, Hand
    <2>2. Head(inner) \in Nat /\ inner # <<>>
        BY <1>0, <1>6, HeadTailProperties DEF Receive
    <2>3. Append(wire \o outer, Head(inner)) \o Tail(inner) = (wire \o outer) \o inner
        BY <1>0, <1>2, <2>2, MoveFront
    <2>4. (wire \o outer) \o <<Head(inner)>> = Append(wire \o outer, Head(inner))
        BY <1>2, <1>4, <2>2
    <2>5. (wire \o outer) \o Hand = wire \o outer
        BY <1>2, <1>3, <2>1
    <2>6. QED
        BY <1>1, <1>6, <2>1, <2>3, <2>4, <2>5 DEF Receive, extractVars, outerVars, serveVars
<1>7. CASE Send
    <2>1. Hand = <<hand>> /\ Hand' = <<>>
        BY <1>7 DEF Send, Hand
    <2>2. \A s, t \in Seq(Nat), e \in Nat : s \o Append(t, e) = Append(s \o t, e)
        BY EnterBack
    <2>3. wire \o Append(outer, hand) = (wire \o outer) \o <<hand>>
        <3>1. wire \o Append(outer, hand) = Append(wire \o outer, hand)
            BY <1>0, <2>2
        <3>2. (wire \o outer) \o <<hand>> = Append(wire \o outer, hand)
            BY <1>0, <1>2, <1>4
        <3>3. QED
            BY <3>1, <3>2
    <2>4. wire \o Append(outer, hand) \in Seq(Nat)
        BY <1>2, <2>1, <2>3
    <2>5. (wire \o Append(outer, hand)) \o <<>> = (wire \o outer) \o Hand
        BY <1>3, <2>1, <2>3, <2>4
    <2>6. QED
        BY <1>1, <1>7, <2>1, <2>5 DEF Send, extractVars, innerVars, serveVars
<1>8. CASE TakeChunk
    <2>1. Append(wire, Head(outer)) \o Tail(outer) = wire \o outer
        BY <1>0, <1>8, MoveFront DEF TakeChunk
    <2>2. Hand' = Hand
        BY <1>8 DEF TakeChunk, forwardVars, Hand
    <2>3. QED
        BY <1>1, <1>8, <2>1, <2>2 DEF TakeChunk, extractVars, innerVars
<1>9. CASE ~Flush /\ ~Receive /\ ~Send /\ ~TakeChunk
    <2>1. UNCHANGED <<wire, outer, Hand, inner, emitted>>
        BY <1>9 DEF Next, Extract, Forward, Serve, ParseFails, ParseSucceeds, Deliver, CloseInner,
            FetchFails, FetchSucceeds, RangeEnds, SettlePage, SettleError, CloseOuter,
            TakeClosed, TakeError, TakeCancelled, Disconnect, Hand,
            vars, innerVars, outerVars, extractVars, forwardVars, serveVars
    <2>2. QED
        BY <1>1, <2>1
<1>10. QED
    BY <1>5, <1>6, <1>7, <1>8, <1>9

\* Between the three goroutines no chunk is lost, duplicated or reordered.
THEOREM PipeCorrect == Spec => []PipeOrdered
BY InitPipe, StepPipe, TypeCorrect, PTL DEF Spec

-----------------------------------------------------------------------------
\* How far the extractor has come when it leaves a result behind ...
Extracted ==
    /\ innerClosed <=> extractor = "exited"
    /\ innerDone \/ innerErr <=> extractor \in {"closing", "exited"}
    /\ innerDone => emitted = total /\ ~innerErr
    /\ innerErr => emitted = 0
    /\ extractor = "off" <=> forwarder = "fetch" \/ (forwarder \in {"closing", "exited"} /\ ~innerClosed)

\* ... the forwarder when it settles the fetch ...
Forwarded ==
    /\ outerClosed <=> forwarder = "exited"
    /\ forwarder \in {"settle", "closing", "exited"} /\ extractor # "off" => innerClosed /\ inner = <<>>
    /\ forwarder \in {"closing", "exited"} /\ innerDone => cached
    /\ cached => innerDone
    /\ outerErr \/ final = "error" => ~innerDone /\ emitted = 0 /\ forwarder \in {"closing", "exited"}

\* ... and the handler when it returns.
Served ==
    /\ final # "none" => handler = "returned"
    /\ handler = "returned" /\ ~gone => final # "none"
    /\ final = "done" => outer = <<>> /\ outerClosed

\* Strengthening of FinalSound.
Told == Extracted /\ Forwarded /\ Served

LEMMA InitTold == Init => Told
BY DEF Init, Told, Extracted, Forwarded, Served

LEMMA StepTold == TypeOK /\ Told /\ [Next]_vars => Told'
<1> SUFFICES ASSUME TypeOK, Told, [Next]_vars PROVE Told'
    OBVIOUS
<1>0. Length[page] \in Nat
    BY LengthType DEF TypeOK
<1> USE <1>0 DEF TypeOK, Told, Extracted, Forwarded, Served,
                 innerVars, outerVars, extractVars, forwardVars, serveVars
<1>1. CASE ParseFails
    BY <1>1 DEF ParseFails
<1>2. CASE ParseSucceeds
    BY <1>2 DEF ParseSucceeds
<1>3. CASE Flush
    BY <1>3 DEF Flush
<1>4. CASE Deliver
    BY <1>4 DEF Deliver
<1>5. CASE CloseInner
    BY <1>5 DEF CloseInner
<1>6. CASE FetchFails
    BY <1>6 DEF FetchFails
<1>7. CASE FetchSucceeds
    BY <1>7 DEF FetchSucceeds
<1>8. CASE Receive
    BY <1>8 DEF Receive
<1>9. CASE Send
    BY <1>9 DEF Send
<1>10. CASE RangeEnds
    BY <1>10 DEF RangeEnds
<1>11. CASE SettlePage
    BY <1>11 DEF SettlePage
<1>12. CASE SettleError
    BY <1>12 DEF SettleError
<1>13. CASE CloseOuter
    BY <1>13 DEF CloseOuter
<1>14. CASE TakeChunk
    BY <1>14 DEF TakeChunk
<1>15. CASE TakeClosed
    BY <1>15 DEF TakeClosed
<1>16. CASE TakeError
    BY <1>16 DEF TakeError
<1>17. CASE TakeCancelled
    BY <1>17 DEF TakeCancelled
<1>18. CASE Disconnect
    BY <1>18 DEF Disconnect
<1>19. CASE UNCHANGED vars
    BY <1>19 DEF vars
<1>20. QED
    BY <1>1, <1>2, <1>3, <1>4, <1>5, <1>6, <1>7, <1>8, <1>9, <1>10, <1>11, <1>12, <1>13,
       <1>14, <1>15, <1>16, <1>17, <1>18, <1>19
       DEF Next, Extract, Forward, Serve

\* What the strengthening says of lengths.
LEMMA ToldSuffices == TypeOK /\ PipeOrdered /\ Told => FinalSound
<1> SUFFICES ASSUME TypeOK, PipeOrdered, Told PROVE FinalSound
    OBVIOUS
<1>1. /\ wire \in Seq(Nat) /\ outer \in Seq(Nat) /\ inner \in Seq(Nat)
      /\ Hand \in Seq(Nat) /\ emitted \in Nat
    BY LengthType DEF TypeOK, Hand
<1>2. Len(wire) + Len(outer) + Len(Hand) + Len(inner) = emitted
    <2>1. ((wire \o outer) \o Hand) \o inner = Count(emitted)
        BY DEF PipeOrdered, Pipe, Count, Hand
    <2>2. Len(((wire \o outer) \o Hand) \o inner) = Len(wire) + Len(outer) + Len(Hand) + Len(inner)
        BY <1>1, ConcatProperties
    <2>3. Len(Count(emitted)) = emitted
        BY <1>1, CountSeq
    <2>4. QED
        BY <2>1, <2>2, <2>3
<1>3. ASSUME final = "done", innerDone PROVE Len(wire) = total /\ cached
    <2>1. outer = <<>> /\ forwarder = "exited" /\ inner = <<>> /\ cached /\ emitted = total
        BY <1>3 DEF Told, Extracted, Forwarded, Served
    <2>2. Hand = <<>>
        BY <2>1 DEF Hand
    <2>3. Len(outer) = 0 /\ Len(inner) = 0 /\ Len(Hand) = 0
        BY <2>1, <2>2
    <2>4. QED
        BY <1>1, <1>2, <2>1, <2>3
<1>4. ASSUME final = "error" PROVE wire = <<>> /\ ~cached
    <2>1. emitted = 0 /\ ~cached
        BY <1>4 DEF Told, Forwarded
    <2>2. Len(wire) = 0
        BY <1>1, <1>2, <2>1
    <2>3. QED
        BY <1>1, <2>1, <2>2, EmptySeq
<1>5. handler = "returned" /\ ~gone => final # "none"
    BY DEF Told, Served
<1>6. QED
    BY <1>3, <1>4, <1>5 DEF FinalSound

\* An extracted page is announced as done only when it has been sent in full and
\* cached, an error never follows a chunk, and a client that stays gets a frame.
THEOREM FinalCorrect == Spec => []FinalSound
BY InitTold, StepTold, ToldSuffices, TypeCorrect, PipeCorrect, PTL DEF Spec

-----------------------------------------------------------------------------
(* Induction over the naturals, for a set of them in place of a predicate.  *)

LEMMA InductionOnSets ==
    ASSUME NEW T, 0 \in T, \A n \in Nat : n \in T => n + 1 \in T
    PROVE  Nat \subseteq T
<1> DEFINE R == {p \in Nat \X Nat : p[1] < p[2]}
           Rest == Nat \ T
<1> SUFFICES ASSUME Rest # {} PROVE FALSE
    OBVIOUS
<1>1. IsWellFoundedOn(R, Nat)
    <2>1. R = OpToRel(<, Nat)
        BY DEF OpToRel
    <2>2. QED
        BY <2>1, NatLessThanWellFounded
<1>2. PICK x \in Rest : \A y \in Rest : <<y, x>> \notin R
    <2>1. Rest \subseteq Nat
        OBVIOUS
    <2> HIDE DEF R, Rest
    <2>2. QED
        BY <1>1, <2>1, WFMin
<1>3. x - 1 \in Nat /\ <<x - 1, x>> \in R
    OBVIOUS
<1>4. QED
    BY <1>2, <1>3

\* step[k] leads from the value of f at k - 1 to that at k.
Stepped(f, n, first, step) ==
    f = [k \in 0..n |-> IF k = 0 THEN first ELSE step[k][f[k - 1]]]

Closed(A, n, first, step) == first \in A /\ \A k \in 1..n, a \in A : step[k][a] \in A

\* A function that is defined step by step from 0 to n exists.
LEMMA SteppedExists ==
    ASSUME NEW A, NEW n \in Nat, NEW first, NEW step, Closed(A, n, first, step)
    PROVE  \E f \in [0..n -> A] : Stepped(f, n, first, step)
<1> USE DEF Stepped, Closed
<1> DEFINE Upto(m) == \E f \in [0..m -> A] :
                         Stepped(f, m, first, step)
           T == {m \in Nat : m <= n => Upto(m)}
<1>1. 0 \in T
    <2> DEFINE f == [k \in 0..0 |-> first]
    <2>1. f \in [0..0 -> A] /\ Stepped(f, 0, first, step)
        OBVIOUS
    <2>2. QED
        BY <2>1
<1>2. ASSUME NEW m \in Nat, m \in T PROVE m + 1 \in T
    <2> SUFFICES ASSUME m + 1 <= n PROVE Upto(m + 1)
        OBVIOUS
    <2>1. PICK g \in [0..m -> A] : Stepped(g, m, first, step)
        BY <1>2
    <2> DEFINE f == [k \in 0..m + 1 |-> IF k = m + 1 THEN step[m + 1][g[m]] ELSE g[k]]
    <2>2. f \in [0..m + 1 -> A]
        OBVIOUS
    <2>3. ASSUME NEW k \in 0..m + 1
          PROVE  f[k] = IF k = 0 THEN first ELSE step[k][f[k - 1]]
        <3>1. CASE k = m + 1
            BY <3>1
        <3>2. CASE k # m + 1
            <4>1. k \in 0..m /\ (k # 0 => k - 1 \in 0..m)
                BY <3>2
            <4>2. g[k] = IF k = 0 THEN first ELSE step[k][g[k - 1]]
                BY <2>1, <4>1
            <4>3. f[k] = g[k] /\ (k # 0 => f[k - 1] = g[k - 1])
                BY <4>1
            <4>4. QED
                BY <4>2, <4>3
        <3>3. QED
            BY <3>1, <3>2
    <2>4. Stepped(f, m + 1, first, step)
        BY <2>3
    <2> HIDE DEF f
    <2>5. QED
        BY <2>2, <2>4
<1>3. Nat \subseteq T
    <2> HIDE DEF T
    <2>1. QED
        BY <1>1, <1>2, InductionOnSets
<1>4. QED
    BY <1>3

\* From 0 to n.
LEMMA InductionUpTo ==
    ASSUME NEW n \in Nat, NEW T, 0 \in T, \A k \in 1..n : k - 1 \in T => k \in T
    PROVE  0..n \subseteq T
<1> DEFINE R == {k \in Nat : k <= n => k \in T}
<1>1. 0 \in R
    OBVIOUS
<1>2. ASSUME NEW k \in Nat, k \in R PROVE k + 1 \in R
    <2> SUFFICES ASSUME k + 1 <= n PROVE k + 1 \in T
        OBVIOUS
    <2>1. k + 1 \in 1..n /\ (k + 1) - 1 = k /\ k \in T
        BY <1>2
    <2>2. QED
        BY <2>1
<1>3. Nat \subseteq R
    <2> HIDE DEF R
    <2>1. QED
        BY <1>1, <1>2, InductionOnSets
<1>4. QED
    BY <1>3

\* From the empty sequence to all.
LEMMA SequenceInduction ==
    ASSUME NEW S, NEW T, <<>> \in T, \A s \in Seq(S), e \in S : s \in T => Append(s, e) \in T
    PROVE  Seq(S) \subseteq T
<1> DEFINE R == {n \in Nat : \A s \in Seq(S) : Len(s) = n => s \in T}
<1>1. 0 \in R
    <2>1. \A s \in Seq(S) : Len(s) = 0 => s = <<>>
        BY EmptySeq
    <2>2. QED
        BY <2>1
<1>2. ASSUME NEW n \in Nat, n \in R PROVE n + 1 \in R
    <2> SUFFICES ASSUME NEW s \in Seq(S), Len(s) = n + 1 PROVE s \in T
        OBVIOUS
    <2>1. s # <<>>
        OBVIOUS
    <2>2. PICK t \in Seq(S), e \in S : s = Append(t, e)
        BY <2>1, SequenceEmptyOrAppend
    <2>3. Len(t) = n
        BY <2>2, AppendProperties
    <2>4. t \in T
        BY <1>2, <2>3
    <2>5. QED
        BY <2>2, <2>4
<1>3. Nat \subseteq R
    <2> HIDE DEF R
    <2>1. QED
        BY <1>1, <1>2, InductionOnSets
<1>4. QED
    BY <1>3

-----------------------------------------------------------------------------
(* Sums and scores.                                                         *)

LEMMA SumType ==
    ASSUME NEW s \in Seq(Nat)
    PROVE  SumOf(s) \in Nat
<1> DEFINE n == Len(s)
           Is(f) == f = [k \in 0..n |-> IF k = 0 THEN 0 ELSE f[k - 1] + s[k]]
           upTo == CHOOSE f : Is(f)
<1>3. SumOf(s) = upTo[n]
    BY DEF SumOf
<1>0. n \in Nat /\ \A k \in 1..n : s[k] \in Nat
    OBVIOUS
<1> HIDE DEF n
<1>1. \E f : Is(f)
    <2>1. PICK step : step = [k \in 1..n |-> [a \in Nat |-> a + s[k]]]
        OBVIOUS
    <2>2. ASSUME NEW k \in 1..n, NEW a \in Nat PROVE step[k][a] = a + s[k] /\ step[k][a] \in Nat
        <3>1. s[k] \in Nat
            BY <1>0
        <3>2. step[k] = [b \in Nat |-> b + s[k]]
            BY <2>1
        <3>3. step[k][a] = a + s[k]
            BY <3>2
        <3>4. QED
            BY <3>1, <3>3
    <2>3. Closed(Nat, n, 0, step)
        BY <2>2 DEF Closed
    <2>4. PICK f \in [0..n -> Nat] : Stepped(f, n, 0, step)
        BY <1>0, <2>3, SteppedExists
    <2>5. ASSUME NEW k \in 0..n, k # 0 PROVE step[k][f[k - 1]] = f[k - 1] + s[k]
        <3>1. k \in 1..n /\ k - 1 \in 0..n
            BY <1>0, <2>5
        <3>2. QED
            BY <2>2, <2>4, <3>1
    <2>6. Is(f)
        BY <2>4, <2>5 DEF Stepped
    <2>7. QED
        BY <2>6
<1>2. Is(upTo)
    BY <1>1
<1> HIDE DEF upTo
<1> DEFINE T == {k \in 0..n : upTo[k] \in Nat}
<1>4. 0 \in T
    BY <1>0, <1>2
<1>5. ASSUME NEW k \in 1..n, k - 1 \in T PROVE k \in T
    <2>1. k \in 0..n /\ k # 0 /\ s[k] \in Nat
        BY <1>0
    <2>2. upTo[k] = upTo[k - 1] + s[k]
        BY <1>2, <2>1
    <2>3. QED
        BY <1>5, <2>1, <2>2
<1>6. n \in T
    <2> HIDE DEF T
    <2>1. 0..n \subseteq T
        BY <1>0, <1>4, <1>5, InductionUpTo
    <2>2. QED
        BY <1>0, <2>1
<1>7. QED
    BY <1>3, <1>6

LEMMA SumOverType ==
    ASSUME NEW doc \in Document, NEW nodes, NEW amount \in [DOMAIN doc -> Nat]
    PROVE  SumOver(doc, nodes, amount) \in Nat
<1> DEFINE s == [i \in DOMAIN doc |-> IF i \in nodes THEN amount[i] ELSE 0]
<1>1. DOMAIN doc = 1..Len(doc) /\ Len(doc) \in Nat
    BY DEF Document
<1>2. s \in [1..Len(doc) -> Nat]
    BY <1>1
<1>3. s \in Seq(Nat)
    BY <1>1, <1>2
<1>4. SumOf(s) \in Nat
    <2> HIDE DEF s
    <2>1. QED
        BY <1>3, SumType
<1>5. QED
    BY <1>4 DEF SumOver

\* A score is a fraction.
IsFraction(f) == f.num \in Nat /\ f.den \in Nat \ {0}

LEMMA NodeType ==
    ASSUME NEW doc \in Document
    PROVE  /\ Len(doc) \in Nat /\ DOMAIN doc = 1..Len(doc)
           /\ [i \in DOMAIN doc |-> doc[i].len] \in [DOMAIN doc -> Nat]
           /\ [i \in DOMAIN doc |-> doc[i].trim] \in [DOMAIN doc -> Nat]
<1>1. Len(doc) \in Nat /\ DOMAIN doc = 1..Len(doc)
    BY DEF Document
<1>2. ASSUME NEW i \in DOMAIN doc PROVE doc[i].len \in Nat /\ doc[i].trim \in Nat
    <2>1. PICK T : doc \in Seq([tag : T, up : Nat, len : Nat, trim : Nat])
        BY DEF Document
    <2>2. doc[i] \in [tag : T, up : Nat, len : Nat, trim : Nat]
        BY <1>1, <2>1, ElementOfSeq
    <2>3. QED
        BY <2>2
<1>3. QED
    BY <1>1, <1>2

LEMMA DensityIsFraction ==
    ASSUME NEW doc \in Document, NEW n
    PROVE  IsFraction(Density(doc, n))
<1> DEFINE seen == Walk(doc, n, SkipTags \cup {"a"})
           text == SumOver(doc, Texts(doc, seen), [i \in DOMAIN doc |-> doc[i].trim])
           links == SumOver(doc, {i \in seen : doc[i].tag = "a"},
                            [i \in DOMAIN doc |-> TextContentLen(doc, i)])
           paras == Cardinality({i \in seen : doc[i].tag = "p"})
<1>1. text \in Nat
    BY NodeType, SumOverType
<1>2. links \in Nat
    <2>1. ASSUME NEW i \in DOMAIN doc PROVE TextContentLen(doc, i) \in Nat
        BY NodeType, SumOverType DEF TextContentLen
    <2>2. [i \in DOMAIN doc |-> TextContentLen(doc, i)] \in [DOMAIN doc -> Nat]
        BY <2>1
    <2>3. QED
        BY <2>2, SumOverType
<1>3. paras \in Nat
    <2>1. seen \subseteq DOMAIN doc
        BY DEF Walk
    <2>2. {i \in seen : doc[i].tag = "p"} \subseteq 1..Len(doc) /\ Len(doc) \in Nat
        BY <2>1, NodeType
    <2>3. IsFiniteSet(1..Len(doc))
        BY <2>2, FS_Interval
    <2>4. QED
        BY <2>2, <2>3, FS_Subset, FS_CardinalityType
<1>4. Density(doc, n) = IF text = 0 THEN Fraction(0, 1)
                        ELSE Fraction((text + 2 * paras) * text, text + links)
    BY DEF Density
<1> HIDE DEF text, links, paras
<1>5. CASE text = 0
    BY <1>4, <1>5 DEF IsFraction, Fraction
<1>6. CASE text # 0
    <2>1. text + 2 * paras \in Nat /\ text + links \in Nat \ {0}
        BY <1>1, <1>2, <1>3, <1>6
    <2>2. (text + 2 * paras) * text \in Nat
        BY <1>1, <2>1
    <2>3. QED
        BY <1>4, <1>6, <2>1, <2>2 DEF IsFraction, Fraction
<1>7. QED
    BY <1>5, <1>6

LEMMA ScoreIsFraction ==
    ASSUME NEW doc \in Document, NEW n
    PROVE  /\ IsFraction(Score(doc, n))
           /\ Score(doc, n).num = 0 => Density(doc, n).num = 0
<1> PICK d : d = Density(doc, n)
    OBVIOUS
<1>1. d.num \in Nat /\ d.den \in Nat \ {0}
    BY DensityIsFraction DEF IsFraction
<1>2. Score(doc, n) = IF doc[n].tag = "article" THEN d ELSE Fraction(9 * d.num, 10 * d.den)
    BY DEF Score
<1>3. 9 * d.num \in Nat /\ 10 * d.den \in Nat \ {0} /\ (9 * d.num = 0 => d.num = 0)
    BY <1>1
<1>4. QED
    BY <1>1, <1>2, <1>3 DEF IsFraction, Fraction

\* If t is as good as s and u beats t, u is as good as s.
LEMMA BeatsCompares ==
    ASSUME NEW s, NEW t, NEW u, IsFraction(s), IsFraction(t), IsFraction(u),
           ~Beats(s, t), Beats(u, t)
    PROVE  ~Beats(s, u)
<1> PICK sn \in Nat, sd \in Nat : sn = s.num /\ sd = s.den /\ sd > 0
    BY DEF IsFraction
<1> PICK tn \in Nat, td \in Nat : tn = t.num /\ td = t.den /\ td > 0
    BY DEF IsFraction
<1> PICK un \in Nat, ud \in Nat : un = u.num /\ ud = u.den /\ ud > 0
    BY DEF IsFraction
<1>1. sn * td <= tn * sd /\ un * td > tn * ud
    BY DEF Beats
<1> SUFFICES ASSUME sn * ud > un * sd PROVE FALSE
    BY DEF Beats
<1>2. (sn * ud) * td > (un * sd) * td
    <2>1. \A x, y, z \in Int : x > y /\ z > 0 => x * z > y * z
        OBVIOUS
    <2>2. sn * ud \in Int /\ un * sd \in Int
        OBVIOUS
    <2>3. QED
        BY <2>1, <2>2
<1>3. (un * td) * sd > (tn * ud) * sd
    <2>1. \A x, y, z \in Int : x > y /\ z > 0 => x * z > y * z
        OBVIOUS
    <2>2. un * td \in Int /\ tn * ud \in Int
        OBVIOUS
    <2>3. QED
        BY <1>1, <2>1, <2>2
<1>4. (sn * td) * ud <= (tn * sd) * ud
    <2>1. \A x, y, z \in Int : x <= y /\ z > 0 => x * z <= y * z
        OBVIOUS
    <2>2. sn * td \in Int /\ tn * sd \in Int
        OBVIOUS
    <2>3. QED
        BY <1>1, <2>1, <2>2
<1>5. (sn * ud) * td = (sn * td) * ud /\ (un * sd) * td = (un * td) * sd /\ (tn * ud) * sd = (tn * sd) * ud
    OBVIOUS
<1>6. QED
    BY <1>2, <1>3, <1>4, <1>5

\* No container has a higher score than best, which is none if all scores are zero.
Unbeaten(doc, best) ==
    \A i \in {j \in DOMAIN doc : doc[j].tag \in Containers} :
        IF best = 0 THEN Density(doc, i).num = 0 ELSE ~Beats(Score(doc, i), Score(doc, best))

LEMMA BestIsUnbeaten ==
    ASSUME NEW doc \in Document
    PROVE  Unbeaten(doc, FindBestContainer(doc))
<1> DEFINE n == Len(doc)
           ScoreOf(i) == IF i = 0 THEN Fraction(0, 1) ELSE Score(doc, i)
           Better(best, i) ==
               IF doc[i].tag \in Containers /\ Beats(Score(doc, i), ScoreOf(best)) THEN i ELSE best
           Is(f) == f = [i \in 0..n |-> IF i = 0 THEN 0 ELSE Better(f[i - 1], i)]
           upTo == CHOOSE f : Is(f)
<1>1. FindBestContainer(doc) = upTo[n]
    BY DEF FindBestContainer
<1>2. n \in Nat /\ DOMAIN doc = 1..n
    BY NodeType
<1>3. \A i : IsFraction(ScoreOf(i)) /\ (i # 0 => ScoreOf(i) = Score(doc, i))
    BY ScoreIsFraction DEF IsFraction, Fraction
<1>4. ScoreOf(0) = Fraction(0, 1)
    OBVIOUS
<1> HIDE DEF n, ScoreOf
<1>5. \E f : Is(f)
    <2>1. PICK step : step = [k \in 1..n |-> [a \in 0..n |-> Better(a, k)]]
        OBVIOUS
    <2>2. ASSUME NEW k \in 1..n, NEW a \in 0..n
          PROVE  step[k][a] = Better(a, k) /\ step[k][a] \in 0..n
        <3>1. step[k] = [b \in 0..n |-> Better(b, k)]
            BY <2>1
        <3>2. step[k][a] = Better(a, k)
            BY <3>1
        <3>3. k \in 0..n
            BY <1>2
        <3>4. QED
            BY <3>2, <3>3
    <2> HIDE DEF Better
    <2>3. Closed(0..n, n, 0, step)
        <3>1. 0 \in 0..n
            BY <1>2
        <3>2. QED
            BY <2>2, <3>1 DEF Closed
    <2>4. PICK f \in [0..n -> 0..n] : Stepped(f, n, 0, step)
        BY <1>2, <2>3, SteppedExists
    <2>5. ASSUME NEW k \in 0..n, k # 0 PROVE step[k][f[k - 1]] = Better(f[k - 1], k)
        <3>1. k \in 1..n /\ k - 1 \in 0..n
            BY <1>2, <2>5
        <3>2. f[k - 1] \in 0..n
            BY <2>4, <3>1
        <3>3. QED
            BY <2>2, <3>1, <3>2
    <2>6. Is(f)
        BY <2>4, <2>5 DEF Stepped
    <2>7. QED
        BY <2>6
<1>6. Is(upTo)
    BY <1>5
<1> HIDE DEF upTo
<1> DEFINE T == {k \in 0..n : /\ upTo[k] \in 0..n
                              /\ \A i \in 1..k : doc[i].tag \in Containers
                                    => ~Beats(Score(doc, i), ScoreOf(upTo[k]))}
<1>7. 0 \in T
    BY <1>2, <1>6
<1>8. ASSUME NEW k \in 1..n, k - 1 \in T PROVE k \in T
    <2>1. k \in 0..n /\ k # 0 /\ k - 1 \in 0..n
        BY <1>2
    <2>2. upTo[k] = Better(upTo[k - 1], k)
        BY <1>6, <2>1
    <2> DEFINE old == ScoreOf(upTo[k - 1])
    <2>3. \A i \in 1..k : i = k \/ i \in 1..k - 1
        BY <1>2
    <2>4. CASE doc[k].tag \in Containers /\ Beats(Score(doc, k), old)
        <3>1. upTo[k] = k
            BY <2>2, <2>4
        <3>2. ScoreOf(k) = Score(doc, k)
            BY <1>3, <2>1
        <3>3. \A i \in 1..k - 1 : doc[i].tag \in Containers => ~Beats(Score(doc, i), old)
            BY <1>8
        <3>4. IsFraction(old) /\ \A i : IsFraction(Score(doc, i))
            BY <1>3, ScoreIsFraction
        <3> HIDE DEF old
        <3>5. \A i \in 1..k - 1 : doc[i].tag \in Containers => ~Beats(Score(doc, i), Score(doc, k))
            BY <2>4, <3>3, <3>4, BeatsCompares
        <3>6. ~Beats(Score(doc, k), Score(doc, k))
            <4>1. PICK s : s = Score(doc, k)
                OBVIOUS
            <4>2. s.num \in Nat /\ s.den \in Nat
                BY <3>4, <4>1 DEF IsFraction
            <4>3. s.num * s.den \in Nat
                BY <4>2
            <4>4. QED
                BY <4>1, <4>3 DEF Beats
        <3>7. \A i \in 1..k : doc[i].tag \in Containers => ~Beats(Score(doc, i), Score(doc, k))
            BY <2>3, <3>5, <3>6
        <3>8. QED
            BY <2>1, <3>1, <3>2, <3>7
    <2>5. CASE ~(doc[k].tag \in Containers /\ Beats(Score(doc, k), old))
        <3>1. upTo[k] = upTo[k - 1]
            BY <2>2, <2>5
        <3>2. QED
            BY <1>8, <2>1, <2>3, <2>5, <3>1
    <2>6. QED
        BY <2>4, <2>5
<1>9. n \in T
    <2>1. 0..n \subseteq T
        <3> HIDE DEF T
        <3>1. QED
            BY <1>2, <1>7, <1>8, InductionUpTo
    <2>2. QED
        BY <1>2, <2>1
<1>10. ASSUME NEW i \in DOMAIN doc, doc[i].tag \in Containers
       PROVE  IF upTo[n] = 0 THEN Density(doc, i).num = 0
              ELSE ~Beats(Score(doc, i), Score(doc, upTo[n]))
    <2>1. ~Beats(Score(doc, i), ScoreOf(upTo[n]))
        BY <1>2, <1>9, <1>10
    <2>2. CASE upTo[n] = 0
        <3>1. PICK s : s = Score(doc, i)
            OBVIOUS
        <3>2. s.num \in Nat /\ s.den \in Nat
            BY <3>1, ScoreIsFraction DEF IsFraction
        <3>3. ~Beats(s, Fraction(0, 1))
            BY <1>4, <2>1, <2>2, <3>1
        <3>4. s.num * 1 = s.num /\ 0 * s.den = 0
            BY <3>2
        <3>5. s.num = 0
            BY <3>2, <3>3, <3>4 DEF Beats, Fraction
        <3>6. QED
            BY <2>2, <3>1, <3>5, ScoreIsFraction
    <2>3. CASE upTo[n] # 0
        BY <1>3, <2>1, <2>3
    <2>4. QED
        BY <2>2, <2>3
<1>11. QED
    BY <1>1, <1>10 DEF Unbeaten

-----------------------------------------------------------------------------
(* Sequences with elements left out, and sequences of sequences.            *)

\* f has what Only makes of the first k elements of s, for all k.
Filters(f, s, T) ==
    f = [k \in 0..Len(s) |->
            IF k = 0 THEN <<>>
            ELSE IF s[k] \in T THEN Append(f[k - 1], s[k]) ELSE f[k - 1]]

LEMMA OnlyFilters ==
    ASSUME NEW S, NEW s \in Seq(S), NEW T
    PROVE  \E f \in [0..Len(s) -> Seq(S)] : Filters(f, s, T) /\ Only(s, T) = f[Len(s)]
<1> DEFINE n == Len(s)
           upTo == CHOOSE f : Filters(f, s, T)
<1>1. Only(s, T) = upTo[n]
    BY DEF Only, Filters
<1>2. n \in Nat /\ \A k \in 1..n : s[k] \in S
    OBVIOUS
<1>3. \E f : Filters(f, s, T)
    <2>1. PICK A : A = Seq(S)
        OBVIOUS
    <2>2. PICK step :
            step = [k \in 1..n |-> [a \in A |-> IF s[k] \in T THEN Append(a, s[k]) ELSE a]]
        OBVIOUS
    <2>3. PICK first : first = <<>>
        OBVIOUS
    <2>4. ASSUME NEW k \in 1..n, NEW a \in A
          PROVE  /\ step[k][a] = IF s[k] \in T THEN Append(a, s[k]) ELSE a
                 /\ step[k][a] \in A
        <3>1. step[k] = [b \in A |-> IF s[k] \in T THEN Append(b, s[k]) ELSE b]
            BY <2>2
        <3>2. step[k][a] = IF s[k] \in T THEN Append(a, s[k]) ELSE a
            BY <3>1
        <3>3. s[k] \in S /\ a \in Seq(S)
            BY <1>2, <2>1
        <3>4. Append(a, s[k]) \in Seq(S)
            BY <3>3, AppendProperties
        <3>5. QED
            BY <2>1, <3>2, <3>3, <3>4
    <2>5. Closed(A, n, first, step)
        <3>1. first \in A
            BY <2>1, <2>3
        <3>2. QED
            BY <2>4, <3>1 DEF Closed
    <2>6. PICK f \in [0..n -> A] : Stepped(f, n, first, step)
        BY <1>2, <2>5, SteppedExists
    <2>7. ASSUME NEW k \in 0..n, k # 0
          PROVE  step[k][f[k - 1]] = IF s[k] \in T THEN Append(f[k - 1], s[k]) ELSE f[k - 1]
        <3>1. k \in 1..n /\ k - 1 \in 0..n
            BY <1>2, <2>7
        <3>2. f[k - 1] \in A
            BY <2>6, <3>1
        <3>3. QED
            BY <2>4, <3>1, <3>2
    <2>8. Filters(f, s, T)
        BY <2>3, <2>6, <2>7 DEF Stepped, Filters
    <2>9. QED
        BY <2>8
<1>4. Filters(upTo, s, T)
    BY <1>3
<1> HIDE DEF upTo, n
<1>5. upTo = [k \in 0..n |->
                IF k = 0 THEN <<>>
                ELSE IF s[k] \in T THEN Append(upTo[k - 1], s[k]) ELSE upTo[k - 1]]
    BY <1>4 DEF Filters, n
<1> DEFINE R == {k \in 0..n : upTo[k] \in Seq(S)}
<1>6. 0 \in R
    BY <1>2, <1>5
<1>7. ASSUME NEW k \in 1..n, k - 1 \in R PROVE k \in R
    <2>1. k \in 0..n /\ k # 0 /\ s[k] \in S
        BY <1>2
    <2>2. upTo[k] = IF s[k] \in T THEN Append(upTo[k - 1], s[k]) ELSE upTo[k - 1]
        BY <1>5, <2>1
    <2>3. upTo[k - 1] \in Seq(S)
        BY <1>7
    <2>4. Append(upTo[k - 1], s[k]) \in Seq(S)
        BY <2>1, <2>3, AppendProperties
    <2>5. QED
        BY <2>1, <2>2, <2>3, <2>4
<1>8. 0..n \subseteq R
    <2> HIDE DEF R
    <2>1. QED
        BY <1>2, <1>6, <1>7, InductionUpTo
<1>9. upTo \in [0..n -> Seq(S)]
    BY <1>5, <1>8
<1>10. QED
    BY <1>1, <1>4, <1>9 DEF n

FiltersUpTo(f, s, T, n) ==
    /\ f[0] = <<>>
    /\ \A k \in 1..n : f[k] = IF s[k] \in T THEN Append(f[k - 1], s[k]) ELSE f[k - 1]

LEMMA FiltersSteps ==
    ASSUME NEW s, NEW T, NEW n \in Nat, n = Len(s), NEW f, Filters(f, s, T)
    PROVE  FiltersUpTo(f, s, T, n)
<1>1. f = [k \in 0..n |->
              IF k = 0 THEN <<>>
              ELSE IF s[k] \in T THEN Append(f[k - 1], s[k]) ELSE f[k - 1]]
    BY Zenon DEF Filters
<1>2. \A k \in 0..n : f[k] = IF k = 0 THEN <<>>
              ELSE IF s[k] \in T THEN Append(f[k - 1], s[k]) ELSE f[k - 1]
    BY <1>1
<1>3. 0 \in 0..n /\ \A k \in 1..n : k \in 0..n /\ k # 0
    OBVIOUS
<1>4. QED
    BY <1>2, <1>3 DEF FiltersUpTo

LEMMA OnlyEmpty ==
    ASSUME NEW T
    PROVE  Only(<<>>, T) = <<>>
<1>1. <<>> \in Seq({}) /\ Len(<<>>) = 0
    OBVIOUS
<1>2. PICK f : Filters(f, <<>>, T) /\ Only(<<>>, T) = f[Len(<<>>)]
    BY <1>1, OnlyFilters
<1>3. f[0] = <<>>
    BY <1>1, <1>2 DEF Filters
<1>4. QED
    BY <1>1, <1>2, <1>3

LEMMA OnlyAppend ==
    ASSUME NEW S, NEW s \in Seq(S), NEW e \in S, NEW T
    PROVE  /\ e \in T => Only(Append(s, e), T) = Append(Only(s, T), e)
           /\ e \notin T => Only(Append(s, e), T) = Only(s, T)
<1> PICK n \in Nat : n = Len(s)
    OBVIOUS
<1> PICK t \in Seq(S) : t = Append(s, e)
    BY AppendProperties
<1>1. Len(t) = n + 1 /\ t[n + 1] = e /\ \A k \in 1..n : t[k] = s[k]
    BY AppendProperties
<1>2. PICK f \in [0..n -> Seq(S)] : Filters(f, s, T) /\ Only(s, T) = f[n]
    BY OnlyFilters
<1>3. PICK g \in [0..n + 1 -> Seq(S)] : Filters(g, t, T) /\ Only(t, T) = g[n + 1]
    BY <1>1, OnlyFilters
<1>4. /\ f[0] = <<>>
      /\ \A k \in 1..n : f[k] = IF s[k] \in T THEN Append(f[k - 1], s[k]) ELSE f[k - 1]
    <2>1. FiltersUpTo(f, s, T, n)
        BY <1>2, FiltersSteps
    <2>2. QED
        BY <2>1 DEF FiltersUpTo
<1>5. /\ g[0] = <<>>
      /\ \A k \in 1..n + 1 : g[k] = IF t[k] \in T THEN Append(g[k - 1], t[k]) ELSE g[k - 1]
    <2>1. n + 1 \in Nat /\ n + 1 = Len(t)
        BY <1>1
    <2>2. FiltersUpTo(g, t, T, n + 1)
        BY <1>3, <2>1, FiltersSteps
    <2>3. QED
        BY <2>2 DEF FiltersUpTo
<1> DEFINE R == {k \in 0..n : f[k] = g[k]}
<1>6. 0 \in R
    BY <1>4, <1>5
<1>7. ASSUME NEW k \in 1..n, k - 1 \in R PROVE k \in R
    <2>1. k \in 0..n /\ k \in 1..n + 1 /\ s[k] = t[k]
        BY <1>1
    <2>2. f[k - 1] = g[k - 1]
        BY <1>7
    <2>3. f[k] = g[k]
        BY <1>4, <1>5, <2>1, <2>2
    <2>4. QED
        BY <2>1, <2>3
<1>8. f[n] = g[n]
    <2>1. 0..n \subseteq R
        <3> HIDE DEF R
        <3>1. QED
            BY <1>6, <1>7, InductionUpTo
    <2>2. QED
        BY <2>1
<1>9. g[n + 1] = IF e \in T THEN Append(g[n], e) ELSE g[n]
    <2>1. n + 1 \in 1..n + 1 /\ (n + 1) - 1 = n
        OBVIOUS
    <2>2. QED
        BY <1>1, <1>5, <2>1
<1>10. QED
    BY <1>2, <1>3, <1>8, <1>9

\* f has the first k sequences of ss put one behind the other, for all k.
Joins(f, ss) ==
    /\ f[0] = <<>>
    /\ \A k \in 1..Len(ss) : f[k] = f[k - 1] \o ss[k]

LEMMA FlattenJoins ==
    ASSUME NEW S, NEW ss \in Seq(Seq(S))
    PROVE  \E f \in [0..Len(ss) -> Seq(S)] : Joins(f, ss) /\ FlattenSeq(ss) = f[Len(ss)]
<1> DEFINE n == Len(ss)
           Is(g) == g = [i \in 1..n |-> IF i = 1 THEN ss[i] ELSE g[i - 1] \o ss[i]]
           flatten == CHOOSE g : Is(g)
<1>1. FlattenSeq(ss) = IF n = 0 THEN ss ELSE flatten[n]
    BY DEF FlattenSeq
<1>2. n \in Nat /\ \A k \in 1..n : ss[k] \in Seq(S)
    OBVIOUS
<1>a. n = 0 => ss = <<>>
    BY EmptySeq
<1> HIDE DEF n
<1>3. PICK f \in [0..n -> Seq(S)] : f[0] = <<>> /\ \A k \in 1..n : f[k] = f[k - 1] \o ss[k]
    <2>1. PICK A : A = Seq(S)
        OBVIOUS
    <2>2. PICK step : step = [k \in 1..n |-> [a \in A |-> a \o ss[k]]]
        OBVIOUS
    <2>3. PICK first : first = <<>>
        OBVIOUS
    <2>4. ASSUME NEW k \in 1..n, NEW a \in A
          PROVE  step[k][a] = a \o ss[k] /\ step[k][a] \in A
        <3>1. step[k] = [b \in A |-> b \o ss[k]]
            BY <2>2
        <3>2. step[k][a] = a \o ss[k]
            BY <3>1
        <3>3. ss[k] \in Seq(S) /\ a \in Seq(S)
            BY <1>2, <2>1
        <3>4. a \o ss[k] \in Seq(S)
            BY <3>3, ConcatProperties
        <3>5. QED
            BY <2>1, <3>2, <3>4
    <2>5. Closed(A, n, first, step)
        <3>1. first \in A
            BY <2>1, <2>3
        <3>2. QED
            BY <2>4, <3>1 DEF Closed
    <2>6. PICK f \in [0..n -> A] : Stepped(f, n, first, step)
        BY <1>2, <2>5, SteppedExists
    <2>7. f[0] = <<>>
        BY <1>2, <2>3, <2>6 DEF Stepped
    <2>8. ASSUME NEW k \in 1..n PROVE f[k] = f[k - 1] \o ss[k]
        <3>1. k \in 0..n /\ k # 0 /\ k - 1 \in 0..n
            BY <1>2
        <3>2. f[k] = step[k][f[k - 1]] /\ f[k - 1] \in A
            BY <2>6, <3>1 DEF Stepped
        <3>3. QED
            BY <2>4, <3>2
    <2>9. QED
        BY <2>1, <2>6, <2>7, <2>8
<1>4. \E g : Is(g)
    <2> DEFINE g == [i \in 1..n |-> f[i]]
    <2>1. ASSUME NEW i \in 1..n PROVE g[i] = IF i = 1 THEN ss[i] ELSE g[i - 1] \o ss[i]
        <3>1. f[i] = f[i - 1] \o ss[i] /\ g[i] = f[i]
            BY <1>3
        <3>2. CASE i = 1
            <4>1. <<>> \o ss[i] = ss[i]
                BY <1>2
            <4>2. f[i - 1] = <<>>
                BY <1>3, <3>2
            <4>3. QED
                BY <3>1, <3>2, <4>1, <4>2
        <3>3. CASE i # 1
            <4>1. i - 1 \in 1..n
                BY <1>2, <3>3
            <4>2. g[i - 1] = f[i - 1]
                BY <4>1
            <4>3. QED
                BY <3>1, <3>3, <4>2
        <3>4. QED
            BY <3>2, <3>3
    <2>2. Is(g)
        BY <2>1
    <2>3. QED
        BY <2>2
<1>5. Is(flatten)
    BY <1>4
<1> HIDE DEF flatten
<1> DEFINE R == {k \in 0..n : k # 0 => flatten[k] = f[k]}
<1>6. 0 \in R
    BY <1>2
<1>7. ASSUME NEW k \in 1..n, k - 1 \in R PROVE k \in R
    <2>1. k \in 0..n /\ k \in Nat
        BY <1>2
    <2>2. flatten[k] = IF k = 1 THEN ss[k] ELSE flatten[k - 1] \o ss[k]
        BY <1>5
    <2>3. f[k] = f[k - 1] \o ss[k]
        BY <1>3
    <2>4. CASE k = 1
        <3>1. <<>> \o ss[k] = ss[k]
            BY <1>2
        <3>2. f[k - 1] = <<>>
            BY <1>3, <2>4
        <3>3. QED
            BY <2>1, <2>2, <2>3, <2>4, <3>1, <3>2
    <2>5. CASE k # 1
        <3>1. flatten[k - 1] = f[k - 1]
            BY <1>7, <2>1, <2>5
        <3>2. QED
            BY <2>1, <2>2, <2>3, <2>5, <3>1
    <2>6. QED
        BY <2>4, <2>5
<1>8. n \in R
    <2>1. 0..n \subseteq R
        <3> HIDE DEF R
        <3>1. QED
            BY <1>2, <1>6, <1>7, InductionUpTo
    <2>2. QED
        BY <1>2, <2>1
<1>9. FlattenSeq(ss) = f[n]
    BY <1>1, <1>a, <1>3, <1>8
<1>10. Joins(f, ss)
    BY <1>3 DEF Joins, n
<1>11. QED
    BY <1>3, <1>9, <1>10 DEF n

LEMMA OnlyType ==
    ASSUME NEW S, NEW s \in Seq(S), NEW T
    PROVE  Only(s, T) \in Seq(S)
<1>1. PICK f \in [0..Len(s) -> Seq(S)] : Only(s, T) = f[Len(s)]
    BY OnlyFilters
<1>2. Len(s) \in 0..Len(s)
    OBVIOUS
<1>3. QED
    BY <1>1, <1>2

\* Leaving elements out of two sequences, and then putting them together, or the
\* other way round.
LEMMA OnlyConcat ==
    ASSUME NEW S, NEW s \in Seq(S), NEW t \in Seq(S), NEW T
    PROVE  Only(s \o t, T) = Only(s, T) \o Only(t, T)
<1> DEFINE R == {u \in Seq(S) : Only(s \o u, T) = Only(s, T) \o Only(u, T)}
<1>0. Only(s, T) \in Seq(S) /\ \A u \in Seq(S) : Only(u, T) \in Seq(S)
    BY OnlyType
<1>1. <<>> \in R
    <2>1. s \o <<>> = s /\ Only(s, T) \o <<>> = Only(s, T) /\ <<>> \in Seq(S)
        BY <1>0, ConcatEmptySeq, EmptySeq
    <2>2. QED
        BY <2>1, OnlyEmpty
<1>2. ASSUME NEW u \in Seq(S), NEW e \in S, u \in R PROVE Append(u, e) \in R
    <2>1. s \o Append(u, e) = Append(s \o u, e) /\ s \o u \in Seq(S) /\ Append(u, e) \in Seq(S)
        BY EnterBack, ConcatProperties, AppendProperties
    <2>2. /\ Only(Append(s \o u, e), T)
                = IF e \in T THEN Append(Only(s \o u, T), e) ELSE Only(s \o u, T)
          /\ Only(Append(u, e), T) = IF e \in T THEN Append(Only(u, T), e) ELSE Only(u, T)
        <3>1. Only(Append(s \o u, e), T)
                = IF e \in T THEN Append(Only(s \o u, T), e) ELSE Only(s \o u, T)
            BY <2>1, OnlyAppend
        <3>2. Only(Append(u, e), T) = IF e \in T THEN Append(Only(u, T), e) ELSE Only(u, T)
            BY OnlyAppend
        <3>3. QED
            BY <3>1, <3>2
    <2>3. Only(s \o u, T) = Only(s, T) \o Only(u, T)
        BY <1>2
    <2>4. Only(s, T) \o Append(Only(u, T), e) = Append(Only(s, T) \o Only(u, T), e)
        BY <1>0, EnterBack
    <2>5. QED
        BY <2>1, <2>2, <2>3, <2>4
<1>3. t \in R
    <2> HIDE DEF R
    <2>1. QED
        BY <1>1, <1>2, SequenceInduction
<1>4. QED
    BY <1>3

LEMMA FlattenAppend ==
    ASSUME NEW S, NEW ss \in Seq(Seq(S)), NEW s \in Seq(S)
    PROVE  /\ FlattenSeq(ss) \in Seq(S)
           /\ FlattenSeq(Append(ss, s)) = FlattenSeq(ss) \o s
<1> PICK n \in Nat : n = Len(ss)
    OBVIOUS
<1> PICK tt \in Seq(Seq(S)) : tt = Append(ss, s)
    BY AppendProperties
<1>1. Len(tt) = n + 1 /\ tt[n + 1] = s /\ \A k \in 1..n : tt[k] = ss[k]
    BY AppendProperties
<1>2. PICK f \in [0..n -> Seq(S)] : Joins(f, ss) /\ FlattenSeq(ss) = f[n]
    BY FlattenJoins
<1>3. PICK g \in [0..n + 1 -> Seq(S)] : Joins(g, tt) /\ FlattenSeq(tt) = g[n + 1]
    <2>1. \E g \in [0..Len(tt) -> Seq(S)] : Joins(g, tt) /\ FlattenSeq(tt) = g[Len(tt)]
        BY FlattenJoins
    <2>2. Len(tt) = n + 1
        BY <1>1
    <2>3. QED
        BY <2>1, <2>2
<1>4. f[0] = <<>> /\ \A k \in 1..n : f[k] = f[k - 1] \o ss[k]
    BY <1>2 DEF Joins
<1>5. g[0] = <<>> /\ \A k \in 1..n + 1 : g[k] = g[k - 1] \o tt[k]
    BY <1>1, <1>3 DEF Joins
<1> DEFINE R == {k \in 0..n : f[k] = g[k]}
<1>6. 0 \in R
    BY <1>4, <1>5
<1>7. ASSUME NEW k \in 1..n, k - 1 \in R PROVE k \in R
    <2>1. k \in 0..n /\ k \in 1..n + 1 /\ ss[k] = tt[k]
        BY <1>1
    <2>2. f[k - 1] = g[k - 1]
        BY <1>7
    <2>3. f[k] = g[k]
        BY <1>4, <1>5, <2>1, <2>2
    <2>4. QED
        BY <2>1, <2>3
<1>8. f[n] = g[n]
    <2>1. 0..n \subseteq R
        <3> HIDE DEF R
        <3>1. QED
            BY <1>6, <1>7, InductionUpTo
    <2>2. QED
        BY <2>1
<1>9. g[n + 1] = g[n] \o s
    <2>1. n + 1 \in 1..n + 1 /\ (n + 1) - 1 = n
        OBVIOUS
    <2>2. QED
        BY <1>1, <1>5, <2>1
<1>10. QED
    BY <1>2, <1>3, <1>8, <1>9

LEMMA FlattenEmpty == FlattenSeq(<<>>) = <<>>
<1>1. Len(<<>>) = 0
    OBVIOUS
<1>2. QED
    BY <1>1 DEF FlattenSeq

LEMMA FlattenConcat ==
    ASSUME NEW S, NEW ss \in Seq(Seq(S)), NEW tt \in Seq(Seq(S))
    PROVE  FlattenSeq(ss \o tt) = FlattenSeq(ss) \o FlattenSeq(tt)
<1> PICK A : A = Seq(S)
    OBVIOUS
<1> DEFINE R == {uu \in Seq(A) : FlattenSeq(ss \o uu) = FlattenSeq(ss) \o FlattenSeq(uu)}
<1>0. \A uu \in Seq(A) : FlattenSeq(uu) \in Seq(S)
    BY FlattenAppend, EmptySeq
<1>1. <<>> \in R
    <2>1. ss \o <<>> = ss /\ <<>> \in Seq(A) /\ FlattenSeq(ss) \o <<>> = FlattenSeq(ss)
        BY <1>0, ConcatEmptySeq, EmptySeq
    <2>2. QED
        BY <2>1, FlattenEmpty
<1>2. ASSUME NEW uu \in Seq(A), NEW s \in A, uu \in R PROVE Append(uu, s) \in R
    <2>1. ss \o Append(uu, s) = Append(ss \o uu, s) /\ ss \o uu \in Seq(A) /\ Append(uu, s) \in Seq(A)
        BY EnterBack, ConcatProperties, AppendProperties
    <2>2. FlattenSeq(Append(ss \o uu, s)) = FlattenSeq(ss \o uu) \o s
        BY <2>1, FlattenAppend
    <2>3. FlattenSeq(Append(uu, s)) = FlattenSeq(uu) \o s
        BY FlattenAppend
    <2>4. FlattenSeq(ss \o uu) = FlattenSeq(ss) \o FlattenSeq(uu)
        BY <1>2
    <2>5. (FlattenSeq(ss) \o FlattenSeq(uu)) \o s = FlattenSeq(ss) \o (FlattenSeq(uu) \o s)
        BY <1>0, ConcatAssociative
    <2>6. QED
        BY <2>1, <2>2, <2>3, <2>4, <2>5
<1>3. tt \in R
    <2> HIDE DEF R
    <2>1. tt \in Seq(A)
        OBVIOUS
    <2>2. QED
        BY <1>1, <1>2, <2>1, SequenceInduction
<1>4. QED
    BY <1>3

LEMMA ConcatHasPrefix ==
    ASSUME NEW S, NEW s \in Seq(S), NEW t \in Seq(S)
    PROVE  IsPrefix(s, s \o t)
<1>1. s \o t \in Seq(S) /\ Len(s \o t) = Len(s) + Len(t) /\ Len(s) \in Nat /\ Len(t) \in Nat
    BY ConcatProperties
<1>2. SubSeq(s, 1, Len(s)) = SubSeq(s \o t, 1, Len(s))
    <2>1. CASE Len(s) = 0
        BY <2>1, SubSeqEmpty
    <2>2. CASE Len(s) # 0
        <3>1. 1 \in 1..Len(s) /\ Len(s) \in 1..Len(s)
            BY <1>1, <2>2
        <3>2. QED
            BY <3>1, SubSeqOfConcat1
    <2>3. QED
        BY <2>1, <2>2
<1>3. QED
    BY <1>1, <1>2 DEF IsPrefix

\* What is left of the first sequences is a beginning of what is left of all.
LEMMA FirstOnesArePrefix ==
    ASSUME NEW S, NEW ss \in Seq(Seq(S)), NEW m \in 0..Len(ss), NEW T
    PROVE  IsPrefix(Only(FlattenSeq(SubSeq(ss, 1, m)), T), Only(FlattenSeq(ss), T))
<1> PICK A : A = Seq(S)
    OBVIOUS
<1> PICK n \in Nat : n = Len(ss)
    OBVIOUS
<1> DEFINE one == SubSeq(ss, 1, m)
           two == SubSeq(ss, m + 1, n)
<1>1. one \in Seq(A) /\ two \in Seq(A)
    <2>1. \A i \in 1..m : ss[i] \in A
        OBVIOUS
    <2>2. \A i \in m + 1..n : ss[i] \in A
        OBVIOUS
    <2>3. 1 \in Int /\ m \in Int /\ m + 1 \in Int /\ n \in Int
        OBVIOUS
    <2>4. QED
        BY <2>1, <2>2, <2>3, SubSeqProperties
<1>2. one \o two = ss
    <2>1. 1 \in 1..n + 1 /\ m \in 1 - 1..n /\ n \in m..n
        OBVIOUS
    <2>2. one \o two = SubSeq(ss, 1, n)
        BY <2>1, ConcatAdjacentSubSeq
    <2>3. QED
        BY <2>2, SubSeqFull
<1> HIDE DEF one, two
<1>3. FlattenSeq(one) \in Seq(S) /\ FlattenSeq(two) \in Seq(S)
    BY <1>1, FlattenAppend, EmptySeq
<1>4. FlattenSeq(ss) = FlattenSeq(one) \o FlattenSeq(two)
    BY <1>1, <1>2, FlattenConcat
<1>5. Only(FlattenSeq(ss), T) = Only(FlattenSeq(one), T) \o Only(FlattenSeq(two), T)
    BY <1>3, <1>4, OnlyConcat
<1>6. Only(FlattenSeq(one), T) \in Seq(S) /\ Only(FlattenSeq(two), T) \in Seq(S)
    BY <1>3, OnlyType
<1>7. IsPrefix(Only(FlattenSeq(one), T), Only(FlattenSeq(ss), T))
    BY <1>5, <1>6, ConcatHasPrefix
<1>8. QED
    BY <1>7 DEF one

-----------------------------------------------------------------------------
(* The two walks over the text.                                             *)

LEMMA VisitedType ==
    ASSUME NEW doc \in Document
    PROVE  Visited(doc) \in Seq(DOMAIN doc)
<1> PICK n \in Nat : n = Len(doc)
    BY NodeType
<1>1. DOMAIN doc = 1..n
    BY NodeType
<1> DEFINE s == [i \in 1..n |-> i]
<1>2. s \in Seq(1..n)
    OBVIOUS
<1>3. Visited(doc) = Only(s, Walk(doc, FindBestContainer(doc), SkipTags))
    BY <1>1 DEF Visited
<1> HIDE DEF s
<1>4. QED
    BY <1>1, <1>2, <1>3, OnlyType

\* What the walk may have in its hands: a buffer and chunks of node numbers.
WalkState == [buf : Seq(Nat), chunks : Seq(Seq(Nat))]

\* After the nodes seen, buffer and chunks hold all text that is not blank, and
\* no chunk is too short.
Streams(doc, s, seen) ==
    /\ s \in WalkState
    /\ NotBlank(doc, FlattenSeq(s.chunks) \o s.buf) = NotBlank(doc, seen)
    /\ \A k \in 1..Len(s.chunks) :
        s.chunks[k] # <<>> /\ Size(doc, s.chunks[k]) >= StreamChunkSize

LEMMA NotBlankType ==
    ASSUME NEW doc, NEW S, NEW s \in Seq(S)
    PROVE  NotBlank(doc, s) \in Seq(S)
BY OnlyType DEF NotBlank

LEMMA NotBlankText ==
    ASSUME NEW doc, NEW s \in Seq(Nat), NEW t \in Seq(Nat), NEW i \in Nat,
           NotBlank(doc, s) = NotBlank(doc, t)
    PROVE  NotBlank(doc, Append(s, i)) = NotBlank(doc, Append(t, i))
<1> PICK T : T = {j \in Texts(doc, DOMAIN doc) : doc[j].trim > 0}
    OBVIOUS
<1>1. \A u : NotBlank(doc, u) = Only(u, T)
    BY DEF NotBlank
<1>0. Only(s, T) = Only(t, T)
    BY <1>1
<1>2. CASE i \in T
    <2>1. Only(Append(s, i), T) = Append(Only(s, T), i)
        BY <1>2, OnlyAppend
    <2>2. Only(Append(t, i), T) = Append(Only(t, T), i)
        BY <1>2, OnlyAppend
    <2>3. QED
        BY <1>0, <1>1, <2>1, <2>2
<1>3. CASE i \notin T
    <2>1. Only(Append(s, i), T) = Only(s, T)
        BY <1>3, OnlyAppend
    <2>2. Only(Append(t, i), T) = Only(t, T)
        BY <1>3, OnlyAppend
    <2>3. QED
        BY <1>0, <1>1, <2>1, <2>2
<1>4. QED
    BY <1>2, <1>3

LEMMA NotBlankOther ==
    ASSUME NEW doc, NEW s \in Seq(Nat), NEW i \in Nat, doc[i].tag # "text"
    PROVE  NotBlank(doc, Append(s, i)) = NotBlank(doc, s)
<1> PICK T : T = {j \in Texts(doc, DOMAIN doc) : doc[j].trim > 0}
    OBVIOUS
<1>1. \A u : NotBlank(doc, u) = Only(u, T)
    BY DEF NotBlank
<1>2. i \notin T
    BY DEF Texts
<1>3. QED
    BY <1>1, <1>2, OnlyAppend

LEMMA FlushedStreams ==
    ASSUME NEW doc, NEW s, NEW seen, Streams(doc, s, seen), Size(doc, s.buf) >= StreamChunkSize
    PROVE  Streams(doc, Flushed(s), seen)
<1>1. s.buf \in Seq(Nat) /\ s.chunks \in Seq(Seq(Nat))
    BY DEF Streams, WalkState
<1>2. CASE s.buf = <<>>
    BY <1>2 DEF Flushed
<1>3. CASE s.buf # <<>>
    <2> DEFINE t == [buf |-> <<>>, chunks |-> Append(s.chunks, s.buf)]
    <2>1. Flushed(s) = t
        BY <1>3 DEF Flushed
    <2>2. t.buf = <<>> /\ t.chunks = Append(s.chunks, s.buf)
        OBVIOUS
    <2>3. t \in WalkState
        <3>1. Append(s.chunks, s.buf) \in Seq(Seq(Nat)) /\ <<>> \in Seq(Nat)
            BY <1>1, AppendProperties
        <3>2. QED
            BY <3>1 DEF WalkState
    <2> HIDE DEF t
    <2>4. FlattenSeq(t.chunks) \o t.buf = FlattenSeq(s.chunks) \o s.buf
        <3>1. FlattenSeq(t.chunks) = FlattenSeq(s.chunks) \o s.buf
            BY <1>1, <2>2, FlattenAppend
        <3>2. FlattenSeq(t.chunks) \in Seq(Nat)
            <4>1. t.chunks \in Seq(Seq(Nat))
                BY <2>3 DEF WalkState
            <4>2. QED
                BY <4>1, FlattenAppend, EmptySeq
        <3>3. FlattenSeq(t.chunks) \o <<>> = FlattenSeq(t.chunks)
            BY <3>2, ConcatEmptySeq
        <3>4. QED
            BY <2>2, <3>1, <3>3
    <2>5. ASSUME NEW k \in 1..Len(t.chunks)
          PROVE  t.chunks[k] # <<>> /\ Size(doc, t.chunks[k]) >= StreamChunkSize
        <3> PICK n \in Nat : n = Len(s.chunks)
            BY <1>1
        <3>1. /\ Len(t.chunks) = n + 1 /\ t.chunks[n + 1] = s.buf
              /\ \A j \in 1..n : t.chunks[j] = s.chunks[j]
            BY <1>1, <2>2, AppendProperties
        <3>2. CASE k = n + 1
            BY <1>3, <3>1, <3>2
        <3>3. CASE k # n + 1
            <4>1. k \in 1..n
                BY <3>1, <3>3
            <4>2. QED
                BY <3>1, <4>1 DEF Streams
        <3>4. QED
            BY <3>2, <3>3
    <2>6. QED
        BY <2>1, <2>3, <2>4, <2>5 DEF Streams
<1>4. QED
    BY <1>2, <1>3

LEMMA VisitType ==
    ASSUME NEW doc, NEW s \in WalkState, NEW i \in Nat
    PROVE  Visit(doc, s, i) \in WalkState
<1>1. ASSUME NEW t \in WalkState PROVE Flushed(t) \in WalkState
    <2>1. t.buf \in Seq(Nat) /\ t.chunks \in Seq(Seq(Nat))
        BY DEF WalkState
    <2>2. Append(t.chunks, t.buf) \in Seq(Seq(Nat)) /\ <<>> \in Seq(Nat)
        BY <2>1, AppendProperties
    <2>3. QED
        BY <2>2 DEF Flushed, WalkState
<1>2. [s EXCEPT !.buf = Append(@, i)] \in WalkState
    <2>1. s.buf \in Seq(Nat)
        BY DEF WalkState
    <2>2. Append(s.buf, i) \in Seq(Nat)
        BY <2>1, AppendProperties
    <2>3. QED
        BY <2>2 DEF WalkState
<1>3. QED
    BY <1>1, <1>2, Zenon DEF Visit

LEMMA VisitStreams ==
    ASSUME NEW doc, NEW s, NEW seen \in Seq(Nat), NEW i \in Nat, Streams(doc, s, seen)
    PROVE  Streams(doc, Visit(doc, s, i), Append(seen, i))
<1> DEFINE Full(t) == Size(doc, t.buf) >= StreamChunkSize
           written == [s EXCEPT !.buf = Append(@, i)]
<1>1. s.buf \in Seq(Nat) /\ s.chunks \in Seq(Seq(Nat)) /\ s \in WalkState
    BY DEF Streams, WalkState
<1>2. Visit(doc, s, i) =
        CASE doc[i].tag \in Blocks -> IF Full(s) THEN Flushed(s) ELSE s
          [] doc[i].tag = "text"   -> IF Full(written) THEN Flushed(written) ELSE written
          [] OTHER                 -> s
    BY DEF Visit
<1>3. CASE doc[i].tag # "text"
    <2>1. Streams(doc, s, Append(seen, i))
        BY <1>3, NotBlankOther DEF Streams
    <2>2. Visit(doc, s, i) = s \/ (Full(s) /\ Visit(doc, s, i) = Flushed(s))
        BY <1>2, <1>3
    <2>3. QED
        BY <2>1, <2>2, FlushedStreams
<1>4. CASE doc[i].tag = "text"
    <2>1. doc[i].tag \notin Blocks
        BY <1>4 DEF Blocks
    <2>2. written.buf = Append(s.buf, i) /\ written.chunks = s.chunks /\ written \in WalkState
        <3>1. Append(s.buf, i) \in Seq(Nat)
            BY <1>1, AppendProperties
        <3>2. QED
            BY <1>1, <3>1 DEF WalkState
    <2>3. Visit(doc, s, i) = written \/ (Full(written) /\ Visit(doc, s, i) = Flushed(written))
        BY <1>2, <1>4, <2>1
    <2> HIDE DEF written
    <2>4. FlattenSeq(s.chunks) \in Seq(Nat)
        BY <1>1, FlattenAppend, EmptySeq
    <2>5. PICK text \in Seq(Nat) : text = FlattenSeq(s.chunks) \o s.buf
        BY <1>1, <2>4, ConcatProperties
    <2>6. FlattenSeq(written.chunks) \o written.buf = Append(text, i)
        <3>1. FlattenSeq(s.chunks) \o Append(s.buf, i) = Append(FlattenSeq(s.chunks) \o s.buf, i)
            <4>1. PICK sent \in Seq(Nat), held \in Seq(Nat) :
                    sent = FlattenSeq(s.chunks) /\ held = s.buf
                BY <1>1, <2>4
            <4>2. sent \o Append(held, i) = Append(sent \o held, i)
                BY EnterBack
            <4>3. QED
                BY <4>1, <4>2
        <3>2. QED
            BY <2>2, <2>5, <3>1
    <2>7. NotBlank(doc, text) = NotBlank(doc, seen)
        BY <2>5 DEF Streams
    <2>8. NotBlank(doc, FlattenSeq(written.chunks) \o written.buf) = NotBlank(doc, Append(seen, i))
        <3>1. NotBlank(doc, Append(text, i)) = NotBlank(doc, Append(seen, i))
            BY <2>7, NotBlankText
        <3>2. QED
            BY <2>6, <3>1
    <2>9. Streams(doc, written, Append(seen, i))
        BY <2>2, <2>8 DEF Streams
    <2>10. QED
        BY <2>3, <2>9, FlushedStreams
<1>5. QED
    BY <1>3, <1>4

LEMMA WalkedStreams ==
    ASSUME NEW doc \in Document
    PROVE  Streams(doc, Walked(doc), Visited(doc))
<1> DEFINE nodes == Visited(doc)
           n == Len(nodes)
           first == [buf |-> <<>>, chunks |-> <<>>]
           Is(f) == f = [k \in 0..n |-> IF k = 0 THEN first ELSE Visit(doc, f[k - 1], nodes[k])]
           upTo == CHOOSE f : Is(f)
           Seen(k) == SubSeq(nodes, 1, k)
<1>1. Walked(doc) = upTo[n]
    BY DEF Walked
<1>2. nodes \in Seq(Nat) /\ n \in Nat /\ \A k \in 1..n : nodes[k] \in Nat
    <2>1. DOMAIN doc \subseteq Nat
        BY NodeType
    <2>2. nodes \in Seq(Nat)
        BY <2>1, VisitedType, SeqMonotonic
    <2> HIDE DEF nodes
    <2>3. QED
        BY <2>2
<1> HIDE DEF nodes, n
<1>3. \A k \in 0..n : Seen(k) \in Seq(Nat)
    <2>1. ASSUME NEW k \in 0..n PROVE Seen(k) \in Seq(Nat)
        <3>1. 1 \in Int /\ k \in Int /\ \A i \in 1..k : nodes[i] \in Nat
            BY <1>2
        <3>2. QED
            BY <3>1, SubSeqProperties
    <2>2. QED
        BY <2>1
<1>4. Streams(doc, first, Seen(0))
    <2>1. Seen(0) = <<>>
        BY SubSeqEmpty
    <2>2. first.buf = <<>> /\ first.chunks = <<>>
        OBVIOUS
    <2>3. first \in WalkState
        <3>1. <<>> \in Seq(Nat) /\ <<>> \in Seq(Seq(Nat))
            OBVIOUS
        <3>2. QED
            BY <3>1 DEF WalkState
    <2>4. FlattenSeq(<<>>) \o <<>> = <<>>
        BY FlattenEmpty
    <2>5. Len(<<>>) = 0
        OBVIOUS
    <2> HIDE DEF first, Seen
    <2>6. QED
        BY <2>1, <2>2, <2>3, <2>4, <2>5 DEF Streams
<1>5. ASSUME NEW k \in 1..n, NEW s, Streams(doc, s, Seen(k - 1))
      PROVE  Streams(doc, Visit(doc, s, nodes[k]), Seen(k))
    <2>1. k - 1 \in 0..n /\ nodes[k] \in Nat
        BY <1>2
    <2>2. PICK seen \in Seq(Nat) : seen = Seen(k - 1)
        BY <1>3, <2>1
    <2>3. Seen(k) = Append(seen, nodes[k])
        <3>1. 1 \in 1..Len(nodes) /\ k \in 1..Len(nodes)
            BY <1>2 DEF n
        <3>2. SubSeq(nodes, 1, k) = SubSeq(nodes, 1, k - 1) \o <<nodes[k]>>
            BY <1>2, <3>1, SubSeqRecursiveSecond
        <3>3. Append(seen, nodes[k]) = seen \o <<nodes[k]>>
            BY <2>1, AppendIsConcat
        <3>4. QED
            BY <2>2, <3>2, <3>3
    <2> HIDE DEF Seen
    <2>4. Streams(doc, s, seen)
        BY <1>5, <2>2
    <2>5. Streams(doc, Visit(doc, s, nodes[k]), Append(seen, nodes[k]))
        BY <2>1, <2>4, VisitStreams
    <2>6. QED
        BY <2>3, <2>5
<1> HIDE DEF Seen
<1>6. \E f : Is(f)
    <2>1. PICK A : A = WalkState
        OBVIOUS
    <2>2. PICK step : step = [k \in 1..n |-> [a \in A |-> Visit(doc, a, nodes[k])]]
        OBVIOUS
    <2>3. first \in A
        BY <1>4, <2>1 DEF Streams
    <2> HIDE DEF first
    <2>4. ASSUME NEW k \in 1..n, NEW a \in A
          PROVE  step[k][a] = Visit(doc, a, nodes[k]) /\ step[k][a] \in A
        <3>1. step[k] = [b \in A |-> Visit(doc, b, nodes[k])]
            BY <2>2
        <3>2. step[k][a] = Visit(doc, a, nodes[k])
            BY <3>1
        <3>3. Visit(doc, a, nodes[k]) \in WalkState
            BY <1>2, <2>1, VisitType
        <3>4. QED
            BY <2>1, <3>2, <3>3
    <2>5. Closed(A, n, first, step)
        BY <2>3, <2>4 DEF Closed
    <2>6. PICK f \in [0..n -> A] : Stepped(f, n, first, step)
        BY <1>2, <2>5, SteppedExists
    <2>7. ASSUME NEW k \in 0..n, k # 0 PROVE step[k][f[k - 1]] = Visit(doc, f[k - 1], nodes[k])
        <3>1. k \in 1..n /\ k - 1 \in 0..n
            BY <1>2, <2>7
        <3>2. f[k - 1] \in A
            BY <2>6, <3>1
        <3>3. QED
            BY <2>4, <3>1, <3>2
    <2>8. Is(f)
        BY <2>6, <2>7 DEF Stepped
    <2>9. QED
        BY <2>8
<1>7. Is(upTo)
    BY <1>6
<1> HIDE DEF upTo, first
<1> DEFINE T == {k \in 0..n : Streams(doc, upTo[k], Seen(k))}
<1>8. 0 \in T
    <2>1. 0 \in 0..n
        BY <1>2
    <2>2. upTo[0] = first
        BY <1>7, <2>1
    <2>3. QED
        BY <1>4, <2>1, <2>2
<1>9. ASSUME NEW k \in 1..n, k - 1 \in T PROVE k \in T
    <2>1. k \in 0..n /\ k # 0
        BY <1>2
    <2>2. upTo[k] = Visit(doc, upTo[k - 1], nodes[k])
        BY <1>7, <2>1
    <2>3. Streams(doc, upTo[k - 1], Seen(k - 1))
        BY <1>9
    <2>4. QED
        BY <1>5, <2>1, <2>2, <2>3
<1>10. n \in T
    <2>1. 0..n \subseteq T
        <3> HIDE DEF T
        <3>1. QED
            BY <1>2, <1>8, <1>9, InductionUpTo
    <2>2. QED
        BY <1>2, <2>1
<1>11. Seen(n) = nodes
    BY <1>2, SubSeqFull DEF Seen, n
<1>12. QED
    BY <1>1, <1>10, <1>11 DEF nodes

\* The chunks hold the page's text, none is empty, and none but the last is short.
LEMMA ChunksHoldText ==
    ASSUME NEW doc \in Document
    PROVE  /\ Chunks(doc) \in Seq(Seq(Nat))
           /\ NotBlank(doc, FlattenSeq(Chunks(doc))) = PageText(doc)
           /\ \A k \in 1..Len(Chunks(doc)) :
                /\ Chunks(doc)[k] # <<>>
                /\ k < Len(Chunks(doc)) => Size(doc, Chunks(doc)[k]) >= StreamChunkSize
<1> PICK s : s = Walked(doc)
    OBVIOUS
<1> PICK seen : seen = Visited(doc)
    OBVIOUS
<1>1. Streams(doc, s, seen)
    BY WalkedStreams
<1>2. s.buf \in Seq(Nat) /\ s.chunks \in Seq(Seq(Nat)) /\ Len(s.chunks) \in Nat
    BY <1>1 DEF Streams, WalkState
<1>3. PageText(doc) = NotBlank(doc, FlattenSeq(s.chunks) \o s.buf)
    BY <1>1 DEF PageText, Streams
<1>4. \A k \in 1..Len(s.chunks) : s.chunks[k] # <<>> /\ Size(doc, s.chunks[k]) >= StreamChunkSize
    BY <1>1 DEF Streams
<1>5. CASE s.buf = <<>>
    <2>1. Chunks(doc) = s.chunks
        BY <1>5 DEF Chunks, Flushed
    <2>2. FlattenSeq(s.chunks) \in Seq(Nat)
        BY <1>2, FlattenAppend, EmptySeq
    <2>3. FlattenSeq(s.chunks) \o s.buf = FlattenSeq(s.chunks)
        BY <1>5, <2>2, ConcatEmptySeq
    <2>4. QED
        BY <1>2, <1>3, <1>4, <2>1, <2>3
<1>6. CASE s.buf # <<>>
    <2> PICK cs \in Seq(Seq(Nat)) : cs = Append(s.chunks, s.buf)
        BY <1>2, AppendProperties
    <2>1. Chunks(doc) = cs
        BY <1>6 DEF Chunks, Flushed
    <2>2. FlattenSeq(cs) = FlattenSeq(s.chunks) \o s.buf
        BY <1>2, FlattenAppend
    <2> PICK n \in Nat : n = Len(s.chunks)
        BY <1>2
    <2>3. Len(cs) = n + 1 /\ cs[n + 1] = s.buf /\ \A k \in 1..n : cs[k] = s.chunks[k]
        BY <1>2, AppendProperties
    <2>4. ASSUME NEW k \in 1..Len(cs)
          PROVE  cs[k] # <<>> /\ (k < Len(cs) => Size(doc, cs[k]) >= StreamChunkSize)
        <3>1. CASE k = n + 1
            BY <1>6, <2>3, <3>1
        <3>2. CASE k # n + 1
            <4>1. k \in 1..n
                BY <2>3, <3>2
            <4>2. QED
                BY <1>4, <2>3, <4>1
        <3>3. QED
            BY <3>1, <3>2
    <2>5. QED
        BY <1>3, <2>1, <2>2, <2>4
<1>7. QED
    BY <1>5, <1>6

-----------------------------------------------------------------------------
\* What the walk is going to send is known from its beginning on.
Measured == extractor = "walk" \/ innerDone => total = Length[page]

LEMMA InitMeasured == Init => Measured
BY DEF Init, Measured

LEMMA StepMeasured == Measured /\ [Next]_vars => Measured'
<1> SUFFICES ASSUME Measured, [Next]_vars PROVE Measured'
    OBVIOUS
<1>1. page' = page
    BY DEF Next, Extract, Forward, Serve, ParseFails, ParseSucceeds, Flush, Deliver, CloseInner,
        FetchFails, FetchSucceeds, Receive, Send, RangeEnds, SettlePage, SettleError, CloseOuter,
        TakeChunk, TakeClosed, TakeError, TakeCancelled, Disconnect,
        vars, innerVars, outerVars, extractVars, forwardVars, serveVars
<1>2. CASE ParseSucceeds
    BY <1>1, <1>2 DEF ParseSucceeds, Measured
<1>3. CASE Deliver
    BY <1>1, <1>3 DEF Deliver, Measured
<1>4. CASE ~ParseSucceeds /\ ~Deliver
    <2>1. total' = total /\ innerDone' = innerDone /\ (extractor' = "walk" => extractor = "walk")
        BY <1>4 DEF Next, Extract, Forward, Serve, ParseFails, Flush, CloseInner,
            FetchFails, FetchSucceeds, Receive, Send, RangeEnds, SettlePage, SettleError, CloseOuter,
            TakeChunk, TakeClosed, TakeError, TakeCancelled, Disconnect,
            vars, innerVars, outerVars, extractVars, forwardVars, serveVars
    <2>2. QED
        BY <1>1, <2>1 DEF Measured
<1>5. QED
    BY <1>2, <1>3, <1>4

LEMMA ConcatTurns ==
    \A s, t, u \in Seq(Nat) : t \o u \in Seq(Nat) /\ (s \o t) \o u = s \o (t \o u)
<1>1. \A s, t, u \in Seq(Nat) : (s \o t) \o u = s \o (t \o u)
    BY ConcatAssociative
<1>2. \A t, u \in Seq(Nat) : t \o u \in Seq(Nat)
    BY ConcatProperties
<1>3. QED
    BY <1>1, <1>2

\* The beginning of a sequence that counts does, too.
LEMMA FrontCounts ==
    ASSUME NEW a \in Seq(Nat), NEW b \in Seq(Nat), NEW c \in Seq(Nat), NEW d \in Seq(Nat),
           NEW n \in Nat, ((a \o b) \o c) \o d = Count(n)
    PROVE  Len(a) \in Nat /\ Len(a) <= n /\ \A k \in 1..Len(a) : a[k] = k - 1
<1>1. PICK rest \in Seq(Nat) : a \o rest = Count(n)
    <2>1. b \o c \in Seq(Nat) /\ (a \o b) \o c = a \o (b \o c)
        BY ConcatTurns, Zenon
    <2>2. (b \o c) \o d \in Seq(Nat) /\ (a \o (b \o c)) \o d = a \o ((b \o c) \o d)
        BY <2>1, ConcatTurns, Zenon
    <2>3. QED
        BY <2>1, <2>2
<1>2. /\ Len(a \o rest) = Len(a) + Len(rest)
      /\ \A k \in 1..Len(a) + Len(rest) :
            (a \o rest)[k] = IF k <= Len(a) THEN a[k] ELSE rest[k - Len(a)]
    BY <1>1, ConcatProperties
<1>3. Len(Count(n)) = n /\ \A k \in 1..n : Count(n)[k] = k - 1
    BY CountSeq
<1>4. Len(a) \in Nat /\ Len(rest) \in Nat /\ Len(a) + Len(rest) = n
    BY <1>1, <1>2, <1>3
<1>5. ASSUME NEW k \in 1..Len(a) PROVE a[k] = k - 1
    <2>1. k \in 1..Len(a) + Len(rest) /\ k \in 1..n /\ k <= Len(a)
        BY <1>4
    <2>2. (a \o rest)[k] = a[k]
        BY <1>2, <2>1
    <2>3. QED
        BY <1>1, <1>3, <2>1, <2>2
<1>6. QED
    BY <1>4, <1>5

\* The client has the first chunks of the page.
LEMMA WireCounts ==
    ASSUME TypeOK, PipeOrdered
    PROVE  /\ wire \in Seq(Nat) /\ Len(wire) \in 0..Length[page] /\ Len(wire) <= total
           /\ \A k \in 1..Len(wire) : wire[k] = k - 1
<1>1. /\ wire \in Seq(Nat) /\ outer \in Seq(Nat) /\ inner \in Seq(Nat) /\ Hand \in Seq(Nat)
      /\ emitted \in Nat /\ Length[page] \in Nat /\ total \in {0, Length[page]} /\ emitted <= total
    BY LengthType DEF TypeOK, Hand
<1>2. ((wire \o outer) \o Hand) \o inner = Count(emitted)
    BY DEF PipeOrdered, Pipe, Count, Hand
<1>3. Len(wire) \in Nat /\ Len(wire) <= emitted /\ \A k \in 1..Len(wire) : wire[k] = k - 1
    BY <1>1, <1>2, FrontCounts
<1>4. QED
    BY <1>1, <1>3

\* The chunk that waits for the handler is the next one.
LEMMA NextChunk ==
    ASSUME TypeOK, PipeOrdered, outer # <<>>
    PROVE  Head(outer) = Len(wire) /\ Len(wire) < emitted /\ emitted \in Nat /\ emitted <= total
<1>1. /\ wire \in Seq(Nat) /\ outer \in Seq(Nat) /\ inner \in Seq(Nat) /\ Hand \in Seq(Nat)
      /\ emitted \in Nat /\ total \in Nat /\ emitted <= total
    BY LengthType DEF TypeOK, Hand
<1>2. PICK w : w = Append(wire, Head(outer))
    OBVIOUS
<1>3. Head(outer) \in Nat /\ Tail(outer) \in Seq(Nat)
    BY <1>1, HeadTailProperties
<1>4. w \in Seq(Nat) /\ Len(w) = Len(wire) + 1 /\ w[Len(wire) + 1] = Head(outer)
    BY <1>1, <1>2, <1>3, AppendProperties
<1>5. w \o Tail(outer) = wire \o outer
    BY <1>1, <1>2, MoveFront
<1>6. ((w \o Tail(outer)) \o Hand) \o inner = Count(emitted)
    BY <1>5 DEF PipeOrdered, Pipe, Count, Hand
<1>7. Len(w) \in Nat /\ Len(w) <= emitted /\ \A k \in 1..Len(w) : w[k] = k - 1
    BY <1>1, <1>3, <1>4, <1>6, FrontCounts
<1>8. Len(wire) \in Nat
    BY <1>1, LenProperties
<1>9. Len(wire) + 1 \in 1..Len(w)
    BY <1>4, <1>8
<1>10. w[Len(wire) + 1] = Len(wire)
    BY <1>7, <1>8, <1>9
<1>11. QED
    BY <1>1, <1>4, <1>7, <1>8, <1>10

LEMMA PageSuffices == TypeOK /\ PipeOrdered /\ Told /\ FinalSound /\ Measured => StreamIsPage
<1> SUFFICES ASSUME TypeOK, PipeOrdered, Told, FinalSound, Measured PROVE StreamIsPage
    OBVIOUS
<1> PICK cs : cs = Chunks(page)
    OBVIOUS
<1> PICK n \in Nat : n = Len(wire)
    BY WireCounts
<1>1. page \in Document /\ Length[page] = Len(cs)
    BY PagesAssumption, LengthAssumption DEF TypeOK
<1>2. /\ cs \in Seq(Seq(Nat)) /\ Len(cs) \in Nat
      /\ NotBlank(page, FlattenSeq(cs)) = PageText(page)
      /\ \A k \in 1..Len(cs) :
            cs[k] # <<>> /\ (k < Len(cs) => Size(page, cs[k]) >= StreamChunkSize)
    BY <1>1, ChunksHoldText
<1>3. n \in 0..Len(cs) /\ n <= total /\ DOMAIN wire = 1..n /\ \A k \in 1..n : wire[k] = k - 1
    BY <1>1, WireCounts
<1> DEFINE first == SubSeq(cs, 1, n)
<1>4. Sent = FlattenSeq(first)
    <2> DEFINE s == [k \in DOMAIN wire |-> Chunks(page)[wire[k] + 1]]
    <2>1. s = [k \in 1..n |-> cs[k]]
        <3>1. DOMAIN s = 1..n
            BY <1>3
        <3>2. ASSUME NEW k \in 1..n PROVE s[k] = cs[k]
            <4>1. wire[k] + 1 = k
                BY <1>3
            <4>2. s[k] = cs[wire[k] + 1]
                BY <1>3
            <4>3. QED
                BY <4>1, <4>2
        <3>3. QED
            BY <3>1, <3>2
    <2>2. s = first
        <3>1. /\ first \in Seq(Seq(Nat)) /\ Len(first) = n
              /\ \A k \in 1..n : first[k] = cs[k]
            <4>1. 1 \in Int /\ n \in Int /\ \A k \in 1..n : cs[k] \in Seq(Nat)
                BY <1>2, <1>3
            <4>2. /\ first \in Seq(Seq(Nat)) /\ Len(first) = IF 1 <= n THEN n - 1 + 1 ELSE 0
                  /\ \A k \in 1..n - 1 + 1 : first[k] = cs[1 + k - 1]
                BY <4>1, SubSeqProperties
            <4>3. n - 1 + 1 = n /\ \A k \in 1..n : 1 + k - 1 = k
                OBVIOUS
            <4>4. QED
                BY <4>2, <4>3
        <3> HIDE DEF first, s
        <3>2. DOMAIN first = 1..n
            BY <3>1
        <3>3. first = [k \in 1..n |-> first[k]]
            BY <3>1, <3>2
        <3>4. QED
            BY <2>1, <3>1, <3>3
    <2> HIDE DEF first
    <2>3. QED
        BY <2>2 DEF Sent
<1>5. IsPrefix(NotBlank(page, Sent), PageText(page))
    <2> PICK T : T = {i \in Texts(page, DOMAIN page) : page[i].trim > 0}
        OBVIOUS
    <2>1. \A u : NotBlank(page, u) = Only(u, T)
        BY DEF NotBlank
    <2>2. IsPrefix(Only(FlattenSeq(first), T), Only(FlattenSeq(cs), T))
        BY <1>2, <1>3, FirstOnesArePrefix
    <2>3. QED
        BY <1>2, <1>4, <2>1, <2>2
<1>6. ASSUME final = "done", cached PROVE NotBlank(page, Sent) = PageText(page)
    <2>1. innerDone
        BY <1>6 DEF Told, Forwarded
    <2>2. n = Len(cs)
        BY <1>1, <1>6, <2>1 DEF FinalSound, Measured
    <2>3. first = cs
        BY <1>2, <2>2, SubSeqFull
    <2>4. QED
        BY <1>2, <1>4, <2>3
<1>7. ASSUME NEW k \in DOMAIN wire
      PROVE  /\ Chunks(page)[wire[k] + 1] # <<>>
             /\ wire[k] + 1 < total => Size(page, Chunks(page)[wire[k] + 1]) >= StreamChunkSize
    <2>1. wire[k] + 1 = k /\ k \in 1..n /\ k \in 1..Len(cs)
        BY <1>3
    <2>2. total \in {0, Len(cs)}
        BY <1>1 DEF TypeOK
    <2>3. k < total => k < Len(cs)
        BY <1>2, <2>1, <2>2
    <2>4. QED
        BY <1>2, <2>1, <2>3
<1>8. Unbeaten(page, FindBestContainer(page))
    BY <1>1, BestIsUnbeaten
<1>9. QED
    BY <1>5, <1>6, <1>7, <1>8 DEF StreamIsPage, Unbeaten

\* A client has at any time been sent a beginning of the text that is cached, all
\* of it with a page that is announced as done, in chunks that are not too short,
\* and the text is that of a container which no other one outscores.
THEOREM PageCorrect == Spec => []StreamIsPage
BY InitTold, StepTold, InitMeasured, StepMeasured, PageSuffices,
   TypeCorrect, PipeCorrect, FinalCorrect, PTL DEF Spec

-----------------------------------------------------------------------------
LEMMA InitRefines == Init => Stream!Init
BY DEF Init, Stream!Init

\* The handler's steps write the frames, the end of the parse decides which, and
\* nothing else shows.
LEMMA StepRefines ==
    TypeOK /\ PipeOrdered /\ Told /\ FinalSound' /\ [Next]_vars => [Stream!Next]_(Stream!vars)
<1> SUFFICES ASSUME TypeOK, PipeOrdered, Told, FinalSound', [Next]_vars
             PROVE  [Stream!Next]_(Stream!vars)
    OBVIOUS
<1>0. Length[page] \in Nat /\ emitted \in Nat /\ total \in Nat
    BY LengthType DEF TypeOK
<1> USE DEF innerVars, outerVars, extractVars, forwardVars, serveVars
<1>1. CASE ParseFails
    <2>1. ~innerErr /\ forwarder # "fetch"
        BY <1>1 DEF ParseFails, Told, Extracted
    <2>2. Stream!Fail
        BY <1>1, <2>1 DEF ParseFails, Stream!Fail
    <2>3. QED
        BY <2>2 DEF Stream!Next
<1>2. CASE FetchFails
    <2>1. extractor = "off" /\ ~innerErr
        BY <1>2 DEF FetchFails, Told, Extracted
    <2>2. Stream!Fail
        BY <1>2, <2>1 DEF FetchFails, Stream!Fail
    <2>3. QED
        BY <2>2 DEF Stream!Next
<1>3. CASE ParseSucceeds
    <2>1. ~innerErr
        BY <1>3 DEF ParseSucceeds, Told, Extracted
    <2>2. total' \in Nat
        BY <1>0, <1>3 DEF ParseSucceeds
    <2>3. Stream!Prepare
        BY <1>3, <2>1, <2>2 DEF ParseSucceeds, Stream!Prepare
    <2>4. QED
        BY <2>3 DEF Stream!Next
<1>4. CASE TakeChunk
    <2>1. Head(outer) = Len(wire) /\ Len(wire) < total /\ emitted # 0 /\ total # 0
        <3>1. wire \in Seq(Nat) /\ outer # <<>>
            BY <1>4 DEF TakeChunk, TypeOK
        <3>2. Len(wire) \in Nat
            BY <3>1, LenProperties
        <3>3. QED
            BY <1>0, <3>1, <3>2, NextChunk
    <2>2. extractor \notin {"off", "parse"} /\ ~innerErr
        BY <2>1 DEF TypeOK, Told, Extracted
    <2>3. Stream!Frame
        BY <1>4, <2>1, <2>2 DEF TakeChunk, Stream!Frame
    <2>4. QED
        BY <2>3 DEF Stream!Next
<1>5. CASE TakeClosed
    <2>1. forwarder = "exited" /\ (extractor = "off" \/ extractor = "exited")
        BY <1>5 DEF TakeClosed, TypeOK, Told, Extracted, Forwarded
    <2>2. CASE innerErr \/ extractor = "off"
        <3>1. Stream!Done
            BY <1>5, <2>1, <2>2 DEF TakeClosed, Stream!Done, Stream!Close
        <3>2. QED
            BY <3>1 DEF Stream!Next
    <2>3. CASE ~innerErr /\ extractor = "exited"
        <3>1. innerDone
            BY <2>3 DEF Told, Extracted
        <3>2. Len(wire) = total
            BY <1>5, <3>1 DEF TakeClosed, FinalSound
        <3>3. Stream!Done
            BY <1>5, <2>3, <3>2 DEF TakeClosed, Stream!Done, Stream!Close
        <3>4. QED
            BY <3>3 DEF Stream!Next
    <2>4. QED
        BY <2>1, <2>2, <2>3
<1>6. CASE TakeError
    <2>1. innerErr \/ (extractor = "off" /\ forwarder # "fetch")
        BY <1>6 DEF TakeError, TypeOK, Told, Extracted, Forwarded
    <2>2. Stream!Error
        BY <1>6, <2>1 DEF TakeError, Stream!Error, Stream!Close
    <2>3. QED
        BY <2>2 DEF Stream!Next
<1>7. CASE TakeCancelled
    <2>1. Stream!Abandon
        BY <1>7 DEF TakeCancelled, Stream!Abandon, Stream!Close
    <2>2. QED
        BY <2>1 DEF Stream!Next
<1>8. CASE Disconnect
    <2>1. Stream!Leave
        BY <1>8 DEF Disconnect, Stream!Leave
    <2>2. QED
        BY <2>1 DEF Stream!Next
<1>9. CASE FetchSucceeds
    <2>1. extractor = "off" /\ ~innerErr
        BY <1>9 DEF FetchSucceeds, Told, Extracted
    <2>2. QED
        BY <1>9, <2>1 DEF FetchSucceeds, Stream!vars
<1>10. CASE Flush \/ Deliver \/ CloseInner
    BY <1>10 DEF Flush, Deliver, CloseInner, Stream!vars
<1>11. CASE Receive \/ Send \/ RangeEnds \/ SettlePage \/ SettleError \/ CloseOuter
    BY <1>11 DEF Receive, Send, RangeEnds, SettlePage, SettleError, CloseOuter, Stream!vars
<1>12. CASE UNCHANGED vars
    BY <1>12 DEF vars, Stream!vars
<1>13. QED
    BY <1>1, <1>2, <1>3, <1>4, <1>5, <1>6, <1>7, <1>8, <1>9, <1>10, <1>11, <1>12
       DEF Next, Extract, Forward, Serve

\* A streamed fetch implements the promise of EventStream.
THEOREM Refinement == Spec => ImplementsEventStream
<1>1. Spec => []Told
    BY InitTold, StepTold, TypeCorrect, PTL DEF Spec
<1>2. QED
    BY <1>1, InitRefines, StepRefines, TypeCorrect, PipeCorrect, FinalCorrect, PTL
       DEF Spec, ImplementsEventStream, Stream!Spec
=============================================================================
