------------------------- MODULE SearchStreamProofs -------------------------
(***************************************************************************)
(* What a streamed search guarantees for every capacity of the channel and  *)
(* every number of results.                                                 *)
(***************************************************************************)
EXTENDS SearchStream, SequenceTheorems, TLAPS

LEMMA InitType == Init => TypeOK
<1> SUFFICES ASSUME Init PROVE TypeOK
    OBVIOUS
<1>1. <<>> \in Seq(Nat) /\ Len(<<>>) = 0
    OBVIOUS
<1>2. itemsClosed \in BOOLEAN /\ doneCh \in BOOLEAN /\ errCh \in BOOLEAN /\ gone \in BOOLEAN
    BY DEF Init
<1>3. QED
    BY <1>1, <1>2, ItemCapAssumption, ResultsAssumption DEF Init, TypeOK

\* Every action keeps the types.
LEMMA StepType == TypeOK /\ [Next]_vars => TypeOK'
<1> SUFFICES ASSUME TypeOK, [Next]_vars PROVE TypeOK'
    OBVIOUS
<1> USE ItemCapAssumption, ResultsAssumption
        DEF TypeOK, produceVars, channelVars, serveVars
<1>1. CASE SearchFails
    BY <1>1 DEF SearchFails
<1>2. CASE SearchSucceeds
    <2>1. sent = 0
        BY <1>2 DEF SearchSucceeds
    <2>2. QED
        BY <1>2, <2>1 DEF SearchSucceeds
<1>3. CASE SendItem
    BY <1>3 DEF SendItem
<1>4. CASE ItemsOver \/ Abort
    BY <1>4 DEF ItemsOver, Abort
<1>5. CASE SendSummary
    BY <1>5 DEF SendSummary
<1>6. CASE CloseItems
    BY <1>6 DEF CloseItems
<1>7. CASE TakeItem
    <2>1. Head(items) \in Nat /\ Tail(items) \in Seq(Nat) /\ Len(Tail(items)) = Len(items) - 1
        BY <1>7, HeadTailProperties DEF TakeItem
    <2>2. QED
        BY <1>7, <2>1 DEF TakeItem
<1>8. CASE Drained
    BY <1>8 DEF Drained
<1>9. CASE TakeDone
    BY <1>9 DEF TakeDone
<1>10. CASE TakeError
    BY <1>10 DEF TakeError
<1>11. CASE TakeCancelled
    BY <1>11 DEF TakeCancelled
<1>12. CASE Disconnect
    BY <1>12 DEF Disconnect
<1>13. CASE UNCHANGED vars
    BY <1>13 DEF vars
<1>14. QED
    BY <1>1, <1>2, <1>3, <1>4, <1>5, <1>6, <1>7, <1>8, <1>9, <1>10, <1>11, <1>12, <1>13
       DEF Next, Produce, Serve

\* The channel, the results and the frames keep their types.
THEOREM TypeCorrect == Spec => []TypeOK
BY InitType, StepType, PTL DEF Spec

-----------------------------------------------------------------------------
\* The results reach the client in order, none lost or duplicated.
PipeOrdered == wire \o items = [i \in 1..sent |-> i - 1]

\* PipeOrdered by its elements: the channel goes on where the wire ends.
Pipe ==
    /\ Len(wire) + Len(items) = sent
    /\ \A i \in 1..Len(wire) : wire[i] = i - 1
    /\ \A i \in 1..Len(items) : items[i] = Len(wire) + i - 1

LEMMA InitPipe == Init => Pipe
BY DEF Init, Pipe

\* Only SendItem and TakeItem touch the pipe: one feeds it, the other moves the
\* boundary between its parts.
LEMMA StepPipe == TypeOK /\ Pipe /\ [Next]_vars => Pipe'
<1> SUFFICES ASSUME TypeOK, Pipe, [Next]_vars PROVE Pipe'
    OBVIOUS
<1>0. /\ wire \in Seq(Nat) /\ items \in Seq(Nat) /\ sent \in Nat
      /\ Len(wire) \in Nat /\ Len(items) \in Nat
    BY ResultsAssumption, LenProperties DEF TypeOK
<1>1. CASE SendItem
    <2>1. wire' = wire /\ items' = Append(items, sent) /\ sent' = sent + 1
        BY <1>1 DEF SendItem, serveVars
    <2>2. /\ Len(items') = Len(items) + 1 /\ items'[Len(items) + 1] = sent
          /\ \A i \in 1..Len(items) : items'[i] = items[i]
        BY <1>0, <2>1, AppendProperties
    <2>3. ASSUME NEW i \in 1..Len(items) + 1 PROVE items'[i] = Len(wire) + i - 1
        <3>1. CASE i = Len(items) + 1
            BY <1>0, <2>2, <3>1 DEF Pipe
        <3>2. CASE i # Len(items) + 1
            <4>1. i \in 1..Len(items)
                BY <1>0, <3>2
            <4>2. QED
                BY <2>2, <4>1 DEF Pipe
        <3>3. QED
            BY <3>1, <3>2
    <2>4. QED
        BY <1>0, <2>1, <2>2, <2>3 DEF Pipe
<1>2. CASE TakeItem
    <2>1. /\ wire' = Append(wire, Head(items)) /\ items' = Tail(items) /\ sent' = sent
          /\ items # <<>>
        BY <1>2 DEF TakeItem, produceVars
    <2>2. /\ Head(items) = items[1] /\ Len(items') = Len(items) - 1 /\ Len(items) # 0
          /\ \A i \in 1..Len(items') : items'[i] = items[i + 1]
        BY <1>0, <2>1, HeadTailProperties, EmptySeq
    <2>3. Head(items) = Len(wire) /\ Head(items) \in Nat
        BY <1>0, <2>2 DEF Pipe
    <2>4. /\ Len(wire') = Len(wire) + 1 /\ wire'[Len(wire) + 1] = Len(wire)
          /\ \A i \in 1..Len(wire) : wire'[i] = wire[i]
        BY <1>0, <2>1, <2>3, AppendProperties
    <2>5. ASSUME NEW i \in 1..Len(wire) + 1 PROVE wire'[i] = i - 1
        <3>1. CASE i = Len(wire) + 1
            BY <1>0, <2>4, <3>1
        <3>2. CASE i # Len(wire) + 1
            <4>1. i \in 1..Len(wire)
                BY <1>0, <3>2
            <4>2. QED
                BY <2>4, <4>1 DEF Pipe
        <3>3. QED
            BY <3>1, <3>2
    <2>6. ASSUME NEW i \in 1..Len(items') PROVE items'[i] = Len(wire') + i - 1
        <3>1. i + 1 \in 1..Len(items)
            BY <1>0, <2>2
        <3>2. items[i + 1] = Len(wire) + (i + 1) - 1
            BY <3>1 DEF Pipe
        <3>3. QED
            BY <1>0, <2>2, <2>4, <3>2
    <2>7. Len(wire') + Len(items') = sent'
        <3>1. Len(wire) + Len(items) = sent
            BY DEF Pipe
        <3>2. Len(wire') = Len(wire) + 1 /\ Len(items') = Len(items) - 1 /\ sent' = sent
            BY <2>1, <2>2, <2>4
        <3>3. PICK a \in Nat, b \in Nat : a = Len(wire) /\ b = Len(items)
            BY <1>0
        <3>4. Len(wire') + Len(items') = (a + 1) + (b - 1)
            BY <3>2, <3>3
        <3>5. QED
            BY <3>1, <3>2, <3>3, <3>4
    <2>8. \A i \in 1..Len(wire') : wire'[i] = i - 1
        BY <2>4, <2>5
    <2>9. QED
        BY <2>6, <2>7, <2>8 DEF Pipe
<1>3. CASE ~SendItem /\ ~TakeItem
    <2>1. UNCHANGED <<wire, items, sent>>
        BY <1>3 DEF Next, Produce, Serve, SearchFails, SearchSucceeds, ItemsOver, Abort,
            SendSummary, CloseItems, Drained, TakeDone, TakeError, TakeCancelled, Disconnect,
            vars, produceVars, channelVars, serveVars
    <2>2. QED
        BY <2>1 DEF Pipe
<1>4. QED
    BY <1>1, <1>2, <1>3

LEMMA PipeSuffices == TypeOK /\ Pipe => PipeOrdered
<1> SUFFICES ASSUME TypeOK, Pipe PROVE PipeOrdered
    OBVIOUS
<1>1. /\ wire \in Seq(Nat) /\ items \in Seq(Nat) /\ sent \in Nat
      /\ Len(wire) \in Nat /\ Len(items) \in Nat /\ Len(wire) + Len(items) = sent
    BY ResultsAssumption, LenProperties DEF TypeOK, Pipe
<1>2. PICK s : s = wire \o items
    OBVIOUS
<1>3. PICK t : t = [i \in 1..sent |-> i - 1]
    OBVIOUS
<1>4. /\ s \in Seq(Nat) /\ Len(s) = sent
      /\ \A i \in 1..sent : s[i] = IF i <= Len(wire) THEN wire[i] ELSE items[i - Len(wire)]
    BY <1>1, <1>2, ConcatProperties
<1>5. t \in Seq(Nat) /\ Len(t) = sent /\ \A i \in 1..sent : t[i] = i - 1
    <2>1. \A i \in 1..sent : i - 1 \in Nat
        BY <1>1
    <2>2. QED
        BY <1>1, <1>3, <2>1
<1>6. ASSUME NEW i \in 1..sent PROVE s[i] = t[i]
    <2>1. CASE i <= Len(wire)
        <3>1. i \in 1..Len(wire)
            BY <1>1, <2>1
        <3>2. QED
            BY <1>4, <1>5, <2>1, <3>1 DEF Pipe
    <2>2. CASE ~(i <= Len(wire))
        <3>1. i - Len(wire) \in 1..Len(items)
            BY <1>1, <2>2
        <3>2. items[i - Len(wire)] = Len(wire) + (i - Len(wire)) - 1
            BY <3>1 DEF Pipe
        <3>3. QED
            BY <1>1, <1>4, <1>5, <2>2, <3>2
    <2>3. QED
        BY <2>1, <2>2
<1>7. s = t
    BY <1>4, <1>5, <1>6, SeqEqual
<1>8. QED
    BY <1>2, <1>3, <1>7 DEF PipeOrdered

LEMMA PipeHolds == Spec => []Pipe
BY InitPipe, StepPipe, TypeCorrect, PTL DEF Spec

\* Results reach the client in order, none is lost or sent twice.
THEOREM PipeCorrect == Spec => []PipeOrdered
BY PipeHolds, PipeSuffices, TypeCorrect, PTL

-----------------------------------------------------------------------------
\* The final frame tells the truth: "done" comes after every result of a search
\* that succeeded, "error" after none, and a client that stays gets one of them.
FinalTruthful ==
    /\ final = "done" => Len(wire) = total /\ sent = total /\ ~errCh
    /\ final = "error" => wire = <<>> /\ ~doneCh
    /\ handler = "returned" /\ ~gone => final # "none"

Failed == errCh \/ final = "error"
Finished == doneCh \/ final = "done"

\* Strengthening of FinalTruthful: how far the goroutine has come when a word is
\* on its way, and how far the handler when it has been read.
Told ==
    /\ Failed => sent = 0 /\ ~Finished
    /\ Finished => sent = total
    /\ producer \in {"search", "items", "summary"} => ~Failed /\ ~Finished
    /\ producer = "summary" => sent = total
    /\ itemsClosed <=> producer = "exited"
    /\ final = "done" \/ handler = "settle" => items = <<>> /\ itemsClosed
    /\ final # "none" => handler = "returned"
    /\ handler = "returned" /\ ~gone => final # "none"

LEMMA InitTold == Init => Told
BY DEF Init, Told, Failed, Finished

LEMMA StepTold == TypeOK /\ Told /\ [Next]_vars => Told'
<1> SUFFICES ASSUME TypeOK, Told, [Next]_vars PROVE Told'
    OBVIOUS
<1> USE ResultsAssumption DEF TypeOK, Told, Failed, Finished, produceVars, channelVars, serveVars
<1>1. CASE SearchFails
    BY <1>1 DEF SearchFails
<1>2. CASE SearchSucceeds
    BY <1>2 DEF SearchSucceeds
<1>3. CASE SendItem
    BY <1>3 DEF SendItem
<1>4. CASE ItemsOver
    BY <1>4 DEF ItemsOver
<1>5. CASE Abort
    BY <1>5 DEF Abort
<1>6. CASE SendSummary
    BY <1>6 DEF SendSummary
<1>7. CASE CloseItems
    BY <1>7 DEF CloseItems
<1>8. CASE TakeItem
    BY <1>8 DEF TakeItem
<1>9. CASE Drained
    BY <1>9 DEF Drained
<1>10. CASE TakeDone
    BY <1>10 DEF TakeDone
<1>11. CASE TakeError
    BY <1>11 DEF TakeError
<1>12. CASE TakeCancelled
    BY <1>12 DEF TakeCancelled
<1>13. CASE Disconnect
    BY <1>13 DEF Disconnect
<1>14. CASE UNCHANGED vars
    BY <1>14 DEF vars
<1>15. QED
    BY <1>1, <1>2, <1>3, <1>4, <1>5, <1>6, <1>7, <1>8, <1>9, <1>10, <1>11, <1>12, <1>13, <1>14
       DEF Next, Produce, Serve

\* What the strengthening says of lengths.
LEMMA ToldSuffices == TypeOK /\ Pipe /\ Told => FinalTruthful
<1> SUFFICES ASSUME TypeOK, Pipe, Told PROVE FinalTruthful
    OBVIOUS
<1>1. /\ wire \in Seq(Nat) /\ items \in Seq(Nat) /\ sent \in Nat
      /\ Len(wire) \in Nat /\ Len(items) \in Nat
    BY ResultsAssumption, LenProperties DEF TypeOK
<1>2. Len(wire) + Len(items) = sent
    BY DEF Pipe
<1>3. final = "done" => Len(wire) = total /\ sent = total /\ ~errCh
    BY <1>1, <1>2 DEF Told, Failed, Finished
<1>4. final = "error" => wire = <<>> /\ ~doneCh
    BY <1>1, <1>2 DEF Told, Failed, Finished
<1>5. handler = "returned" /\ ~gone => final # "none"
    BY DEF Told
<1>6. QED
    BY <1>3, <1>4, <1>5 DEF FinalTruthful

\* "done" means that everything has been sent, "error" that nothing has, and a
\* client that stays is told one or the other.
THEOREM FinalCorrect == Spec => []FinalTruthful
BY InitTold, StepTold, ToldSuffices, TypeCorrect, PipeHolds, PTL DEF Spec
-----------------------------------------------------------------------------
LEMMA InitRefines == Init => Stream!Init
BY DEF Init, Stream!Init

\* The lengths that the refinement needs.
LEMMA PipeLengths ==
    ASSUME TypeOK, Pipe
    PROVE  /\ wire \in Seq(Nat) /\ items \in Seq(Nat) /\ total \in Nat /\ sent \in Nat
           /\ Len(wire) \in Nat /\ Len(items) \in Nat
           /\ Len(wire) + Len(items) = sent /\ sent <= total
           /\ (items = <<>> => Len(wire) = sent)
           /\ (items # <<>> => Len(items) > 0 /\ Head(items) = Len(wire))
<1>1. /\ wire \in Seq(Nat) /\ items \in Seq(Nat) /\ total \in Nat /\ sent \in Nat
      /\ Len(wire) \in Nat /\ Len(items) \in Nat
      /\ Len(wire) + Len(items) = sent /\ sent <= total
    BY ResultsAssumption, LenProperties DEF TypeOK, Pipe
<1>2. items = <<>> => Len(wire) = sent
    BY <1>1
<1>3. ASSUME items # <<>> PROVE Len(items) > 0 /\ Head(items) = Len(wire)
    <2>1. Head(items) = items[1] /\ Len(items) # 0
        BY <1>1, <1>3, HeadTailProperties, EmptySeq
    <2>2. 1 \in 1..Len(items)
        BY <1>1, <2>1
    <2>3. items[1] = Len(wire) + 1 - 1
        BY <2>2 DEF Pipe
    <2>4. QED
        BY <1>1, <2>1, <2>3
<1>4. QED
    BY <1>1, <1>2, <1>3

\* The handler's steps write the frames, the end of the search decides which,
\* and nothing else shows.
LEMMA StepRefines ==
    TypeOK /\ Pipe /\ Told /\ [Next]_vars => [Stream!Next]_(Stream!vars)
<1> SUFFICES ASSUME TypeOK, Pipe, Told, [Next]_vars
             PROVE  [Stream!Next]_(Stream!vars)
    OBVIOUS
<1>0. /\ wire \in Seq(Nat) /\ items \in Seq(Nat) /\ total \in Nat /\ sent \in Nat
      /\ Len(wire) \in Nat /\ Len(items) \in Nat
      /\ Len(wire) + Len(items) = sent /\ sent <= total
      /\ (items = <<>> => Len(wire) = sent)
      /\ (items # <<>> => Len(items) > 0 /\ Head(items) = Len(wire))
    BY PipeLengths
<1> USE DEF produceVars, channelVars, serveVars
<1>1. CASE SearchFails
    <2>1. Stream!Fail
        BY <1>1 DEF SearchFails, Stream!Fail
    <2>2. QED
        BY <2>1 DEF Stream!Next
<1>2. CASE SearchSucceeds
    <2>1. ~errCh /\ final # "error"
        BY <1>2 DEF SearchSucceeds, Told, Failed
    <2>2. total' \in Nat
        BY <1>2, ResultsAssumption DEF SearchSucceeds
    <2>3. Stream!Prepare
        BY <1>2, <2>1, <2>2 DEF SearchSucceeds, Stream!Prepare
    <2>4. QED
        BY <2>3 DEF Stream!Next
<1>3. CASE TakeItem
    <2>1. sent # 0 /\ total # 0 /\ Len(wire) < total
        BY <1>0, <1>3 DEF TakeItem
    <2>2. producer # "search" /\ ~errCh /\ final # "error"
        BY <2>1 DEF TypeOK, Told, Failed
    <2>3. Stream!Frame
        BY <1>0, <1>3, <2>1, <2>2 DEF TakeItem, Stream!Frame
    <2>4. QED
        BY <2>3 DEF Stream!Next
<1>4. CASE TakeDone
    <2>1. ~errCh /\ final # "error" /\ sent = total /\ items = <<>> /\ producer # "search"
        BY <1>4 DEF TakeDone, Told, Failed, Finished
    <2>2. Stream!Done
        BY <1>0, <1>4, <2>1 DEF TakeDone, Stream!Done, Stream!Close
    <2>3. QED
        BY <2>2 DEF Stream!Next
<1>5. CASE TakeError
    <2>1. producer # "search"
        BY <1>5 DEF TakeError, Told, Failed
    <2>2. Stream!Error
        BY <1>5, <2>1 DEF TakeError, Stream!Error, Stream!Close
    <2>3. QED
        BY <2>2 DEF Stream!Next
<1>6. CASE TakeCancelled
    <2>1. Stream!Abandon
        BY <1>6 DEF TakeCancelled, Stream!Abandon, Stream!Close
    <2>2. QED
        BY <2>1 DEF Stream!Next
<1>7. CASE Disconnect
    <2>1. Stream!Leave
        BY <1>7 DEF Disconnect, Stream!Leave
    <2>2. QED
        BY <2>1 DEF Stream!Next
<1>8. CASE SendItem \/ ItemsOver \/ Abort \/ SendSummary \/ CloseItems \/ Drained
           \/ UNCHANGED vars
    BY <1>8 DEF SendItem, ItemsOver, Abort, SendSummary, CloseItems, Drained, vars, Stream!vars
<1>9. QED
    BY <1>1, <1>2, <1>3, <1>4, <1>5, <1>6, <1>7, <1>8 DEF Next, Produce, Serve

\* A streamed search implements the promise of EventStream.
THEOREM Refinement == Spec => ImplementsEventStream
<1>1. Spec => []Told
    BY InitTold, StepTold, TypeCorrect, PTL DEF Spec
<1>2. QED
    BY <1>1, InitRefines, StepRefines, TypeCorrect, PipeHolds, PTL
       DEF Spec, ImplementsEventStream, Stream!Spec
=============================================================================
