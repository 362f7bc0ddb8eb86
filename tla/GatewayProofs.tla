---------------------------- MODULE GatewayProofs ----------------------------
(***************************************************************************)
(* What a key's bucket and a key's usage record are worth, for any number  *)
(* of connections and keys, any table of tiers and any set of options.     *)
(***************************************************************************)
EXTENDS Gateway, FiniteSetTheorems, TLAPS

\* Facts about products that the provers do not find on their own.
LEMMA ProductNat == ASSUME NEW a \in Nat, NEW b \in Nat PROVE a * b \in Nat
BY SMT

LEMMA ProductStep ==
    ASSUME NEW r \in Nat, NEW i \in Int
    PROVE  r * (i + 1) = r * i + r
BY SMT

LEMMA ProductZero == ASSUME NEW r \in Nat PROVE r * 0 = 0
BY SMT

LEMMA RpmType == ASSUME NEW k \in Keys PROVE Rpm(k) \in Nat /\ Rpm(k) * Hz \in Nat
<1>1. Rpm(k) \in Nat
    BY TiersAssumption DEF Rpm, TierOf
<1>2. QED
    BY <1>1, HzAssumption, ProductNat

\* What a key has left is a number up to its burst.
LEMMA LevelBounds ==
    ASSUME TypeOK, NEW k \in Keys
    PROVE  Level(k) \in 0..Rpm(k) * Hz
<1>1. Rpm(k) * Hz \in Nat /\ Rpm(k) * idle[k] \in Nat /\ tokens[k] \in Nat
    BY RpmType, ProductNat, HzAssumption DEF TypeOK
<1>2. QED
    BY <1>1 DEF Level, Lesser

-----------------------------------------------------------------------------
\* Only a request with a key comes to the bucket.
Named == \A s \in Slots : /\ req[s].at = "lookup" => opts.auth
                          /\ req[s].at = "bucket" => Bears(s)

Typed == TypeOK /\ Named

Requests == [at : {"free", "lookup", "bucket", "handler", "engine", "format"}, path : Paths,
             token : Keys \cup {"admin", "none"}]

LEMMA InitTyped == Init => Typed
<1> SUFFICES ASSUME Init PROVE Typed
    OBVIOUS
<1>1. \A k \in Keys : Rpm(k) * Hz \in Nat
    BY RpmType
<1>2. Zero \in [Fields -> Nat]
    BY DEF Zero
<1>3. TypeOK
    <2>1. req \in [Slots -> Requests]
        BY DEF Init, Free, Requests, Paths
    <2>2. tokens \in [Keys -> Nat] /\ \A k \in Keys : tokens[k] <= Rpm(k) * Hz
        BY <1>1 DEF Init
    <2>3. usage \in [Keys -> [day : -1..today, count : [Fields -> Nat]]]
        BY <1>2 DEF Init, NoRecord
    <2>4. lost \in [Keys -> [Fields -> Nat]] /\ answers \in [Keys -> [Ends -> Nat]]
        BY <1>2 DEF Init
    <2>5. QED
        BY <2>1, <2>2, <2>3, <2>4, HzAssumption DEF Init, TypeOK, Requests
<1>4. Named
    BY DEF Init, Free, Named
<1>5. QED
    BY <1>3, <1>4 DEF Typed

\* The pieces the actions are made of, one by one.
LEMMA GoType ==
    ASSUME Typed, NEW s \in Slots, NEW place \in {"bucket", "handler", "engine", "format"}, Go(s, place)
    PROVE  /\ req' \in [Slots -> Requests]
           /\ req'[s].at = place /\ req'[s].path = req[s].path /\ req'[s].token = req[s].token
           /\ \A u \in Slots \ {s} : req'[u] = req[u]
BY DEF Go, Typed, TypeOK, Requests

LEMMA EndType ==
    ASSUME Typed, NEW s \in Slots, NEW how \in Ends, End(s, how)
    PROVE  /\ req' \in [Slots -> Requests]
           /\ req'[s] = Free /\ \A u \in Slots \ {s} : req'[u] = req[u]
           /\ admitted' \in [Slots -> 0..today]
           /\ admitted'[s] = 0 /\ \A u \in Slots \ {s} : admitted'[u] = admitted[u]
           /\ answers' \in [Keys -> [Ends -> Nat]]
           /\ \A k \in Keys, e \in Ends : answers'[k][e] =
                  answers[k][e] + (IF opts.usage /\ Bears(s) /\ k = req[s].token /\ e = how THEN 1 ELSE 0)
<1>1. Free \in Requests
    BY DEF Free, Requests, Paths
<1>2. req' = [req EXCEPT ![s] = Free] /\ req \in [Slots -> Requests]
    BY DEF End, Typed, TypeOK, Requests
<1>3. req' \in [Slots -> Requests] /\ req'[s] = Free /\ \A u \in Slots \ {s} : req'[u] = req[u]
    BY <1>1, <1>2
<1>4. /\ admitted' \in [Slots -> 0..today]
      /\ admitted'[s] = 0 /\ \A u \in Slots \ {s} : admitted'[u] = admitted[u]
    BY DEF End, Typed, TypeOK
<1>5. /\ answers' \in [Keys -> [Ends -> Nat]]
      /\ \A k \in Keys, e \in Ends : answers'[k][e] =
             answers[k][e] + (IF opts.usage /\ Bears(s) /\ k = req[s].token /\ e = how THEN 1 ELSE 0)
    <2>1. answers \in [Keys -> [Ends -> Nat]]
        BY DEF Typed, TypeOK
    <2>2. CASE opts.usage /\ Bears(s)
        <3>1. answers' = [answers EXCEPT ![req[s].token][how] = @ + 1] /\ req[s].token \in Keys
            BY <2>2 DEF End, Bears
        <3>2. QED
            BY <2>1, <2>2, <3>1
    <2>3. CASE ~(opts.usage /\ Bears(s))
        <3>1. answers' = answers
            BY <2>3 DEF End
        <3>2. QED
            BY <2>1, <2>3, <3>1
    <2>4. QED
        BY <2>2, <2>3
<1>6. QED
    BY <1>3, <1>4, <1>5

LEMMA RecordType ==
    ASSUME Typed, NEW s \in Slots, NEW field \in Fields, Record(s, field)
    PROVE  /\ lost' = lost
           /\ usage' \in [Keys -> [day : -1..today, count : [Fields -> Nat]]]
           /\ \A k \in Keys : usage'[k].day = usage[k].day
           /\ \A k \in Keys, f \in Fields : usage'[k].count[f] =
                  usage[k].count[f] + (IF /\ opts.usage /\ Bears(s)
                                          /\ usage[req[s].token] # NoRecord
                                          /\ k = req[s].token /\ f = field THEN 1 ELSE 0)
<1> DEFINE marks == opts.usage /\ Bears(s) /\ usage[req[s].token] # NoRecord
<1>1. usage \in [Keys -> [day : -1..today, count : [Fields -> Nat]]]
    BY DEF Typed, TypeOK
<1>2. CASE marks
    <2>1. req[s].token \in Keys /\ usage' = [usage EXCEPT ![req[s].token].count[field] = @ + 1]
        BY <1>2 DEF Record, Bears
    <2>2. QED
        BY <1>1, <1>2, <2>1 DEF Record
<1>3. CASE ~marks
    <2>1. usage' = usage
        BY <1>3 DEF Record
    <2>2. QED
        BY <1>1, <1>3, <2>1 DEF Record
<1>4. QED
    BY <1>2, <1>3

-----------------------------------------------------------------------------
\* The ways in which a request goes on after the lookup, or is refused by it:
\* the mark it leaves, the answer it gets, if any, and where it is then.
Way(s, mark, how, place) ==
    \/ /\ req[s].at \in {"lookup", "bucket", "handler"}
       /\ mark = "none" /\ how = "uncounted" /\ place = "free"
    \/ req[s].at = "bucket" /\ mark = "none" /\ how = "none" /\ place = "handler"
    \/ /\ req[s].at = "handler" /\ req[s].path # "health"
       /\ \/ mark = "errors4xx" /\ how = "badparam" /\ place = "free"
          \/ /\ req[s].path \in {"search", "fetch"}
             /\ mark = "none" /\ how = "none" /\ place = "engine"
          \/ /\ req[s].path \in {"searchstream", "stream"}
             /\ mark = "streams" /\ how = "none" /\ place = "engine"
    \/ /\ req[s].at = "engine" /\ req[s].path = "search"
       /\ \/ mark = "errors5xx" /\ how = "failed" /\ place = "free"
          \/ mark = "searches" /\ how = "searched" /\ place = "free"
          \/ mark = "searches" /\ how = "none" /\ place = "format"
    \/ /\ req[s].at = "engine" /\ req[s].path = "fetch"
       /\ \/ mark = "errors5xx" /\ how = "failed" /\ place = "free"
          \/ mark = "fetches" /\ how = "fetched" /\ place = "free"
          \/ mark = "fetches" /\ how = "none" /\ place = "format"
    \/ /\ req[s].at = "format" /\ req[s].path = "search"
       /\ mark = "errors4xx" /\ how = "searchbadformat" /\ place = "free"
    \/ /\ req[s].at = "format" /\ req[s].path = "fetch"
       /\ mark = "errors4xx" /\ how = "fetchbadformat" /\ place = "free"
    \/ /\ req[s].at = "engine" /\ req[s].path \in {"searchstream", "stream"}
       /\ \/ mark = "errors5xx" /\ how = "streamfailed" /\ place = "free"
          \/ mark = "none" /\ how = "streamed" /\ place = "free"

Marked(s, mark) == IF mark = "none" THEN NoMark ELSE Record(s, mark)

Moved(s, how, place) ==
    IF how = "none" THEN Go(s, place) /\ UNCHANGED <<answers, admitted>> ELSE End(s, how)

Marks == Fields \cup {"none"}
Answers == Ends \cup {"none"}
Places == {"free", "handler", "engine", "format"}

Goes(s) ==
    /\ UNCHANGED <<opts, valid, today, arrived>>
    /\ \E mark \in Marks, how \in Answers, place \in Places :
           Way(s, mark, how, place) /\ Marked(s, mark) /\ Moved(s, how, place)

LEMMA GoesBy ==
    ASSUME NEW s \in Slots, NEW mark \in Marks, NEW how \in Answers, NEW place \in Places,
           UNCHANGED <<opts, valid, today, arrived>>,
           Way(s, mark, how, place), Marked(s, mark), Moved(s, how, place)
    PROVE  Goes(s)
BY DEF Goes

LEMMA Names == /\ "none" \in Marks \cap Answers /\ "none" \notin Fields \cup Ends
               /\ Fields \subseteq Marks /\ Ends \subseteq Answers
               /\ {"searches", "fetches", "streams", "errors4xx", "errors5xx"} \subseteq Marks
               /\ {"searched", "fetched", "streamed", "badparam", "failed", "streamfailed",
                   "searchbadformat", "fetchbadformat", "uncounted"} \subseteq Answers
BY DEF Marks, Answers, Fields, Ends

LEMMA HandlersGo ==
    ASSUME NEW s \in Slots,
           \/ Unauthorized(s) \/ TooMany(s) \/ Charge(s) \/ Serve(s)
           \/ handleSearch(s) \/ handleFetch(s) \/ handleSearchStream(s) \/ handleStream(s)
           \/ SearchReturns(s) \/ FetchReturns(s) \/ StreamFails(s) \/ StreamEnds(s)
    PROVE  Goes(s)
<1> USE Names, GoesBy DEF Way, Marked, Moved, Places, Outside
<1>1. ASSUME Plain(s), req[s].at = "handler", Outside PROVE Goes(s)
    BY <1>1 DEF Plain
<1>2. ASSUME BadParam(s), req[s].at = "handler", req[s].path # "health", Outside PROVE Goes(s)
    BY <1>2 DEF BadParam
<1>3. ASSUME CallEngine(s), req[s].at = "handler", req[s].path \in {"search", "fetch"}, Outside PROVE Goes(s)
    BY <1>3 DEF CallEngine
<1>4. ASSUME OpenStream(s), req[s].at = "handler", req[s].path \in {"searchstream", "stream"}, Outside
      PROVE  Goes(s)
    BY <1>4 DEF OpenStream
<1>5. CASE Unauthorized(s)
    BY <1>5 DEF Unauthorized
<1>6. CASE TooMany(s)
    BY <1>6 DEF TooMany
<1>7. CASE Charge(s)
    <2>1. CASE End(s, "uncounted")
        BY <1>7, <2>1 DEF Charge
    <2>2. CASE Go(s, "handler") /\ UNCHANGED <<answers, admitted>>
        BY <1>7, <2>2 DEF Charge
    <2>3. QED
        BY <1>7, <2>1, <2>2 DEF Charge
<1>8. CASE Serve(s)
    BY <1>1, <1>8 DEF Serve, At
<1>9. CASE handleSearch(s)
    BY <1>1, <1>2, <1>3, <1>9 DEF handleSearch, At
<1>10. CASE handleFetch(s)
    BY <1>1, <1>2, <1>3, <1>10 DEF handleFetch, At
<1>11. CASE handleSearchStream(s)
    BY <1>1, <1>2, <1>4, <1>11 DEF handleSearchStream, At
<1>12. CASE handleStream(s)
    BY <1>2, <1>4, <1>12 DEF handleStream, At
<1>13. CASE SearchReturns(s)
    <2>1. CASE At(s, "format", "search") /\ BadFormat(s, "searchbadformat")
        BY <1>13, <2>1 DEF SearchReturns, At, BadFormat
    <2>2. CASE At(s, "engine", "search") /\ Failed(s, "failed")
        BY <1>13, <2>2 DEF SearchReturns, At, Failed
    <2>3. CASE At(s, "engine", "search") /\ Record(s, "searches") /\ End(s, "searched")
        BY <1>13, <2>3 DEF SearchReturns, At
    <2>4. CASE At(s, "engine", "search") /\ Record(s, "searches") /\ Go(s, "format") /\ UNCHANGED <<answers, admitted>>
        BY <1>13, <2>4 DEF SearchReturns, At
    <2>5. QED
        BY <1>13, <2>1, <2>2, <2>3, <2>4 DEF SearchReturns, Answered
<1>14. CASE FetchReturns(s)
    <2>1. CASE At(s, "format", "fetch") /\ BadFormat(s, "fetchbadformat")
        BY <1>14, <2>1 DEF FetchReturns, At, BadFormat
    <2>2. CASE At(s, "engine", "fetch") /\ Failed(s, "failed")
        BY <1>14, <2>2 DEF FetchReturns, At, Failed
    <2>3. CASE At(s, "engine", "fetch") /\ Record(s, "fetches") /\ End(s, "fetched")
        BY <1>14, <2>3 DEF FetchReturns, At
    <2>4. CASE At(s, "engine", "fetch") /\ Record(s, "fetches") /\ Go(s, "format") /\ UNCHANGED <<answers, admitted>>
        BY <1>14, <2>4 DEF FetchReturns, At
    <2>5. QED
        BY <1>14, <2>1, <2>2, <2>3, <2>4 DEF FetchReturns, Answered
<1>15. CASE StreamFails(s)
    BY <1>15 DEF StreamFails, IsStream, Failed
<1>16. CASE StreamEnds(s)
    BY <1>16 DEF StreamEnds, IsStream
<1> HIDE Names, GoesBy
<1>17. QED
    BY <1>5, <1>6, <1>7, <1>8, <1>9, <1>10, <1>11, <1>12, <1>13, <1>14, <1>15, <1>16

\* The steps of the server, by what they are to the meters.
LEMMA Steps ==
    ASSUME [Next]_vars
    PROVE  \/ \E s \in Slots : Arrive(s) \/ Lookup(s) \/ Goes(s)
           \/ UNCHANGED <<opts, req, meters>> /\ today' \in {today, today + 1}
<1>1. ASSUME NEW s \in Slots, Step(s) PROVE Arrive(s) \/ Lookup(s) \/ Goes(s)
    BY <1>1, HandlersGo DEF Step
<1>2. ASSUME Tick \/ Midnight \/ (\E k \in Keys : Expire(k)) \/ UNCHANGED vars
      PROVE  UNCHANGED <<opts, req, meters>> /\ today' \in {today, today + 1}
    <2>1. CASE Tick
        BY <2>1 DEF Tick
    <2>2. CASE Midnight
        BY <2>2 DEF Midnight
    <2>3. CASE \E k \in Keys : Expire(k)
        BY <2>3 DEF Expire
    <2>4. CASE UNCHANGED vars
        BY <2>4 DEF vars
    <2>5. QED
        BY <1>2, <2>1, <2>2, <2>3, <2>4
<1>3. QED
    BY <1>1, <1>2 DEF Next

\* What a request that goes on changes: its own place, and at most one counter
\* of its key.
LEMMA GoesEffect ==
    ASSUME Typed, NEW s \in Slots,
           NEW mark \in Marks, NEW how \in Answers, NEW place \in Places,
           UNCHANGED <<opts, valid, today, arrived>>,
           Way(s, mark, how, place), Marked(s, mark), Moved(s, how, place)
    PROVE  /\ req' \in [Slots -> Requests] /\ \A u \in Slots \ {s} : req'[u] = req[u]
           /\ req'[s].at = place
           /\ how = "none" => req'[s].path = req[s].path /\ req'[s].token = req[s].token
           /\ admitted' \in [Slots -> 0..today]
           /\ \A u \in Slots : req'[u].at # "free" => admitted'[u] = admitted[u]
           /\ answers' \in [Keys -> [Ends -> Nat]]
           /\ \A k \in Keys, e \in Ends : answers'[k][e] =
                  answers[k][e] + (IF opts.usage /\ Bears(s) /\ k = req[s].token /\ e = how THEN 1 ELSE 0)
           /\ lost' = lost
           /\ usage' \in [Keys -> [day : -1..today, count : [Fields -> Nat]]]
           /\ \A k \in Keys : usage'[k].day = usage[k].day
           /\ \A k \in Keys, f \in Fields : usage'[k].count[f] =
                  usage[k].count[f] + (IF /\ opts.usage /\ Bears(s)
                                          /\ usage[req[s].token] # NoRecord
                                          /\ k = req[s].token /\ f = mark THEN 1 ELSE 0)
<1>1. /\ answers \in [Keys -> [Ends -> Nat]] /\ lost \in [Keys -> [Fields -> Nat]]
      /\ usage \in [Keys -> [day : -1..today, count : [Fields -> Nat]]]
      /\ admitted \in [Slots -> 0..today]
    BY DEF Typed, TypeOK
<1>2. /\ lost' = lost
      /\ usage' \in [Keys -> [day : -1..today, count : [Fields -> Nat]]]
      /\ \A k \in Keys : usage'[k].day = usage[k].day
      /\ \A k \in Keys, f \in Fields : usage'[k].count[f] =
             usage[k].count[f] + (IF /\ opts.usage /\ Bears(s)
                                     /\ usage[req[s].token] # NoRecord
                                     /\ k = req[s].token /\ f = mark THEN 1 ELSE 0)
    <2>1. CASE mark = "none"
        <3>1. UNCHANGED <<usage, lost>> /\ mark \notin Fields
            BY <2>1, Names DEF Marked, NoMark
        <3>2. \A k \in Keys, f \in Fields : f # mark /\ usage[k].count[f] \in Nat
            BY <1>1, <3>1
        <3>3. QED
            BY <1>1, <3>1, <3>2
    <2>2. CASE mark # "none"
        <3>1. mark \in Fields /\ Record(s, mark)
            BY <2>2 DEF Marked, Marks
        <3>2. QED
            BY <3>1, RecordType
    <2>3. QED
        BY <2>1, <2>2
<1>3. CASE how = "none"
    <2>1. Go(s, place) /\ UNCHANGED <<answers, admitted>> /\ how \notin Ends
        BY <1>3, Names DEF Moved
    <2>2. place \in {"handler", "engine", "format"}
        BY <1>3 DEF Way
    <2>3. \A k \in Keys, e \in Ends : e # how /\ answers[k][e] \in Nat
        BY <1>1, <2>1
    <2>4. QED
        BY <1>1, <1>2, <2>1, <2>2, <2>3, GoType
<1>4. CASE how # "none"
    <2>1. End(s, how) /\ how \in Ends
        BY <1>4 DEF Moved, Answers
    <2>2. place = "free" /\ Free.at = "free"
        BY <1>4 DEF Way, Free
    <2>3. /\ req' \in [Slots -> Requests]
          /\ req'[s] = Free /\ \A u \in Slots \ {s} : req'[u] = req[u]
          /\ admitted' \in [Slots -> 0..today]
          /\ \A u \in Slots \ {s} : admitted'[u] = admitted[u]
          /\ answers' \in [Keys -> [Ends -> Nat]]
          /\ \A k \in Keys, e \in Ends : answers'[k][e] =
                 answers[k][e] + (IF opts.usage /\ Bears(s) /\ k = req[s].token /\ e = how THEN 1 ELSE 0)
        BY <2>1, EndType
    <2>4. \A u \in Slots : req'[u].at # "free" => admitted'[u] = admitted[u]
        BY <2>2, <2>3
    <2>5. QED
        BY <1>2, <1>4, <2>2, <2>3, <2>4
<1>5. QED
    BY <1>3, <1>4

LEMMA LookupEffect ==
    ASSUME Typed, NEW s \in Slots, Lookup(s)
    PROVE  /\ req' \in [Slots -> Requests] /\ \A u \in Slots \ {s} : req'[u] = req[u]
           /\ req[s].at = "lookup" /\ req'[s].at = "bucket"
           /\ req'[s].path = req[s].path /\ req'[s].token = req[s].token
           /\ req[s].token \in Keys /\ Bears(s)
           /\ admitted' \in [Slots -> 0..today]
           /\ admitted'[s] = today /\ \A u \in Slots \ {s} : admitted'[u] = admitted[u]
           /\ UNCHANGED <<opts, today, buckets, answers>>
           /\ usage' \in [Keys -> [day : -1..today, count : [Fields -> Nat]]]
           /\ lost' \in [Keys -> [Fields -> Nat]]
           /\ opts.usage => usage'[req[s].token].day = today
           /\ \A k \in Keys : usage'[k].day \in {usage[k].day, today}
           /\ \A k \in Keys, f \in Fields :
                  lost'[k][f] + usage'[k].count[f] = lost[k][f] + usage[k].count[f]
<1> DEFINE k == req[s].token
           Records == [day : -1..today, count : [Fields -> Nat]]
<1>1. /\ answers \in [Keys -> [Ends -> Nat]] /\ lost \in [Keys -> [Fields -> Nat]]
      /\ usage \in [Keys -> Records] /\ today \in Nat
      /\ admitted \in [Slots -> 0..today] /\ req \in [Slots -> Requests] /\ valid \subseteq Keys
    BY DEF Typed, TypeOK, Requests
<1>2. /\ req[s].at = "lookup" /\ k \in Keys /\ Bears(s)
    BY <1>1 DEF Lookup, Bears, Typed, Named
<1>3. /\ req' \in [Slots -> Requests] /\ \A u \in Slots \ {s} : req'[u] = req[u]
      /\ req'[s].at = "bucket" /\ req'[s].path = req[s].path /\ req'[s].token = req[s].token
    BY GoType DEF Lookup
<1>4. /\ admitted' \in [Slots -> 0..today]
      /\ admitted'[s] = today /\ \A u \in Slots \ {s} : admitted'[u] = admitted[u]
    BY <1>1 DEF Lookup
<1>5. UNCHANGED <<opts, today, buckets, answers>>
    BY DEF Lookup, Outside
<1>6. Touched(k) \in Records /\ Touched(k).day = today
    BY <1>1, <1>2 DEF Touched, Zero
<1>7. /\ usage' \in [Keys -> Records]
      /\ opts.usage => usage'[k] = Touched(k)
      /\ \A j \in Keys : usage'[j] = usage[j] \/ (j = k /\ usage'[j] = Touched(k))
    <2> HIDE DEF Records, k
    <2>1. usage' = IF opts.usage THEN [usage EXCEPT ![k] = Touched(k)] ELSE usage
        BY DEF Lookup, k
    <2>2. QED
        BY <1>1, <1>2, <1>6, <2>1
<1>8. lost' = IF usage'[k].day # usage[k].day
              THEN [lost EXCEPT ![k] = [f \in Fields |-> @[f] + usage[k].count[f]]]
              ELSE lost
    BY DEF Lookup
<1>9. lost' \in [Keys -> [Fields -> Nat]]
    <2>1. [f \in Fields |-> lost[k][f] + usage[k].count[f]] \in [Fields -> Nat]
        BY <1>1, <1>2
    <2>2. QED
        BY <1>1, <1>2, <1>8, <2>1
<1>10. ASSUME NEW j \in Keys, NEW f \in Fields
       PROVE  lost'[j][f] + usage'[j].count[f] = lost[j][f] + usage[j].count[f]
    <2>1. CASE usage'[k].day = usage[k].day
        <3>1. lost' = lost
            BY <1>8, <2>1
        <3>2. usage'[j] = usage[j]
            BY <1>6, <1>7, <2>1 DEF Touched
        <3>3. QED
            BY <3>1, <3>2
    <2>2. CASE usage'[k].day # usage[k].day
        <3>1. usage'[k] = [day |-> today, count |-> Zero]
            BY <1>2, <1>6, <1>7, <2>2 DEF Touched
        <3>2. usage'[k].count[f] = 0
            BY <3>1 DEF Zero
        <3>3. lost' = [lost EXCEPT ![k] = [g \in Fields |-> lost[k][g] + usage[k].count[g]]]
            BY <1>8, <2>2
        <3>4. CASE j = k
            <4>1. lost'[j][f] = lost[j][f] + usage[j].count[f]
                BY <1>1, <1>2, <3>3, <3>4
            <4>2. lost[j][f] \in Nat /\ usage[j].count[f] \in Nat
                BY <1>1
            <4>3. QED
                BY <3>2, <3>4, <4>1, <4>2
        <3>5. CASE j # k
            BY <1>1, <1>2, <1>7, <3>3, <3>5
        <3>6. QED
            BY <3>4, <3>5
    <2>3. QED
        BY <2>1, <2>2
<1>11. \A j \in Keys : usage'[j].day \in {usage[j].day, today}
    BY <1>6, <1>7
<1>12. QED
    BY <1>2, <1>3, <1>4, <1>5, <1>6, <1>7, <1>9, <1>10, <1>11

LEMMA ArriveEffect ==
    ASSUME Typed, NEW s \in Slots, Arrive(s)
    PROVE  /\ req' \in [Slots -> Requests] /\ \A u \in Slots \ {s} : req'[u] = req[u]
           /\ req[s].at = "free"
           /\ \/ req'[s].at = "lookup" /\ opts.auth
              \/ req'[s].at = "handler" /\ (req'[s].path = "health" \/ ~Bears(s)')
           /\ UNCHANGED <<opts, valid, buckets, meters, today>>
<1>1. UNCHANGED <<opts, valid, buckets, meters, today>> /\ req[s].at = "free"
    BY DEF Arrive
<1>2. PICK p \in Paths, t \in IF opts.auth THEN Keys \cup {"admin", "none"} ELSE {"none"} :
          req' = [req EXCEPT ![s] =
              [at |-> IF p = "health" \/ ~opts.auth \/ (p = "usage" /\ t = "admin")
                      THEN "handler" ELSE "lookup",
               path |-> p, token |-> t]]
    BY DEF Arrive
<1>3. t \in Keys \cup {"admin", "none"}
    BY <1>2
<1>4. req \in [Slots -> Requests]
    BY DEF Typed, TypeOK, Requests
<1>5. req' \in [Slots -> Requests] /\ \A u \in Slots \ {s} : req'[u] = req[u]
    BY <1>2, <1>3, <1>4 DEF Requests
<1>6. /\ req'[s].path = p /\ req'[s].token = t
      /\ req'[s].at = IF p = "health" \/ ~opts.auth \/ (p = "usage" /\ t = "admin")
                      THEN "handler" ELSE "lookup"
    BY <1>2, <1>4
<1>7. QED
    BY <1>1, <1>5, <1>6, NamesAssumption DEF Bears

-----------------------------------------------------------------------------
\* The steps of the server, by what they are to the buckets.
LEMMA BucketSteps ==
    ASSUME [Next]_vars
    PROVE  UNCHANGED buckets \/ Tick \/ \E s \in Slots : TooMany(s) \/ Charge(s)
<1> USE DEF Outside
<1>1. ASSUME NEW s \in Slots, Step(s) PROVE UNCHANGED buckets \/ TooMany(s) \/ Charge(s)
    BY <1>1 DEF Step, Arrive, Unauthorized, Lookup, Serve, handleSearch, handleFetch, handleSearchStream,
                handleStream, SearchReturns, FetchReturns, StreamFails, StreamEnds
<1>2. ASSUME Midnight \/ (\E k \in Keys : Expire(k)) \/ UNCHANGED vars PROVE UNCHANGED buckets
    BY <1>2 DEF Midnight, Expire, vars
<1>3. QED
    BY <1>1, <1>2 DEF Next

LEMMA BucketsType ==
    ASSUME Typed, [Next]_vars
    PROVE  /\ tokens' \in [Keys -> Nat] /\ \A k \in Keys : tokens'[k] <= Rpm(k) * Hz
           /\ idle' \in [Keys -> 0..Hz] /\ span' \in Nat /\ taken' \in [Keys -> Nat]
<1>1. /\ tokens \in [Keys -> Nat] /\ \A k \in Keys : tokens[k] <= Rpm(k) * Hz
      /\ idle \in [Keys -> 0..Hz] /\ span \in Nat /\ taken \in [Keys -> Nat]
    BY DEF Typed, TypeOK
<1>2. \A k \in Keys : Level(k) \in Nat /\ Level(k) <= Rpm(k) * Hz /\ Rpm(k) * Hz \in Nat
    BY LevelBounds, RpmType DEF Typed
<1>3. CASE UNCHANGED buckets
    BY <1>1, <1>3 DEF buckets
<1>4. CASE Tick
    BY <1>1, <1>4, HzAssumption DEF Tick, Lesser
<1>5. ASSUME NEW s \in Slots, TooMany(s)
      PROVE  /\ tokens' \in [Keys -> Nat] /\ \A k \in Keys : tokens'[k] <= Rpm(k) * Hz
             /\ idle' \in [Keys -> 0..Hz] /\ span' \in Nat /\ taken' \in [Keys -> Nat]
    <2>1. req[s].token \in Keys
        BY <1>5 DEF TooMany, Typed, Named, Bears
    <2>2. tokens' = [tokens EXCEPT ![req[s].token] = Level(req[s].token)]
          /\ idle' = [idle EXCEPT ![req[s].token] = 0] /\ UNCHANGED <<span, taken>>
        BY <1>5 DEF TooMany, Refill
    <2>3. QED
        BY <1>1, <1>2, <2>1, <2>2, HzAssumption
<1>6. ASSUME NEW s \in Slots, Charge(s)
      PROVE  /\ tokens' \in [Keys -> Nat] /\ \A k \in Keys : tokens'[k] <= Rpm(k) * Hz
             /\ idle' \in [Keys -> 0..Hz] /\ span' \in Nat /\ taken' \in [Keys -> Nat]
    <2> DEFINE k == req[s].token
    <2>1. k \in Keys /\ Level(k) >= Hz
        BY <1>6 DEF Charge, Typed, Named, Bears
    <2>2. tokens' = [tokens EXCEPT ![k] = Level(k) - Hz]
          /\ idle' = [idle EXCEPT ![k] = 0] /\ span' = span /\ taken' = [taken EXCEPT ![k] = @ + 1]
        BY <1>6 DEF Charge, Refill
    <2> HIDE DEF k
    <2>3. Level(k) - Hz \in Nat /\ Level(k) - Hz <= Rpm(k) * Hz
        BY <1>2, <2>1, HzAssumption
    <2>4. QED
        BY <1>1, <2>1, <2>2, <2>3, HzAssumption
<1>7. QED
    BY <1>3, <1>4, <1>5, <1>6, BucketSteps

LEMMA StepTyped == Typed /\ [Next]_vars => Typed'
<1> SUFFICES ASSUME Typed, [Next]_vars PROVE Typed'
    OBVIOUS
<1>1. /\ tokens' \in [Keys -> Nat] /\ \A k \in Keys : tokens'[k] <= Rpm(k) * Hz
      /\ idle' \in [Keys -> 0..Hz] /\ span' \in Nat /\ taken' \in [Keys -> Nat]
    BY BucketsType
<1>2. /\ req \in [Slots -> Requests] /\ valid \subseteq Keys /\ today \in Nat
      /\ usage \in [Keys -> [day : -1..today, count : [Fields -> Nat]]]
      /\ admitted \in [Slots -> 0..today]
      /\ lost \in [Keys -> [Fields -> Nat]] /\ answers \in [Keys -> [Ends -> Nat]]
    BY DEF Typed, TypeOK, Requests
<1>3. \A s \in Slots : /\ req[s].at = "lookup" => opts.auth
                       /\ req[s].at = "bucket" => Bears(s)
    BY DEF Typed, Named
<1>4. valid' \subseteq Keys /\ opts' = opts
    <2>1. ASSUME NEW s \in Slots, Arrive(s) \/ Lookup(s) \/ Goes(s) PROVE UNCHANGED <<valid, opts>>
        BY <2>1 DEF Arrive, Lookup, Outside, Goes
    <2>2. CASE \E s \in Slots : Step(s)
        BY <1>2, <2>1, <2>2, HandlersGo DEF Step
    <2>3. CASE \E k \in Keys : Expire(k)
        BY <1>2, <2>3 DEF Expire
    <2>4. CASE Tick \/ Midnight \/ UNCHANGED vars
        BY <1>2, <2>4 DEF Tick, Midnight, vars
    <2>5. QED
        BY <2>2, <2>3, <2>4 DEF Next
\* What is left to show.
<1> DEFINE Rest == /\ req' \in [Slots -> Requests] /\ today' \in Nat
                   /\ usage' \in [Keys -> [day : -1..today', count : [Fields -> Nat]]]
                   /\ admitted' \in [Slots -> 0..today']
                   /\ lost' \in [Keys -> [Fields -> Nat]] /\ answers' \in [Keys -> [Ends -> Nat]]
           Names1 == \A s \in Slots : /\ req'[s].at = "lookup" => opts.auth
                                      /\ req'[s].at = "bucket" => opts.auth /\ req'[s].token \in Keys
<1>5. ASSUME NEW s \in Slots, Goes(s) PROVE Rest /\ Names1
    <2>1. PICK mark \in Marks, how \in Answers, place \in Places :
              Way(s, mark, how, place) /\ Marked(s, mark) /\ Moved(s, how, place)
        BY <1>5 DEF Goes
    <2>2. UNCHANGED <<opts, valid, today, arrived>>
        BY <1>5 DEF Goes
    <2>3. Rest /\ req'[s].at = place /\ \A u \in Slots \ {s} : req'[u] = req[u]
        BY <1>2, <2>1, <2>2, GoesEffect
    <2>4. place \notin {"lookup", "bucket"}
        BY DEF Places
    <2>5. Names1
        BY <1>3, <2>3, <2>4 DEF Bears
    <2>6. QED
        BY <2>3, <2>5
<1>6. ASSUME NEW s \in Slots, Lookup(s) PROVE Rest /\ Names1
    <2>1. Rest
        BY <1>2, <1>6, LookupEffect
    <2>2. Names1
        BY <1>3, <1>6, LookupEffect DEF Bears
    <2>3. QED
        BY <2>1, <2>2
<1>7. ASSUME NEW s \in Slots, Arrive(s) PROVE Rest /\ Names1
    <2>1. Rest
        BY <1>2, <1>7, ArriveEffect DEF meters
    <2>2. Names1
        BY <1>3, <1>7, ArriveEffect DEF Bears
    <2>3. QED
        BY <2>1, <2>2
<1>8. ASSUME UNCHANGED <<req, meters>>, today' \in {today, today + 1} PROVE Rest /\ Names1
    <2>1. today' \in Nat /\ 0..today \subseteq 0..today' /\ -1..today \subseteq -1..today'
        BY <1>2, <1>8
    <2>2. UNCHANGED <<req, usage, lost, answers, admitted>>
        BY <1>8 DEF meters
    <2>3. Rest
        BY <1>2, <2>1, <2>2
    <2>4. Names1
        BY <1>3, <2>2 DEF Bears
    <2>5. QED
        BY <2>3, <2>4
<1>9. Rest /\ Names1
    <2> HIDE DEF Rest, Names1
    <2>1. QED
        BY <1>5, <1>6, <1>7, <1>8, Steps
<1>10. TypeOK'
    BY <1>1, <1>4, <1>9 DEF TypeOK, Requests
<1>11. Named'
    BY <1>4, <1>9 DEF Named, Bears
<1>12. QED
    BY <1>10, <1>11 DEF Typed

\* The buckets, the records and the requests keep their types: no key is ever
\* charged for what it does not have, and none holds more than its burst.
THEOREM TypeCorrect == Spec => []TypeOK
<1>1. Typed => TypeOK
    BY DEF Typed
<1>2. QED
    BY <1>1, InitTyped, StepTyped, PTL DEF Spec

-----------------------------------------------------------------------------
\* A passage of a request through the middleware, or a tick, is to the bucket
\* of a key a step of the token bucket, or none.
LEMMA StepRefines ==
    ASSUME Typed, [Next]_vars
    PROVE  UNCHANGED buckets \/ \A k \in Keys : [Bucket(k)!Next]_(Bucket(k)!vars)
<1>1. /\ tokens \in [Keys -> Nat] /\ idle \in [Keys -> 0..Hz] /\ taken \in [Keys -> Nat]
    BY DEF Typed, TypeOK
<1>2. \A k \in Keys : Level(k) \in 0..Rpm(k) * Hz /\ Rpm(k) * Hz \in Nat /\ Rpm(k) \in Nat
    BY LevelBounds, RpmType DEF Typed
<1> USE DEF Bucket!Next, Bucket!vars
\* Storing a level, and a bucket that is not touched.
<1>3. ASSUME NEW k \in Keys, NEW t \in 0..Rpm(k) * Hz, tokens'[k] = t, idle'[k] = 0 PROVE Level(k)' = t
    <2>1. Rpm(k) * idle'[k] = 0
        BY <1>2, <1>3, ProductZero
    <2>2. QED
        BY <1>2, <1>3, <2>1 DEF Level, Lesser
<1>4. ASSUME NEW k \in Keys, tokens'[k] = tokens[k], idle'[k] = idle[k], taken'[k] = taken[k], span' = span
      PROVE  UNCHANGED Bucket(k)!vars
    BY <1>4 DEF Level
<1>5. ASSUME NEW s \in Slots, TooMany(s), NEW k \in Keys PROVE UNCHANGED Bucket(k)!vars
    <2>1. /\ tokens' = [tokens EXCEPT ![req[s].token] = Level(req[s].token)]
          /\ idle' = [idle EXCEPT ![req[s].token] = 0] /\ UNCHANGED <<span, taken>>
        BY <1>5 DEF TooMany, Refill
    <2>2. CASE k = req[s].token
        <3>1. tokens'[k] = Level(k) /\ idle'[k] = 0
            BY <1>1, <2>1, <2>2
        <3>2. Level(k)' = Level(k)
            BY <1>2, <1>3, <3>1
        <3>3. QED
            BY <2>1, <3>2
    <2>3. CASE k # req[s].token
        BY <1>1, <1>4, <2>1, <2>3
    <2>4. QED
        BY <2>2, <2>3
<1>6. ASSUME NEW s \in Slots, Charge(s), NEW k \in Keys PROVE [Bucket(k)!Next]_(Bucket(k)!vars)
    <2> DEFINE j == req[s].token
    <2>1. /\ tokens' = [tokens EXCEPT ![j] = Level(j) - Hz] /\ Level(j) >= Hz
          /\ idle' = [idle EXCEPT ![j] = 0] /\ span' = span /\ taken' = [taken EXCEPT ![j] = @ + 1]
        BY <1>6 DEF Charge, Refill
    <2> HIDE DEF j
    <2>2. CASE k = j
        <3>1. /\ tokens'[k] = Level(k) - Hz /\ idle'[k] = 0 /\ taken'[k] = taken[k] + 1
              /\ Level(k) >= Hz /\ Level(k) - Hz \in 0..Rpm(k) * Hz
            BY <1>1, <1>2, <2>1, <2>2, HzAssumption
        <3>2. Level(k)' = Level(k) - Hz
            BY <1>3, <3>1
        <3>3. QED
            BY <2>1, <3>1, <3>2 DEF Bucket!Take
    <2>3. CASE k # j
        BY <1>1, <1>4, <2>1, <2>3
    <2>4. QED
        BY <2>2, <2>3
<1>7. ASSUME Tick, NEW k \in Keys PROVE Bucket(k)!Tick
    <2> DEFINE earned == Rpm(k) * idle[k]
               next == Rpm(k) * (idle[k] + 1)
               cap == Rpm(k) * Hz
               r == Rpm(k)
    <2>1. /\ idle'[k] = Lesser(idle[k] + 1, Hz) /\ tokens' = tokens /\ span' = span + 1 /\ taken' = taken
        BY <1>1, <1>7 DEF Tick
    <2>2. earned \in Nat /\ cap \in Nat /\ r \in Nat /\ tokens[k] \in Nat /\ next = earned + r
        BY <1>1, <1>2, ProductNat, ProductStep, HzAssumption
    <2>3. Level(k) = Lesser(cap, tokens[k] + earned)
        BY DEF Level
    <2>4. Level(k)' = Lesser(cap, tokens[k] + Rpm(k) * idle'[k])
        BY <2>1 DEF Level
    <2>5. CASE idle[k] < Hz
        <3>1. idle'[k] = idle[k] + 1
            BY <1>1, <2>1, <2>5, HzAssumption DEF Lesser
        <3>2. Level(k)' = Lesser(cap, tokens[k] + next)
            BY <2>4, <3>1
        <3> HIDE DEF earned, next, cap, r
        <3>3. Lesser(cap, tokens[k] + next) =
                  IF Lesser(cap, tokens[k] + earned) + r <= cap
                  THEN Lesser(cap, tokens[k] + earned) + r ELSE cap
            BY <2>2 DEF Lesser
        <3>4. QED
            BY <2>1, <2>3, <3>2, <3>3 DEF Bucket!Tick, cap, r
    <2>6. CASE idle[k] = Hz
        <3>1. idle'[k] = Hz /\ earned = cap
            BY <1>1, <2>1, <2>6, HzAssumption DEF Lesser
        <3>2. Level(k)' = Lesser(cap, tokens[k] + cap)
            BY <2>4, <3>1
        <3> HIDE DEF earned, next, cap, r
        <3>3. /\ Lesser(cap, tokens[k] + cap) = cap /\ Lesser(cap, tokens[k] + earned) = cap
              /\ cap + r <= cap => cap + r = cap
            BY <2>2, <3>1 DEF Lesser
        <3>4. QED
            BY <2>1, <2>3, <3>2, <3>3 DEF Bucket!Tick, cap, r
    <2>7. QED
        BY <1>1, <2>5, <2>6, HzAssumption
<1> HIDE DEF Bucket!Next, Bucket!vars
<1>8. QED
    BY <1>5, <1>6, <1>7, BucketSteps DEF Bucket!Next

LEMMA InitRefines == Init => \A k \in Keys : Bucket(k)!Init
<1> SUFFICES ASSUME Init, NEW k \in Keys PROVE Bucket(k)!Init
    OBVIOUS
<1>1. Rpm(k) \in Nat \ {0} /\ Rpm(k) * Hz \in Nat
    BY TiersAssumption, RpmType DEF Rpm, TierOf
<1>2. tokens[k] = Rpm(k) * Hz /\ Rpm(k) * idle[k] = 0
    BY <1>1, ProductZero DEF Init
<1>3. Level(k) = Rpm(k) * Hz
    BY <1>1, <1>2 DEF Level, Lesser
<1>4. QED
    BY <1>1, <1>3 DEF Init, Bucket!Init

\* The buckets of the keys, each refilled only when its key is used and in the
\* order the requests of all connections come in, implement one token bucket
\* per key that is refilled at every tick.
THEOREM Refinement == Spec => ImplementsTokenBuckets
<1>1. Typed /\ [Next]_vars =>
          [UNCHANGED buckets \/ \A k \in Keys : [Bucket(k)!Next]_(Bucket(k)!vars)]_vars
    BY StepRefines
<1>2. QED
    BY <1>1, InitRefines, InitTyped, StepTyped, PTL DEF Spec, ImplementsTokenBuckets

-----------------------------------------------------------------------------
\* Where a request is once it has been looked up.
Past == {"bucket", "handler", "engine", "format"}

LEMMA LifetimeStep == Typed /\ CountedInLifetime /\ [Next]_vars => CountedInLifetime'
<1> SUFFICES ASSUME Typed, CountedInLifetime, [Next]_vars, opts'.usage, NEW u \in Slots,
                    req'[u].at \in Past, Bears(u)', req'[u].path # "health"
             PROVE  usage'[req'[u].token].day \in admitted'[u]..today'
    BY DEF CountedInLifetime, Past
<1>1. /\ usage \in [Keys -> [day : -1..today, count : [Fields -> Nat]]] /\ today \in Nat
      /\ admitted \in [Slots -> 0..today]
    BY DEF Typed, TypeOK
<1>2. ASSUME opts' = opts, req'[u] = req[u]
      PROVE  /\ req[u].token \in Keys /\ usage[req[u].token].day \in admitted[u]..today
    BY <1>2 DEF CountedInLifetime, Bears, Past
<1>3. CASE UNCHANGED <<opts, req, meters>> /\ today' \in {today, today + 1}
    <2>1. UNCHANGED <<req, usage, admitted>> /\ opts' = opts
        BY <1>3 DEF meters
    <2>2. admitted[u] \in Nat /\ usage[req[u].token].day \in admitted[u]..today
        BY <1>1, <1>2, <2>1
    <2>3. QED
        BY <1>1, <1>3, <2>1, <2>2
<1>4. ASSUME NEW s \in Slots, Arrive(s) PROVE usage'[req'[u].token].day \in admitted'[u]..today'
    <2>1. u # s /\ req'[u] = req[u] /\ UNCHANGED <<opts, today, usage, admitted>>
        BY <1>4, ArriveEffect DEF meters, Past
    <2>2. QED
        BY <1>2, <2>1
<1>5. ASSUME NEW s \in Slots, Lookup(s) PROVE usage'[req'[u].token].day \in admitted'[u]..today'
    <2>1. opts' = opts /\ today' = today
        BY <1>5, LookupEffect
    <2>2. CASE u = s
        <3>1. usage'[req'[u].token].day = today /\ admitted'[u] = today
            BY <1>5, <2>1, <2>2, LookupEffect
        <3>2. QED
            BY <1>1, <2>1, <3>1
    <2>3. CASE u # s
        <3>1. req'[u] = req[u] /\ admitted'[u] = admitted[u]
            BY <1>5, <2>3, LookupEffect
        <3>2. usage'[req[u].token].day \in {usage[req[u].token].day, today}
            BY <1>2, <1>5, <2>1, <3>1, LookupEffect
        <3>3. admitted[u] \in 0..today
            BY <1>1
        <3>4. QED
            BY <1>1, <1>2, <2>1, <3>1, <3>2, <3>3
    <2>4. QED
        BY <2>2, <2>3
<1>6. ASSUME NEW s \in Slots, Goes(s) PROVE usage'[req'[u].token].day \in admitted'[u]..today'
    <2>1. PICK mark \in Marks, how \in Answers, place \in Places :
              Way(s, mark, how, place) /\ Marked(s, mark) /\ Moved(s, how, place)
        BY <1>6 DEF Goes
    <2>2. UNCHANGED <<opts, valid, today, arrived>>
        BY <1>6 DEF Goes
    <2>3. /\ \A x \in Slots \ {s} : req'[x] = req[x]
          /\ req'[s].at = place
          /\ how = "none" => req'[s].path = req[s].path /\ req'[s].token = req[s].token
          /\ \A x \in Slots : req'[x].at # "free" => admitted'[x] = admitted[x]
          /\ \A k \in Keys : usage'[k].day = usage[k].day
        BY <2>1, <2>2, GoesEffect
    <2>4. req'[u].token = req[u].token /\ req'[u].path = req[u].path /\ req[u].at \in Past
        <3>1. CASE u = s
            <4>1. place # "free"
                BY <2>3, <3>1 DEF Past
            <4>2. how = "none" /\ req[s].at \in Past
                BY <2>1, <4>1 DEF Way, Past
            <4>3. QED
                BY <2>3, <3>1, <4>2
        <3>2. CASE u # s
            BY <2>3, <3>2
        <3>3. QED
            BY <3>1, <3>2
    <2>5. req[u].token \in Keys /\ usage[req[u].token].day \in admitted[u]..today
        BY <2>2, <2>4 DEF CountedInLifetime, Bears, Past
    <2>6. usage'[req[u].token].day = usage[req[u].token].day
        BY <2>3, <2>5
    <2>7. admitted'[u] = admitted[u]
        BY <2>3 DEF Past
    <2>8. QED
        BY <2>2, <2>4, <2>5, <2>6, <2>7
<1>7. QED
    BY <1>3, <1>4, <1>5, <1>6, Steps

LEMMA LifetimeInit == Init => CountedInLifetime
BY DEF Init, Free, CountedInLifetime

\* A mark goes to a record of a day on which the request was in progress.
THEOREM LifetimeCorrect == Spec => []CountedInLifetime
BY InitTyped, StepTyped, LifetimeInit, LifetimeStep, PTL DEF Spec

-----------------------------------------------------------------------------
\* Request s is one of those that Under counts.
Within(s, k, place, paths) ==
    Bears(s) /\ req[s].token = k /\ req[s].at = place /\ req[s].path \in paths

\* When one request moves, the count of a place changes by what that one does.
LEMMA UnderStep ==
    ASSUME NEW k \in Keys, NEW place \in Places, NEW paths \in SUBSET Paths, NEW s \in Slots,
           \A u \in Slots \ {s} : Within(u, k, place, paths)' <=> Within(u, k, place, paths)
    PROVE  /\ Under(k, place, paths) \in Nat
           /\ Under(k, place, paths)' = Under(k, place, paths)
                  + (IF Within(s, k, place, paths)' THEN 1 ELSE 0)
                  - (IF Within(s, k, place, paths) THEN 1 ELSE 0)
<1> DEFINE those == {u \in Slots : Within(u, k, place, paths)}
           next == {u \in Slots : Within(u, k, place, paths)'}
<1>1. Under(k, place, paths) = Cardinality(those) /\ Under(k, place, paths)' = Cardinality(next)
    BY DEF Under, Within
<1>2. /\ IsFiniteSet(those) /\ IsFiniteSet(next)
      /\ Cardinality(those) \in Nat /\ Cardinality(next) \in Nat
    BY NamesAssumption, FS_Subset, FS_CardinalityType
<1>3. CASE Within(s, k, place, paths)' <=> Within(s, k, place, paths)
    <2>1. next = those
        BY <1>3
    <2>2. QED
        BY <1>1, <1>2, <1>3, <2>1
<1>4. CASE Within(s, k, place, paths)' /\ ~Within(s, k, place, paths)
    <2>1. next = those \cup {s} /\ s \notin those
        BY <1>4
    <2> HIDE DEF those, next
    <2>2. Cardinality(next) = Cardinality(those) + 1
        BY <1>2, <2>1, FS_AddElement
    <2>3. QED
        BY <1>1, <1>2, <1>4, <2>2
<1>5. CASE ~Within(s, k, place, paths)' /\ Within(s, k, place, paths)
    <2>1. those = next \cup {s} /\ s \notin next
        BY <1>5
    <2> HIDE DEF those, next
    <2>2. Cardinality(those) = Cardinality(next) + 1
        BY <1>2, <2>1, FS_AddElement
    <2>3. QED
        BY <1>1, <1>2, <1>5, <2>2
<1>6. QED
    BY <1>3, <1>4, <1>5

\* The places whose requests Due counts.
Formatting(k, path) == Under(k, "format", {path})
Streaming(k) == Under(k, "engine", {"stream", "searchstream"})

LEMMA DueIs ==
    ASSUME NEW k \in Keys
    PROVE  /\ Due(k, "searches") = answers[k]["searched"] + answers[k]["searchbadformat"] + Formatting(k, "search")
           /\ Due(k, "fetches") = answers[k]["fetched"] + answers[k]["fetchbadformat"] + Formatting(k, "fetch")
           /\ Due(k, "streams") = answers[k]["streamed"] + answers[k]["streamfailed"] + Streaming(k)
           /\ Due(k, "errors4xx") = answers[k]["badparam"] + answers[k]["searchbadformat"] + answers[k]["fetchbadformat"]
           /\ Due(k, "errors5xx") = answers[k]["failed"] + answers[k]["streamfailed"]
BY DEF Due, Formatting, Streaming

\* A step after which neither side of the account of k has changed.
LEMMA Untouched ==
    ASSUME NEW k \in Keys, answers'[k] = answers[k],
           \A f \in Fields : Metered(k, f)' = Metered(k, f),
           UNCHANGED <<Formatting(k, "search"), Formatting(k, "fetch"), Streaming(k)>>
    PROVE  \A f \in Fields : Metered(k, f)' = Due(k, f)' <=> Metered(k, f) = Due(k, f)
<1>1. /\ Due(k, "searches")' = Due(k, "searches") /\ Due(k, "fetches")' = Due(k, "fetches")
      /\ Due(k, "streams")' = Due(k, "streams") /\ Due(k, "errors4xx")' = Due(k, "errors4xx")
      /\ Due(k, "errors5xx")' = Due(k, "errors5xx")
    BY DEF Due, Formatting, Streaming
<1>2. QED
    BY <1>1 DEF Fields

LEMMA AccountsInit == Init => UsageAccounts
<1> SUFFICES ASSUME Init, NEW k \in Keys, NEW f \in Fields PROVE Metered(k, f) = Due(k, f)
    BY DEF UsageAccounts
<1>1. ASSUME NEW place \in {"format", "engine"}, NEW paths PROVE Under(k, place, paths) = 0
    <2>1. {s \in Slots : Bears(s) /\ req[s].token = k /\ req[s].at = place /\ req[s].path \in paths} = {}
        BY DEF Init, Free
    <2>2. QED
        BY <2>1, FS_EmptySet DEF Under
<1>2. /\ Formatting(k, "search") = 0 /\ Formatting(k, "fetch") = 0 /\ Streaming(k) = 0
    BY <1>1 DEF Formatting, Streaming
<1>3. Metered(k, f) = 0
    BY DEF Init, Metered, NoRecord, Zero
<1>4. \A e \in Ends : answers[k][e] = 0
    BY DEF Init
<1>5. Due(k, f) = 0
    BY <1>2, <1>4, DueIs DEF Fields, Ends
<1>6. QED
    BY <1>3, <1>5

LEMMA AccountsStep ==
    Typed /\ CountedInLifetime /\ UsageAccounts /\ [Next]_vars => UsageAccounts'
<1> SUFFICES ASSUME Typed, CountedInLifetime, UsageAccounts, [Next]_vars, opts'.usage, opts'.auth, NEW k \in Keys
             PROVE  \A f \in Fields : Metered(k, f)' = Due(k, f)'
    BY DEF UsageAccounts
<1>1. /\ usage \in [Keys -> [day : -1..today, count : [Fields -> Nat]]] /\ today \in Nat
      /\ lost \in [Keys -> [Fields -> Nat]] /\ answers \in [Keys -> [Ends -> Nat]]
      /\ admitted \in [Slots -> 0..today]
    BY DEF Typed, TypeOK
<1>2. ASSUME opts' = opts PROVE \A f \in Fields : Metered(k, f) = Due(k, f)
    BY <1>2 DEF UsageAccounts
<1> DEFINE In(s, place, paths) == Within(s, k, place, paths)
\* A step of request s leaves the other requests where they are.
<1>3. ASSUME NEW s \in Slots, opts' = opts, \A u \in Slots \ {s} : req'[u] = req[u],
             NEW place \in Places, NEW paths \in SUBSET Paths
      PROVE  /\ Under(k, place, paths) \in Nat
             /\ Under(k, place, paths)' = Under(k, place, paths)
                    + (IF In(s, place, paths)' THEN 1 ELSE 0) - (IF In(s, place, paths) THEN 1 ELSE 0)
    <2>1. \A u \in Slots \ {s} : Within(u, k, place, paths)' <=> Within(u, k, place, paths)
        BY <1>3 DEF Within, Bears
    <2>2. QED
        BY <2>1, UnderStep
<1>4. /\ "format" \in Places /\ "engine" \in Places /\ {"search"} \in SUBSET Paths
      /\ {"fetch"} \in SUBSET Paths /\ {"stream", "searchstream"} \in SUBSET Paths
    BY DEF Places, Paths
<1>5. ASSUME NEW s \in Slots, opts' = opts, \A u \in Slots \ {s} : req'[u] = req[u],
             \/ req[s].at \notin {"format", "engine"} /\ req'[s].at \notin {"format", "engine"}
             \/ ~(Bears(s) /\ req[s].token = k) /\ ~(Bears(s) /\ req[s].token = k)'
      PROVE  UNCHANGED <<Formatting(k, "search"), Formatting(k, "fetch"), Streaming(k)>>
    <2>1. ASSUME NEW place \in {"format", "engine"}, NEW paths \in SUBSET Paths
          PROVE  Under(k, place, paths)' = Under(k, place, paths)
        <3>1. ~In(s, place, paths) /\ ~In(s, place, paths)'
            BY <1>5 DEF Within
        <3>2. QED
            BY <1>3, <1>5, <3>1 DEF Places
    <2>2. QED
        BY <1>4, <2>1 DEF Formatting, Streaming
<1>6. CASE UNCHANGED <<opts, req, meters>>
    <2>1. UNCHANGED <<opts, req, usage, lost, answers>>
        BY <1>6 DEF meters
    <2>2. \A f \in Fields : Metered(k, f)' = Metered(k, f)
        BY <2>1 DEF Metered
    <2>3. UNCHANGED <<Formatting(k, "search"), Formatting(k, "fetch"), Streaming(k)>>
        BY <2>1 DEF Formatting, Streaming, Under, Bears
    <2>4. QED
        BY <1>2, <2>1, <2>2, <2>3, Untouched
<1>7. ASSUME NEW s \in Slots, Arrive(s) PROVE \A f \in Fields : Metered(k, f)' = Due(k, f)'
    <2>1. UNCHANGED <<opts, usage, lost, answers>> /\ \A u \in Slots \ {s} : req'[u] = req[u]
        BY <1>7, ArriveEffect DEF meters
    <2>2. req[s].at \notin {"format", "engine"} /\ req'[s].at \notin {"format", "engine"}
        BY <1>7, ArriveEffect
    <2>3. \A f \in Fields : Metered(k, f)' = Metered(k, f)
        BY <2>1 DEF Metered
    <2>4. QED
        BY <1>2, <1>5, <2>1, <2>2, <2>3, Untouched
<1>8. ASSUME NEW s \in Slots, Lookup(s) PROVE \A f \in Fields : Metered(k, f)' = Due(k, f)'
    <2>1. UNCHANGED <<opts, answers>> /\ \A u \in Slots \ {s} : req'[u] = req[u]
        BY <1>8, LookupEffect
    <2>2. req[s].at \notin {"format", "engine"} /\ req'[s].at \notin {"format", "engine"}
        BY <1>8, LookupEffect
    <2>3. \A f \in Fields : Metered(k, f)' = Metered(k, f)
        BY <1>8, LookupEffect DEF Metered
    <2>4. QED
        BY <1>2, <1>5, <2>1, <2>2, <2>3, Untouched
<1>9. ASSUME NEW s \in Slots, Goes(s) PROVE \A f \in Fields : Metered(k, f)' = Due(k, f)'
    <2>1. PICK mark \in Marks, how \in Answers, place \in Places :
              Way(s, mark, how, place) /\ Marked(s, mark) /\ Moved(s, how, place)
        BY <1>9 DEF Goes
    <2>2. UNCHANGED <<opts, valid, today, arrived>>
        BY <1>9 DEF Goes
    <2>3. /\ \A u \in Slots \ {s} : req'[u] = req[u]
          /\ req'[s].at = place
          /\ how = "none" => req'[s].path = req[s].path /\ req'[s].token = req[s].token
          /\ answers' \in [Keys -> [Ends -> Nat]]
          /\ \A j \in Keys, e \in Ends : answers'[j][e] =
                 answers[j][e] + (IF opts.usage /\ Bears(s) /\ j = req[s].token /\ e = how THEN 1 ELSE 0)
          /\ lost' = lost
          /\ \A j \in Keys, f \in Fields : usage'[j].count[f] =
                 usage[j].count[f] + (IF /\ opts.usage /\ Bears(s)
                                         /\ usage[req[s].token] # NoRecord
                                         /\ j = req[s].token /\ f = mark THEN 1 ELSE 0)
        BY <2>1, <2>2, GoesEffect
    <2>4. \A f \in Fields : Metered(k, f) = Due(k, f)
        BY <1>2, <2>2
    <2>5. CASE ~(Bears(s) /\ req[s].token = k)
        <3>1. ~(Bears(s) /\ req[s].token = k)' \/ place \notin {"format", "engine"}
            <4>1. CASE how = "none"
                BY <2>2, <2>3, <2>5, <4>1 DEF Bears
            <4>2. CASE how # "none"
                BY <2>1, <4>2 DEF Way
            <4>3. QED
                BY <4>1, <4>2
        <3>2. ASSUME NEW q \in {"format", "engine"}, NEW paths \in SUBSET Paths
              PROVE  Under(k, q, paths)' = Under(k, q, paths)
            <4>1. ~In(s, q, paths) /\ ~In(s, q, paths)'
                BY <2>3, <2>5, <3>1 DEF Within
            <4>2. QED
                BY <1>3, <2>2, <2>3, <4>1 DEF Places
        <3>3. UNCHANGED <<Formatting(k, "search"), Formatting(k, "fetch"), Streaming(k)>>
            BY <1>4, <3>2 DEF Formatting, Streaming
        <3>4. \A f \in Fields : Metered(k, f)' = Metered(k, f)
            BY <1>1, <2>3, <2>5 DEF Metered
        <3>5. answers'[k] = answers[k]
            BY <1>1, <2>3, <2>5
        <3>6. QED
            BY <2>4, <3>3, <3>4, <3>5, Untouched
    <2>6. CASE Bears(s) /\ req[s].token = k
        \* The counters of the key ...
        <3>1. ASSUME mark # "none" PROVE usage[k] # NoRecord
            <4>1. req[s].at \in {"handler", "engine", "format"} /\ req[s].path # "health"
                BY <2>1, <3>1 DEF Way
            <4>2. usage[k].day \in admitted[s]..today
                BY <2>2, <2>6, <4>1 DEF CountedInLifetime
            <4>3. admitted[s] \in Nat /\ NoRecord.day = -1
                BY <1>1 DEF NoRecord
            <4>4. QED
                BY <1>1, <4>2, <4>3
        <3>2. ASSUME NEW f \in Fields PROVE Metered(k, f)' = Metered(k, f) + (IF f = mark THEN 1 ELSE 0)
            <4>1. usage[k].count[f] \in Nat /\ lost[k][f] \in Nat
                BY <1>1
            <4>2. usage'[k].count[f] = usage[k].count[f] + (IF f = mark THEN 1 ELSE 0)
                BY <2>2, <2>3, <2>6, <3>1, Names
            <4>3. lost'[k][f] = lost[k][f]
                BY <2>3
            <4>4. QED
                BY <4>1, <4>2, <4>3 DEF Metered
        \* ... its answers ...
        <3>3. \A e \in Ends : answers'[k][e] = answers[k][e] + (IF e = how THEN 1 ELSE 0) /\ answers[k][e] \in Nat
            BY <1>1, <2>2, <2>3, <2>6
        \* ... and its requests in progress.
        <3>4. ASSUME NEW q \in {"format", "engine"}, NEW paths \in SUBSET Paths
              PROVE  /\ Under(k, q, paths) \in Nat
                     /\ Under(k, q, paths)' = Under(k, q, paths)
                            + (IF place = q /\ req[s].path \in paths THEN 1 ELSE 0)
                            - (IF req[s].at = q /\ req[s].path \in paths THEN 1 ELSE 0)
            <4>1. In(s, q, paths) <=> req[s].at = q /\ req[s].path \in paths
                BY <2>6 DEF Within
            <4>2. In(s, q, paths)' <=> place = q /\ req[s].path \in paths
                <5>1. CASE how = "none"
                    BY <2>2, <2>3, <2>6, <5>1 DEF Within, Bears
                <5>2. CASE how # "none"
                    BY <2>1, <2>3, <5>2 DEF Way, Within
                <5>3. QED
                    BY <5>1, <5>2
            <4>3. QED
                BY <1>3, <2>2, <2>3, <4>1, <4>2 DEF Places
        <3> DEFINE n == answers[k]
                   m == answers'[k]
                   path == req[s].path
                   at == req[s].at
                   fs == Formatting(k, "search")
                   ff == Formatting(k, "fetch")
                   st == Streaming(k)
        <3>5. /\ fs \in Nat /\ fs' = fs + (IF place = "format" /\ path = "search" THEN 1 ELSE 0)
                                        - (IF at = "format" /\ path = "search" THEN 1 ELSE 0)
              /\ ff \in Nat /\ ff' = ff + (IF place = "format" /\ path = "fetch" THEN 1 ELSE 0)
                                        - (IF at = "format" /\ path = "fetch" THEN 1 ELSE 0)
              /\ st \in Nat
              /\ st' = st + (IF place = "engine" /\ path \in {"stream", "searchstream"} THEN 1 ELSE 0)
                          - (IF at = "engine" /\ path \in {"stream", "searchstream"} THEN 1 ELSE 0)
            BY <1>4, <3>4 DEF Formatting, Streaming
        <3>6. Metered(k, "searches")' = Due(k, "searches")'
            <4>1. Metered(k, "searches") = n["searched"] + n["searchbadformat"] + fs
                BY <2>4, DueIs DEF Fields
            <4>2. Due(k, "searches")' = m["searched"] + m["searchbadformat"] + fs'
                BY DEF Due, Formatting
            <4>3. Metered(k, "searches")' = Metered(k, "searches") + (IF mark = "searches" THEN 1 ELSE 0)
                BY <3>2 DEF Fields
            <4>4. /\ m["searched"] = n["searched"] + (IF how = "searched" THEN 1 ELSE 0)
                  /\ m["searchbadformat"] = n["searchbadformat"] + (IF how = "searchbadformat" THEN 1 ELSE 0)
                  /\ n["searched"] \in Nat /\ n["searchbadformat"] \in Nat
                BY <3>3 DEF Ends
            <4> HIDE DEF n, m, fs, ff, st
            <4>5. CASE mark = "searches"
                <5>1. \/ how = "searched" /\ ~(place = "format" /\ path = "search") /\ ~(at = "format" /\ path = "search")
                      \/ how \notin {"searched", "searchbadformat"} /\ place = "format" /\ path = "search" /\ ~(at = "format" /\ path = "search")
                    BY <2>1, <4>5 DEF Way
                <5>2. QED
                    BY <3>5, <4>1, <4>2, <4>3, <4>4, <4>5, <5>1
            <4>6. CASE mark # "searches"
                <5>1. \/ how \notin {"searched", "searchbadformat"} /\ ~(place = "format" /\ path = "search") /\ ~(at = "format" /\ path = "search")
                      \/ how = "searchbadformat" /\ ~(place = "format" /\ path = "search") /\ at = "format" /\ path = "search"
                    BY <2>1, <4>6 DEF Way
                <5>2. QED
                    BY <3>5, <4>1, <4>2, <4>3, <4>4, <4>6, <5>1
            <4>7. QED
                BY <4>5, <4>6
        <3>7. Metered(k, "fetches")' = Due(k, "fetches")'
            <4>1. Metered(k, "fetches") = n["fetched"] + n["fetchbadformat"] + ff
                BY <2>4, DueIs DEF Fields
            <4>2. Due(k, "fetches")' = m["fetched"] + m["fetchbadformat"] + ff'
                BY DEF Due, Formatting
            <4>3. Metered(k, "fetches")' = Metered(k, "fetches") + (IF mark = "fetches" THEN 1 ELSE 0)
                BY <3>2 DEF Fields
            <4>4. /\ m["fetched"] = n["fetched"] + (IF how = "fetched" THEN 1 ELSE 0)
                  /\ m["fetchbadformat"] = n["fetchbadformat"] + (IF how = "fetchbadformat" THEN 1 ELSE 0)
                  /\ n["fetched"] \in Nat /\ n["fetchbadformat"] \in Nat
                BY <3>3 DEF Ends
            <4> HIDE DEF n, m, fs, ff, st
            <4>5. CASE mark = "fetches"
                <5>1. \/ how = "fetched" /\ ~(place = "format" /\ path = "fetch") /\ ~(at = "format" /\ path = "fetch")
                      \/ how \notin {"fetched", "fetchbadformat"} /\ place = "format" /\ path = "fetch" /\ ~(at = "format" /\ path = "fetch")
                    BY <2>1, <4>5 DEF Way
                <5>2. QED
                    BY <3>5, <4>1, <4>2, <4>3, <4>4, <4>5, <5>1
            <4>6. CASE mark # "fetches"
                <5>1. \/ how \notin {"fetched", "fetchbadformat"} /\ ~(place = "format" /\ path = "fetch") /\ ~(at = "format" /\ path = "fetch")
                      \/ how = "fetchbadformat" /\ ~(place = "format" /\ path = "fetch") /\ at = "format" /\ path = "fetch"
                    BY <2>1, <4>6 DEF Way
                <5>2. QED
                    BY <3>5, <4>1, <4>2, <4>3, <4>4, <4>6, <5>1
            <4>7. QED
                BY <4>5, <4>6
        <3>8. Metered(k, "streams")' = Due(k, "streams")'
            <4>1. Metered(k, "streams") = n["streamed"] + n["streamfailed"] + st
                BY <2>4, DueIs DEF Fields
            <4>2. Due(k, "streams")' = m["streamed"] + m["streamfailed"] + st'
                BY DEF Due, Streaming
            <4>3. Metered(k, "streams")' = Metered(k, "streams") + (IF mark = "streams" THEN 1 ELSE 0)
                BY <3>2 DEF Fields
            <4>4. /\ m["streamed"] = n["streamed"] + (IF how = "streamed" THEN 1 ELSE 0)
                  /\ m["streamfailed"] = n["streamfailed"] + (IF how = "streamfailed" THEN 1 ELSE 0)
                  /\ n["streamed"] \in Nat /\ n["streamfailed"] \in Nat
                BY <3>3 DEF Ends
            <4> DEFINE stream == path \in {"stream", "searchstream"}
            <4>5. CASE mark = "streams"
                <5>1. how \notin {"streamed", "streamfailed"} /\ place = "engine" /\ at # "engine" /\ stream
                    BY <2>1, <4>5 DEF Way
                <5> HIDE DEF n, m, fs, ff, st
                <5>2. QED
                    BY <3>5, <4>1, <4>2, <4>3, <4>4, <4>5, <5>1
            <4>6. CASE mark # "streams"
                <5>1. \/ how \notin {"streamed", "streamfailed"} /\ ~(place = "engine" /\ stream) /\ ~(at = "engine" /\ stream)
                      \/ how = "streamed" /\ place # "engine" /\ at = "engine" /\ stream
                      \/ how = "streamfailed" /\ place # "engine" /\ at = "engine" /\ stream
                    BY <2>1, <4>6 DEF Way
                <5> HIDE DEF n, m, fs, ff, st
                <5>2. QED
                    BY <3>5, <4>1, <4>2, <4>3, <4>4, <4>6, <5>1
            <4>7. QED
                BY <4>5, <4>6
        <3>9. Metered(k, "errors4xx")' = Due(k, "errors4xx")' /\ Metered(k, "errors5xx")' = Due(k, "errors5xx")'
            <4>1. /\ Metered(k, "errors4xx") = n["badparam"] + n["searchbadformat"] + n["fetchbadformat"]
                  /\ Metered(k, "errors5xx") = n["failed"] + n["streamfailed"]
                BY <2>4, DueIs DEF Fields
            <4>2. /\ Due(k, "errors4xx")' = m["badparam"] + m["searchbadformat"] + m["fetchbadformat"]
                  /\ Due(k, "errors5xx")' = m["failed"] + m["streamfailed"]
                BY DEF Due
            <4>3. /\ Metered(k, "errors4xx")' = Metered(k, "errors4xx") + (IF mark = "errors4xx" THEN 1 ELSE 0)
                  /\ Metered(k, "errors5xx")' = Metered(k, "errors5xx") + (IF mark = "errors5xx" THEN 1 ELSE 0)
                BY <3>2 DEF Fields
            <4>4. \A e \in {"badparam", "searchbadformat", "fetchbadformat", "failed", "streamfailed"} :
                      m[e] = n[e] + (IF how = e THEN 1 ELSE 0) /\ n[e] \in Nat
                BY <3>3 DEF Ends
            <4> HIDE DEF n, m, path, at, fs, ff, st
            <4>5. Metered(k, "errors4xx")' = Due(k, "errors4xx")'
                BY <2>1, <4>1, <4>2, <4>3, <4>4 DEF Way
            <4>6. Metered(k, "errors5xx")' = Due(k, "errors5xx")'
                BY <2>1, <4>1, <4>2, <4>3, <4>4 DEF Way
            <4>7. QED
                BY <4>5, <4>6
        <3>10. QED
            BY <3>6, <3>7, <3>8, <3>9 DEF Fields
    <2>7. QED
        BY <2>5, <2>6
<1>10. QED
    BY <1>6, <1>7, <1>8, <1>9, Steps

\* What a key is charged with is what it has been answered: no mark is lost,
\* made twice, or made for another key.
THEOREM AccountsCorrect == Spec => []UsageAccounts
BY InitTyped, StepTyped, LifetimeInit, LifetimeStep, AccountsInit, AccountsStep, PTL DEF Spec
=============================================================================
