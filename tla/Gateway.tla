------------------------------ MODULE Gateway ------------------------------
(***************************************************************************)
(* server/auth.go, usage.go, keys.go and the handlers of http.go: requests *)
(* on concurrent connections pass key lookup, the key's bucket, the stream *)
(* gate and a handler, and leave marks in the key's usage record.  The      *)
(* engine is reduced to its outcome, and so are the request's parameters:  *)
(* what they are is chosen when the handler looks at them.  Tokens are       *)
(* integers: a key of r requests per minute gains r units per tick, a minute *)
(* has Hz ticks, and one token is Hz units.                                  *)
(***************************************************************************)
EXTENDS Integers, FiniteSets

CONSTANTS Slots,     \* connections
          Keys,      \* API keys with a valid signature
          Tier,      \* the tier each key names: [Keys -> STRING]
          Tiers,     \* the table of tiers: records [rpm, stream]
          Hz,        \* ticks per minute
          Options,   \* server options: records [auth, usage] of Booleans
          MaxRequests, MaxDay, MaxSpan   \* bounds

ASSUME TiersAssumption == "free" \in DOMAIN Tiers /\ \A t \in DOMAIN Tiers : Tiers[t].rpm \in Nat \ {0}
ASSUME HzAssumption == Hz \in Nat \ {0}
ASSUME NamesAssumption == IsFiniteSet(Slots) /\ "admin" \notin Keys /\ "none" \notin Keys

VARIABLES
    opts,     \* Options.Keys given, Options.Usage given
    req,      \* per connection: where the request is, what it asks, with which token
    valid,    \* keys that have neither expired nor been revoked
    tokens,   \* per key: bucket.tokens, as of lastFill (a key not seen yet has a full bucket)
    idle,     \* ticks since lastFill, stopped at Hz
    usage,    \* UsageStats.byKey: [day, count], or NoRecord
    today,
    lost,     \* history: counts of the records that were replaced
    answers,  \* history: per key, how its requests ended
    admitted, \* history: the day on which the request's key was looked up
    span, taken,   \* history: ticks that have passed, tokens granted
    arrived

buckets == <<tokens, idle, span, taken>>
meters == <<usage, lost, answers, admitted>>
vars == <<opts, req, valid, buckets, meters, today, arrived>>

Paths == {"search", "searchstream", "fetch", "stream", "usage", "health"}
Fields == {"searches", "fetches", "streams", "errors4xx", "errors5xx"}
Ends == {"searched", "fetched", "streamed", "badparam", "failed", "streamfailed",
         "searchbadformat", "fetchbadformat", "uncounted"}

Free == [at |-> "free", path |-> "health", token |-> "none"]
Zero == [f \in Fields |-> 0]
NoRecord == [day |-> -1, count |-> Zero]

IsStream(p) == p \in {"searchstream", "stream"}
Lesser(a, b) == IF a <= b THEN a ELSE b

\* A tier that is not in the table counts as free.
TierOf(k) == Tiers[IF Tier[k] \in DOMAIN Tiers THEN Tier[k] ELSE "free"]
Rpm(k) == TierOf(k).rpm

\* The refill allow computes on entry.
Level(k) == Lesser(Rpm(k) * Hz, tokens[k] + Rpm(k) * idle[k])

\* The key in the request's context, which only the middleware puts there.
Bears(s) == opts.auth /\ req[s].token \in Keys

-----------------------------------------------------------------------------
Init ==
    /\ opts \in Options
    /\ req = [s \in Slots |-> Free]
    /\ valid = Keys
    /\ tokens = [k \in Keys |-> Rpm(k) * Hz]
    /\ idle = [k \in Keys |-> 0]
    /\ usage = [k \in Keys |-> NoRecord]
    /\ today = 0
    /\ lost = [k \in Keys |-> Zero]
    /\ answers = [k \in Keys |-> [e \in Ends |-> 0]]
    /\ admitted = [s \in Slots |-> 0]
    /\ span = 0
    /\ taken = [k \in Keys |-> 0]
    /\ arrived = 0

Go(s, place) == req' = [req EXCEPT ![s].at = place]

\* The response is complete.
End(s, how) ==
    /\ req' = [req EXCEPT ![s] = Free]
    /\ admitted' = [admitted EXCEPT ![s] = 0]
    /\ answers' = IF opts.usage /\ Bears(s)
                  THEN [answers EXCEPT ![req[s].token][how] = @ + 1]
                  ELSE answers

\* Server.record and UsageStats.Record.
Record(s, field) ==
    /\ usage' = IF opts.usage /\ Bears(s) /\ usage[req[s].token] # NoRecord
                THEN [usage EXCEPT ![req[s].token].count[field] = @ + 1]
                ELSE usage
    /\ lost' = lost

NoMark == UNCHANGED <<usage, lost>>
Outside == UNCHANGED <<opts, valid, buckets, today, arrived>>

\* Server.Handler: /health, an open server, and the administrator's token at
\* /v1/usage do not pass the middleware.
Arrive(s) ==
    /\ req[s].at = "free"
    /\ arrived < MaxRequests
    /\ arrived' = arrived + 1
    /\ \E p \in Paths, t \in IF opts.auth THEN Keys \cup {"admin", "none"} ELSE {"none"} :
        req' = [req EXCEPT ![s] =
            [at |-> IF p = "health" \/ ~opts.auth \/ (p = "usage" /\ t = "admin")
                    THEN "handler" ELSE "lookup",
             path |-> p, token |-> t]]
    /\ UNCHANGED <<opts, valid, buckets, meters, today>>

\* No bearer token, or one that is not a valid key.
Unauthorized(s) ==
    /\ req[s].at = "lookup"
    /\ req[s].token \notin valid
    /\ End(s, "uncounted")
    /\ NoMark
    /\ Outside

\* The definitions whose names end in _Bug are plausible mistakes in the
\* definition that follows; no specification uses them.

\* (the record of another day is kept)
Touched_Bug(k) ==
    IF usage[k] = NoRecord THEN [day |-> today, count |-> Zero] ELSE usage[k]

\* touch: the first request of a day starts a new record.
Touched(k) ==
    IF usage[k].day # today THEN [day |-> today, count |-> Zero] ELSE usage[k]

\* recordingKeySource.Lookup of a key that is valid.
Lookup(s) ==
    LET k == req[s].token
    IN /\ req[s].at = "lookup"
       /\ k \in valid
       /\ usage' = IF opts.usage THEN [usage EXCEPT ![k] = Touched(k)] ELSE usage
       /\ lost' = IF usage'[k].day # usage[k].day
                  THEN [lost EXCEPT ![k] = [f \in Fields |-> @[f] + usage[k].count[f]]]
                  ELSE lost
       /\ admitted' = [admitted EXCEPT ![s] = today]
       /\ Go(s, "bucket")
       /\ UNCHANGED answers
       /\ Outside

Refill(k) == idle' = [idle EXCEPT ![k] = 0]

\* (a refused request forgets what had been earned)
TooMany_Bug(s) ==
    LET k == req[s].token
    IN /\ req[s].at = "bucket"
       /\ Level(k) < Hz
       /\ tokens' = tokens
       /\ Refill(k)
       /\ End(s, "uncounted")
       /\ NoMark
       /\ UNCHANGED <<opts, valid, span, taken, today, arrived>>

\* allow returns false: 429.
TooMany(s) ==
    LET k == req[s].token
    IN /\ req[s].at = "bucket"
       /\ Level(k) < Hz
       /\ tokens' = [tokens EXCEPT ![k] = Level(k)]
       /\ Refill(k)
       /\ End(s, "uncounted")
       /\ NoMark
       /\ UNCHANGED <<opts, valid, span, taken, today, arrived>>

\* (half a token will do)
Charge_Bug(s) ==
    LET k == req[s].token
    IN /\ req[s].at = "bucket"
       /\ Level(k) > 0
       /\ tokens' = [tokens EXCEPT ![k] = Level(k) - Hz]
       /\ Refill(k)
       /\ taken' = [taken EXCEPT ![k] = @ + 1]
       /\ Go(s, "handler")
       /\ NoMark
       /\ UNCHANGED <<opts, valid, span, today, arrived, answers, admitted>>

\* allow takes a token; only then the gate looks at the path, and it knows
\* /v1/stream alone: 402, or on to the handler.
Charge(s) ==
    LET k == req[s].token
    IN /\ req[s].at = "bucket"
       /\ Level(k) >= Hz
       /\ tokens' = [tokens EXCEPT ![k] = Level(k) - Hz]
       /\ Refill(k)
       /\ taken' = [taken EXCEPT ![k] = @ + 1]
       /\ IF req[s].path = "stream" /\ ~TierOf(k).stream
          THEN End(s, "uncounted")
          ELSE Go(s, "handler") /\ UNCHANGED <<answers, admitted>>
       /\ NoMark
       /\ UNCHANGED <<opts, valid, span, today, arrived>>

\* Answers that leave no mark.
Plain(s) == End(s, "uncounted") /\ NoMark

BadParam(s) == Record(s, "errors4xx") /\ End(s, "badparam")

CallEngine(s) == Go(s, "engine") /\ NoMark /\ UNCHANGED <<answers, admitted>>

\* A stream is counted when it is opened.
OpenStream(s) == Record(s, "streams") /\ Go(s, "engine") /\ UNCHANGED <<answers, admitted>>

At(s, place, path) == req[s].at = place /\ req[s].path = path

\* /health, and /v1/usage (404 if there is no meter).
Serve(s) == (At(s, "handler", "health") \/ At(s, "handler", "usage")) /\ Plain(s) /\ Outside

\* A method other than GET is not recorded.
handleSearch(s) ==
    At(s, "handler", "search") /\ (Plain(s) \/ BadParam(s) \/ CallEngine(s)) /\ Outside

handleFetch(s) ==
    At(s, "handler", "fetch") /\ (Plain(s) \/ BadParam(s) \/ CallEngine(s)) /\ Outside

handleSearchStream(s) ==
    At(s, "handler", "searchstream") /\ (Plain(s) \/ BadParam(s) \/ OpenStream(s)) /\ Outside

\* This one accepts every method.
handleStream(s) ==
    At(s, "handler", "stream") /\ (BadParam(s) \/ OpenStream(s)) /\ Outside

\* 502, or an error frame.
Failed(s, how) == Record(s, "errors5xx") /\ End(s, how)

\* A result is counted before its format is looked at.
Answered(s, field, how) ==
    /\ Record(s, field)
    /\ \/ End(s, how)
       \/ Go(s, "format") /\ UNCHANGED <<answers, admitted>>

\* 400 for a format that does not exist.
BadFormat(s, how) == Record(s, "errors4xx") /\ End(s, how)

SearchReturns(s) ==
    /\ \/ At(s, "engine", "search")
          /\ (Failed(s, "failed") \/ Answered(s, "searches", "searched"))
       \/ At(s, "format", "search") /\ BadFormat(s, "searchbadformat")
    /\ Outside

FetchReturns(s) ==
    /\ \/ At(s, "engine", "fetch")
          /\ (Failed(s, "failed") \/ Answered(s, "fetches", "fetched"))
       \/ At(s, "format", "fetch") /\ BadFormat(s, "fetchbadformat")
    /\ Outside

\* (a failed stream is not counted as an error)
StreamFails_Bug(s) ==
    /\ req[s].at = "engine" /\ IsStream(req[s].path)
    /\ NoMark
    /\ End(s, "streamfailed")
    /\ Outside

StreamFails(s) ==
    /\ req[s].at = "engine" /\ IsStream(req[s].path)
    /\ Failed(s, "streamfailed")
    /\ Outside

\* The stream is over, or its client has left.
StreamEnds(s) ==
    /\ req[s].at = "engine" /\ IsStream(req[s].path)
    /\ NoMark
    /\ End(s, "streamed")
    /\ Outside

\* A key expires, or is revoked.
Expire(k) ==
    /\ k \in valid
    /\ valid' = valid \ {k}
    /\ UNCHANGED <<opts, req, buckets, meters, today, arrived>>

Midnight ==
    /\ today < MaxDay
    /\ today' = today + 1
    /\ UNCHANGED <<opts, req, valid, buckets, meters, arrived>>

Tick ==
    /\ span < MaxSpan
    /\ span' = span + 1
    /\ idle' = [k \in Keys |-> Lesser(idle[k] + 1, Hz)]
    /\ UNCHANGED <<opts, req, valid, tokens, taken, meters, today, arrived>>

Step(s) ==
    \/ Arrive(s) \/ Unauthorized(s) \/ Lookup(s) \/ TooMany(s) \/ Charge(s)
    \/ Serve(s) \/ handleSearch(s) \/ handleFetch(s) \/ handleSearchStream(s) \/ handleStream(s)
    \/ SearchReturns(s) \/ FetchReturns(s) \/ StreamFails(s) \/ StreamEnds(s)

Next == Tick \/ Midnight \/ (\E k \in Keys : Expire(k)) \/ \E s \in Slots : Step(s)

Spec == Init /\ [][Next]_vars

-----------------------------------------------------------------------------
\* The types of the requests, the buckets and the usage records.
TypeOK ==
    /\ req \in [Slots ->
            [at : {"free", "lookup", "bucket", "handler", "engine", "format"}, path : Paths,
             token : Keys \cup {"admin", "none"}]]
    /\ valid \subseteq Keys
    /\ tokens \in [Keys -> Nat] /\ \A k \in Keys : tokens[k] <= Rpm(k) * Hz
    /\ idle \in [Keys -> 0..Hz]
    /\ usage \in [Keys -> [day : -1..today, count : [Fields -> Nat]]]
    /\ admitted \in [Slots -> 0..today]
    /\ today \in Nat /\ span \in Nat /\ taken \in [Keys -> Nat]
    /\ lost \in [Keys -> [Fields -> Nat]] /\ answers \in [Keys -> [Ends -> Nat]]

\* Requests of k that are past the middleware, at a place and for a path.
Under(k, place, paths) ==
    Cardinality({s \in Slots : Bears(s) /\ req[s].token = k
                                /\ req[s].at = place /\ req[s].path \in paths})

\* What the answers given to key k, and those being given, call for.
Due(k, f) ==
    LET n == answers[k]
    IN CASE f = "searches"  -> n["searched"] + n["searchbadformat"]
                                + Under(k, "format", {"search"})
         [] f = "fetches"   -> n["fetched"] + n["fetchbadformat"]
                                + Under(k, "format", {"fetch"})
         [] f = "streams"   -> n["streamed"] + n["streamfailed"]
                                + Under(k, "engine", {"stream", "searchstream"})
         [] f = "errors4xx" -> n["badparam"] + n["searchbadformat"] + n["fetchbadformat"]
         [] f = "errors5xx" -> n["failed"] + n["streamfailed"]

\* What has been recorded for it, on any day.
Metered(k, f) == lost[k][f] + usage[k].count[f]

\* The counters agree with the answers: no mark is lost or made twice when
\* days, requests and records overlap.  A result refused for its format counts
\* as served and as an error.
UsageAccounts ==
    opts.usage /\ opts.auth =>
        \A k \in Keys, f \in Fields : Metered(k, f) = Due(k, f)

\* A request in progress will leave its marks in a record of a day on which it
\* was in progress, although only lookups turn the page.
CountedInLifetime ==
    opts.usage =>
        \A s \in Slots :
            req[s].at \in {"bucket", "handler", "engine", "format"} /\ Bears(s)
                                    /\ req[s].path # "health"
                => usage[req[s].token].day \in admitted[s]..today

Bucket(k) == INSTANCE TokenBucket WITH
    Token <- Hz, rate <- Rpm(k), level <- Level(k), taken <- taken[k]

\* Every key has a token bucket of its own that is refilled at every tick: the
\* requests of other keys, refusals and the lazy refill leave no trace in it.
ImplementsTokenBuckets ==
    /\ \A k \in Keys : Bucket(k)!Init
    /\ [][UNCHANGED buckets \/ \A k \in Keys : [Bucket(k)!Next]_(Bucket(k)!vars)]_vars
=============================================================================
