----------------------------- MODULE FetchStream -----------------------------
(***************************************************************************)
(* One streamed fetch, GET /v1/stream: the extractor goroutine of           *)
(* fetch/stream.go feeds the inner channel, the forwarder goroutine of      *)
(* Fetcher.FetchStream copies it to the outer channel and caches the page,  *)
(* and the handler of server/http.go selects on the outer channel, the      *)
(* error channel and the request's context.  Chunks are their sequence      *)
(* numbers; channels are bounded sequences with a flag for "closed".        *)
(***************************************************************************)
EXTENDS Integers, Sequences

CONSTANTS InnerCap,   \* capacity of ExtractStream's channel (16)
          OuterCap,   \* capacity of FetchStream's channel (16)
          Pages,      \* documents that may be behind the URL
          Length      \* how many chunks the walk makes of each

ASSUME CapacityAssumption == InnerCap \in Nat \ {0} /\ OuterCap \in Nat \ {0}
ASSUME LengthType         == Length \in [Pages -> Nat]

VARIABLES
    extractor,  \* "off", "parse", "walk", "closing" or "exited"
    page,       \* the document behind the URL
    total,      \* chunks of the page, known to the walk
    emitted,    \* ExtractStream's seq
    inner, innerClosed, innerErr, innerDone,  \* chunks, errCh and doneCh
    forwarder,  \* "fetch", "range", "send", "settle", "closing" or "exited"
    hand,       \* the chunk in the range loop's hand
    outer, outerClosed, outerErr,             \* ch and errc2
    cached,     \* the page is in the caches
    handler,    \* "select" or "returned"
    wire,       \* the chunks written to the client
    final,      \* the frame after them: "none", "done" or "error"
    gone        \* the client has disconnected

innerVars == <<inner, innerClosed, innerErr, innerDone>>
outerVars == <<outer, outerClosed, outerErr>>
extractVars == <<extractor, page, total, emitted>>
forwardVars == <<forwarder, hand, cached>>
serveVars == <<handler, wire, final, gone>>
vars == <<extractVars, innerVars, forwardVars, outerVars, serveVars>>

Init ==
    /\ extractor = "off" /\ page \in Pages /\ total = 0 /\ emitted = 0
    /\ inner = <<>> /\ innerClosed = FALSE /\ innerErr = FALSE /\ innerDone = FALSE
    /\ forwarder = "fetch" /\ hand = 0 /\ cached = FALSE
    /\ outer = <<>> /\ outerClosed = FALSE /\ outerErr = FALSE
    /\ handler = "select" /\ wire = <<>> /\ final = "none" /\ gone = FALSE

-----------------------------------------------------------------------------
(* The extractor goroutine.                                                 *)

\* html.Parse fails: a read error, or the context is done during the read.
ParseFails ==
    /\ extractor = "parse"
    /\ innerErr' = TRUE
    /\ extractor' = "closing"
    /\ UNCHANGED <<page, total, emitted, inner, innerClosed, innerDone, forwardVars, outerVars, serveVars>>

ParseSucceeds ==
    /\ extractor = "parse"
    /\ extractor' = "walk"
    /\ total' = Length[page]
    /\ UNCHANGED <<page, emitted, innerVars, forwardVars, outerVars, serveVars>>

\* The definitions whose names end in _Bug are plausible mistakes in the
\* definition that follows; no specification uses them.

\* (one chunk too many)
Flush_Bug ==
    /\ extractor = "walk"
    /\ emitted <= total
    /\ Len(inner) < InnerCap
    /\ inner' = Append(inner, emitted)
    /\ emitted' = emitted + 1
    /\ UNCHANGED <<extractor, page, total, innerClosed, innerErr, innerDone, forwardVars, outerVars, serveVars>>

\* flush: blocks while the channel is full, whatever the context says.
Flush ==
    /\ extractor = "walk"
    /\ emitted < total
    /\ Len(inner) < InnerCap
    /\ inner' = Append(inner, emitted)
    /\ emitted' = emitted + 1
    /\ UNCHANGED <<extractor, page, total, innerClosed, innerErr, innerDone, forwardVars, outerVars, serveVars>>

\* The walk is over: the page goes to doneCh ...
Deliver ==
    /\ extractor = "walk"
    /\ emitted = total
    /\ innerDone' = TRUE
    /\ extractor' = "closing"
    /\ UNCHANGED <<page, total, emitted, inner, innerClosed, innerErr, forwardVars, outerVars, serveVars>>

\* (no deferred close)
CloseInner_Bug ==
    /\ extractor = "closing"
    /\ extractor' = "exited"
    /\ UNCHANGED <<page, total, emitted, innerVars, forwardVars, outerVars, serveVars>>

\* ... and then the deferred close runs.
CloseInner ==
    /\ extractor = "closing"
    /\ innerClosed' = TRUE
    /\ extractor' = "exited"
    /\ UNCHANGED <<page, total, emitted, inner, innerErr, innerDone, forwardVars, outerVars, serveVars>>

-----------------------------------------------------------------------------
(* The forwarder goroutine.                                                 *)

\* The limiter, robots.txt, the request or the status ends the fetch.
FetchFails ==
    /\ forwarder = "fetch"
    /\ outerErr' = TRUE
    /\ forwarder' = "closing"
    /\ UNCHANGED <<extractVars, innerVars, hand, cached, outer, outerClosed, serveVars>>

FetchSucceeds ==
    /\ forwarder = "fetch"
    /\ extractor' = "parse"
    /\ forwarder' = "range"
    /\ UNCHANGED <<page, total, emitted, innerVars, hand, cached, outerVars, serveVars>>

\* for c := range chunks { ch <- c }, in two steps; neither looks at the context.
Receive ==
    /\ forwarder = "range"
    /\ inner # <<>>
    /\ hand' = Head(inner)
    /\ inner' = Tail(inner)
    /\ forwarder' = "send"
    /\ UNCHANGED <<extractVars, innerClosed, innerErr, innerDone, cached, outerVars, serveVars>>

\* (a default branch drops the chunk when the client is slow)
Send_Bug ==
    /\ forwarder = "send"
    /\ outer' = IF Len(outer) < OuterCap THEN Append(outer, hand) ELSE outer
    /\ hand' = 0
    /\ forwarder' = "range"
    /\ UNCHANGED <<extractVars, innerVars, cached, outerClosed, outerErr, serveVars>>

Send ==
    /\ forwarder = "send"
    /\ Len(outer) < OuterCap
    /\ outer' = Append(outer, hand)
    /\ hand' = 0
    /\ forwarder' = "range"
    /\ UNCHANGED <<extractVars, innerVars, cached, outerClosed, outerErr, serveVars>>

\* (ends when the channel is empty, not when it is closed)
RangeEnds_Bug ==
    /\ forwarder = "range"
    /\ inner = <<>>
    /\ forwarder' = "settle"
    /\ UNCHANGED <<extractVars, innerVars, hand, cached, outerVars, serveVars>>

RangeEnds ==
    /\ forwarder = "range"
    /\ inner = <<>>
    /\ innerClosed
    /\ forwarder' = "settle"
    /\ UNCHANGED <<extractVars, innerVars, hand, cached, outerVars, serveVars>>

\* select on doneCh and errCh: the page is cached and passed on in a buffered
\* channel nobody reads, or the error is.
SettlePage ==
    /\ forwarder = "settle"
    /\ innerDone
    /\ cached' = TRUE
    /\ forwarder' = "closing"
    /\ UNCHANGED <<extractVars, innerVars, hand, outerVars, serveVars>>

SettleError ==
    /\ forwarder = "settle"
    /\ innerErr
    /\ outerErr' = TRUE
    /\ forwarder' = "closing"
    /\ UNCHANGED <<extractVars, innerVars, hand, cached, outer, outerClosed, serveVars>>

CloseOuter ==
    /\ forwarder = "closing"
    /\ outerClosed' = TRUE
    /\ forwarder' = "exited"
    /\ UNCHANGED <<extractVars, innerVars, hand, cached, outer, outerErr, serveVars>>

-----------------------------------------------------------------------------
(* The handler: any branch of its select that is ready may be taken.        *)

TakeChunk ==
    /\ handler = "select"
    /\ outer # <<>>
    /\ wire' = Append(wire, Head(outer))
    /\ outer' = Tail(outer)
    /\ UNCHANGED <<extractVars, innerVars, forwardVars, outerClosed, outerErr, handler, final, gone>>

TakeClosed ==
    /\ handler = "select"
    /\ outer = <<>>
    /\ outerClosed
    /\ final' = "done"
    /\ handler' = "returned"
    /\ UNCHANGED <<extractVars, innerVars, forwardVars, outerVars, wire, gone>>

\* (no return after the error frame)
TakeError_Bug ==
    /\ handler = "select"
    /\ outerErr
    /\ final' = "error"
    /\ outerErr' = FALSE
    /\ UNCHANGED <<extractVars, innerVars, forwardVars, outer, outerClosed, handler, wire, gone>>

TakeError ==
    /\ handler = "select"
    /\ outerErr
    /\ final' = "error"
    /\ outerErr' = FALSE
    /\ handler' = "returned"
    /\ UNCHANGED <<extractVars, innerVars, forwardVars, outer, outerClosed, wire, gone>>

TakeCancelled ==
    /\ handler = "select"
    /\ gone
    /\ handler' = "returned"
    /\ UNCHANGED <<extractVars, innerVars, forwardVars, outerVars, wire, final, gone>>

\* The client goes away.
Disconnect ==
    /\ handler = "select"
    /\ ~gone
    /\ gone' = TRUE
    /\ UNCHANGED <<extractVars, innerVars, forwardVars, outerVars, handler, wire, final>>

-----------------------------------------------------------------------------
Extract == ParseFails \/ ParseSucceeds \/ Flush \/ Deliver \/ CloseInner
Forward == FetchFails \/ FetchSucceeds \/ Receive \/ Send \/ RangeEnds
             \/ SettlePage \/ SettleError \/ CloseOuter
Serve == TakeChunk \/ TakeClosed \/ TakeError \/ TakeCancelled

Next == Extract \/ Forward \/ Serve \/ Disconnect

Spec == Init /\ [][Next]_vars

\* Goroutines that can run do, and a fetch ends (the client has a Timeout).
\* The client is not obliged to stay or to go.
Fairness == WF_vars(Extract) /\ WF_vars(Forward) /\ WF_vars(Serve)

FairSpec == Spec /\ Fairness

-----------------------------------------------------------------------------
\* The types of the channels, of the goroutines' positions and of the frames.
TypeOK ==
    /\ extractor \in {"off", "parse", "walk", "closing", "exited"}
    /\ forwarder \in {"fetch", "range", "send", "settle", "closing", "exited"}
    /\ handler \in {"select", "returned"}
    /\ page \in Pages /\ total \in {0, Length[page]} /\ emitted \in 0..total
    /\ (forwarder = "fetch" => extractor = "off") /\ (extractor \in {"off", "parse"} => total = 0)
    /\ inner \in Seq(Nat) /\ Len(inner) <= InnerCap
    /\ outer \in Seq(Nat) /\ Len(outer) <= OuterCap
    /\ wire \in Seq(Nat) /\ hand \in Nat
    /\ innerClosed \in BOOLEAN /\ innerErr \in BOOLEAN /\ innerDone \in BOOLEAN
    /\ outerClosed \in BOOLEAN /\ outerErr \in BOOLEAN /\ cached \in BOOLEAN /\ gone \in BOOLEAN
    /\ final \in {"none", "done", "error"}

\* What the extractor has emitted, from the client back to the extractor.
Pipe == wire \o outer \o (IF forwarder = "send" THEN <<hand>> ELSE <<>>) \o inner

\* Between the three goroutines no chunk is lost, duplicated or reordered: the
\* client has been sent 0, 1, 2, ... and the rest is on its way in order.
PipeOrdered == Pipe = [i \in 1..emitted |-> i - 1]

\* The frame that ends the stream can be relied on this far: a page that was
\* extracted is announced as done only when it has been sent in full and is in
\* the caches, an error never follows a chunk, and a client that stays is not
\* left without one.
FinalSound ==
    /\ handler = "returned" /\ ~gone => final # "none"
    /\ final = "done" /\ innerDone => Len(wire) = total /\ cached
    /\ final = "error" => wire = <<>> /\ ~cached

\* A fetch that failed is not announced as done.
DoneMeansFetched == final = "done" => cached

Exited == forwarder = "exited" /\ extractor \in {"off", "exited"}

\* Whatever the fetch and the client do, the handler returns, and both goroutines
\* exit, unless the handler has left more of the page behind than the outer
\* channel holds: then the forwarder, and with it the extractor, may stay
\* blocked, for nothing in their loops looks at the context.
AllEnd ==
    <>(handler = "returned" /\ (Exited \/ total > Len(wire) + OuterCap))

\* "No goroutine leaks by construction": both always exit.
NoGoroutineLeak == <>Exited

\* The source is ready once the walk can start, whatever is left to be sent.  A
\* failure can be announced as "done": see DoneMeansFetched.
Stream == INSTANCE EventStream WITH
    MayConceal <- TRUE,
    source <- IF innerErr \/ (extractor = "off" /\ forwarder # "fetch") THEN "failed"
              ELSE IF extractor \in {"off", "parse"} THEN "working" ELSE "ready",
    length <- total,
    open <- handler = "select"

\* The frames of a streamed fetch are those that EventStream allows: chunk after
\* chunk, then at most one frame that closes the stream, then nothing.
ImplementsEventStream == Stream!Spec
=============================================================================
