---------------------------- MODULE SearchStream ----------------------------
(***************************************************************************)
(* One streamed search, GET /v1/search/stream: the goroutine of             *)
(* Engine.SearchStream (saka.go) runs the search and sends its results, and *)
(* the handler of server/http.go drains them before it reads the outcome.   *)
(* Results are their positions.  The request's context is done once the     *)
(* client is gone or the handler has returned.                              *)
(***************************************************************************)
EXTENDS Integers, Sequences

CONSTANTS ItemCap,    \* capacity of the item channel (8)
          MaxResults  \* bound: results of a search

ASSUME ItemCapAssumption == ItemCap \in Nat \ {0}
ASSUME ResultsAssumption == MaxResults \in Nat

VARIABLES
    producer,  \* "search", "items", "summary", "closing" or "exited"
    total,     \* the number of results
    sent,      \* results sent to the channel
    items, itemsClosed,  \* itemCh
    doneCh, errCh,       \* a value is waiting in doneCh, in errCh
    handler,   \* "drain", "settle" or "returned"
    wire,      \* the results written to the client
    final,     \* the frame after them: "none", "done" or "error"
    gone       \* the client has disconnected

produceVars == <<producer, total, sent>>
channelVars == <<items, itemsClosed, doneCh, errCh>>
serveVars == <<handler, wire, final, gone>>
vars == <<produceVars, channelVars, serveVars>>

CtxDone == gone \/ handler = "returned"

Init ==
    /\ producer = "search" /\ total = 0 /\ sent = 0
    /\ items = <<>> /\ itemsClosed = FALSE /\ doneCh = FALSE /\ errCh = FALSE
    /\ handler = "drain" /\ wire = <<>> /\ final = "none" /\ gone = FALSE

-----------------------------------------------------------------------------
\* Engine.Search fails: no provider, no results, or the context is done.
SearchFails ==
    /\ producer = "search"
    /\ errCh' = TRUE
    /\ producer' = "closing"
    /\ UNCHANGED <<total, sent, items, itemsClosed, doneCh, serveVars>>

SearchSucceeds ==
    /\ producer = "search"
    /\ total' \in 0..MaxResults
    /\ producer' = "items"
    /\ UNCHANGED <<sent, channelVars, serveVars>>

\* The definitions whose names end in _Bug are plausible mistakes in the
\* definition that follows; no specification uses them.

\* (one result too many)
SendItem_Bug ==
    /\ producer = "items"
    /\ sent <= total
    /\ Len(items) < ItemCap
    /\ items' = Append(items, sent)
    /\ sent' = sent + 1
    /\ UNCHANGED <<producer, total, itemsClosed, doneCh, errCh, serveVars>>

SendItem ==
    /\ producer = "items"
    /\ sent < total
    /\ Len(items) < ItemCap
    /\ items' = Append(items, sent)
    /\ sent' = sent + 1
    /\ UNCHANGED <<producer, total, itemsClosed, doneCh, errCh, serveVars>>

ItemsOver ==
    /\ producer = "items"
    /\ sent = total
    /\ producer' = "summary"
    /\ UNCHANGED <<total, sent, channelVars, serveVars>>

\* (only the last send looks at the context)
Abort_Bug ==
    /\ producer = "summary"
    /\ CtxDone
    /\ producer' = "closing"
    /\ UNCHANGED <<total, sent, channelVars, serveVars>>

\* The context branch of both selects: the goroutine returns without a word.
Abort ==
    /\ \/ producer = "items" /\ sent < total
       \/ producer = "summary"
    /\ CtxDone
    /\ producer' = "closing"
    /\ UNCHANGED <<total, sent, channelVars, serveVars>>

SendSummary ==
    /\ producer = "summary"
    /\ doneCh' = TRUE
    /\ producer' = "closing"
    /\ UNCHANGED <<total, sent, items, itemsClosed, errCh, serveVars>>

CloseItems ==
    /\ producer = "closing"
    /\ itemsClosed' = TRUE
    /\ producer' = "exited"
    /\ UNCHANGED <<total, sent, items, doneCh, errCh, serveVars>>

-----------------------------------------------------------------------------
TakeItem ==
    /\ handler = "drain"
    /\ items # <<>>
    /\ wire' = Append(wire, Head(items))
    /\ items' = Tail(items)
    /\ UNCHANGED <<produceVars, itemsClosed, doneCh, errCh, handler, final, gone>>

Drained ==
    /\ handler = "drain"
    /\ items = <<>>
    /\ itemsClosed
    /\ handler' = "settle"
    /\ UNCHANGED <<produceVars, channelVars, wire, final, gone>>

\* (one select for everything: the summary races the results)
TakeDone_Bug ==
    /\ handler \in {"drain", "settle"}
    /\ doneCh
    /\ doneCh' = FALSE
    /\ final' = "done"
    /\ handler' = "returned"
    /\ UNCHANGED <<produceVars, items, itemsClosed, errCh, wire, gone>>

\* Read only after the drain.
TakeDone ==
    /\ handler = "settle"
    /\ doneCh
    /\ doneCh' = FALSE
    /\ final' = "done"
    /\ handler' = "returned"
    /\ UNCHANGED <<produceVars, items, itemsClosed, errCh, wire, gone>>

\* A branch of both selects, like the next one.
TakeError ==
    /\ handler \in {"drain", "settle"}
    /\ errCh
    /\ errCh' = FALSE
    /\ final' = "error"
    /\ handler' = "returned"
    /\ UNCHANGED <<produceVars, items, itemsClosed, doneCh, wire, gone>>

TakeCancelled ==
    /\ handler \in {"drain", "settle"}
    /\ gone
    /\ handler' = "returned"
    /\ UNCHANGED <<produceVars, channelVars, wire, final, gone>>

Disconnect ==
    /\ handler # "returned"
    /\ ~gone
    /\ gone' = TRUE
    /\ UNCHANGED <<produceVars, channelVars, handler, wire, final>>

-----------------------------------------------------------------------------
Produce == SearchFails \/ SearchSucceeds \/ SendItem \/ ItemsOver \/ Abort
             \/ SendSummary \/ CloseItems
Serve == TakeItem \/ Drained \/ TakeDone \/ TakeError \/ TakeCancelled

Next == Produce \/ Serve \/ Disconnect

Spec == Init /\ [][Next]_vars

\* Goroutines that can run do, and the search ends.
Fairness == WF_vars(Produce) /\ WF_vars(Serve)

FairSpec == Spec /\ Fairness

-----------------------------------------------------------------------------
\* The types of the channels, of the positions and of the frames.
TypeOK ==
    /\ producer \in {"search", "items", "summary", "closing", "exited"}
    /\ handler \in {"drain", "settle", "returned"}
    /\ total \in 0..MaxResults /\ sent \in 0..total
    /\ producer = "search" => total = 0
    /\ items \in Seq(Nat) /\ Len(items) <= ItemCap /\ wire \in Seq(Nat)
    /\ itemsClosed \in BOOLEAN /\ doneCh \in BOOLEAN /\ errCh \in BOOLEAN /\ gone \in BOOLEAN
    /\ final \in {"none", "done", "error"}

\* The handler returns, and the goroutine exits, also when the client leaves in
\* the middle of the stream.
BothEnd == <>(handler = "returned" /\ producer = "exited")

\* What has become of the search, and whether the client can know of it.
Stream == INSTANCE EventStream WITH
    MayConceal <- FALSE,
    source <- IF producer = "search" THEN "working"
              ELSE IF errCh \/ final = "error" THEN "failed" ELSE "ready",
    length <- total,
    open <- handler # "returned"

\* The frames of a streamed search are those that EventStream allows: result
\* after result, then one frame that tells how the search ended, then nothing.
ImplementsEventStream == Stream!Spec
=============================================================================
