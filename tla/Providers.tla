------------------------------ MODULE Providers ------------------------------
(***************************************************************************)
(* The search backends under provider/: what each makes of the reply to its *)
(* request.  A reply that is a page is the sequence of its entries in        *)
(* document order; an entry's title link may lead nowhere the provider       *)
(* accepts (an advertisement on DuckDuckGo), and an entry may come without  *)
(* a snippet.  A result refers to the entries that its link and its snippet *)
(* were taken from; snippet 0 stands for none.                              *)
(***************************************************************************)
EXTENDS Integers, SequencesExt

\* link: unwrapDDG, or Startpage's test of the href, accepts the target.
Entry == [link : BOOLEAN, snippet : BOOLEAN]

\* A reply is a 429 or a 403 ("limited"), another status, a transport error or
\* a body that cannot be read and decoded ("failed"), or a page ("ok").
\* What the provider returns is of the same kinds.
Handle(reply, parsed) ==
    [status |-> reply.status,
     list |-> IF reply.status = "ok" THEN parsed ELSE <<>>]

Lesser(m, n) == IF m < n THEN m ELSE n

\* The members of T up to n, in increasing order.
InOrder(T, n) ==
    LET upTo[k \in 0..n] ==
            IF k = 0 THEN <<>>
            ELSE IF k \in T THEN Append(upTo[k - 1], k) ELSE upTo[k - 1]
    IN  upTo[n]

Numbered(found) ==
    [k \in DOMAIN found |->
        [entry |-> found[k].entry, snippet |-> found[k].snippet, position |-> k]]

-----------------------------------------------------------------------------
\* The definitions whose names end in _Bug are plausible mistakes in the
\* definition that follows; no specification uses them.

\* (one entry too many)
Searxng_Bug(max, reply) ==
    Handle(reply, Numbered([k \in 1..Lesser(Len(reply.page), max + 1) |->
        [entry |-> k, snippet |-> IF reply.page[k].snippet THEN k ELSE 0]]))

\* The JSON backends take the first entries as they are.
Searxng(max, reply) ==
    Handle(reply, Numbered([k \in 1..Lesser(Len(reply.page), max) |->
        [entry |-> k, snippet |-> IF reply.page[k].snippet THEN k ELSE 0]]))

\* These two have no snippets.
SearxngImages(max, reply) ==
    Handle(reply, Numbered([k \in 1..Lesser(Len(reply.page), max) |->
        [entry |-> k, snippet |-> 0]]))

Gdelt(max, reply) ==
    LET n == Len(reply.page)
    IN  Handle(reply, Numbered([k \in 1..(IF max > 0 THEN Lesser(n, max) ELSE n) |->
            [entry |-> k, snippet |-> 0]]))

\* All snippets of the page, those of links that are skipped included.
Snippets(page) == InOrder({i \in DOMAIN page : page[i].snippet}, Len(page))

\* The k-th link that is accepted gets the k-th snippet.
PairedByOrder(max, page) ==
    LET links == InOrder({i \in DOMAIN page : page[i].link}, Len(page))
        snips == Snippets(page)
    IN  Numbered([k \in 1..Lesser(Len(links), max) |->
            [entry |-> links[k], snippet |-> IF k <= Len(snips) THEN snips[k] ELSE 0]])

DuckDuckGo(max, reply) == Handle(reply, PairedByOrder(max, reply.page))

\* A snippet goes to the last link taken so far, if that has none.
PairedWithLast(max, page) ==
    LET Link(found, i) ==
            IF page[i].link /\ Len(found) < max
            THEN Append(found, [entry |-> i, snippet |-> 0]) ELSE found
        Snippet(found, i) ==
            IF page[i].snippet /\ found # <<>> /\ Last(found).snippet = 0
            THEN [found EXCEPT ![Len(found)].snippet = i] ELSE found
        upTo[k \in 0..Len(page)] ==
            IF k = 0 THEN <<>> ELSE Snippet(Link(upTo[k - 1], k), k)
    IN  Numbered(upTo[Len(page)])

\* A challenge page has no entry that is accepted: a rate limit.  The other
\* providers return an empty list with success.
Startpage(max, reply) ==
    LET got == Handle(reply, PairedWithLast(max, reply.page))
    IN  IF got.status = "ok" /\ got.list = <<>> THEN [got EXCEPT !.status = "limited"] ELSE got

\* Provider.Search of the provider called p.
ProviderSearch(p, max, reply) ==
    CASE p = "searxng"        -> Searxng(max, reply)
      [] p = "searxng-images" -> SearxngImages(max, reply)
      [] p = "gdelt"          -> Gdelt(max, reply)
      [] p = "duckduckgo"     -> DuckDuckGo(max, reply)
      [] p = "startpage"      -> Startpage(max, reply)

-----------------------------------------------------------------------------
\* Entry i of the page and all before it have a link and a snippet.
CompleteUpTo(page, i) == \A j \in 1..i : page[j].link /\ page[j].snippet

\* What can be said of the snippet that a result carries.  DuckDuckGo's is
\* its own only if nothing before it on the page was incomplete.
SnippetBelongs(p, page, r) ==
    CASE p = "duckduckgo"               -> CompleteUpTo(page, r.entry) => r.snippet = r.entry
      [] p \in {"searxng", "startpage"} -> page[r.entry].snippet => r.snippet = r.entry
      [] OTHER                          -> r.snippet = 0

\* The list keeps the page's order, is numbered from one and not longer than
\* asked for.
Ranked(list, max) ==
    /\ Len(list) <= max
    /\ \A k \in DOMAIN list :
        /\ list[k].position = k
        /\ k > 1 => list[k - 1].entry < list[k].entry
=============================================================================
