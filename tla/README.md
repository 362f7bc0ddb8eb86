# Saka in TLA+

Saka (`src/`, Go) is a self-hosted search-and-fetch service: it queries scraped
search providers with fallback, fetches pages and extracts their text, and
serves both over a CLI, HTTP with server-sent events, and MCP on stdio. This
directory holds TLA+ models of it, from the limiter under every request to the
process that reads the configuration, the TLC configurations that check them,
and TLAPS proofs of the properties that matter most.

Contents: [components](#components) · [hard behaviours](#what-is-hard) ·
[modules](#modules) · [runs](#runs) · [bounds](#bounds) ·
[fairness](#fairness) · [proofs](#proofs) ·
[disagreements](#where-the-code-and-its-documents-disagree) ·
[not modelled](#what-is-not-modelled) · [plan](#plan).

To repeat a run or a proof, in this directory:

    tlc -config Chain.cfg MCChain.tla
    tlapm ChainProofs.tla

## Components

| component (source) | state it keeps | operations | talks to | correct when |
|---|---|---|---|---|
| rate limiter (`ratelimit/`) | `tokens`, `lastFill` under a mutex; `max` = `rate` = configured rps | `Wait(ctx)` | `Chain`, `Fetcher` call it | no window admits more than burst + earnings; a caller left alone is served; a cancelled one leaves |
| chain (`chain/`) | per entry: limiter, retries, `fails`, `openUntil` under one mutex | `Search`, `isOpen`, `recordSuccess`, `recordFailure` | limiters, providers; called by the engine | strict fallback order; `ErrNoResults` only with a reason; an open breaker closes; 429 ends the attempts |
| streamed fetch (`fetch/fetch.go`, `fetch/stream.go`) | two bounded chunk channels, error and done channels, one page in progress | `FetchStream`, `ExtractStream` | SSE handler, caches | chunks complete and in order; final frame true; goroutines end |
| streamed search (`saka.go`, `server/http.go`) | item, done and error channels | `SearchStream`, `handleSearchStream` | chain | results in order before the summary; both sides end |
| disk cache (`fetch/diskcache.go`) | `<key>.json` and `<key>.json.tmp`, their times | `Get`, `Put`, `GC` | the file system | a hit is a page that was put, not stale, not expired; nothing good is removed without cause |
| fetcher (`fetch/fetch.go`) | memory cache under a mutex, limiter | `Fetch`, `FetchStream` | disk cache, robots, limiter, web | what is served was free to be stored within both lifetimes; newer pages are not lost behind older ones |
| robots (`fetch/robots.go`) | rules per host with an expiry | `Allowed`, `fetchRules` | web | the file is read as it is meant; its rules are obeyed; a failed request does not decide for ever |
| gateway (`server/auth.go`, `usage.go`, `keys.go`, `http.go`) | bucket per key, counters per key and day, revoked keys | `AuthMiddleware`, `allow`, `Record`, the handlers | engine | the tier's rate, per key; counters agree with the answers |
| engine (`saka.go`, `types/registry.go`) | configuration, one chain per vertical | `LoadConfig`, `Validate`, `New`, `Search`, `Fetch` | all of the above | the engine is the one the file describes |
| providers (`provider/`) | none | `Search` | web; called by the chain | results ranked as on the page, with their own snippets, no more than asked for |
| MCP (`server/mcp.go`), tools (`tools/`) | none between requests | `Serve`, `dispatch`, `ExecuteTool` | engine | a line is answered before the next is read, and truthfully |
| CLI (`cli/saka`) | none | `search`, `fetch`, `serve`, `keys` | engine, gateway, MCP | a command ends |
| extraction (`fetch/extract.go`, `fetch/stream.go`) | none | `Extract`, the walk of `ExtractStream` | called by the fetcher | the container that scores best; what is streamed is what is cached |
| HTML helpers, types, deployment | none, or data only | pure functions | | |

How a request travels: a handler behind `AuthMiddleware` calls the engine; the
engine picks the vertical's `Chain`; `Chain.Search` goes down its entries, and
at each entry waits for the entry's limiter, calls the provider, backs off and
tries again, and records the result in the entry's breaker. A fetch looks in
the memory cache, in the disk cache, waits for the fetch limiter, asks
`robots.txt`, requests the page, extracts it and stores it in both caches. The
streamed forms put goroutines and channels between that work and the handler,
and the streamed fetch does not look into the caches before.

## What is hard

* **Shared state touched in short critical sections with waits in between**: the
  limiter's loop, and a search that reads the breaker once and then waits for a
  limiter, a provider and a back-off before it writes it again.
* **Time**: lazy refill, naps computed for a fraction of a token, cooldowns
  extended by late failures, cache and rule expiries.
* **Cancellation** that is looked at in some places only: `Wait` looks at its
  context only while it naps; the back-off returns at once; the chunk channel's
  sends do not look at it at all.
* **Channels**: a closed channel and a buffered error that are ready together;
  a bounded buffer whose reader has left.
* **Files**: one temporary name for all writers of a URL, stat-then-remove by
  name, crashes between write and rename.
* **Two of everything**: two cache tiers with two lifetimes, rules fetched by
  several callers at once, a bucket that is charged before the gate looks, days
  that end between the lookup of a key and the recording of its request.
* **Data that is merged or paired by position**: a configuration decoded over
  the default one, snippets matched to links, lines of a `robots.txt` matched to
  the group they stand in.

`PROJECT.json` lists the hazards line by line with the properties that cover
them.

## Modules

Abstract specifications are short and say what a package promises; the
detailed ones translate the code. A definition whose name ends in `_Bug` is a
plausible mistake in the definition after it; no specification uses it. It is
there to show that a property can fail.

| module | what it is |
|---|---|
| `TokenBucket` | abstract: a bucket refilled at every tick, with a window of observation |
| `RateLimiter` | `Limiter.Wait` by concurrent callers; refines `TokenBucket` |
| `RateLimiterProofs` | proofs about it |
| `Fallback` | abstract: a walk down the providers |
| `Chain` | concurrent `Chain.Search`; refines `Fallback` |
| `ChainProofs` | proofs about it |
| `EventStream` | abstract: the frames a client of either stream may be sent |
| `FetchStream` | extractor, forwarder and handler of one streamed fetch; refines `EventStream` |
| `Readability` | container, text and chunks of a document, as operators |
| `StreamedPage` | a streamed fetch of documents; extends `FetchStream` and `Readability` |
| `FetchStreamProofs` | proofs about `FetchStream`, `Readability` and `StreamedPage` |
| `SearchStream` | goroutine and handler of one streamed search; refines `EventStream` |
| `SearchStreamProofs` | proofs about it |
| `DiskCache` | `Put`, `Get`, `GC` at the grain of system calls |
| `DiskCacheProofs` | proofs about it |
| `Robots` | the parser of `robots.txt`, line by line, and its reference |
| `Fetcher` | `Fetch` and `FetchStream` calls over both cache tiers and the rules; extends `Robots` |
| `FetcherProofs` | proofs about it, and about the parser |
| `Gateway` | requests through middleware, handlers and meters; refines `TokenBucket`, once per key |
| `GatewayProofs` | proofs about it |
| `Providers` | what each backend makes of a reply |
| `Engine` | from the configuration file to the chains; extends `Providers` |
| `Saka` | one process: start, command or MCP session, calls, end; extends `Engine` |
| `SakaProofs` | proofs about it, and about the providers |
| `MCRateLimiter`, `MCChain`, `MCFetchStream`, `MCDiskCache`, `MCFetcher`, `MCGateway`, `MCSaka` | constants for TLC |

**RateLimiter.** `tokens`, `rate` are the fields; `idle` is the time since
`lastFill`, stopped at one second because by then the bucket is full. Amounts
are integers, `Unit` per tick for one request per second and `Hz` ticks per
second, so one token is `Unit * Hz` and the capacity, one second of refill, is
below one token exactly when the rate is below one per second. The locked part
of a pass is one action: `Grant` or `Sleep`; the `select` is `Wake` (timer) or
`Abort` (context). `span` and `taken` only observe: `Mark` opens a new window at
any moment.

**Chain.** `fails` and `openFor` are the entry's fields (`openFor` counts down
to `openUntil`), `at`, `attempt` and `ctx` a search's locals. Between two
actions of a search lies exactly one of: a critical section, the limiter, the
provider's answer, the back-off. The limiter is reduced to what `RateLimiter`
shows of it: it may admit a search at any moment, a context that is done gets
the search out, and a limiter of the set `Starved` never admits (that is
`SubUnitNeverAdmits`). `leaked`, `refused` and `blame` are histories.

**FetchStream / SearchStream.** Channels are bounded sequences with a flag for
"closed"; a chunk is its sequence number. The client may leave at any step. A
handler's `select` may take any branch that is ready, as Go's does. What is
behind the URL is one of `Pages`; `FetchStream` knows only into how many chunks
the walk cuts it (`Length`), and `MCFetchStream` takes that from `Readability`.

**EventStream.** A source that is at work, ready or failed, and the frames that
may follow. For a search it is ready once `Engine.Search` has returned; for a
fetch, once the document has been parsed, while its chunks are still under way.
`MayConceal` says whether a failure may also be announced as "done": `TRUE` for
the fetch only, because of `DoneMeansFetched`
([below](#where-the-code-and-its-documents-disagree)).

**Readability, StreamedPage.** A document is a sequence of nodes in document
order, each with its tag, its parent and, if it is text, its length in units of
50 bytes, with and without the white space around it. `FindBestContainer` scores
the containers by text length and link density and takes the first of the best;
`PageText` is what `Extract` makes the page of, `Chunks` what the walk of
`ExtractStream` sends. Two walks of one tree, and `StreamIsPage` compares them.

**DiskCache.** One URL, since the files of two URLs have different names. An
inode has a content and a modification time; names and descriptors refer to
inodes. `OpenTmp` and `Write` are the two halves of `os.WriteFile`, `Stat`,
`OpenEntry`, `ReadHit`/`ReadCorrupt` and `Evict` the steps of `Get`. A page is
the number of its `Put`. A page written over another one that has not been
truncated may leave the tail of the longer one behind: JSON followed by the end
of another document, which `json.Unmarshal` rejects, so the content is then
`Junk`. Assumed of the file system: a read of a whole file is atomic, a rename
within a directory fails only if its source is missing, and a crash is one of
the process, not of the machine (nothing is synced).

**Robots.** A line is reduced to what `fetchRules` asks of it: it names an
agent, denies the URLs under a prefix, or is skipped. `ParseLine` is one pass of
the loop. The reference does not iterate: it says which agent lines form the
group of a `Disallow` line, and which of them count.

**Fetcher.** `l1` is `Fetcher.cache`, `l2` the disk cache reduced to what
`DiskCache` shows of it (an entry has the time of its `Put`; a `Put` may leave
the older file), `rules` the host's entry of `robotsCache.deny`. `call[w].at`
says between which two critical sections, waits or requests a call is. `Admit`
is `Wait` together with the look into the rules; `RobotsRead`, `RobotsCut` and
`RobotsFails` are the outcomes of the request for the file, and each stores what
it got. `Cancel` is a context that ends while its call waits: a request for
`robots.txt` that dies with it still decides for the host. A page that
has arrived is at "store" at once in a `Fetch`, but in a `FetchStream` at "stream",
until its client has taken the chunks (`Streamed`): that takes any time, or for ever
if the client has left. `Restart` keeps the files only. Pages are numbered as the
web answers; `born`, `delay` (how long a page was at "stream"), `floor`, `newest`,
`shaky` and `mishap` only observe.

**Gateway.** `req[s]` is a connection's request: its path, its token and the
place it has come to: `Lookup` (the key source with its `touch`), `Charge` or
`TooMany` (`allow` under its mutex, then the gate), the handler's checks, the
engine, and the check of `format`, which comes after the result has been
counted. `tokens` and `idle` are a key's bucket as in `RateLimiter`; `usage` is
a key's record. A handler's `Record` is part of the action whose outcome it
counts. `lost`, `answers`, `admitted`, `span` and `taken` only observe.

**Providers, Engine.** Pure operators. A page is the sequence of its entries in
document order; a result refers to the entries its link and its snippet were
taken from, so a mix-up is visible. A file is a record of the keys that it has:
`Merge` is what `json.Unmarshal` does to a slice that is not empty. URLs are
"http-default", "http-own", another scheme, or none; rates count tenths.

**Saka.** `Load`, `Build` and their failures are `loadEngine`; `RunSearch` and
`DoFetch` the two commands; `ParseError`, `Dispatch`, `WebSearch`, `FetchPage`,
`ToolError` and `Close` are what `Serve` does with a line. A search then walks
its chain (`Ask`, `PassOver`, `Exhausted`) at the grain of `Fallback`: attempts
and cooldowns are in `Chain`, and here a provider that has failed once may be
asked or passed over. Whether a limiter ever grants is `Grants`, which is what
`RateLimiter` shows of it.

## Runs

| run | what it shows |
|---|---|
| `rate_limiter` | two callers, rates 0 to 1.5 per second: `WindowBound`, `SubUnitNeverAdmits`, `ServedWhenAlone`, `CancelledReturns`, and the refinement of `TokenBucket` |
| `rate_limiter_slow` | counterexample: at half a request per second a lone `Wait` never returns |
| `chain` | two searches, two entries (one retried, one starved), thresholds 1 and 2: `NoResultsAccounted`, `LeakBounded`, `NeverHammered`, `SearchReturns`, `BreakerCloses` although late failures open it anew, refinement of `Fallback` |
| `chain_no_results` | counterexample: `ErrNoResults` for a live caller although a provider never failed |
| `fetch_stream` | 375 documents: `PipeOrdered`, `FinalSound`, `StreamIsPage`, `ImplementsEventStream`, `AllEnd` |
| `fetch_stream_done` | counterexample: a failed fetch announced as done |
| `fetch_stream_leak` | counterexample: both goroutines blocked for ever |
| `search_stream` | `ImplementsEventStream`, `BothEnd` |
| `disk_cache` | three workers: `HitNotStale`, `HitFresh`, `EvictJustified`, `PutLands` |
| `fetcher` | two workers, one URL, with and without a disk cache, clients that hold pages back, a restart: `AgeBounded`, `OldOnlyByRace`; a host with rules: `DecisionsExplained`; `ParserReference` on every file of up to four lines |
| `gateway` | two connections, two keys of different tiers: `UsageAccounts`, `CountedInLifetime`, and a token bucket per key |
| `saka` | 1562 configuration files, three commands: `ChainsExplained`, `AnswersSound`, `Responsive` |

Some of the properties in words:

* `LeakBounded`: an open breaker does not stop searches that passed it while it
  was closed. What can be said is a bound: until it closes, each search makes
  each of its attempts there at most once, however often it is opened anew.
* `BreakerCloses`: an open breaker closes in the end. When it opens, `fails`
  starts at nothing again; it takes as many late failures as the threshold, of
  searches that had passed it before, to start the cooldown anew. With two
  searches only one can be late, hence threshold 1 among those of the run: there
  a breaker whose cooldown has begun is opened anew.
* `NoResultsAccounted`: behind `ErrNoResults` every provider has, at some time,
  failed a call *or had a caller give up waiting for its limiter*. The second
  half is why `NoResultsMeansAllFailed` is refuted.
* `FinalSound`: an extracted page is announced as done only when it was sent in
  full and cached; an error never follows a chunk; a client that stays gets a
  final frame. It does not say that "done" means fetched: that is refuted.
* `StreamIsPage`: the chunks come from one walk and the cached page from another,
  over another way. A client has at any time been sent a beginning of the page's
  text, and all of it when a cached page is announced as done; every chunk but
  the last has the size it should, and no container outscores the one chosen.
* `AllEnd`: the handler returns, and both goroutines exit unless it left more of
  the page behind than the outer channel holds.
* `EvictJustified`: `Get` and `GC` can remove a good entry that was renamed into
  place after they looked, but never one that had been stored by then and had
  not expired. `HitFresh` is the same for what a hit returns, `HitNotStale` says
  that a page superseded before the entry was opened is not returned.
* `AgeBounded`: a page that is served was free to go into the caches less than
  both lifetimes ago. It can be older than either, because an L2 hit starts a new
  life in L1. Counted from the web's answer its age has no bound: `FetchStream`
  stores a page when its client has taken the last chunk, no deadline and no
  context ends that wait, and both lifetimes start after it. The property says
  that this wait is all that comes on top.
* `OldOnlyByRace`: a caller who is served an older page than one that somebody
  had been served before owes it to a fault or a race: the newer page did not
  get into the disk cache, or an older one was on its way into a cache when it
  arrived.
* `DecisionsExplained`: a page is requested against the host's rules, or refused
  although they allow it, only within an hour of a `robots.txt` request that
  failed or was cut short, be it another caller's.
* `ParserReference`: the parser denies what the *last* agent line of each group
  asks for, hence never more than the file asks for, and exactly that when no
  group names two agents.
* `UsageAccounts`: over all days, each counter of a key is the number of answers
  of the kinds that call for it, however days and requests overlap.
  `CountedInLifetime`: a mark goes to a day on which the request was in
  progress. (Not always the day it ends: only a lookup opens a new record.)
* `ImplementsEventStream`, of both streams: step by step, only the next piece of
  a source that is ready is written, only one frame closes the stream, and only
  when it is due, and nothing is written after it. An invariant looks at
  states: a handler that did not return after its error frame would pass until
  it wrote another. For a streamed search this is, besides the types, all that the
  run checks of its safety; what it implies in the channels, `PipeOrdered` and
  `FinalTruthful`, is stated and proved in `SearchStreamProofs`.
* `ImplementsTokenBuckets`: other keys' requests, refusals and the lazy refill
  leave no trace in a key's bucket.
* `ChainsExplained`: what is built is what the file says. The name, the rate and
  the retries that an entry does not give are those of the default entry at its
  place, and so is the URL at the head of the file: the exception listed
  [below](#where-the-code-and-its-documents-disagree).
* `AnswersSound`: results come from a provider of the vertical asked for, in the
  page's order, with their own snippets (for DuckDuckGo only as far as nothing
  before them on the page was incomplete), and never an empty list of
  Startpage's, whose challenge pages are a 200 without results; "no results"
  only after every provider of the vertical has failed a call.
* `Responsive`: commands end and the MCP server comes back to its next line,
  unless the call has come to a limiter of less than one request per second.
  Nothing times such a call out, since no context is ever done; with the default
  configuration that is where every search ends that Startpage would have to
  answer.

## Bounds

* `RateLimiter`: two callers suffice for the interference the code allows (all
  of it goes through `tokens` and `lastFill`); four rates lie on both sides of
  one per second and include the replaced one; `MaxSpan = 3` ticks is longer
  than the second in which a bucket fills. The proofs need none of these.
* `Chain`: `Retries = <<1, 0>>`, thresholds 1 and 2 instead of 3 and a cooldown of
  2 ticks (1 in the counterexample) instead of 30 s. At threshold 2 a search can
  open the breaker by itself or together with the other one, successes reset the
  count, and the breaker can close under a search that is on its way; at
  threshold 1 a search on its way opens an open breaker anew. The threshold is a
  constant of the code; in the model it is a variable that only `Init` sets, so
  that one run covers both.
* `FetchStream`: capacities 1 and 2 instead of 16 and 16, and 375 documents: two
  containers beside or within one another or in a footer, each with up to two
  children, further a document without a container, an empty one, and an article
  of 7 chunks, which exceeds both channels and the two hands by two. Scores are
  compared as exact fractions, not as `float64`s.
  `SearchStream`: capacity 2, up to 4 results.
* `DiskCache`: three workers, because the longest story (a stalled writer whose
  file another Put has moved, a second stalled writer, and a reader) takes
  three; `MaxPuts = 3` for the same; `TTL = 0` ticks, so that a tick is a
  lifetime: an entry is fresh or expired, and only that is tested by the code.
  Workers are interchangeable, and all properties of the run are safety, so
  symmetry is used. Two workers with `TTL = 1` give the same verdicts.
* `Fetcher`: two workers are the two sides of every race; URLs of a host share
  only the limiter and the rules, hence one URL. `TTL = 1`, `DiskTTL = 2`,
  `Hour = 1` and `MaxNow = 3` let a page outlive each lifetime and both. How many
  pages arrive and how often the process restarts is bounded in the
  configuration (`pages`, `restarts`), because a configuration that tells nothing
  of a case need not pay for it: three pages (an older, a newer and one that is
  overtaken) with a disk cache and no restart, two pages with a restart and with
  or without a disk cache, and under rules one page and one restart without a
  disk cache, since neither the age of a page nor the tier it lies in matters to
  the rules. `MaxNow = 4` on the second kind of configuration gives the same
  verdicts, and so does `TTL = 0` with `DiskTTL = 1` on all of them; `Validate`
  accepts a lifetime of 0. Time passes while calls wait for the limiter, for the
  network or for the client of a stream: a tick is minutes, the steps that wait
  for nobody microseconds.
* `Gateway`: a key of an unknown tier (one request per minute) and a paid one
  (two), two ticks a minute so that buckets hold fractions, two requests, one
  midnight; keys and meter, keys alone, and an open server. Three requests of
  one key give the same verdicts.
* `Saka`: every file of up to four providers of six forms, one more than the
  default list has, and seven special files; pages of up to two entries with
  limits 0 (the default) and 1.

## Fairness

* `RateLimiter`: time passes, the mutex is granted, a `select` with a ready
  branch returns (weak fairness), and since Go chooses at random among ready
  branches a context that is done is not overlooked for ever (strong fairness
  of `Abort`). Nobody is obliged to call or to cancel. `ServedWhenAlone` is
  stated for a caller who is alone from some time on, because the limiter
  queues nobody.
* `Chain`: time passes; a search that can move does, because provider clients
  have a `Timeout` of 15 s, timers fire and the mutex is granted.
  `SearchReturns` is stated for a search the others leave alone from some time
  on, since the limiter may prefer others, and excepts a live caller parked at
  a starved limiter. `BreakerCloses` holds although searches that are on
  their way record failures late.
* Streams: runnable goroutines run, and a fetch or a search ends. The client is
  free to stay or to leave. One request is modelled, which ends, hence
  `CHECK_DEADLOCK FALSE` in those runs.
* `Saka`: a command goes on by itself; a call does, because providers and pages
  answer or run into the 15 s of their client's `Timeout`. Lines on stdin need
  not come, and a starved limiter is not helped: `Ask` and `Fetched` are not
  enabled there.
* `DiskCache`, `Fetcher` and `Gateway` have safety properties only. The last two
  and `Saka` stop at their bounds or at the end of the process, hence their
  `CHECK_DEADLOCK FALSE`.

## Proofs

The eight proof modules prove their theorems for every value of the constants
that satisfies the named assumptions (rates are integers; the scale, thresholds
and capacities are positive; retries, lengths, lifetimes and bounds are
naturals; workers of the disk cache and connections are finitely many, but any
number; no key is called "admin" or "none", which stand for other tokens; files
are sequences, of lines or of provider entries, of any length; a page may have
any number of entries and a caller may ask for any number of results; a
document is a sequence of nodes of any length, and `Length` is the number of its
chunks).

* `RateLimiterProofs!TypeCorrect`; `Refinement`: the central lemma is that the
  level a pass computes does not depend on when earlier passes stored it
  (`RefillStored`), and that one tick raises it by `rate` up to the capacity
  (`LevelTick`). `WindowBounded` is then proved of the abstract bucket, with the
  inductive invariant `Account`: what has been taken in the window *plus what is
  still in the bucket* is at most the capacity plus what was earned. The bound
  alone is not inductive, since a step could take tokens that it does not
  mention. `SubUnitStarves`: the capacity is below one token, so `Grant` is
  never enabled.
* `ChainProofs!NoResultsCorrect`, by `Accounted`: every entry a search has
  passed, every entry with failures or an open breaker, and the entry of a
  search that is about to record a failure, is blamed; blame is never taken
  back (`BlameGrows`).
* `LeakCorrect`, by `LeakInv`: a search's calls recorded at an open breaker have
  attempt numbers no higher than its current one, strictly lower before the
  next call, and it cannot start a second visit because the gate is closed.
* `HammerCorrect`, by `RefusedInv`: an entry that refused a search lies behind
  it, or the search is about to leave it.
* `Refinement`: every step of `Chain` is a step of `Fallback` or a stutter.
* `PipeCorrect`, of both streams: what the client has, the channels and the
  forwarder's hand, put one behind the other, are the numbers from 0 on. In
  `FetchStreamProofs` one action feeds this sequence at its end (`CountNext`,
  `EnterBack`), and every other moves a number from the front of one part to the
  back of the part before it (`MoveFront`). A streamed search has one channel
  only, and `SearchStreamProofs` says the same of each element (`Pipe`).
* `FinalCorrect`, of both: the final frame is decided by flags, and what they say
  about counts is the strengthening `Told`: how far the goroutine had come when
  it left a result or an error behind, how far the next had when it passed that
  on, and the handler when it returned. With `PipeOrdered`, empty channels turn
  into equal lengths (`ToldSuffices`).
* `Refinement`, of both: `Told` decides what the source is, and the chunk or
  result at the head of the channel is the next one (`NextChunk`,
  `PipeLengths`). For "closed means done" to be a step of `EventStream`,
  `Told` must say that an extractor that is over has left a page or an error.

* `DiskCacheProofs`: `HitsAreNotStale`, `HitsAreFresh`, `EvictionsAreJustified`
  and `PutsLand` from one inductive invariant. `Files`: a page is in one inode at
  most, in none before its `Put` has written it, and not under the temporary name
  once it is stored. So whoever reuses a file, or moves one, brings pages that
  were not stored when a remover or a reader looked (`Replaced`), and what it
  looked at is still what it was or is gone. `Ordered`: no `Put` that is stored,
  or could be without a file of its own to move, began after the entry's page was
  stored; only then is a `Rename` that moves nothing harmless. `Looks` carries
  both to the worker that has looked, `Alone` the empty temporary file to the
  `Put` that overlaps no other. There is an inode for every new file by counting
  (`NewInodeExists`).
* `FetcherProofs!AgeCorrect`, by `Aged`: a file has the time at which its page
  was free to be stored, and a memory entry expires within both lifetimes after
  that, because what it was made of had not outlived the first. Only time at
  "stream" lengthens a delay, and a page there is in no tier yet (`Delays`).
  `OldCorrect`, by `Ranked`: an unstained page that is cached, held or has been
  served (`Known`) is not newer than any page in a hand of its URL, nor than
  what each tier has, unless the tier is empty or the call that fetched the page
  has not come to it (`Ordered`). A step about a URL keeps empty hands
  (`QuietRanked`), fills one (`TakesRanked`) or empties one (`GivesRanked`);
  that what was just fetched is nowhere else (`Fresh`) lets the memory cache be
  trusted at a hit. `DecisionsCorrect`, by `Explained`: the rules in the cache
  are the file's, or a request that failed or was cut short is to blame and not
  longer ago than they were stored.
* `GatewayProofs!AccountsCorrect`: every step after the lookup is one of the
  `Way`s, each a triple of a mark, an answer and a place, and in each the two
  sides of the account grow alike, the requests in progress counted by adding or
  removing one element (`UnderStep`). A mark needs a record to go to: that is
  `LifetimeCorrect`, which says that the key's record is of a day since the
  lookup. `Refinement`: one token bucket per key, as for `RateLimiter`; a request
  of another key leaves it alone.

* `FetchStreamProofs!PageCorrect`: for every document, every capacity and every
  interleaving. `BestIsUnbeaten` is about the walk for containers: the best one
  so far is as good as every container seen (`BeatsCompares` is the transitivity
  this needs, of fractions with positive denominators). `Streams` is the
  invariant of the walk of `ExtractStream`: its chunks and its buffer, put one
  behind the other, hold the same text as the nodes seen, blank ones left out,
  and no chunk is empty or too short; a node visited keeps it (`VisitStreams`),
  so does a flush (`FlushedStreams`). By `WireCounts`, from `PipeOrdered`, the
  client has the first so many chunks, and by `FirstOnesArePrefix` their text is
  a beginning of the page's. `Measured` adds that "done" is about the page's own
  number of chunks.
* `FetcherProofs!ParserCorrect`: for a file of any length. `ReadUpTo` says what
  the parser has made of the first `k` lines (the rules are those it has read
  under an agent line that counts, and it is in an applicable group exactly if
  the last agent line before has counted); one more line keeps it
  (`ReadNextLine`). `ParserReadsLastAgent` is the exact description of the code,
  and the three claims of `ParserReference` follow from it (`AddressedByLast`).
* `SakaProofs!ProvidersRank`: on every page, with every limit, the four ways of
  making results of entries keep the page's order, take at most `n`, and give
  each result its own snippet; DuckDuckGo's does as far as nothing before it was
  incomplete; Startpage's list is not empty. `InOrderLists` says what a loop
  that appends and stops at a limit yields, `TakeLinkLinked` and
  `TakeSnippetWell` what the walk over DuckDuckGo's links and snippets keeps.
* `SakaProofs!ChainsCorrect`: for every file. `LoadedExplained` says which
  default entry an entry of the file was decoded over and what it has from it,
  `BuiltChains` that `New` makes of the loaded list one chain per vertical, in
  its order.
* `SakaProofs!AnswersCorrect`, by `Inv`: a search is under way only in an engine
  that has been built, over a chain of the vertical asked for, and every entry
  it has passed has failed a call. The bare statement about answers is not
  inductive: it does not say how a walk came to its end.

Four of these are inductions over data, whose step functions read a line, an
entry, a snippet or a node at a time. The library's induction theorems take the formula
to be proved as an operator, which none of the provers can instantiate. So the
induction is over *sets*: `InductionOnSets` says that a set of naturals that has
0 and with each number below `N` the next has all up to `N`, and each proof
applies it to the set of the `k` for which its claim about the first `k` steps
holds. `SteppedExists` gives, by the same means, the function that a step-wise
recursive definition defines. Both rest on the well-foundedness of the order of
the naturals (`WellFoundedInduction`), and nothing is assumed.

Every invariant, action property and refinement of the passing runs is proved.
Model-checked only is every liveness property, which needs fairness and
`ENABLED`, and the prover does not handle them.

## Where the code and its documents disagree

Shown by a run (quotations and lines in `PROJECT.json`):

1. A rate below one per second, such as startpage's default 0.2, admits nobody.
2. A cancelled limiter wait is recorded as a failure of the provider.
3. A failed streamed fetch may end with `event: done`.
4. A client that leaves early can leave two goroutines blocked for ever.

Met while reading or modelling, without a run of their own:

* *Chain.* Calls on their way still reach a provider whose breaker is open
  (`ARCHITECTURE.md:370`, "stops all traffic"); a single 429 does not open it
  (`ARCHITECTURE.md:355`); an empty list from SearXNG, GDELT or DuckDuckGo is a
  success that ends the fallback (`types/types.go:12`).
* *Fetch.* `FetchStream` never reads the caches (`ARCHITECTURE.md:170-174`); the
  check for status 429 in `fetch.go:103-106` cannot be reached. Two concurrent
  `Put`s of one URL share the temporary file, so that the "atomic write" can put
  an empty file in place of a good entry; `Get` then drops it. `robots.txt` is
  asked after the limiter, not before, and its own request is not limited.
* *Extraction.* `findBestContainer` walks into skipped elements, so that a `div`
  in a footer or a `nav` can win (`extract.go:12`, "removed before scoring";
  `ARCHITECTURE.md:162`). An article's score is only a tenth higher, and of equal
  scores the first, hence the outermost, is taken. The buffer is flushed as soon
  as it is full, so the flush at a paragraph's beginning never fires: chunks end
  with whichever text node fills them (`SPEC.md:182`, `ARCHITECTURE.md:170`,
  "paragraph boundaries"), and paragraphs run together in the stream.
* *Robots.* A line is lower-cased and compared with a header value that is not,
  so `User-agent: sakabot` never applies; `Disallow` paths are lower-cased and
  the URL's path is not, so a rule with a capital in it never matches; an agent
  line that does not match undoes one before it in the same group.
* *Gateway.* The gate knows `/v1/stream` only, so the free tier can stream
  through `/v1/search/stream` (`SPEC.md:260`, "free (10 RPM, no stream)"), and a
  request is charged before the gate refuses it. The "admin" tier is not in the
  table and counts as free. Answers 401, 402, 405 and 429 leave no mark, and
  `BytesOut` is never written. A key's record of one day is gone at its first
  request of the next.
* *Engine.* The file is decoded over the default list, element by element: an
  entry keeps from the default entry *at its place* what it does not mention. A
  file that begins with `{"name": "gdelt"}` sends GDELT's requests to
  `localhost:8888`, where the default SearXNG is, five per second and with two
  retries. `SPEC.md:208` lists another default configuration than
  `DefaultConfig`. `searxng-images` needs a URL, which only its factory checks.
* *Providers.* DuckDuckGo's snippets are counted over the whole page and its
  links without the advertisements, so that behind a skipped advertisement every
  result carries another one's snippet; `unwrapDDG` unescapes a target twice;
  `Site` is ignored by DuckDuckGo, `SafeSearch` by Startpage and GDELT.
* *MCP.* A notification is answered (with a null result).

## What is not modelled

* Of the extraction, the title, the date and the breaks between paragraphs; the
  bytes of a text.
* What a provider is asked (language, site, safe search) and what a result, a
  chunk or a page says; model values and indices stand for it.
* `Register` with its lock: it runs in `init`, before any goroutine. The
  signature and the encoding of keys: a key is valid or not. `keys` of the CLI:
  one-shot printing; two first runs at once could each create the key file.
* `Page.Chunks` has no caller. Response bodies, JSON-RPC ids, schemas, Markdown
  and the other printed formats, flags, deployment files: text.
* The answer 500 of `handleStream` and `handleSearchStream`, "streaming
  unsupported" (`http.go:168-172`, `273-277`): nothing between `net/http` and the
  handlers wraps the `ResponseWriter`, and those of `net/http` are all `Flusher`s,
  so the branch is not taken.
* The duration of the back-off and its jitter: it is over or not over.
* Cancellation in `Saka`: `main` hands on `context.Background()`.

## Plan

The modules above are done, and so are the theorems planned for them. What is
left is what the provers cannot reach and TLC checks (liveness), and the parts
listed above as not modelled.
