-------------------------------- MODULE Engine --------------------------------
(***************************************************************************)
(* saka.go: from saka.json to the chains of an Engine.  A file is a record  *)
(* of the keys it has; so is each element of its "providers" array.  Rates  *)
(* are in tenths of a request per second.                                   *)
(***************************************************************************)
EXTENDS Providers

\* The providers that register themselves.
Names == {"searxng", "searxng-images", "gdelt", "duckduckgo", "startpage"}

Zero == [name |-> "", url |-> "", rps |-> 0, retries |-> 0, vertical |-> ""]

DefaultProviders == <<
    [name |-> "searxng", url |-> "http-default", rps |-> 50, retries |-> 2, vertical |-> ""],
    [name |-> "duckduckgo", url |-> "", rps |-> 10, retries |-> 2, vertical |-> ""],
    [name |-> "startpage", url |-> "", rps |-> 2, retries |-> 1, vertical |-> ""] >>

DefaultFetch == [rps |-> 20, ttl |-> 3600, disk |-> FALSE]

HasScheme(url) == url \in {"http-default", "http-own"}

\* The definitions whose names end in _Bug are plausible mistakes in the
\* definition that follows; no specification uses them.

\* json.Unmarshal into a struct leaves a field alone that the text does not
\* mention.
Decode(text, into) ==
    [field \in DOMAIN into |-> IF field \in DOMAIN text THEN text[field] ELSE into[field]]

\* (every element starts from the first one of the default list)
Merge_Bug(elements) ==
    [i \in DOMAIN elements |-> Decode(elements[i], DefaultProviders[1])]

\* json.Unmarshal decodes an array into the slice that is there: an element
\* keeps what it does not mention from the default at its own place.
Merge(elements) ==
    [i \in DOMAIN elements |->
        Decode(elements[i], IF i <= Len(DefaultProviders) THEN DefaultProviders[i] ELSE Zero)]

Loaded(file) ==
    [providers |-> IF "providers" \in DOMAIN file
                   THEN Merge(file.providers) ELSE DefaultProviders,
     fetch |-> IF "fetch" \in DOMAIN file
               THEN Decode(file.fetch, DefaultFetch) ELSE DefaultFetch]

ValidProvider(ps, i) ==
    /\ ps[i].name \in Names     \* registered, hence not ""
    /\ \A j \in 1..i - 1 : ps[j].name # ps[i].name
    /\ ps[i].name = "searxng" => HasScheme(ps[i].url)
    /\ ps[i].rps \in 0..100
    /\ ps[i].retries \in 0..5

\* (a file without providers is taken)
Valid_Bug(cfg) ==
    /\ \A i \in DOMAIN cfg.providers : ValidProvider(cfg.providers, i)
    /\ cfg.fetch.rps \in 0..100
    /\ cfg.fetch.ttl >= 0

Valid(cfg) ==
    /\ cfg.providers # <<>>
    /\ \A i \in DOMAIN cfg.providers : ValidProvider(cfg.providers, i)
    /\ cfg.fetch.rps \in 0..100
    /\ cfg.fetch.ttl >= 0

\* The provider's factory returns no error.
Buildable(pc) == pc.name \in {"searxng", "searxng-images"} => pc.url # ""

\* Where the provider sends its requests.
Endpoint(pc) ==
    CASE pc.name \in {"searxng", "searxng-images"} -> pc.url
      [] pc.name = "gdelt" /\ pc.url # ""           -> pc.url
      [] OTHER                                      -> pc.name

\* One chain per vertical, in configuration order.  Names are unique, so
\* chain.New finds one provider for each entry.
Chains(ps) ==
    [v \in {ps[i].vertical : i \in DOMAIN ps} |->
        LET mine == InOrder({i \in DOMAIN ps : ps[i].vertical = v}, Len(ps))
            Link(pc) == [name |-> pc.name, endpoint |-> Endpoint(pc), rps |-> pc.rps,
                         retries |-> pc.retries]
        IN  [k \in DOMAIN mine |-> Link(ps[mine[k]])]]

WithDefaults(max) == IF max <= 0 THEN 10 ELSE max

\* (zero is not replaced by one request per second)
Grants_Bug(rps) == rps >= 10

\* A limiter of this rate ever holds a whole token (module RateLimiter).
Grants(rps) == rps <= 0 \/ rps >= 10
=============================================================================
