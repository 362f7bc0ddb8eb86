--------------------------------- MODULE Saka ---------------------------------
(***************************************************************************)
(* One saka process, from its command line to its end: cli/saka/main.go     *)
(* loads the configuration and builds the engine; "saka search" and "saka   *)
(* fetch" make one call, "saka serve --mcp" reads JSON-RPC requests from    *)
(* stdin one line at a time (server/mcp.go, tools/tools.go).  Everything    *)
(* runs under context.Background(): no call is ever cancelled.  Searches    *)
(* walk their chain as module Fallback says: a provider is asked, or passed *)
(* over once it has failed before (its breaker may be open).                *)
(***************************************************************************)
EXTENDS Engine

CONSTANTS Files,      \* what --config may name; the empty record also stands
                      \* for a process started without --config
          Verticals,  \* what a query may ask for
          Limits,     \* its maximal number of results, 0 when it names none
          PageLength  \* a bound on the entries of a page

ASSUME FilesAssumption ==
    \A f \in Files : "providers" \in DOMAIN f =>
        f.providers \in Seq({f.providers[i] : i \in DOMAIN f.providers})
ASSUME LimitsAssumption == Limits \subseteq Int
ASSUME LengthAssumption == PageLength \in Nat

Pages == UNION {[1..n -> Entry] : n \in 0..PageLength}

Replies == [status : {"limited", "failed"}, page : {<<>>}]
             \cup [status : {"ok"}, page : Pages]

VARIABLES
    file,    \* what is in saka.json
    cmd,     \* "search", "fetch" or "mcp"
    phase,   \* "load", "build", "ready" for a call or a line, "search", "fetch",
             \* and in the end "done" or "fatal"
    cfg,     \* the validated configuration
    chains,  \* Engine.chains
    query,   \* the search under way, or the last one
    at,      \* the entry of its chain it has come to
    blamed,  \* history: names of the providers that have failed a call
    answer   \* the last thing written; page keeps what the results were read from

engine == <<file, cmd, cfg, chains>>
vars == <<engine, phase, query, at, blamed, answer>>

NoQuery == [vertical |-> "", max |-> 0]
NoCfg == [providers |-> <<>>, fetch |-> DefaultFetch]

Outcome(kind) == [kind |-> kind, provider |-> "", list |-> <<>>, page |-> <<>>]

Init ==
    /\ file \in Files
    /\ cmd \in {"search", "fetch", "mcp"}
    /\ phase = "load"
    /\ cfg = NoCfg
    /\ chains = <<>>
    /\ query = NoQuery
    /\ at = 1
    /\ blamed = {}
    /\ answer = Outcome("none")

\* LoadConfig: an unreadable file, broken JSON and an invalid configuration
\* end the process.
Load ==
    /\ phase = "load"
    /\ Valid(Loaded(file))
    /\ cfg' = Loaded(file)
    /\ phase' = "build"
    /\ UNCHANGED <<file, cmd, chains, query, at, blamed, answer>>

LoadFails ==
    /\ phase = "load"
    /\ ~Valid(Loaded(file)) \/ file # <<>>
    /\ phase' = "fatal"
    /\ UNCHANGED <<engine, query, at, blamed, answer>>

\* New.
Build ==
    /\ phase = "build"
    /\ \A i \in DOMAIN cfg.providers : Buildable(cfg.providers[i])
    /\ chains' = Chains(cfg.providers)
    /\ phase' = "ready"
    /\ UNCHANGED <<file, cmd, cfg, query, at, blamed, answer>>

\* A factory refuses, or the directory of the disk cache cannot be made.
BuildFails ==
    /\ phase = "build"
    /\ cfg.fetch.disk \/ \E i \in DOMAIN cfg.providers : ~Buildable(cfg.providers[i])
    /\ phase' = "fatal"
    /\ UNCHANGED <<engine, query, at, blamed, answer>>

\* A command prints its result and ends, with status 1 on an error; the MCP
\* server writes a response, also for an error, and reads on.
Write(outcome) ==
    /\ answer' = outcome
    /\ phase' = CASE cmd = "mcp"                          -> "ready"
                  [] outcome.kind \in {"results", "page"} -> "done"
                  [] OTHER                                -> "fatal"

-----------------------------------------------------------------------------
\* Engine.Search: the chain of the vertical, if there is one.
EngineSearch ==
    /\ query' \in [vertical : Verticals, max : Limits]
    /\ at' = 1
    /\ IF query'.vertical \in DOMAIN chains
       THEN phase' = "search" /\ answer' = Outcome("none")
       ELSE Write(Outcome("no vertical"))
    /\ UNCHANGED <<engine, blamed>>

EngineFetch ==
    /\ phase' = "fetch"
    /\ answer' = Outcome("none")
    /\ UNCHANGED <<engine, query, at, blamed>>

RunSearch == phase = "ready" /\ cmd = "search" /\ EngineSearch

DoFetch == phase = "ready" /\ cmd = "fetch" /\ EngineFetch

Chain == chains[query.vertical]

Exhausted ==
    /\ phase = "search"
    /\ at > Len(Chain)
    /\ Write(Outcome("no results"))
    /\ UNCHANGED <<engine, query, at, blamed>>

PassOver ==
    /\ phase = "search"
    /\ at <= Len(Chain)
    /\ Chain[at].name \in blamed
    /\ at' = at + 1
    /\ UNCHANGED <<engine, phase, query, blamed, answer>>

\* The provider is asked, for the last time if it fails.
Ask(reply) ==
    /\ phase = "search"
    /\ at <= Len(Chain)
    /\ Grants(Chain[at].rps)
    /\ LET p == Chain[at].name
           got == ProviderSearch(p, WithDefaults(query.max), reply)
       IN  IF got.status = "ok"
           THEN /\ Write([kind |-> "results", provider |-> p,
                          list |-> got.list, page |-> reply.page])
                /\ UNCHANGED <<at, blamed>>
           ELSE /\ at' = at + 1
                /\ blamed' = blamed \cup {p}
                /\ UNCHANGED <<phase, answer>>
    /\ UNCHANGED <<engine, query>>

\* Fetcher.Fetch of a page that no cache has.
Fetched ==
    /\ phase = "fetch"
    /\ Grants(cfg.fetch.rps)
    /\ \E kind \in {"page", "error"} : Write(Outcome(kind))
    /\ UNCHANGED <<engine, query, at, blamed>>

-----------------------------------------------------------------------------
\* Serve has read a line that is not empty.
LineRead == phase = "ready" /\ cmd = "mcp"

\* The line is no JSON: a response without an id.
ParseError ==
    /\ LineRead
    /\ Write(Outcome("parse error"))
    /\ UNCHANGED <<engine, query, at, blamed>>

\* initialize and tools/list; a notification, which is answered too, with
\* null; an unknown method; parameters that cannot be decoded.
Dispatch ==
    /\ LineRead
    /\ \E kind \in {"info", "null", "no method", "invalid params"} : Write(Outcome(kind))
    /\ UNCHANGED <<engine, query, at, blamed>>

WebSearch == LineRead /\ EngineSearch

FetchPage == LineRead /\ EngineFetch

\* ExecuteTool: arguments that cannot be decoded, or a tool it does not know.
ToolError ==
    /\ LineRead
    /\ Write(Outcome("tool error"))
    /\ UNCHANGED <<engine, query, at, blamed>>

\* stdin ends, or a line is longer than the scanner's buffer.
Close ==
    /\ phase = "ready" /\ cmd = "mcp"
    /\ phase' \in {"done", "fatal"}
    /\ UNCHANGED <<engine, query, at, blamed, answer>>

Serve == ParseError \/ Dispatch \/ WebSearch \/ FetchPage \/ ToolError \/ Close

Call == Exhausted \/ PassOver \/ (\E reply \in Replies : Ask(reply)) \/ Fetched

Next ==
    \/ Load \/ LoadFails \/ Build \/ BuildFails
    \/ RunSearch \/ DoFetch \/ Serve
    \/ Call

Spec == Init /\ [][Next]_vars

\* A command line goes on by itself, and so does a call once it is made:
\* providers and pages answer or time out.  Requests need not come.
Fairness ==
    /\ WF_vars(Load \/ LoadFails \/ Build \/ BuildFails \/ RunSearch \/ DoFetch)
    /\ WF_vars(Call)

FairSpec == Spec /\ Fairness

-----------------------------------------------------------------------------
\* The types of a process's variables.
TypeOK ==
    /\ phase \in {"load", "build", "ready", "search", "fetch", "done", "fatal"}
    /\ phase \in {"ready", "search", "fetch"} => cfg.providers # <<>>
    /\ query \in [vertical : Verticals, max : Limits] \cup {NoQuery}
    /\ at \in 1..Len(cfg.providers) + 1
    /\ phase = "search" => query.vertical \in DOMAIN chains /\ at <= Len(Chain) + 1
    /\ blamed \subseteq {cfg.providers[i].name : i \in DOMAIN cfg.providers}
    /\ answer.kind \in {"none", "results", "no vertical", "no results", "page", "error", "null",
                        "parse error", "no method", "invalid params", "tool error", "info"}

Elements == IF "providers" \in DOMAIN file THEN file.providers ELSE DefaultProviders

Says(e, field) == field \in DOMAIN e

VerticalOf(e) == IF Says(e, "vertical") THEN e.vertical ELSE ""

\* A number that entry i does not give.
Number(i, field) ==
    CASE Says(Elements[i], field)                                 -> Elements[i][field]
      [] ~Says(Elements[i], field) /\ i <= Len(DefaultProviders) -> DefaultProviders[i][field]
      [] OTHER                                                    -> 0

\* An entry without a name has that of the default entry at its place.
NameOf(i) == IF Says(Elements[i], "name") THEN Elements[i].name ELSE DefaultProviders[i].name

\* The engine that is built is the one the file describes: one chain per
\* vertical that the file names, its entries those of the file and in their
\* order.  The name, the rate and the retries that an entry does not give are
\* those of the default entry at its place, whatever its name: json.Unmarshal
\* decodes into that one.  Behind the defaults an entry without a rate is not
\* limited at all.  Every provider sends its requests where its own entry says or
\* to the service it is named for, but an entry at the head of the file that gives
\* no URL has that of the default SearXNG.
ChainsExplained ==
    chains # <<>> =>
        /\ DOMAIN chains = {VerticalOf(Elements[i]) : i \in DOMAIN Elements}
        /\ \A v \in DOMAIN chains :
            LET mine == InOrder({i \in DOMAIN Elements : VerticalOf(Elements[i]) = v},
                                Len(Elements))
            IN  /\ Len(chains[v]) = Len(mine)
                /\ \A k \in DOMAIN mine :
                    LET e == Elements[mine[k]]
                        made == chains[v][k]
                    IN  /\ made.name = NameOf(mine[k])
                        /\ made.rps = Number(mine[k], "rps")
                        /\ made.retries = Number(mine[k], "retries")
                        /\ \/ made.endpoint = made.name
                           \/ Says(e, "url") /\ made.endpoint = e.url
                           \/ mine[k] = 1 /\ ~Says(e, "url") /\ made.endpoint = "http-default"

\* What a caller is told about a search is true of the vertical asked for.
\* Results come from one of its providers, ranked in the order of the page and
\* no more than asked for, each with its own snippet as far as SnippetBelongs
\* goes, and there is one at least if they come from Startpage, which counts a
\* page without any as a refusal; ErrNoResults comes when every one of its providers has failed a call,
\* and the error about the vertical when the file gives it no provider.
AnswersSound ==
    LET mine == {i \in DOMAIN Elements : VerticalOf(Elements[i]) = query.vertical}
    IN  /\ answer.kind = "results" =>
              /\ \E i \in mine : answer.provider = NameOf(i)
              /\ Ranked(answer.list, WithDefaults(query.max))
              /\ answer.provider = "startpage" => answer.list # <<>>
              /\ \A k \in DOMAIN answer.list :
                    SnippetBelongs(answer.provider, answer.page, answer.list[k])
        /\ answer.kind = "no results" =>
              mine # {} /\ \A i \in mine : NameOf(i) \in blamed
        /\ answer.kind = "no vertical" => mine = {}

\* The process waits for a token that its limiter will never hold: a rate
\* strictly between zero and one per second.
Stuck ==
    \/ phase = "search" /\ at <= Len(Chain) /\ Chain[at].rps \in 1..9
    \/ phase = "fetch" /\ cfg.fetch.rps \in 1..9

\* A command ends, and the MCP server comes back to its next line, unless it
\* gets stuck: with the default configuration, at Startpage.
Responsive ==
    (phase # "ready" \/ cmd # "mcp")
        ~> (phase \in {"done", "fatal"} \/ (phase = "ready" /\ cmd = "mcp") \/ Stuck)
=============================================================================
