------------------------------ MODULE Fetcher ------------------------------
(***************************************************************************)
(* fetch/fetch.go and fetch/robots.go: concurrent Fetch and FetchStream    *)
(* calls over one memory cache (L1), one disk cache (L2), one limiter and  *)
(* the rules of one host.  Hosts do not interact: their rules lie under    *)
(* different keys.  A page is numbered in the order in which the web        *)
(* answered; DiskCache and FetchStream look inside Put, Get and the         *)
(* channels of FetchStream, RateLimiter inside Wait.                        *)
(*                                                                         *)
(* Time passes while a call waits for the limiter, for the network, or for  *)
(* the client of FetchStream to take the chunks of a page; a tick is long   *)
(* compared with the steps that wait for nobody.                            *)
(***************************************************************************)
EXTENDS Robots

CONSTANTS Workers,   \* goroutines that call Fetch or FetchStream
          Urls,      \* URLs of the host
          Settings,  \* configurations [robots, disk], with the host's robots.txt [file]
                     \* and bounds on the pages that arrive and on the restarts
                     \* [pages, restarts]
          AllFiles,  \* texts the parser is compared with its reference on
          TTL,       \* lifetime of an L1 entry, in ticks
          DiskTTL,   \* lifetime of an L2 entry
          Hour,      \* lifetime of the rules
          MaxNow     \* bound

ASSUME LifetimeAssumption == TTL \in Nat /\ DiskTTL \in Nat /\ Hour \in Nat
ASSUME BoundsAssumption == MaxNow \in Nat
ASSUME UrlsAssumption == Urls # {}
ASSUME FilesAssumption == \A f \in AllFiles : f \in Seq({f[i] : i \in DOMAIN f})

VARIABLES
    config,   \* respectRobots, whether a disk cache is attached, the host's file,
              \* and the bounds
    now,
    l1,       \* Fetcher.cache: [page, till]
    l2,       \* the disk cache: [page, at]
    rules,    \* robotsCache.deny of the host: [denied, at], or NoRules
    call,     \* per worker: where it is, its URL, its context, the page in its hand,
              \* and whether it is a FetchStream
    asked,    \* when the worker sent the request for robots.txt it is waiting for
    born,     \* history: when the web answered with each page
    delay,    \* history: for how long its FetchStream has held each page back
    floor,    \* history: per worker, the newest page served for its URL before it called
    newest,   \* history: per URL, the newest page served
    shaky,    \* history: pages that did not get alone into every cache tier
    mishap,   \* history: when a robots.txt request last failed or was cut short
    restarts

state == <<config, l1, l2, rules, call, asked>>
history == <<born, delay, floor, newest, shaky, mishap>>
vars == <<state, now, history, restarts>>

NoEntry == [page |-> 0, till |-> 0]
NoFile  == [page |-> 0, at |-> 0]
NoRules == [denied |-> {}, at |-> -(Hour + 1)]
AnyUrl == CHOOSE u \in Urls : TRUE
Idle == [at |-> "idle", url |-> AnyUrl, ctx |-> "live", page |-> 0, streams |-> FALSE]
Pages == 1..Len(born)

\* Where a call computes without waiting for anybody.
Local == {"l2", "keep", "cleared", "refused", "store", "put", "served"}

At(w, place) == call[w].at = place
Url(w) == call[w].url
Go(w, place) == call' = [call EXCEPT ![w].at = place]
Hold(w, place, p) == call' = [call EXCEPT ![w].at = place, ![w].page = p]

\* A worker with a page in hand that it is putting into the caches, or will
\* put there when its client has made room for the chunks.
Holding(w) == call[w].at \in {"keep", "store", "put"}
Carrying(w) == Holding(w) \/ At(w, "stream")
Rivals(w, p) == {v \in Workers \ {w} : Carrying(v) /\ Url(v) = Url(w) /\ call[v].page < p}
Stained(w, p) == IF Rivals(w, p) # {} THEN {p} ELSE {}

\* The call returns.
Leave(w) ==
    /\ call' = [call EXCEPT ![w] = Idle]
    /\ floor' = [floor EXCEPT ![w] = 0]
    /\ UNCHANGED <<config, now, l1, l2, rules, asked, born, delay, newest, shaky, mishap, restarts>>

-----------------------------------------------------------------------------
Init ==
    /\ config \in Settings
    /\ now = 0
    /\ l1 = [u \in Urls |-> NoEntry]
    /\ l2 = [u \in Urls |-> NoFile]
    /\ rules = NoRules
    /\ call = [w \in Workers |-> Idle]
    /\ asked = [w \in Workers |-> 0]
    /\ born = <<>>
    /\ delay = <<>>
    /\ floor = [w \in Workers |-> 0]
    /\ newest = [u \in Urls |-> 0]
    /\ shaky = {}
    /\ mishap = -(Hour + 1)
    /\ restarts = 0

Cancel(w) ==
    /\ call[w].at \in {"limiter", "robots", "page"}
    /\ call[w].ctx = "live"
    /\ call' = [call EXCEPT ![w].ctx = "done"]
    /\ UNCHANGED <<config, now, l1, l2, rules, asked, history, restarts>>

Serve(w, p) ==
    /\ Hold(w, "served", p)
    /\ newest' = [newest EXCEPT ![Url(w)] = IF p > @ THEN p ELSE @]

\* The call begins: floor is what its caller may have seen before.
Begin(w, u, place, p, streams) ==
    /\ At(w, "idle")
    /\ call' = [call EXCEPT ![w] = [at |-> place, url |-> u, ctx |-> "live", page |-> p,
                                    streams |-> streams]]
    /\ floor' = [floor EXCEPT ![w] = newest[u]]
    /\ newest' = [newest EXCEPT ![u] = IF p > @ THEN p ELSE @]
    /\ UNCHANGED <<config, now, l1, l2, rules, asked, born, delay, shaky, mishap, restarts>>

\* The definitions whose names end in _Bug are plausible mistakes in the
\* definition that follows; no specification uses them.

\* (an entry is still good at the moment it expires)
Hit_Bug(u) == l1[u].page # 0 /\ now <= l1[u].till

Hit(u) == l1[u].page # 0 /\ now < l1[u].till

\* Fetch looks in the caches first.
Fetch(w) ==
    \E u \in Urls :
        IF Hit(u) THEN Begin(w, u, "served", l1[u].page, FALSE)
        ELSE Begin(w, u, IF config.disk THEN "l2" ELSE "limiter", 0, FALSE)

\* FetchStream does not.
FetchStream(w) == \E u \in Urls : Begin(w, u, "limiter", 0, TRUE)

\* DiskCache.Get: an entry that has expired is removed.
LookL2(w) ==
    /\ At(w, "l2")
    /\ LET e == l2[Url(w)]
           hit == e.page # 0 /\ now - e.at <= DiskTTL
       IN /\ IF hit THEN Hold(w, "keep", e.page) ELSE Go(w, "limiter")
          /\ l2' = IF hit THEN l2 ELSE [l2 EXCEPT ![Url(w)] = NoFile]
          /\ shaky' = shaky \cup {call[v].page : v \in {v \in Workers \ {w} :
                        /\ hit /\ Holding(v) /\ Url(v) = Url(w) /\ call[v].page > e.page}}
    /\ UNCHANGED <<config, now, l1, rules, asked, born, delay, floor, newest, mishap, restarts>>

\* (with the lifetime of the file)
Keep_Bug(w) ==
    /\ At(w, "keep")
    /\ l1' = [l1 EXCEPT ![Url(w)] = [page |-> call[w].page, till |-> now + DiskTTL]]
    /\ Serve(w, call[w].page)
    /\ UNCHANGED <<config, now, l2, rules, asked, born, delay, floor, shaky, mishap, restarts>>

\* An L2 hit goes into L1 with a fresh lifetime.
Keep(w) ==
    /\ At(w, "keep")
    /\ l1' = [l1 EXCEPT ![Url(w)] = [page |-> call[w].page, till |-> now + TTL]]
    /\ Serve(w, call[w].page)
    /\ UNCHANGED <<config, now, l2, rules, asked, born, delay, floor, shaky, mishap, restarts>>

LimiterAborts(w) ==
    /\ At(w, "limiter")
    /\ call[w].ctx = "done"
    /\ Leave(w)

Decision(w, r) == IF Url(w) \in r.denied THEN "refused" ELSE "cleared"

\* (rules once cached are never asked for again)
Stale_Bug(r) == r = NoRules

Stale(r) == now - r.at > Hour

\* Wait grants a token; then Allowed: cached rules decide for an hour after they
\* were asked for, otherwise the worker asks, and so does everybody who comes
\* meanwhile.
Admit(w) ==
    /\ At(w, "limiter")
    /\ IF config.robots /\ Stale(rules)
       THEN Go(w, "robots") /\ asked' = [asked EXCEPT ![w] = now]
       ELSE /\ Go(w, IF config.robots THEN Decision(w, rules) ELSE "cleared")
            /\ asked' = asked
    /\ UNCHANGED <<config, now, l1, l2, rules, history, restarts>>

\* The rules are stored for every later caller and decide for this one.
Settle(w, denied) ==
    LET r == [denied |-> denied, at |-> asked[w]]
    IN /\ rules' = r
       /\ Go(w, Decision(w, r))
       /\ asked' = [asked EXCEPT ![w] = 0]
       /\ UNCHANGED <<config, now, l1, l2, born, delay, floor, newest, shaky, restarts>>

RobotsRead(w) ==
    /\ At(w, "robots")
    /\ call[w].ctx = "live"
    /\ Settle(w, Parse(config.file))
    /\ UNCHANGED mishap

\* The one Read returned a part of the file, which may end within a line: a
\* prefix that has lost its end denies more.
RobotsCut(w) ==
    /\ At(w, "robots")
    /\ call[w].ctx = "live"
    /\ \E n \in 0..Len(config.file) - 1, broken \in BOOLEAN :
        Settle(w, Parse(SubSeq(config.file, 1, n) \o
                        IF broken /\ config.file[n + 1].kind = "deny" THEN <<Deny(Urls)>> ELSE <<>>))
    /\ mishap' = now

\* A transport error, a status other than 200, or a context that is done,
\* the caller's own: everything is allowed.
RobotsFails(w) ==
    /\ At(w, "robots")
    /\ Settle(w, {})
    /\ mishap' = now

Refuse(w) ==
    /\ At(w, "refused")
    /\ Leave(w)

Request(w) ==
    /\ At(w, "cleared")
    /\ Go(w, "page")
    /\ UNCHANGED <<config, now, l1, l2, rules, asked, history, restarts>>

\* The request or the extraction fails.
PageFails(w) ==
    /\ At(w, "page")
    /\ Leave(w)

\* The document is read.  Fetch is about to store it; FetchStream has its chunks
\* to send first.
PageArrives(w) ==
    /\ At(w, "page")
    /\ call[w].ctx = "live"
    /\ Len(born) < config.pages
    /\ LET p == Len(born) + 1
       IN /\ born' = Append(born, now)
          /\ delay' = Append(delay, 0)
          /\ IF call[w].streams THEN Hold(w, "stream", p) /\ shaky' = shaky
             ELSE Hold(w, "store", p) /\ shaky' = shaky \cup Stained(w, p)
    /\ UNCHANGED <<config, now, l1, l2, rules, asked, floor, newest, mishap, restarts>>

\* The client has made room for the last chunk.  It may take any time over
\* that, or leave and never do it: no deadline and no context ends the wait.
Streamed(w) ==
    /\ At(w, "stream")
    /\ call' = [call EXCEPT ![w].at = "store", ![w].streams = FALSE]
    /\ shaky' = shaky \cup Stained(w, call[w].page)
    /\ UNCHANGED <<config, now, l1, l2, rules, asked, born, delay, floor, newest, mishap, restarts>>

StoreL1(w) ==
    /\ At(w, "store")
    /\ l1' = [l1 EXCEPT ![Url(w)] = [page |-> call[w].page, till |-> now + TTL]]
    /\ IF config.disk THEN Go(w, "put") /\ newest' = newest ELSE Serve(w, call[w].page)
    /\ UNCHANGED <<config, now, l2, rules, asked, born, delay, floor, shaky, mishap, restarts>>

\* (a file that is there is left as it is)
Put_Bug(w) ==
    /\ At(w, "put")
    /\ \/ /\ l2' = IF l2[Url(w)] # NoFile THEN l2
                    ELSE [l2 EXCEPT ![Url(w)] = [page |-> call[w].page, at |-> now]]
          /\ shaky' = shaky
       \/ /\ l2' = l2
          /\ shaky' = shaky \cup {call[w].page}
    /\ Serve(w, call[w].page)
    /\ UNCHANGED <<config, now, l1, rules, asked, born, delay, floor, mishap, restarts>>

\* DiskCache.Put is best effort: the older file may stay.
Put(w) ==
    /\ At(w, "put")
    /\ \/ /\ l2' = [l2 EXCEPT ![Url(w)] = [page |-> call[w].page, at |-> now]]
          /\ shaky' = shaky
       \/ /\ l2' = l2
          /\ shaky' = shaky \cup {call[w].page}
    /\ Serve(w, call[w].page)
    /\ UNCHANGED <<config, now, l1, rules, asked, born, delay, floor, mishap, restarts>>

Return(w) == At(w, "served") /\ Leave(w)

Tick ==
    /\ now < MaxNow
    /\ \A w \in Workers : call[w].at \notin Local
    /\ now' = now + 1
    /\ delay' = [p \in Pages |-> IF \E w \in Workers : At(w, "stream") /\ call[w].page = p
                               THEN delay[p] + 1 ELSE delay[p]]
    /\ UNCHANGED <<state, born, floor, newest, shaky, mishap, restarts>>

\* The process dies and is started again: only the files remain.
Restart ==
    /\ restarts < config.restarts
    /\ restarts' = restarts + 1
    /\ l1' = [u \in Urls |-> NoEntry]
    /\ rules' = NoRules
    /\ call' = [w \in Workers |-> Idle]
    /\ asked' = [w \in Workers |-> 0]
    /\ floor' = [w \in Workers |-> 0]
    /\ shaky' = shaky \cup {call[w].page : w \in {v \in Workers : Holding(v)}}
    /\ UNCHANGED <<config, now, l2, born, delay, newest, mishap>>

Step(w) ==
    \/ Fetch(w) \/ FetchStream(w) \/ Cancel(w) \/ LookL2(w) \/ Keep(w)
    \/ Admit(w) \/ LimiterAborts(w) \/ RobotsRead(w) \/ RobotsCut(w) \/ RobotsFails(w)
    \/ Refuse(w) \/ Request(w) \/ PageFails(w) \/ PageArrives(w)
    \/ Streamed(w) \/ StoreL1(w) \/ Put(w) \/ Return(w)

Next == Tick \/ Restart \/ \E w \in Workers : Step(w)

Spec == Init /\ [][Next]_vars

-----------------------------------------------------------------------------
Places == Local \cup {"idle", "limiter", "robots", "page", "stream"}
Calls == [at : Places, url : Urls, ctx : {"live", "done"}, page : 0..Len(born),
          streams : BOOLEAN]

\* The types of the caches, the rules and the calls.
TypeOK ==
    /\ now \in 0..MaxNow
    /\ born \in Seq(0..MaxNow)
    /\ delay \in Seq(Nat) /\ Len(delay) = Len(born)
    /\ l1 \in [Urls -> [page : 0..Len(born), till : 0..MaxNow + TTL]]
    /\ l2 \in [Urls -> [page : 0..Len(born), at : 0..MaxNow]]
    /\ rules = NoRules \/ rules.at \in 0..MaxNow
    /\ call \in [Workers -> Calls]
    /\ asked \in [Workers -> 0..MaxNow]
    /\ shaky \subseteq 0..Len(born)
    /\ newest \in [Urls -> 0..Len(born)]
    /\ floor \in [Workers -> 0..Len(born)]

\* When a page was free to go into the caches, and the lifetime of the file it can
\* have been read from.
Freed(p) == born[p] + delay[p]
Filed == IF config.disk THEN DiskTTL ELSE 0

\* No page is served that is older than the lifetimes of the tiers together, one
\* being no bound, since an L2 hit starts a new one in L1.  What a page waited
\* between the web's answer and the caches, for the client of its FetchStream,
\* comes on top of that and has no bound, for both lifetimes start after it.
AgeBounded ==
    \A w \in Workers :
        At(w, "served") => LET age == now - Freed(call[w].page) IN age <= Filed \/ age < TTL + Filed

\* A call that is served an older page than one that had been served before it
\* began owes it to a race or a fault: that newer page did not get into the
\* disk cache, or an older one was still in the hand of a call that was to store it.
OldOnlyByRace ==
    \A w \in Workers :
        At(w, "served") /\ call[w].page < floor[w] => floor[w] \in shaky

\* A page is requested against the host's rules, or refused although they
\* allow it, only if some robots.txt request failed or was cut short within
\* the last hour, perhaps another caller's.
DecisionsExplained ==
    \A w \in Workers :
        /\ config.robots
        /\ \/ At(w, "cleared") /\ Url(w) \in Parse(config.file)
           \/ At(w, "refused") /\ Url(w) \notin Parse(config.file)
        => now - mishap <= Hour

\* The parser agrees with its reference on every file of AllFiles (evaluated
\* before anything has happened).
ParserReference ==
    now = 0 /\ born = <<>> /\ (\A w \in Workers : call[w] = Idle) /\ restarts = 0
        /\ rules = NoRules => \A f \in AllFiles : ReadsLastAgent(f)
=============================================================================
