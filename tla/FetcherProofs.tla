--------------------------- MODULE FetcherProofs ---------------------------
(***************************************************************************)
(* How old a page can be that Fetcher serves, why it can be older than one  *)
(* served before, and why Fetcher decides against a host's rules, for all   *)
(* lifetimes, URLs, workers and files.                                      *)
(***************************************************************************)
EXTENDS Fetcher, SequenceTheorems, WellFoundedInduction, TLAPS

LEMMA IdleCall ==
    ASSUME NEW n \in Nat
    PROVE  Idle \in [at : Places, url : Urls, ctx : {"live", "done"}, page : 0..n, streams : BOOLEAN]
BY UrlsAssumption DEF Idle, AnyUrl, Places

\* A call moves on, with or without a page.
LEMMA GoType ==
    ASSUME TypeOK, NEW w \in Workers, NEW place \in Places, Go(w, place), UNCHANGED born
    PROVE  call' \in [Workers -> Calls']
<1>1. call \in [Workers -> Calls] /\ Calls' = Calls
    BY DEF TypeOK, Calls
<1>2. [call[w] EXCEPT !.at = place] \in Calls
    BY <1>1 DEF Calls
<1>3. QED
    BY <1>1, <1>2 DEF Go

LEMMA HoldType ==
    ASSUME TypeOK, NEW w \in Workers, NEW place \in Places, NEW p \in 0..Len(born'),
           Hold(w, place, p), Len(born') \in Nat, Len(born) <= Len(born')
    PROVE  call' \in [Workers -> Calls']
<1>1. call \in [Workers -> Calls] /\ Len(born) \in Nat
    BY DEF TypeOK
<1>2. [call[w] EXCEPT !.at = place, !.page = p] \in Calls'
    BY <1>1 DEF Calls
<1>3. \A v \in Workers : call[v] \in Calls'
    BY <1>1 DEF Calls
<1>4. QED
    BY <1>1, <1>2, <1>3 DEF Hold

\* A page that arrives leaves the others their numbers and their times.
LEMMA Arrival ==
    ASSUME TypeOK, NEW t \in 0..MaxNow, born' = Append(born, t), delay' = Append(delay, 0)
    PROVE  /\ born' \in Seq(0..MaxNow) /\ Len(born') = Len(born) + 1
           /\ delay' \in Seq(Nat) /\ Len(delay') = Len(born')
           /\ \A p \in 1..Len(born) : born'[p] = born[p] /\ delay'[p] = delay[p]
           /\ born'[Len(born) + 1] = t /\ delay'[Len(born) + 1] = 0
BY BoundsAssumption DEF TypeOK

\* A tick leaves one delay per page, and none is shorter than before.
LEMMA Delays ==
    ASSUME TypeOK, Tick
    PROVE  /\ delay' \in Seq(Nat) /\ Len(delay') = Len(born)
           /\ \A p \in 1..Len(born) : /\ born[p] \in Nat /\ delay[p] \in Nat /\ delay'[p] \in Nat
                                     /\ delay'[p] >= delay[p]
                                     /\ \A w \in Workers : At(w, "stream") /\ call[w].page = p
                                                           => delay'[p] = delay[p] + 1
<1>1. PICK n \in Nat : n = Len(born)
    BY DEF TypeOK
<1>2. \A p \in 1..n : delay[p] \in Nat /\ born[p] \in Nat
    BY <1>1, BoundsAssumption DEF TypeOK
<1>3. PICK d \in [1..n -> Nat] :
          /\ delay' = d
          /\ \A p \in 1..n : d[p] = IF \E w \in Workers : At(w, "stream") /\ call[w].page = p
                                  THEN delay[p] + 1 ELSE delay[p]
    BY <1>1, <1>2 DEF Tick, Pages
<1>4. d \in Seq(Nat) /\ Len(d) = n
    BY <1>1, <1>3
<1>5. QED
    BY <1>1, <1>2, <1>3, <1>4

LEMMA InitType == Init => TypeOK
<1> SUFFICES ASSUME Init PROVE TypeOK
    OBVIOUS
<1>1. <<>> \in Seq(0..MaxNow) /\ Len(<<>>) = 0
    OBVIOUS
<1>2. Idle \in Calls
    <2>1. Len(born) \in Nat
        BY <1>1 DEF Init
    <2>2. QED
        BY <2>1, IdleCall DEF Calls
<1>3. born \in Seq(0..MaxNow) /\ Len(born) = 0 /\ delay \in Seq(Nat) /\ Len(delay) = 0
    BY <1>1 DEF Init
<1>4. /\ NoEntry \in [page : 0..Len(born), till : 0..MaxNow + TTL]
      /\ NoFile \in [page : 0..Len(born), at : 0..MaxNow]
    BY <1>3, LifetimeAssumption, BoundsAssumption DEF NoEntry, NoFile
<1>5. call \in [Workers -> Calls]
    BY <1>2 DEF Init
<1>6. QED
    BY <1>3, <1>4, <1>5, BoundsAssumption DEF Init, TypeOK

LEMMA StepType == TypeOK /\ [Next]_vars => TypeOK'
<1> SUFFICES ASSUME TypeOK, [Next]_vars PROVE TypeOK'
    OBVIOUS
<1>0. /\ now \in 0..MaxNow /\ born \in Seq(0..MaxNow) /\ Len(born) \in Nat
      /\ call \in [Workers -> Calls]
      /\ \A w \in Workers : Url(w) \in Urls /\ call[w].page \in 0..Len(born)
    BY DEF TypeOK, Calls, Url
<1>i. Idle \in Calls
    BY <1>0, IdleCall DEF Calls
<1> USE LifetimeAssumption, BoundsAssumption
<1>1. ASSUME NEW w \in Workers, Leave(w) PROVE TypeOK'
    <2>1. call' \in [Workers -> Calls] /\ born' = born
        BY <1>0, <1>i, <1>1 DEF Leave
    <2>2. floor' \in [Workers -> 0..Len(born)]
        BY <1>0, <1>1 DEF Leave, TypeOK
    <2>3. QED
        BY <1>0, <1>1, <2>1, <2>2 DEF Leave, TypeOK, Calls
<1>2. ASSUME NEW w \in Workers, NEW u \in Urls, NEW place \in Places, NEW p \in 0..Len(born),
             NEW b \in BOOLEAN, Begin(w, u, place, p, b)
      PROVE TypeOK'
    <2>1. [at |-> place, url |-> u, ctx |-> "live", page |-> p, streams |-> b] \in Calls
        BY DEF Calls
    <2>2. call' \in [Workers -> Calls] /\ born' = born
        BY <1>0, <1>2, <2>1 DEF Begin
    <2>3. newest' \in [Urls -> 0..Len(born)] /\ floor' \in [Workers -> 0..Len(born)]
        BY <1>0, <1>2 DEF Begin, TypeOK
    <2>4. QED
        BY <1>0, <1>2, <2>2, <2>3 DEF Begin, TypeOK, Calls
<1>3. ASSUME NEW w \in Workers, Fetch(w) \/ FetchStream(w) PROVE TypeOK'
    <2>1. \A u \in Urls : l1[u].page \in 0..Len(born) /\ 0 \in 0..Len(born)
        BY <1>0 DEF TypeOK
    <2>2. QED
        BY <1>2, <1>3, <2>1 DEF Fetch, FetchStream, Places, Local
<1>4. ASSUME NEW w \in Workers, Cancel(w) PROVE TypeOK'
    <2>1. [call[w] EXCEPT !.ctx = "done"] \in Calls
        BY <1>0 DEF Calls
    <2>2. call' \in [Workers -> Calls] /\ born' = born
        BY <1>0, <1>4, <2>1 DEF Cancel, history
    <2>3. QED
        BY <1>0, <1>4, <2>2 DEF Cancel, history, TypeOK, Calls
<1>5. ASSUME NEW w \in Workers, LookL2(w) PROVE TypeOK'
    <2> DEFINE e == l2[Url(w)]
    <2>1. born' = born /\ e.page \in 0..Len(born)
        BY <1>0, <1>5 DEF LookL2, TypeOK
    <2>2. call' \in [Workers -> Calls']
        <3>1. CASE Hold(w, "keep", e.page)
            BY <1>0, <2>1, <3>1, HoldType DEF Places, Local
        <3>2. CASE Go(w, "limiter")
            BY <2>1, <3>2, GoType DEF Places, Local
        <3>3. QED
            BY <1>5, <3>1, <3>2 DEF LookL2
    <2>3. NoFile \in [page : 0..Len(born), at : 0..MaxNow]
        BY <1>0 DEF NoFile
    <2>4. l2' \in [Urls -> [page : 0..Len(born), at : 0..MaxNow]]
        BY <1>5, <2>3 DEF LookL2, TypeOK
    <2>5. shaky' \subseteq 0..Len(born)
        BY <1>0, <1>5, <2>1 DEF LookL2, TypeOK
    <2>6. QED
        BY <1>0, <1>5, <2>1, <2>2, <2>4, <2>5 DEF LookL2, TypeOK
<1>6. ASSUME NEW w \in Workers, Serve(w, call[w].page), born' = born
      PROVE  call' \in [Workers -> Calls'] /\ newest' \in [Urls -> 0..Len(born)]
    <2>1. call' \in [Workers -> Calls']
        BY <1>0, <1>6, HoldType DEF Serve, Places, Local
    <2>2. QED
        BY <1>0, <1>6, <2>1 DEF Serve, TypeOK
<1>7. ASSUME NEW w \in Workers
      PROVE  /\ [page |-> call[w].page, till |-> now + TTL] \in [page : 0..Len(born), till : 0..MaxNow + TTL]
             /\ [page |-> call[w].page, at |-> now] \in [page : 0..Len(born), at : 0..MaxNow]
    BY <1>0
<1>8. ASSUME NEW w \in Workers, Keep(w) PROVE TypeOK'
    <2>1. l1' \in [Urls -> [page : 0..Len(born), till : 0..MaxNow + TTL]] /\ born' = born
        BY <1>7, <1>8 DEF Keep, TypeOK
    <2>2. call' \in [Workers -> Calls'] /\ newest' \in [Urls -> 0..Len(born)]
        BY <1>6, <1>8, <2>1 DEF Keep
    <2>3. QED
        BY <1>8, <2>1, <2>2 DEF Keep, TypeOK
<1>9. ASSUME NEW w \in Workers, Admit(w) PROVE TypeOK'
    <2>1. born' = born
        BY <1>9 DEF Admit, history
    <2>2. call' \in [Workers -> Calls']
        <3>1. \A place \in Places : Go(w, place) => call' \in [Workers -> Calls']
            BY <2>1, GoType
        <3>2. QED
            BY <1>9, <3>1 DEF Admit, Decision, Places, Local
    <2>3. asked' \in [Workers -> 0..MaxNow]
        BY <1>0, <1>9 DEF Admit, TypeOK
    <2>4. QED
        BY <1>9, <2>1, <2>2, <2>3 DEF Admit, history, TypeOK
<1>10. ASSUME NEW w \in Workers, NEW denied, Settle(w, denied) PROVE TypeOK'
    <2>1. born' = born
        BY <1>10 DEF Settle
    <2>2. call' \in [Workers -> Calls']
        <3>1. \A place \in Places : Go(w, place) => call' \in [Workers -> Calls']
            BY <2>1, GoType
        <3>2. QED
            BY <1>10, <3>1 DEF Settle, Decision, Places, Local
    <2>3. rules'.at \in 0..MaxNow /\ asked' \in [Workers -> 0..MaxNow]
        BY <1>0, <1>10 DEF Settle, TypeOK
    <2>4. QED
        BY <1>10, <2>1, <2>2, <2>3 DEF Settle, TypeOK
<1>11. ASSUME NEW w \in Workers, Request(w) PROVE TypeOK'
    <2>1. born' = born
        BY <1>11 DEF Request, history
    <2>2. call' \in [Workers -> Calls']
        BY <1>11, <2>1, GoType DEF Request, Places
    <2>3. QED
        BY <1>11, <2>1, <2>2 DEF Request, history, TypeOK
<1>12. ASSUME NEW w \in Workers, PageArrives(w) PROVE TypeOK'
    <2>1. /\ born' \in Seq(0..MaxNow) /\ Len(born') = Len(born) + 1
          /\ delay' \in Seq(Nat) /\ Len(delay') = Len(born')
        BY <1>0, <1>12, Arrival DEF PageArrives
    <2>2. call' \in [Workers -> Calls']
        <3>1. PICK p : p = Len(born) + 1
            OBVIOUS
        <3>2. p \in 0..Len(born') /\ Len(born') \in Nat /\ Len(born) <= Len(born')
            BY <1>0, <2>1, <3>1
        <3>3. Hold(w, "stream", p) \/ Hold(w, "store", p)
            BY <1>12, <3>1 DEF PageArrives
        <3>4. "stream" \in Places /\ "store" \in Places
            BY DEF Places, Local
        <3>5. QED
            BY <3>2, <3>3, <3>4, HoldType
    <2>3. shaky' \subseteq 0..Len(born')
        <3>1. 0..Len(born) \subseteq 0..Len(born') /\ Len(born) + 1 \in 0..Len(born')
            BY <1>0, <2>1
        <3>2. shaky \subseteq 0..Len(born) /\ shaky' \subseteq shaky \cup {Len(born) + 1}
            BY <1>12 DEF PageArrives, Stained, TypeOK
        <3>3. QED
            BY <3>1, <3>2
    <2>4. 0..Len(born) \subseteq 0..Len(born')
        BY <1>0, <2>1
    <2>5. /\ l1' \in [Urls -> [page : 0..Len(born'), till : 0..MaxNow + TTL]]
          /\ l2' \in [Urls -> [page : 0..Len(born'), at : 0..MaxNow]]
        BY <1>12, <2>4 DEF PageArrives, TypeOK
    <2>6. newest' \in [Urls -> 0..Len(born')] /\ floor' \in [Workers -> 0..Len(born')]
        BY <1>12, <2>4 DEF PageArrives, TypeOK
    <2>7. QED
        BY <1>12, <2>1, <2>2, <2>3, <2>5, <2>6 DEF PageArrives, TypeOK
<1>13. ASSUME NEW w \in Workers, StoreL1(w) PROVE TypeOK'
    <2>1. l1' \in [Urls -> [page : 0..Len(born), till : 0..MaxNow + TTL]] /\ born' = born
        BY <1>7, <1>13 DEF StoreL1, TypeOK
    <2>2. call' \in [Workers -> Calls'] /\ newest' \in [Urls -> 0..Len(born)]
        <3>1. CASE Go(w, "put") /\ newest' = newest
            <4>1. call' \in [Workers -> Calls']
                BY <2>1, <3>1, GoType DEF Places, Local
            <4>2. QED
                BY <3>1, <4>1 DEF TypeOK
        <3>2. QED
            BY <1>6, <1>13, <2>1, <3>1 DEF StoreL1
    <2>3. QED
        BY <1>13, <2>1, <2>2 DEF StoreL1, TypeOK
<1>14. ASSUME NEW w \in Workers, Put(w) PROVE TypeOK'
    <2>1. l2' \in [Urls -> [page : 0..Len(born), at : 0..MaxNow]] /\ born' = born
        BY <1>7, <1>14 DEF Put, TypeOK
    <2>2. call' \in [Workers -> Calls'] /\ newest' \in [Urls -> 0..Len(born)]
        BY <1>6, <1>14, <2>1 DEF Put
    <2>3. shaky' \subseteq 0..Len(born)
        <3>1. shaky \subseteq 0..Len(born) /\ shaky' \subseteq shaky \cup {call[w].page}
            BY <1>14 DEF Put, TypeOK
        <3>2. QED
            BY <1>0, <3>1
    <2>4. QED
        BY <1>14, <2>1, <2>2, <2>3 DEF Put, TypeOK
<1>s. ASSUME NEW w \in Workers, Streamed(w) PROVE TypeOK'
    <2>1. [call[w] EXCEPT !.at = "store", !.streams = FALSE] \in Calls
        BY <1>0 DEF Calls, Places, Local
    <2>2. call' \in [Workers -> Calls] /\ born' = born
        BY <1>0, <1>s, <2>1 DEF Streamed
    <2>3. shaky' \subseteq 0..Len(born)
        BY <1>0, <1>s DEF Streamed, Stained, TypeOK
    <2>4. QED
        BY <1>s, <2>2, <2>3 DEF Streamed, TypeOK, Calls
<1>15. ASSUME Tick PROVE TypeOK'
    <2>1. now' \in 0..MaxNow /\ born' = born /\ delay' \in Seq(Nat) /\ Len(delay') = Len(born)
        BY <1>0, <1>15, Delays DEF Tick
    <2>2. QED
        BY <1>15, <2>1 DEF Tick, state, TypeOK, Calls
<1>16. ASSUME Restart PROVE TypeOK'
    <2>1. NoEntry \in [page : 0..Len(born), till : 0..MaxNow + TTL]
        BY <1>0 DEF NoEntry
    <2>2. call' \in [Workers -> Calls] /\ born' = born
        BY <1>i, <1>16 DEF Restart
    <2>3. shaky' \subseteq 0..Len(born)
        BY <1>0, <1>16 DEF Restart, TypeOK
    <2>4. /\ l1' \in [Urls -> [page : 0..Len(born), till : 0..MaxNow + TTL]]
          /\ asked' \in [Workers -> 0..MaxNow] /\ floor' \in [Workers -> 0..Len(born)]
        BY <1>0, <1>16, <2>1 DEF Restart
    <2>5. QED
        BY <1>16, <2>2, <2>3, <2>4 DEF Restart, TypeOK, Calls
<1>17. ASSUME UNCHANGED vars PROVE TypeOK'
    BY <1>17 DEF vars, state, history, TypeOK, Calls
<1>18. ASSUME NEW w \in Workers, Step(w) PROVE TypeOK'
    <2>1. CASE Fetch(w) \/ FetchStream(w) \/ Cancel(w) \/ LookL2(w) \/ Keep(w)
        BY <1>3, <1>4, <1>5, <1>8, <2>1
    <2>2. CASE Admit(w) \/ LimiterAborts(w) \/ RobotsRead(w) \/ RobotsCut(w) \/ RobotsFails(w)
        BY <1>1, <1>9, <1>10, <2>2 DEF LimiterAborts, RobotsRead, RobotsCut, RobotsFails
    <2>3. CASE Refuse(w) \/ Request(w) \/ PageFails(w) \/ PageArrives(w)
        BY <1>1, <1>11, <1>12, <2>3 DEF Refuse, PageFails
    <2>4. CASE Streamed(w) \/ StoreL1(w) \/ Put(w) \/ Return(w)
        BY <1>1, <1>s, <1>13, <1>14, <2>4 DEF Return
    <2>5. QED
        BY <1>18, <2>1, <2>2, <2>3, <2>4 DEF Step
<1>19. QED
    BY <1>15, <1>16, <1>17, <1>18 DEF Next

\* The caches, the rules and the calls keep their types.
THEOREM TypeCorrect == Spec => []TypeOK
BY InitType, StepType, PTL DEF Spec

-----------------------------------------------------------------------------
(* How old a page can be.                                                   *)

\* A page in a hand: served, or on its way into a cache.  While time passes it
\* can only be in the hand of a FetchStream that is held back.
HandAged(w) ==
    LET p == call[w].page
    IN /\ call[w].at \in {"keep", "stream", "store", "put", "served"} => p # 0
       /\ At(w, "l2") => config.disk
       /\ At(w, "keep") => now - Freed(p) <= Filed
       /\ call[w].at \in {"stream", "store", "put"} => now <= Freed(p)
       /\ At(w, "served") => now - Freed(p) <= Filed \/ now - Freed(p) < TTL + Filed

\* A file has the time at which its page got free; a memory entry expires within
\* both lifetimes of that, because it was made from a file that had not expired.
EntryAged(u) ==
    /\ l1[u].page # 0 => l1[u].till <= Freed(l1[u].page) + TTL + Filed
    /\ l2[u].page # 0 => l2[u].at <= Freed(l2[u].page)

Aged == (\A w \in Workers : HandAged(w)) /\ (\A u \in Urls : EntryAged(u))

LEMMA InitAged == Init => Aged
BY DEF Init, Aged, HandAged, EntryAged, Idle, At, NoEntry, NoFile

\* A hand and an entry that a step leaves alone stay as they are.
LEMMA Untouched ==
    ASSUME TypeOK, Aged, now' = now, config' = config,
           \A p \in 1..Len(born) : born'[p] = born[p] /\ delay'[p] = delay[p]
    PROVE  /\ \A v \in Workers : call'[v] = call[v] => HandAged(v)'
           /\ \A u \in Urls : l1'[u] = l1[u] /\ l2'[u] = l2[u] => EntryAged(u)'
<1>1. ASSUME NEW v \in Workers, call'[v] = call[v] PROVE HandAged(v)'
    <2>1. call[v].page # 0 => Freed(call[v].page)' = Freed(call[v].page)
        BY <1>1 DEF TypeOK, Calls, Freed
    <2>2. QED
        BY <1>1, <2>1 DEF Aged, HandAged, At, Filed
<1>2. ASSUME NEW u \in Urls, l1'[u] = l1[u], l2'[u] = l2[u] PROVE EntryAged(u)'
    <2>1. /\ l1[u].page # 0 => Freed(l1[u].page)' = Freed(l1[u].page)
          /\ l2[u].page # 0 => Freed(l2[u].page)' = Freed(l2[u].page)
        <3>1. l1[u].page \in 0..Len(born) /\ l2[u].page \in 0..Len(born)
            BY DEF TypeOK
        <3>2. QED
            BY <1>2, <3>1 DEF Freed
    <2>2. QED
        BY <1>2, <2>1 DEF Aged, EntryAged, Filed
<1>3. QED
    BY <1>1, <1>2

\* A step that touches the hand of w and the entries of one URL.
LEMMA Touched ==
    ASSUME TypeOK, Aged, now' = now, config' = config,
           \A p \in 1..Len(born) : born'[p] = born[p] /\ delay'[p] = delay[p],
           NEW w \in Workers, NEW u \in Urls,
           \A v \in Workers \ {w} : call'[v] = call[v],
           \A x \in Urls \ {u} : l1'[x] = l1[x] /\ l2'[x] = l2[x],
           HandAged(w)', EntryAged(u)'
    PROVE  Aged'
<1>1. \A v \in Workers : HandAged(v)'
    BY Untouched
<1>2. \A x \in Urls : EntryAged(x)'
    BY Untouched
<1>3. QED
    BY <1>1, <1>2 DEF Aged

LEMMA StepAged == TypeOK /\ Aged /\ [Next]_vars => Aged'
<1> SUFFICES ASSUME TypeOK, Aged, [Next]_vars PROVE Aged'
    OBVIOUS
<1>0. /\ now \in Nat /\ Len(born) \in Nat /\ TTL \in Nat /\ DiskTTL \in Nat /\ Filed \in Nat
      /\ call \in [Workers -> Calls] /\ \A w \in Workers : Url(w) \in Urls
      /\ \A p \in 1..Len(born) : Freed(p) \in Nat
    BY LifetimeAssumption, BoundsAssumption DEF TypeOK, Calls, Url, Freed, Filed
<1>i. \A v \in Workers : call[v].page \in 0..Len(born)
    BY <1>0 DEF Calls
<1>k. ASSUME UNCHANGED <<config, born, delay>>
      PROVE  Filed' = Filed /\ \A p : Freed(p)' = Freed(p)
    BY <1>k DEF Filed, Freed
<1>1. ASSUME UNCHANGED <<config, now, born, delay, l1, l2>>,
             NEW w \in Workers, NEW c, call' = [call EXCEPT ![w] = c], HandAged(w)'
      PROVE  Aged'
    <2>1. PICK u \in Urls : u = Url(w)
        BY <1>0
    <2>2. EntryAged(u)'
        BY <1>1, Untouched
    <2>3. \A v \in Workers \ {w} : call'[v] = call[v]
        BY <1>0, <1>1
    <2>4. QED
        BY <1>1, <2>2, <2>3, Touched
<1>2. ASSUME NEW w \in Workers, NEW c, call' = [call EXCEPT ![w] = c],
             c.at \notin {"l2", "keep", "stream", "store", "put", "served"}
      PROVE  HandAged(w)'
    BY <1>0, <1>2 DEF HandAged, At
<1>3. ASSUME NEW w \in Workers, Leave(w) PROVE Aged'
    BY <1>1, <1>2, <1>3 DEF Leave, Idle
<1>4. ASSUME NEW w \in Workers, Fetch(w) \/ FetchStream(w) PROVE Aged'
    <2>1. ASSUME NEW u \in Urls, NEW place \in {"l2", "limiter"}, NEW b,
                 Begin(w, u, place, 0, b), place = "l2" => config.disk
          PROVE  Aged'
        <3>1. /\ call'[w].at = place /\ config' = config
            BY <1>0, <2>1 DEF Begin
        <3>2. HandAged(w)'
            BY <2>1, <3>1 DEF HandAged, At
        <3>3. QED
            BY <1>1, <2>1, <3>2 DEF Begin
    <2>2. ASSUME NEW u \in Urls, Hit(u), Begin(w, u, "served", l1[u].page, FALSE) PROVE Aged'
        <3> DEFINE p == l1[u].page
        <3>1. p \in 1..Len(born) /\ now < Freed(p) + TTL + Filed
            <4>1. p \in 0..Len(born) /\ l1[u].till \in Nat /\ p # 0 /\ now < l1[u].till
                BY <1>0, <2>2, BoundsAssumption DEF Hit, TypeOK
            <4>2. l1[u].till <= Freed(p) + TTL + Filed
                BY <4>1 DEF Aged, EntryAged
            <4>3. QED
                BY <1>0, <4>1, <4>2
        <3>2. /\ call'[w].at = "served" /\ call'[w].page = p
              /\ UNCHANGED <<config, now, born, delay>>
            BY <1>0, <2>2 DEF Begin
        <3>3. HandAged(w)'
            BY <1>0, <1>k, <3>1, <3>2 DEF HandAged, At
        <3>4. QED
            BY <1>1, <2>2, <3>3 DEF Begin
    <2>3. QED
        BY <1>4, <2>1, <2>2 DEF Fetch, FetchStream
<1>5. ASSUME NEW w \in Workers, NEW place, Go(w, place), UNCHANGED <<config, now, born, delay, l1, l2>>,
             place \notin {"l2", "keep", "stream", "store", "put", "served"}
      PROVE  Aged'
    BY <1>0, <1>1, <1>2, <1>5 DEF Go, Calls
<1>6. ASSUME NEW w \in Workers, Cancel(w) PROVE Aged'
    <2>1. [call[w] EXCEPT !.ctx = "done"].at \notin {"l2", "keep", "stream", "store", "put", "served"}
        BY <1>0, <1>6 DEF Cancel, Calls
    <2>2. QED
        BY <1>1, <1>2, <1>6, <2>1 DEF Cancel, history
<1>7. ASSUME NEW w \in Workers, LookL2(w) PROVE Aged'
    <2>0. PICK u \in Urls : u = Url(w)
        BY <1>0
    <2> DEFINE e == l2[u]
    <2>1. /\ UNCHANGED <<config, now, born, delay, l1>> /\ config.disk
          /\ \A v \in Workers \ {w} : call'[v] = call[v]
          /\ \A x \in Urls \ {u} : l2'[x] = l2[x]
        BY <1>0, <2>0, <1>7 DEF LookL2, Hold, Go, TypeOK, Aged, HandAged
    <2>2. CASE e.page # 0 /\ now - e.at <= DiskTTL
        <3>1. call'[w].at = "keep" /\ call'[w].page = e.page /\ l2' = l2
            BY <1>0, <2>0, <1>7, <2>2 DEF LookL2, Hold, Calls
        <3>2. now - Freed(e.page) <= Filed
            <4>1. e.page \in 1..Len(born) /\ e.at \in Nat /\ e.at <= Freed(e.page) /\ Filed = DiskTTL
                BY <1>0, <2>0, <2>1, <2>2, BoundsAssumption DEF Aged, EntryAged, Filed, TypeOK
            <4>2. QED
                BY <1>0, <2>2, <4>1
        <3>3. HandAged(w)'
            BY <1>k, <2>1, <2>2, <3>1, <3>2 DEF HandAged, At
        <3>4. EntryAged(u)'
            BY <1>0, <2>0, <2>1, <3>1, Untouched
        <3>5. QED
            BY <1>0, <2>0, <2>1, <3>3, <3>4, Touched
    <2>3. CASE ~(e.page # 0 /\ now - e.at <= DiskTTL)
        <3>1. call'[w].at = "limiter" /\ l2'[u] = NoFile
            BY <1>0, <2>0, <1>7, <2>3 DEF LookL2, Go, Calls, TypeOK
        <3>2. HandAged(w)'
            BY <3>1 DEF HandAged, At
        <3>3. EntryAged(u)'
            BY <1>0, <1>k, <2>0, <2>1, <3>1 DEF Aged, EntryAged, NoFile
        <3>4. QED
            BY <1>0, <2>0, <2>1, <3>2, <3>3, Touched
    <2>4. QED
        BY <2>2, <2>3
<1>8. ASSUME NEW w \in Workers, Keep(w) PROVE Aged'
    <2>0. PICK u \in Urls : u = Url(w)
        BY <1>0
    <2> DEFINE p == call[w].page
    <2>1. p \in 1..Len(born) /\ now - Freed(p) <= Filed
        BY <1>0, <2>0, <1>i, <1>8 DEF Keep, Aged, HandAged, At
    <2>2. /\ UNCHANGED <<config, now, born, delay>> /\ l2' = l2
          /\ \A v \in Workers \ {w} : call'[v] = call[v]
          /\ \A x \in Urls \ {u} : l1'[x] = l1[x]
          /\ call'[w].at = "served" /\ call'[w].page = p
          /\ l1'[u] = [page |-> p, till |-> now + TTL]
        BY <1>0, <2>0, <1>8 DEF Keep, Serve, Hold, Calls, TypeOK
    <2>3. HandAged(w)'
        BY <1>0, <1>k, <2>0, <2>1, <2>2 DEF HandAged, At
    <2>4. EntryAged(u)'
        BY <1>0, <1>k, <2>0, <2>1, <2>2 DEF EntryAged, Aged
    <2>5. QED
        BY <1>0, <2>0, <2>2, <2>3, <2>4, Touched
<1>9. ASSUME NEW w \in Workers, Admit(w) PROVE Aged'
    BY <1>5, <1>9 DEF Admit, Decision, history
<1>10. ASSUME NEW w \in Workers, NEW denied, Settle(w, denied) PROVE Aged'
    BY <1>5, <1>10 DEF Settle, Decision
<1>11. ASSUME NEW w \in Workers, Request(w) PROVE Aged'
    BY <1>5, <1>11 DEF Request, history
<1>12. ASSUME NEW w \in Workers, PageArrives(w) PROVE Aged'
    <2>0. PICK u \in Urls : u = Url(w)
        BY <1>0
    <2>p. PICK p : p = Len(born) + 1
        OBVIOUS
    <2>1. \A q \in 1..Len(born) : born'[q] = born[q] /\ delay'[q] = delay[q]
        BY <1>12, Arrival DEF PageArrives, TypeOK
    <2>2. Freed(p)' = now
        <3>1. born'[p] = now /\ delay'[p] = 0
            BY <1>12, <2>p, Arrival DEF PageArrives, TypeOK
        <3>2. QED
            BY <1>0, <3>1 DEF Freed
    <2>3. /\ UNCHANGED <<config, now, l1, l2>>
          /\ \A v \in Workers \ {w} : call'[v] = call[v]
          /\ call'[w].at \in {"stream", "store"} /\ call'[w].page = p
        BY <1>0, <2>0, <2>p, <1>12 DEF PageArrives, Hold, Calls
    <2>4. HandAged(w)'
        BY <1>0, <2>p, <2>2, <2>3 DEF HandAged, At
    <2>5. EntryAged(u)'
        BY <1>0, <2>0, <2>1, <2>3, Untouched
    <2>6. QED
        BY <1>0, <2>0, <2>1, <2>3, <2>4, <2>5, Touched
<1>s. ASSUME NEW w \in Workers, Streamed(w) PROVE Aged'
    <2>1. call[w].page # 0 /\ now <= Freed(call[w].page)
        BY <1>s DEF Streamed, Aged, HandAged, At
    <2>2. call'[w].at = "store" /\ call'[w].page = call[w].page
        BY <1>0, <1>s DEF Streamed, Calls
    <2>3. HandAged(w)'
        BY <1>k, <1>s, <2>1, <2>2 DEF Streamed, HandAged, At
    <2>4. QED
        BY <1>0, <1>1, <1>s, <2>3 DEF Streamed, Calls
<1>13. ASSUME NEW w \in Workers, StoreL1(w) PROVE Aged'
    <2>0. PICK u \in Urls : u = Url(w)
        BY <1>0
    <2> DEFINE p == call[w].page
    <2>1. p \in 1..Len(born) /\ now <= Freed(p)
        BY <1>0, <2>0, <1>i, <1>13 DEF StoreL1, Aged, HandAged, At
    <2>2. /\ UNCHANGED <<config, now, born, delay>> /\ l2' = l2
          /\ \A v \in Workers \ {w} : call'[v] = call[v]
          /\ \A x \in Urls \ {u} : l1'[x] = l1[x]
          /\ call'[w].at \in {"put", "served"} /\ call'[w].page = p
          /\ l1'[u] = [page |-> p, till |-> now + TTL]
        <3>1. Go(w, "put") \/ Hold(w, "served", p)
            BY <1>13 DEF StoreL1, Serve
        <3>2. /\ call'[w].at \in {"put", "served"} /\ call'[w].page = p
              /\ \A v \in Workers \ {w} : call'[v] = call[v]
            BY <1>0, <3>1 DEF Go, Hold, Calls
        <3>3. QED
            BY <2>0, <1>13, <3>2 DEF StoreL1, TypeOK
    <2>3. HandAged(w)'
        BY <1>0, <1>k, <2>0, <2>1, <2>2 DEF HandAged, At
    <2>4. EntryAged(u)'
        BY <1>0, <1>k, <2>0, <2>1, <2>2 DEF EntryAged, Aged
    <2>5. QED
        BY <1>0, <2>0, <2>2, <2>3, <2>4, Touched
<1>14. ASSUME NEW w \in Workers, Put(w) PROVE Aged'
    <2>0. PICK u \in Urls : u = Url(w)
        BY <1>0
    <2> DEFINE p == call[w].page
    <2>1. p \in 1..Len(born) /\ now <= Freed(p)
        BY <1>0, <2>0, <1>i, <1>14 DEF Put, Aged, HandAged, At
    <2>2. /\ UNCHANGED <<config, now, born, delay>> /\ l1' = l1
          /\ \A v \in Workers \ {w} : call'[v] = call[v]
          /\ \A x \in Urls \ {u} : l2'[x] = l2[x]
          /\ call'[w].at = "served" /\ call'[w].page = p
          /\ l2'[u] = [page |-> p, at |-> now] \/ l2'[u] = l2[u]
        BY <1>0, <2>0, <1>14 DEF Put, Serve, Hold, Calls, TypeOK
    <2>3. HandAged(w)'
        BY <1>0, <1>k, <2>0, <2>1, <2>2 DEF HandAged, At
    <2>4. EntryAged(u)'
        BY <1>0, <1>k, <2>0, <2>1, <2>2 DEF EntryAged, Aged
    <2>5. QED
        BY <1>0, <2>0, <2>2, <2>3, <2>4, Touched
<1>15. ASSUME Tick PROVE Aged'
    <2>1. UNCHANGED <<config, call, l1, l2, born>> /\ now' = now + 1 /\ Filed' = Filed
        BY <1>15 DEF Tick, state, Filed
    <2>2. \A p \in 1..Len(born) : Freed(p)' \in Nat /\ Freed(p)' >= Freed(p)
        <3>1. \A p \in 1..Len(born) : /\ born[p] \in Nat /\ delay[p] \in Nat /\ delay'[p] \in Nat
                                     /\ delay'[p] >= delay[p]
            BY <1>15, Delays
        <3>2. QED
            BY <2>1, <3>1 DEF Freed
    <2>3. ASSUME NEW w \in Workers PROVE HandAged(w)'
        <3>1. call[w].at \notin {"keep", "store", "put", "served", "l2"}
            BY <1>15 DEF Tick, Local
        <3>2. CASE At(w, "stream")
            <4>1. PICK p : p = call[w].page /\ p \in 1..Len(born) /\ now <= Freed(p)
                BY <1>0, <1>i, <3>2 DEF Aged, HandAged, At
            <4>2. Freed(p)' = Freed(p) + 1
                <5>1. born[p] \in Nat /\ delay[p] \in Nat /\ delay'[p] = delay[p] + 1
                    BY <1>15, <3>2, <4>1, Delays
                <5>2. QED
                    BY <2>1, <5>1 DEF Freed
            <4>3. QED
                BY <1>0, <2>1, <3>2, <4>1, <4>2 DEF HandAged, At
        <3>3. CASE ~At(w, "stream")
            BY <2>1, <3>1, <3>3 DEF HandAged, At
        <3>4. QED
            BY <3>2, <3>3
    <2>4. ASSUME NEW u \in Urls PROVE EntryAged(u)'
        <3>1. /\ l1[u].page \in 0..Len(born) /\ l1[u].till \in Nat
              /\ l2[u].page \in 0..Len(born) /\ l2[u].at \in Nat
            BY <1>0, BoundsAssumption DEF TypeOK
        <3>2. l1[u].page # 0 => l1[u].till <= Freed(l1[u].page)' + TTL + Filed
            BY <1>0, <2>1, <2>2, <3>1 DEF Aged, EntryAged
        <3>3. l2[u].page # 0 => l2[u].at <= Freed(l2[u].page)'
            BY <1>0, <2>1, <2>2, <3>1 DEF Aged, EntryAged
        <3>4. QED
            BY <2>1, <3>2, <3>3 DEF EntryAged
    <2>5. QED
        BY <2>3, <2>4 DEF Aged
<1>16. ASSUME Restart PROVE Aged'
    BY <1>0, <1>k, <1>16 DEF Restart, Aged, HandAged, EntryAged, At, Idle, NoEntry
<1>17. ASSUME UNCHANGED vars PROVE Aged'
    BY <1>k, <1>17 DEF vars, state, history, Aged, HandAged, EntryAged, At
<1>18. ASSUME NEW w \in Workers, Step(w) PROVE Aged'
    <2>1. CASE Fetch(w) \/ FetchStream(w) \/ Cancel(w) \/ LookL2(w) \/ Keep(w)
        BY <1>4, <1>6, <1>7, <1>8, <2>1
    <2>2. CASE Admit(w) \/ LimiterAborts(w) \/ RobotsRead(w) \/ RobotsCut(w) \/ RobotsFails(w)
        BY <1>3, <1>9, <1>10, <2>2 DEF LimiterAborts, RobotsRead, RobotsCut, RobotsFails
    <2>3. CASE Refuse(w) \/ Request(w) \/ PageFails(w) \/ PageArrives(w)
        BY <1>3, <1>11, <1>12, <2>3 DEF Refuse, PageFails
    <2>4. CASE Streamed(w) \/ StoreL1(w) \/ Put(w) \/ Return(w)
        BY <1>3, <1>s, <1>13, <1>14, <2>4 DEF Return
    <2>5. QED
        BY <1>18, <2>1, <2>2, <2>3, <2>4 DEF Step
<1>19. QED
    BY <1>15, <1>16, <1>17, <1>18 DEF Next

\* Both lifetimes together bound the age of what is served, not counting how long
\* a FetchStream held it back, for any number of callers and across restarts.
THEOREM AgeCorrect == Spec => []AgeBounded
<1>1. Aged => AgeBounded
    BY DEF Aged, HandAged, AgeBounded
<1>2. QED
    BY <1>1, InitAged, StepAged, TypeCorrect, PTL DEF Spec

-----------------------------------------------------------------------------
(* Why a decision can differ from the host's rules.                         *)

\* The cached rules are the file's, or a request that failed or was cut short
\* after they had been asked for is to blame.
RulesExplained ==
    rules = NoRules \/ rules.denied = Parse(config.file) \/ mishap >= rules.at

\* A decision that has been made and not yet acted on.
Decided(w) ==
    config.robots =>
        /\ At(w, "cleared") /\ Url(w) \in Parse(config.file) => now - mishap <= Hour
        /\ At(w, "refused") /\ Url(w) \notin Parse(config.file) => now - mishap <= Hour

Explained ==
    /\ mishap \in Int /\ RulesExplained
    /\ \A w \in Workers : asked[w] <= now /\ Decided(w)

LEMMA InitExplained == Init => Explained
BY LifetimeAssumption DEF Init, Explained, RulesExplained, Decided, At, Idle

LEMMA StepExplained == TypeOK /\ Explained /\ [Next]_vars => Explained'
<1> SUFFICES ASSUME TypeOK, Explained, [Next]_vars PROVE Explained'
    OBVIOUS
<1>0. /\ now \in Nat /\ Hour \in Nat /\ mishap \in Int /\ call \in [Workers -> Calls]
      /\ asked \in [Workers -> Nat] /\ \A w \in Workers : asked[w] <= now
      /\ rules = NoRules \/ rules.at \in Nat
    BY LifetimeAssumption, BoundsAssumption DEF TypeOK, Explained
<1>1. ASSUME UNCHANGED <<config, now, rules, asked, mishap>>,
             \A w \in Workers : \/ call'[w] = call[w]
                                \/ call'[w].at \notin {"cleared", "refused"}
      PROVE  Explained'
    BY <1>0, <1>1 DEF Explained, RulesExplained, Decided, At, Url
<1>2. ASSUME NEW w \in Workers, NEW place, place \notin {"cleared", "refused"},
             Go(w, place) \/ \E p : Hold(w, place, p)
      PROVE  \A v \in Workers : \/ call'[v] = call[v]
                                \/ call'[v].at \notin {"cleared", "refused"}
    BY <1>0, <1>2 DEF Go, Hold, Calls
<1>3. ASSUME NEW w \in Workers, Leave(w) PROVE Explained'
    BY <1>0, <1>1, <1>3 DEF Leave, Idle
<1>4. ASSUME NEW w \in Workers, Fetch(w) \/ FetchStream(w) PROVE Explained'
    <2>1. ASSUME NEW u, NEW place \in {"served", "l2", "limiter"}, NEW p, NEW b,
                 Begin(w, u, place, p, b)
          PROVE  Explained'
        BY <1>0, <1>1, <2>1 DEF Begin
    <2>2. QED
        BY <1>4, <2>1 DEF Fetch, FetchStream
<1>5. ASSUME NEW w \in Workers, Cancel(w) PROVE Explained'
    <2>1. call'[w].at \notin {"cleared", "refused"} /\ \A v \in Workers \ {w} : call'[v] = call[v]
        BY <1>0, <1>5 DEF Cancel, Calls
    <2>2. QED
        BY <1>1, <1>5, <2>1 DEF Cancel, history
<1>6. ASSUME NEW w \in Workers, LookL2(w) PROVE Explained'
    <2>1. Go(w, "limiter") \/ Hold(w, "keep", l2[Url(w)].page)
        BY <1>6 DEF LookL2
    <2>2. UNCHANGED <<config, now, rules, asked, mishap>>
        BY <1>6 DEF LookL2
    <2>3. QED
        BY <1>1, <1>2, <2>1, <2>2
<1>7. ASSUME NEW w \in Workers, Keep(w) \/ Put(w) PROVE Explained'
    <2>1. Hold(w, "served", call[w].page) /\ UNCHANGED <<config, now, rules, asked, mishap>>
        BY <1>7 DEF Keep, Put, Serve
    <2>2. QED
        BY <1>1, <1>2, <2>1
<1>8. ASSUME NEW w \in Workers, Admit(w) PROVE Explained'
    <2>1. /\ UNCHANGED <<config, now, rules, mishap>> /\ call'[w].url = call[w].url
          /\ \A v \in Workers \ {w} : call'[v] = call[v]
          /\ \A v \in Workers : asked'[v] <= now
        <3>1. UNCHANGED <<config, now, rules, mishap>>
            BY <1>8 DEF Admit, history
        <3>2. \A v \in Workers : asked'[v] <= now
            BY <1>0, <1>8 DEF Admit
        <3>3. PICK place : Go(w, place)
            BY <1>8 DEF Admit
        <3>4. call'[w].url = call[w].url /\ \A v \in Workers \ {w} : call'[v] = call[v]
            BY <1>0, <3>3 DEF Go, Calls
        <3>5. QED
            BY <3>1, <3>2, <3>4
    <2>2. Decided(w)'
        <3>1. CASE config.robots /\ Stale(rules)
            <4>1. call'[w].at = "robots"
                BY <1>0, <1>8, <3>1 DEF Admit, Go, Calls
            <4>2. QED
                BY <4>1 DEF Decided, At
        <3>2. CASE config.robots /\ ~Stale(rules)
            <4>1. call'[w].at = Decision(w, rules)
                BY <1>0, <1>8, <3>2 DEF Admit, Go, Calls
            <4>2. rules # NoRules /\ now - rules.at <= Hour
                BY <1>0, <3>2 DEF Stale, NoRules
            <4>3. rules.denied = Parse(config.file) \/ now - mishap <= Hour
                BY <1>0, <4>2 DEF Explained, RulesExplained
            <4>4. QED
                BY <2>1, <4>1, <4>3 DEF Decision, Decided, At, Url
        <3>3. CASE ~config.robots
            BY <2>1, <3>3 DEF Decided
        <3>4. QED
            BY <3>1, <3>2, <3>3
    <2>3. QED
        BY <1>0, <2>1, <2>2 DEF Explained, RulesExplained, Decided, At, Url
<1>9. ASSUME NEW w \in Workers, NEW denied, Settle(w, denied),
             (denied = Parse(config.file) /\ mishap' = mishap) \/ mishap' = now
      PROVE  Explained'
    <2>1. /\ UNCHANGED <<config, now>> /\ call'[w].url = call[w].url
          /\ \A v \in Workers \ {w} : call'[v] = call[v]
          /\ \A v \in Workers : asked'[v] <= now
          /\ rules' = [denied |-> denied, at |-> asked[w]]
          /\ call'[w].at = IF Url(w) \in denied THEN "refused" ELSE "cleared"
        BY <1>0, <1>9 DEF Settle, Decision, Go, Calls
    <2>2. RulesExplained' /\ mishap' \in Int
        BY <1>0, <1>9, <2>1 DEF RulesExplained
    <2>3. Decided(w)'
        BY <1>0, <1>9, <2>1 DEF Decided, At, Url
    <2>4. \A v \in Workers \ {w} : Decided(v)'
        BY <1>0, <1>9, <2>1 DEF Explained, Decided, At, Url
    <2>5. QED
        BY <2>1, <2>2, <2>3, <2>4 DEF Explained
<1>10. ASSUME NEW w \in Workers, RobotsRead(w) \/ RobotsCut(w) \/ RobotsFails(w) PROVE Explained'
    BY <1>9, <1>10 DEF RobotsRead, RobotsCut, RobotsFails
<1>11. ASSUME NEW w \in Workers, Request(w) PROVE Explained'
    BY <1>1, <1>2, <1>11 DEF Request, history
<1>12. ASSUME NEW w \in Workers, PageArrives(w) PROVE Explained'
    <2>1. Hold(w, "stream", Len(born) + 1) \/ Hold(w, "store", Len(born) + 1)
        BY <1>12 DEF PageArrives
    <2>2. UNCHANGED <<config, now, rules, asked, mishap>>
        BY <1>12 DEF PageArrives
    <2>3. \A v \in Workers : call'[v] = call[v] \/ call'[v].at \notin {"cleared", "refused"}
        BY <1>0, <2>1 DEF Go, Hold, Calls
    <2>4. QED
        BY <1>1, <2>2, <2>3
<1>s. ASSUME NEW w \in Workers, Streamed(w) PROVE Explained'
    <2>1. call'[w].at = "store" /\ \A v \in Workers \ {w} : call'[v] = call[v]
        BY <1>0, <1>s DEF Streamed, Calls
    <2>2. QED
        BY <1>1, <1>s, <2>1 DEF Streamed
<1>13. ASSUME NEW w \in Workers, StoreL1(w) PROVE Explained'
    <2>1. Go(w, "put") \/ Hold(w, "served", call[w].page)
        BY <1>13 DEF StoreL1, Serve
    <2>2. UNCHANGED <<config, now, rules, asked, mishap>>
        BY <1>13 DEF StoreL1
    <2>3. \A v \in Workers : call'[v] = call[v] \/ call'[v].at \notin {"cleared", "refused"}
        BY <1>0, <2>1 DEF Go, Hold, Calls
    <2>4. QED
        BY <1>1, <2>2, <2>3
<1>14. ASSUME Tick PROVE Explained'
    <2>1. \A w \in Workers : call[w].at \notin {"cleared", "refused"}
        BY <1>14 DEF Tick, Local
    <2>2. QED
        BY <1>0, <1>14, <2>1 DEF Tick, state, history, Explained, RulesExplained, Decided, At
<1>15. ASSUME Restart PROVE Explained'
    BY <1>0, <1>15 DEF Restart, Explained, RulesExplained, Decided, At, Idle
<1>16. ASSUME UNCHANGED vars PROVE Explained'
    BY <1>16 DEF vars, state, history, Explained, RulesExplained, Decided, At, Url
<1>17. ASSUME NEW w \in Workers, Step(w) PROVE Explained'
    <2>1. CASE Fetch(w) \/ FetchStream(w) \/ Cancel(w) \/ LookL2(w) \/ Keep(w)
        BY <1>4, <1>5, <1>6, <1>7, <2>1
    <2>2. CASE Admit(w) \/ LimiterAborts(w) \/ RobotsRead(w) \/ RobotsCut(w) \/ RobotsFails(w)
        BY <1>3, <1>8, <1>10, <2>2 DEF LimiterAborts
    <2>3. CASE Refuse(w) \/ Request(w) \/ PageFails(w) \/ PageArrives(w)
        BY <1>3, <1>11, <1>12, <2>3 DEF Refuse, PageFails
    <2>4. CASE Streamed(w) \/ StoreL1(w) \/ Put(w) \/ Return(w)
        BY <1>3, <1>7, <1>s, <1>13, <2>4 DEF Return
    <2>5. QED
        BY <1>17, <2>1, <2>2, <2>3, <2>4 DEF Step
<1>18. QED
    BY <1>14, <1>15, <1>16, <1>17 DEF Next

\* A decision against the host's rules has a failed or truncated request for
\* robots.txt within the hour before it, whoever made it.
THEOREM DecisionsCorrect == Spec => []DecisionsExplained
<1>1. Explained => DecisionsExplained
    BY DEF Explained, Decided, DecisionsExplained
<1>2. QED
    BY <1>1, InitExplained, StepExplained, TypeCorrect, PTL DEF Spec

-----------------------------------------------------------------------------
(* Why a page can be served that is older than one served before.           *)

\* The pages of a URL that an older one must not hide: in a cache, in a hand on
\* its way into one, or served; and not stained by a race or a fault.
Known(x, p) ==
    /\ p # 0 /\ p \notin shaky
    /\ \/ p \in {l1[x].page, l2[x].page, newest[x]}
       \/ \E w \in Workers : Url(w) = x /\ (floor[w] = p \/ (Holding(w) /\ call[w].page = p))

InHand(x, p, places) == \E w \in Workers : Url(w) = x /\ call[w].at \in places /\ call[w].page = p

\* No hand carries an older page; each tier has the page or a newer one, has
\* nothing, or is about to get the page from the call that fetched it.
Ordered(x, p) ==
    /\ \A v \in Workers : Carrying(v) /\ Url(v) = x => p <= call[v].page
    /\ InHand(x, p, {"store", "put"}) \/ l2[x].page = 0 \/ p <= l2[x].page
    /\ InHand(x, p, {"store"}) \/ l1[x].page = 0 \/ p <= l1[x].page

Orderly == \A x \in Urls : \A p : Known(x, p) => Ordered(x, p)

NoDisk ==
    ~config.disk => /\ \A x \in Urls : l2[x].page = 0
                    /\ \A w \in Workers : call[w].at \notin {"l2", "keep", "put"}

\* What a call has just fetched is nowhere else.
Fresh ==
    \A w \in Workers : At(w, "stream") \/ At(w, "store") =>
        /\ call[w].page # 0
        /\ \A x \in Urls : call[w].page \notin {l1[x].page, l2[x].page, newest[x]}
        /\ \A v \in Workers \ {w} : Carrying(v) => call[v].page # call[w].page

Ranked == OldOnlyByRace /\ Orderly /\ NoDisk /\ Fresh

\* A step of w about URL u: what it leaves alone.
About(w, u) ==
    /\ call[w].url = u \/ ~Holding(w)
    /\ \/ call'[w].url = u
       \/ call'[w].at \notin {"keep", "stream", "store", "put", "served"} /\ floor'[w] = 0
    /\ \A v \in Workers \ {w} : call'[v] = call[v] /\ floor'[v] = floor[v]
    /\ \A x \in Urls \ {u} : l1'[x] = l1[x] /\ l2'[x] = l2[x] /\ newest'[x] = newest[x]
    /\ config' = config /\ shaky \subseteq shaky'

\* No page moves towards a cache; one may be served from the memory cache.
Quiet(w, u) ==
    /\ ~Carrying(w) /\ call'[w].at \notin {"keep", "stream", "store", "put"}
    /\ l1'[u] = l1[u] /\ l2'[u] \in {l2[u], NoFile} /\ newest'[u] \in {newest[u], l1[u].page}
    /\ floor'[w] \in {0, newest[u]} \/ (floor'[w] = floor[w] /\ call[w].url = u)
    /\ call'[w].at = "l2" => config.disk
    /\ call'[w].at = "served" =>
          call'[w].page = l1[u].page /\ l1[u].page # 0 /\ floor'[w] = newest[u]

\* w takes a page into its hand, from L2 or from the web, or is done with sending
\* its chunks.
Takes(w, u, place, p) ==
    /\ ~Holding(w) /\ call[w].url = u
    /\ call'[w].url = u /\ call'[w].at = place /\ call'[w].page = p
    /\ l1'[u] = l1[u] /\ l2'[u] = l2[u] /\ newest'[u] = newest[u] /\ floor'[w] = floor[w]

\* w puts the page in its hand into a cache, or fails to.
Gives(w, u, next) ==
    /\ Holding(w) /\ call[w].url = u
    /\ call'[w].url = u /\ call'[w].at = next /\ call'[w].page = call[w].page
    /\ newest'[u] \in {newest[u], call[w].page} /\ floor'[w] = floor[w]

\* Orderly is lost, if at all, at the URL that the step is about.
LEMMA OrderlyElsewhere ==
    ASSUME TypeOK, Orderly, NEW w \in Workers, NEW u \in Urls, About(w, u),
           \A p : Known(u, p)' => Ordered(u, p)'
    PROVE  Orderly'
<1> SUFFICES ASSUME NEW x \in Urls, x # u, NEW p, Known(x, p)' PROVE Ordered(x, p)'
    BY DEF Orderly
<1>1. Known(x, p)
    BY DEF Known, About, Url, Holding
<1>2. Ordered(x, p)
    BY <1>1 DEF Orderly
<1>3. \A v \in Workers : Carrying(v)' /\ Url(v)' = x => call'[v] = call[v]
    BY DEF About, Carrying, Holding, At, Url
<1>4. \A places \in {{"store", "put"}, {"store"}} : InHand(x, p, places) => InHand(x, p, places)'
    BY DEF About, Holding, Url, InHand
<1>5. l1'[x] = l1[x] /\ l2'[x] = l2[x]
    BY DEF About
<1>6. QED
    BY <1>2, <1>3, <1>4, <1>5 DEF Ordered, Carrying, Holding, At, Url

LEMMA QuietRanked ==
    ASSUME TypeOK, Ranked, NEW w \in Workers, NEW u \in Urls, About(w, u), Quiet(w, u)
    PROVE  Ranked'
<1>1. Orderly'
    <2> SUFFICES ASSUME NEW p, Known(u, p)' PROVE Ordered(u, p)'
        BY OrderlyElsewhere DEF Ranked
    <2>1. Known(u, p)
        BY DEF Known, About, Quiet, Url, Carrying, Holding, NoFile
    <2>2. Ordered(u, p)
        BY <2>1 DEF Orderly, Ranked
    <2>3. \A v \in Workers : Carrying(v)' => v # w /\ call'[v] = call[v] /\ Carrying(v)
        BY DEF About, Quiet, Carrying, Holding, At
    <2>4. \A places \in {{"store", "put"}, {"store"}} : InHand(u, p, places) => InHand(u, p, places)'
        BY DEF About, Quiet, Carrying, Holding, Url, InHand
    <2>5. l1'[u] = l1[u] /\ (l2'[u] = l2[u] \/ l2'[u].page = 0)
        BY DEF Quiet, NoFile
    <2>6. QED
        BY <2>2, <2>3, <2>4, <2>5 DEF Ordered, Url
<1>2. OldOnlyByRace'
    <2>1. CASE call'[w].at = "served"
        <3>1. l1[u].page \in Nat /\ newest[u] \in Nat
            BY DEF TypeOK
        <3>2. newest[u] # 0 /\ newest[u] \notin shaky => newest[u] <= l1[u].page
            <4> SUFFICES ASSUME newest[u] # 0, newest[u] \notin shaky PROVE newest[u] <= l1[u].page
                OBVIOUS
            <4>1. Ordered(u, newest[u])
                BY DEF Known, Orderly, Ranked
            <4>2. ~InHand(u, newest[u], {"store"})
                BY DEF InHand, Fresh, Ranked, At
            <4>3. QED
                BY <2>1, <4>1, <4>2 DEF Ordered, Quiet
        <3>3. call'[w].page < floor'[w] => floor'[w] \in shaky'
            BY <2>1, <3>1, <3>2 DEF Quiet, About
        <3>4. QED
            BY <3>3 DEF Ranked, OldOnlyByRace, About, At
    <2>2. CASE call'[w].at # "served"
        BY <2>2 DEF Ranked, OldOnlyByRace, About, At
    <2>3. QED
        BY <2>1, <2>2
<1>3. NoDisk'
    BY DEF Ranked, NoDisk, About, Quiet, NoFile
<1>4. Fresh'
    <2> SUFFICES ASSUME NEW v \in Workers, At(v, "stream")' \/ At(v, "store")'
                 PROVE  /\ call'[v].page # 0
                        /\ \A x \in Urls : call'[v].page \notin {l1'[x].page, l2'[x].page, newest'[x]}
                        /\ \A y \in Workers \ {v} : Carrying(y)' => call'[y].page # call'[v].page
        BY DEF Fresh
    <2>1. v # w /\ call'[v] = call[v] /\ (At(v, "stream") \/ At(v, "store"))
        BY DEF About, Quiet, At
    <2>2. call[v].page # 0
        BY <2>1 DEF Ranked, Fresh
    <2>3. QED
        BY <2>1, <2>2 DEF Ranked, Fresh, About, Quiet, NoFile, Carrying, Holding, At
<1>5. QED
    BY <1>1, <1>2, <1>3, <1>4 DEF Ranked

\* What is in the hands of the others stays where it is.
LEMMA HandsOfOthers ==
    ASSUME NEW w \in Workers, NEW u \in Urls, About(w, u), NEW x, NEW p, NEW places
    PROVE  InHand(x, p, places) =>
              InHand(x, p, places)' \/ (Url(w) = x /\ call[w].at \in places /\ call[w].page = p)
BY DEF InHand, About, Url

\* What w takes is new, or it is the page of L2 and the newer pages that others
\* hold are stained.
LEMMA TakesRanked ==
    ASSUME TypeOK, Ranked, NEW w \in Workers, NEW u \in Urls, NEW p \in Nat \ {0},
           About(w, u),
           \/ /\ Takes(w, u, "keep", p) /\ config.disk
              /\ ~At(w, "stream") /\ l2[u].page = p
              /\ \A v \in Workers \ {w} :
                    Holding(v) /\ Url(v) = u /\ call[v].page > p => call[v].page \in shaky'
           \/ /\ Takes(w, u, "stream", p) \/ Takes(w, u, "store", p)
              /\ p = Len(born) + 1
              /\ Takes(w, u, "store", p) /\ p \notin shaky' => Rivals(w, p) = {}
           \/ /\ Takes(w, u, "store", p)
              /\ At(w, "stream") /\ p = call[w].page
              /\ p \notin shaky' => Rivals(w, p) = {}
    PROVE  Ranked'
<1>0. /\ \A x \in Urls : {l1[x].page, l2[x].page, newest[x]} \subseteq 0..Len(born)
      /\ \A v \in Workers : call[v].page \in 0..Len(born) /\ floor[v] \in 0..Len(born)
      /\ Len(born) \in Nat
    <2>1. \A x \in Urls : l1[x].page \in 0..Len(born) /\ l2[x].page \in 0..Len(born)
        BY DEF TypeOK
    <2>2. \A x \in Urls : newest[x] \in 0..Len(born)
        BY DEF TypeOK
    <2>3. \A v \in Workers : call[v].page \in 0..Len(born) /\ floor[v] \in 0..Len(born)
        BY DEF TypeOK, Calls
    <2>4. QED
        BY <2>1, <2>2, <2>3 DEF TypeOK
<1>1. Orderly'
    <2> SUFFICES ASSUME NEW q, Known(u, q)' PROVE Ordered(u, q)'
        BY OrderlyElsewhere DEF Ranked
    <2>1. Known(u, q) \/ q = p
        BY DEF Known, About, Takes, Url, Holding
    <2>2. \A v \in Workers \ {w} : Carrying(v)' => call'[v] = call[v] /\ Carrying(v)
        BY DEF About, Carrying, Holding, At
    <2>3. \A places \in {{"store", "put"}, {"store"}} : InHand(u, q, places) => InHand(u, q, places)'
        BY HandsOfOthers DEF Takes, Holding
    <2>4. q \notin shaky'
        BY DEF Known
    <2>5. CASE call'[w].at = "keep"
        <3>1. Known(u, q) /\ Ordered(u, q)
            <4>1. p \notin shaky' => Known(u, p)
                BY <2>5 DEF Takes, About, Known
            <4>2. QED
                BY <2>1, <2>4, <4>1 DEF Ranked, Orderly
        <3>2. q <= p
            <4>1. q <= l2[u].page \/ InHand(u, q, {"store", "put"})
                BY <2>5, <3>1 DEF Ordered, Takes
            <4>2. ASSUME NEW v \in Workers, Url(v) = u, call[v].at \in {"store", "put"},
                         call[v].page = q
                  PROVE  q <= p
                BY <1>0, <2>4, <2>5, <4>2 DEF Takes, Holding
            <4>3. QED
                BY <2>5, <4>1, <4>2 DEF InHand, Takes
        <3>3. QED
            BY <2>2, <2>3, <2>5, <3>1, <3>2 DEF Ordered, Takes, Url
    <2>6. CASE call'[w].at = "store"
        <3>1. CASE q = p
            <4>1. InHand(u, q, {"store"})' /\ InHand(u, q, {"store", "put"})'
                BY <2>6, <3>1 DEF InHand, Takes, Url
            <4>2. \A v \in Workers \ {w} : Carrying(v) /\ Url(v) = u => p <= call[v].page
                BY <1>0, <2>4, <2>6, <3>1 DEF Takes, Rivals, Url
            <4>3. QED
                BY <2>2, <3>1, <4>1, <4>2 DEF Ordered, Takes, Url
        <3>2. CASE Known(u, q)
            <4>1. Ordered(u, q)
                BY <3>2 DEF Ranked, Orderly
            <4>2. q <= p
                BY <1>0, <2>6, <3>2, <4>1 DEF Known, Takes, Ordered, Carrying, Url
            <4>3. QED
                BY <2>2, <2>3, <4>1, <4>2 DEF Ordered, Takes, Url
        <3>3. QED
            BY <2>1, <3>1, <3>2
    <2>7. CASE call'[w].at = "stream"
        <3>1. p = Len(born) + 1
            BY <2>7 DEF Takes
        <3>2. Known(u, q) /\ Ordered(u, q)
            BY <2>7 DEF Known, About, Takes, Url, Holding, Ranked, Orderly
        <3>3. q <= p
            BY <1>0, <3>1, <3>2 DEF Known
        <3>4. QED
            BY <2>2, <2>3, <2>7, <3>2, <3>3 DEF Ordered, Takes, Url
    <2>8. QED
        BY <2>5, <2>6, <2>7 DEF Takes
<1>2. OldOnlyByRace'
    BY DEF Ranked, OldOnlyByRace, About, Takes, At
<1>3. NoDisk'
    BY DEF Ranked, NoDisk, About, Takes
<1>4. Fresh'
    <2> SUFFICES ASSUME NEW v \in Workers, At(v, "stream")' \/ At(v, "store")'
                 PROVE  /\ call'[v].page # 0
                        /\ \A x \in Urls : call'[v].page \notin {l1'[x].page, l2'[x].page, newest'[x]}
                        /\ \A y \in Workers \ {v} : Carrying(y)' => call'[y].page # call'[v].page
        BY DEF Fresh
    <2>1. \A x \in Urls : l1'[x] = l1[x] /\ l2'[x] = l2[x] /\ newest'[x] = newest[x]
        BY DEF About, Takes
    <2>2. CASE v = w /\ p = Len(born) + 1
        <3>1. call'[v].page = p
            BY <2>2 DEF Takes
        <3>2. \A y \in Workers \ {v} : call'[y].page # p
            BY <1>0, <2>2 DEF About
        <3>3. QED
            BY <1>0, <2>1, <2>2, <3>1, <3>2
    <2>3. CASE v = w /\ p # Len(born) + 1
        <3>1. At(w, "stream") /\ p = call[w].page /\ call'[v].page = p
            BY <2>3 DEF Takes, At
        <3>2. QED
            BY <2>1, <2>3, <3>1 DEF Ranked, Fresh, About, Carrying, Holding, At
    <2>4. CASE v # w
        <3>1. (At(v, "stream") \/ At(v, "store")) /\ call'[v] = call[v]
            BY <2>4 DEF About, At
        <3>2. call[v].page # p
            BY <1>0, <2>4, <3>1 DEF Ranked, Fresh, Takes, Carrying
        <3>3. QED
            BY <2>1, <2>4, <3>1, <3>2 DEF Ranked, Fresh, About, Takes, Carrying, Holding, At
    <2>5. QED
        BY <2>2, <2>3, <2>4
<1>5. QED
    BY <1>1, <1>2, <1>3, <1>4 DEF Ranked

\* What w stores is not older than any page that is known, and so is what it
\* returns.
LEMMA GivesRanked ==
    ASSUME TypeOK, Ranked, NEW w \in Workers, NEW u \in Urls, About(w, u),
           NEW next \in {"put", "served"}, Gives(w, u, next),
           \/ /\ At(w, "keep") \/ At(w, "store")
              /\ l1'[u].page = call[w].page /\ l2'[u] = l2[u]
              /\ At(w, "store") => (next = "put" <=> config.disk)
              /\ At(w, "keep") => next = "served"
           \/ /\ At(w, "put") /\ next = "served" /\ l1'[u] = l1[u]
              /\ l2'[u].page = call[w].page \/ (l2'[u] = l2[u] /\ call[w].page \in shaky')
    PROVE  Ranked'
<1>0. /\ \A x \in Urls : {l1[x].page, l2[x].page, newest[x]} \subseteq 0..Len(born)
      /\ \A v \in Workers : call[v].page \in 0..Len(born) /\ floor[v] \in 0..Len(born)
      /\ Len(born) \in Nat
    <2>1. \A x \in Urls : l1[x].page \in 0..Len(born) /\ l2[x].page \in 0..Len(born)
        BY DEF TypeOK
    <2>2. \A x \in Urls : newest[x] \in 0..Len(born)
        BY DEF TypeOK
    <2>3. \A v \in Workers : call[v].page \in 0..Len(born) /\ floor[v] \in 0..Len(born)
        BY DEF TypeOK, Calls
    <2>4. QED
        BY <2>1, <2>2, <2>3 DEF TypeOK
<1>a. \A q : Known(u, q) => q <= call[w].page
    BY DEF Ranked, Orderly, Ordered, Gives, Url, Carrying
<1>1. Orderly'
    <2> SUFFICES ASSUME NEW q, Known(u, q)' PROVE Ordered(u, q)'
        BY OrderlyElsewhere DEF Ranked
    <2>1. q # 0 /\ q \notin shaky
        BY DEF Known, About
    <2>2. Known(u, q)
        <3>1. CASE q \in {l1'[u].page, l2'[u].page, newest'[u]}
            BY <2>1, <3>1 DEF Known, Gives, Url
        <3>2. CASE \E v \in Workers : Url(v)' = u /\ (floor'[v] = q \/ (Holding(v)' /\ call'[v].page = q))
            BY <2>1, <3>2 DEF Known, About, Gives, Url, Holding
        <3>3. QED
            BY <3>1, <3>2 DEF Known
    <2>3. Ordered(u, q) /\ q <= call[w].page /\ q \notin shaky'
        BY <1>a, <2>2 DEF Ranked, Orderly, Known
    <2>4. \A v \in Workers : Carrying(v)' /\ Url(v)' = u => q <= call'[v].page
        BY <2>3 DEF Ordered, About, Gives, Carrying, Holding, At, Url
    <2>5. CASE At(w, "put")
        <3>1. InHand(u, q, {"store"}) => InHand(u, q, {"store"})'
            BY <2>5, HandsOfOthers DEF At
        <3>2. InHand(u, q, {"store", "put"}) => InHand(u, q, {"store", "put"})' \/ call[w].page = q
            BY HandsOfOthers
        <3>3. QED
            BY <2>3, <2>4, <2>5, <3>1, <3>2 DEF Ordered, At
    <2>6. CASE At(w, "keep")
        <3>1. InHand(u, q, {"store", "put"}) => InHand(u, q, {"store", "put"})'
            BY <2>6, HandsOfOthers DEF At
        <3>2. QED
            BY <2>3, <2>4, <2>6, <3>1 DEF Ordered, At
    <2>7. CASE At(w, "store")
        <3>1. CASE next = "put"
            <4>1. InHand(u, q, {"store", "put"}) => InHand(u, q, {"store", "put"})'
                <5>1. call[w].page = q => InHand(u, q, {"store", "put"})'
                    BY <3>1 DEF InHand, Gives, Url
                <5>2. QED
                    BY <5>1, HandsOfOthers
            <4>2. QED
                BY <2>3, <2>4, <2>7, <4>1 DEF Ordered, At
        <3>2. CASE next # "put"
            <4>1. l2'[u].page = 0
                BY <2>7, <3>2 DEF Ranked, NoDisk, At
            <4>2. QED
                BY <2>3, <2>4, <2>7, <4>1 DEF Ordered, At
        <3>3. QED
            BY <3>1, <3>2
    <2>8. QED
        BY <2>5, <2>6, <2>7
<1>2. OldOnlyByRace'
    <2>1. call'[w].page < floor'[w] => floor'[w] \in shaky'
        <3>1. floor[w] # 0 /\ floor[w] \notin shaky => floor[w] <= call[w].page
            BY <1>a DEF Known, Gives, Url
        <3>2. QED
            BY <1>0, <3>1 DEF Gives, About
    <2>2. QED
        BY <2>1 DEF Ranked, OldOnlyByRace, About, At
<1>3. NoDisk'
    BY DEF Ranked, NoDisk, About, Gives, At
<1>4. Fresh'
    <2> SUFFICES ASSUME NEW v \in Workers, At(v, "stream")' \/ At(v, "store")'
                 PROVE  /\ call'[v].page # 0
                        /\ \A x \in Urls : call'[v].page \notin {l1'[x].page, l2'[x].page, newest'[x]}
                        /\ \A y \in Workers \ {v} : Carrying(y)' => call'[y].page # call'[v].page
        BY DEF Fresh
    <2>1. v # w /\ call'[v] = call[v] /\ (At(v, "stream") \/ At(v, "store"))
        BY DEF About, Gives, At
    <2>2. call[v].page # 0 /\ call[w].page # call[v].page
        BY <2>1 DEF Ranked, Fresh, Gives, Carrying
    <2>3. \A x \in Urls : call[v].page \notin {l1[x].page, l2[x].page, newest[x]}
        BY <2>1 DEF Ranked, Fresh
    <2>4. \A x \in Urls : call[v].page \notin {l1'[x].page, l2'[x].page, newest'[x]}
        BY <2>2, <2>3 DEF About, Gives
    <2>5. QED
        BY <2>1, <2>2, <2>4 DEF Ranked, Fresh, About, Gives, Carrying, Holding, At
<1>5. QED
    BY <1>1, <1>2, <1>3, <1>4 DEF Ranked

LEMMA InitRanked == Init => Ranked
BY DEF Init, Ranked, OldOnlyByRace, Orderly, Known, NoDisk, Fresh, Carrying, Holding, At, Idle, NoEntry, NoFile

LEMMA StepRanked == TypeOK /\ Ranked /\ [Next]_vars => Ranked'
<1> SUFFICES ASSUME TypeOK, Ranked, [Next]_vars PROVE Ranked'
    OBVIOUS
<1>0. /\ Len(born) \in Nat /\ call \in [Workers -> Calls]
      /\ \A w \in Workers : Url(w) \in Urls /\ call[w].page \in 0..Len(born)
      /\ \A u \in Urls : newest[u] \in Nat /\ l1[u].page \in Nat /\ l2[u].page \in Nat
      /\ floor \in [Workers -> 0..Len(born)] /\ newest \in [Urls -> 0..Len(born)]
    BY DEF TypeOK, Calls, Url
<1>1. ASSUME NEW w \in Workers, Leave(w), ~Carrying(w) PROVE Ranked'
    <2>1. PICK u \in Urls : u = call[w].url
        BY <1>0 DEF Url
    <2>2. About(w, u) /\ Quiet(w, u)
        BY <1>0, <1>1, <2>1 DEF Leave, About, Quiet, Carrying, Idle
    <2>3. QED
        BY <2>2, QuietRanked
<1>2. ASSUME NEW w \in Workers, NEW u \in Urls, NEW place, NEW p \in {0, l1[u].page},
             NEW b, Begin(w, u, place, p, b),
             \/ place \in {"l2", "limiter"} /\ p = 0 /\ (place = "l2" => config.disk)
             \/ place = "served" /\ p = l1[u].page /\ p # 0
      PROVE  Ranked'
    <2>1. About(w, u)
        BY <1>0, <1>2 DEF Begin, About, Holding, At
    <2>2. newest'[u] \in {newest[u], l1[u].page}
        BY <1>0, <1>2 DEF Begin
    <2>3. Quiet(w, u)
        BY <1>0, <1>2, <2>2 DEF Begin, Quiet, Carrying, Holding, At
    <2>4. QED
        BY <2>1, <2>3, QuietRanked
<1>3. ASSUME NEW w \in Workers, Fetch(w) \/ FetchStream(w) PROVE Ranked'
    BY <1>2, <1>3 DEF Fetch, FetchStream, Hit
\* The call moves on with empty hands.
<1>4. ASSUME NEW w \in Workers, ~Carrying(w), NEW c, call' = [call EXCEPT ![w] = c],
             c.url = call[w].url, c.at \notin {"keep", "stream", "store", "put", "served", "l2"},
             UNCHANGED <<config, l1, floor, newest>>, shaky \subseteq shaky',
             l2' \in {l2, [l2 EXCEPT ![Url(w)] = NoFile]}
      PROVE  Ranked'
    <2>1. PICK u \in Urls : u = call[w].url
        BY <1>0 DEF Url
    <2>2. About(w, u)
        BY <1>0, <1>4, <2>1 DEF About, Carrying, TypeOK, Url
    <2>3. Quiet(w, u)
        BY <1>0, <1>4, <2>1 DEF Quiet, TypeOK, Url
    <2>4. QED
        BY <2>2, <2>3, QuietRanked
<1>5. ASSUME NEW w \in Workers, Cancel(w) PROVE Ranked'
    BY <1>0, <1>4, <1>5 DEF Cancel, Carrying, Holding, At, Calls, history
<1>6. ASSUME NEW w \in Workers, ~Carrying(w), NEW place,
             place \notin {"keep", "stream", "store", "put", "served", "l2"}, Go(w, place), UNCHANGED <<config, l1, l2, floor, newest, shaky>>
      PROVE  Ranked'
    BY <1>0, <1>4, <1>6 DEF Go, Calls
<1>7. ASSUME NEW w \in Workers, LookL2(w) PROVE Ranked'
    <2>0. PICK u \in Urls : u = call[w].url
        BY <1>0 DEF Url
    <2> DEFINE e == l2[u]
    <2>1. /\ ~Carrying(w) /\ ~Holding(w) /\ ~At(w, "stream")
          /\ UNCHANGED <<config, l1, floor, newest>> /\ shaky \subseteq shaky'
        BY <1>7 DEF LookL2, Carrying, Holding, At
    <2>2. CASE e.page # 0 /\ now - e.at <= DiskTTL
        <3>1. Hold(w, "keep", e.page) /\ l2' = l2
            BY <1>7, <2>0, <2>2 DEF LookL2, Url
        <3>2. About(w, u)
            BY <1>0, <2>0, <2>1, <3>1 DEF Hold, About, Calls
        <3>3. Takes(w, u, "keep", e.page)
            BY <1>0, <2>0, <2>1, <3>1 DEF Hold, Takes, Calls
        <3>4. config.disk
            BY <1>7 DEF Ranked, NoDisk, LookL2, At
        <3>5. \A v \in Workers \ {w} :
                 Holding(v) /\ Url(v) = u /\ call[v].page > e.page => call[v].page \in shaky'
            BY <1>7, <2>0, <2>2 DEF LookL2, Url
        <3>6. e.page \in Nat \ {0}
            BY <1>0, <2>2
        <3>7. QED
            BY <2>1, <3>2, <3>3, <3>4, <3>5, <3>6, TakesRanked
    <2>3. CASE ~(e.page # 0 /\ now - e.at <= DiskTTL)
        <3>1. Go(w, "limiter") /\ l2' = [l2 EXCEPT ![Url(w)] = NoFile]
            BY <1>7, <2>0, <2>3 DEF LookL2, Url
        <3>2. QED
            BY <1>0, <1>4, <2>1, <3>1 DEF Go, Calls
    <2>4. QED
        BY <2>2, <2>3
<1>8. ASSUME NEW w \in Workers, Serve(w, call[w].page), Holding(w), UNCHANGED <<config, floor>>,
             NEW u \in Urls, u = call[w].url, shaky \subseteq shaky',
             \A x \in Urls \ {u} : l1'[x] = l1[x] /\ l2'[x] = l2[x]
      PROVE  About(w, u) /\ Gives(w, u, "served")
    <2>1. newest'[u] \in {newest[u], call[w].page} /\ \A x \in Urls \ {u} : newest'[x] = newest[x]
        BY <1>0, <1>8 DEF Serve, Url
    <2>2. /\ call'[w].url = u /\ call'[w].at = "served" /\ call'[w].page = call[w].page
          /\ \A v \in Workers \ {w} : call'[v] = call[v]
        BY <1>0, <1>8 DEF Serve, Hold, Calls
    <2>3. QED
        BY <1>8, <2>1, <2>2 DEF About, Gives
<1>9. ASSUME NEW w \in Workers, Keep(w) PROVE Ranked'
    <2>0. PICK u \in Urls : u = call[w].url
        BY <1>0 DEF Url
    <2>1. /\ l1'[u].page = call[w].page /\ l2' = l2
          /\ \A x \in Urls \ {u} : l1'[x] = l1[x]
        BY <1>9, <2>0 DEF Keep, TypeOK, Url
    <2>2. About(w, u) /\ Gives(w, u, "served")
        BY <1>8, <1>9, <2>0, <2>1 DEF Keep, Holding, At
    <2>3. QED
        BY <1>9, <2>1, <2>2, GivesRanked DEF Keep, At
<1>10. ASSUME NEW w \in Workers, Admit(w) PROVE Ranked'
    <2>1. \E place \in {"robots", "refused", "cleared"} : Go(w, place)
        BY <1>10 DEF Admit, Decision
    <2>2. ~Carrying(w) /\ UNCHANGED <<config, l1, l2, floor, newest, shaky>>
        BY <1>10 DEF Admit, Carrying, Holding, At, history
    <2>3. QED
        BY <1>6, <2>1, <2>2
<1>11. ASSUME NEW w \in Workers, NEW denied, At(w, "robots"), Settle(w, denied) PROVE Ranked'
    <2>1. \E place \in {"refused", "cleared"} : Go(w, place)
        BY <1>11 DEF Settle, Decision
    <2>2. QED
        BY <1>6, <1>11, <2>1 DEF Settle, Carrying, Holding, At
<1>12. ASSUME NEW w \in Workers, Request(w) PROVE Ranked'
    BY <1>6, <1>12 DEF Request, Carrying, Holding, At, history
<1>13. ASSUME NEW w \in Workers, PageArrives(w) PROVE Ranked'
    <2>0. PICK u \in Urls : u = call[w].url
        BY <1>0 DEF Url
    <2> DEFINE p == Len(born) + 1
    <2>1. /\ Hold(w, "stream", p) \/ Hold(w, "store", p)
          /\ ~Holding(w) /\ UNCHANGED <<config, l1, l2, floor, newest>>
        BY <1>13 DEF PageArrives, Holding, At
    <2>2. /\ shaky \subseteq shaky'
          /\ call'[w].at = "store" /\ p \notin shaky' => Rivals(w, p) = {}
        BY <1>0, <1>13 DEF PageArrives, Stained, Hold, Calls
    <2>3. /\ call'[w].url = u /\ call'[w].at \in {"stream", "store"} /\ call'[w].page = p
          /\ \A v \in Workers \ {w} : call'[v] = call[v]
        BY <1>0, <2>0, <2>1 DEF Hold, Calls
    <2>4. About(w, u) /\ (Takes(w, u, "stream", p) \/ Takes(w, u, "store", p))
        BY <2>0, <2>1, <2>2, <2>3 DEF About, Takes
    <2>5. Takes(w, u, "store", p) /\ p \notin shaky' => Rivals(w, p) = {}
        BY <2>2 DEF Takes
    <2>6. p \in Nat \ {0}
        BY <1>0
    <2>7. QED
        BY <2>4, <2>5, <2>6, TakesRanked
<1>s. ASSUME NEW w \in Workers, Streamed(w) PROVE Ranked'
    <2>0. PICK u \in Urls : u = call[w].url
        BY <1>0 DEF Url
    <2>1. PICK p : p = call[w].page
        OBVIOUS
    <2>2. /\ At(w, "stream") /\ ~Holding(w) /\ UNCHANGED <<config, l1, l2, floor, newest>>
          /\ shaky \subseteq shaky' /\ (p \notin shaky' => Rivals(w, p) = {})
        BY <1>s, <2>1 DEF Streamed, Stained, Holding, At
    <2>3. /\ call'[w].url = u /\ call'[w].at = "store" /\ call'[w].page = p
          /\ \A v \in Workers \ {w} : call'[v] = call[v]
        BY <1>0, <1>s, <2>0, <2>1 DEF Streamed, Calls
    <2>4. About(w, u) /\ Takes(w, u, "store", p)
        BY <2>0, <2>2, <2>3 DEF About, Takes
    <2>5. p \in Nat \ {0}
        BY <1>0, <2>1, <2>2 DEF Ranked, Fresh
    <2>6. QED
        BY <2>1, <2>2, <2>4, <2>5, TakesRanked
<1>14. ASSUME NEW w \in Workers, StoreL1(w) PROVE Ranked'
    <2>0. PICK u \in Urls : u = call[w].url
        BY <1>0 DEF Url
    <2>1. /\ l1'[u].page = call[w].page /\ l2' = l2
          /\ \A x \in Urls \ {u} : l1'[x] = l1[x]
        BY <1>14, <2>0 DEF StoreL1, TypeOK, Url
    <2>2. UNCHANGED <<config, floor, shaky>> /\ Holding(w)
        BY <1>14 DEF StoreL1, Holding, At
    <2>3. CASE config.disk
        <3>1. Go(w, "put") /\ newest' = newest
            BY <1>14, <2>3 DEF StoreL1
        <3>2. About(w, u) /\ Gives(w, u, "put")
            BY <1>0, <2>0, <2>1, <2>2, <3>1 DEF Go, About, Gives, Calls
        <3>3. QED
            BY <1>14, <2>1, <2>3, <3>2, GivesRanked DEF StoreL1, At
    <2>4. CASE ~config.disk
        <3>1. Serve(w, call[w].page)
            BY <1>14, <2>4 DEF StoreL1
        <3>2. About(w, u) /\ Gives(w, u, "served")
            BY <1>8, <2>0, <2>1, <2>2, <3>1
        <3>3. QED
            BY <1>14, <2>1, <2>4, <3>2, GivesRanked DEF StoreL1, At
    <2>5. QED
        BY <2>3, <2>4
<1>15. ASSUME NEW w \in Workers, Put(w) PROVE Ranked'
    <2>0. PICK u \in Urls : u = call[w].url
        BY <1>0 DEF Url
    <2>1. /\ l2'[u].page = call[w].page \/ (l2'[u] = l2[u] /\ call[w].page \in shaky')
          /\ l1' = l1 /\ shaky \subseteq shaky' /\ UNCHANGED <<config, floor>>
          /\ \A x \in Urls \ {u} : l2'[x] = l2[x]
        BY <1>15, <2>0 DEF Put, TypeOK, Url
    <2>2. About(w, u) /\ Gives(w, u, "served")
        BY <1>8, <1>15, <2>0, <2>1 DEF Put, Holding, At
    <2>3. QED
        BY <1>15, <2>1, <2>2, GivesRanked DEF Put
<1>16. ASSUME Tick \/ UNCHANGED vars PROVE Ranked'
    <2>1. UNCHANGED <<config, l1, l2, call, floor, newest, shaky>>
        BY <1>16 DEF Tick, vars, state, history
    <2>2. OldOnlyByRace' /\ NoDisk' /\ Fresh'
        BY <2>1 DEF Ranked, OldOnlyByRace, NoDisk, Fresh, At, Carrying, Holding
    <2>3. Orderly'
        BY <2>1 DEF Ranked, Orderly, Known, Ordered, InHand, Carrying, Holding, At, Url
    <2>4. QED
        BY <2>2, <2>3 DEF Ranked
<1>17. ASSUME Restart PROVE Ranked'
    <2>1. /\ \A u \in Urls : l1'[u].page = 0
          /\ \A w \in Workers : call'[w].at = "idle" /\ floor'[w] = 0
          /\ UNCHANGED <<config, l2, newest>>
          /\ shaky \subseteq shaky' /\ \A w \in Workers : Holding(w) => call[w].page \in shaky'
        BY <1>17 DEF Restart, NoEntry, Idle
    <2>2. OldOnlyByRace' /\ NoDisk' /\ Fresh'
        BY <2>1 DEF Ranked, OldOnlyByRace, NoDisk, Fresh, At
    <2>3. ASSUME NEW u \in Urls, NEW p, Known(u, p)' PROVE Ordered(u, p)'
        <3>1. Known(u, p) /\ p \notin shaky'
            BY <2>1, <2>3 DEF Known, Holding
        <3>2. ~InHand(u, p, {"store", "put"})
            BY <2>1, <3>1 DEF InHand, Holding
        <3>3. l2'[u].page = 0 \/ p <= l2'[u].page
            BY <2>1, <3>1, <3>2 DEF Ranked, Orderly, Ordered
        <3>4. QED
            BY <2>1, <3>3 DEF Ordered, Carrying, Holding, At
    <2>4. QED
        BY <2>2, <2>3 DEF Ranked, Orderly
<1>18. ASSUME NEW w \in Workers, Step(w) PROVE Ranked'
    <2>1. CASE Fetch(w) \/ FetchStream(w) \/ Cancel(w) \/ LookL2(w) \/ Keep(w)
        BY <1>3, <1>5, <1>7, <1>9, <2>1
    <2>2. CASE Admit(w) \/ RobotsRead(w) \/ RobotsCut(w) \/ RobotsFails(w)
        BY <1>10, <1>11, <2>2 DEF RobotsRead, RobotsCut, RobotsFails
    <2>3. CASE LimiterAborts(w) \/ Refuse(w) \/ PageFails(w) \/ Return(w)
        BY <1>1, <2>3 DEF LimiterAborts, Refuse, PageFails, Return, Carrying, Holding, At
    <2>4. CASE Request(w) \/ PageArrives(w) \/ Streamed(w) \/ StoreL1(w) \/ Put(w)
        BY <1>12, <1>13, <1>s, <1>14, <1>15, <2>4
    <2>5. QED
        BY <1>18, <2>1, <2>2, <2>3, <2>4 DEF Step
<1>19. QED
    BY <1>16, <1>17, <1>18 DEF Next

\* A call is served an older page than one served before it began only if that
\* newer page had met a race or a fault on its way into the caches.
THEOREM OldCorrect == Spec => []OldOnlyByRace
<1>1. Ranked => OldOnlyByRace
    BY DEF Ranked
<1>2. QED
    BY <1>1, InitRanked, StepRanked, TypeCorrect, PTL DEF Spec

-----------------------------------------------------------------------------
(* Induction over the naturals, for a set of them in place of a predicate.  *)

LEMMA InductionOnSets ==
    ASSUME NEW T, 0 \in T, \A n \in Nat : n \in T => n + 1 \in T
    PROVE  Nat \subseteq T
<1> DEFINE R == {p \in Nat \X Nat : p[1] < p[2]}
           Rest == Nat \ T
<1> SUFFICES ASSUME Rest # {} PROVE FALSE
    OBVIOUS
<1>1. IsWellFoundedOn(R, Nat)
    <2>1. R = OpToRel(<, Nat)
        BY DEF OpToRel
    <2>2. QED
        BY <2>1, NatLessThanWellFounded
<1>2. PICK x \in Rest : \A y \in Rest : <<y, x>> \notin R
    <2>1. Rest \subseteq Nat
        OBVIOUS
    <2> HIDE DEF R, Rest
    <2>2. QED
        BY <1>1, <2>1, WFMin
<1>3. x - 1 \in Nat /\ <<x - 1, x>> \in R
    OBVIOUS
<1>4. QED
    BY <1>2, <1>3

\* step[k] leads from the value of f at k - 1 to that at k.
Stepped(f, n, first, step) ==
    f = [k \in 0..n |-> IF k = 0 THEN first ELSE step[k][f[k - 1]]]

Closed(A, n, first, step) == first \in A /\ \A k \in 1..n, a \in A : step[k][a] \in A

\* A function that is defined step by step from 0 to n exists.
LEMMA SteppedExists ==
    ASSUME NEW A, NEW n \in Nat, NEW first, NEW step, Closed(A, n, first, step)
    PROVE  \E f \in [0..n -> A] : Stepped(f, n, first, step)
<1> USE DEF Stepped, Closed
<1> DEFINE Upto(m) == \E f \in [0..m -> A] :
                         Stepped(f, m, first, step)
           T == {m \in Nat : m <= n => Upto(m)}
<1>1. 0 \in T
    <2> DEFINE f == [k \in 0..0 |-> first]
    <2>1. f \in [0..0 -> A] /\ Stepped(f, 0, first, step)
        OBVIOUS
    <2>2. QED
        BY <2>1
<1>2. ASSUME NEW m \in Nat, m \in T PROVE m + 1 \in T
    <2> SUFFICES ASSUME m + 1 <= n PROVE Upto(m + 1)
        OBVIOUS
    <2>1. PICK g \in [0..m -> A] : Stepped(g, m, first, step)
        BY <1>2
    <2> DEFINE f == [k \in 0..m + 1 |-> IF k = m + 1 THEN step[m + 1][g[m]] ELSE g[k]]
    <2>2. f \in [0..m + 1 -> A]
        OBVIOUS
    <2>3. ASSUME NEW k \in 0..m + 1
          PROVE  f[k] = IF k = 0 THEN first ELSE step[k][f[k - 1]]
        <3>1. CASE k = m + 1
            BY <3>1
        <3>2. CASE k # m + 1
            <4>1. k \in 0..m /\ (k # 0 => k - 1 \in 0..m)
                BY <3>2
            <4>2. g[k] = IF k = 0 THEN first ELSE step[k][g[k - 1]]
                BY <2>1, <4>1
            <4>3. f[k] = g[k] /\ (k # 0 => f[k - 1] = g[k - 1])
                BY <4>1
            <4>4. QED
                BY <4>2, <4>3
        <3>3. QED
            BY <3>1, <3>2
    <2>4. Stepped(f, m + 1, first, step)
        BY <2>3
    <2> HIDE DEF f
    <2>5. QED
        BY <2>2, <2>4
<1>3. Nat \subseteq T
    <2> HIDE DEF T
    <2>1. QED
        BY <1>1, <1>2, InductionOnSets
<1>4. QED
    BY <1>3

-----------------------------------------------------------------------------
(* The parser of robots.txt, for files of any length.                       *)

\* j is the last agent line before line i.
LastBefore(file, j, i) ==
    /\ j \in AgentLines(file) /\ j < i
    /\ \A n \in j+1..i-1 : n \notin AgentLines(file)

\* The last agent line before line i names this agent.
Addressed(file, i) == \E j \in AgentLines(file) : LastBefore(file, j, i) /\ Matches(file[j].who)

\* Of a group only the last agent line decides whether Addressed holds.
LEMMA AddressedByLast ==
    ASSUME NEW file, DOMAIN file \subseteq Nat, NEW d \in Nat
    PROVE  (\E k \in Group(file, d) : /\ Matches(file[k].who)
                                      /\ \A n \in Group(file, d) : n <= k)
               <=> Addressed(file, d)
<1>0. AgentLines(file) \subseteq Nat
    BY DEF AgentLines
<1>1. ASSUME NEW j \in AgentLines(file), LastBefore(file, j, d)
      PROVE  j \in Group(file, d) /\ \A n \in Group(file, d) : n <= j
    <2>1. j \in Group(file, d)
        <3>1. \A n \in j..j : n \in AgentLines(file)
            BY <1>0
        <3>2. j <= j /\ j < d /\ \A n \in j+1..d-1 : n \notin AgentLines(file)
            BY <1>0, <1>1 DEF LastBefore
        <3>3. QED
            BY <3>1, <3>2 DEF Group
    <2>2. ASSUME NEW n \in Group(file, d) PROVE n <= j
        <3>1. PICK i \in AgentLines(file) : /\ n <= i /\ i < d
                                            /\ \A m \in i+1..d-1 : m \notin AgentLines(file)
            BY DEF Group
        <3>2. n \in Nat /\ i \in Nat /\ j \in Nat /\ j < d
            BY <1>0, <1>1 DEF Group, LastBefore
        <3>3. i <= j
            <4> SUFFICES ASSUME j < i PROVE FALSE
                BY <3>2
            <4>1. i \in j+1..d-1
                BY <3>1, <3>2
            <4>2. QED
                BY <1>1, <4>1 DEF LastBefore
        <3>4. QED
            BY <3>1, <3>2, <3>3
    <2>3. QED
        BY <2>1, <2>2
<1>2. ASSUME NEW k \in Group(file, d), Matches(file[k].who), \A n \in Group(file, d) : n <= k
      PROVE  Addressed(file, d)
    <2>1. PICK i \in AgentLines(file) : /\ k <= i /\ i < d
                                        /\ \A m \in i+1..d-1 : m \notin AgentLines(file)
        BY DEF Group
    <2>2. LastBefore(file, i, d)
        BY <2>1 DEF LastBefore
    <2>3. i <= k
        BY <1>1, <1>2, <2>2
    <2>4. i = k
        BY <1>0, <2>1, <2>3 DEF Group
    <2>5. QED
        BY <1>2, <2>2, <2>4 DEF Addressed
<1>3. ASSUME Addressed(file, d)
      PROVE  \E k \in Group(file, d) : /\ Matches(file[k].who)
                                       /\ \A n \in Group(file, d) : n <= k
    <2>1. PICK j \in AgentLines(file) : LastBefore(file, j, d) /\ Matches(file[j].who)
        BY <1>3 DEF Addressed
    <2>2. j \in Group(file, d) /\ \A n \in Group(file, d) : n <= j
        BY <1>1, <2>1
    <2>3. QED
        BY <2>1, <2>2
<1>4. QED
    BY <1>2, <1>3

\* What the parser knows after k lines.
ReadUpTo(file, g, k) ==
    /\ g \in [inGroup : BOOLEAN, applies : BOOLEAN,
              denied : SUBSET UNION {file[i].urls : i \in DOMAIN file}]
    /\ g.inGroup <=> \E j \in AgentLines(file) : j <= k
    /\ g.applies <=> Addressed(file, k + 1)
    /\ \A u : u \in g.denied <=> \E d \in DenyLines(file) : /\ d <= k /\ Addressed(file, d)
                                                            /\ u \in file[d].urls

LEMMA ReadNextLine ==
    ASSUME NEW file, NEW k \in Nat, DOMAIN file \subseteq Nat \ {0}, k + 1 \in DOMAIN file,
           NEW g, ReadUpTo(file, g, k)
    PROVE  ReadUpTo(file, ParseLine(g, file[k + 1]), k + 1)
<1>1. PICK line : line = file[k + 1]
    OBVIOUS
<1>2. PICK U : U = UNION {file[i].urls : i \in DOMAIN file}
    OBVIOUS
<1>3. /\ g \in [inGroup : BOOLEAN, applies : BOOLEAN, denied : SUBSET U]
      /\ g.inGroup <=> \E j \in AgentLines(file) : j <= k
      /\ g.applies <=> Addressed(file, k + 1)
      /\ \A u : u \in g.denied <=> \E d \in DenyLines(file) : /\ d <= k /\ Addressed(file, d)
                                                              /\ u \in file[d].urls
    BY <1>2 DEF ReadUpTo
<1>4. AgentLines(file) \subseteq Nat \ {0} /\ DenyLines(file) \subseteq Nat \ {0}
    BY DEF AgentLines, DenyLines
<1>5. /\ k + 1 \in AgentLines(file) <=> line.kind = "agent"
      /\ k + 1 \in DenyLines(file) <=> line.kind = "deny"
    BY <1>1 DEF AgentLines, DenyLines
<1>6. CASE line.kind = "agent"
    <2>1. PICK new : new = ParseLine(g, line)
        OBVIOUS
    <2>2. g.applies => g.inGroup
        BY <1>3, <1>4 DEF Addressed, LastBefore
    <2>3. new = [g EXCEPT !.inGroup = TRUE, !.applies = Matches(line.who)]
        <3>1. ((g.applies /\ ~(g.inGroup /\ g.applies)) \/ Matches(line.who)) = Matches(line.who)
            BY <2>2 DEF Matches
        <3>2. QED
            BY <1>6, <2>1, <3>1 DEF ParseLine
    <2>4. /\ new \in [inGroup : BOOLEAN, applies : BOOLEAN, denied : SUBSET U]
          /\ new.inGroup = TRUE /\ new.applies = Matches(line.who) /\ new.denied = g.denied
        <3>0. Matches(line.who) \in BOOLEAN
            BY DEF Matches
        <3>1. PICK b \in BOOLEAN : b = Matches(line.who)
            BY <3>0
        <3>2. new = [g EXCEPT !.inGroup = TRUE, !.applies = b]
            BY <2>3, <3>1
        <3>3. /\ new \in [inGroup : BOOLEAN, applies : BOOLEAN, denied : SUBSET U]
              /\ new.inGroup = TRUE /\ new.applies = b /\ new.denied = g.denied
            BY <1>3, <3>2
        <3>4. QED
            BY <3>1, <3>3
    <2>5. k + 1 \in AgentLines(file) /\ k + 1 \notin DenyLines(file)
        BY <1>5, <1>6
    <2>6. LastBefore(file, k + 1, k + 2)
        BY <2>5 DEF LastBefore
    <2>7. ASSUME NEW j \in AgentLines(file), LastBefore(file, j, k + 2) PROVE j = k + 1
        <3>1. j \in Nat /\ j < k + 2
            BY <1>4, <2>7 DEF LastBefore
        <3>2. k + 1 \notin j + 1..(k + 2) - 1
            BY <2>5, <2>7 DEF LastBefore
        <3>3. QED
            BY <3>1, <3>2
    <2>8. Matches(line.who) <=> Addressed(file, k + 2)
        BY <1>1, <2>5, <2>6, <2>7 DEF Addressed
    <2>9. \A d \in DenyLines(file) : d <= k + 1 <=> d <= k
        BY <1>4, <2>5
    <2>10. (k + 1) + 1 = k + 2
        OBVIOUS
    <2>11. ReadUpTo(file, new, k + 1)
        BY <1>2, <1>3, <2>4, <2>5, <2>8, <2>9, <2>10 DEF ReadUpTo
    <2>12. QED
        BY <1>1, <2>1, <2>11
<1>7. ASSUME line.kind # "agent"
      PROVE  /\ Addressed(file, k + 2) <=> Addressed(file, k + 1)
             /\ \A j \in AgentLines(file) : j <= k + 1 <=> j <= k
    <2>1. k + 1 \notin AgentLines(file)
        BY <1>5, <1>7
    <2>2. \A j \in AgentLines(file) : (j <= k + 1 <=> j <= k) /\ (j < k + 2 <=> j < k + 1)
        BY <1>4, <2>1
    <2>3. ASSUME NEW j \in AgentLines(file)
          PROVE  LastBefore(file, j, k + 2) <=> LastBefore(file, j, k + 1)
        <3>1. j \in Nat
            BY <1>4
        <3>2. \A n \in AgentLines(file) : n \in j + 1..(k + 2) - 1 <=> n \in j + 1..(k + 1) - 1
            BY <1>4, <2>1, <3>1
        <3>3. QED
            BY <2>2, <3>2 DEF LastBefore
    <2>4. QED
        BY <2>2, <2>3 DEF Addressed
<1>8. CASE line.kind = "deny" /\ g.inGroup /\ g.applies
    <2>1. PICK new : new = ParseLine(g, line)
        OBVIOUS
    <2>2. new = [g EXCEPT !.denied = @ \cup line.urls]
        BY <1>8, <2>1 DEF ParseLine
    <2>3. line.urls \subseteq U
        BY <1>1, <1>2
    <2>4. /\ new \in [inGroup : BOOLEAN, applies : BOOLEAN, denied : SUBSET U]
          /\ new.inGroup = g.inGroup /\ new.applies = g.applies
          /\ new.denied = g.denied \cup line.urls
        BY <1>3, <2>2, <2>3
    <2>5. k + 1 \in DenyLines(file) /\ Addressed(file, k + 1)
        BY <1>3, <1>5, <1>8
    <2>6. \A d \in DenyLines(file) : d <= k + 1 <=> d <= k \/ d = k + 1
        BY <1>4
    <2>7. \A u : u \in new.denied <=>
              \E d \in DenyLines(file) : /\ d <= k + 1 /\ Addressed(file, d)
                                         /\ u \in file[d].urls
        <3> TAKE u
        <3>1. u \in g.denied <=> \E d \in DenyLines(file) : /\ d <= k /\ Addressed(file, d)
                                                            /\ u \in file[d].urls
            BY <1>3
        <3>2. QED
            BY <1>1, <2>4, <2>5, <2>6, <3>1
    <2>8. (k + 1) + 1 = k + 2
        OBVIOUS
    <2>9. ReadUpTo(file, new, k + 1)
        BY <1>2, <1>3, <1>7, <1>8, <2>4, <2>7, <2>8 DEF ReadUpTo
    <2>10. QED
        BY <1>1, <2>1, <2>9
<1>9. CASE line.kind # "agent" /\ ~(line.kind = "deny" /\ g.inGroup /\ g.applies)
    <2>1. ParseLine(g, line) = g
        BY <1>9 DEF ParseLine
    <2>2. g.applies => g.inGroup
        BY <1>3, <1>4 DEF Addressed, LastBefore
    <2>3. ~(k + 1 \in DenyLines(file) /\ Addressed(file, k + 1))
        BY <1>3, <1>5, <1>9, <2>2
    <2>4. \A d \in DenyLines(file) : d <= k + 1 /\ Addressed(file, d) <=> d <= k /\ Addressed(file, d)
        BY <1>4, <2>3
    <2>5. \A u : u \in g.denied <=>
              \E d \in DenyLines(file) : /\ d <= k + 1 /\ Addressed(file, d)
                                         /\ u \in file[d].urls
        BY <1>3, <2>4
    <2>6. (k + 1) + 1 = k + 2
        OBVIOUS
    <2>7. ReadUpTo(file, g, k + 1)
        BY <1>2, <1>3, <1>7, <1>9, <2>5, <2>6 DEF ReadUpTo
    <2>8. QED
        BY <1>1, <2>1, <2>7
<1>10. QED
    BY <1>6, <1>8, <1>9

LEMMA ParseIsReadUpTo ==
    ASSUME NEW S, NEW file \in Seq(S)
    PROVE  \E g : ReadUpTo(file, g, Len(file)) /\ Parse(file) = g.denied
<1>1. PICK n \in Nat : n = Len(file) /\ DOMAIN file = 1..n
    BY LenProperties
<1>2. PICK first : first = [inGroup |-> FALSE, applies |-> FALSE, denied |-> {}]
    OBVIOUS
<1> DEFINE Is(f) == f = [k \in 0..n |-> IF k = 0 THEN first ELSE ParseLine(f[k - 1], file[k])]
           upTo == CHOOSE f : Is(f)
<1>3. Parse(file) = upTo[n].denied
    BY <1>1, <1>2 DEF Parse
<1>4. first \in [inGroup : BOOLEAN, applies : BOOLEAN,
                 denied : SUBSET UNION {file[i].urls : i \in DOMAIN file}]
    BY <1>2
<1>5. \E f : Is(f)
    <2>1. PICK A : A = [inGroup : BOOLEAN, applies : BOOLEAN,
                        denied : SUBSET UNION {file[i].urls : i \in DOMAIN file}]
        OBVIOUS
    <2>2. PICK step : step = [k \in 1..n |-> [a \in A |-> ParseLine(a, file[k])]]
        OBVIOUS
    <2>3. ASSUME NEW k \in 1..n, NEW a \in A PROVE step[k][a] \in A
        <3>1. step[k][a] = ParseLine(a, file[k])
            BY <2>2
        <3>2. CASE file[k].kind = "agent"
            <4>1. PICK b \in BOOLEAN : b = ((a.applies /\ ~(a.inGroup /\ a.applies))
                                               \/ Matches(file[k].who))
                BY <2>1 DEF Matches
            <4>2. ParseLine(a, file[k]) = [a EXCEPT !.inGroup = TRUE, !.applies = b]
                BY <3>2, <4>1 DEF ParseLine
            <4>3. QED
                BY <2>1, <3>1, <4>2
        <3>3. CASE file[k].kind = "deny" /\ a.inGroup /\ a.applies
            <4>1. ParseLine(a, file[k]) = [a EXCEPT !.denied = @ \cup file[k].urls]
                BY <3>3 DEF ParseLine
            <4>2. file[k].urls \subseteq UNION {file[i].urls : i \in DOMAIN file}
                BY <1>1
            <4>3. QED
                BY <2>1, <3>1, <4>1, <4>2
        <3>4. CASE ~(file[k].kind = "agent")
                     /\ ~(file[k].kind = "deny" /\ a.inGroup /\ a.applies)
            BY <3>1, <3>4 DEF ParseLine
        <3>5. QED
            BY <3>2, <3>3, <3>4
    <2>4. Closed(A, n, first, step)
        BY <1>4, <2>1, <2>3 DEF Closed
    <2>5. PICK f \in [0..n -> A] : Stepped(f, n, first, step)
        BY <2>4, SteppedExists
    <2>6. ASSUME NEW k \in 0..n, k # 0
          PROVE  step[k][f[k - 1]] = ParseLine(f[k - 1], file[k])
        <3>1. k \in 1..n /\ k - 1 \in 0..n
            BY <2>6
        <3>2. f[k - 1] \in A
            BY <2>5, <3>1
        <3>3. QED
            BY <2>2, <3>1, <3>2
    <2>7. Is(f)
        BY <2>5, <2>6 DEF Stepped
    <2>8. QED
        BY <2>7
<1>6. Is(upTo)
    BY <1>5
<1> HIDE DEF upTo
<1> DEFINE P == {m \in Nat : m <= n => ReadUpTo(file, upTo[m], m)}
<1>7. 0 \in P
    <2>1. upTo[0] = first
        BY <1>6
    <2>2. AgentLines(file) \subseteq Nat \ {0} /\ DenyLines(file) \subseteq Nat \ {0}
        BY <1>1 DEF AgentLines, DenyLines
    <2>3. ~Addressed(file, 1)
        BY <2>2 DEF Addressed, LastBefore
    <2>4. ReadUpTo(file, first, 0)
        BY <1>2, <1>4, <2>2, <2>3 DEF ReadUpTo
    <2>5. QED
        BY <2>1, <2>4
<1>8. ASSUME NEW m \in Nat, m \in P PROVE m + 1 \in P
    <2> SUFFICES ASSUME m + 1 <= n PROVE ReadUpTo(file, upTo[m + 1], m + 1)
        OBVIOUS
    <2>1. upTo[m + 1] = ParseLine(upTo[m], file[m + 1])
        <3>1. m + 1 \in 0..n /\ m + 1 # 0 /\ (m + 1) - 1 = m
            OBVIOUS
        <3>2. QED
            BY <1>6, <3>1
    <2>2. DOMAIN file \subseteq Nat \ {0} /\ m + 1 \in DOMAIN file
        BY <1>1
    <2>3. ReadUpTo(file, upTo[m], m)
        BY <1>8
    <2>4. QED
        BY <2>1, <2>2, <2>3, ReadNextLine
<1>9. n \in P
    <2> HIDE DEF P
    <2>1. QED
        BY <1>7, <1>8, InductionOnSets
<1>10. QED
    BY <1>1, <1>3, <1>9

\* The parser agrees with its reference on every file.
THEOREM ParserReadsLastAgent ==
    ASSUME NEW S, NEW file \in Seq(S)
    PROVE  ReadsLastAgent(file)
<1>1. PICK n \in Nat : n = Len(file) /\ DOMAIN file = 1..n
    BY LenProperties
<1>2. PICK g : ReadUpTo(file, g, n) /\ Parse(file) = g.denied
    BY <1>1, ParseIsReadUpTo
<1>3. DenyLines(file) \subseteq 1..n /\ AgentLines(file) \subseteq 1..n
    BY <1>1 DEF DenyLines, AgentLines
<1>4. ASSUME NEW d \in DenyLines(file)
      PROVE  (\E k \in Group(file, d) : /\ Matches(file[k].who)
                                        /\ \A m \in Group(file, d) : m <= k)
                 <=> Addressed(file, d)
    <2>1. d \in Nat /\ DOMAIN file \subseteq Nat
        BY <1>1, <1>3
    <2>2. QED
        BY <2>1, AddressedByLast
<1>5. \A u : u \in Parse(file) <=> \E d \in DenyLines(file) : Addressed(file, d) /\ u \in file[d].urls
    BY <1>2, <1>3 DEF ReadUpTo
<1>6. \A u : u \in AskedByLastAgent(file) <=>
                 \E d \in DenyLines(file) : Addressed(file, d) /\ u \in file[d].urls
    BY <1>4 DEF AskedByLastAgent
<1>7. Parse(file) = AskedByLastAgent(file)
    BY <1>5, <1>6
<1>8. AskedByLastAgent(file) \subseteq Asked(file)
    BY DEF AskedByLastAgent, Asked
<1>9. ASSUME \A d \in DenyLines(file), k, m \in AgentLines(file) :
                 {k, m} \subseteq Group(file, d) => k = m
      PROVE  Asked(file) \subseteq AskedByLastAgent(file)
    <2>1. ASSUME NEW d \in DenyLines(file), NEW k \in Group(file, d), Matches(file[k].who)
          PROVE  \A m \in Group(file, d) : m <= k
        <3>1. Group(file, d) \subseteq AgentLines(file)
            BY DEF Group
        <3>2. \A m \in Group(file, d) : m = k
            BY <1>9, <3>1
        <3>3. QED
            BY <1>3, <3>1, <3>2
    <2>2. QED
        BY <2>1 DEF Asked, AskedByLastAgent
<1>10. QED
    BY <1>7, <1>8, <1>9 DEF ReadsLastAgent

THEOREM ParserCorrect == Spec => []ParserReference
<1>1. ParserReference
    BY FilesAssumption, ParserReadsLastAgent DEF ParserReference
<1>2. QED
    BY <1>1, PTL
=============================================================================
