----------------------------- MODULE SakaProofs -----------------------------
(***************************************************************************)
(* What the engine is, and what a caller is told, for all configuration     *)
(* files, pages and queries.                                                *)
(***************************************************************************)
EXTENDS Saka, SequenceTheorems, WellFoundedInduction, TLAPS

(* Induction over the naturals, for a set of them in place of a predicate.  *)

LEMMA InductionOnSets ==
    ASSUME NEW T, 0 \in T, \A n \in Nat : n \in T => n + 1 \in T
    PROVE  Nat \subseteq T
<1> DEFINE R == {p \in Nat \X Nat : p[1] < p[2]}
           Rest == Nat \ T
<1> SUFFICES ASSUME Rest # {} PROVE FALSE
    OBVIOUS
<1>1. IsWellFoundedOn(R, Nat)
    <2>1. R = OpToRel(<, Nat)
        BY DEF OpToRel
    <2>2. QED
        BY <2>1, NatLessThanWellFounded
<1>2. PICK x \in Rest : \A y \in Rest : <<y, x>> \notin R
    <2>1. Rest \subseteq Nat
        OBVIOUS
    <2> HIDE DEF R, Rest
    <2>2. QED
        BY <1>1, <2>1, WFMin
<1>3. x - 1 \in Nat /\ <<x - 1, x>> \in R
    OBVIOUS
<1>4. QED
    BY <1>2, <1>3

\* step[k] leads from the value of f at k - 1 to that at k.
Stepped(f, n, first, step) ==
    f = [k \in 0..n |-> IF k = 0 THEN first ELSE step[k][f[k - 1]]]

Closed(A, n, first, step) == first \in A /\ \A k \in 1..n, a \in A : step[k][a] \in A

\* A function that is defined step by step from 0 to n exists.
LEMMA SteppedExists ==
    ASSUME NEW A, NEW n \in Nat, NEW first, NEW step, Closed(A, n, first, step)
    PROVE  \E f \in [0..n -> A] : Stepped(f, n, first, step)
<1> USE DEF Stepped, Closed
<1> DEFINE Upto(m) == \E f \in [0..m -> A] :
                         Stepped(f, m, first, step)
           T == {m \in Nat : m <= n => Upto(m)}
<1>1. 0 \in T
    <2> DEFINE f == [k \in 0..0 |-> first]
    <2>1. f \in [0..0 -> A] /\ Stepped(f, 0, first, step)
        OBVIOUS
    <2>2. QED
        BY <2>1
<1>2. ASSUME NEW m \in Nat, m \in T PROVE m + 1 \in T
    <2> SUFFICES ASSUME m + 1 <= n PROVE Upto(m + 1)
        OBVIOUS
    <2>1. PICK g \in [0..m -> A] : Stepped(g, m, first, step)
        BY <1>2
    <2> DEFINE f == [k \in 0..m + 1 |-> IF k = m + 1 THEN step[m + 1][g[m]] ELSE g[k]]
    <2>2. f \in [0..m + 1 -> A]
        OBVIOUS
    <2>3. ASSUME NEW k \in 0..m + 1
          PROVE  f[k] = IF k = 0 THEN first ELSE step[k][f[k - 1]]
        <3>1. CASE k = m + 1
            BY <3>1
        <3>2. CASE k # m + 1
            <4>1. k \in 0..m /\ (k # 0 => k - 1 \in 0..m)
                BY <3>2
            <4>2. g[k] = IF k = 0 THEN first ELSE step[k][g[k - 1]]
                BY <2>1, <4>1
            <4>3. f[k] = g[k] /\ (k # 0 => f[k - 1] = g[k - 1])
                BY <4>1
            <4>4. QED
                BY <4>2, <4>3
        <3>3. QED
            BY <3>1, <3>2
    <2>4. Stepped(f, m + 1, first, step)
        BY <2>3
    <2> HIDE DEF f
    <2>5. QED
        BY <2>2, <2>4
<1>3. Nat \subseteq T
    <2> HIDE DEF T
    <2>1. QED
        BY <1>1, <1>2, InductionOnSets
<1>4. QED
    BY <1>3

-----------------------------------------------------------------------------
(* The helper InOrder.                                                      *)

\* s lists the members of T up to n, in increasing order.
Lists(s, T, n) ==
    /\ s \in Seq(1..n)
    /\ \A k \in 1..Len(s) : s[k] \in T
    /\ \A j, k \in 1..Len(s) : j < k => s[j] < s[k]
    /\ \A i \in 1..n : i \in T => \E k \in 1..Len(s) : s[k] = i
    /\ Len(s) <= n
    /\ \A i \in 1..n : 1..i \subseteq T => i <= Len(s) /\ s[i] = i

LEMMA ListsNext ==
    ASSUME NEW T, NEW n \in Nat, NEW s, Lists(s, T, n)
    PROVE  Lists(IF n + 1 \in T THEN Append(s, n + 1) ELSE s, T, n + 1)
<1>1. /\ s \in Seq(1..n + 1) /\ Len(s) \in Nat /\ \A k \in 1..Len(s) : s[k] \in 1..n
    BY DEF Lists
<1>2. CASE n + 1 \in T
    <2> DEFINE t == Append(s, n + 1)
    <2>1. /\ t \in Seq(1..n + 1) /\ Len(t) = Len(s) + 1 /\ t[Len(s) + 1] = n + 1
          /\ \A k \in 1..Len(s) : t[k] = s[k]
        BY <1>1, AppendProperties
    <2> HIDE DEF t
    <2>2. ASSUME NEW k \in 1..Len(t) PROVE t[k] \in T
        <3>1. CASE k = Len(s) + 1
            BY <1>2, <2>1, <3>1
        <3>2. CASE k # Len(s) + 1
            <4>1. k \in 1..Len(s)
                BY <1>1, <2>1, <3>2
            <4>2. QED
                BY <2>1, <4>1 DEF Lists
        <3>3. QED
            BY <3>1, <3>2
    <2>3. \A j, k \in 1..Len(t) : j < k => t[j] < t[k]
        <3> SUFFICES ASSUME NEW j \in 1..Len(t), NEW k \in 1..Len(t), j < k PROVE t[j] < t[k]
            OBVIOUS
        <3>1. j \in 1..Len(s) /\ t[j] = s[j]
            BY <1>1, <2>1
        <3>2. CASE k = Len(s) + 1
            BY <1>1, <2>1, <3>1, <3>2
        <3>3. CASE k # Len(s) + 1
            <4>1. k \in 1..Len(s)
                <5>1. Len(t) = Len(s) + 1 /\ Len(s) \in Nat
                    BY <1>1, <2>1
                <5>2. QED
                    BY <5>1, <3>3
            <4>2. t[k] = s[k] /\ s[j] < s[k]
                BY <2>1, <3>1, <4>1 DEF Lists
            <4>3. QED
                BY <3>1, <4>2
        <3>4. QED
            BY <3>2, <3>3
    <2>4. ASSUME NEW i \in 1..n + 1, i \in T PROVE \E k \in 1..Len(t) : t[k] = i
        <3>1. CASE i = n + 1
            BY <1>1, <2>1, <3>1
        <3>2. CASE i # n + 1
            <4>1. PICK k \in 1..Len(s) : s[k] = i
                BY <2>4, <3>2 DEF Lists
            <4>2. k \in 1..Len(t) /\ t[k] = i
                BY <1>1, <2>1, <4>1
            <4>3. QED
                BY <4>2
        <3>3. QED
            BY <3>1, <3>2
    <2>5. Len(t) <= n + 1
        BY <1>1, <2>1 DEF Lists
    <2>6. ASSUME NEW i \in 1..n + 1, 1..i \subseteq T PROVE i <= Len(t) /\ t[i] = i
        <3>1. CASE i = n + 1
            <4>1. Len(s) = n
                <5>1. CASE n = 0
                    BY <1>1, <5>1 DEF Lists
                <5>2. CASE n # 0
                    <6>1. n \in 1..n /\ 1..n \subseteq T
                        BY <2>6, <3>1, <5>2
                    <6>2. n <= Len(s)
                        BY <6>1 DEF Lists
                    <6>3. QED
                        BY <1>1, <6>2 DEF Lists
                <5>3. QED
                    BY <5>1, <5>2
            <4>2. QED
                BY <2>1, <3>1, <4>1
        <3>2. CASE i # n + 1
            <4>1. i <= Len(s) /\ s[i] = i
                BY <2>6, <3>2 DEF Lists
            <4>2. QED
                BY <1>1, <2>1, <4>1
        <3>3. QED
            BY <3>1, <3>2
    <2>7. QED
        BY <1>2, <2>1, <2>2, <2>3, <2>4, <2>5, <2>6 DEF Lists, t
<1>3. CASE n + 1 \notin T
    <2>1. \A i \in 1..n + 1 : i \in T \/ 1..i \subseteq T => i \in 1..n
        BY <1>3
    <2>2. QED
        BY <1>1, <1>3, <2>1 DEF Lists
<1>4. QED
    BY <1>2, <1>3

LEMMA InOrderLists ==
    ASSUME NEW T, NEW n \in Nat
    PROVE  Lists(InOrder(T, n), T, n)
<1> DEFINE Is(f) == f = [k \in 0..n |-> IF k = 0 THEN <<>>
                            ELSE IF k \in T THEN Append(f[k - 1], k) ELSE f[k - 1]]
           upTo == CHOOSE f : Is(f)
<1>1. \E f : Is(f)
    <2>1. PICK A : A = Seq(Nat)
        OBVIOUS
    <2>2. PICK step : step = [k \in 1..n |-> [a \in A |-> IF k \in T THEN Append(a, k) ELSE a]]
        OBVIOUS
    <2>0. PICK first : first = <<>>
        OBVIOUS
    <2>3. Closed(A, n, first, step)
        <3>1. ASSUME NEW k \in 1..n, NEW a \in A PROVE step[k][a] \in A
            <4>1. k \in Nat /\ a \in Seq(Nat)
                BY <2>1
            <4>2. step[k][a] = IF k \in T THEN Append(a, k) ELSE a
                BY <2>2
            <4>3. QED
                BY <2>1, <4>1, <4>2
        <3>2. QED
            BY <2>0, <2>1, <3>1 DEF Closed
    <2>4. PICK f \in [0..n -> A] : Stepped(f, n, first, step)
        BY <2>3, SteppedExists
    <2>5. ASSUME NEW k \in 0..n, k # 0
          PROVE step[k][f[k - 1]] = IF k \in T THEN Append(f[k - 1], k) ELSE f[k - 1]
        <3>1. k \in 1..n /\ k - 1 \in 0..n
            BY <2>5
        <3>3. f[k - 1] \in A
            BY <2>4, <3>1
        <3>2. QED
            BY <2>2, <3>1, <3>3
    <2>6. Is(f)
        BY <2>0, <2>4, <2>5 DEF Stepped
    <2>7. QED
        BY <2>6
<1>2. Is(upTo)
    BY <1>1
<1>3. InOrder(T, n) = upTo[n]
    BY DEF InOrder
<1> HIDE DEF upTo
<1> DEFINE P == {m \in Nat : m <= n => Lists(upTo[m], T, m)}
<1>4. 0 \in P
    <2>1. upTo[0] = <<>>
        BY <1>2
    <2>2. Lists(<<>>, T, 0)
        BY DEF Lists
    <2>3. QED
        BY <2>1, <2>2
<1>5. ASSUME NEW m \in Nat, m \in P PROVE m + 1 \in P
    <2> SUFFICES ASSUME m + 1 <= n PROVE Lists(upTo[m + 1], T, m + 1)
        OBVIOUS
    <2>1. upTo[m + 1] = IF m + 1 \in T THEN Append(upTo[m], m + 1) ELSE upTo[m]
        <3>1. m + 1 \in 0..n /\ m + 1 # 0 /\ (m + 1) - 1 = m
            OBVIOUS
        <3>2. QED
            BY <1>2, <3>1
    <2>2. QED
        BY <1>5, <2>1, ListsNext
<1>6. n \in P
    <2> HIDE DEF P
    <2>1. QED
        BY <1>4, <1>5, InductionOnSets
<1>7. QED
    BY <1>3, <1>6

-----------------------------------------------------------------------------
(* What the providers make of a page.                                       *)

\* The entries and snippets that provider p has taken from the first n entries
\* of a page, before they are numbered.
Well(found, p, max, page, n) ==
    /\ found \in Seq([entry : 1..n, snippet : 0..n])
    /\ Len(found) <= max
    /\ \A j, k \in 1..Len(found) : j < k => found[j].entry < found[k].entry
    /\ \A k \in 1..Len(found) : SnippetBelongs(p, page, found[k])

LEMMA NumberedRanked ==
    ASSUME NEW found, NEW p, NEW max \in Nat, NEW page, NEW n \in Nat,
           Well(found, p, max, page, n)
    PROVE  /\ Ranked(Numbered(found), max)
           /\ \A k \in DOMAIN Numbered(found) :
                 SnippetBelongs(p, page, Numbered(found)[k])
<1>1. /\ found \in Seq([entry : 1..n, snippet : 0..n]) /\ Len(found) \in Nat
      /\ DOMAIN found = 1..Len(found)
    BY DEF Well
<1> DEFINE list == Numbered(found)
<1>2. /\ DOMAIN list = 1..Len(found)
      /\ \A k \in 1..Len(found) : /\ list[k].entry = found[k].entry
                                  /\ list[k].snippet = found[k].snippet
                                  /\ list[k].position = k
    BY <1>1 DEF Numbered
<1>3. Len(list) = Len(found)
    BY <1>1, <1>2, LenProperties DEF Numbered
<1> HIDE DEF list
<1>4. Ranked(list, max)
    <2>1. Len(list) <= max
        BY <1>3 DEF Well
    <2>2. ASSUME NEW k \in DOMAIN list, k > 1 PROVE list[k - 1].entry < list[k].entry
        <3>1. k \in 1..Len(found) /\ k - 1 \in 1..Len(found) /\ k - 1 < k
            BY <1>1, <1>2, <2>2
        <3>2. found[k - 1].entry < found[k].entry
            BY <3>1 DEF Well
        <3>3. QED
            BY <1>2, <3>1, <3>2
    <2>3. QED
        BY <1>2, <2>1, <2>2 DEF Ranked
<1>5. ASSUME NEW k \in DOMAIN list PROVE SnippetBelongs(p, page, list[k])
    <2>1. SnippetBelongs(p, page, found[k])
        BY <1>2 DEF Well
    <2>2. list[k].entry = found[k].entry /\ list[k].snippet = found[k].snippet
        BY <1>2
    <2>3. QED
        BY <2>1, <2>2 DEF SnippetBelongs
<1>6. QED
    BY <1>4, <1>5 DEF list

LEMMA FunctionIsSeq ==
    ASSUME NEW S, NEW m \in Nat, NEW f \in [1..m -> S]
    PROVE  f \in Seq(S) /\ Len(f) = m
<1>1. f \in Seq(S)
    BY SeqDef
<1>2. QED
    BY <1>1, LenProperties

\* The JSON backends.
LEMMA FirstOnes ==
    ASSUME NEW p, NEW max \in Nat, NEW page \in Seq(Entry), NEW n \in Nat,
           n <= Len(page), n <= max, NEW snippet,
           \A k \in 1..n : /\ snippet[k] \in {0, k}
                           /\ SnippetBelongs(p, page, [entry |-> k, snippet |-> snippet[k]])
    PROVE  Well([k \in 1..n |-> [entry |-> k, snippet |-> snippet[k]]], p, max, page, Len(page))
<1>1. PICK found : found = [k \in 1..n |-> [entry |-> k, snippet |-> snippet[k]]]
    OBVIOUS
<1>2. ASSUME NEW k \in 1..n
      PROVE  /\ found[k].entry = k
             /\ found[k] \in [entry : 1..Len(page), snippet : 0..Len(page)]
             /\ SnippetBelongs(p, page, found[k])
    <2>1. found[k] = [entry |-> k, snippet |-> snippet[k]]
        BY <1>1
    <2>2. k \in 1..Len(page)
        <3>1. Len(page) \in Nat
            BY LenProperties
        <3>2. QED
            BY <3>1
    <2>3. snippet[k] = 0 \/ snippet[k] = k
        OBVIOUS
    <2>4. snippet[k] \in 0..Len(page)
        BY <2>2, <2>3
    <2>5. QED
        BY <2>1, <2>2, <2>4
<1>3. found \in Seq([entry : 1..Len(page), snippet : 0..Len(page)]) /\ Len(found) = n
    <2>1. DOMAIN found = 1..n /\ found = [k \in 1..n |-> found[k]]
        BY <1>1
    <2>2. found \in [1..n -> [entry : 1..Len(page), snippet : 0..Len(page)]]
        BY <1>2, <2>1
    <2>3. QED
        BY <2>2, FunctionIsSeq
<1>4. \A j, k \in 1..n : j < k => found[j].entry < found[k].entry
    BY <1>2
<1>5. Well(found, p, max, page, Len(page))
    BY <1>2, <1>3, <1>4 DEF Well
<1>6. QED
    BY <1>1, <1>5

\* Links and snippets are paired by their order: the k-th entry of a complete
\* page start has the k-th link and the k-th snippet.
LEMMA PairedByOrderWell ==
    ASSUME NEW max \in Nat, NEW page \in Seq(Entry)
    PROVE  \E found : /\ PairedByOrder(max, page) = Numbered(found)
                      /\ Well(found, "duckduckgo", max, page, Len(page))
<1> DEFINE n == Len(page)
           linked == {i \in DOMAIN page : page[i].link}
           shown == {i \in DOMAIN page : page[i].snippet}
           links == InOrder(linked, n)
           snips == InOrder(shown, n)
           found == [k \in 1..Lesser(Len(links), max) |->
                        [entry |-> links[k],
                         snippet |-> IF k <= Len(snips) THEN snips[k] ELSE 0]]
<1>1. n \in Nat /\ DOMAIN page = 1..n
    OBVIOUS
<1>2. Lists(links, linked, n) /\ Lists(snips, shown, n)
    BY <1>1, InOrderLists
<1>3. PairedByOrder(max, page) = Numbered(found)
    BY DEF PairedByOrder, Snippets
<1> HIDE DEF n, links, snips
<1>4. /\ Len(links) \in Nat /\ Len(snips) \in Nat
      /\ \A k \in 1..Len(links) : links[k] \in 1..n
      /\ \A k \in 1..Len(snips) : snips[k] \in 1..n
    <2> HIDE DEF found
    <2>1. links \in Seq(1..n) /\ snips \in Seq(1..n)
        BY <1>2 DEF Lists
    <2>2. QED
        BY <2>1, LenProperties, ElementOfSeq
<1>5. /\ Lesser(Len(links), max) \in Nat
      /\ Lesser(Len(links), max) <= Len(links)
      /\ Lesser(Len(links), max) <= max
    BY <1>4 DEF Lesser
<1>6. ASSUME NEW k \in DOMAIN found
      PROVE  /\ k \in 1..Len(links)
             /\ found[k] \in [entry : 1..n, snippet : 0..n]
             /\ SnippetBelongs("duckduckgo", page, found[k])
    <2>1. k \in 1..Len(links)
        BY <1>4, <1>5
    <2>2. found[k].entry = links[k]
          /\ found[k].snippet = IF k <= Len(snips) THEN snips[k] ELSE 0
        OBVIOUS
    <2>3. found[k] \in [entry : 1..n, snippet : 0..n]
        <3>1. found[k].snippet \in 0..n
            BY <1>1, <1>4, <2>1, <2>2
        <3>2. QED
            BY <1>4, <2>1, <3>1
    <2>4. ASSUME CompleteUpTo(page, links[k]) PROVE found[k].snippet = links[k]
        <3>1. links[k] \in 1..n
            BY <1>4, <2>1
        <3>2. 1..links[k] \subseteq linked /\ 1..links[k] \subseteq shown
            BY <1>1, <2>4, <3>1 DEF CompleteUpTo
        <3>3. links[k] <= Len(links) /\ links[links[k]] = links[k]
            BY <1>2, <3>1, <3>2 DEF Lists
        <3>4. links[k] <= Len(snips) /\ snips[links[k]] = links[k]
            BY <1>2, <3>1, <3>2 DEF Lists
        <3>5. links[k] = k
            <4>1. links[k] \in 1..Len(links)
                BY <1>1, <1>4, <3>1, <3>3
            <4>2. \A i, j \in 1..Len(links) : i < j => links[i] < links[j]
                BY <1>2 DEF Lists
            <4>3. ~(links[k] < k) /\ ~(k < links[k])
                BY <2>1, <3>1, <3>3, <4>1, <4>2
            <4>4. QED
                BY <2>1, <3>1, <4>3
        <3>6. QED
            BY <2>2, <3>4, <3>5
    <2>5. QED
        BY <2>1, <2>2, <2>3, <2>4 DEF SnippetBelongs
<1>7. found \in Seq([entry : 1..n, snippet : 0..n]) /\ Len(found) = Lesser(Len(links), max)
    <2>1. found \in Seq([entry : 1..n, snippet : 0..n])
        <3>1. PICK m \in Nat : m = Lesser(Len(links), max)
            BY <1>5
        <3>2. DOMAIN found = 1..m
            BY <3>1
        <3>3. found = [k \in 1..m |-> found[k]]
            BY <3>1
        <3> HIDE DEF found
        <3>4. \A k \in 1..m : found[k] \in [entry : 1..n, snippet : 0..n]
            BY <1>6, <3>2
        <3>5. found \in [1..m -> [entry : 1..n, snippet : 0..n]]
            BY <3>3, <3>4
        <3>6. QED
            BY <3>5, FunctionIsSeq
    <2>2. QED
        BY <1>5, <2>1, LenProperties
<1>8. ASSUME NEW j \in 1..Len(found), NEW k \in 1..Len(found), j < k
      PROVE  found[j].entry < found[k].entry
    <2>1. /\ j \in 1..Len(links) /\ k \in 1..Len(links)
          /\ found[j].entry = links[j] /\ found[k].entry = links[k]
        BY <1>6, <1>7
    <2>2. QED
        BY <1>2, <1>8, <2>1 DEF Lists
<1>9. Well(found, "duckduckgo", max, page, n)
    <2> HIDE DEF found
    <2>1. DOMAIN found = 1..Len(found)
        BY <1>7
    <2>2. QED
        BY <1>5, <1>6, <1>7, <1>8, <2>1 DEF Well
<1>10. QED
    <2> HIDE DEF found
    <2>1. QED
        BY <1>3, <1>9 DEF n

\* Startpage's loop: what each entry of the page makes of the results so far.
TakeLink(found, i, max, page) ==
    IF page[i].link /\ Len(found) < max
    THEN Append(found, [entry |-> i, snippet |-> 0]) ELSE found

TakeSnippet(found, i, page) ==
    IF page[i].snippet /\ found # <<>> /\ Last(found).snippet = 0
    THEN [found EXCEPT ![Len(found)].snippet = i] ELSE found

\* What holds between the two: only the last result can be of entry m + 1, and
\* then it has no snippet yet.
Linked(found, max, page, m) ==
    /\ found \in Seq([entry : 1..m + 1, snippet : 0..m])
    /\ Len(found) <= max
    /\ \A j, k \in 1..Len(found) : j < k => found[j].entry < found[k].entry
    /\ \A k \in 1..Len(found) : k < Len(found) => found[k].entry <= m
    /\ \A k \in 1..Len(found) :
        /\ found[k].entry <= m => SnippetBelongs("startpage", page, found[k])
        /\ found[k].entry = m + 1 => found[k].snippet = 0

LEMMA TakeLinkLinked ==
    ASSUME NEW max \in Nat, NEW page \in Seq(Entry), NEW m \in Nat,
           NEW found, Well(found, "startpage", max, page, m)
    PROVE  Linked(TakeLink(found, m + 1, max, page), max, page, m)
<1>1. /\ found \in Seq([entry : 1..m, snippet : 0..m]) /\ Len(found) \in Nat
      /\ \A k \in 1..Len(found) : found[k] \in [entry : 1..m, snippet : 0..m]
    BY LenProperties, ElementOfSeq DEF Well
<1>2. found \in Seq([entry : 1..m + 1, snippet : 0..m])
    <2>1. found \in [1..Len(found) -> [entry : 1..m + 1, snippet : 0..m]]
        BY <1>1, LenProperties
    <2>2. QED
        BY <1>1, <2>1, FunctionIsSeq
<1>3. CASE page[m + 1].link /\ Len(found) < max
    <2>1. PICK r : r = [entry |-> m + 1, snippet |-> 0]
        OBVIOUS
    <2>2. PICK new : new = Append(found, r)
        OBVIOUS
    <2>3. r \in [entry : 1..m + 1, snippet : 0..m] /\ r.entry = m + 1 /\ r.snippet = 0
        BY <2>1
    <2>4. /\ new \in Seq([entry : 1..m + 1, snippet : 0..m])
          /\ Len(new) = Len(found) + 1 /\ new[Len(found) + 1] = r
          /\ \A k \in 1..Len(found) : new[k] = found[k]
        BY <1>1, <1>2, <2>2, <2>3, AppendProperties
    <2>5. ASSUME NEW k \in 1..Len(new)
          PROVE  \/ k = Len(found) + 1 /\ new[k].entry = m + 1 /\ new[k].snippet = 0
                 \/ /\ k \in 1..Len(found) /\ new[k] = found[k] /\ new[k].entry <= m
                    /\ new[k].entry # m + 1
                    /\ SnippetBelongs("startpage", page, new[k])
        <3>1. CASE k = Len(found) + 1
            BY <2>3, <2>4, <3>1
        <3>2. CASE k # Len(found) + 1
            <4>1. k \in 1..Len(found)
                <5>1. Len(new) = Len(found) + 1 /\ Len(found) \in Nat
                    BY <1>1, <2>4
                <5>2. QED
                    BY <3>2, <5>1
            <4>2. new[k] = found[k] /\ found[k].entry \in 1..m
                BY <1>1, <2>4, <4>1
            <4>3. SnippetBelongs("startpage", page, found[k])
                BY <4>1 DEF Well
            <4>4. QED
                BY <4>1, <4>2, <4>3
        <3>3. QED
            BY <3>1, <3>2
    <2>6. ASSUME NEW j \in 1..Len(new), NEW k \in 1..Len(new), j < k
          PROVE  new[j].entry < new[k].entry /\ new[j].entry <= m
        <3>1. j \in 1..Len(found) /\ new[j].entry = found[j].entry /\ new[j].entry <= m
              /\ found[j].entry \in 1..m
            <4>1. j # Len(found) + 1
                BY <1>1, <2>4, <2>6
            <4>2. QED
                BY <1>1, <2>5, <4>1
        <3>2. CASE k = Len(found) + 1
            BY <2>3, <2>4, <3>1, <3>2
        <3>3. CASE k # Len(found) + 1
            <4>1. k \in 1..Len(found) /\ new[k] = found[k]
                BY <2>5, <3>3
            <4>2. found[j].entry < found[k].entry
                BY <2>6, <3>1, <4>1 DEF Well
            <4>3. QED
                BY <3>1, <4>1, <4>2
        <3>4. QED
            BY <3>2, <3>3
    <2>7. Len(new) <= max
        BY <1>1, <1>3, <2>4
    <2>8. TakeLink(found, m + 1, max, page) = new
        BY <1>3, <2>1, <2>2 DEF TakeLink
    <2>9. \A k \in 1..Len(new) : k < Len(new) => new[k].entry <= m
        <3>1. Len(new) \in 1..Len(new)
            BY <1>1, <2>4
        <3>2. QED
            BY <2>6, <3>1
    <2>10. \A k \in 1..Len(new) : /\ new[k].entry <= m => SnippetBelongs("startpage", page, new[k])
                                  /\ new[k].entry = m + 1 => new[k].snippet = 0
        BY <2>5
    <2>11. QED
        BY <2>4, <2>6, <2>7, <2>8, <2>9, <2>10 DEF Linked
<1>4. CASE ~(page[m + 1].link /\ Len(found) < max)
    <2>1. TakeLink(found, m + 1, max, page) = found
        BY <1>4 DEF TakeLink
    <2>2. \A k \in 1..Len(found) : found[k].entry <= m /\ found[k].entry # m + 1
        BY <1>1
    <2>3. /\ Len(found) <= max
          /\ \A j, k \in 1..Len(found) : j < k => found[j].entry < found[k].entry
          /\ \A k \in 1..Len(found) : SnippetBelongs("startpage", page, found[k])
        BY DEF Well
    <2>4. QED
        BY <1>2, <2>1, <2>2, <2>3 DEF Linked
<1>5. QED
    BY <1>3, <1>4

LEMMA TakeSnippetWell ==
    ASSUME NEW max \in Nat, NEW page \in Seq(Entry), NEW m \in Nat,
           NEW found, Linked(found, max, page, m)
    PROVE  Well(TakeSnippet(found, m + 1, page), "startpage", max, page, m + 1)
<1>1. PICK n : n = Len(found)
    OBVIOUS
<1>2. /\ found \in Seq([entry : 1..m + 1, snippet : 0..m]) /\ n \in Nat
      /\ found \in [1..n -> [entry : 1..m + 1, snippet : 0..m]]
      /\ \A k \in 1..n : found[k] \in [entry : 1..m + 1, snippet : 0..m]
    BY <1>1, LenProperties DEF Linked
<1>3. CASE page[m + 1].snippet /\ found # <<>> /\ Last(found).snippet = 0
    <2>1. n \in 1..n
        BY <1>1, <1>2, <1>3, EmptySeq
    <2>2. PICK new : new = [found EXCEPT ![n].snippet = m + 1]
        OBVIOUS
    <2>3. TakeSnippet(found, m + 1, page) = new
        BY <1>1, <1>3, <2>2 DEF TakeSnippet
    <2>4. /\ new[n].entry = found[n].entry /\ new[n].snippet = m + 1
          /\ new[n] \in [entry : 1..m + 1, snippet : 0..m + 1]
        <3>1. found[n] \in [entry : 1..m + 1, snippet : 0..m]
            BY <1>2, <2>1
        <3>2. new[n] = [found[n] EXCEPT !.snippet = m + 1]
            BY <1>2, <2>1, <2>2
        <3>3. QED
            BY <3>1, <3>2
    <2>5. ASSUME NEW k \in 1..n, k # n
          PROVE  new[k] = found[k] /\ new[k] \in [entry : 1..m + 1, snippet : 0..m + 1]
        <3>1. new[k] = found[k]
            BY <1>2, <2>2, <2>5
        <3>2. found[k] \in [entry : 1..m + 1, snippet : 0..m]
            BY <1>2
        <3>3. QED
            BY <3>1, <3>2
    <2>6. new \in Seq([entry : 1..m + 1, snippet : 0..m + 1]) /\ Len(new) = n
        <3>1. DOMAIN new = 1..n /\ new = [k \in DOMAIN new |-> new[k]]
            BY <1>2, <2>2
        <3>2. new \in [1..n -> [entry : 1..m + 1, snippet : 0..m + 1]]
            BY <2>4, <2>5, <3>1
        <3>3. n \in Nat
            BY <1>2
        <3>4. QED
            BY <3>2, <3>3, FunctionIsSeq
    <2>7. ASSUME NEW k \in 1..n PROVE new[k].entry = found[k].entry
        BY <2>4, <2>5
    <2>8. \A j, k \in 1..n : j < k => new[j].entry < new[k].entry
        BY <1>1, <2>7 DEF Linked
    <2>9. ASSUME NEW k \in 1..n, k # n PROVE SnippetBelongs("startpage", page, new[k])
        <3>1. k < n
            BY <1>2, <2>9
        <3>2. SnippetBelongs("startpage", page, found[k])
            BY <1>1, <3>1 DEF Linked
        <3>3. QED
            BY <2>5, <2>9, <3>2
    <2>10. SnippetBelongs("startpage", page, new[n])
        <3>1. CASE found[n].entry = m + 1
            BY <2>4, <3>1 DEF SnippetBelongs
        <3>2. CASE found[n].entry # m + 1
            <4>1. found[n].entry \in 1..m
                BY <1>2, <2>1, <3>2
            <4>2. SnippetBelongs("startpage", page, found[n])
                BY <1>1, <2>1, <4>1 DEF Linked
            <4>3. found[n].snippet = 0
                BY <1>1, <1>3 DEF Last
            <4>4. ~page[found[n].entry].snippet
                BY <4>1, <4>2, <4>3 DEF SnippetBelongs
            <4>5. QED
                BY <2>4, <4>4 DEF SnippetBelongs
        <3>3. QED
            BY <3>1, <3>2
    <2>11. n <= max
        BY <1>1 DEF Linked
    <2>12. QED
        BY <2>3, <2>6, <2>8, <2>9, <2>10, <2>11 DEF Well
<1>4. CASE ~(page[m + 1].snippet /\ found # <<>> /\ Last(found).snippet = 0)
    <2>1. TakeSnippet(found, m + 1, page) = found
        BY <1>4 DEF TakeSnippet
    <2>2. found \in Seq([entry : 1..m + 1, snippet : 0..m + 1])
        <3>1. ASSUME NEW k \in 1..n PROVE found[k] \in [entry : 1..m + 1, snippet : 0..m + 1]
            BY <1>2
        <3>2. found \in [1..n -> [entry : 1..m + 1, snippet : 0..m + 1]]
            BY <1>2, <3>1
        <3>3. n \in Nat
            BY <1>2
        <3>4. QED
            BY <3>2, <3>3, FunctionIsSeq
    <2>3. ASSUME NEW k \in 1..n PROVE SnippetBelongs("startpage", page, found[k])
        <3>1. CASE found[k].entry = m + 1
            <4>1. k = n
                BY <1>1, <1>2, <3>1 DEF Linked
            <4>2. found # <<>>
                BY <1>1, <1>2, <4>1
            <4>3. found[k].snippet = 0
                BY <1>1, <3>1 DEF Linked
            <4>4. ~page[m + 1].snippet
                BY <1>1, <1>4, <4>1, <4>2, <4>3 DEF Last
            <4>5. QED
                BY <3>1, <4>4 DEF SnippetBelongs
        <3>2. CASE found[k].entry # m + 1
            <4>1. found[k].entry <= m
                BY <1>2, <3>2
            <4>2. QED
                BY <1>1, <4>1 DEF Linked
        <3>3. QED
            BY <3>1, <3>2
    <2>4. QED
        BY <1>1, <2>1, <2>2, <2>3 DEF Linked, Well
<1>5. QED
    BY <1>3, <1>4

LEMMA PairedWithLastWell ==
    ASSUME NEW max \in Nat, NEW page \in Seq(Entry)
    PROVE  \E found : /\ PairedWithLast(max, page) = Numbered(found)
                      /\ Well(found, "startpage", max, page, Len(page))
<1>1. PICK n \in Nat : n = Len(page)
    BY LenProperties
<1> DEFINE Is(f) == f = [k \in 0..n |-> IF k = 0 THEN <<>>
                            ELSE TakeSnippet(TakeLink(f[k - 1], k, max, page), k, page)]
           upTo == CHOOSE f : Is(f)
<1>2. PairedWithLast(max, page) = Numbered(upTo[n])
    BY <1>1 DEF PairedWithLast, TakeLink, TakeSnippet
<1>3. \E f : Is(f)
    <2>1. PICK A : A = Seq([entry : Nat, snippet : Nat])
        OBVIOUS
    <2>2. PICK step : step = [k \in 1..n |-> [a \in A |->
                                 TakeSnippet(TakeLink(a, k, max, page), k, page)]]
        OBVIOUS
    <2>3. PICK first : first = <<>>
        OBVIOUS
    <2>4. Closed(A, n, first, step)
        <3>1. ASSUME NEW k \in 1..n, NEW a \in A PROVE step[k][a] \in A
            <4>1. PICK b : b = TakeLink(a, k, max, page)
                OBVIOUS
            <4>2. b \in Seq([entry : Nat, snippet : Nat])
                <5>1. [entry |-> k, snippet |-> 0] \in [entry : Nat, snippet : Nat]
                    BY <1>1
                <5>2. a \in Seq([entry : Nat, snippet : Nat])
                    BY <2>1
                <5>3. QED
                    BY <4>1, <5>1, <5>2, AppendProperties DEF TakeLink
            <4>3. TakeSnippet(b, k, page) \in Seq([entry : Nat, snippet : Nat])
                <5>1. CASE b # <<>>
                    <6>1. PICK j \in Nat : j = Len(b)
                        BY <4>2, LenProperties
                    <6>2. b \in [1..j -> [entry : Nat, snippet : Nat]] /\ j \in 1..j
                        <7>1. b \in [1..j -> [entry : Nat, snippet : Nat]]
                            BY <4>2, <6>1, LenProperties
                        <7>2. j # 0
                            BY <4>2, <5>1, <6>1, EmptySeq
                        <7>3. QED
                            BY <7>1, <7>2
                    <6>3. [b EXCEPT ![Len(b)].snippet = k] \in Seq([entry : Nat, snippet : Nat])
                        <7>1. k \in Nat
                            BY <1>1
                        <7>2. [b EXCEPT ![j].snippet = k] \in [1..j -> [entry : Nat, snippet : Nat]]
                            BY <6>2, <7>1
                        <7>3. [b EXCEPT ![j].snippet = k] \in Seq([entry : Nat, snippet : Nat])
                            BY <7>2, FunctionIsSeq
                        <7>4. QED
                            BY <6>1, <7>3
                    <6>4. QED
                        BY <4>2, <6>3 DEF TakeSnippet
                <5>2. CASE b = <<>>
                    BY <4>2, <5>2 DEF TakeSnippet
                <5>3. QED
                    BY <5>1, <5>2
            <4>4. step[k][a] = TakeSnippet(b, k, page)
                BY <2>2, <4>1
            <4>5. QED
                BY <2>1, <4>3, <4>4
        <3>2. first \in A
            BY <2>1, <2>3
        <3>3. QED
            BY <3>1, <3>2 DEF Closed
    <2>5. PICK f \in [0..n -> A] : Stepped(f, n, first, step)
        BY <2>4, SteppedExists
    <2>6. ASSUME NEW k \in 0..n, k # 0
          PROVE  step[k][f[k - 1]] = TakeSnippet(TakeLink(f[k - 1], k, max, page), k, page)
        <3>1. k \in 1..n /\ k - 1 \in 0..n
            BY <2>6
        <3>2. f[k - 1] \in A
            BY <2>5, <3>1
        <3>3. QED
            BY <2>2, <3>1, <3>2
    <2>7. Is(f)
        BY <2>3, <2>5, <2>6 DEF Stepped
    <2>8. QED
        BY <2>7
<1>4. Is(upTo)
    BY <1>3
<1> HIDE DEF upTo
<1> DEFINE P == {m \in Nat : m <= n => Well(upTo[m], "startpage", max, page, m)}
<1>5. 0 \in P
    <2>1. upTo[0] = <<>>
        BY <1>4
    <2>2. Well(<<>>, "startpage", max, page, 0)
        BY DEF Well
    <2>3. QED
        BY <2>1, <2>2
<1>6. ASSUME NEW m \in Nat, m \in P PROVE m + 1 \in P
    <2> SUFFICES ASSUME m + 1 <= n PROVE Well(upTo[m + 1], "startpage", max, page, m + 1)
        OBVIOUS
    <2>1. upTo[m + 1] = TakeSnippet(TakeLink(upTo[m], m + 1, max, page), m + 1, page)
        <3>1. m + 1 \in 0..n /\ m + 1 # 0 /\ (m + 1) - 1 = m
            OBVIOUS
        <3>2. QED
            BY <1>4, <3>1
    <2>2. Linked(TakeLink(upTo[m], m + 1, max, page), max, page, m)
        BY <1>6, TakeLinkLinked
    <2>3. QED
        BY <2>1, <2>2, TakeSnippetWell
<1>7. n \in P
    <2> HIDE DEF P
    <2>1. QED
        BY <1>5, <1>6, InductionOnSets
<1>8. QED
    BY <1>1, <1>2, <1>7

\* A list a provider returns with success is one that was read from the page.
LEMMA JSONWell ==
    ASSUME NEW p \in {"searxng", "searxng-images", "gdelt"}, NEW max \in Nat \ {0},
           NEW reply, reply.page \in Seq(Entry), reply.status = "ok"
    PROVE  \E found : /\ ProviderSearch(p, max, reply).list = Numbered(found)
                      /\ Well(found, p, max, reply.page, Len(reply.page))
<1>1. PICK page \in Seq(Entry) : page = reply.page
    OBVIOUS
<1>2. PICK n \in Nat : n = Lesser(Len(page), max)
    BY LenProperties DEF Lesser
<1>3. n <= Len(page) /\ n <= max
    BY <1>2, LenProperties DEF Lesser
<1>4. CASE p = "searxng"
    <2>1. PICK snippet : snippet = [k \in 1..n |-> IF page[k].snippet THEN k ELSE 0]
        OBVIOUS
    <2>2. PICK found : found = [k \in 1..n |-> [entry |-> k, snippet |-> snippet[k]]]
        OBVIOUS
    <2>3. found = [k \in 1..n |-> [entry |-> k, snippet |-> IF page[k].snippet THEN k ELSE 0]]
        BY <2>1, <2>2
    <2>4. ProviderSearch(p, max, reply).list = Numbered(found)
        BY <1>1, <1>2, <1>4, <2>3 DEF ProviderSearch, Searxng, Handle
    <2>5. \A k \in 1..n : /\ snippet[k] \in {0, k}
                          /\ SnippetBelongs(p, page, [entry |-> k, snippet |-> snippet[k]])
        BY <1>4, <2>1 DEF SnippetBelongs
    <2>6. Well(found, p, max, page, Len(page))
        BY <1>3, <2>2, <2>5, FirstOnes
    <2>7. QED
        BY <1>1, <2>4, <2>6
<1>5. CASE p # "searxng"
    <2>1. PICK snippet : snippet = [k \in 1..n |-> 0]
        OBVIOUS
    <2>2. PICK found : found = [k \in 1..n |-> [entry |-> k, snippet |-> snippet[k]]]
        OBVIOUS
    <2>3. found = [k \in 1..n |-> [entry |-> k, snippet |-> 0]]
        BY <2>1, <2>2
    <2>4. ProviderSearch(p, max, reply).list = Numbered(found)
        <3>1. CASE p = "searxng-images"
            BY <1>1, <1>2, <2>3, <3>1 DEF ProviderSearch, SearxngImages, Handle
        <3>2. CASE p = "gdelt"
            <4>1. (IF max > 0 THEN Lesser(Len(page), max) ELSE Len(page)) = n
                BY <1>2
            <4>2. Gdelt(max, reply) = Handle(reply, Numbered(found))
                BY <1>1, <2>3, <4>1 DEF Gdelt
            <4>3. ProviderSearch(p, max, reply) = Gdelt(max, reply)
                BY <3>2 DEF ProviderSearch
            <4>4. QED
                BY <4>2, <4>3 DEF Handle
        <3>3. QED
            BY <1>5, <3>1, <3>2
    <2>5. \A k \in 1..n : /\ snippet[k] \in {0, k}
                          /\ SnippetBelongs(p, page, [entry |-> k, snippet |-> snippet[k]])
        BY <1>5, <2>1 DEF SnippetBelongs
    <2>6. Well(found, p, max, page, Len(page))
        BY <1>3, <2>2, <2>5, FirstOnes
    <2>7. QED
        BY <1>1, <2>4, <2>6
<1>6. QED
    BY <1>4, <1>5

\* What a provider returns with success is ranked, and each result carries its
\* own snippet as far as SnippetBelongs goes; Startpage's list is not empty: for
\* every page and every limit.
THEOREM ProvidersRank ==
    ASSUME NEW p \in Names, NEW max \in Nat \ {0}, NEW reply, reply.page \in Seq(Entry),
           ProviderSearch(p, max, reply).status = "ok"
    PROVE  LET list == ProviderSearch(p, max, reply).list
           IN  /\ Ranked(list, max)
               /\ \A k \in DOMAIN list : SnippetBelongs(p, reply.page, list[k])
               /\ p = "startpage" => list # <<>>
<1>1. PICK page \in Seq(Entry) : page = reply.page
    OBVIOUS
<1>2. reply.status = "ok"
    BY DEF ProviderSearch, Searxng, SearxngImages, Gdelt, DuckDuckGo, Startpage, Handle, Names
<1>3. \E found : /\ ProviderSearch(p, max, reply).list = Numbered(found)
                 /\ Well(found, p, max, page, Len(page))
    <2>1. CASE p \in {"searxng", "searxng-images", "gdelt"}
        BY <1>1, <1>2, <2>1, JSONWell
    <2>2. CASE p = "duckduckgo"
        <3>1. ProviderSearch(p, max, reply).list = PairedByOrder(max, page)
            BY <1>1, <1>2, <2>2 DEF ProviderSearch, DuckDuckGo, Handle
        <3>2. QED
            BY <2>2, <3>1, PairedByOrderWell
    <2>3. CASE p = "startpage"
        <3>1. ProviderSearch(p, max, reply).list = PairedWithLast(max, page)
            BY <1>1, <1>2, <2>3 DEF ProviderSearch, Startpage, Handle
        <3>2. QED
            BY <2>3, <3>1, PairedWithLastWell
    <2>4. QED
        BY <2>1, <2>2, <2>3 DEF Names
<1>4. PICK found : /\ ProviderSearch(p, max, reply).list = Numbered(found)
                   /\ Well(found, p, max, page, Len(page))
    BY <1>3
<1>5. Len(page) \in Nat
    BY LenProperties
<1>6. p = "startpage" => ProviderSearch(p, max, reply).list # <<>>
    <2>1. ASSUME p = "startpage" PROVE ProviderSearch(p, max, reply) = Startpage(max, reply)
        BY <2>1 DEF ProviderSearch
    <2>2. QED
        BY <2>1 DEF Startpage, Handle
<1>7. QED
    BY <1>1, <1>4, <1>5, <1>6, NumberedRanked

-----------------------------------------------------------------------------
(* The engine that is built from a file.                                    *)

\* Entry pc of the configuration is what element e, at place i, says.
Explained(pc, i) ==
    LET e == Elements[i]
    IN  /\ pc.vertical = VerticalOf(e)
        /\ Says(e, "name") \/ i <= 3 => pc.name = NameOf(i)
        /\ ~(Says(e, "name") \/ i <= 3) => pc.name = ""
        /\ pc.rps = Number(i, "rps")
        /\ pc.retries = Number(i, "retries")
        /\ Says(e, "url") => pc.url = e.url
        /\ ~Says(e, "url") => pc.url = IF i = 1 THEN "http-default" ELSE ""

LEMMA ElementsAreASeq ==
    ASSUME file \in Files
    PROVE  /\ Len(Elements) \in Nat
           /\ DOMAIN Elements = 1..Len(Elements)
<1>1. CASE "providers" \in DOMAIN file
    BY <1>1, FilesAssumption, LenProperties DEF Elements
<1>2. CASE "providers" \notin DOMAIN file
    BY <1>2 DEF Elements, DefaultProviders
<1>3. QED
    BY <1>1, <1>2

Fields == {"name", "url", "rps", "retries", "vertical"}

LEMMA DefaultFields ==
    /\ DOMAIN Zero = Fields /\ Zero.vertical = "" /\ Zero.name = "" /\ Zero.url = ""
    /\ Zero.rps = 0 /\ Zero.retries = 0
    /\ \A i \in 1..3 : /\ DOMAIN DefaultProviders[i] = Fields
                       /\ DefaultProviders[i].vertical = ""
                       /\ i = 1 => DefaultProviders[i].url = "http-default"
                       /\ i # 1 => DefaultProviders[i].url = ""
<1>1. ASSUME NEW a, NEW b, NEW c, NEW d, NEW e
      PROVE  DOMAIN [name |-> a, url |-> b, rps |-> c, retries |-> d, vertical |-> e] = Fields
    BY DEF Fields
<1>2. DOMAIN Zero = Fields /\ Zero.vertical = "" /\ Zero.name = "" /\ Zero.url = ""
    <2>1. DOMAIN Zero = Fields
        BY <1>1 DEF Zero
    <2>2. Zero.vertical = "" /\ Zero.name = "" /\ Zero.url = ""
        BY DEF Zero
    <2>3. QED
        BY <2>1, <2>2
<1>3. /\ DefaultProviders[1] = [name |-> "searxng", url |-> "http-default", rps |-> 50,
                                retries |-> 2, vertical |-> ""]
      /\ DefaultProviders[2] = [name |-> "duckduckgo", url |-> "", rps |-> 10,
                                retries |-> 2, vertical |-> ""]
      /\ DefaultProviders[3] = [name |-> "startpage", url |-> "", rps |-> 2,
                                retries |-> 1, vertical |-> ""]
    BY DEF DefaultProviders
<1>4. /\ DOMAIN DefaultProviders[1] = Fields
      /\ DOMAIN DefaultProviders[2] = Fields
      /\ DOMAIN DefaultProviders[3] = Fields
    BY <1>1, <1>3
<1>5. /\ DefaultProviders[1].vertical = "" /\ DefaultProviders[1].url = "http-default"
      /\ DefaultProviders[2].vertical = "" /\ DefaultProviders[2].url = ""
      /\ DefaultProviders[3].vertical = "" /\ DefaultProviders[3].url = ""
    <2>1. DefaultProviders[1].vertical = "" /\ DefaultProviders[1].url = "http-default"
        BY DEF DefaultProviders
    <2>2. DefaultProviders[2].vertical = "" /\ DefaultProviders[2].url = ""
        BY DEF DefaultProviders
    <2>3. DefaultProviders[3].vertical = "" /\ DefaultProviders[3].url = ""
        BY DEF DefaultProviders
    <2>4. QED
        BY <2>1, <2>2, <2>3
<1>6. ASSUME NEW i \in 1..3
      PROVE  /\ DOMAIN DefaultProviders[i] = Fields
             /\ DefaultProviders[i].vertical = ""
             /\ i = 1 => DefaultProviders[i].url = "http-default"
             /\ i # 1 => DefaultProviders[i].url = ""
    <2>1. i = 1 \/ i = 2 \/ i = 3
        OBVIOUS
    <2>2. QED
        BY <1>4, <1>5, <2>1
<1>7. Zero.rps = 0 /\ Zero.retries = 0
    BY DEF Zero
<1>8. QED
    BY <1>2, <1>6, <1>7

LEMMA LoadedExplained ==
    ASSUME file \in Files
    PROVE  LET ps == Loaded(file).providers
           IN  /\ DOMAIN ps = 1..Len(Elements)
               /\ Len(ps) = Len(Elements)
               /\ \A i \in DOMAIN ps : Explained(ps[i], i)
<1>1. PICK ps : ps = Loaded(file).providers
    OBVIOUS
<1>2. PICK n \in Nat : n = Len(Elements) /\ DOMAIN Elements = 1..n
    BY ElementsAreASeq
<1>3. CASE "providers" \in DOMAIN file
    <2>1. Elements = file.providers
        BY <1>3 DEF Elements
    <2>2. PICK default : default = [i \in 1..n |-> IF i <= 3 THEN DefaultProviders[i] ELSE Zero]
        OBVIOUS
    <2>3. ps = [i \in 1..n |-> Decode(Elements[i], default[i])]
        <3>1. Len(DefaultProviders) = 3
            BY DEF DefaultProviders
        <3>2. ps = Merge(Elements)
            BY <1>1, <1>3, <2>1 DEF Loaded
        <3>3. QED
            BY <1>2, <2>2, <3>1, <3>2 DEF Merge
    <2>4. DOMAIN ps = 1..n /\ Len(ps) = n
        <3>1. ps \in [1..n -> {ps[i] : i \in 1..n}]
            BY <2>3
        <3>2. QED
            BY <3>1, FunctionIsSeq
    <2>5. ASSUME NEW i \in 1..n PROVE Explained(ps[i], i)
        <3>1. PICK into : into = default[i]
            OBVIOUS
        <3>2. PICK e : e = Elements[i]
            OBVIOUS
        <3>3. /\ DOMAIN into = Fields
              /\ into.vertical = ""
              /\ i = 1 => into.url = "http-default"
              /\ i # 1 => into.url = ""
              /\ i <= 3 => into = DefaultProviders[i]
              /\ ~(i <= 3) => into.name = "" /\ into.rps = 0 /\ into.retries = 0
            <4>1. CASE i <= 3
                <5>1. i \in 1..3 /\ into = DefaultProviders[i]
                    BY <2>2, <3>1, <4>1
                <5>2. /\ DOMAIN DefaultProviders[i] = Fields
                      /\ DefaultProviders[i].vertical = ""
                      /\ i = 1 => DefaultProviders[i].url = "http-default"
                      /\ i # 1 => DefaultProviders[i].url = ""
                    BY <5>1, DefaultFields
                <5>3. QED
                    BY <4>1, <5>1, <5>2
            <4>2. CASE ~(i <= 3)
                <5>1. into = Zero /\ i # 1
                    BY <2>2, <3>1, <4>2
                <5>2. QED
                    BY <4>2, <5>1, DefaultFields
            <4>3. QED
                BY <4>1, <4>2
        <3>4. \A field \in DOMAIN into :
                 ps[i][field] = IF field \in DOMAIN e THEN e[field] ELSE into[field]
            BY <2>3, <3>1, <3>2 DEF Decode
        <3>5. /\ ps[i].name = IF Says(e, "name") THEN e.name ELSE into.name
              /\ ps[i].url = IF Says(e, "url") THEN e.url ELSE into.url
              /\ ps[i].vertical = VerticalOf(e)
            BY <3>3, <3>4 DEF Fields, Says, VerticalOf
        <3>6. ASSUME NEW field \in {"rps", "retries"} PROVE ps[i][field] = Number(i, field)
            <4>1. ps[i][field] = IF field \in DOMAIN e THEN e[field] ELSE into[field]
                BY <3>3, <3>4 DEF Fields
            <4>2. ~(i <= 3) => into[field] = 0
                BY <3>3
            <4>3. Len(DefaultProviders) = 3
                BY DEF DefaultProviders
            <4>4. QED
                BY <3>2, <3>3, <4>1, <4>2, <4>3 DEF Number, Says
        <3>7. ps[i].rps = Number(i, "rps") /\ ps[i].retries = Number(i, "retries")
            BY <3>6
        <3>8. QED
            BY <3>2, <3>3, <3>5, <3>7 DEF Explained, NameOf
    <2>6. QED
        BY <1>1, <1>2, <2>4, <2>5
<1>4. CASE "providers" \notin DOMAIN file
    <2>1. ps = DefaultProviders /\ Elements = DefaultProviders
        BY <1>1, <1>4 DEF Loaded, Elements
    <2>2. n = 3 /\ DOMAIN ps = 1..3 /\ Len(ps) = 3
        BY <1>2, <2>1 DEF DefaultProviders
    <2>3. ASSUME NEW i \in 1..3 PROVE Explained(ps[i], i)
        <3>1. PICK e : e = DefaultProviders[i]
            OBVIOUS
        <3>2. DOMAIN e = Fields
            BY <3>1, DefaultFields
        <3>3. \A field \in {"name", "url", "rps", "retries", "vertical"} : Says(e, field)
            BY <3>2 DEF Fields, Says
        <3>4. ps[i] = e /\ Elements[i] = e
            BY <2>1, <3>1
        <3>5. QED
            BY <3>3, <3>4 DEF Explained, VerticalOf, NameOf, Number
    <2>4. QED
        BY <1>1, <1>2, <2>2, <2>3
<1>5. QED
    BY <1>3, <1>4

\* The elements of the file that name vertical v.
Mine(v) == {i \in DOMAIN Elements : VerticalOf(Elements[i]) = v}

IsLoaded ==
    /\ cfg = Loaded(file)
    /\ Valid(cfg)

IsBuilt ==
    /\ IsLoaded
    /\ \A i \in DOMAIN cfg.providers : Buildable(cfg.providers[i])
    /\ chains = Chains(cfg.providers)

LEMMA LoadedNames ==
    ASSUME file \in Files, IsLoaded
    PROVE  /\ DOMAIN cfg.providers = 1..Len(Elements) /\ Len(cfg.providers) = Len(Elements)
           /\ Len(Elements) \in Nat \ {0}
           /\ \A i \in DOMAIN Elements : /\ Explained(cfg.providers[i], i)
                                         /\ cfg.providers[i].name = NameOf(i)
                                         /\ NameOf(i) \in Names
<1>1. PICK ps : ps = cfg.providers
    OBVIOUS
<1>2. PICK n \in Nat : n = Len(Elements) /\ DOMAIN Elements = 1..n
    BY ElementsAreASeq
<1>3. /\ DOMAIN ps = 1..n /\ Len(ps) = n
      /\ \A i \in DOMAIN ps : Explained(ps[i], i)
    BY <1>1, <1>2, LoadedExplained DEF IsLoaded
<1>4. n # 0
    <2>1. ps # <<>>
        BY <1>1 DEF IsLoaded, Valid
    <2>2. n = 0 => ps = <<>>
        <3> SUFFICES ASSUME n = 0 PROVE ps = <<>>
            OBVIOUS
        <3>1. ps \in Seq({})
            <4>1. "providers" \in DOMAIN file
                BY <1>2 DEF Elements, DefaultProviders
            <4>2. ps = [i \in {} |-> Decode(Elements[i], IF i <= Len(DefaultProviders)
                                                         THEN DefaultProviders[i] ELSE Zero)]
                BY <1>1, <1>2, <4>1 DEF IsLoaded, Loaded, Merge, Elements
            <4>3. ps \in [1..0 -> {}]
                BY <4>2
            <4>4. QED
                BY <4>3, FunctionIsSeq
        <3>2. QED
            BY <1>3, <3>1, EmptySeq
    <2>3. QED
        BY <2>1, <2>2
<1>5. ASSUME NEW i \in 1..n PROVE ps[i].name = NameOf(i) /\ NameOf(i) \in Names
    <2>1. ps[i].name \in Names
        BY <1>1, <1>3 DEF IsLoaded, Valid, ValidProvider
    <2>2. ps[i].name # ""
        BY <2>1 DEF Names
    <2>3. ps[i].name = NameOf(i)
        BY <1>3, <2>2 DEF Explained
    <2>4. QED
        BY <2>1, <2>3
<1>6. QED
    BY <1>1, <1>2, <1>3, <1>4, <1>5

\* A chain has an entry for each element of its vertical, in the file's order.
LEMMA BuiltChains ==
    ASSUME file \in Files, IsBuilt
    PROVE  /\ DOMAIN chains = {VerticalOf(Elements[i]) : i \in DOMAIN Elements}
           /\ \A v \in DOMAIN chains : \E mine :
                 /\ mine = InOrder(Mine(v), Len(Elements))
                 /\ Lists(mine, Mine(v), Len(Elements))
                 /\ DOMAIN mine = 1..Len(mine) /\ Len(mine) \in Nat
                 /\ Len(chains[v]) = Len(mine)
                 /\ \A k \in 1..Len(mine) :
                       /\ mine[k] \in Mine(v)
                       /\ chains[v][k].name = NameOf(mine[k])
                       /\ chains[v][k].rps = cfg.providers[mine[k]].rps
                       /\ chains[v][k].retries = cfg.providers[mine[k]].retries
                       /\ chains[v][k].endpoint = Endpoint(cfg.providers[mine[k]])
<1>1. PICK ps : ps = cfg.providers
    OBVIOUS
<1>2. PICK n \in Nat : n = Len(Elements) /\ DOMAIN Elements = 1..n
    BY ElementsAreASeq
<1>3. /\ DOMAIN ps = 1..n /\ Len(ps) = n
      /\ \A i \in 1..n : ps[i].vertical = VerticalOf(Elements[i]) /\ ps[i].name = NameOf(i)
    BY <1>1, <1>2, LoadedNames DEF IsBuilt, Explained
<1>4. DOMAIN chains = {VerticalOf(Elements[i]) : i \in DOMAIN Elements}
    BY <1>1, <1>2, <1>3 DEF IsBuilt, Chains
<1>5. ASSUME NEW v \in DOMAIN chains
      PROVE  \E mine :
                 /\ mine = InOrder(Mine(v), n)
                 /\ Lists(mine, Mine(v), n)
                 /\ DOMAIN mine = 1..Len(mine) /\ Len(mine) \in Nat
                 /\ Len(chains[v]) = Len(mine)
                 /\ \A k \in 1..Len(mine) :
                       /\ mine[k] \in Mine(v)
                       /\ chains[v][k].name = NameOf(mine[k])
                       /\ chains[v][k].rps = ps[mine[k]].rps
                       /\ chains[v][k].retries = ps[mine[k]].retries
                       /\ chains[v][k].endpoint = Endpoint(ps[mine[k]])
    <2>1. PICK mine : mine = InOrder(Mine(v), n)
        OBVIOUS
    <2>2. Lists(mine, Mine(v), n)
        BY <2>1, InOrderLists
    <2>3. PICK m \in Nat : m = Len(mine)
        BY <2>2, LenProperties DEF Lists
    <2>4. DOMAIN mine = 1..m
        BY <2>2, <2>3, LenProperties DEF Lists
    <2>5. Mine(v) = {i \in DOMAIN ps : ps[i].vertical = v}
        BY <1>2, <1>3 DEF Mine
    <2>6. v \in {ps[i].vertical : i \in DOMAIN ps}
        BY <1>1 DEF IsBuilt, Chains
    <2>7. chains[v] = [k \in 1..m |-> [name |-> ps[mine[k]].name,
                                       endpoint |-> Endpoint(ps[mine[k]]),
                                       rps |-> ps[mine[k]].rps,
                                       retries |-> ps[mine[k]].retries]]
        BY <1>1, <1>3, <2>1, <2>4, <2>5, <2>6 DEF IsBuilt, Chains
    <2>8. Len(chains[v]) = m
        <3>1. chains[v] \in [1..m -> {chains[v][k] : k \in 1..m}]
            BY <2>7
        <3>2. QED
            BY <3>1, FunctionIsSeq
    <2>9. ASSUME NEW k \in 1..m
          PROVE  /\ mine[k] \in Mine(v)
                 /\ chains[v][k].name = NameOf(mine[k])
                 /\ chains[v][k].rps = ps[mine[k]].rps
                 /\ chains[v][k].retries = ps[mine[k]].retries
                 /\ chains[v][k].endpoint = Endpoint(ps[mine[k]])
        <3>1. mine[k] \in Mine(v)
            BY <2>2, <2>3 DEF Lists
        <3>2. mine[k] \in 1..n
            BY <1>2, <3>1 DEF Mine
        <3>3. QED
            BY <1>3, <2>7, <3>1, <3>2
    <2>10. QED
        BY <2>1, <2>2, <2>3, <2>4, <2>8, <2>9
<1>6. QED
    BY <1>1, <1>2, <1>4, <1>5

-----------------------------------------------------------------------------
(* The process.                                                             *)

About == {"results", "no results", "no vertical"}

\* What every step keeps.  Searches happen in an engine that is built from the
\* file, and come to an entry of a chain only when all before it are blamed.
Inv ==
    /\ TypeOK
    /\ file \in Files
    /\ phase = "load" => cfg = NoCfg
    /\ phase = "build" => IsLoaded
    /\ chains = <<>> \/ IsBuilt
    /\ phase \in {"ready", "search", "fetch"} => IsBuilt
    /\ answer.kind \in About => IsBuilt
    /\ phase = "search" => \A j \in 1..at - 1 : Chain[j].name \in blamed
    /\ AnswersSound

LEMMA InitInv == Init => Inv
<1> SUFFICES ASSUME Init PROVE Inv
    OBVIOUS
<1>1. cfg.providers = <<>> /\ at = 1 /\ phase = "load" /\ blamed = {} /\ answer.kind = "none"
    BY DEF Init, NoCfg, Outcome
<1>2. TypeOK
    <2>1. Len(cfg.providers) = 0
        BY <1>1
    <2>2. at \in 1..Len(cfg.providers) + 1
        BY <1>1, <2>1
    <2>3. query \in [vertical : Verticals, max : Limits] \cup {NoQuery}
        BY DEF Init
    <2>4. QED
        BY <1>1, <2>2, <2>3 DEF TypeOK
<1>3. AnswersSound
    BY <1>1 DEF AnswersSound
<1>4. QED
    BY <1>1, <1>2, <1>3 DEF Init, Inv, About

\* No step changes the file, and none but Load and Build the engine.
LEMMA FileKept ==
    ASSUME [Next]_vars
    PROVE  file' = file
BY DEF Next, vars, engine, Load, LoadFails, Build, BuildFails, RunSearch, DoFetch, Serve, Call,
       ParseError, Dispatch, WebSearch, FetchPage, ToolError, Close, EngineSearch, EngineFetch,
       Exhausted, PassOver, Ask, Fetched

LEMMA BuiltKept ==
    ASSUME UNCHANGED engine
    PROVE  /\ IsBuilt => IsBuilt'
           /\ IsLoaded => IsLoaded'
BY DEF engine, IsBuilt, IsLoaded

LEMMA SoundKept ==
    ASSUME AnswersSound, file' = file, query' = query, answer' = answer, blamed \subseteq blamed'
    PROVE  AnswersSound'
<1>1. Elements' = Elements
    BY DEF Elements
<1>2. \A i : NameOf(i)' = NameOf(i)
    BY <1>1 DEF NameOf
<1>3. QED
    BY <1>1, <1>2 DEF AnswersSound

\* The entries of a chain, and what is said of them.
LEMMA ChainEntries ==
    ASSUME Inv, IsBuilt, NEW v \in DOMAIN chains
    PROVE  /\ Len(chains[v]) \in Nat
           /\ Len(chains[v]) <= Len(cfg.providers)
           /\ Mine(v) # {}
           /\ \A k \in 1..Len(chains[v]) : \E i \in Mine(v) : /\ chains[v][k].name = NameOf(i)
                                                               /\ i \in DOMAIN cfg.providers
                                                               /\ cfg.providers[i].name = NameOf(i)
                                                               /\ NameOf(i) \in Names
           /\ \A i \in Mine(v) : \E k \in 1..Len(chains[v]) : chains[v][k].name = NameOf(i)
<1>1. PICK n \in Nat : n = Len(Elements) /\ DOMAIN Elements = 1..n
    BY ElementsAreASeq DEF Inv
<1>2. /\ DOMAIN cfg.providers = 1..n /\ Len(cfg.providers) = n
      /\ \A i \in 1..n : cfg.providers[i].name = NameOf(i) /\ NameOf(i) \in Names
    BY <1>1, LoadedNames DEF Inv, IsBuilt
<1>3. PICK mine : /\ Lists(mine, Mine(v), n) /\ Len(mine) \in Nat
                  /\ Len(chains[v]) = Len(mine)
                  /\ \A k \in 1..Len(mine) : /\ mine[k] \in Mine(v)
                                             /\ chains[v][k].name = NameOf(mine[k])
    BY <1>1, BuiltChains DEF Inv
<1>4. Mine(v) \subseteq 1..n
    BY <1>1 DEF Mine
<1>5. Mine(v) # {}
    <2>1. v \in {VerticalOf(Elements[i]) : i \in DOMAIN Elements}
        BY BuiltChains DEF Inv
    <2>2. QED
        BY <2>1 DEF Mine
<1>6. Len(mine) <= n /\ \A i \in 1..n : i \in Mine(v) => \E k \in 1..Len(mine) : mine[k] = i
    BY <1>3 DEF Lists
<1>7. ASSUME NEW k \in 1..Len(mine)
      PROVE  \E i \in Mine(v) : /\ chains[v][k].name = NameOf(i)
                                /\ i \in DOMAIN cfg.providers
                                /\ cfg.providers[i].name = NameOf(i)
                                /\ NameOf(i) \in Names
    BY <1>2, <1>3, <1>4
<1>8. ASSUME NEW i \in Mine(v)
      PROVE  \E k \in 1..Len(mine) : chains[v][k].name = NameOf(i)
    <2>1. PICK k \in 1..Len(mine) : mine[k] = i
        BY <1>4, <1>6
    <2>2. QED
        BY <1>3, <2>1
<1>9. QED
    BY <1>2, <1>3, <1>5, <1>6, <1>7, <1>8

\* Steps that leave the engine, the search and the blame alone, and tell
\* nothing new about a search.
LEMMA QuietInv ==
    ASSUME Inv, UNCHANGED <<engine, query, at, blamed>>,
           phase' \in {"ready", "fetch", "done", "fatal"},
           phase' \in {"ready", "fetch"} => IsBuilt,
           answer' = answer
             \/ answer'.kind \in {"none", "page", "error", "null", "parse error", "no method",
                                  "invalid params", "tool error", "info"}
    PROVE  Inv'
<1>1. UNCHANGED <<file, cfg, chains>>
    BY DEF engine
<1>2. IsBuilt => IsBuilt'
    BY BuiltKept
<1>3. TypeOK'
    <2>1. answer'.kind \in {"none", "results", "no vertical", "no results", "page", "error",
                            "null", "parse error", "no method", "invalid params", "tool error",
                            "info"}
        BY DEF Inv, TypeOK
    <2>2. phase' \in {"ready", "search", "fetch"} => cfg'.providers # <<>>
        BY <1>1 DEF IsBuilt, IsLoaded, Valid
    <2>3. /\ query' \in [vertical : Verticals, max : Limits] \cup {NoQuery}
          /\ at' \in 1..Len(cfg'.providers) + 1
          /\ blamed' \subseteq {cfg'.providers[i].name : i \in DOMAIN cfg'.providers}
        BY <1>1 DEF Inv, TypeOK
    <2>4. QED
        BY <2>1, <2>2, <2>3 DEF TypeOK
<1>4. answer'.kind \in About => answer' = answer
    BY DEF About
<1>5. AnswersSound'
    <2>1. CASE answer' = answer
        BY <1>1, <2>1, SoundKept DEF Inv
    <2>2. CASE answer' # answer
        BY <2>2 DEF AnswersSound
    <2>3. QED
        BY <2>1, <2>2
<1>6. answer'.kind \in About => IsBuilt'
    BY <1>2, <1>4 DEF Inv
<1>7. QED
    BY <1>1, <1>2, <1>3, <1>5, <1>6 DEF Inv

LEMMA LoadInv == Inv /\ Load => Inv'
<1> SUFFICES ASSUME Inv, Load PROVE Inv'
    OBVIOUS
<1>1. /\ cfg = NoCfg /\ cfg' = Loaded(file) /\ Valid(cfg') /\ phase' = "build"
      /\ UNCHANGED <<file, chains, query, at, blamed, answer>>
    BY DEF Inv, Load
<1>2. ~IsBuilt
    BY <1>1 DEF IsBuilt, IsLoaded, Valid, NoCfg
<1>3. chains = <<>> /\ answer.kind \notin About
    BY <1>2 DEF Inv
<1>4. IsLoaded'
    BY <1>1 DEF IsLoaded
<1>5. TypeOK'
    <2>1. Len(cfg.providers) = 0 /\ DOMAIN cfg.providers = {}
        BY <1>1 DEF NoCfg
    <2>2. at' = 1 /\ blamed' = {}
        <3>1. at \in 1..Len(cfg.providers) + 1
            BY DEF Inv, TypeOK
        <3>2. blamed \subseteq {cfg.providers[i].name : i \in DOMAIN cfg.providers}
            BY DEF Inv, TypeOK
        <3>3. QED
            BY <1>1, <2>1, <3>1, <3>2
    <2>3. Len(cfg'.providers) \in Nat
        BY <1>1, LoadedExplained, ElementsAreASeq DEF Inv
    <2>4. at' \in 1..Len(cfg'.providers) + 1
        BY <2>2, <2>3
    <2>5. QED
        BY <1>1, <2>2, <2>4 DEF Inv, TypeOK
<1>6. AnswersSound'
    BY <1>1, SoundKept DEF Inv
<1>7. QED
    BY <1>1, <1>3, <1>4, <1>5, <1>6 DEF Inv

LEMMA BuildInv == Inv /\ Build => Inv'
<1> SUFFICES ASSUME Inv, Build PROVE Inv'
    OBVIOUS
<1>1. /\ phase = "build" /\ phase' = "ready"
      /\ UNCHANGED <<file, cfg, query, at, blamed, answer>>
    BY DEF Build
<1>2. IsLoaded
    BY <1>1 DEF Inv
<1>3. IsBuilt'
    BY <1>1, <1>2 DEF Build, IsBuilt, IsLoaded
<1>4. TypeOK'
    BY <1>1, <1>2 DEF Inv, TypeOK, IsLoaded, Valid
<1>5. AnswersSound'
    BY <1>1, SoundKept DEF Inv
<1>6. QED
    BY <1>1, <1>3, <1>4, <1>5 DEF Inv

LEMMA EngineSearchInv ==
    ASSUME Inv, phase = "ready", EngineSearch
    PROVE  Inv'
<1>1. UNCHANGED <<file, cfg, chains>> /\ UNCHANGED <<engine, blamed>>
    BY DEF EngineSearch, engine
<1>2. IsBuilt /\ IsBuilt'
    BY BuiltKept, <1>1 DEF Inv
<1>3. PICK v : v = query'.vertical
    OBVIOUS
<1>4. query' \in [vertical : Verticals, max : Limits] /\ at' = 1
    BY DEF EngineSearch
<1>5. PICK n \in Nat : n = Len(cfg.providers)
    BY <1>2, LoadedNames DEF Inv, IsBuilt
<1>6. at' \in 1..Len(cfg'.providers) + 1
    BY <1>1, <1>4, <1>5
<1>7. cfg'.providers # <<>>
    BY <1>2 DEF IsBuilt, IsLoaded, Valid
<1>8. blamed' \subseteq {cfg'.providers[i].name : i \in DOMAIN cfg'.providers}
    BY <1>1 DEF Inv, TypeOK
<1>9. CASE v \in DOMAIN chains
    <2>1. phase' = "search" /\ answer'.kind = "none"
        <3>1. phase' = "search" /\ answer' = Outcome("none")
            BY <1>3, <1>9 DEF EngineSearch
        <3>2. QED
            BY <3>1 DEF Outcome
    <2>2. AnswersSound'
        BY <2>1 DEF AnswersSound
    <2>3. Len(chains[v]) \in Nat
        BY <1>2, <1>9, ChainEntries
    <2>4. at' <= Len(Chain') + 1
        BY <1>1, <1>3, <1>4, <2>3 DEF Chain
    <2>5. TypeOK'
        BY <1>1, <1>3, <1>4, <1>6, <1>7, <1>8, <1>9, <2>1, <2>4 DEF TypeOK
    <2>6. \A j \in 1..at' - 1 : Chain'[j].name \in blamed'
        BY <1>4
    <2>7. QED
        BY <1>1, <1>2, <2>1, <2>2, <2>5, <2>6 DEF Inv
<1>10. CASE v \notin DOMAIN chains
    <2>1. answer'.kind = "no vertical" /\ phase' \in {"ready", "done", "fatal"}
        <3>1. Write(Outcome("no vertical"))
            BY <1>3, <1>10 DEF EngineSearch
        <3>2. QED
            BY <3>1 DEF Write, Outcome
    <2>2. Mine(v) = {}
        BY <1>2, <1>10, BuiltChains DEF Inv, Mine
    <2>3. {i \in DOMAIN Elements' : VerticalOf(Elements'[i]) = query'.vertical} = {}
        <3>1. Elements' = Elements
            BY <1>1 DEF Elements
        <3>2. QED
            BY <1>3, <2>2, <3>1 DEF Mine
    <2>4. AnswersSound'
        BY <2>1, <2>3 DEF AnswersSound
    <2>5. TypeOK'
        BY <1>4, <1>6, <1>7, <1>8, <2>1 DEF TypeOK
    <2>6. QED
        BY <1>1, <1>2, <2>1, <2>4, <2>5 DEF Inv
<1>11. QED
    BY <1>9, <1>10

LEMMA ExhaustedInv == Inv /\ Exhausted => Inv'
<1> SUFFICES ASSUME Inv, Exhausted PROVE Inv'
    OBVIOUS
<1>1. /\ UNCHANGED <<file, cfg, chains>> /\ UNCHANGED engine
      /\ UNCHANGED <<query, at, blamed>> /\ phase = "search" /\ at > Len(Chain)
    BY DEF Exhausted, engine
<1>2. answer'.kind = "no results" /\ phase' \in {"ready", "done", "fatal"}
    BY DEF Exhausted, Write, Outcome
<1>3. IsBuilt /\ IsBuilt'
    BY BuiltKept, <1>1 DEF Inv
<1>4. PICK v \in DOMAIN chains : v = query.vertical
    BY <1>1 DEF Inv, TypeOK
<1>5. PICK n \in Nat : n = Len(chains[v])
    BY <1>3, ChainEntries
<1>6. \A k \in 1..n : chains[v][k].name \in blamed
    <2>1. at = n + 1
        <3>1. at > n
            BY <1>1, <1>4, <1>5 DEF Chain
        <3>2. at <= n + 1
            BY <1>1, <1>4, <1>5 DEF Inv, TypeOK, Chain
        <3>3. at \in Int
            <4>1. at \in 1..Len(cfg.providers) + 1
                BY DEF Inv, TypeOK
            <4>2. Len(cfg.providers) \in Nat
                BY <1>3, LoadedNames DEF Inv, IsBuilt
            <4>3. QED
                BY <4>1, <4>2
        <3>4. QED
            BY <3>1, <3>2, <3>3
    <2>2. QED
        BY <1>1, <1>4, <2>1 DEF Inv, Chain
<1>7. Mine(v) # {} /\ \A i \in Mine(v) : NameOf(i) \in blamed
    BY <1>3, <1>5, <1>6, ChainEntries
<1>8. AnswersSound'
    <2>1. Elements' = Elements
        BY <1>1 DEF Elements
    <2>2. \A i : NameOf(i)' = NameOf(i)
        BY <2>1 DEF NameOf
    <2>3. QED
        BY <1>1, <1>2, <1>4, <1>7, <2>1, <2>2 DEF AnswersSound, Mine
<1>9. TypeOK'
    BY <1>1, <1>2, <1>3 DEF Inv, TypeOK, IsBuilt, IsLoaded, Valid
<1>10. QED
    BY <1>1, <1>2, <1>3, <1>8, <1>9 DEF Inv

\* A search that goes on: the entry it leaves is blamed.
LEMMA NextEntryInv ==
    ASSUME Inv, phase = "search", at <= Len(Chain),
           at' = at + 1, UNCHANGED <<engine, phase, query, answer>>,
           blamed' = blamed \cup {Chain[at].name}
    PROVE  Inv'
<1>1. UNCHANGED <<file, cfg, chains>>
    BY DEF engine
<1>2. IsBuilt /\ IsBuilt'
    BY BuiltKept, <1>1 DEF Inv
<1>3. PICK v \in DOMAIN chains : v = query.vertical
    BY DEF Inv, TypeOK
<1>4. PICK n \in Nat : n = Len(chains[v])
    BY <1>2, ChainEntries
<1>5. PICK m \in Nat : m = Len(cfg.providers)
    BY <1>2, LoadedNames DEF Inv, IsBuilt
<1>6. n <= m
    BY <1>2, <1>4, <1>5, ChainEntries
<1>7. at \in 1..n
    <2>1. at \in 1..m + 1
        BY <1>5 DEF Inv, TypeOK
    <2>2. at <= n
        BY <1>3, <1>4 DEF Chain
    <2>3. QED
        BY <2>1, <2>2
<1>8. PICK i : /\ i \in DOMAIN cfg.providers /\ chains[v][at].name = NameOf(i)
               /\ cfg.providers[i].name = NameOf(i)
    BY <1>2, <1>4, <1>7, ChainEntries
<1>9. Chain' = Chain /\ Chain = chains[v]
    BY <1>1, <1>3 DEF Chain
<1>10. TypeOK'
    <2>1. at' \in 1..m + 1 /\ at' <= n + 1
        BY <1>6, <1>7
    <2>2. blamed' \subseteq {cfg.providers[j].name : j \in DOMAIN cfg.providers}
        <3>1. blamed \subseteq {cfg.providers[j].name : j \in DOMAIN cfg.providers}
            BY DEF Inv, TypeOK
        <3>2. QED
            BY <1>8, <1>9, <3>1
    <2>3. cfg.providers # <<>>
        BY <1>2 DEF IsBuilt, IsLoaded, Valid
    <2>4. query'.vertical \in DOMAIN chains' /\ at' <= Len(Chain') + 1
        BY <1>1, <1>3, <1>4, <1>9, <2>1
    <2>5. at' \in 1..Len(cfg'.providers) + 1
        BY <1>1, <1>5, <2>1
    <2>6. QED
        BY <1>1, <2>2, <2>3, <2>4, <2>5 DEF Inv, TypeOK
<1>11. ASSUME NEW j \in 1..at' - 1 PROVE Chain'[j].name \in blamed'
    <2>1. CASE j = at
        BY <1>9, <2>1
    <2>2. CASE j # at
        <3>1. j \in 1..at - 1
            BY <1>7, <2>2
        <3>2. Chain[j].name \in blamed
            BY <3>1 DEF Inv
        <3>3. QED
            BY <1>9, <3>2
    <2>3. QED
        BY <2>1, <2>2
<1>12. AnswersSound'
    BY <1>1, SoundKept DEF Inv
<1>13. QED
    BY <1>1, <1>2, <1>10, <1>11, <1>12 DEF Inv

LEMMA PassOverInv == Inv /\ PassOver => Inv'
<1> SUFFICES ASSUME Inv, PassOver PROVE Inv'
    OBVIOUS
<1>1. /\ phase = "search" /\ at <= Len(Chain) /\ at' = at + 1
      /\ UNCHANGED <<engine, phase, query, answer>>
      /\ blamed' = blamed \cup {Chain[at].name}
    BY DEF PassOver
<1>2. QED
    BY <1>1, NextEntryInv

LEMMA AskInv ==
    ASSUME Inv, NEW reply \in Replies, Ask(reply)
    PROVE  Inv'
<1>1. /\ phase = "search" /\ at <= Len(Chain) /\ UNCHANGED engine
      /\ UNCHANGED <<file, cfg, chains>> /\ UNCHANGED query
    BY DEF Ask, engine
<1>2. PICK p : p = Chain[at].name
    OBVIOUS
<1>3. PICK got : got = ProviderSearch(p, WithDefaults(query.max), reply)
    OBVIOUS
<1>4. CASE got.status # "ok"
    <2>1. at' = at + 1 /\ blamed' = blamed \cup {p} /\ UNCHANGED <<phase, answer>>
        BY <1>2, <1>3, <1>4 DEF Ask
    <2>2. QED
        BY <1>1, <1>2, <2>1, NextEntryInv
<1>5. CASE got.status = "ok"
    <2>1. /\ answer' = [kind |-> "results", provider |-> p, list |-> got.list,
                        page |-> reply.page]
          /\ phase' \in {"ready", "done", "fatal"} /\ UNCHANGED <<at, blamed>>
        BY <1>2, <1>3, <1>5 DEF Ask, Write
    <2>2. IsBuilt /\ IsBuilt'
        BY BuiltKept, <1>1 DEF Inv
    <2>3. PICK v \in DOMAIN chains : v = query.vertical
        BY <1>1 DEF Inv, TypeOK
    <2>4. at \in 1..Len(chains[v])
        <3>1. at \in 1..Len(cfg.providers) + 1
            BY DEF Inv, TypeOK
        <3>2. Len(cfg.providers) \in Nat /\ Len(chains[v]) \in Nat
            BY <2>2, ChainEntries, LoadedNames DEF Inv, IsBuilt
        <3>3. at <= Len(chains[v])
            BY <1>1, <2>3 DEF Chain
        <3>4. QED
            BY <3>1, <3>2, <3>3
    <2>5. PICK i \in Mine(v) : p = NameOf(i) /\ p \in Names
        BY <1>2, <2>2, <2>3, <2>4, ChainEntries DEF Chain
    <2>6. PICK max \in Nat \ {0} : max = WithDefaults(query.max)
        <3>1. query.max \in Int
            <4>1. CASE query \in [vertical : Verticals, max : Limits]
                <5>1. query.max \in Limits
                    BY <4>1
                <5>2. QED
                    BY <5>1, LimitsAssumption
            <4>2. CASE query = NoQuery
                <5>1. NoQuery.max = 0
                    BY DEF NoQuery
                <5>2. QED
                    BY <4>2, <5>1
            <4>3. QED
                BY <4>1, <4>2 DEF Inv, TypeOK
        <3>2. QED
            BY <3>1 DEF WithDefaults
    <2>7. reply.page \in Seq(Entry)
        <3>1. reply.page = <<>> \/ reply.page \in Pages
            BY DEF Replies
        <3>2. CASE reply.page \in Pages
            <4>1. PICK n \in 0..PageLength : reply.page \in [1..n -> Entry]
                BY <3>2 DEF Pages
            <4>2. n \in Nat
                BY LengthAssumption
            <4>3. QED
                BY <4>1, <4>2, FunctionIsSeq
        <3>3. CASE reply.page = <<>>
            BY <3>3
        <3>4. QED
            BY <3>1, <3>2, <3>3
    <2>8. /\ Ranked(got.list, max)
          /\ \A k \in DOMAIN got.list : SnippetBelongs(p, reply.page, got.list[k])
          /\ p = "startpage" => got.list # <<>>
        BY <1>3, <1>5, <2>5, <2>6, <2>7, ProvidersRank
    <2>9. /\ answer'.kind = "results" /\ answer'.provider = p /\ answer'.list = got.list
          /\ answer'.page = reply.page
        BY <2>1
    <2>10. AnswersSound'
        <3>1. Elements' = Elements
            BY <1>1 DEF Elements
        <3>2. \A j : NameOf(j)' = NameOf(j)
            BY <3>1 DEF NameOf
        <3>3. i \in {j \in DOMAIN Elements' : VerticalOf(Elements'[j]) = query'.vertical}
            BY <1>1, <2>3, <3>1 DEF Mine
        <3>4. /\ Ranked(answer'.list, WithDefaults(query'.max))
              /\ answer'.provider = "startpage" => answer'.list # <<>>
              /\ \A k \in DOMAIN answer'.list :
                    SnippetBelongs(answer'.provider, answer'.page, answer'.list[k])
            BY <1>1, <2>6, <2>8, <2>9
        <3>5. answer'.provider = NameOf(i)'
            BY <2>5, <2>9, <3>2
        <3>6. QED
            BY <2>9, <3>3, <3>4, <3>5 DEF AnswersSound
    <2>11. TypeOK'
        BY <1>1, <2>1, <2>2, <2>9 DEF Inv, TypeOK, IsBuilt, IsLoaded, Valid
    <2>12. QED
        BY <1>1, <2>1, <2>2, <2>10, <2>11 DEF Inv
<1>6. QED
    BY <1>4, <1>5

LEMMA NextInv == Inv /\ [Next]_vars => Inv'
<1> SUFFICES ASSUME Inv, [Next]_vars PROVE Inv'
    OBVIOUS
<1>1. CASE Load
    BY <1>1, LoadInv
<1>2. CASE LoadFails
    BY <1>2, QuietInv DEF LoadFails
<1>3. CASE Build
    BY <1>3, BuildInv
<1>4. CASE BuildFails
    BY <1>4, QuietInv DEF BuildFails
<1>5. CASE RunSearch
    BY <1>5, EngineSearchInv DEF RunSearch
<1>6. CASE DoFetch
    BY <1>6, QuietInv DEF DoFetch, EngineFetch, Outcome, Inv
<1>7. CASE Serve
    <2>1. CASE ParseError
        BY <2>1, QuietInv DEF ParseError, LineRead, Write, Outcome, Inv
    <2>2. CASE Dispatch
        <3>1. PICK kind \in {"info", "null", "no method", "invalid params"} : Write(Outcome(kind))
            BY <2>2 DEF Dispatch
        <3>2. answer'.kind = kind /\ phase' \in {"ready", "done", "fatal"}
            BY <3>1 DEF Write, Outcome
        <3>3. IsBuilt
            BY <2>2 DEF Dispatch, LineRead, Inv
        <3>4. QED
            BY <2>2, <3>2, <3>3, QuietInv DEF Dispatch
    <2>3. CASE WebSearch
        BY <2>3, EngineSearchInv DEF WebSearch, LineRead
    <2>4. CASE FetchPage
        BY <2>4, QuietInv DEF FetchPage, LineRead, EngineFetch, Outcome, Inv
    <2>5. CASE ToolError
        BY <2>5, QuietInv DEF ToolError, LineRead, Write, Outcome, Inv
    <2>6. CASE Close
        BY <2>6, QuietInv DEF Close
    <2>7. QED
        BY <1>7, <2>1, <2>2, <2>3, <2>4, <2>5, <2>6 DEF Serve
<1>8. CASE Exhausted
    BY <1>8, ExhaustedInv
<1>9. CASE PassOver
    BY <1>9, PassOverInv
<1>10. CASE \E reply \in Replies : Ask(reply)
    BY <1>10, AskInv
<1>11. CASE Fetched
    <2>1. PICK kind \in {"page", "error"} : Write(Outcome(kind))
        BY <1>11 DEF Fetched
    <2>2. answer'.kind = kind /\ phase' \in {"ready", "done", "fatal"}
        BY <2>1 DEF Write, Outcome
    <2>3. IsBuilt
        BY <1>11 DEF Fetched, Inv
    <2>4. QED
        BY <1>11, <2>2, <2>3, QuietInv DEF Fetched
<1>12. CASE UNCHANGED vars
    <2>1. UNCHANGED <<file, cmd, cfg, chains, phase, query, at, blamed, answer>>
        BY <1>12 DEF vars, engine
    <2>2. TypeOK' /\ (IsBuilt => IsBuilt') /\ (IsLoaded => IsLoaded')
        BY <2>1 DEF Inv, TypeOK, Chain, IsBuilt, IsLoaded
    <2>3. AnswersSound'
        BY <2>1, SoundKept DEF Inv
    <2>4. QED
        BY <2>1, <2>2, <2>3 DEF Inv, Chain
<1>13. QED
    BY <1>1, <1>2, <1>3, <1>4, <1>5, <1>6, <1>7, <1>8, <1>9, <1>10, <1>11, <1>12 DEF Next, Call

LEMMA Invariance == Spec => []Inv
<1>1. QED
    BY InitInv, NextInv, PTL DEF Spec

-----------------------------------------------------------------------------
\* The types of a process's variables.
THEOREM TypeCorrect == Spec => []TypeOK
<1>1. Inv => TypeOK
    BY DEF Inv
<1>2. QED
    BY <1>1, Invariance, PTL

\* What a caller is told about a search is true of the vertical asked for: for
\* all files, queries and pages.
THEOREM AnswersCorrect == Spec => []AnswersSound
<1>1. Inv => AnswersSound
    BY DEF Inv
<1>2. QED
    BY <1>1, Invariance, PTL

\* The engine that is built is the one the file describes.
THEOREM ChainsCorrect == Spec => []ChainsExplained
<1>1. ASSUME Inv PROVE ChainsExplained
    <2> SUFFICES ASSUME chains # <<>> PROVE ChainsExplained
        BY DEF ChainsExplained
    <2>1. IsBuilt /\ file \in Files
        BY <1>1 DEF Inv
    <2>2. DOMAIN chains = {VerticalOf(Elements[i]) : i \in DOMAIN Elements}
        BY <2>1, BuiltChains
    <2>3. ASSUME NEW v \in DOMAIN chains, NEW mine, mine = InOrder(Mine(v), Len(Elements))
          PROVE  /\ Len(chains[v]) = Len(mine)
                 /\ \A k \in DOMAIN mine :
                       /\ chains[v][k].name = NameOf(mine[k])
                       /\ chains[v][k].rps = Number(mine[k], "rps")
                       /\ chains[v][k].retries = Number(mine[k], "retries")
                       /\ \/ chains[v][k].endpoint = chains[v][k].name
                          \/ /\ Says(Elements[mine[k]], "url")
                             /\ chains[v][k].endpoint = Elements[mine[k]].url
                          \/ /\ mine[k] = 1 /\ ~Says(Elements[mine[k]], "url")
                             /\ chains[v][k].endpoint = "http-default"
        <3>1. /\ DOMAIN mine = 1..Len(mine) /\ Len(chains[v]) = Len(mine)
              /\ \A k \in 1..Len(mine) :
                    /\ mine[k] \in Mine(v)
                    /\ chains[v][k].name = NameOf(mine[k])
                    /\ chains[v][k].rps = cfg.providers[mine[k]].rps
                    /\ chains[v][k].retries = cfg.providers[mine[k]].retries
                    /\ chains[v][k].endpoint = Endpoint(cfg.providers[mine[k]])
            BY <2>1, <2>3, BuiltChains
        <3>2. ASSUME NEW k \in DOMAIN mine
              PROVE  /\ chains[v][k].rps = Number(mine[k], "rps")
                     /\ chains[v][k].retries = Number(mine[k], "retries")
                     /\ \/ chains[v][k].endpoint = chains[v][k].name
                        \/ /\ Says(Elements[mine[k]], "url")
                           /\ chains[v][k].endpoint = Elements[mine[k]].url
                        \/ /\ mine[k] = 1 /\ ~Says(Elements[mine[k]], "url")
                           /\ chains[v][k].endpoint = "http-default"
            <4>1. PICK i \in DOMAIN Elements : i = mine[k]
                BY <3>1 DEF Mine
            <4>2. PICK pc : pc = cfg.providers[i]
                OBVIOUS
            <4>3. PICK made : made = chains[v][k]
                OBVIOUS
            <4>4. /\ made.name = NameOf(i) /\ made.rps = pc.rps /\ made.retries = pc.retries
                  /\ made.endpoint = Endpoint(pc)
                BY <3>1, <4>1, <4>2, <4>3
            <4>5. Explained(pc, i) /\ pc.name = NameOf(i) /\ i \in DOMAIN cfg.providers
                BY <2>1, <4>2, LoadedNames, ElementsAreASeq DEF IsBuilt
            <4>6. Buildable(pc)
                BY <2>1, <4>2, <4>5 DEF IsBuilt
            <4>7. CASE Endpoint(pc) = pc.name
                BY <4>1, <4>3, <4>4, <4>5, <4>7 DEF Explained
            <4>8. CASE Endpoint(pc) # pc.name
                <5>1. Endpoint(pc) = pc.url /\ pc.url # ""
                    BY <4>6, <4>8 DEF Endpoint, Buildable
                <5>2. CASE Says(Elements[i], "url")
                    BY <4>1, <4>3, <4>4, <4>5, <5>1, <5>2 DEF Explained
                <5>3. CASE ~Says(Elements[i], "url")
                    <6>1. i = 1 /\ pc.url = "http-default"
                        BY <4>5, <5>1, <5>3 DEF Explained
                    <6>2. QED
                        BY <4>1, <4>3, <4>4, <4>5, <5>1, <5>3, <6>1 DEF Explained
                <5>4. QED
                    BY <5>2, <5>3
            <4>9. QED
                BY <4>7, <4>8
        <3>3. QED
            BY <3>1, <3>2
    <2>4. QED
        BY <2>2, <2>3 DEF ChainsExplained, Mine
<1>2. QED
    BY <1>1, Invariance, PTL
=============================================================================
