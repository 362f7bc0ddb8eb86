----------------------------- MODULE Readability -----------------------------
(***************************************************************************)
(* fetch/extract.go and the walk of fetch/stream.go: which part of a        *)
(* document is its text, and how that text is cut into chunks.  A document  *)
(* is the sequence of its nodes in document order; a node knows its parent  *)
(* (0 is the document itself).  Tags are reduced to what the code asks of   *)
(* them: "article"; "div", which stands for main and section, too; "p";     *)
(* "li", for headings and quotations, too; "a"; "skip", a tag of skipTags;   *)
(* and "text" for a text node, which has a length and a length without the  *)
(* white space around it.  Lengths are in units of fifty bytes.             *)
(***************************************************************************)
EXTENDS Integers, Sequences, FiniteSets

StreamChunkSize == 18   \* 900 bytes

SkipTags == {"skip"}
Containers == {"article", "div"}
Blocks == {"p", "li"}

Document == Seq([tag : SkipTags \cup Containers \cup Blocks \cup {"a", "text"},
                 up : Nat, len : Nat, trim : Nat])

\* The sum of a sequence of numbers, and the elements of a sequence that are in T.
SumOf(s) ==
    LET upTo[k \in 0..Len(s)] == IF k = 0 THEN 0 ELSE upTo[k - 1] + s[k]
    IN  upTo[Len(s)]

Only(s, T) ==
    LET upTo[k \in 0..Len(s)] ==
            IF k = 0 THEN <<>>
            ELSE IF s[k] \in T THEN Append(upTo[k - 1], s[k]) ELSE upTo[k - 1]
    IN  upTo[Len(s)]

\* The nodes a walk from n comes to that does not descend into certain tags.
Walk(doc, n, barred) ==
    LET reached[i \in 1..Len(doc)] ==
            \/ i = n
            \/ LET up == doc[i].up
               IN IF up = 0 THEN n = 0 ELSE reached[up] /\ doc[up].tag \notin barred
    IN {i \in DOMAIN doc : reached[i]}

Texts(doc, nodes) == {i \in nodes : doc[i].tag = "text"}

\* What the nodes of a set add up to.
SumOver(doc, nodes, amount) ==
    SumOf([i \in DOMAIN doc |-> IF i \in nodes THEN amount[i] ELSE 0])

TextContentLen(doc, n) ==
    SumOver(doc, Texts(doc, Walk(doc, n, {})), [i \in DOMAIN doc |-> doc[i].len])

\* Scores are fractions.
Fraction(num, den) == [num |-> num, den |-> den]
Beats(s, t) == s.num * t.den > t.num * s.den

\* The text outside of links, a hundred bytes more for every paragraph, and less
\* the more of the text lies in links.
Density(doc, n) ==
    LET seen  == Walk(doc, n, SkipTags \cup {"a"})
        text  == SumOver(doc, Texts(doc, seen), [i \in DOMAIN doc |-> doc[i].trim])
        links == SumOver(doc, {i \in seen : doc[i].tag = "a"},
                         [i \in DOMAIN doc |-> TextContentLen(doc, i)])
        paras == Cardinality({i \in seen : doc[i].tag = "p"})
    IN IF text = 0 THEN Fraction(0, 1) ELSE Fraction((text + 2 * paras) * text, text + links)

\* An article has a tenth more.
Score(doc, n) ==
    LET d == Density(doc, n)
    IN IF doc[n].tag = "article" THEN d ELSE Fraction(9 * d.num, 10 * d.den)

\* The first of the containers with the highest score, wherever it stands; the
\* whole document if none has any text.
FindBestContainer(doc) ==
    LET ScoreOf(n) == IF n = 0 THEN Fraction(0, 1) ELSE Score(doc, n)
        Better(best, i) ==
            IF doc[i].tag \in Containers /\ Beats(Score(doc, i), ScoreOf(best)) THEN i ELSE best
        upTo[i \in 0..Len(doc)] == IF i = 0 THEN 0 ELSE Better(upTo[i - 1], i)
    IN upTo[Len(doc)]

\* The nodes that both walks over the text visit, in document order.
Visited(doc) ==
    Only([i \in DOMAIN doc |-> i], Walk(doc, FindBestContainer(doc), SkipTags))

NotBlank(doc, nodes) == Only(nodes, {i \in Texts(doc, DOMAIN doc) : doc[i].trim > 0})

\* collectText and normalize: the text nodes of the page, without blank ones.
PageText(doc) == NotBlank(doc, Visited(doc))

Size(doc, nodes) == SumOf([k \in DOMAIN nodes |-> doc[nodes[k]].len])

Flushed(s) == IF s.buf = <<>> THEN s ELSE [buf |-> <<>>, chunks |-> Append(s.chunks, s.buf)]

\* The walk of ExtractStream; the buffer holds the text nodes written to it.
Visit(doc, s, i) ==
    LET Full(t) == Size(doc, t.buf) >= StreamChunkSize
        written == [s EXCEPT !.buf = Append(@, i)]
    IN CASE doc[i].tag \in Blocks -> IF Full(s) THEN Flushed(s) ELSE s
         [] doc[i].tag = "text"   -> IF Full(written) THEN Flushed(written) ELSE written
         [] OTHER                 -> s

\* The buffer and the chunks after the walk.
Walked(doc) ==
    LET nodes == Visited(doc)
        upTo[k \in 0..Len(nodes)] ==
            IF k = 0 THEN [buf |-> <<>>, chunks |-> <<>>] ELSE Visit(doc, upTo[k - 1], nodes[k])
    IN  upTo[Len(nodes)]

\* The definition whose name ends in _Bug is a plausible mistake in the
\* definition that follows; no specification uses it.

\* (the last buffer is forgotten if it is not full)
Chunks_Bug(doc) == Walked(doc).chunks

Chunks(doc) == Flushed(Walked(doc)).chunks
=============================================================================
