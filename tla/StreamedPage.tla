---------------------------- MODULE StreamedPage ----------------------------
(***************************************************************************)
(* FetchStream over the documents of Readability: what a client of          *)
(* /v1/stream has been sent, compared with the page that is cached.         *)
(***************************************************************************)
EXTENDS FetchStream, Readability, SequencesExt

ASSUME PagesAssumption  == Pages \subseteq Document
ASSUME LengthAssumption == \A doc \in Pages : Length[doc] = Len(Chunks(doc))

\* The text nodes the client has been sent.
Sent == FlattenSeq([k \in DOMAIN wire |-> Chunks(page)[wire[k] + 1]])

\* The stream and the page agree although they are made by different walks and
\* travel different ways: a client has at any time been sent a beginning of the
\* text that the page in the cache has, and all of it when a page that was
\* cached is announced as done; chunks but for the last are not too short, and
\* the text is that of a container which no other one outscores.
StreamIsPage ==
    /\ IsPrefix(NotBlank(page, Sent), PageText(page))
    /\ final = "done" /\ cached => NotBlank(page, Sent) = PageText(page)
    /\ \A k \in DOMAIN wire :
        LET chunk == Chunks(page)[wire[k] + 1]
        IN chunk # <<>> /\ (wire[k] + 1 < total => Size(page, chunk) >= StreamChunkSize)
    /\ LET best == FindBestContainer(page)
           scored == {i \in DOMAIN page : page[i].tag \in Containers}
       IN \A i \in scored :
            IF best = 0 THEN Density(page, i).num = 0 ELSE ~Beats(Score(page, i), Score(page, best))
=============================================================================
