--------------------------- MODULE MCFetchStream ---------------------------
(* StreamedPage over documents of two containers, the first with up to two   *)
(* children, and over one that fills both channels and both hands.           *)
EXTENDS StreamedPage

Node(tag, up) == [tag |-> tag, up |-> up, len |-> 0, trim |-> 0]
TextNode(n, trim, up) == [tag |-> "text", up |-> up, len |-> n, trim |-> trim]

\* doc, with another child of node up: a text of its own or one in an element.
Add(doc, up, child) ==
    IF child = "text" THEN Append(doc, TextNode(10, 10, up))
    ELSE IF child = "blank" THEN Append(doc, TextNode(1, 0, up))
    ELSE doc \o <<Node(child, up), TextNode(9, 9, Len(doc) + 1)>>

Under(doc, tag, up, children) ==
    FoldLeft(LAMBDA d, child : Add(d, Len(doc) + 1, child), Append(doc, Node(tag, up)), children)

\* A container, and a second one: beside it, within it, or in something like a
\* footer.
TwoContainers ==
    {LET one == Under(<<>>, first, 0, children)
         two == CASE place = "beside" -> Under(one, second, 0, <<"p", "text">>)
                  [] place = "within" -> Under(one, second, 1, <<"p", "text">>)
                  [] place = "footer" -> Under(Append(one, Node("skip", 0)), second,
                                               Len(one) + 1, <<"p", "text">>)
     IN two :
        first \in {"article", "div"}, second \in {"article", "div"},
        place \in {"beside", "within", "footer"},
        children \in BoundedSeq({"text", "blank", "p", "a", "skip"}, 2)}

\* Without a container, without anything, and of seven chunks.
Others == {<<>>, Add(Add(<<>>, 0, "text"), 0, "p"),
           Under(<<>>, "article", 0, [k \in 1..13 |-> "text"])}

Documents == TwoContainers \cup Others
FewDocuments == Others
ChunkCount(docs) == [doc \in docs |-> Len(Chunks(doc))]
DocumentChunks == ChunkCount(Documents)
FewChunks == ChunkCount(FewDocuments)
=============================================================================
