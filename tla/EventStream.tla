----------------------------- MODULE EventStream -----------------------------
(***************************************************************************)
(* What both streaming endpoints promise a client, without goroutines and   *)
(* channels: the source is worked on until it is ready, with so many        *)
(* pieces, or has failed; data frames carry the pieces one after the other; *)
(* a frame of its own closes the stream, "done" after the last piece and    *)
(* "error" if the source failed; only a client that is gone is left without *)
(* one, and nothing is written once the stream is closed.                   *)
(***************************************************************************)
EXTENDS Integers, Sequences

CONSTANT MayConceal  \* a failure may be announced as "done" too

VARIABLES source,  \* "working", "ready" or "failed"
          length,  \* the number of pieces
          wire,    \* the pieces written
          final,   \* the frame after them: "none", "done" or "error"
          open,    \* the stream has not been closed
          gone     \* the client has disconnected

vars == <<source, length, wire, final, open, gone>>

Init ==
    /\ source = "working" /\ length = 0
    /\ wire = <<>> /\ final = "none" /\ open = TRUE /\ gone = FALSE

Prepare ==
    /\ source = "working"
    /\ source' = "ready"
    /\ length' \in Nat
    /\ UNCHANGED <<wire, final, open, gone>>

Fail ==
    /\ source = "working"
    /\ source' = "failed"
    /\ UNCHANGED <<length, wire, final, open, gone>>

Frame ==
    /\ open /\ source = "ready"
    /\ Len(wire) < length
    /\ wire' = Append(wire, Len(wire))
    /\ UNCHANGED <<source, length, final, open, gone>>

Close(frame) ==
    /\ open
    /\ final' = frame
    /\ open' = FALSE
    /\ UNCHANGED <<source, length, wire, gone>>

Done ==
    /\ \/ source = "ready" /\ Len(wire) = length
       \/ source = "failed" /\ MayConceal
    /\ Close("done")

Error == source = "failed" /\ Close("error")

Leave ==
    /\ open
    /\ gone' = TRUE
    /\ UNCHANGED <<source, length, wire, final, open>>

Abandon == gone /\ Close(final)

Next == Prepare \/ Fail \/ Frame \/ Done \/ Error \/ Leave \/ Abandon

Spec == Init /\ [][Next]_vars
=============================================================================
