------------------------------- MODULE Robots -------------------------------
(***************************************************************************)
(* The parser of fetch/robots.go, which reads a robots.txt line by line,    *)
(* and what it amounts to.  A line names an agent, denies the URLs under a  *)
(* prefix, or is ignored; the texts are abstracted to what the parser asks  *)
(* of them.  An agent is "star", a "fragment" of the lower-cased header     *)
(* value (the empty name among them: strings.Contains finds it anywhere),   *)
(* or "other", to which "sakabot" belongs: the line is lower-cased, the     *)
(* header value "SakaBot/1.0 ..." is not.                                    *)
(***************************************************************************)
EXTENDS Integers, Sequences

Agent(who) == [kind |-> "agent", who |-> who]
Deny(urls) == [kind |-> "deny", urls |-> urls]
Ignored    == [kind |-> "ignored"]

Matches(who) == who \in {"star", "fragment"}

\* The definitions whose names end in _Bug are plausible mistakes in the
\* definition that follows; no specification uses them.

\* (an agent line in the middle of a group does not end the one before)
ParseLine_Bug(g, line) ==
    CASE line.kind = "agent" ->
            [g EXCEPT !.inGroup = TRUE, !.applies = @ \/ Matches(line.who)]
      [] line.kind = "deny" /\ g.inGroup /\ g.applies ->
            [g EXCEPT !.denied = @ \cup line.urls]
      [] OTHER -> g

\* One pass of the loop over the lines.
ParseLine(g, line) ==
    CASE line.kind = "agent" ->
            [g EXCEPT !.inGroup = TRUE,
                      !.applies = (@ /\ ~(g.inGroup /\ g.applies)) \/ Matches(line.who)]
      [] line.kind = "deny" /\ g.inGroup /\ g.applies ->
            [g EXCEPT !.denied = @ \cup line.urls]
      [] OTHER -> g

\* The URLs fetchRules collects from the lines it was given.
Parse(file) ==
    LET upTo[k \in 0..Len(file)] ==
            IF k = 0 THEN [inGroup |-> FALSE, applies |-> FALSE, denied |-> {}]
            ELSE ParseLine(upTo[k - 1], file[k])
    IN  upTo[Len(file)].denied

-----------------------------------------------------------------------------
AgentLines(file) == {i \in DOMAIN file : file[i].kind = "agent"}
DenyLines(file)  == {i \in DOMAIN file : file[i].kind = "deny"}

\* The agent lines of the group that line i belongs to: those in one run
\* with the last agent line before it.
Group(file, i) ==
    {k \in AgentLines(file) :
        \E j \in AgentLines(file) :
            /\ k <= j /\ j < i
            /\ \A n \in k..j : n \in AgentLines(file)
            /\ \A n \in j+1..i-1 : n \notin AgentLines(file)}

\* What the file asks of an agent that any of a group's lines may name.
Asked(file) ==
    UNION {file[i].urls : i \in {d \in DenyLines(file) :
        \E k \in Group(file, d) : Matches(file[k].who)}}

\* What it asks if only the last agent line of a group counted.
AskedByLastAgent(file) ==
    UNION {file[i].urls : i \in {d \in DenyLines(file) :
        \E k \in Group(file, d) :
            /\ Matches(file[k].who)
            /\ \A n \in Group(file, d) : n <= k}}

\* The parser denies what the last agent line of each group asks for: exactly
\* the file's wish when no group names two agents, and never more than it.
ReadsLastAgent(file) ==
    /\ Parse(file) = AskedByLastAgent(file)
    /\ Parse(file) \subseteq Asked(file)
    /\ (\A d \in DenyLines(file), k, n \in AgentLines(file) :
            {k, n} \subseteq Group(file, d) => k = n)
        => Parse(file) = Asked(file)
=============================================================================
