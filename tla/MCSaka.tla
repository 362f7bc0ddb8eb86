------------------------------- MODULE MCSaka -------------------------------
(* Saka over configuration files with up to four providers, in any order and *)
(* with and without the keys that matter, and pages of up to two entries.    *)
EXTENDS Saka

Elements6 == {
    [name |-> "searxng", url |-> "http-own", rps |-> 50],
    [name |-> "duckduckgo"],
    [name |-> "startpage", rps |-> 10, retries |-> 0],
    [name |-> "gdelt", vertical |-> "news"],
    [name |-> "searxng-images", vertical |-> "images"],
    [url |-> "ftp-own", vertical |-> "news"] }

ProviderFiles ==
    {[providers |-> es] : es \in UNION {[1..n -> Elements6] : n \in 0..4}}

\* Settings out of range, in reach of a limiter that starves, and no file.
OtherFiles == {
    <<>>,
    [fetch |-> [rps |-> 5, disk |-> TRUE]],
    [fetch |-> [rps |-> 101]],
    [fetch |-> [ttl |-> -1]],
    [providers |-> <<[name |-> "gdelt", url |-> "http-own", rps |-> 0]>>],
    [providers |-> <<[name |-> "gdelt", rps |-> 101]>>],
    [providers |-> <<[name |-> "gdelt", retries |-> 6]>>] }

AllFiles == ProviderFiles \cup OtherFiles
AllVerticals == {"", "news", "images"}
ZeroOrOne == {0, 1}
=============================================================================
