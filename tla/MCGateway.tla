----------------------------- MODULE MCGateway -----------------------------
(* Gateway with two connections and two keys: one of the free tier, with one *)
(* request per minute, and one of a paid tier, with two; a minute has two    *)
(* ticks, so that a key can hold half a token.                               *)
EXTENDS Gateway, TLC

CONSTANTS s1, s2, kf, kp

TwoSlots == {s1, s2}
Symmetry == Permutations(TwoSlots)
TwoKeys == {kf, kp}
NamedTiers == kf :> "unknown" @@ kp :> "standard"
TierTable == [free |-> [rpm |-> 1, stream |-> FALSE],
              standard |-> [rpm |-> 2, stream |-> TRUE]]
\* Keys and metering, as the command line starts the server, keys alone, and
\* an open server.
AllOptions == {[auth |-> TRUE, usage |-> TRUE], [auth |-> TRUE, usage |-> FALSE],
               [auth |-> FALSE, usage |-> TRUE]}
=============================================================================
