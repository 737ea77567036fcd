----------------------------- MODULE MCStreaming -----------------------------
(* Instances of Streaming: a service that returns a channel for every      *)
(* request, and one that returns the same channel for all.                 *)
EXTENDS Streaming

OwnChannels == [r \in 1..MaxRequests |-> r]
OneChannel == [r \in 1..MaxRequests |-> 1]

Asks(path, failing, unencodable) ==
    [path |-> path, failing |-> failing, unencodable |-> unencodable]

\* All kinds of handlers; when a request of a stream fails, it is the first.
Sound ==
    {Asks("streaming", f, v) : f \in {{}, {1}}, v \in {{}, {[of |-> 2, nr |-> Values]}}}
    \cup {Asks("plain", f, {}) : f \in {{}, {1}}} \cup {Asks("unknown", {}, {})}
OnlyGood == {Asks("streaming", {}, {})}
LaterBad == {Asks("streaming", {2}, {})}
=============================================================================
