------------------------------ MODULE MCRouter ------------------------------
(* Instances of Router for TLC.                                            *)
EXTENDS Router, TLC

\* A config and its message from a to b, single messages in both
\* directions, and one that b sends to itself.
MCFrom == "pair" :> "a" @@ "ab" :> "a" @@ "ba" :> "b" @@ "bb" :> "b"
MCTo == "pair" :> "b" @@ "ab" :> "b" @@ "ba" :> "a" @@ "bb" :> "b"
MCBatch == "pair" :> <<"config", "msg">> @@ "ab" :> <<"m1">> @@ "ba" :> <<"m2">>
           @@ "bb" :> <<"m3">>
Scenario(running, transport_, n) ==
    [running |-> running, transport |-> transport_, events |-> n]
MCScenarios ==
    {Scenario({"pair", "bb"}, "tcp", 1), Scenario({"pair"}, "local", 2),
     Scenario({"ab", "ba"}, "tcp", 0), Scenario({"ab", "ba"}, "local", 0)}
\* Two connections to a server that is paused twice.
MCPauses == {Scenario({"pair", "ab"}, "local", 2)}
MCPeers == {{"b"}}
=============================================================================
