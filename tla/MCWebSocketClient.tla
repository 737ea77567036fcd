-------------------------- MODULE MCWebSocketClient --------------------------
(* Instances of WebSocketClient.                                           *)
EXTENDS WebSocketClient

Default ==
    [parallel |-> 0, askNodes |-> 0, startNode |-> 0, quitError |-> FALSE,
     ignoreNodes |-> {}, dontShuffle |-> FALSE]

\* Two callers share the connections: one asks all nodes, the other leaves out
\* the first.
TwoCalls == <<Default, [Default EXCEPT !.ignoreNodes = {1}]>>
\* One call asks all nodes, the ones from the second first.
OneCall == <<[Default EXCEPT !.startNode = 1, !.askNodes = 3, !.dontShuffle = TRUE]>>
Quitting == <<[Default EXCEPT !.quitError = TRUE]>>
=============================================================================
