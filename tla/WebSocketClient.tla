--------------------------- MODULE WebSocketClient ---------------------------
(***************************************************************************)
(* The client of the websocket API (onet/websocket_client.go).             *)
(* SendProtobufParallel asks the nodes of a list by several goroutines and *)
(* returns the first good answer.  All of them, and Close, use the         *)
(* connections of one Client: connectionsLock of a destination is held as  *)
(* long as its connection is in use.                                       *)
(*                                                                         *)
(* All calls ask the same path, so that a destination is a node.  Every    *)
(* critical section of the Client's own mutex is within one step.          *)
(***************************************************************************)
EXTENDS Integers, Sequences

CONSTANTS
    NbrNodes,   \* the length of the list of nodes
    Keep,       \* connections are kept between two messages
    Options     \* call -> its ParallelOptions

Nodes == 1..NbrNodes
Calls == DOMAIN Options

\* A field of 0 stands for the default.
ParallelOptions ==
    [parallel : Nat, askNodes : Nat, startNode : Nat, quitError : BOOLEAN,
     ignoreNodes : SUBSET Nodes, dontShuffle : BOOLEAN]

-----------------------------------------------------------------------------
(* GetList: how many requests go out in parallel, and to which nodes.      *)

Half == (NbrNodes + 1) \div 2
StartNode(opt) == IF opt.startNode \in 1..(NbrNodes - 1) THEN opt.startNode ELSE 0
AskNodes(opt) ==
    IF opt.askNodes \in 1..(NbrNodes - 1) THEN opt.askNodes ELSE NbrNodes - StartNode(opt)
Parallel(opt) ==
    LET wanted == IF opt.parallel \in 1..(Half - 1) THEN opt.parallel ELSE Half
    IN  IF AskNodes(opt) < wanted THEN AskNodes(opt) ELSE wanted

\* The orders in which the nodes may be taken.
Perms(opt) ==
    IF opt.dontShuffle THEN {[i \in Nodes |-> i - 1]}
    ELSE {p \in [Nodes -> 0..(NbrNodes - 1)] : \A i, j \in Nodes : i # j => p[i] # p[j]}

\* The loop over the nodes leaves out those that are to be ignored.
Usable(order, ignored) ==
    LET upTo[i \in 0..Len(order)] ==
            IF i = 0 THEN <<>>
            ELSE IF order[i] \in ignored THEN upTo[i - 1] ELSE Append(upTo[i - 1], order[i])
    IN  upTo[Len(order)]
NodesList(opt, perm) ==
    LET order == [i \in Nodes |-> ((StartNode(opt) + perm[i]) % NbrNodes) + 1]
        usable == Usable(order, opt.ignoreNodes)
    IN  IF Len(usable) > AskNodes(opt) THEN SubSeq(usable, 1, AskNodes(opt)) ELSE usable

\* The goroutines of the calls.
Workers == {w \in Calls \X (1..Half) : w[2] <= Parallel(Options[w[1]])}
Free == <<0, 0>>

\* A call returned an error.
Failed == -1

-----------------------------------------------------------------------------

VARIABLES
    connections,    \* node -> "none", "open" or "broken"
    connectionsLock,\* node -> who holds it, or Free
    \* per call
    main,           \* "none", "collect", "returned"
    nodesChan, nodesNbr,
    errChan,        \* how many errors it holds
    errs,           \* how many the call has collected
    decodedChan,
    done,           \* the channel done is closed
    decoding,       \* the mutex decoding is held
    ret,            \* the node whose answer is in ret, or 0
    result,         \* 0, the node returned, or Failed
    \* per goroutine
    pc,             \* "none", "test", "take", "lock", "write", "read", "finish",
                    \* "decide", "announce", "close", "gone"
    node,           \* the node it asks
    answer,         \* "none", "reply" or "error"
    \* Close
    closer,         \* "idle", "range", "lock", "closed"
    waitsFor,       \* the destination whose lock Close waits for
    listed,         \* connections that it still has to range over
    \* histories
    lateWrite,      \* a message was written after Close returned, for a call
                    \* that had returned before Close was called
    before,         \* the calls that had returned when Close was called
    panicked        \* a channel was closed twice, or errs[0] did not exist

conns == <<connections, connectionsLock>>
calls == <<main, nodesChan, nodesNbr, errChan, errs, decodedChan, done, decoding, ret, result>>
workers == <<pc, node, answer>>
closeState == <<closer, waitsFor, listed, before>>
clientVars == <<conns, calls, workers, closeState, lateWrite, panicked>>

ClientTyped ==
    /\ \A c \in Calls : Options[c] \in ParallelOptions
    /\ connections \in [Nodes -> {"none", "open", "broken"}]
    /\ connectionsLock \in [Nodes -> Workers \cup {Free}]
    /\ main \in [Calls -> {"none", "collect", "returned"}]
    /\ nodesChan \in [Calls -> Seq(Nodes)] /\ nodesNbr \in [Calls -> 0..NbrNodes]
    /\ errChan \in [Calls -> 0..NbrNodes] /\ errs \in [Calls -> 0..NbrNodes]
    /\ decodedChan \in [Calls -> Seq(Nodes)]
    /\ \A c \in Calls : Len(decodedChan[c]) <= 1 /\ errChan[c] <= nodesNbr[c]
    /\ done \in [Calls -> BOOLEAN] /\ decoding \in [Calls -> BOOLEAN]
    /\ ret \in [Calls -> 0..NbrNodes]
    /\ \A c \in Calls : result[c] \in Nodes \cup {0, Failed}
    /\ pc \in [Workers -> {"none", "test", "take", "lock", "write", "read", "finish",
                           "decide", "announce", "close", "gone"}]
    /\ node \in [Workers -> 0..NbrNodes]
    /\ answer \in [Workers -> {"none", "reply", "error"}]
    /\ closer \in {"idle", "range", "lock", "closed"} /\ waitsFor \in 0..NbrNodes
    /\ listed \subseteq Nodes /\ before \subseteq Calls
    /\ lateWrite \in BOOLEAN /\ panicked \in BOOLEAN

ClientInit ==
    /\ connections = [n \in Nodes |-> "none"]
    /\ connectionsLock = [n \in Nodes |-> Free]
    /\ main = [c \in Calls |-> "none"]
    /\ nodesChan = [c \in Calls |-> <<>>] /\ nodesNbr = [c \in Calls |-> 0]
    /\ errChan = [c \in Calls |-> 0] /\ errs = [c \in Calls |-> 0]
    /\ decodedChan = [c \in Calls |-> <<>>] /\ done = [c \in Calls |-> FALSE]
    /\ decoding = [c \in Calls |-> FALSE]
    /\ ret = [c \in Calls |-> 0] /\ result = [c \in Calls |-> 0]
    /\ pc = [w \in Workers |-> "none"] /\ node = [w \in Workers |-> 0]
    /\ answer = [w \in Workers |-> "none"]
    /\ closer = "idle" /\ waitsFor = 0 /\ listed = {} /\ before = {}
    /\ lateWrite = FALSE /\ panicked = FALSE

-----------------------------------------------------------------------------
(* SendProtobufParallelWithDecoder: the caller.                            *)

StartCall(c) ==
    /\ main[c] = "none"
    /\ main' = [main EXCEPT ![c] = "collect"]
    /\ \E perm \in Perms(Options[c]) :
          LET list == NodesList(Options[c], perm)
          IN  /\ nodesChan' = [nodesChan EXCEPT ![c] = list]
              /\ nodesNbr' = [nodesNbr EXCEPT ![c] = Len(list)]
    /\ pc' = [w \in Workers |-> IF w[1] = c THEN "test" ELSE pc[w]]
    /\ UNCHANGED <<conns, errChan, errs, decodedChan, done, decoding, ret, result, node,
                   answer, closeState, lateWrite, panicked>>

\* Errors are collected as long as there are fewer than nodes.
OneShort(c) == errs[c] < nodesNbr[c] - 1   \* mutant: off by one
Collecting(c) == errs[c] < nodesNbr[c]

Return(c, r) ==
    /\ main' = [main EXCEPT ![c] = "returned"]
    /\ result' = [result EXCEPT ![c] = r]

CollectAnswer(c) ==
    /\ main[c] = "collect" /\ Collecting(c) /\ decodedChan[c] # <<>>
    /\ decodedChan' = [decodedChan EXCEPT ![c] = <<>>]
    /\ Return(c, Head(decodedChan[c]))
    /\ UNCHANGED <<conns, nodesChan, nodesNbr, errChan, errs, done, decoding, ret, workers,
                   closeState, lateWrite, panicked>>

\* With QuitError the channel done is closed, which panics when it is closed.
CollectError(c) ==
    /\ main[c] = "collect" /\ Collecting(c) /\ errChan[c] > 0
    /\ errChan' = [errChan EXCEPT ![c] = @ - 1]
    /\ IF Options[c].quitError
       THEN /\ done' = [done EXCEPT ![c] = TRUE]
            /\ panicked' = done[c]
            /\ Return(c, Failed)
            /\ UNCHANGED errs
       ELSE /\ errs' = [errs EXCEPT ![c] = @ + 1]
            /\ UNCHANGED <<main, result, done, panicked>>
    /\ UNCHANGED <<conns, nodesChan, nodesNbr, decodedChan, decoding, ret, workers, closeState,
                   lateWrite>>

\* errs[0] panics when the list was empty.
CollectEnd(c) ==
    /\ main[c] = "collect" /\ ~Collecting(c)
    /\ Return(c, Failed)
    /\ panicked' = (errs[c] = 0)
    /\ UNCHANGED <<conns, nodesChan, nodesNbr, errChan, errs, decodedChan, done, decoding,
                   ret, workers, closeState, lateWrite>>

-----------------------------------------------------------------------------
(* contactNode, with Send and newConnIfNotExist.                           *)

Goto(w, l) == pc' = [pc EXCEPT ![w] = l] /\ UNCHANGED node
\* contactNode is called again.
Again(w) == pc' = [pc EXCEPT ![w] = "test"] /\ node' = [node EXCEPT ![w] = 0]

TestDone(w) ==
    /\ pc[w] = "test"
    /\ Goto(w, IF done[w[1]] THEN "gone" ELSE "take")
    /\ UNCHANGED <<conns, calls, answer, closeState, lateWrite, panicked>>

TakeNode(w) ==
    /\ pc[w] = "take"
    /\ IF nodesChan[w[1]] = <<>>
       THEN Goto(w, "gone") /\ UNCHANGED nodesChan
       ELSE /\ node' = [node EXCEPT ![w] = Head(nodesChan[w[1]])]
            /\ nodesChan' = [nodesChan EXCEPT ![w[1]] = Tail(@)]
            /\ pc' = [pc EXCEPT ![w] = "lock"]
    /\ UNCHANGED <<conns, main, nodesNbr, errChan, errs, decodedChan, done, decoding, ret,
                   result, answer, closeState, lateWrite, panicked>>

\* The error of a node is reported, and the next node taken.
Silent(w) == UNCHANGED errChan   \* mutant: the error is not reported
Report(w) == errChan' = [errChan EXCEPT ![w[1]] = @ + 1]

\* The lock of the destination, and a connection if there is none.  Nobody sees
\* the time that dialing takes but those who wait for the same lock.
LockAndDial(w) ==
    /\ pc[w] = "lock" /\ connectionsLock[node[w]] = Free
    /\ \/ /\ connections[node[w]] # "none"
          /\ connectionsLock' = [connectionsLock EXCEPT ![node[w]] = w]
          /\ Goto(w, "write") /\ UNCHANGED <<connections, errChan>>
       \/ /\ connections[node[w]] = "none"
          /\ connectionsLock' = [connectionsLock EXCEPT ![node[w]] = w]
          /\ connections' = [connections EXCEPT ![node[w]] = "open"]
          /\ Goto(w, "write") /\ UNCHANGED errChan
       \/ /\ connections[node[w]] = "none"   \* all attempts to connect fail
          /\ Report(w)
          /\ Again(w) /\ UNCHANGED conns
    /\ UNCHANGED <<main, nodesChan, nodesNbr, errs, decodedChan, done, decoding, ret, result,
                   answer, closeState, lateWrite, panicked>>

\* closeConn: the connection leaves the map that Close ranges over.
closeConn(n) ==
    /\ connections' = [connections EXCEPT ![n] = "none"]
    /\ listed' = listed \ {n}

Broken(w) == connections' = [connections EXCEPT ![node[w]] = "broken"]

\* WriteMessage.
WriteMessage(w) ==
    /\ pc[w] = "write"
    /\ \/ /\ connections[node[w]] = "open"
          /\ Goto(w, "read")
          /\ lateWrite' = (lateWrite \/ (closer = "closed" /\ w[1] \in before))
          /\ UNCHANGED <<connections, answer>>
       \/ /\ Broken(w)
          /\ answer' = [answer EXCEPT ![w] = "error"]
          /\ Goto(w, "finish")
          /\ UNCHANGED lateWrite
    /\ UNCHANGED <<connectionsLock, calls, closeState, panicked>>

\* ReadMessage, with its deadline.
ReadMessage(w) ==
    /\ pc[w] = "read"
    /\ \/ /\ connections[node[w]] = "open"
          /\ answer' = [answer EXCEPT ![w] = "reply"]
          /\ UNCHANGED connections
       \/ /\ Broken(w)
          /\ answer' = [answer EXCEPT ![w] = "error"]
    /\ Goto(w, "finish")
    /\ UNCHANGED <<connectionsLock, calls, closeState, lateWrite, panicked>>

\* The deferred calls of Send: closeSingleUseConn, then the lock; and what
\* contactNode does with an error.
Finish(w) ==
    /\ pc[w] = "finish"
    /\ IF Keep THEN UNCHANGED <<connections, listed>> ELSE closeConn(node[w])
    /\ connectionsLock' = [connectionsLock EXCEPT ![node[w]] = Free]
    /\ IF answer[w] = "error"
       THEN Report(w) /\ Again(w)
       ELSE Goto(w, "decide") /\ UNCHANGED errChan
    /\ answer' = [answer EXCEPT ![w] = "none"]
    /\ UNCHANGED <<main, nodesChan, nodesNbr, errs, decodedChan, done, decoding, ret, result,
                   closer, waitsFor, before, lateWrite, panicked>>

\* An answer is looked at when there is none yet.
AlwaysWanted(w) == TRUE   \* mutant: done is not tested again
Wanted(w) == ~done[w[1]]

\* Under the mutex decoding: the answer comes too late, is decoded into ret,
\* or is refused by the decoder.
Decide(w) ==
    /\ pc[w] = "decide" /\ ~decoding[w[1]]
    /\ \/ /\ ~Wanted(w)
          /\ Again(w) /\ UNCHANGED <<decoding, ret, errChan>>
       \/ /\ Wanted(w)
          /\ decoding' = [decoding EXCEPT ![w[1]] = TRUE]
          /\ ret' = [ret EXCEPT ![w[1]] = node[w]]
          /\ Goto(w, "announce") /\ UNCHANGED errChan
       \/ /\ Wanted(w)
          /\ Report(w)
          /\ Again(w) /\ UNCHANGED <<decoding, ret>>
    /\ UNCHANGED <<conns, main, nodesChan, nodesNbr, errs, decodedChan, done, result,
                   answer, closeState, lateWrite, panicked>>

Announce(w) ==
    /\ pc[w] = "announce" /\ decodedChan[w[1]] = <<>>
    /\ decodedChan' = [decodedChan EXCEPT ![w[1]] = <<node[w]>>]
    /\ Goto(w, "close")
    /\ UNCHANGED <<conns, main, nodesChan, nodesNbr, errChan, errs, done, decoding, ret,
                   result, answer, closeState, lateWrite, panicked>>

CloseDone(w) ==
    /\ pc[w] = "close"
    /\ done' = [done EXCEPT ![w[1]] = TRUE]
    /\ panicked' = done[w[1]]
    /\ decoding' = [decoding EXCEPT ![w[1]] = FALSE]
    /\ Again(w)
    /\ UNCHANGED <<conns, main, nodesChan, nodesNbr, errChan, errs, decodedChan, ret, result,
                   answer, closeState, lateWrite>>

-----------------------------------------------------------------------------
(* Close: it ranges over the connections and waits for each one's lock.    *)

Connected == {n \in Nodes : connections[n] # "none"}

CloseStart ==
    /\ closer = "idle"
    /\ closer' = "range" /\ listed' = Connected
    /\ before' = {c \in Calls : main[c] = "returned"}
    /\ UNCHANGED <<conns, calls, workers, waitsFor, lateWrite, panicked>>

\* A connection that came meanwhile may be ranged over, or not.
CloseNext ==
    /\ closer = "range"
    /\ \E n \in Connected : waitsFor' = n
    /\ closer' = "lock"
    /\ UNCHANGED <<conns, calls, workers, listed, before, lateWrite, panicked>>

NoLock == TRUE   \* mutant: Close does not take the lock of the destination
CloseMayGoOn == connectionsLock[waitsFor] = Free

CloseOne ==
    /\ closer = "lock" /\ CloseMayGoOn
    /\ closeConn(waitsFor)
    /\ closer' = "range" /\ waitsFor' = 0
    /\ UNCHANGED <<connectionsLock, calls, workers, before, lateWrite, panicked>>

CloseEnd ==
    /\ closer = "range" /\ listed = {}
    /\ closer' = "closed"
    /\ UNCHANGED <<conns, calls, workers, waitsFor, listed, before, lateWrite, panicked>>

-----------------------------------------------------------------------------

Main(c) == CollectAnswer(c) \/ CollectError(c) \/ CollectEnd(c)

Worker(w) ==
    \/ TestDone(w) \/ TakeNode(w) \/ LockAndDial(w) \/ WriteMessage(w) \/ ReadMessage(w)
    \/ Finish(w) \/ Decide(w) \/ Announce(w) \/ CloseDone(w)

Close == CloseStart \/ CloseNext \/ CloseOne \/ CloseEnd

ClientNext ==
    /\ ~panicked
    /\ \/ \E c \in Calls : StartCall(c) \/ Main(c)
       \/ \E w \in Workers : Worker(w)
       \/ Close

ClientSpec == ClientInit /\ [][ClientNext]_clientVars

\* Goroutines run, and one that waits for a lock gets it in its turn: a Mutex
\* is handed to a waiter that has waited long.
FairClientSpec ==
    /\ ClientSpec
    /\ \A c \in Calls : WF_clientVars(~panicked /\ Main(c))
    /\ \A w \in Workers : SF_clientVars(~panicked /\ Worker(w))
    /\ SF_clientVars(~panicked /\ closer # "idle" /\ Close)

-----------------------------------------------------------------------------
(* Properties.                                                             *)

\* The answer in ret is that of the node that the call returns, whatever comes
\* later from the other nodes (websocket_client.go:351-365).
AnswerOfReturnedNode ==
    \A c \in Calls : result[c] \in Nodes => ret[c] = result[c]

\* Without QuitError a call returns an error only when all nodes of its list
\* have failed (websocket_client.go:385-399).
ErrorMeansAllFailed ==
    \A c \in Calls : result[c] = Failed /\ ~Options[c].quitError =>
        /\ nodesChan[c] = <<>> /\ errs[c] = nodesNbr[c]
        /\ \A w \in Workers : w[1] = c => pc[w] \in {"test", "take", "gone"}

\* While a goroutine has a message on a connection, nobody else uses or closes
\* it (websocket_client.go:77-94, 514-523).
InUseIsHeld ==
    \A w \in Workers : pc[w] \in {"write", "read", "finish"} =>
        connectionsLock[node[w]] = w /\ connections[node[w]] # "none"

\* Every call returns (websocket_client.go:386-399), and so does Close.
CallsReturn == \A c \in Calls : [](main[c] = "collect" => <>(main[c] = "returned"))
CloseReturns == [](closer # "idle" => <>(closer = "closed"))
AllReturn == CallsReturn /\ CloseReturns

\* With QuitError the first error that is received is returned: the call does
\* not panic (websocket_client.go:239, 392).
ClientNoPanic == ~panicked

\* A call panics only with QuitError, or when its list was empty: only CloseDone
\* and CollectEnd could (websocket_client.go:363, 386-399).
PanicsExplained ==
    panicked =>
        \E c \in Calls : Options[c].quitError \/ (main[c] = "returned" /\ nodesNbr[c] = 0)

\* Once Close has returned, all messages of the calls before it have been sent
\* (websocket_client_test.go:769-770).
CloseFlushes == ~lateWrite
=============================================================================
