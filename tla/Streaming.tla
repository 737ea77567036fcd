------------------------------ MODULE Streaming ------------------------------
(***************************************************************************)
(* One websocket connection at a server: wsHandler.ServeHTTP               *)
(* (onet/websocket.go) and ServiceProcessor (onet/processor.go).           *)
(*                                                                         *)
(* A request for a streaming handler starts a reader of the connection, a  *)
(* dispatcher of what it reads, and for every request a goroutine that     *)
(* forwards what the service says and one that will tell it to stop.  They *)
(* share the channels clientInputs and outChan.                            *)
(*                                                                         *)
(* Sending on, or closing, a closed channel is a panic in a goroutine of   *)
(* its own: it ends the whole process.                                     *)
(***************************************************************************)
EXTENDS Integers, Sequences, FiniteSets

CONSTANTS
    MaxRequests,    \* the client sends at most so many requests
    Scenarios,      \* what the client may ask for, see Scenario
    ChanOf,         \* request -> the channel that the service returns for it
    Values,         \* how many values the service has for a request
    InputsLength,   \* capacity of clientInputs (10)
    OutLength       \* capacity of outChan (100)

Requests == 1..MaxRequests
Chans == {ChanOf[r] : r \in Requests}

Value == [of : Requests, nr : 1..Values]

\* The handler of the path of the URL; the requests that cannot be decoded or
\* for which it returns an error; the values that cannot be encoded.
Scenario == [path : {"streaming", "plain", "unknown"}, failing : SUBSET Requests,
             unencodable : SUBSET Value]

\* The service returns the same channel for all requests.
Shared == \E q, r \in Requests : q # r /\ ChanOf[q] = ChanOf[r]

ASSUME StreamingAssumption ==
    /\ MaxRequests \in Nat \ {0} /\ Values \in Nat
    /\ Scenarios \subseteq Scenario /\ Scenarios # {}
    /\ InputsLength \in Nat \ {0} /\ OutLength \in Nat \ {0}

VARIABLES
    \* the client and the connection
    scenario,       \* what this client asks for
    requested,      \* requests sent so far
    toServer,       \* requests on the wire
    toClient,       \* replies on the wire
    clientOpen,     \* the client has not closed
    received,       \* what the client read
    \* ServeHTTP
    loop,           \* "read", "stream", "ended"
    wsReader,       \* "none", "read", "put", "gone"
    inHand,         \* the request that it puts into clientInputs
    clientInputs, inputsClosed,
    closing,        \* the channel closing is closed
    \* ProcessClientStreamRequest
    dispatcher,     \* "none", "range", "gone"
    outChan, outClosed,
    closeOutOnce,
    stopAll,        \* the channel stopAll is closed
    stopper,        \* request -> "none", "wait", "gone"
    forwarder,      \* request -> "none", "recv", "send", "gone"
    held,           \* request -> the value that its forwarder sends
    \* the service
    service,        \* request -> "none", "run", "gone"
    produced,       \* request -> values said so far
    stopChan,       \* channel -> its stopServiceChan is closed
    retClosed,      \* channel -> it is closed
    crashed         \* "no", or the panic that ended the process: a send on
                    \* clientInputs or on outChan, or the close of outChan

client == <<scenario, requested, toServer, toClient, clientOpen, received>>
handler == <<loop, wsReader, inHand, clientInputs, inputsClosed, closing>>
processor == <<dispatcher, outChan, outClosed, closeOutOnce, stopAll, stopper, forwarder, held>>
services == <<service, produced, stopChan, retClosed>>
vars == <<client, handler, processor, services, crashed>>

None == [of |-> 0, nr |-> 0]
\* Of a plain handler there is one reply for a request.
Reply == [of : Requests, nr : Nat]

TypeOK ==
    /\ scenario \in Scenarios /\ requested \in 0..MaxRequests /\ clientOpen \in BOOLEAN
    /\ toServer \in Seq(Requests) /\ toClient \in Seq(Reply) /\ received \in Seq(Reply)
    /\ loop \in {"read", "stream", "ended"}
    /\ wsReader \in {"none", "read", "put", "gone"} /\ inHand \in 0..MaxRequests
    /\ clientInputs \in Seq(Requests) /\ Len(clientInputs) <= InputsLength
    /\ inputsClosed \in BOOLEAN /\ closing \in BOOLEAN
    /\ dispatcher \in {"none", "range", "gone"}
    /\ outChan \in Seq(Value) /\ Len(outChan) <= OutLength
    /\ outClosed \in BOOLEAN /\ closeOutOnce \in BOOLEAN /\ stopAll \in BOOLEAN
    /\ stopper \in [Requests -> {"none", "wait", "gone"}]
    /\ forwarder \in [Requests -> {"none", "recv", "send", "gone"}]
    /\ held \in [Requests -> Value \cup {None}]
    /\ service \in [Requests -> {"none", "run", "gone"}]
    /\ produced \in [Requests -> 0..Values]
    /\ stopChan \in [Chans -> BOOLEAN] /\ retClosed \in [Chans -> BOOLEAN]
    /\ crashed \in {"no", "inputsSend", "outSend", "outClose"}

Init ==
    /\ scenario \in Scenarios
    /\ requested = 0 /\ toServer = <<>> /\ toClient = <<>>
    /\ clientOpen = TRUE /\ received = <<>>
    /\ loop = "read" /\ wsReader = "none" /\ inHand = 0
    /\ clientInputs = <<>> /\ inputsClosed = FALSE /\ closing = FALSE
    /\ dispatcher = "none" /\ outChan = <<>> /\ outClosed = FALSE
    /\ closeOutOnce = FALSE /\ stopAll = FALSE
    /\ stopper = [r \in Requests |-> "none"]
    /\ forwarder = [r \in Requests |-> "none"]
    /\ held = [r \in Requests |-> None]
    /\ service = [r \in Requests |-> "none"]
    /\ produced = [r \in Requests |-> 0]
    /\ stopChan = [c \in Chans |-> FALSE]
    /\ retClosed = [c \in Chans |-> FALSE]
    /\ crashed = "no"

-----------------------------------------------------------------------------
(* The client: Stream, StreamingConn.readMsg and closeConn.                *)

Stream ==
    /\ clientOpen /\ requested < MaxRequests
    /\ requested' = requested + 1
    /\ toServer' = Append(toServer, requested + 1)
    /\ UNCHANGED <<scenario, toClient, clientOpen, received, handler, processor, services, crashed>>

ReadMsg ==
    /\ clientOpen /\ toClient # <<>>
    /\ received' = Append(received, Head(toClient))
    /\ toClient' = Tail(toClient)
    /\ UNCHANGED <<scenario, requested, toServer, clientOpen, handler, processor, services, crashed>>

\* The client closes, or is lost.
CloseConn ==
    /\ clientOpen
    /\ clientOpen' = FALSE
    /\ UNCHANGED <<scenario, requested, toServer, toClient, received, handler, processor, services,
                   crashed>>

-----------------------------------------------------------------------------
(* ServeHTTP.                                                              *)

Ends == loop' = "ended"

\* A write to a client that is gone may still succeed.
Write(v) ==
    \/ toClient' = Append(toClient, v) /\ UNCHANGED loop
    \/ ~clientOpen /\ Ends /\ UNCHANGED toClient

\* The request fails before or in the handler.
Fails(r) == r \in scenario.failing

\* A request for a handler that does not stream: ProcessClientRequest, and the
\* reply or the end.
PlainRequest ==
    /\ loop = "read" /\ toServer # <<>> /\ scenario.path # "streaming"
    /\ toServer' = Tail(toServer)
    /\ IF scenario.path = "unknown" \/ Fails(Head(toServer))
       THEN Ends /\ UNCHANGED toClient
       ELSE Write([of |-> Head(toServer), nr |-> 0])
    /\ UNCHANGED <<scenario, requested, clientOpen, received, wsReader, inHand, clientInputs,
                   inputsClosed, closing, processor, services, crashed>>

\* The first request of a stream starts the dispatcher and the reader.
StreamRequest ==
    /\ loop = "read" /\ toServer # <<>> /\ scenario.path = "streaming"
    /\ toServer' = Tail(toServer)
    /\ clientInputs' = <<Head(toServer)>>
    /\ dispatcher' = "range" /\ wsReader' = "read" /\ loop' = "stream"
    /\ UNCHANGED <<scenario, requested, toClient, clientOpen, received, inHand, inputsClosed, closing,
                   outChan, outClosed, closeOutOnce, stopAll, stopper, forwarder, held,
                   services, crashed>>

\* The connection ends before a request.
LoopReadError ==
    /\ loop = "read" /\ toServer = <<>> /\ ~clientOpen
    /\ Ends
    /\ UNCHANGED <<client, wsReader, inHand, clientInputs, inputsClosed, closing, processor,
                   services, crashed>>

\* The reader goroutine of a stream.
ReaderRead ==
    /\ wsReader = "read" /\ toServer # <<>>
    /\ inHand' = Head(toServer) /\ toServer' = Tail(toServer)
    /\ wsReader' = "put"
    /\ UNCHANGED <<scenario, requested, toClient, clientOpen, received, loop, clientInputs,
                   inputsClosed, closing, processor, services, crashed>>

ReaderPut ==
    /\ wsReader = "put"
    /\ IF inputsClosed
       THEN crashed' = "inputsSend" /\ UNCHANGED <<clientInputs, wsReader>>
       ELSE /\ Len(clientInputs) < InputsLength
            /\ clientInputs' = Append(clientInputs, inHand)
            /\ wsReader' = "read" /\ UNCHANGED crashed
    /\ UNCHANGED <<client, loop, inHand, inputsClosed, closing, processor, services>>

\* Reading fails when the client is gone, or when ServeHTTP has returned.
ReaderError ==
    /\ wsReader = "read"
    /\ (~clientOpen /\ toServer = <<>>) \/ loop = "ended"
    /\ closing' = TRUE
    /\ wsReader' = "gone"
    /\ UNCHANGED <<client, loop, inHand, clientInputs, inputsClosed, processor, services,
                   crashed>>

\* The loop of a stream: the client wants to close.
LoopClosing ==
    /\ loop = "stream" /\ closing
    /\ inputsClosed' = TRUE /\ Ends
    /\ UNCHANGED <<client, wsReader, inHand, clientInputs, closing, processor, services,
                   crashed>>

\* The loop of a stream: something to write.
LoopWrite ==
    /\ loop = "stream" /\ outChan # <<>>
    /\ outChan' = Tail(outChan)
    /\ Write(Head(outChan))
    /\ inputsClosed' = (loop' = "ended")
    /\ UNCHANGED <<scenario, requested, toServer, clientOpen, received, wsReader, inHand, clientInputs,
                   closing, dispatcher, outClosed, closeOutOnce, stopAll, stopper, forwarder,
                   held, services, crashed>>

\* The loop of a stream: the service has no more to say.
LoopOutClosed ==
    /\ loop = "stream" /\ outChan = <<>> /\ outClosed
    /\ inputsClosed' = TRUE /\ Ends
    /\ UNCHANGED <<client, wsReader, inHand, clientInputs, closing, processor, services,
                   crashed>>

-----------------------------------------------------------------------------
(* ProcessClientStreamRequest.                                             *)

CloseOut ==
    IF outClosed THEN crashed' = "outClose" /\ UNCHANGED outClosed
                 ELSE outClosed' = TRUE /\ UNCHANGED crashed

\* The next input is decoded and given to the service; or it is refused.
Dispatch ==
    /\ dispatcher = "range" /\ clientInputs # <<>>
    /\ clientInputs' = Tail(clientInputs)
    /\ LET r == Head(clientInputs)
       IN \/ /\ Fails(r)
             /\ CloseOut
             /\ dispatcher' = "gone"
             /\ UNCHANGED <<service, stopper, forwarder>>
          \/ /\ ~Fails(r)
             /\ service' = [service EXCEPT ![r] = "run"]
             /\ stopper' = [stopper EXCEPT ![r] = "wait"]
             /\ forwarder' = [forwarder EXCEPT ![r] = "recv"]
             /\ UNCHANGED <<dispatcher, outClosed, crashed>>
    /\ UNCHANGED <<client, loop, wsReader, inHand, inputsClosed, closing, outChan,
                   closeOutOnce, stopAll, held, produced, stopChan, retClosed>>

NothingStopped == UNCHANGED stopAll   \* mutant: stopAll is not closed
StopAll == stopAll' = TRUE

\* There are no more inputs.
DispatchEnd ==
    /\ dispatcher = "range" /\ clientInputs = <<>> /\ inputsClosed
    /\ StopAll
    /\ dispatcher' = "gone"
    /\ UNCHANGED <<client, handler, outChan, outClosed, closeOutOnce, stopper, forwarder,
                   held, services, crashed>>

\* mutant: the goroutine closes the outgoing channel as well
StopAndClose(r) ==
    /\ stopper[r] = "wait" /\ stopAll
    /\ stopChan' = [stopChan EXCEPT ![ChanOf[r]] = TRUE]
    /\ stopper' = [stopper EXCEPT ![r] = "gone"]
    /\ CloseOut
    /\ UNCHANGED <<client, handler, dispatcher, outChan, closeOutOnce, stopAll, forwarder,
                   held, service, produced, retClosed>>
\* The goroutine that tells the service of a request to stop.
StopService(r) ==
    /\ stopper[r] = "wait" /\ stopAll
    /\ stopChan' = [stopChan EXCEPT ![ChanOf[r]] = TRUE]
    /\ stopper' = [stopper EXCEPT ![r] = "gone"]
    /\ UNCHANGED <<client, handler, dispatcher, outChan, outClosed, closeOutOnce, stopAll,
                   forwarder, held, service, produced, retClosed, crashed>>

\* The send blocks while outChan is full.
DropWhenFull(v) ==   \* mutant: a send that does not block
    outChan' = IF Len(outChan) < OutLength THEN Append(outChan, v) ELSE outChan
SendOut(v) ==
    /\ Len(outChan) < OutLength
    /\ outChan' = Append(outChan, v)

\* The goroutine that forwards what the service says: it sends what it got ...
ForwardSend(r) ==
    /\ forwarder[r] = "send"
    /\ IF outClosed
       THEN crashed' = "outSend" /\ UNCHANGED <<outChan, forwarder, held>>
       ELSE /\ SendOut(held[r])
            /\ forwarder' = [forwarder EXCEPT ![r] = "recv"]
            /\ held' = [held EXCEPT ![r] = None]
            /\ UNCHANGED crashed
    /\ UNCHANGED <<client, handler, dispatcher, outClosed, closeOutOnce, stopAll, stopper,
                   services>>

\* It closes outChan, the first time only.
EveryTime == CloseOut /\ UNCHANGED closeOutOnce   \* mutant: without the Once
OnlyOnce ==
    IF closeOutOnce THEN UNCHANGED <<outClosed, closeOutOnce, crashed>>
                    ELSE closeOutOnce' = TRUE /\ CloseOut

\* ... until the service closes its channel.
ForwardEnd(r) ==
    /\ forwarder[r] = "recv" /\ retClosed[ChanOf[r]]
    /\ forwarder' = [forwarder EXCEPT ![r] = "gone"]
    /\ OnlyOnce
    /\ UNCHANGED <<client, handler, dispatcher, outChan, stopAll, stopper, held, services>>

-----------------------------------------------------------------------------
(* The service, as RegisterStreamingHandler asks it to be: it says what it *)
(* has, stops when it is told to, and closes its channel.                  *)

\* A value goes to one of the forwarders that receive from the channel, which
\* encodes it.
Say(r, f) ==
    /\ service[r] = "run" /\ produced[r] < Values
    /\ forwarder[f] = "recv" /\ ChanOf[f] = ChanOf[r] /\ ~retClosed[ChanOf[r]]
    /\ produced' = [produced EXCEPT ![r] = @ + 1]
    /\ LET v == [of |-> r, nr |-> produced[r] + 1]
       IN \/ /\ v \notin scenario.unencodable
             /\ held' = [held EXCEPT ![f] = v]
             /\ forwarder' = [forwarder EXCEPT ![f] = "send"]
             /\ UNCHANGED <<outClosed, closeOutOnce, crashed>>
          \/ /\ v \in scenario.unencodable
             /\ forwarder' = [forwarder EXCEPT ![f] = "gone"]
             /\ OnlyOnce
             /\ UNCHANGED held
    /\ UNCHANGED <<client, handler, dispatcher, outChan, stopAll, stopper, service,
                   stopChan, retClosed>>

\* With a channel for several requests it ends only when told to.
ServiceEnd(r) ==
    /\ service[r] = "run"
    /\ stopChan[ChanOf[r]] \/ (produced[r] = Values /\ ~Shared)
    /\ service' = [service EXCEPT ![r] = "gone"]
    /\ retClosed' = [retClosed EXCEPT ![ChanOf[r]] = TRUE]
    /\ UNCHANGED <<client, handler, processor, produced, stopChan, crashed>>

-----------------------------------------------------------------------------

Handler ==
    \/ PlainRequest \/ StreamRequest \/ LoopReadError
    \/ LoopClosing \/ LoopWrite \/ LoopOutClosed

Reader == ReaderRead \/ ReaderPut \/ ReaderError
Dispatcher == Dispatch \/ DispatchEnd
Forwarder(r) == ForwardSend(r) \/ ForwardEnd(r)

Next ==
    /\ crashed = "no"
    /\ \/ Stream \/ ReadMsg \/ CloseConn
       \/ Handler
       \/ Reader
       \/ Dispatcher
       \/ \E r \in Requests :
             StopService(r) \/ Forwarder(r) \/ ServiceEnd(r) \/ \E f \in Requests : Say(r, f)

Spec == Init /\ [][Next]_vars

\* The goroutines of the server and of the service run; the client need not.
FairSpec ==
    /\ Spec
    /\ WF_vars(crashed = "no" /\ Handler) /\ WF_vars(crashed = "no" /\ Reader)
    /\ WF_vars(crashed = "no" /\ Dispatcher)
    /\ \A r \in Requests :
          /\ WF_vars(crashed = "no" /\ StopService(r))
          /\ WF_vars(crashed = "no" /\ Forwarder(r))
          /\ WF_vars(crashed = "no" /\ ServiceEnd(r))

-----------------------------------------------------------------------------
(* Properties.                                                             *)

\* However the goroutines of a stream end, outChan is closed only once
\* (processor.go:523-529).
OutClosedOnce == crashed # "outClose"

\* A stream with a single request ends without a panic, whoever ends it and
\* whenever (websocket.go:315-372, processor.go:454-560).
SingleRequestSafe == requested <= 1 => crashed = "no"

\* Clients may push several requests over one connection: the process goes on
\* (processor.go:448-453).
NoPanic == crashed = "no"

\* What the client gets of a request is in the order in which the service said
\* it (processor.go:513-554).
ValuesInOrder ==
    \A i, j \in DOMAIN received :
        i < j /\ received[i].of = received[j].of => received[i].nr < received[j].nr

\* All that is on its way to the client or was read by it.
Written == received \o toClient
\* When a service was forwarded to its end and the stream lives or ended with
\* it, nothing that it said is lost: it is on its way or with the client
\* (processor.go:531-553, websocket.go:346-370).
NothingLost ==
    \A r \in Requests :
        forwarder[r] = "gone" /\ clientOpen /\ crashed = "no" =>
            \A k \in 1..produced[r] :
                [of |-> r, nr |-> k] \notin scenario.unencodable =>
                \E i \in DOMAIN (Written \o outChan) :
                    (Written \o outChan)[i] = [of |-> r, nr |-> k]

\* A service that was started is told to stop, and stops, once the connection
\* is gone; or the process has panicked (websocket.go:343-369,
\* processor.go:499-511, 556).
ServicesStop ==
    \A r \in Requests :
        (loop = "ended" /\ service[r] = "run") ~> (service[r] = "gone" \/ crashed # "no")
=============================================================================
