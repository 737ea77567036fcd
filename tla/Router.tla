------------------------------- MODULE Router -------------------------------
(***************************************************************************)
(* The routers of several servers and the connections between them         *)
(* (onet/network/router.go over tcp.go or local.go, and dispatch.go).      *)
(*                                                                         *)
(* Goroutines send batches of messages.  A connection has two ends; the    *)
(* server at each end runs handleConn on it, which dispatches what arrives.*)
(* End 1 is the one that dialed.  Connections may be opened from both      *)
(* sides at once, so a server can have several connections to one peer.    *)
(*                                                                         *)
(* A step is what happens under the router's lock, or one call of a        *)
(* connection.  With the local transport, the lock of the LocalManager is  *)
(* held while a send waits for space in the queue.                         *)
(***************************************************************************)
EXTENDS Integers, Sequences, SequencesExt, FiniteSets

CONSTANTS
    Nodes,        \* the servers
    Senders,      \* goroutines that call Send once
    SendsFrom,    \* sender -> its server
    SendsTo,      \* sender -> the server it sends to
    Batch,        \* sender -> the messages of its call
    Capacity,     \* LocalMaxBuffer
    PeerSets,     \* what SetValidPeers may be called with
    Managed,      \* the servers on which Pause, SetValidPeers, Stop are called
    MaxConns,     \* bound on the number of connections
    Scenarios     \* what may happen together: the senders that run, the
                  \* transport, and a bound on the number of events (breaks,
                  \* pauses and changes of the peers)

Msgs == UNION {Range(Batch[s]) : s \in Senders}
Hello == "hello"      \* the ServerIdentity that is sent first
Nobody == "nobody"

ASSUME RouterAssumption ==
    /\ SendsFrom \in [Senders -> Nodes] /\ SendsTo \in [Senders -> Nodes]
    /\ \A s \in Senders : Batch[s] \in Seq(Msgs) /\ IsInjective(Batch[s]) /\ Batch[s] # <<>>
    /\ \A s, t \in Senders : Range(Batch[s]) \cap Range(Batch[t]) # {} => s = t
    /\ Scenarios \subseteq [running : SUBSET Senders, transport : {"tcp", "local"},
                            events : Nat]
    /\ Hello \notin Msgs /\ Nobody \notin Senders
    /\ Capacity \in Nat \ {0}
    /\ PeerSets \subseteq SUBSET Nodes /\ Managed \subseteq Nodes
    /\ MaxConns \in Nat

VARIABLES
    transport,    \* the kind of connection in use
    listener,     \* per server: "off", "on" or "closed"
    stop,         \* per server: how far Stop is; isClosed from "waiting" on
    validPeers,   \* per server: the peers it accepts connections from
    paused,       \* per server: the channel paused, 0 for nil
    unpaused,     \* the pause channels that have been closed
    forgotten,    \* those that were dropped without being closed (history)
    events,       \* the number of events that may still happen
    conns,        \* the connections made, in order
    connections,  \* per server and peer: its ends of connections, in order
    lmHeldBy,     \* the sender that waits with the LocalManager's lock
    sender,       \* the progress of each call of Send
    dispatched    \* per server: the messages given to a processor (history)

nodeVars == <<listener, stop, validPeers>>
pauseVars == <<paused, unpaused, forgotten>>
vars == <<transport, nodeVars, pauseVars, events, conns, connections, lmHeldBy, sender,
          dispatched>>

Ends == (1..MaxConns) \X {1, 2}
Made == (1..Len(conns)) \X {1, 2}
NoEnd == <<0, 1>>
Other(e) == <<e[1], 3 - e[2]>>
NodeOf(e) == conns[e[1]].ends[e[2]]
At(e) == conns[e[1]].at[e[2]]
IsOpen(e) == conns[e[1]].open[e[2]]
Incoming(e) == conns[e[1]].buf[e[2]]
IsClosed(n) == stop[n] \in {"waiting", "stopped"}

Places == {"dialed", "backlog", "hello", "reject", "launch", "receive",
           "dispatch", "paused", "cleanup", "remove", "gone"}
\* The goroutine handleConn runs and has not called wg.Done.
Handling == {"receive", "dispatch", "paused", "cleanup"}

TypeOK ==
    /\ transport \in {"tcp", "local"}
    /\ listener \in [Nodes -> {"off", "on", "closed"}]
    /\ stop \in [Nodes -> {"no", "closing", "waiting", "stopped"}]
    /\ validPeers \in [Nodes -> SUBSET Nodes]
    /\ paused \in [Nodes -> Nat] /\ unpaused \subseteq Nat /\ forgotten \subseteq Nat
    /\ events \in Nat
    /\ Len(conns) <= MaxConns
    /\ \A k \in DOMAIN conns : conns[k].at \in [{1, 2} -> Places]
    /\ connections \in [Nodes -> [Nodes -> Seq(Ends)]]
    /\ lmHeldBy \in Senders \cup {Nobody}
    /\ dispatched \in [Nodes -> Seq(Msgs)]

Init ==
    /\ listener = [n \in Nodes |-> IF n \in Managed THEN "off" ELSE "on"]
    /\ stop = [n \in Nodes |-> "no"]
    /\ validPeers = [n \in Nodes |-> Nodes]
    /\ paused = [n \in Nodes |-> 0] /\ unpaused = {} /\ forgotten = {}
    /\ conns = <<>>
    /\ connections = [n \in Nodes |-> [m \in Nodes |-> <<>>]]
    /\ lmHeldBy = Nobody
    /\ \E scenario \in Scenarios :
         /\ transport = scenario.transport
         /\ events = scenario.events
         /\ sender = [s \in Senders |->
              [at |-> IF s \in scenario.running THEN "start" ELSE "over", next |-> 1,
               conn |-> NoEnd, new |-> NoEnd, retried |-> FALSE]]
    /\ dispatched = [n \in Nodes |-> <<>>]

-----------------------------------------------------------------------------
(* Connections.                                                            *)

\* The LocalManager's lock is free, or held by this sender.
LmFree(who) == transport = "local" => lmHeldBy \in {Nobody, who}

\* TCPConn.Close closes one end, and what has arrived there is discarded.
TCPClosed(c, here) ==
    [c EXCEPT !.open = [i \in {1, 2} |-> @[i] /\ i \notin here],
              !.buf = [i \in {1, 2} |-> IF i \in here THEN <<>> ELSE @[i]]]
\* LocalManager.close closes both ends.  The queues can still be read.
LocalClosed(c, here) == [c EXCEPT !.open = [i \in {1, 2} |-> @[i] /\ here = {}]]
\* Close of each of these ends.
Closed(cs, es) ==
    [k \in DOMAIN cs |->
       LET here == {i \in {1, 2} : <<k, i>> \in es}
       IN  IF transport = "tcp" THEN TCPClosed(cs[k], here) ELSE LocalClosed(cs[k], here)]

Moved(cs, e, place) == [cs EXCEPT ![e[1]].at[e[2]] = place]

\* What Send does at an end: the message is on its way, an error is
\* returned, or (TCP, when the other side is gone) it is accepted and lost.
\* A frame that is not written in full is an error and never becomes a message.
Reachable(e) == ~conns[e[1]].broken /\ IsOpen(e) /\ IsOpen(Other(e))
Sends(e, m) ==
    /\ Reachable(e)
    /\ transport = "local" => Len(Incoming(Other(e))) < Capacity
    /\ conns' = [conns EXCEPT ![e[1]].buf[3 - e[2]] = Append(@, m)]
LosesMsg(e) == transport = "tcp" /\ ~Reachable(e) /\ IsOpen(e) /\ UNCHANGED conns
SendError(e) == ~Reachable(e)

\* What Receive does at an end.  A local connection that is closed loses what
\* has not moved from its first queue to the second.
HasMsg(e) == (IsOpen(e) \/ transport = "local") /\ Incoming(e) # <<>>
ReceiveError(e) ==
    \/ ~IsOpen(e)
    \/ Incoming(e) = <<>> /\ (conns[e[1]].broken \/ ~IsOpen(Other(e)))
Received(e) == [conns EXCEPT ![e[1]].buf[e[2]] = Tail(@),
                             ![e[1]].got[e[2]] = Head(Incoming(e))]

\* The network breaks a TCP connection; what was on its way is lost.
Break(k) ==
    /\ transport = "tcp" /\ events > 0 /\ ~conns[k].broken
    /\ events' = events - 1
    /\ conns' = [conns EXCEPT ![k].broken = TRUE, ![k].buf = [i \in {1, 2} |-> <<>>]]
    /\ UNCHANGED <<transport, nodeVars, pauseVars, connections, lmHeldBy, sender, dispatched>>

-----------------------------------------------------------------------------
(* Send.                                                                   *)

Source(s) == SendsFrom[s]
Target(s) == SendsTo[s]
Message(s) == Batch[s][sender[s].next]
Go(s, place) == sender' = [sender EXCEPT ![s].at = place]
Return(s, result) ==
    sender' = [sender EXCEPT ![s].at = result, ![s].conn = NoEnd, ![s].new = NoEnd]

\* registerConnection appends a connection to its peer's.
Registered(n, peer, e) == [connections EXCEPT ![n][peer] = Append(@, e)]

\* connection: the first that is registered for the peer.
FirstConnection(n, peer) ==
    IF connections[n][peer] = <<>> THEN NoEnd ELSE Head(connections[n][peer])

\* The first connection to the peer is taken, or a new one is made.  What a
\* server sends to itself is dispatched at once.
SendStart(s) ==
    /\ sender[s].at = "start"
    /\ IF Source(s) = Target(s)
       THEN /\ dispatched' = [dispatched EXCEPT ![Source(s)] = @ \o Batch[s]]
            /\ Return(s, "over")
       ELSE LET c == FirstConnection(Source(s), Target(s)) IN
            /\ sender' = [sender EXCEPT ![s].at = IF c = NoEnd THEN "dial" ELSE "send",
                                        ![s].conn = c]
            /\ UNCHANGED dispatched
    /\ UNCHANGED <<transport, nodeVars, pauseVars, events, conns, connections, lmHeldBy>>

\* A TCP listener is bound when the server is created, so that a connection
\* can wait there to be accepted.
Bound(n) == listener[n] # "closed"
\* A local address is known to the manager while somebody listens.
isListening(n) == listener[n] = "on"
\* host.Connect, which is retried.
MayConnect(n) == IF transport = "tcp" THEN Bound(n) ELSE isListening(n)
NewConn(s) ==
    [ends |-> <<Source(s), Target(s)>>, broken |-> FALSE,
     open |-> <<TRUE, TRUE>>, buf |-> << <<>>, <<Hello>> >>, got |-> <<Hello, Hello>>, channel |-> <<0, 0>>,
     at |-> <<"dialed", IF transport = "tcp" THEN "backlog" ELSE "hello">>]

\* connect: dial, and send the own identity.
Connect(s) ==
    /\ sender[s].at = "dial" /\ LmFree(Nobody)
    /\ MayConnect(Target(s)) /\ Len(conns) < MaxConns
    /\ conns' = Append(conns, NewConn(s))
    /\ sender' = [sender EXCEPT ![s].at = "register", ![s].new = <<Len(conns) + 1, 1>>]
    /\ UNCHANGED <<transport, nodeVars, pauseVars, events, connections, lmHeldBy, dispatched>>

\* All retries of host.Connect fail, or a TCP connection breaks before the
\* identity is sent.
ConnectFails(s) ==
    /\ sender[s].at = "dial"
    /\ \/ ~MayConnect(Target(s)) /\ UNCHANGED events
       \/ transport = "tcp" /\ events > 0 /\ events' = events - 1
    /\ Return(s, "failed")
    /\ UNCHANGED <<transport, nodeVars, pauseVars, conns, connections, lmHeldBy, dispatched>>

RegisterOutgoing(s) ==
    /\ sender[s].at = "register"
    /\ IF IsClosed(Source(s))
       THEN Return(s, "failed") /\ UNCHANGED connections
       ELSE /\ connections' = Registered(Source(s), Target(s), sender[s].new)
            /\ Go(s, "launch")
    /\ UNCHANGED <<transport, nodeVars, pauseVars, events, conns, lmHeldBy, dispatched>>

\* A slip: the router is not asked whether it is closed.
AlwaysLaunch(n) == TRUE
\* launchHandleRoutine is refused by a closed router.
MayLaunch(n) == ~IsClosed(n)

\* launchHandleRoutine.  After a failed send, the variable c of the loop
\* keeps the old connection.
LaunchOutgoing(s) ==
    /\ sender[s].at = "launch"
    /\ IF MayLaunch(Source(s))
       THEN /\ conns' = Moved(conns, sender[s].new, "receive")
            /\ sender' = [sender EXCEPT ![s].at = IF sender[s].retried THEN "resend" ELSE "send",
                                        ![s].conn = IF @ = NoEnd THEN sender[s].new ELSE @]
       ELSE Return(s, "failed") /\ UNCHANGED conns
    /\ UNCHANGED <<transport, nodeVars, pauseVars, events, connections, lmHeldBy, dispatched>>

\* A slip: a message that was sent over a new connection is sent once more.
SentTwice(s) ==
    IF sender[s].next = Len(Batch[s]) /\ sender[s].at = "send"
    THEN Return(s, "over")
    ELSE sender' = [sender EXCEPT ![s].next = IF sender[s].at = "send" THEN @ + 1 ELSE @,
                                  ![s].at = "send", ![s].conn = IF sender[s].at = "send" THEN @ ELSE sender[s].new]
\* The next message of the batch, if there is one.
Sent(s) ==
    IF sender[s].next = Len(Batch[s])
    THEN Return(s, "over")
    ELSE sender' = [sender EXCEPT ![s].next = @ + 1, ![s].at = "send"]

\* A message is sent over the connection found first; on an error, a new
\* connection is made.
SendMsg(s) ==
    /\ sender[s].at = "send" /\ LmFree(s)
    /\ \/ Sends(sender[s].conn, Message(s)) /\ Sent(s)
       \/ LosesMsg(sender[s].conn) /\ Sent(s)
       \/ /\ SendError(sender[s].conn)
          /\ sender' = [sender EXCEPT ![s].at = "dial", ![s].retried = TRUE]
          /\ UNCHANGED conns
    /\ lmHeldBy' = Nobody
    /\ UNCHANGED <<transport, nodeVars, pauseVars, events, connections, dispatched>>

\* The message is sent again over the new connection.
Resend(s) ==
    /\ sender[s].at = "resend" /\ LmFree(s)
    /\ \/ Sends(sender[s].new, Message(s)) /\ Sent(s)
       \/ LosesMsg(sender[s].new) /\ Sent(s)
       \/ SendError(sender[s].new) /\ Return(s, "failed") /\ UNCHANGED conns
    /\ lmHeldBy' = Nobody
    /\ UNCHANGED <<transport, nodeVars, pauseVars, events, connections, dispatched>>

\* A local queue is full: the sender waits in LocalManager.send.
Block(s) ==
    /\ transport = "local" /\ lmHeldBy = Nobody
    /\ LET e == IF sender[s].at = "send" THEN sender[s].conn ELSE sender[s].new
       IN /\ sender[s].at \in {"send", "resend"}
          /\ Reachable(e) /\ Len(Incoming(Other(e))) >= Capacity
    /\ lmHeldBy' = s
    /\ UNCHANGED <<transport, nodeVars, pauseVars, events, conns, connections, sender,
                   dispatched>>

Sending(s) ==
    \/ SendStart(s) \/ Connect(s) \/ ConnectFails(s) \/ RegisterOutgoing(s)
    \/ LaunchOutgoing(s) \/ SendMsg(s) \/ Resend(s) \/ Block(s)

-----------------------------------------------------------------------------
(* Start: the listener and the goroutines for accepted connections.        *)

\* Listen is called once.  A TCP listener that was stopped before returns at
\* once; a local one does not know that it was.
Listen(n) ==
    /\ listener[n] = "off"
    /\ listener' = [listener EXCEPT ![n] = "on"]
    /\ UNCHANGED <<transport, stop, validPeers, pauseVars, events, conns, connections,
                   lmHeldBy, sender, dispatched>>

Accept(e) ==
    /\ At(e) = "backlog" /\ listener[NodeOf(e)] = "on"
    /\ conns' = Moved(conns, e, "hello")
    /\ UNCHANGED <<transport, nodeVars, pauseVars, events, connections, lmHeldBy, sender,
                   dispatched>>

\* The connections that wait when the listener is closed are reset.
Reset(e) ==
    /\ At(e) = "backlog" /\ listener[NodeOf(e)] = "closed"
    /\ conns' = [Moved(conns, e, "gone") EXCEPT ![e[1]].broken = TRUE,
                                                ![e[1]].buf = [i \in {1, 2} |-> <<>>]]
    /\ UNCHANGED <<transport, nodeVars, pauseVars, events, connections, lmHeldBy, sender,
                   dispatched>>

\* receiveServerIdentity, the test of the peer and registerConnection.  A
\* connection that a closed router refuses stays open.
ReceiveServerIdentity(e) ==
    /\ At(e) = "hello"
    /\ LET valid == NodeOf(Other(e)) \in validPeers[NodeOf(e)]
       IN \/ /\ HasMsg(e) /\ valid /\ ~IsClosed(NodeOf(e))
             /\ connections' = Registered(NodeOf(e), NodeOf(Other(e)), e)
             /\ conns' = Moved(Received(e), e, "launch")
          \/ /\ HasMsg(e) /\ valid /\ IsClosed(NodeOf(e))
             /\ conns' = Moved(Received(e), e, "gone")
             /\ UNCHANGED connections
          \/ /\ HasMsg(e) /\ ~valid
             /\ conns' = Moved(Received(e), e, "reject")
             /\ UNCHANGED connections
          \/ /\ ReceiveError(e)
             /\ conns' = Moved(conns, e, "reject")
             /\ UNCHANGED connections
    /\ UNCHANGED <<transport, nodeVars, pauseVars, events, lmHeldBy, sender, dispatched>>

Reject(e) ==
    /\ At(e) = "reject" /\ LmFree(Nobody)
    /\ conns' = Moved(Closed(conns, {e}), e, "gone")
    /\ UNCHANGED <<transport, nodeVars, pauseVars, events, connections, lmHeldBy, sender,
                   dispatched>>

LaunchIncoming(e) ==
    /\ At(e) = "launch"
    /\ conns' = Moved(conns, e, IF MayLaunch(NodeOf(e)) THEN "receive" ELSE "gone")
    /\ UNCHANGED <<transport, nodeVars, pauseVars, events, connections, lmHeldBy, sender,
                   dispatched>>

-----------------------------------------------------------------------------
(* handleConn.                                                             *)

\* The local variables of handleConn are done with.
Forgotten(cs, e) == [cs EXCEPT ![e[1]].got[e[2]] = Hello, ![e[1]].channel[e[2]] = 0]

\* The pause channel is read once.
Paused(cs, e) == [cs EXCEPT ![e[1]].channel[e[2]] = paused[NodeOf(e)]]

\* What handleConn does with what Receive returned: when the router is paused,
\* or closed, or after an error, the connection is given up.
AfterReceive(n, error) ==
    IF paused[n] # 0 THEN "paused"
    ELSE IF IsClosed(n) \/ error THEN "cleanup"
    ELSE "dispatch"

Receive(e) ==
    /\ At(e) = "receive"
    /\ LET place(error) == AfterReceive(NodeOf(e), error)
       IN \/ HasMsg(e) /\ conns' = Moved(Paused(Received(e), e), e, place(FALSE))
          \/ ReceiveError(e) /\ conns' = Moved(Paused(conns, e), e, place(TRUE))
    /\ UNCHANGED <<transport, nodeVars, pauseVars, events, connections, lmHeldBy, sender,
                   dispatched>>

\* BlockingDispatcher.Dispatch: the processor runs in this goroutine.
Dispatch(e) ==
    /\ At(e) = "dispatch"
    /\ dispatched' = [dispatched EXCEPT ![NodeOf(e)] = Append(@, conns[e[1]].got[e[2]])]
    /\ conns' = Moved(Forgotten(conns, e), e, "receive")
    /\ UNCHANGED <<transport, nodeVars, pauseVars, events, connections, lmHeldBy, sender>>

\* The pause channel is closed: the message is dropped and the connection ends.
\* The router's channel is set to nil, also if it is the one of a later pause.
Wake(e) ==
    /\ At(e) = "paused" /\ conns[e[1]].channel[e[2]] \in unpaused
    /\ paused' = [paused EXCEPT ![NodeOf(e)] = 0]
    /\ forgotten' = forgotten \cup ({paused[NodeOf(e)]} \ {0})
    /\ conns' = Moved(Forgotten(conns, e), e, "cleanup")
    /\ UNCHANGED <<transport, nodeVars, unpaused, events, connections, lmHeldBy,
                   sender, dispatched>>

\* The deferred function: close the connection, wg.Done ...
Cleanup(e) ==
    /\ At(e) = "cleanup" /\ LmFree(Nobody)
    /\ conns' = Moved(Closed(Forgotten(conns, e), {e}), e, "remove")
    /\ UNCHANGED <<transport, nodeVars, pauseVars, events, connections, lmHeldBy, sender,
                   dispatched>>

\* A slip: the last connection is dropped, whichever is to go.
WithoutLast(arr, e) == IF e \in Range(arr) THEN Front(arr) ELSE arr
\* ... and removeConnection: the last connection takes the place of this one.
WithoutEnd(arr, e) ==
    LET i == CHOOSE j \in DOMAIN arr : arr[j] = e
    IN  IF e \in Range(arr) THEN Front([arr EXCEPT ![i] = Last(arr)]) ELSE arr

RemoveConnection(e) ==
    /\ At(e) = "remove"
    /\ connections' = [connections EXCEPT ![NodeOf(e)][NodeOf(Other(e))] = WithoutEnd(@, e)]
    /\ conns' = Moved(conns, e, "gone")
    /\ UNCHANGED <<transport, nodeVars, pauseVars, events, lmHeldBy, sender, dispatched>>

HandleConn(e) ==
    \/ Receive(e) \/ Dispatch(e) \/ Wake(e) \/ Cleanup(e)
    \/ RemoveConnection(e)
Listening(e) ==
    \/ Accept(e) \/ Reset(e) \/ ReceiveServerIdentity(e) \/ Reject(e)
    \/ LaunchIncoming(e)

-----------------------------------------------------------------------------
(* Pause, peers, Stop.                                                     *)

Pause(n) ==
    /\ stop[n] = "no" /\ paused[n] = 0 /\ events > 0
    /\ events' = events - 1
    /\ paused' = [paused EXCEPT ![n] = events]
    /\ UNCHANGED <<transport, nodeVars, unpaused, forgotten, conns, connections, lmHeldBy,
                   sender, dispatched>>

\* A slip: the channel is forgotten but not closed.
NotWoken(n) == paused' = [paused EXCEPT ![n] = 0] /\ UNCHANGED <<unpaused, forgotten>>
Unpaused(n) ==
    /\ unpaused' = IF paused[n] = 0 THEN unpaused ELSE unpaused \cup {paused[n]}
    /\ paused' = [paused EXCEPT ![n] = 0]
    /\ UNCHANGED forgotten

Unpause(n) ==
    /\ paused[n] # 0
    /\ Unpaused(n)
    /\ UNCHANGED <<transport, nodeVars, events, conns, connections, lmHeldBy, sender,
                   dispatched>>

SetValidPeers(n) ==
    /\ events > 0
    /\ events' = events - 1
    /\ \E peers \in PeerSets : validPeers' = [validPeers EXCEPT ![n] = peers]
    /\ UNCHANGED <<transport, listener, stop, pauseVars, conns, connections,
                   lmHeldBy, sender, dispatched>>

\* TCPListener.Stop waits for the end of the loop that accepts.
TCPStop(n) == "closed"
\* LocalListener.Stop does nothing when nobody listens yet.
LocalStop(n) == IF listener[n] = "off" THEN "off" ELSE "closed"

\* Stop: the listener is stopped first.
StopHost(n) ==
    /\ stop[n] = "no"
    /\ stop' = [stop EXCEPT ![n] = "closing"]
    /\ listener' = [listener EXCEPT ![n] = IF transport = "tcp" THEN TCPStop(n)
                                           ELSE LocalStop(n)]
    /\ UNCHANGED <<transport, validPeers, pauseVars, events, conns, connections, lmHeldBy,
                   sender, dispatched>>

\* Unpause, then all connections are closed with the lock held.
StopConnections(n) ==
    /\ stop[n] = "closing" /\ LmFree(Nobody)
    /\ stop' = [stop EXCEPT ![n] = "waiting"]
    /\ Unpaused(n)
    /\ conns' = Closed(conns, UNION {Range(connections[n][m]) : m \in Nodes})
    /\ UNCHANGED <<transport, listener, validPeers, events, connections, lmHeldBy, sender,
                   dispatched>>

\* wg.Wait returns.
StopReturns(n) ==
    /\ stop[n] = "waiting"
    /\ \A e \in Made : NodeOf(e) = n => At(e) \notin Handling
    /\ stop' = [stop EXCEPT ![n] = "stopped"]
    /\ UNCHANGED <<transport, listener, validPeers, pauseVars, events, conns, connections,
                   lmHeldBy, sender, dispatched>>

Stop(n) == StopConnections(n) \/ StopReturns(n)

Next ==
    \/ \E s \in Senders : Sending(s)
    \/ \E e \in Made : Listening(e) \/ HandleConn(e)
    \/ \E n \in Nodes : Listen(n)
    \/ \E n \in Managed : Pause(n) \/ Unpause(n) \/ SetValidPeers(n) \/ StopHost(n)
                          \/ Stop(n)
    \/ \E k \in DOMAIN conns : Break(k)

Spec == Init /\ [][Next]_vars

-----------------------------------------------------------------------------
(* Properties.                                                             *)

\* A message is dispatched at most once, by the server it was sent to, although
\* Send repeats it on a new connection: an error means that the frame was not
\* written in full (router.go:336-355, tcp.go:210-238).
AtMostOnce ==
    \A n \in Nodes :
        /\ IsInjective(dispatched[n])
        /\ \A s \in Senders : Range(Batch[s]) \cap Range(dispatched[n]) # {} => SendsTo[s] = n

\* The messages of one Send that met no error are dispatched in the order of the
\* batch, however many connections there are between the two servers
\* (router.go:282-285).
InBatchOrder(s) ==
    LET got == dispatched[SendsTo[s]]
    IN \A i, j \in DOMAIN got : \A k, l \in DOMAIN Batch[s] :
         got[i] = Batch[s][k] /\ got[j] = Batch[s][l] /\ i < j => k < l
BatchOrder == \A s \in Senders : ~sender[s].retried => InBatchOrder(s)

\* "It can take more than one message at once to be sure that all the messages
\* are sent through the same connection and thus are correctly ordered"
\* (router.go:282-285).
BatchAlwaysOrdered == \A s \in Senders : InBatchOrder(s)

\* When Stop has returned, no handleConn runs any more, so nothing that arrives
\* is dispatched, although connections are accepted and opened while Stop runs
\* (router.go:255-280, 504-529).
QuietAfterStop ==
    \A e \in Made : stop[NodeOf(e)] = "stopped" => At(e) \notin Handling

\* The table of connections holds exactly those that have, or are about to get,
\* a goroutine, each once; removeConnection always finds its own.  A closed
\* router may keep others (router.go:386-406, 504-518).
OutgoingLaunch(e) == \E s \in Senders : sender[s].at = "launch" /\ sender[s].new = e
ConnectionsTracked ==
    \A e \in Made :
        LET arr == connections[NodeOf(e)][NodeOf(Other(e))]
            live == At(e) \in Handling \cup {"launch", "remove"} \/ OutgoingLaunch(e)
        IN  /\ IsInjective(arr)
            /\ live => e \in Range(arr)
            /\ e \in Range(arr) => live \/ IsClosed(NodeOf(e))

\* While Stop waits, no handleConn it waits for is blocked: its connection was
\* closed, and what it pauses on was closed, before the wait began.  The only
\* exception is a pause that a connection of an earlier pause made the router
\* forget (router.go:255-280, 438-451, 520-529).
StopNeverStuck ==
    \A e \in Made :
        stop[NodeOf(e)] = "waiting" =>
            /\ At(e) = "receive" => HasMsg(e) \/ ReceiveError(e)
            /\ At(e) = "paused" => conns[e[1]].channel[e[2]] \in unpaused \cup forgotten

\* "Unpause reverses a previous call to Pause. All paused connections are
\* closed" (router.go:190-191).
PauseReversed == forgotten = {}
=============================================================================
