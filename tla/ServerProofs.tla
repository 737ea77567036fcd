---------------------------- MODULE ServerProofs ----------------------------
(***************************************************************************)
(* Proofs about servers and their clients.  One websocket connection of a  *)
(* server, for any number of requests and values, any channel sizes and    *)
(* whatever the client asks for; the joining and closing of the servers of *)
(* a simulation, for any number of servers, addresses and size of the      *)
(* batches; and the calls of a client, any number of them, of nodes and of *)
(* goroutines.                                                             *)
(*                                                                         *)
(* That a single request is safe needs to know where the request can be    *)
(* (OneRequest).  That nothing is lost follows from the place of every     *)
(* value that a service has said (SaidIsKept).  That everybody has joined  *)
(* before the protocols start needs where each server is on its way        *)
(* (JoinPath), and that the wait groups count at least those on the way    *)
(* (GroupsCount).  That a call's answer is the one it names needs who      *)
(* decodes (Decoding, FirstAnswer); what its errors mean, that no node of  *)
(* its list is counted twice (NodesCount).                                 *)
(***************************************************************************)
EXTENDS Streaming, Simulation, WebSocketClient, FiniteSetTheorems, WellFoundedInduction,
        NaturalsInduction, TLAPS

\* A forwarder that sends has a value to send, and the reader a request to put.
HeldTyped ==
    /\ \A r \in Requests : forwarder[r] = "send" => held[r] \in Value
    /\ wsReader = "put" => inHand \in Requests

TypeInv == TypeOK /\ HeldTyped

-----------------------------------------------------------------------------
(* Sequences.                                                              *)

Has(s, v) == \E i \in 1..Len(s) : s[i] = v

\* The first element and the others.
LEMMA TailFacts ==
    ASSUME NEW S, NEW s \in Seq(S), s # <<>>
    PROVE  /\ Head(s) \in S /\ Tail(s) \in Seq(S)
           /\ Len(s) \in Nat \ {0} /\ Len(Tail(s)) = Len(s) - 1
           /\ \A v : Has(s, v) => v = Head(s) \/ Has(Tail(s), v)
           /\ \A i \in 1..Len(Tail(s)) : i + 1 \in 1..Len(s) /\ Tail(s)[i] = s[i + 1]
  <1>1. Len(s) \in Nat \ {0} /\ Len(Tail(s)) = Len(s) - 1 /\ Head(s) = s[1]
    OBVIOUS
  <1>2. \A i \in 1..Len(Tail(s)) : i + 1 \in 1..Len(s) /\ Tail(s)[i] = s[i + 1]
    BY <1>1
  <1>3. ASSUME NEW v, NEW i \in 1..Len(s), s[i] = v
        PROVE  v = Head(s) \/ Has(Tail(s), v)
    <2>1. CASE i = 1
      BY <1>1, <1>3, <2>1
    <2>2. CASE i # 1
      <3>1. i - 1 \in 1..Len(Tail(s))
        BY <1>1, <2>2
      <3>2. Tail(s)[i - 1] = v
        BY <1>3, <2>2, <3>1
      <3> QED
        BY <3>1, <3>2 DEF Has
    <2> QED
      BY <2>1, <2>2
  <1>4. Head(s) \in S /\ Tail(s) \in Seq(S)
    OBVIOUS
  <1> QED
    BY <1>1, <1>2, <1>3, <1>4 DEF Has

\* An element is appended.
LEMMA AppendFacts ==
    ASSUME NEW S, NEW s \in Seq(S), NEW x \in S
    PROVE  /\ Append(s, x) \in Seq(S) /\ Len(s) \in Nat
           /\ Len(Append(s, x)) = Len(s) + 1
           /\ Has(Append(s, x), x)
           /\ \A v : Has(s, v) => Has(Append(s, x), v)
           /\ \A i \in 1..Len(s) : Append(s, x)[i] = s[i]
           /\ Append(s, x)[Len(s) + 1] = x
  <1>1. /\ Append(s, x) \in Seq(S) /\ Len(s) \in Nat
        /\ Len(Append(s, x)) = Len(s) + 1
    OBVIOUS
  <1>2. \A i \in 1..Len(s) : Append(s, x)[i] = s[i]
    OBVIOUS
  <1>3. Append(s, x)[Len(s) + 1] = x
    OBVIOUS
  <1>4. 1..Len(s) \subseteq 1..(Len(s) + 1) /\ Len(s) + 1 \in 1..(Len(s) + 1)
    BY <1>1
  <1> QED
    BY <1>1, <1>2, <1>3, <1>4 DEF Has

\* A sequence of at most one element.
LEMMA SingleFacts ==
    ASSUME NEW S, NEW s \in Seq(S), s # <<>>, Len(s) <= 1
    PROVE  Len(s) = 1 /\ Tail(s) = <<>>
  <1>0. \A t \in Seq(S) : Len(t) = 0 <=> t = <<>>
    BY SMTT(30)
  <1>1. Len(s) = 1
    <2>1. Len(s) \in Nat /\ Len(s) # 0
      BY <1>0
    <2> QED
      BY <2>1
  <1>2. Tail(s) \in Seq(S) /\ Len(Tail(s)) = 0
    BY <1>1, TailFacts
  <1> QED
    BY <1>0, <1>1, <1>2

\* What is in one of two sequences is in their concatenation.
LEMMA ConcatFacts ==
    ASSUME NEW S, NEW s \in Seq(S), NEW t \in Seq(S)
    PROVE  /\ s \o t \in Seq(S)
           /\ \A v : Has(s, v) \/ Has(t, v) => Has(s \o t, v)
  <1>1. s \o t \in Seq(S) /\ Len(s) \in Nat /\ Len(t) \in Nat /\ Len(s \o t) = Len(s) + Len(t)
    OBVIOUS
  <1>2. ASSUME NEW v, NEW i \in 1..Len(s), s[i] = v
        PROVE  Has(s \o t, v)
    <2>1. i \in 1..Len(s \o t) /\ (s \o t)[i] = v
      BY <1>1, <1>2
    <2> QED
      BY <2>1 DEF Has
  <1>3. ASSUME NEW v, NEW i \in 1..Len(t), t[i] = v
        PROVE  Has(s \o t, v)
    <2>1. i + Len(s) \in 1..Len(s \o t) /\ (s \o t)[i + Len(s)] = v
      BY <1>1, <1>3
    <2> QED
      BY <2>1 DEF Has
  <1> QED
    BY <1>1, <1>2, <1>3 DEF Has

-----------------------------------------------------------------------------
(* Types.                                                                  *)

LEMMA ValuesAreReplies == Value \subseteq Reply /\ None \notin Value
  BY StreamingAssumption DEF Value, Reply, None, Requests

LEMMA InitTypes == Init => TypeInv
  <1> SUFFICES ASSUME Init PROVE TypeInv
    OBVIOUS
  <1> USE StreamingAssumption DEF Init
  <1>1. 0 \in 0..MaxRequests /\ 0 \in 0..Values
    OBVIOUS
  <1>2. /\ toServer \in Seq(Requests) /\ toClient \in Seq(Reply) /\ received \in Seq(Reply)
        /\ clientInputs \in Seq(Requests) /\ Len(clientInputs) <= InputsLength
        /\ outChan \in Seq(Value) /\ Len(outChan) <= OutLength
    OBVIOUS
  <1>3. held \in [Requests -> Value \cup {None}] /\ produced \in [Requests -> 0..Values]
    BY <1>1
  <1>4. HeldTyped
    BY DEF HeldTyped
  <1>5. TypeOK
    BY <1>1, <1>2, <1>3 DEF TypeOK
  <1> QED
    BY <1>4, <1>5 DEF TypeInv

LEMMA ClientTypes ==
    ASSUME TypeInv, Stream \/ ReadMsg \/ CloseConn
    PROVE  TypeInv'
  <1>1. CASE Stream
    <2>1. requested' \in 0..MaxRequests /\ requested + 1 \in Requests
      BY <1>1, StreamingAssumption DEF Stream, TypeInv, TypeOK, Requests
    <2>2. toServer' \in Seq(Requests)
      BY <1>1, <2>1, AppendFacts DEF Stream, TypeInv, TypeOK
    <2> QED
      BY <1>1, <2>1, <2>2 DEF Stream, TypeInv, TypeOK, HeldTyped, handler, processor, services
  <1>2. CASE ReadMsg
    <2>1. Head(toClient) \in Reply /\ toClient' \in Seq(Reply)
      BY <1>2, TailFacts DEF ReadMsg, TypeInv, TypeOK
    <2>2. received' \in Seq(Reply)
      BY <1>2, <2>1, AppendFacts DEF ReadMsg, TypeInv, TypeOK
    <2> QED
      BY <1>2, <2>1, <2>2 DEF ReadMsg, TypeInv, TypeOK, HeldTyped, handler, processor, services
  <1>3. CASE CloseConn
    <2>1. clientOpen' \in BOOLEAN
      BY <1>3 DEF CloseConn
    <2>2. UNCHANGED <<scenario, requested, toServer, toClient, received, handler, processor,
                      services, crashed>>
      BY <1>3 DEF CloseConn
    <2> QED
      BY <2>1, <2>2 DEF TypeInv, TypeOK, HeldTyped, handler, processor, services
  <1> QED
    BY <1>1, <1>2, <1>3

LEMMA WriteTypes ==
    ASSUME TypeInv, NEW v \in Reply, Write(v)
    PROVE  toClient' \in Seq(Reply) /\ loop' \in {"read", "stream", "ended"}
  <1>1. Append(toClient, v) \in Seq(Reply)
    BY AppendFacts DEF TypeInv, TypeOK
  <1> QED
    BY <1>1 DEF Write, Ends, TypeInv, TypeOK

LEMMA HandlerTypes ==
    ASSUME TypeInv, Handler
    PROVE  TypeInv'
  <1> USE DEF TypeInv, HeldTyped, client, processor, services
  <1>1. toServer # <<>> => Head(toServer) \in Requests /\ Tail(toServer) \in Seq(Requests)
    BY TailFacts DEF TypeOK
  <1>2. CASE PlainRequest
    <2>1. [of |-> Head(toServer), nr |-> 0] \in Reply
      BY <1>1, <1>2 DEF PlainRequest, Reply
    <2>2. toClient' \in Seq(Reply) /\ loop' \in {"read", "stream", "ended"}
      BY <1>2, <2>1, WriteTypes DEF PlainRequest, Ends, TypeOK
    <2> QED
      BY <1>1, <1>2, <2>2 DEF PlainRequest, TypeOK
  <1>3. CASE StreamRequest
    <2>1. clientInputs' \in Seq(Requests) /\ Len(clientInputs') <= InputsLength
      <3>1. clientInputs' = <<Head(toServer)>> /\ Head(toServer) \in Requests
        BY <1>1, <1>3 DEF StreamRequest
      <3>2. clientInputs' \in Seq(Requests) /\ Len(clientInputs') = 1
        BY <3>1
      <3> QED
        BY <3>2, StreamingAssumption
    <2> QED
      BY <1>1, <1>3, <2>1 DEF StreamRequest, TypeOK
  <1>4. CASE LoopReadError
    BY <1>4 DEF LoopReadError, Ends, TypeOK
  <1>5. CASE LoopClosing
    BY <1>5 DEF LoopClosing, Ends, TypeOK
  <1>6. CASE LoopWrite
    <2>1. /\ Head(outChan) \in Value /\ Tail(outChan) \in Seq(Value)
          /\ Len(outChan) \in Nat /\ Len(Tail(outChan)) = Len(outChan) - 1
      BY <1>6, TailFacts DEF LoopWrite, TypeOK
    <2>2. toClient' \in Seq(Reply) /\ loop' \in {"read", "stream", "ended"}
      BY <1>6, <2>1, WriteTypes, ValuesAreReplies DEF LoopWrite
    <2>3. outChan' \in Seq(Value) /\ Len(outChan') <= OutLength
      BY <1>6, <2>1, StreamingAssumption DEF LoopWrite, TypeOK
    <2>4. inputsClosed' \in BOOLEAN
      BY <1>6 DEF LoopWrite
    <2> QED
      BY <1>6, <2>2, <2>3, <2>4 DEF LoopWrite, TypeOK
  <1>7. CASE LoopOutClosed
    BY <1>7 DEF LoopOutClosed, Ends, TypeOK
  <1> QED
    BY <1>2, <1>3, <1>4, <1>5, <1>6, <1>7 DEF Handler

LEMMA ReaderTypes ==
    ASSUME TypeInv, Reader
    PROVE  TypeInv'
  <1> USE DEF TypeInv, HeldTyped, client, processor, services
  <1>1. CASE ReaderRead
    <2>1. Head(toServer) \in Requests /\ Tail(toServer) \in Seq(Requests)
      BY <1>1, TailFacts DEF ReaderRead, TypeOK
    <2>2. Head(toServer) \in 0..MaxRequests
      BY <2>1, StreamingAssumption DEF Requests
    <2> QED
      BY <1>1, <2>1, <2>2 DEF ReaderRead, TypeOK
  <1>2. CASE ReaderPut /\ inputsClosed
    BY <1>2 DEF ReaderPut, TypeOK
  <1>3. CASE ReaderPut /\ ~inputsClosed /\ inHand \in Requests
    <2>1. /\ Append(clientInputs, inHand) \in Seq(Requests) /\ Len(clientInputs) \in Nat
          /\ Len(Append(clientInputs, inHand)) = Len(clientInputs) + 1
      BY <1>3, AppendFacts DEF TypeOK
    <2>2. Len(clientInputs') <= InputsLength /\ clientInputs' \in Seq(Requests)
      BY <1>3, <2>1, StreamingAssumption DEF ReaderPut
    <2> QED
      BY <1>3, <2>2 DEF ReaderPut, TypeOK
  <1>4. CASE ReaderError
    BY <1>4 DEF ReaderError, TypeOK
  <1>5. ReaderPut => inHand \in Requests
    BY DEF ReaderPut
  <1> HIDE DEF TypeInv
  <1> QED
    BY <1>1, <1>2, <1>3, <1>4, <1>5 DEF Reader

\* Closing outChan, once or again.
LEMMA CloseTypes ==
    ASSUME TypeInv, CloseOut \/ OnlyOnce
    PROVE  /\ outClosed' \in BOOLEAN
           /\ crashed' \in {"no", "inputsSend", "outSend", "outClose"}
           /\ OnlyOnce => closeOutOnce' \in BOOLEAN
  BY DEF TypeInv, TypeOK, CloseOut, OnlyOnce

LEMMA DispatcherTypes ==
    ASSUME TypeInv, Dispatcher
    PROVE  TypeInv'
  <1>1. CASE Dispatch
    <2>1. /\ clientInputs' \in Seq(Requests) /\ Len(clientInputs') <= InputsLength
          /\ Head(clientInputs) \in Requests
      <3>1. /\ Head(clientInputs) \in Requests /\ Tail(clientInputs) \in Seq(Requests)
            /\ Len(clientInputs) \in Nat /\ Len(Tail(clientInputs)) = Len(clientInputs) - 1
        BY <1>1, TailFacts DEF Dispatch, TypeInv, TypeOK
      <3> QED
        BY <1>1, <3>1, StreamingAssumption DEF Dispatch, TypeInv, TypeOK
    <2>2. /\ outClosed' \in BOOLEAN /\ dispatcher' \in {"none", "range", "gone"}
          /\ crashed' \in {"no", "inputsSend", "outSend", "outClose"}
      <3>1. CASE CloseOut /\ dispatcher' = "gone"
        BY <3>1, CloseTypes
      <3>2. CASE UNCHANGED <<dispatcher, outClosed, crashed>>
        BY <3>2 DEF TypeInv, TypeOK
      <3> QED
        BY <1>1, <3>1, <3>2 DEF Dispatch
    <2>3. /\ service' \in [Requests -> {"none", "run", "gone"}]
          /\ stopper' \in [Requests -> {"none", "wait", "gone"}]
          /\ forwarder' \in [Requests -> {"none", "recv", "send", "gone"}]
          /\ \A r \in Requests : forwarder'[r] = "send" => forwarder[r] = "send"
      BY <1>1, <2>1 DEF Dispatch, TypeInv, TypeOK
    <2>4. HeldTyped'
      BY <1>1, <2>3 DEF Dispatch, HeldTyped, TypeInv, client
    <2>5. TypeOK'
      BY <1>1, <2>1, <2>2, <2>3 DEF Dispatch, TypeInv, TypeOK, client
    <2> QED
      BY <2>4, <2>5 DEF TypeInv
  <1>2. CASE DispatchEnd
    BY <1>2 DEF DispatchEnd, StopAll, TypeInv, TypeOK, HeldTyped, client, handler, services
  <1> QED
    BY <1>1, <1>2 DEF Dispatcher

LEMMA ForwarderTypes ==
    ASSUME TypeInv, NEW r \in Requests, Forwarder(r)
    PROVE  TypeInv'
  <1>1. CASE ForwardSend(r) /\ outClosed
    BY <1>1 DEF ForwardSend, TypeInv, TypeOK, HeldTyped, client, handler, services
  <1>2. CASE ForwardSend(r) /\ ~outClosed
    <2>1. held[r] \in Value
      BY <1>2 DEF ForwardSend, TypeInv, HeldTyped
    <2>2. outChan' \in Seq(Value) /\ Len(outChan') <= OutLength
      <3>1. /\ Append(outChan, held[r]) \in Seq(Value) /\ Len(outChan) \in Nat
            /\ Len(Append(outChan, held[r])) = Len(outChan) + 1
        BY <2>1, AppendFacts DEF TypeInv, TypeOK
      <3> QED
        BY <1>2, <3>1, StreamingAssumption DEF ForwardSend, SendOut
    <2>3. /\ forwarder' \in [Requests -> {"none", "recv", "send", "gone"}]
          /\ held' \in [Requests -> Value \cup {None}]
          /\ \A q \in Requests :
                forwarder'[q] = "send" => forwarder[q] = "send" /\ held'[q] = held[q]
      BY <1>2 DEF ForwardSend, TypeInv, TypeOK
    <2>4. HeldTyped'
      BY <1>2, <2>3 DEF ForwardSend, HeldTyped, TypeInv, handler
    <2>5. TypeOK'
      BY <1>2, <2>2, <2>3 DEF ForwardSend, TypeInv, TypeOK, client, handler, services
    <2> QED
      BY <2>4, <2>5 DEF TypeInv
  <1>3. CASE ForwardEnd(r)
    <2>1. /\ outClosed' \in BOOLEAN /\ closeOutOnce' \in BOOLEAN
          /\ crashed' \in {"no", "inputsSend", "outSend", "outClose"}
      BY <1>3, CloseTypes DEF ForwardEnd
    <2>2. /\ forwarder' \in [Requests -> {"none", "recv", "send", "gone"}]
          /\ \A q \in Requests : forwarder'[q] = "send" => forwarder[q] = "send"
      BY <1>3 DEF ForwardEnd, TypeInv, TypeOK
    <2>3. HeldTyped'
      BY <1>3, <2>2 DEF ForwardEnd, HeldTyped, TypeInv, handler
    <2>4. TypeOK'
      BY <1>3, <2>1, <2>2 DEF ForwardEnd, TypeInv, TypeOK, client, handler, services
    <2> QED
      BY <2>3, <2>4 DEF TypeInv
  <1> QED
    BY <1>1, <1>2, <1>3 DEF Forwarder

LEMMA ServiceTypes ==
    ASSUME TypeInv, NEW r \in Requests, StopService(r) \/ ServiceEnd(r)
    PROVE  TypeInv'
  <1>1. ChanOf[r] \in Chans
    BY DEF Chans
  <1>2. CASE StopService(r)
    <2>1. /\ stopChan' \in [Chans -> BOOLEAN]
          /\ stopper' \in [Requests -> {"none", "wait", "gone"}]
      BY <1>1, <1>2 DEF StopService, TypeInv, TypeOK
    <2> QED
      BY <1>2, <2>1 DEF StopService, TypeInv, TypeOK, HeldTyped, client, handler
  <1>3. CASE ServiceEnd(r)
    <2>1. /\ retClosed' \in [Chans -> BOOLEAN]
          /\ service' \in [Requests -> {"none", "run", "gone"}]
      BY <1>1, <1>3 DEF ServiceEnd, TypeInv, TypeOK
    <2> QED
      BY <1>3, <2>1 DEF ServiceEnd, TypeInv, TypeOK, HeldTyped, client, handler, processor
  <1> QED
    BY <1>2, <1>3

\* The value that the service says next.
LEMMA NextValue ==
    ASSUME TypeInv, NEW r \in Requests, produced[r] < Values
    PROVE  /\ [of |-> r, nr |-> produced[r] + 1] \in Value
           /\ produced[r] + 1 \in 0..Values /\ produced[r] \in Nat
  <1>1. produced[r] \in 0..Values
    BY DEF TypeInv, TypeOK
  <1> QED
    BY <1>1, StreamingAssumption DEF Value

LEMMA SayTypes ==
    ASSUME TypeInv, NEW r \in Requests, NEW f \in Requests, Say(r, f)
    PROVE  TypeInv'
  <1> DEFINE v == [of |-> r, nr |-> produced[r] + 1]
  <1>1. v \in Value /\ produced[r] + 1 \in 0..Values
    BY NextValue DEF Say
  <1>2. produced' \in [Requests -> 0..Values]
    BY <1>1 DEF Say, TypeInv, TypeOK
  <1>3. CASE /\ held' = [held EXCEPT ![f] = v]
             /\ forwarder' = [forwarder EXCEPT ![f] = "send"]
             /\ UNCHANGED <<outClosed, closeOutOnce, crashed>>
    <2>1. /\ held' \in [Requests -> Value \cup {None}]
          /\ forwarder' \in [Requests -> {"none", "recv", "send", "gone"}]
      BY <1>1, <1>3 DEF TypeInv, TypeOK
    <2>2. \A q \in Requests : forwarder'[q] = "send" => held'[q] \in Value
      <3>1. held'[f] = v
        BY <1>3 DEF TypeInv, TypeOK
      <3>2. ASSUME NEW q \in Requests, q # f
            PROVE  held'[q] = held[q] /\ forwarder'[q] = forwarder[q]
        BY <1>3, <3>2 DEF TypeInv, TypeOK
      <3> HIDE DEF v
      <3> QED
        BY <1>1, <3>1, <3>2 DEF TypeInv, HeldTyped
    <2>3. HeldTyped'
      BY <2>2 DEF Say, HeldTyped, TypeInv, handler
    <2>4. TypeOK'
      BY <1>2, <1>3, <2>1 DEF Say, TypeInv, TypeOK, client, handler
    <2> QED
      BY <2>3, <2>4 DEF TypeInv
  <1>4. CASE /\ forwarder' = [forwarder EXCEPT ![f] = "gone"]
             /\ OnlyOnce
             /\ UNCHANGED held
    <2>1. /\ outClosed' \in BOOLEAN /\ closeOutOnce' \in BOOLEAN
          /\ crashed' \in {"no", "inputsSend", "outSend", "outClose"}
      BY <1>4, CloseTypes
    <2>2. /\ forwarder' \in [Requests -> {"none", "recv", "send", "gone"}]
          /\ \A q \in Requests : forwarder'[q] = "send" => forwarder[q] = "send"
      BY <1>4 DEF TypeInv, TypeOK
    <2>3. HeldTyped'
      BY <1>4, <2>2 DEF Say, HeldTyped, TypeInv, handler
    <2>4. TypeOK'
      BY <1>2, <1>4, <2>1, <2>2 DEF Say, TypeInv, TypeOK, client, handler
    <2> QED
      BY <2>3, <2>4 DEF TypeInv
  <1> QED
    BY <1>3, <1>4 DEF Say

LEMMA NextTypes ==
    ASSUME TypeInv, [Next]_vars
    PROVE  TypeInv'
  <1>1. CASE UNCHANGED vars
    BY <1>1 DEF vars, client, handler, processor, services, TypeInv, TypeOK, HeldTyped
  <1>2. CASE Next
    BY <1>2, ClientTypes, HandlerTypes, ReaderTypes, DispatcherTypes, ForwarderTypes,
       ServiceTypes, SayTypes DEF Next
  <1> QED
    BY <1>1, <1>2

\* The types of the connection's goroutines and channels (websocket.go:296-372,
\* processor.go:454-560).
THEOREM StreamTypeCorrect == Spec => []TypeOK
  <1>1. TypeInv => TypeOK
    BY DEF TypeInv
  <1> QED
    BY <1>1, InitTypes, NextTypes, PTL DEF Spec

-----------------------------------------------------------------------------
(* Requests stay in the order in which they were sent.                     *)

Increasing(s) == \A i, j \in 1..Len(s) : i < j => s[i] < s[j]
Below(r, s) == \A i \in 1..Len(s) : r < s[i]

\* The request was sent before those that are still on the wire.
Earlier(r) == r <= requested /\ Below(r, toServer)
\* ... and before the one that the reader has in hand.
BeforeInHand(r) == wsReader = "put" => r < inHand

\* The wire, the reader, clientInputs and the forwarders have the requests in
\* this order, the latest first.
Fresh ==
    /\ Increasing(toServer) /\ \A i \in 1..Len(toServer) : toServer[i] <= requested
    /\ wsReader = "put" => Earlier(inHand)
    /\ Increasing(clientInputs)
    /\ \A i \in 1..Len(clientInputs) : Earlier(clientInputs[i]) /\ BeforeInHand(clientInputs[i])
    /\ \A r \in Requests : forwarder[r] # "none" =>
          Earlier(r) /\ BeforeInHand(r) /\ Below(r, clientInputs)

\* The first element of an increasing sequence is below the others.
LEMMA IncreasingTail ==
    ASSUME NEW s \in Seq(Requests), s # <<>>, Increasing(s)
    PROVE  /\ Increasing(Tail(s)) /\ Below(Head(s), Tail(s))
           /\ \A r : Below(r, s) => r < Head(s) /\ Below(r, Tail(s))
  <1>1. /\ Len(s) \in Nat \ {0} /\ Len(Tail(s)) = Len(s) - 1
        /\ \A i \in 1..Len(Tail(s)) : i + 1 \in 1..Len(s) /\ Tail(s)[i] = s[i + 1]
    BY TailFacts
  <1>2. Head(s) = s[1] /\ 1 \in 1..Len(s)
    BY <1>1
  <1>3. Increasing(Tail(s))
    <2> SUFFICES ASSUME NEW i \in 1..Len(Tail(s)), NEW j \in 1..Len(Tail(s)), i < j
                 PROVE  Tail(s)[i] < Tail(s)[j]
      BY DEF Increasing
    <2>1. i + 1 < j + 1
      BY <1>1
    <2> QED
      BY <1>1, <2>1 DEF Increasing
  <1>4. Below(Head(s), Tail(s))
    <2> SUFFICES ASSUME NEW i \in 1..Len(Tail(s)) PROVE s[1] < Tail(s)[i]
      BY <1>2 DEF Below
    <2>1. 1 < i + 1
      BY <1>1
    <2> QED
      BY <1>1, <1>2, <2>1 DEF Increasing
  <1> QED
    BY <1>1, <1>2, <1>3, <1>4 DEF Below

\* A greater element is appended.
LEMMA IncreasingAppend ==
    ASSUME NEW s \in Seq(Requests), NEW x \in Requests
    PROVE  /\ \A r : Below(r, s) /\ r < x => Below(r, Append(s, x))
           /\ Increasing(s) /\ (\A i \in 1..Len(s) : s[i] < x) => Increasing(Append(s, x))
  <1>1. /\ Len(s) \in Nat /\ Len(Append(s, x)) = Len(s) + 1
        /\ \A i \in 1..Len(s) : Append(s, x)[i] = s[i]
        /\ Append(s, x)[Len(s) + 1] = x
    BY AppendFacts
  <1>2. \A i \in 1..(Len(s) + 1) : i \in 1..Len(s) \/ i = Len(s) + 1
    BY <1>1
  <1>3. ASSUME NEW r, Below(r, s), r < x PROVE Below(r, Append(s, x))
    BY <1>1, <1>2, <1>3 DEF Below
  <1>4. ASSUME Increasing(s), \A i \in 1..Len(s) : s[i] < x
        PROVE  Increasing(Append(s, x))
    <2> SUFFICES ASSUME NEW i \in 1..(Len(s) + 1), NEW j \in 1..(Len(s) + 1), i < j
                 PROVE  Append(s, x)[i] < Append(s, x)[j]
      BY <1>1 DEF Increasing
    <2>1. i \in 1..Len(s)
      BY <1>1
    <2> QED
      BY <1>1, <1>2, <1>4, <2>1 DEF Increasing
  <1> QED
    BY <1>3, <1>4

\* Requests are numbers.
LEMMA Elements ==
    ASSUME TypeInv
    PROVE  /\ Requests \subseteq Int /\ inHand \in Int /\ requested \in Int
           /\ \A i \in 1..Len(toServer) : toServer[i] \in Int /\ toServer[i] \in Requests
           /\ \A i \in 1..Len(clientInputs) :
                 clientInputs[i] \in Int /\ clientInputs[i] \in Requests
  <1>1. Requests \subseteq Int /\ inHand \in Int /\ requested \in Int
    BY StreamingAssumption DEF TypeInv, TypeOK, Requests
  <1>2. /\ \A i \in 1..Len(toServer) : toServer[i] \in Requests
        /\ \A i \in 1..Len(clientInputs) : clientInputs[i] \in Requests
    BY DEF TypeInv, TypeOK
  <1> QED
    BY <1>1, <1>2

LEMMA InitFresh == Init => Fresh
  BY DEF Init, Fresh, Increasing

LEMMA ClientFresh ==
    ASSUME TypeInv, Fresh, Stream \/ ReadMsg \/ CloseConn
    PROVE  Fresh'
  <1>1. UNCHANGED <<wsReader, inHand, clientInputs, forwarder>>
    BY DEF Stream, ReadMsg, CloseConn, handler, processor
  <1>2. CASE UNCHANGED <<toServer, requested>>
    BY <1>1, <1>2 DEF Fresh, Increasing, Below, Earlier, BeforeInHand
  <1>3. CASE Stream
    <2>1. requested \in Nat /\ requested' = requested + 1 /\ requested' \in Requests
      BY <1>3, StreamingAssumption DEF Stream, TypeInv, TypeOK, Requests
    <2>2. \A r \in Int : Earlier(r) => Earlier(r)'
      BY <1>3, <2>1, IncreasingAppend DEF Stream, Earlier, TypeInv, TypeOK
    <2>3. Increasing(toServer')
      <3>1. \A i \in 1..Len(toServer) : toServer[i] \in Int /\ toServer[i] <= requested
        BY Elements DEF Fresh
      <3> QED
        BY <1>3, <2>1, <3>1, IncreasingAppend DEF Stream, Fresh, TypeInv, TypeOK
    <2>4. \A i \in 1..Len(toServer') : toServer'[i] <= requested'
      <3>1. /\ Len(toServer) \in Nat /\ Len(toServer') = Len(toServer) + 1
            /\ \A i \in 1..Len(toServer) : toServer'[i] = toServer[i]
            /\ toServer'[Len(toServer) + 1] = requested'
        BY <1>3, <2>1, AppendFacts DEF Stream, TypeInv, TypeOK
      <3>2. \A i \in 1..Len(toServer) : toServer[i] \in Int /\ toServer[i] <= requested
        BY Elements DEF Fresh
      <3> QED
        BY <2>1, <3>1, <3>2
    <2>5. /\ \A i \in 1..Len(clientInputs) : clientInputs[i] \in Int
          /\ inHand \in Int /\ Requests \subseteq Int
      BY Elements
    <2> QED
      BY <1>1, <2>2, <2>3, <2>4, <2>5 DEF Fresh, Increasing, Below, BeforeInHand
  <1> QED
    BY <1>2, <1>3 DEF ReadMsg, CloseConn

\* A request leaves the wire.
LEMMA WireFresh ==
    ASSUME TypeInv, Fresh, toServer # <<>>, toServer' = Tail(toServer), requested' = requested
    PROVE  /\ Increasing(toServer') /\ \A i \in 1..Len(toServer') : toServer'[i] <= requested'
           /\ \A r : Earlier(r) => Earlier(r)' /\ r < Head(toServer)
           /\ Head(toServer) <= requested' /\ Below(Head(toServer), toServer')
           /\ Head(toServer) \in Requests
  <1>1. /\ Increasing(toServer') /\ Below(Head(toServer), toServer')
        /\ \A r : Below(r, toServer) => r < Head(toServer) /\ Below(r, toServer')
    BY IncreasingTail DEF Fresh, TypeInv, TypeOK
  <1>2. /\ \A i \in 1..Len(toServer') : i + 1 \in 1..Len(toServer) /\ toServer'[i] = toServer[i + 1]
        /\ Head(toServer) \in Requests /\ Len(toServer) \in Nat \ {0}
    BY TailFacts DEF TypeInv, TypeOK
  <1>3. \A i \in 1..Len(toServer') : toServer'[i] <= requested'
    BY <1>2 DEF Fresh
  <1>4. Head(toServer) <= requested
    BY <1>2 DEF Fresh, TypeInv, TypeOK
  <1> QED
    BY <1>1, <1>2, <1>3, <1>4 DEF Earlier

LEMMA HandlerFresh ==
    ASSUME TypeInv, Fresh, Handler
    PROVE  Fresh'
  <1>1. CASE PlainRequest
    <2>1. /\ UNCHANGED <<wsReader, inHand, clientInputs, forwarder, requested>>
          /\ toServer # <<>> /\ toServer' = Tail(toServer)
      BY <1>1 DEF PlainRequest, processor
    <2> QED
      BY <2>1, WireFresh DEF Fresh, Increasing, Below, BeforeInHand
  <1>2. CASE StreamRequest
    <2>1. /\ UNCHANGED <<inHand, forwarder, requested>> /\ wsReader' = "read"
          /\ toServer # <<>> /\ toServer' = Tail(toServer)
      BY <1>2 DEF StreamRequest
    <2>2. /\ Len(clientInputs') = 1 /\ clientInputs'[1] = Head(toServer)
      BY <1>2 DEF StreamRequest
    <2>3. /\ \A i \in 1..Len(clientInputs') : clientInputs'[i] = Head(toServer)
          /\ Increasing(clientInputs')
      BY <2>2 DEF Increasing
    <2>4. \A r \in Requests : forwarder[r] # "none" => r < Head(toServer) /\ Earlier(r)'
      BY <2>1, WireFresh DEF Fresh
    <2>5. /\ Head(toServer) <= requested' /\ Below(Head(toServer), toServer')
          /\ Increasing(toServer')
          /\ \A i \in 1..Len(toServer') : toServer'[i] <= requested'
      BY <2>1, WireFresh
    <2> QED
      BY <2>1, <2>3, <2>4, <2>5 DEF Fresh, Below, BeforeInHand, Earlier
  <1>3. CASE LoopReadError \/ LoopClosing \/ LoopWrite \/ LoopOutClosed
    <2>1. UNCHANGED <<wsReader, inHand, clientInputs, forwarder, requested, toServer>>
      BY <1>3 DEF LoopReadError, LoopClosing, LoopWrite, LoopOutClosed, client, processor
    <2> QED
      BY <2>1 DEF Fresh, Increasing, Below, Earlier, BeforeInHand
  <1> QED
    BY <1>1, <1>2, <1>3 DEF Handler

LEMMA ReaderFresh ==
    ASSUME TypeInv, Fresh, Reader
    PROVE  Fresh'
  <1>1. CASE ReaderRead
    <2>1. /\ UNCHANGED <<clientInputs, forwarder, requested>> /\ wsReader = "read"
          /\ wsReader' = "put" /\ inHand' = Head(toServer)
          /\ toServer # <<>> /\ toServer' = Tail(toServer)
      BY <1>1 DEF ReaderRead, processor
    <2>2. \A r : Earlier(r) => Earlier(r)' /\ BeforeInHand(r)'
      BY <2>1, WireFresh DEF BeforeInHand
    <2>3. /\ inHand' <= requested' /\ Below(inHand', toServer') /\ Increasing(toServer')
          /\ \A i \in 1..Len(toServer') : toServer'[i] <= requested'
      BY <2>1, WireFresh
    <2> QED
      BY <2>1, <2>2, <2>3 DEF Fresh, Increasing, Below, Earlier
  <1>2. CASE ReaderPut /\ ~inputsClosed
    <2>1. /\ UNCHANGED <<forwarder, requested, toServer, inHand>>
          /\ wsReader = "put" /\ wsReader' = "read"
          /\ clientInputs' = Append(clientInputs, inHand) /\ inHand \in Requests
      BY <1>2 DEF ReaderPut, client, processor, TypeInv, HeldTyped
    <2>2. /\ Len(clientInputs) \in Nat /\ Len(clientInputs') = Len(clientInputs) + 1
          /\ \A i \in 1..Len(clientInputs) : clientInputs'[i] = clientInputs[i]
          /\ clientInputs'[Len(clientInputs) + 1] = inHand
      BY <2>1, AppendFacts DEF TypeInv, TypeOK
    <2>3. \A i \in 1..Len(clientInputs) : clientInputs[i] < inHand
      BY <2>1 DEF Fresh, BeforeInHand
    <2>4. Increasing(clientInputs')
      BY <2>1, <2>3, IncreasingAppend DEF Fresh, TypeInv, TypeOK
    <2>5. \A i \in 1..Len(clientInputs') : i \in 1..Len(clientInputs) \/ i = Len(clientInputs) + 1
      BY <2>2
    <2>6. \A i \in 1..Len(clientInputs') : Earlier(clientInputs'[i])
      BY <2>1, <2>2, <2>5 DEF Fresh
    <2>7. \A r \in Requests : forwarder[r] # "none" => Earlier(r) /\ Below(r, clientInputs')
      BY <2>1, IncreasingAppend DEF Fresh, BeforeInHand, TypeInv, TypeOK
    <2> QED
      BY <2>1, <2>4, <2>6, <2>7 DEF Fresh, Increasing, Below, Earlier, BeforeInHand
  <1>3. CASE ReaderError \/ (ReaderPut /\ inputsClosed)
    <2>1. /\ UNCHANGED <<clientInputs, forwarder, requested, toServer, inHand>>
          /\ wsReader' = "put" => wsReader = "put"
      BY <1>3 DEF ReaderError, ReaderPut, client, processor
    <2> QED
      BY <2>1 DEF Fresh, Increasing, Below, Earlier, BeforeInHand
  <1> QED
    BY <1>1, <1>2, <1>3 DEF Reader

\* The dispatcher takes a request for which nobody forwards yet.
LEMMA DispatchFacts ==
    ASSUME TypeInv, Fresh, Dispatch
    PROVE  /\ Head(clientInputs) \in Requests /\ forwarder[Head(clientInputs)] = "none"
           /\ Earlier(Head(clientInputs)) /\ BeforeInHand(Head(clientInputs))
           /\ Increasing(Tail(clientInputs)) /\ Below(Head(clientInputs), Tail(clientInputs))
           /\ \A i \in 1..Len(Tail(clientInputs)) :
                 Earlier(Tail(clientInputs)[i]) /\ BeforeInHand(Tail(clientInputs)[i])
           /\ \A r \in Requests : forwarder[r] # "none" => Below(r, Tail(clientInputs))
  <1> DEFINE h == Head(clientInputs)
  <1>1. /\ clientInputs # <<>> /\ h \in Requests
        /\ \A i \in 1..Len(Tail(clientInputs)) :
              i + 1 \in 1..Len(clientInputs) /\ Tail(clientInputs)[i] = clientInputs[i + 1]
        /\ Len(clientInputs) \in Nat \ {0}
    BY TailFacts DEF Dispatch, TypeInv, TypeOK
  <1>2. h = clientInputs[1] /\ 1 \in 1..Len(clientInputs)
    BY <1>1 DEF TypeInv, TypeOK
  <1>3. /\ Increasing(Tail(clientInputs)) /\ Below(h, Tail(clientInputs))
        /\ \A r : Below(r, clientInputs) => r < h /\ Below(r, Tail(clientInputs))
    BY <1>1, IncreasingTail DEF Fresh, TypeInv, TypeOK
  <1>4. forwarder[h] = "none"
    <2>1. ~(h < h)
      BY <1>1, Elements
    <2> HIDE DEF h
    <2> QED
      BY <1>1, <1>3, <2>1 DEF Fresh
  <1> QED
    BY <1>1, <1>2, <1>3, <1>4 DEF Fresh

LEMMA NextFresh ==
    ASSUME TypeInv, Fresh, [Next]_vars
    PROVE  Fresh'
  <1>1. CASE Dispatch
    <2>1. /\ UNCHANGED <<wsReader, inHand, requested, toServer>>
          /\ clientInputs' = Tail(clientInputs)
      BY <1>1 DEF Dispatch, client
    <2>2. \A r \in Requests : forwarder'[r] # "none" =>
              forwarder[r] # "none" \/ r = Head(clientInputs)
      BY <1>1, DispatchFacts DEF Dispatch, TypeInv, TypeOK
    <2> QED
      BY <1>1, <2>1, <2>2, DispatchFacts DEF Fresh, Increasing, Below, Earlier, BeforeInHand
  <1>2. ASSUME UNCHANGED <<wsReader, inHand, clientInputs, requested, toServer>>,
               \A r \in Requests : forwarder'[r] # "none" => forwarder[r] # "none"
        PROVE  Fresh'
    BY <1>2 DEF Fresh, Increasing, Below, Earlier, BeforeInHand
  <1>3. CASE DispatchEnd
    BY <1>2, <1>3 DEF DispatchEnd, client, handler
  <1>4. ASSUME NEW r \in Requests, StopService(r) \/ ServiceEnd(r)
        PROVE  Fresh'
    BY <1>2, <1>4 DEF StopService, ServiceEnd, client, handler, processor
  <1>5. ASSUME NEW r \in Requests, Forwarder(r)
        PROVE  Fresh'
    <2>1. UNCHANGED <<wsReader, inHand, clientInputs, requested, toServer>>
      BY <1>5 DEF Forwarder, ForwardSend, ForwardEnd, client, handler
    <2>2. \A q \in Requests : forwarder'[q] # "none" => forwarder[q] # "none"
      BY <1>5 DEF Forwarder, ForwardSend, ForwardEnd, TypeInv, TypeOK
    <2> QED
      BY <1>2, <2>1, <2>2
  <1>6. ASSUME NEW r \in Requests, NEW f \in Requests, Say(r, f)
        PROVE  Fresh'
    <2>1. UNCHANGED <<wsReader, inHand, clientInputs, requested, toServer>>
      BY <1>6 DEF Say, client, handler
    <2>2. \A q \in Requests : forwarder'[q] # "none" => forwarder[q] # "none"
      BY <1>6 DEF Say, TypeInv, TypeOK
    <2> QED
      BY <1>2, <2>1, <2>2
  <1>7. CASE UNCHANGED vars
    BY <1>2, <1>7 DEF vars, client, handler, processor
  <1> QED
    BY <1>1, <1>3, <1>4, <1>5, <1>6, <1>7, ClientFresh, HandlerFresh, ReaderFresh
       DEF Next, Dispatcher

-----------------------------------------------------------------------------
(* A single request.                                                       *)

\* No goroutine forwards anything.
NoForwarder == \A r \in Requests : forwarder[r] = "none"

\* The only request is on the wire, or in clientInputs, or with its forwarder;
\* outChan is open until it is refused or forwarded to the end.
Alone ==
    /\ Len(toServer) <= requested
    /\ loop = "read" => dispatcher = "none"
    /\ dispatcher = "none" =>
          clientInputs = <<>> /\ wsReader = "none" /\ ~outClosed /\ NoForwarder
    /\ dispatcher # "none" => toServer = <<>> /\ requested = 1
    /\ wsReader # "put"
    /\ Len(clientInputs) <= 1
    /\ clientInputs # <<>> => ~outClosed /\ NoForwarder
    /\ \A q, r \in Requests : forwarder[q] # "none" /\ forwarder[r] # "none" => q = r
    /\ \A r \in Requests : forwarder[r] \in {"recv", "send"} => ~outClosed
    /\ closeOutOnce => outClosed
    /\ crashed = "no"

OneRequest == requested <= 1 => Alone

LEMMA InitAlone == Init => OneRequest
  BY DEF Init, OneRequest, Alone, NoForwarder

\* The requests of the client.
LEMMA ClientAlone ==
    ASSUME TypeInv, OneRequest, Stream \/ ReadMsg \/ CloseConn, requested' <= 1
    PROVE  Alone'
  <1>1. CASE Stream
    <2>1. requested = 0
      BY <1>1 DEF Stream, TypeInv, TypeOK
    <2>2. Alone /\ toServer = <<>>
      BY <2>1 DEF OneRequest, Alone, TypeInv, TypeOK
    <2>3. dispatcher = "none" /\ Len(toServer') = 1 /\ requested' = 1
      <3>1. dispatcher = "none"
        BY <2>1, <2>2 DEF Alone
      <3> QED
        BY <1>1, <2>1, <2>2, <3>1 DEF Stream
    <2> QED
      BY <1>1, <2>2, <2>3 DEF Stream, Alone, NoForwarder, handler, processor
  <1>2. CASE ReadMsg \/ CloseConn
    BY <1>2 DEF ReadMsg, CloseConn, OneRequest, Alone, NoForwarder, handler, processor
  <1> QED
    BY <1>1, <1>2

LEMMA HandlerAlone ==
    ASSUME TypeInv, OneRequest, Handler, requested' <= 1
    PROVE  Alone'
  <1>a. requested' = requested
    <2>1. CASE PlainRequest
      BY <2>1 DEF PlainRequest
    <2>2. CASE StreamRequest
      BY <2>2 DEF StreamRequest
    <2>3. CASE LoopReadError \/ LoopClosing \/ LoopOutClosed
      BY <2>3 DEF LoopReadError, LoopClosing, LoopOutClosed, client
    <2>4. CASE LoopWrite
      BY <2>4 DEF LoopWrite
    <2> QED
      BY <2>1, <2>2, <2>3, <2>4 DEF Handler
  <1>0. Alone /\ requested' = requested /\ requested \in {0, 1}
    BY <1>a DEF OneRequest, TypeInv, TypeOK
  <1>1. toServer # <<>> => /\ Len(toServer) = 1 /\ Tail(toServer) = <<>> /\ requested = 1
    <2>1. toServer \in Seq(Requests) /\ Len(toServer) <= requested
      BY <1>0 DEF Alone, TypeInv, TypeOK
    <2> QED
      BY <1>0, <2>1, SingleFacts
  <1> USE DEF Alone, NoForwarder, client, processor
  <1>2. CASE PlainRequest
    BY <1>0, <1>1, <1>2 DEF PlainRequest, Ends
  <1>3. CASE StreamRequest
    <2>1. Len(clientInputs') = 1
      BY <1>3 DEF StreamRequest
    <2> QED
      BY <1>0, <1>1, <1>3, <2>1 DEF StreamRequest
  <1>4. CASE LoopReadError \/ LoopClosing \/ LoopOutClosed
    BY <1>0, <1>4 DEF LoopReadError, LoopClosing, LoopOutClosed, Ends
  <1>5. CASE LoopWrite
    BY <1>0, <1>5 DEF LoopWrite, Write, Ends
  <1> QED
    BY <1>2, <1>3, <1>4, <1>5 DEF Handler

\* There is nothing for the reader to read.
LEMMA ReaderAlone ==
    ASSUME TypeInv, OneRequest, Reader, requested' <= 1
    PROVE  Alone'
  <1>1. Alone
    BY DEF Reader, ReaderRead, ReaderPut, ReaderError, OneRequest, client
  <1>2. ~ReaderRead
    BY <1>1 DEF ReaderRead, Alone
  <1>3. ~ReaderPut
    BY <1>1 DEF ReaderPut, Alone
  <1>4. ReaderError
    BY <1>2, <1>3 DEF Reader
  <1> QED
    BY <1>1, <1>4 DEF ReaderError, Alone, NoForwarder, client, processor

LEMMA DispatcherAlone ==
    ASSUME TypeInv, OneRequest, Dispatcher, requested' <= 1
    PROVE  Alone'
  <1>0. Alone
    BY DEF Dispatcher, Dispatch, DispatchEnd, OneRequest, client
  <1>1. CASE Dispatch
    <2>1. /\ ~outClosed /\ NoForwarder /\ clientInputs' = <<>> /\ Head(clientInputs) \in Requests
      BY <1>0, <1>1 DEF Dispatch, Alone, TypeInv, TypeOK
    <2>2. CASE CloseOut /\ dispatcher' = "gone" /\ UNCHANGED forwarder
      BY <1>0, <1>1, <2>1, <2>2 DEF Dispatch, CloseOut, Alone, NoForwarder, client
    <2>3. CASE /\ forwarder' = [forwarder EXCEPT ![Head(clientInputs)] = "recv"]
               /\ UNCHANGED <<dispatcher, outClosed, crashed>>
      <3>1. \A r \in Requests : r # Head(clientInputs) => forwarder'[r] = "none"
        BY <2>1, <2>3 DEF NoForwarder, TypeInv, TypeOK
      <3> QED
        BY <1>0, <1>1, <2>1, <2>3, <3>1 DEF Dispatch, Alone, client
    <2> QED
      BY <1>1, <2>2, <2>3 DEF Dispatch
  <1>2. CASE DispatchEnd
    BY <1>0, <1>2 DEF DispatchEnd, Alone, NoForwarder, client, handler
  <1> QED
    BY <1>1, <1>2 DEF Dispatcher

\* The end of a forwarder closes outChan for the first time.
LEMMA EndAlone ==
    ASSUME TypeInv, Alone, NEW f \in Requests, forwarder[f] = "recv",
           forwarder' = [forwarder EXCEPT ![f] = "gone"], OnlyOnce,
           UNCHANGED <<requested, toServer, handler, dispatcher>>
    PROVE  Alone'
  <1>1. ~outClosed /\ ~closeOutOnce /\ clientInputs = <<>> /\ dispatcher # "none"
    BY DEF Alone, NoForwarder
  <1>2. outClosed' = TRUE /\ crashed' = crashed
    BY <1>1 DEF OnlyOnce, CloseOut
  <1>3. \A r \in Requests : r # f => forwarder'[r] = "none"
    BY DEF Alone, TypeInv, TypeOK
  <1>4. forwarder'[f] = "gone"
    BY DEF TypeInv, TypeOK
  <1> QED
    BY <1>1, <1>2, <1>3, <1>4 DEF Alone, NoForwarder, handler

LEMMA ForwarderAlone ==
    ASSUME TypeInv, OneRequest, NEW r \in Requests, Forwarder(r), requested' <= 1
    PROVE  Alone'
  <1>0. Alone
    BY DEF Forwarder, ForwardSend, ForwardEnd, OneRequest, client
  <1>1. CASE ForwardSend(r)
    <2>1. ~outClosed /\ forwarder[r] = "send"
      BY <1>0, <1>1 DEF ForwardSend, Alone
    <2>2. /\ \A q \in Requests : q # r => forwarder'[q] = forwarder[q]
          /\ forwarder'[r] = "recv"
      BY <1>1, <2>1 DEF ForwardSend, TypeInv, TypeOK
    <2> QED
      BY <1>0, <1>1, <2>1, <2>2 DEF ForwardSend, Alone, NoForwarder, client, handler
  <1>2. CASE ForwardEnd(r)
    BY <1>0, <1>2, EndAlone DEF ForwardEnd, client
  <1> QED
    BY <1>1, <1>2 DEF Forwarder

LEMMA ServiceAlone ==
    ASSUME TypeInv, OneRequest, NEW r \in Requests, StopService(r) \/ ServiceEnd(r),
           requested' <= 1
    PROVE  Alone'
  BY DEF StopService, ServiceEnd, OneRequest, Alone, NoForwarder, client, handler, processor

LEMMA SayAlone ==
    ASSUME TypeInv, OneRequest, NEW r \in Requests, NEW f \in Requests, Say(r, f),
           requested' <= 1
    PROVE  Alone'
  <1>0. Alone /\ forwarder[f] = "recv"
    BY DEF Say, OneRequest, client
  <1>1. CASE /\ forwarder' = [forwarder EXCEPT ![f] = "send"]
             /\ UNCHANGED <<outClosed, closeOutOnce, crashed>>
    <2>1. /\ \A q \in Requests : q # f => forwarder'[q] = forwarder[q]
          /\ forwarder'[f] = "send"
      BY <1>1 DEF TypeInv, TypeOK
    <2> QED
      BY <1>0, <1>1, <2>1 DEF Say, Alone, NoForwarder, client, handler
  <1>2. CASE forwarder' = [forwarder EXCEPT ![f] = "gone"] /\ OnlyOnce
    BY <1>0, <1>2, EndAlone DEF Say, client
  <1> QED
    BY <1>1, <1>2 DEF Say

LEMMA NextAlone ==
    ASSUME TypeInv, OneRequest, [Next]_vars
    PROVE  OneRequest'
  <1>1. CASE UNCHANGED vars
    BY <1>1 DEF vars, client, handler, processor, services, OneRequest, Alone, NoForwarder
  <1>2. CASE Next
    <2> SUFFICES ASSUME requested' <= 1 PROVE Alone'
      BY DEF OneRequest
    <2> QED
      BY <1>2, ClientAlone, HandlerAlone, ReaderAlone, DispatcherAlone, ForwarderAlone,
         ServiceAlone, SayAlone DEF Next
  <1> QED
    BY <1>1, <1>2

\* A stream with a single request never panics: the reader has nothing to put
\* into the closed clientInputs, and outChan is closed once and is not sent to
\* afterwards, whoever ends the stream (websocket.go:315-372,
\* processor.go:454-560).
THEOREM OneRequestSafe == Spec => []SingleRequestSafe
  <1>1. OneRequest => SingleRequestSafe
    BY DEF OneRequest, Alone, SingleRequestSafe
  <1> QED
    BY <1>1, InitTypes, InitAlone, NextTypes, NextAlone, PTL DEF Spec

-----------------------------------------------------------------------------
(* What a service says.                                                    *)

Said(r, k) == [of |-> r, nr |-> k]

\* A forwarder has the value in hand.
InTransit(v) == \E f \in Requests : forwarder[f] = "send" /\ held[f] = v
\* It is with the client, on the wire, in outChan or in the hands of a forwarder.
Kept(v) == Has(received, v) \/ Has(toClient, v) \/ Has(outChan, v) \/ InTransit(v)

\* As long as the client is there, all that was said is somewhere.
SaidIsKept ==
    clientOpen => \A r \in Requests : \A k \in 1..produced[r] :
                      Said(r, k) \notin scenario.unencodable => Kept(Said(r, k))

\* A forwarder holds what came from its channel.
OwnChannel ==
    \A f \in Requests : forwarder[f] = "send" => ChanOf[held[f].of] = ChanOf[f]

KeptInv == SaidIsKept /\ OwnChannel

LEMMA InitKept == Init => KeptInv
  <1> SUFFICES ASSUME Init PROVE KeptInv
    OBVIOUS
  <1>1. \A r \in Requests : 1..produced[r] = {}
    BY DEF Init
  <1> QED
    BY <1>1 DEF Init, KeptInv, SaidIsKept, OwnChannel

\* Steps that say nothing and lose nothing.
LEMMA KeepsAll ==
    ASSUME KeptInv, UNCHANGED <<produced, scenario, held, forwarder>>, clientOpen' => clientOpen,
           clientOpen' => \A v : Kept(v) => Kept(v)'
    PROVE  KeptInv'
  <1>1. OwnChannel'
    BY DEF KeptInv, OwnChannel
  <1>2. SaidIsKept'
    BY DEF KeptInv, SaidIsKept
  <1> QED
    BY <1>1, <1>2 DEF KeptInv

LEMMA ClientKept ==
    ASSUME TypeInv, KeptInv, Stream \/ ReadMsg \/ CloseConn
    PROVE  KeptInv'
  <1>1. UNCHANGED <<produced, scenario, held, forwarder, outChan>> /\ (clientOpen' => clientOpen)
    BY DEF Stream, ReadMsg, CloseConn, processor, services
  <1>2. ASSUME NEW v, Kept(v) PROVE Kept(v)'
    <2>1. InTransit(v)' = InTransit(v)
      BY <1>1 DEF InTransit
    <2>2. CASE UNCHANGED <<received, toClient>>
      BY <1>1, <1>2, <2>1, <2>2 DEF Kept, Has
    <2>3. CASE ReadMsg
      <3>1. /\ Has(toClient, v) => v = Head(toClient) \/ Has(toClient', v)
            /\ Head(toClient) \in Reply
        BY <2>3, TailFacts DEF ReadMsg, TypeInv, TypeOK
      <3>2. /\ Has(received, v) => Has(received', v)
            /\ Has(received', Head(toClient))
        BY <2>3, <3>1, AppendFacts DEF ReadMsg, TypeInv, TypeOK
      <3>3. Has(outChan, v) => Has(outChan', v)
        BY <1>1
      <3> QED
        BY <1>2, <2>1, <3>1, <3>2, <3>3 DEF Kept, Has
    <2> QED
      BY <2>2, <2>3 DEF Stream, CloseConn
  <1> QED
    BY <1>1, <1>2, KeepsAll

\* A write to a client that is there arrives on the wire.
LEMMA WriteKeeps ==
    ASSUME TypeInv, NEW x \in Reply, Write(x), clientOpen
    PROVE  Has(toClient', x) /\ \A v : Has(toClient, v) => Has(toClient', v)
  <1>1. toClient' = Append(toClient, x)
    BY DEF Write
  <1> QED
    BY <1>1, AppendFacts DEF TypeInv, TypeOK

LEMMA HandlerKept ==
    ASSUME TypeInv, KeptInv, Handler
    PROVE  KeptInv'
  <1>1. CASE PlainRequest
    <2>1. /\ UNCHANGED <<produced, scenario, held, forwarder, received, outChan>>
          /\ clientOpen' = clientOpen
      BY <1>1 DEF PlainRequest, processor, services
    <2>2. [of |-> Head(toServer), nr |-> 0] \in Reply
      BY <1>1, TailFacts DEF PlainRequest, Reply, TypeInv, TypeOK
    <2>3. ASSUME NEW v, clientOpen PROVE Has(toClient, v) => Has(toClient', v)
      BY <1>1, <2>2, <2>3, WriteKeeps DEF PlainRequest
    <2>4. ASSUME NEW v, clientOpen, Kept(v) PROVE Kept(v)'
      BY <2>1, <2>3, <2>4 DEF Kept, InTransit, Has
    <2> QED
      BY <2>1, <2>4, KeepsAll
  <1>2. CASE LoopWrite
    <2>1. /\ UNCHANGED <<produced, scenario, held, forwarder, received>>
          /\ clientOpen' = clientOpen
      BY <1>2 DEF LoopWrite, services
    <2>2. /\ Head(outChan) \in Reply
          /\ \A v : Has(outChan, v) => v = Head(outChan) \/ Has(outChan', v)
      BY <1>2, TailFacts, ValuesAreReplies DEF LoopWrite, TypeInv, TypeOK
    <2>3. ASSUME clientOpen
          PROVE  /\ Has(toClient', Head(outChan))
                 /\ \A v : Has(toClient, v) => Has(toClient', v)
      BY <1>2, <2>2, <2>3, WriteKeeps DEF LoopWrite
    <2>4. ASSUME NEW v, clientOpen, Kept(v) PROVE Kept(v)'
      <3>1. InTransit(v)' = InTransit(v) /\ (Has(received, v) => Has(received', v))
        BY <2>1 DEF InTransit
      <3> QED
        BY <2>2, <2>3, <2>4, <3>1 DEF Kept, Has
    <2> QED
      BY <2>1, <2>4, KeepsAll
  <1>3. CASE StreamRequest \/ LoopReadError \/ LoopClosing \/ LoopOutClosed
    <2>1. UNCHANGED <<produced, scenario, held, forwarder, received, toClient, outChan,
                      clientOpen>>
      BY <1>3 DEF StreamRequest, LoopReadError, LoopClosing, LoopOutClosed, client, processor,
                  services
    <2> QED
      BY <2>1, KeepsAll DEF Kept, InTransit, Has
  <1> QED
    BY <1>1, <1>2, <1>3 DEF Handler

\* The other goroutines that do not touch values.
LEMMA OthersKept ==
    ASSUME TypeInv, Fresh, KeptInv,
           Reader \/ Dispatcher \/ \E r \in Requests : StopService(r) \/ ServiceEnd(r)
    PROVE  KeptInv'
  <1>1. UNCHANGED <<produced, scenario, held, received, toClient, outChan, clientOpen>>
    <2>1. CASE Reader
      BY <2>1 DEF Reader, ReaderRead, ReaderPut, ReaderError, client, processor, services
    <2>2. CASE Dispatcher
      BY <2>2 DEF Dispatcher, Dispatch, DispatchEnd, client, handler, services
    <2>3. CASE \E r \in Requests : StopService(r) \/ ServiceEnd(r)
      BY <2>3 DEF StopService, ServiceEnd, client, processor
    <2> QED
      BY <2>1, <2>2, <2>3
  <1>2. ASSUME NEW f \in Requests PROVE forwarder'[f] = "send" <=> forwarder[f] = "send"
    <2>1. CASE UNCHANGED forwarder
      BY <2>1
    <2>2. CASE Dispatch
      BY <2>2, DispatchFacts DEF Dispatch, TypeInv, TypeOK
    <2> QED
      BY <2>1, <2>2 DEF Reader, ReaderRead, ReaderPut, ReaderError, Dispatcher, DispatchEnd,
                        StopService, ServiceEnd, processor
  <1>3. ASSUME NEW v, Kept(v) PROVE Kept(v)'
    BY <1>1, <1>2, <1>3 DEF Kept, InTransit, Has
  <1>4. OwnChannel'
    BY <1>1, <1>2 DEF KeptInv, OwnChannel
  <1>5. SaidIsKept'
    BY <1>1, <1>3 DEF KeptInv, SaidIsKept
  <1> QED
    BY <1>4, <1>5 DEF KeptInv

\* A forwarder that sends puts its value into outChan.
LEMMA ForwarderKept ==
    ASSUME TypeInv, KeptInv, NEW r \in Requests, Forwarder(r)
    PROVE  KeptInv'
  <1>1. UNCHANGED <<produced, scenario, received, toClient, clientOpen>>
    BY DEF Forwarder, ForwardSend, ForwardEnd, client, services
  <1>2. \A f \in Requests : f # r => held'[f] = held[f] /\ forwarder'[f] = forwarder[f]
    BY DEF Forwarder, ForwardSend, ForwardEnd, TypeInv, TypeOK
  <1>3. CASE ForwardSend(r) /\ ~outClosed
    <2>1. held[r] \in Value /\ forwarder'[r] = "recv" /\ outChan' = Append(outChan, held[r])
      BY <1>3 DEF ForwardSend, SendOut, TypeInv, TypeOK, HeldTyped
    <2>2. Has(outChan', held[r]) /\ \A v : Has(outChan, v) => Has(outChan', v)
      BY <2>1, AppendFacts DEF TypeInv, TypeOK
    <2>3. ASSUME NEW v, Kept(v) PROVE Kept(v)'
      BY <1>1, <1>2, <2>2, <2>3 DEF Kept, InTransit, Has
    <2>4. OwnChannel'
      BY <1>2, <2>1 DEF KeptInv, OwnChannel
    <2>5. SaidIsKept'
      BY <1>1, <2>3 DEF KeptInv, SaidIsKept
    <2> QED
      BY <2>4, <2>5 DEF KeptInv
  <1>4. CASE ForwardSend(r) /\ outClosed
    <2>1. UNCHANGED <<held, forwarder, outChan>>
      BY <1>4 DEF ForwardSend
    <2> QED
      BY <1>1, <2>1, KeepsAll DEF Kept, InTransit, Has
  <1>5. CASE ForwardEnd(r)
    <2>1. UNCHANGED <<held, outChan>> /\ forwarder[r] = "recv" /\ forwarder'[r] = "gone"
      BY <1>5 DEF ForwardEnd, TypeInv, TypeOK
    <2>2. \A v : InTransit(v) => InTransit(v)'
      BY <1>2, <2>1 DEF InTransit
    <2>3. ASSUME NEW v, Kept(v) PROVE Kept(v)'
      BY <1>1, <2>1, <2>2, <2>3 DEF Kept, Has
    <2>4. OwnChannel'
      BY <1>2, <2>1 DEF KeptInv, OwnChannel
    <2>5. SaidIsKept'
      BY <1>1, <2>3 DEF KeptInv, SaidIsKept
    <2> QED
      BY <2>4, <2>5 DEF KeptInv
  <1> QED
    BY <1>3, <1>4, <1>5 DEF Forwarder

\* A value that is said and can be encoded is in the hands of a forwarder.
LEMMA SayKept ==
    ASSUME TypeInv, KeptInv, NEW r \in Requests, NEW f \in Requests, Say(r, f)
    PROVE  KeptInv'
  <1>a. PICK n : n = produced[r] + 1
    OBVIOUS
  <1>b. PICK v : v = Said(r, n)
    OBVIOUS
  <1>1. UNCHANGED <<scenario, received, toClient, clientOpen, outChan>>
    BY DEF Say, client
  <1>2. /\ \A g \in Requests : g # f => held'[g] = held[g] /\ forwarder'[g] = forwarder[g]
        /\ forwarder[f] = "recv" /\ ChanOf[f] = ChanOf[r]
    BY DEF Say, TypeInv, TypeOK
  <1>3. \A w : InTransit(w) => InTransit(w)'
    BY <1>2 DEF InTransit
  <1>4. \A w : Kept(w) => Kept(w)'
    BY <1>1, <1>3 DEF Kept, Has
  <1>5. \/ v \in scenario.unencodable /\ forwarder'[f] = "gone"
        \/ v \notin scenario.unencodable /\ forwarder'[f] = "send" /\ held'[f] = v
    BY <1>a, <1>b DEF Say, Said, TypeInv, TypeOK
  <1>6. v.of = r
    BY <1>b DEF Said
  <1>7. OwnChannel'
    BY <1>2, <1>5, <1>6 DEF KeptInv, OwnChannel
  <1>8. v \notin scenario.unencodable => Kept(v)'
    BY <1>5 DEF Kept, InTransit
  <1>9. /\ produced'[r] = n /\ n \in Nat /\ produced[r] \in Nat
        /\ \A q \in Requests : q # r => produced'[q] = produced[q]
    BY <1>a, NextValue DEF Say, TypeInv, TypeOK
  <1>10. SaidIsKept'
    <2> SUFFICES ASSUME clientOpen, NEW q \in Requests, NEW k \in 1..produced'[q],
                        Said(q, k) \notin scenario.unencodable
                 PROVE  Kept(Said(q, k))'
      BY <1>1 DEF SaidIsKept
    <2>1. CASE q = r /\ k = n
      BY <1>8, <1>b, <2>1
    <2>2. CASE ~(q = r /\ k = n)
      <3>1. k \in 1..produced[q]
        BY <1>9, <1>a, <2>2
      <3>2. Kept(Said(q, k))
        BY <3>1 DEF KeptInv, SaidIsKept
      <3> QED
        BY <1>4, <3>2
    <2> QED
      BY <2>1, <2>2
  <1> QED
    BY <1>7, <1>10 DEF KeptInv

LEMMA NextKept ==
    ASSUME TypeInv, Fresh, KeptInv, [Next]_vars
    PROVE  KeptInv'
  <1>1. CASE UNCHANGED vars
    <2>1. UNCHANGED <<produced, scenario, held, forwarder, received, toClient, outChan,
                      clientOpen>>
      BY <1>1 DEF vars, client, processor, services
    <2> QED
      BY <2>1, KeepsAll DEF Kept, InTransit, Has
  <1>2. CASE Next
    BY <1>2, ClientKept, HandlerKept, OthersKept, ForwarderKept, SayKept DEF Next
  <1> QED
    BY <1>1, <1>2

\* As long as the client is there, every value that a service has said and that
\* can be encoded is with the client, on the wire, in outChan or in the hands of
\* a forwarder, also when requests share a channel and panic ends the process
\* (processor.go:513-554, websocket.go:346-370).
THEOREM ValuesAreKept == Spec => []SaidIsKept
  <1>1. KeptInv => SaidIsKept
    BY DEF KeptInv
  <1> QED
    BY <1>1, InitTypes, InitFresh, InitKept, NextTypes, NextFresh, NextKept, PTL DEF Spec

\* What a forwarder that is gone should have sent was sent.
LEMMA KeptThenSent ==
    ASSUME ~Shared, TypeInv, KeptInv
    PROVE  NothingLost
  <1> SUFFICES ASSUME NEW r \in Requests, forwarder[r] = "gone", clientOpen,
                      NEW k \in 1..produced[r],
                      [of |-> r, nr |-> k] \notin scenario.unencodable
               PROVE  \E i \in DOMAIN (Written \o outChan) :
                         (Written \o outChan)[i] = [of |-> r, nr |-> k]
    BY DEF NothingLost
  <1>1. PICK v : v = [of |-> r, nr |-> k]
    OBVIOUS
  <1>2. Kept(v) /\ v.of = r
    BY <1>1 DEF KeptInv, SaidIsKept, Said
  <1>3. ~InTransit(v)
    <2> SUFFICES ASSUME NEW f \in Requests, forwarder[f] = "send", held[f] = v
                 PROVE  FALSE
      BY DEF InTransit
    <2>1. ChanOf[r] = ChanOf[f]
      BY <1>2 DEF KeptInv, OwnChannel
    <2>2. f # r
      OBVIOUS
    <2> QED
      BY <2>1, <2>2 DEF Shared
  <1>4. received \in Seq(Reply) /\ toClient \in Seq(Reply) /\ outChan \in Seq(Reply)
    BY ValuesAreReplies DEF TypeInv, TypeOK
  <1>5. Written \in Seq(Reply) /\ (Has(received, v) \/ Has(toClient, v) => Has(Written, v))
    BY <1>4, ConcatFacts DEF Written
  <1>6. Written \o outChan \in Seq(Reply) /\ Has(Written \o outChan, v)
    BY <1>2, <1>3, <1>4, <1>5, ConcatFacts DEF Kept
  <1> QED
    BY <1>1, <1>6 DEF Has

\* With a channel for every request, nothing that a service said is lost once its
\* forwarder has ended and the client is still there (processor.go:531-553,
\* websocket.go:346-370).  With a shared channel the value can still be in the
\* hands of the forwarder of another request.
THEOREM NoValueLost ==
    ASSUME ~Shared
    PROVE  Spec => []NothingLost
  <1>1. TypeInv /\ KeptInv => NothingLost
    BY KeptThenSent
  <1> QED
    BY <1>1, InitTypes, InitFresh, InitKept, NextTypes, NextFresh, NextKept, PTL DEF Spec

-----------------------------------------------------------------------------
(* A simulation: what the setup fixes.                                     *)

\* The list of servers that the machines read.
Listed == readBack.List
Others == Servers \ {RootNode}

\* The number of servers is that of the list, which has each of them once,
\* and every server is at one of the addresses.
SetupSound ==
    /\ NrServers \in Nat \ {0}
    /\ DOMAIN Listed = 1..NrServers /\ IsInjective(Listed) /\ Range(Listed) = Servers
    /\ \A s \in Servers : HostOf(s) \in Addresses
    /\ IsFiniteSet(Others)

LEMMA SetupIsSound ==
    ASSUME conf \in Experiments, file = Saved(conf), readBack = Loaded(file)
    PROVE  SetupSound
<1> DEFINE hosts == CheckHosts(conf.rc).hosts
           ids == [c \in 1..hosts |->
                     [key |-> c - 1, host |-> conf.addresses[((c - 1) % Len(conf.addresses)) + 1],
                      port |-> 2 * (IF conf.oneProcess THEN c - 1
                                    ELSE (c - 1) \div Len(conf.addresses))]]
<1>1. conf.addresses \in Seq(STRING) \ {<<>>} /\ hosts \in Nat \ {0}
  BY SimulationAssumption
<1>2. file.Roster = NewRoster(ids)
  <2>1. file.Roster = CreateRoster(conf.addresses, hosts, conf.oneProcess)
    BY DEF Saved
  <2> QED  BY <2>1 DEF CreateRoster
<1>3. ids \in Seq({ids[c] : c \in 1..hosts}) /\ Len(ids) = hosts /\ ids # <<>>
  <2>1. ids = [c \in 1..hosts |-> ids[c]]
    OBVIOUS
  <2> HIDE DEF hosts, ids
  <2> QED  BY <1>1, <2>1
<1> HIDE DEF ids
<1>4. file.Roster.List = ids
  BY <1>2, <1>3 DEF NewRoster
<1>5. NrServers = hosts
  BY <1>3, <1>4 DEF NrServers, RosterLen
<1>6. DOMAIN Listed = 1..NrServers /\ IsInjective(Listed) /\ Range(Listed) = 0..(NrServers - 1)
  BY TreesAssumption DEF Listed, NrServers
<1>7. ASSUME NEW s \in Servers PROVE HostOf(s) \in Addresses
  <2> DEFINE len == Len(conf.addresses)
  <2>1. s + 1 \in 1..hosts /\ s \in Nat
    BY <1>1, <1>5, <1>7 DEF Servers
  <2>2. HostOf(s) = ids[s + 1].host
    BY <1>4 DEF HostOf, Identity
  <2>3. ids[s + 1].host = conf.addresses[((s + 1 - 1) % len) + 1]
    BY <2>1 DEF ids
  <2>4. len \in Nat \ {0} /\ DOMAIN conf.addresses = 1..len
    BY <1>1
  <2>5. ((s + 1 - 1) % len) + 1 \in 1..len
    <3> HIDE DEF len
    <3>1. s + 1 - 1 = s
      BY <2>1
    <3>2. s % len \in 0..(len - 1)
      BY <2>1, <2>4
    <3> QED  BY <2>4, <3>1, <3>2
  <2> QED  BY <2>2, <2>3, <2>4, <2>5 DEF Addresses, Range
<1>8. IsFiniteSet(Others)
  <2>1. IsFiniteSet(Servers)
    BY <1>1, <1>5, FS_Interval DEF Servers
  <2> QED  BY <2>1, FS_Subset DEF Others
<1> HIDE DEF hosts
<1> QED  BY <1>1, <1>5, <1>6, <1>7, <1>8 DEF SetupSound, Servers
-----------------------------------------------------------------------------
(* A simulation: joining.                                                  *)

\* The root has sent its message to s.
Called(s) ==
    \E b \in Batches : \E i \in 0..(NrServers - 1) :
        Begin(b) <= i /\ i < invite[b].pos /\ Listed[i + 1] = s

GreetingTo(s) == Msg("Hello", RootNode, s) \in msgs
JoinedOf(s) == Msg("Joined", s, RootNode) \in msgs
RootCreated == instance[RootNode].created

\* Servers whose Joined has not been received, and servers to be invited.
Unjoined == {s \in Others : ~instance[s].created \/ s \in greeting \/ JoinedOf(s)}
Uncalled == {s \in Others : ~Called(s)}

SetupFixed == conf \in Experiments /\ file = Saved(conf) /\ readBack = Loaded(file)

SimTyped ==
    /\ sim \in [Addresses -> {"off", "failed", "loaded", "waiting", "inviting", "starting",
                              "running", "closing", "closeAll", "exited"}]
    /\ sc \in [Addresses -> {NoConfig, readBack}]
    /\ invite \in [Batches -> [pos : Nat, err : BOOLEAN]]
    /\ CalledWG \in Int /\ JoinedWG \in Int
    /\ instance \in [Servers -> [created : BOOLEAN, config : SUBSET Configuration]]
    /\ greeting \subseteq Servers /\ running \in BOOLEAN

\* The root's instance is made between loading and inviting.
RootPhase ==
    /\ sim[RootHost] \in {"off", "loaded"} => ~RootCreated
    /\ sim[RootHost] \in {"inviting", "starting"} => RootCreated
    /\ sim[RootHost] \notin {"off", "exited"} => sc[RootHost] = readBack

\* A batch does not leave its part of the list.
BatchesApart ==
    \A b \in Batches : Begin(b) <= invite[b].pos /\ invite[b].pos <= Begin(b) + batchSize

\* A server is invited, gets its instance, and answers, in this order and once.
JoinPath ==
    \A s \in Servers :
      /\ GreetingTo(s) => s # RootNode /\ Called(s) /\ ~instance[s].created /\ RootCreated
      /\ s \in greeting => s # RootNode /\ instance[s].created /\ ~JoinedOf(s)
      /\ JoinedOf(s) => s # RootNode /\ instance[s].created
      /\ instance[s].created =>
           /\ s # RootNode => Called(s)
           /\ RootCreated /\ LeaderNeeds \subseteq instance[s].config

\* The wait groups count those that are missing, or more when one is lost.
GroupsCount ==
    IF RootCreated
    THEN JoinedWG >= Cardinality(Unjoined) /\ CalledWG >= Cardinality(Uncalled)
    ELSE JoinedWG = 0 /\ CalledWG = 0

JoinInv ==
    /\ SetupFixed /\ SimTyped /\ RootPhase /\ BatchesApart /\ JoinPath /\ GroupsCount
    /\ running => \A s \in Servers : instance[s].created

\* A position of the list is in one batch.
LEMMA OneBatch ==
    ASSUME NEW b \in Nat, NEW d \in Nat, NEW k \in Nat \ {0}, NEW p \in Nat,
           b * k <= p, p < b * k + k, d * k <= p, p < d * k + k
    PROVE  b = d
<1>1. ASSUME NEW x \in Nat, NEW y \in Nat, x < y PROVE x * k + k <= y * k
  <2>1. PICK e \in Nat : y = x + 1 + e
    <3>1. y - x - 1 \in Nat /\ y = x + 1 + (y - x - 1)
      BY <1>1
    <3> QED  BY <3>1
  <2>2. y * k = x * k + k + e * k
    BY <2>1
  <2>3. e * k \in Nat /\ x * k \in Nat
    OBVIOUS
  <2> QED  BY <2>2, <2>3
<1>2. b * k \in Nat /\ d * k \in Nat
  OBVIOUS
<1>3. CASE b < d
  BY <1>1, <1>2, <1>3
<1>4. CASE d < b
  BY <1>1, <1>2, <1>4
<1> QED  BY <1>3, <1>4

\* Sets of servers that shrink.
LEMMA FewerServers ==
    ASSUME IsFiniteSet(Others), NEW S, NEW T, S \subseteq Others, T \subseteq S
    PROVE  /\ Cardinality(S) \in Nat /\ Cardinality(T) \in Nat
           /\ Cardinality(T) <= Cardinality(S)
           /\ \A s \in S \ T : Cardinality(T) + 1 <= Cardinality(S)
<1>1. IsFiniteSet(S) /\ IsFiniteSet(T)
  BY FS_Subset
<1>2. Cardinality(S) \in Nat /\ Cardinality(T) \in Nat /\ Cardinality(T) <= Cardinality(S)
  BY <1>1, FS_CardinalityType, FS_Subset
<1>3. ASSUME NEW s \in S \ T PROVE Cardinality(T) + 1 <= Cardinality(S)
  <2>1. T \subseteq S \ {s}
    BY <1>3
  <2>2. IsFiniteSet(S \ {s}) /\ Cardinality(S \ {s}) = Cardinality(S) - 1
    BY <1>1, <1>3, FS_RemoveElement
  <2>3. Cardinality(T) <= Cardinality(S \ {s})
    BY <2>1, <2>2, FS_Subset
  <2> QED  BY <1>2, <2>2, <2>3
<1> QED  BY <1>2, <1>3
\* What the setup fixes does not change.
LEMMA JoinFacts ==
    ASSUME JoinInv
    PROVE  /\ SetupSound /\ RootNode \in Servers /\ RootHost \in Addresses
           /\ \A s \in Servers : HostOf(s) \in Addresses
           /\ NrServers \in Nat \ {0}
           /\ Unjoined \subseteq Others /\ Uncalled \subseteq Others /\ IsFiniteSet(Others)
<1>1. SetupSound
  BY SetupIsSound DEF JoinInv, SetupFixed
<1>2. RootNode \in Servers
  BY <1>1 DEF SetupSound, RootNode, Servers
<1> QED  BY <1>1, <1>2 DEF SetupSound, RootHost, Unjoined, Uncalled

LEMMA JoinAtFirst ==
    ASSUME SimInit
    PROVE  JoinInv
<1>1. SetupFixed
  BY DEF SimInit, SetupFixed
<1>2. SetupSound
  BY <1>1, SetupIsSound DEF SetupFixed
<1>3. RootNode \in Servers /\ RootHost \in Addresses /\ NrServers \in Nat \ {0}
  BY <1>2 DEF SetupSound, RootNode, Servers, RootHost
<1>4. batchSize \in Nat \ {0}
  BY SimulationAssumption
<1>5. \A b \in Batches : b \in Nat /\ Begin(b) \in Nat
  <2>1. NrServers \div batchSize \in Nat
    BY <1>3, <1>4
  <2> QED  BY <1>4, <2>1 DEF Batches, Begin
<1>6. /\ sim = [h \in Addresses |-> "off"] /\ sc = [h \in Addresses |-> NoConfig]
      /\ invite = [b \in Batches |-> [pos |-> Begin(b), err |-> FALSE]]
      /\ CalledWG = 0 /\ JoinedWG = 0
      /\ instance = [s \in Servers |-> NoInstance]
      /\ greeting = {} /\ running = FALSE /\ msgs = {}
  BY DEF SimInit
<1>7. SimTyped
  <2>1. invite \in [Batches -> [pos : Nat, err : BOOLEAN]]
    BY <1>5, <1>6
  <2>2. instance \in [Servers -> [created : BOOLEAN, config : SUBSET Configuration]]
    BY <1>6 DEF NoInstance
  <2>3. sim \in [Addresses -> {"off", "failed", "loaded", "waiting", "inviting", "starting",
                                 "running", "closing", "closeAll", "exited"}]
    BY <1>6
  <2>4. sc \in [Addresses -> {NoConfig, readBack}]
    BY <1>6
  <2>5. CalledWG \in Int /\ JoinedWG \in Int /\ greeting \subseteq Servers
    BY <1>6
  <2>6. running \in BOOLEAN
    BY <1>6, Zenon
  <2> QED  BY <2>1, <2>2, <2>3, <2>4, <2>5, <2>6 DEF SimTyped
<1>8. \A s \in Servers : instance[s].created = FALSE
  BY <1>6 DEF NoInstance
<1>9. RootPhase
  BY <1>3, <1>6, <1>8 DEF RootPhase, RootCreated
<1>10. BatchesApart
  BY <1>4, <1>5, <1>6 DEF BatchesApart
<1>11. JoinPath
  BY <1>6, <1>8 DEF JoinPath, GreetingTo, JoinedOf
<1>12. GroupsCount
  BY <1>3, <1>6, <1>8 DEF GroupsCount, RootCreated
<1> QED  BY <1>1, <1>6, <1>7, <1>9, <1>10, <1>11, <1>12 DEF JoinInv

\* A step that is not about joining, and puts no message of joining on its way.
LEMMA JoinAside ==
    ASSUME JoinInv, UNCHANGED <<setup, join>>,
           \A s \in Servers : (GreetingTo(s)' => GreetingTo(s)) /\ (JoinedOf(s)' => JoinedOf(s)),
           sim' \in [Addresses -> {"off", "failed", "loaded", "waiting", "inviting", "starting",
                                   "running", "closing", "closeAll", "exited"}],
           sc' \in [Addresses -> {NoConfig, readBack}],
           RootPhase'
    PROVE  JoinInv'
<1> USE DEF setup, join
<1>1. SetupFixed' /\ SimTyped' /\ BatchesApart'
  BY DEF JoinInv, SetupFixed, SimTyped, BatchesApart, Addresses, Batches, Begin, NrServers, Servers
<1>2. \A s : Called(s)' <=> Called(s)
  BY DEF Called, Batches, Begin, NrServers, Listed
<1>3. Servers' = Servers /\ Others' = Others /\ RootCreated' = RootCreated
  BY DEF Servers, Others, NrServers, RootCreated
<1>4. JoinPath'
  BY <1>2, <1>3 DEF JoinInv, JoinPath
<1>5. GroupsCount'
  <2>1. Unjoined' \subseteq Unjoined /\ Uncalled' = Uncalled
    BY <1>2, <1>3 DEF Unjoined, Uncalled, Others
  <2>2. RootCreated => Cardinality(Unjoined') <= Cardinality(Unjoined)
                       /\ Cardinality(Unjoined) \in Nat /\ Cardinality(Unjoined') \in Nat
    BY <2>1, JoinFacts, FewerServers
  <2>3. JoinedWG \in Int /\ CalledWG \in Int
    BY DEF JoinInv, SimTyped
  <2>4. CASE RootCreated
    <3>1. JoinedWG >= Cardinality(Unjoined) /\ CalledWG >= Cardinality(Uncalled)
      BY <2>4 DEF JoinInv, GroupsCount
    <3>2. JoinedWG' >= Cardinality(Unjoined') /\ CalledWG' >= Cardinality(Uncalled')
      BY <2>1, <2>2, <2>3, <2>4, <3>1
    <3> QED  BY <1>3, <2>4, <3>2 DEF GroupsCount
  <2>5. CASE ~RootCreated
    BY <1>3, <2>5 DEF JoinInv, GroupsCount
  <2> QED  BY <2>4, <2>5
<1>6. running' => \A s \in Servers' : instance'[s].created
  BY <1>3 DEF JoinInv
<1> QED  BY <1>1, <1>4, <1>5, <1>6 DEF JoinInv
\* A program that ends takes the messages to its servers with it.
LEMMA ExitJoin ==
    ASSUME JoinInv, NEW h, Exit(h), UNCHANGED <<setup, sc, join>>
    PROVE  JoinInv'
<1>1. /\ sim' = [g \in Addresses |-> IF g \in Together(h) THEN "exited" ELSE sim[g]]
      /\ msgs' \subseteq msgs
  BY DEF Exit
<1>2. RootHost' = RootHost /\ RootHost \in Addresses
  BY JoinFacts DEF setup, RootHost, HostOf
<1>3. \A s \in Servers : (GreetingTo(s)' => GreetingTo(s)) /\ (JoinedOf(s)' => JoinedOf(s))
  BY <1>1 DEF GreetingTo, JoinedOf
<1>4. sim' \in [Addresses -> {"off", "failed", "loaded", "waiting", "inviting", "starting",
                              "running", "closing", "closeAll", "exited"}]
  BY <1>1 DEF JoinInv, SimTyped
<1>5. sc' \in [Addresses -> {NoConfig, readBack}]
  BY DEF JoinInv, SimTyped
<1>6. sim'[RootHost] = "exited" \/ sim'[RootHost] = sim[RootHost]
  BY <1>1, <1>2
<1>7. RootPhase'
  BY <1>2, <1>6 DEF JoinInv, RootPhase, RootCreated, setup, join
<1> QED  BY <1>3, <1>4, <1>5, <1>7, JoinAside

LEMMA LaunchJoin ==
    ASSUME JoinInv, NEW h \in Addresses, Launch(h)
    PROVE  JoinInv'
<1> DEFINE mine == ServersAt(file, h)
           place == IF mine = {} THEN "failed" ELSE IF RootNode \in mine THEN "loaded" ELSE "waiting"
<1>1. /\ sim[h] = "off" /\ sim' = [sim EXCEPT ![h] = place]
      /\ sc' = [sc EXCEPT ![h] = IF mine = {} THEN NoConfig ELSE readBack]
      /\ UNCHANGED <<setup, join, msgs>>
  BY DEF Launch
<1>2. /\ sim \in [Addresses -> {"off", "failed", "loaded", "waiting", "inviting", "starting",
                                "running", "closing", "closeAll", "exited"}]
      /\ sc \in [Addresses -> {NoConfig, readBack}] /\ RootPhase
  BY DEF JoinInv, SimTyped
<1>3. RootNode \in mine <=> h = RootHost
  BY JoinFacts DEF ServersAt, RootHost, HostOf, Servers, NrServers
<1> HIDE DEF mine
<1>4. /\ sim' \in [Addresses -> {"off", "failed", "loaded", "waiting", "inviting", "starting",
                                 "running", "closing", "closeAll", "exited"}]
      /\ sc' \in [Addresses -> {NoConfig, readBack}]
  BY <1>1, <1>2
<1>5. RootHost' = RootHost /\ RootHost \in Addresses
  BY <1>1, JoinFacts DEF setup, RootHost, HostOf
<1>6. ASSUME h = RootHost PROVE RootPhase'
  <2>1. sim'[RootHost] = "loaded" /\ sc'[RootHost] = readBack
    <3>1. mine # {} /\ place = "loaded"
      BY <1>3, <1>6
    <3> QED  BY <1>1, <1>2, <1>5, <1>6, <3>1
  <2>2. ~RootCreated
    BY <1>1, <1>2, <1>6 DEF RootPhase
  <2> QED  BY <1>1, <1>5, <2>1, <2>2 DEF RootPhase, RootCreated, setup, join
<1>7. ASSUME h # RootHost PROVE RootPhase'
  <2>1. sim'[RootHost] = sim[RootHost] /\ sc'[RootHost] = sc[RootHost]
    BY <1>1, <1>2, <1>5, <1>7
  <2> QED  BY <1>1, <1>2, <1>5, <2>1 DEF RootPhase, RootCreated, setup, join
<1>8. RootPhase'
  BY <1>6, <1>7
<1>9. \A s \in Servers : (GreetingTo(s)' => GreetingTo(s)) /\ (JoinedOf(s)' => JoinedOf(s))
  BY <1>1 DEF GreetingTo, JoinedOf
<1> QED  BY <1>1, <1>4, <1>8, <1>9, JoinAside

\* An instance that is made has the fields it is given.
LEMMA NewlyConfigured ==
    ASSUME NEW fields
    PROVE  Configured(NewChainBoostProtocol, fields) = [created |-> TRUE, config |-> fields]
<1>1. ASSUME NEW t, NEW a, NEW f
      PROVE  [[created |-> t, config |-> a] EXCEPT !.config = @ \cup f]
               = [created |-> t, config |-> a \cup f]
  OBVIOUS
<1>2. {} \cup fields = fields
  OBVIOUS
<1>3. Configured(NewChainBoostProtocol, fields) = [created |-> TRUE, config |-> {} \cup fields]
  BY <1>1, Zenon DEF Configured, NewChainBoostProtocol
<1> QED  BY <1>2, <1>3

LEMMA CreateJoin ==
    ASSUME JoinInv, CreateProtocols
    PROVE  JoinInv'
<1>1. sim[RootHost] = "loaded" /\ UNCHANGED <<setup, sc, invite, greeting, running, lost>>
  BY DEF CreateProtocols
<1>2. ~RootCreated /\ RootHost' = RootHost /\ RootHost \in Addresses /\ sc[RootHost] = readBack
  BY <1>1, JoinFacts DEF JoinInv, RootPhase, setup, RootHost, HostOf
<1>3. CASE Exit(RootHost) /\ UNCHANGED <<CalledWG, JoinedWG, instance>>
  BY <1>1, <1>3, ExitJoin DEF join
<1>4. CASE sim' = [sim EXCEPT ![RootHost] = "failed"] /\ UNCHANGED <<CalledWG, JoinedWG, instance, msgs>>
  <2>1. UNCHANGED <<setup, join>>
    BY <1>1, <1>4 DEF join
  <2>2. sim' \in [Addresses -> {"off", "failed", "loaded", "waiting", "inviting", "starting",
                                "running", "closing", "closeAll", "exited"}]
        /\ sim'[RootHost] = "failed" /\ sc' \in [Addresses -> {NoConfig, readBack}]
    BY <1>1, <1>2, <1>4 DEF JoinInv, SimTyped
  <2>3. RootPhase'
    BY <1>1, <1>2, <2>2 DEF RootPhase, setup
  <2>4. \A s \in Servers : (GreetingTo(s)' => GreetingTo(s)) /\ (JoinedOf(s)' => JoinedOf(s))
    BY <1>4 DEF GreetingTo, JoinedOf
  <2> QED  BY <2>1, <2>2, <2>3, <2>4, JoinAside
<1>5. CASE /\ instance' = [instance EXCEPT ![RootNode] =
                             Configured(NewChainBoostProtocol, Configuration)]
           /\ sim' = [sim EXCEPT ![RootHost] = "inviting"]
           /\ JoinedWG' = OthersOf(NrServers) /\ CalledWG' = OthersOf(NrServers)
           /\ UNCHANGED msgs
  <2>1. RootNode \in Servers /\ NrServers \in Nat \ {0} /\ SetupSound
    BY JoinFacts
  <2>2. /\ instance'[RootNode] = [created |-> TRUE, config |-> Configuration]
        /\ \A s \in Servers \ {RootNode} : instance'[s] = instance[s]
        /\ instance' \in [Servers -> [created : BOOLEAN, config : SUBSET Configuration]]
    <3>1. Configured(NewChainBoostProtocol, Configuration) = [created |-> TRUE, config |-> Configuration]
      BY NewlyConfigured
    <3> QED  BY <1>5, <2>1, <3>1 DEF JoinInv, SimTyped
  <2>3. Servers' = Servers /\ Others' = Others /\ NrServers' = NrServers
    BY <1>1 DEF Servers, Others, NrServers, setup
  <2>4. \A s : Called(s)' <=> Called(s)
    BY <1>1 DEF Called, Batches, Begin, NrServers, Listed, setup
  <2>5. SimTyped'
    <3>1. sim' \in [Addresses -> {"off", "failed", "loaded", "waiting", "inviting", "starting",
                                  "running", "closing", "closeAll", "exited"}]
      BY <1>2, <1>5 DEF JoinInv, SimTyped
    <3>2. CalledWG' \in Int /\ JoinedWG' \in Int
      BY <1>5, <2>1 DEF OthersOf
    <3> QED  BY <1>1, <2>2, <2>3, <3>1, <3>2 DEF JoinInv, SimTyped, Addresses, Batches, NrServers, setup
  <2>6. RootPhase'
    <3>1. sim'[RootHost] = "inviting"
      BY <1>2, <1>5 DEF JoinInv, SimTyped
    <3> QED  BY <1>1, <1>2, <2>2, <3>1 DEF RootPhase, RootCreated, setup
  <2>7. SetupFixed' /\ BatchesApart'
    BY <1>1 DEF JoinInv, SetupFixed, BatchesApart, Batches, Begin, NrServers, setup
  <2>8. RootCreated' /\ LeaderNeeds \subseteq Configuration
    BY <2>2 DEF RootCreated, LeaderNeeds, Configuration
  <2>9. JoinPath'
    BY <1>1, <1>5, <2>2, <2>3, <2>4, <2>8 DEF JoinInv, JoinPath, GreetingTo, JoinedOf
  <2>10. GroupsCount'
    <3>1. Unjoined' \subseteq Others /\ Uncalled' \subseteq Others
      BY <2>3 DEF Unjoined, Uncalled
    <3>2. Cardinality(Others) = NrServers - 1
      <4>1. IsFiniteSet(Servers) /\ Cardinality(Servers) = NrServers
        BY <2>1, FS_Interval DEF Servers
      <4> QED  BY <2>1, <4>1, FS_RemoveElement DEF Others
    <3>3. IsFiniteSet(Others)
      BY JoinFacts
    <3>4. /\ Cardinality(Unjoined') \in Nat /\ Cardinality(Unjoined') <= Cardinality(Others)
          /\ Cardinality(Uncalled') \in Nat /\ Cardinality(Uncalled') <= Cardinality(Others)
      BY <3>1, <3>3, FewerServers
    <3> QED  BY <1>5, <2>1, <2>8, <3>2, <3>4 DEF GroupsCount, OthersOf
  <2>11. running' => \A s \in Servers' : instance'[s].created
    BY <1>1, <2>2, <2>3 DEF JoinInv
  <2> QED  BY <2>5, <2>6, <2>7, <2>9, <2>10, <2>11 DEF JoinInv
<1> QED  BY <1>3, <1>4, <1>5 DEF CreateProtocols
\* A batch that goes on to its next position has called the server there, and
\* nobody else; no batch had called it before.
LEMMA BatchGoesOn ==
    ASSUME JoinInv, NEW b \in Batches, Inviting(b), UNCHANGED setup,
           NEW err \in BOOLEAN, invite' = [invite EXCEPT ![b] = [pos |-> @.pos + 1, err |-> err]]
    PROVE  LET child == Listed[invite[b].pos + 1]
           IN  /\ child \in Servers /\ ~Called(child)
               /\ \A s : Called(s)' <=> Called(s) \/ s = child
               /\ RootOrder = Listed /\ RootCreated
               /\ BatchesApart' /\ invite' \in [Batches -> [pos : Nat, err : BOOLEAN]]
<1> DEFINE p == invite[b].pos
<1>1. SetupSound /\ NrServers \in Nat \ {0} /\ batchSize \in Nat \ {0} /\ RootHost \in Addresses
  BY JoinFacts, SimulationAssumption
<1>2. \A d \in Batches : d \in Nat /\ Begin(d) \in Nat /\ Begin(d) = d * batchSize
  <2>1. NrServers \div batchSize \in Nat
    BY <1>1
  <2> QED  BY <1>1, <2>1 DEF Batches, Begin
<1>3. sim[RootHost] = "inviting" /\ p < End(b)
  BY DEF Inviting
<1>4. invite \in [Batches -> [pos : Nat, err : BOOLEAN]] /\ BatchesApart
  BY DEF JoinInv, SimTyped
<1>5. p \in Nat /\ Begin(b) <= p /\ p < Begin(b) + batchSize /\ p < NrServers
  <2>1. p \in Nat /\ Begin(b) <= p
    BY <1>4 DEF BatchesApart
  <2> QED  BY <1>1, <1>2, <1>3, <2>1 DEF End
<1>6. Listed[p + 1] \in Servers
  BY <1>1, <1>5 DEF SetupSound, Range
<1>7. \A i \in 0..(NrServers - 1) : Listed[i + 1] = Listed[p + 1] => i = p
  <2> SUFFICES ASSUME NEW i \in 0..(NrServers - 1), Listed[i + 1] = Listed[p + 1] PROVE i = p
    OBVIOUS
  <2>1. i + 1 \in 1..NrServers /\ p + 1 \in 1..NrServers
    BY <1>1, <1>5
  <2>2. i + 1 = p + 1
    BY <1>1, <2>1 DEF SetupSound, IsInjective
  <2> QED  BY <1>5, <2>2
<1>8. ~Called(Listed[p + 1])
  <2> SUFFICES ASSUME NEW d \in Batches, NEW i \in 0..(NrServers - 1),
                      Begin(d) <= i, i < invite[d].pos, Listed[i + 1] = Listed[p + 1]
               PROVE  FALSE
    BY DEF Called
  <2>1. i = p
    BY <1>7
  <2>2. invite[d].pos \in Nat /\ invite[d].pos <= Begin(d) + batchSize
    BY <1>4 DEF BatchesApart
  <2>3. Begin(d) <= p /\ p < Begin(d) + batchSize
    BY <1>1, <1>2, <1>5, <2>1, <2>2
  <2>4. b = d
    BY <1>1, <1>2, <1>5, <2>3, OneBatch
  <2> QED  BY <1>5, <2>1, <2>4
<1>9. /\ invite'[b].pos = p + 1 /\ \A d \in Batches \ {b} : invite'[d] = invite[d]
      /\ invite' \in [Batches -> [pos : Nat, err : BOOLEAN]]
  <2>1. p + 1 \in Nat
    BY <1>5
  <2>2. [pos |-> p + 1, err |-> err] \in [pos : Nat, err : BOOLEAN]
    BY <2>1
  <2> QED  BY <1>4, <2>2
<1>10. Batches' = Batches /\ NrServers' = NrServers /\ Listed' = Listed /\ \A d : Begin(d)' = Begin(d)
  BY DEF Batches, NrServers, Listed, Begin, setup
<1> HIDE DEF p
<1>11. ASSUME NEW s PROVE Called(s)' <=> Called(s) \/ s = Listed[p + 1]
  <2>1. ASSUME Called(s)' PROVE Called(s) \/ s = Listed[p + 1]
    <3>1. PICK d \in Batches, i \in 0..(NrServers - 1) :
             Begin(d) <= i /\ i < invite'[d].pos /\ Listed[i + 1] = s
      BY <1>10, <2>1 DEF Called
    <3>2. CASE d = b /\ i = p
      BY <3>1, <3>2
    <3>3. CASE d = b /\ i # p
      <4>1. i < p
        BY <1>5, <1>9, <3>1, <3>3
      <4> QED  BY <3>1, <3>3, <4>1 DEF Called, p
    <3>4. CASE d # b
      BY <1>9, <3>1, <3>4 DEF Called
    <3> QED  BY <3>2, <3>3, <3>4
  <2>2. ASSUME s = Listed[p + 1] PROVE Called(s)'
    <3>1. p \in 0..(NrServers - 1) /\ p < p + 1
      BY <1>1, <1>5
    <3> QED  BY <1>5, <1>9, <1>10, <2>2, <3>1 DEF Called
  <2>3. ASSUME Called(s) PROVE Called(s)'
    <3>1. PICK d \in Batches, i \in 0..(NrServers - 1) :
             Begin(d) <= i /\ i < invite[d].pos /\ Listed[i + 1] = s
      BY <2>3 DEF Called
    <3>2. i < invite'[d].pos
      <4>1. CASE d = b
        BY <1>5, <1>9, <3>1, <4>1 DEF p
      <4>2. CASE d # b
        BY <1>9, <3>1, <4>2
      <4> QED  BY <4>1, <4>2
    <3> QED  BY <1>10, <3>1, <3>2 DEF Called
  <2> QED  BY <2>1, <2>2, <2>3
<1>12. RootOrder = Listed /\ RootCreated
  BY <1>3 DEF JoinInv, RootPhase, RootOrder, Listed
<1>13. BatchesApart'
  <2> SUFFICES ASSUME NEW d \in Batches
               PROVE  Begin(d) <= invite'[d].pos /\ invite'[d].pos <= Begin(d) + batchSize
    BY <1>10 DEF BatchesApart
  <2>1. CASE d = b
    BY <1>1, <1>2, <1>5, <1>9, <2>1
  <2>2. CASE d # b
    BY <1>4, <1>9, <2>2 DEF BatchesApart
  <2> QED  BY <2>1, <2>2
<1> QED  BY <1>6, <1>8, <1>9, <1>11, <1>12, <1>13 DEF p

LEMMA SkipJoin ==
    ASSUME JoinInv, NEW b \in Batches, SkipRoot(b)
    PROVE  JoinInv'
<1>1. /\ Inviting(b) /\ RootOrder[invite[b].pos + 1] = RootNode
      /\ invite' = [invite EXCEPT ![b].pos = @ + 1]
      /\ UNCHANGED <<setup, sim, sc, server, wgServer, CalledWG, JoinedWG, instance, greeting,
                     running, lost, close, msgs>>
  BY DEF SkipRoot
<1>2. invite[b] \in [pos : Nat, err : BOOLEAN]
  BY DEF JoinInv, SimTyped
<1>3. invite[b].err \in BOOLEAN /\ invite' = [invite EXCEPT ![b] = [pos |-> @.pos + 1, err |-> invite[b].err]]
  <2>1. [invite[b] EXCEPT !.pos = @ + 1] = [pos |-> invite[b].pos + 1, err |-> invite[b].err]
    BY <1>2
  <2> QED  BY <1>1, <1>2, <2>1
<1>4. UNCHANGED setup
  BY <1>1
<1> DEFINE child == Listed[invite[b].pos + 1]
<1>5. /\ \A s : Called(s)' <=> Called(s) \/ s = child
      /\ RootOrder = Listed /\ BatchesApart' /\ invite' \in [Batches -> [pos : Nat, err : BOOLEAN]]
  BY <1>1, <1>3, <1>4, BatchGoesOn
<1>6. child = RootNode
  BY <1>1, <1>5
<1> HIDE DEF child
<1>7. Servers' = Servers /\ Others' = Others /\ RootHost' = RootHost /\ Batches' = Batches
      /\ Addresses' = Addresses
  BY <1>4 DEF Servers, Others, NrServers, RootHost, HostOf, Batches, Addresses, setup
<1>8. SetupFixed' /\ SimTyped'
  BY <1>1, <1>5, <1>7 DEF JoinInv, SetupFixed, SimTyped, setup
<1>9. RootPhase'
  BY <1>1, <1>7 DEF JoinInv, RootPhase, RootCreated, setup
<1>10. JoinPath'
  BY <1>1, <1>5, <1>7 DEF JoinInv, JoinPath, GreetingTo, JoinedOf, RootCreated
<1>11. Unjoined' = Unjoined /\ Uncalled' = Uncalled
  BY <1>1, <1>5, <1>6, <1>7 DEF Unjoined, Uncalled, Others, JoinedOf
<1>12. GroupsCount'
  BY <1>1, <1>11 DEF JoinInv, GroupsCount, RootCreated
<1> QED  BY <1>1, <1>5, <1>7, <1>8, <1>9, <1>10, <1>12 DEF JoinInv
LEMMA InviteJoin ==
    ASSUME JoinInv, NEW b \in Batches, Invite(b)
    PROVE  JoinInv'
<1> DEFINE child == Listed[invite[b].pos + 1]
           called == RootOrder[invite[b].pos + 1]
<1>1. /\ Inviting(b) /\ called # RootNode
      /\ msgs' = msgs \cup {Msg("Hello", RootNode, called)}
      /\ CalledWG' = CalledWG - 1
      /\ UNCHANGED <<setup, sim, sc, JoinedWG, instance, greeting, running>>
  BY DEF Invite
<1>2. PICK late \in BOOLEAN : invite' = [invite EXCEPT ![b] = [pos |-> @.pos + 1, err |-> late]]
  BY DEF Invite
<1>3. /\ child \in Servers /\ ~Called(child)
      /\ \A s : Called(s)' <=> Called(s) \/ s = child
      /\ RootOrder = Listed /\ RootCreated
      /\ BatchesApart' /\ invite' \in [Batches -> [pos : Nat, err : BOOLEAN]]
  BY <1>1, <1>2, BatchGoesOn
<1>4. called = child
  BY <1>3
<1> HIDE DEF child, called
<1>5. Servers' = Servers /\ Others' = Others /\ RootHost' = RootHost /\ Batches' = Batches
      /\ Addresses' = Addresses
  BY <1>1 DEF Servers, Others, NrServers, RootHost, HostOf, Batches, Addresses, setup
<1>6. SetupFixed' /\ SimTyped'
  <2>1. CalledWG' \in Int
    BY <1>1 DEF JoinInv, SimTyped
  <2> QED  BY <1>1, <1>3, <1>5, <2>1 DEF JoinInv, SetupFixed, SimTyped, setup
<1>7. RootPhase'
  BY <1>1, <1>5 DEF JoinInv, RootPhase, RootCreated, setup
<1>8. /\ \A s : GreetingTo(s)' <=> GreetingTo(s) \/ s = child
      /\ \A s : JoinedOf(s)' <=> JoinedOf(s)
  BY <1>1, <1>4 DEF GreetingTo, JoinedOf, Msg
<1>9. JoinPath'
  <2>1. ~instance[child].created
    BY <1>1, <1>3, <1>4 DEF JoinInv, JoinPath
  <2> QED  BY <1>1, <1>3, <1>4, <1>5, <1>8, <2>1 DEF JoinInv, JoinPath, RootCreated
<1>10. GroupsCount'
  <2>1. Unjoined' = Unjoined
    BY <1>1, <1>5, <1>8 DEF Unjoined
  <2>2. Uncalled' \subseteq Uncalled /\ child \in Uncalled \ Uncalled'
    BY <1>1, <1>3, <1>4, <1>5 DEF Uncalled, Others
  <2>3. /\ Cardinality(Uncalled') \in Nat /\ Cardinality(Uncalled) \in Nat
        /\ Cardinality(Uncalled') + 1 <= Cardinality(Uncalled)
    BY <2>2, JoinFacts, FewerServers
  <2>4. CalledWG >= Cardinality(Uncalled) /\ CalledWG \in Int /\ JoinedWG >= Cardinality(Unjoined)
    BY <1>3 DEF JoinInv, GroupsCount, SimTyped
  <2>5. CalledWG' >= Cardinality(Uncalled')
    BY <1>1, <2>3, <2>4
  <2> QED  BY <1>1, <1>3, <2>1, <2>4, <2>5 DEF GroupsCount, RootCreated
<1> QED  BY <1>1, <1>3, <1>5, <1>6, <1>7, <1>9, <1>10 DEF JoinInv

LEMMA InviteTimesOutJoin ==
    ASSUME JoinInv, NEW b \in Batches, InviteTimesOut(b)
    PROVE  JoinInv'
<1>1. /\ invite' = [invite EXCEPT ![b].err = TRUE]
      /\ UNCHANGED <<setup, sim, sc, CalledWG, JoinedWG, instance, greeting, running, msgs>>
  BY DEF InviteTimesOut
<1>2. invite \in [Batches -> [pos : Nat, err : BOOLEAN]]
  BY DEF JoinInv, SimTyped
<1>3. /\ invite' \in [Batches -> [pos : Nat, err : BOOLEAN]]
      /\ \A d \in Batches : invite'[d].pos = invite[d].pos
  <2>1. [invite[b] EXCEPT !.err = TRUE] = [pos |-> invite[b].pos, err |-> TRUE]
    <3>1. ASSUME NEW rec \in [pos : Nat, err : BOOLEAN], NEW t
          PROVE  [rec EXCEPT !.err = t] = [pos |-> rec.pos, err |-> t]
      OBVIOUS
    <3>2. invite[b] \in [pos : Nat, err : BOOLEAN]
      BY <1>2
    <3> QED  BY <3>1, <3>2, Zenon
  <2>2. invite' = [invite EXCEPT ![b] = [pos |-> invite[b].pos, err |-> TRUE]]
    BY <1>1, <1>2, <2>1
  <2> QED  BY <1>2, <2>2
<1>4. Servers' = Servers /\ Others' = Others /\ RootHost' = RootHost /\ Batches' = Batches
      /\ Addresses' = Addresses /\ NrServers' = NrServers /\ \A d : Begin(d)' = Begin(d)
  BY <1>1 DEF Servers, Others, NrServers, RootHost, HostOf, Batches, Addresses, Begin, setup
<1>5. \A s : Called(s)' <=> Called(s)
  BY <1>1, <1>3, <1>4 DEF Called, Listed, setup
<1>6. SetupFixed' /\ SimTyped' /\ RootPhase' /\ BatchesApart'
  BY <1>1, <1>3, <1>4 DEF JoinInv, SetupFixed, SimTyped, RootPhase, RootCreated, BatchesApart, setup
<1>7. JoinPath'
  BY <1>1, <1>4, <1>5 DEF JoinInv, JoinPath, GreetingTo, JoinedOf, RootCreated
<1>8. Unjoined' = Unjoined /\ Uncalled' = Uncalled
  BY <1>1, <1>4, <1>5 DEF Unjoined, Uncalled, JoinedOf
<1>9. GroupsCount'
  BY <1>1, <1>8 DEF JoinInv, GroupsCount, RootCreated
<1> QED  BY <1>1, <1>4, <1>6, <1>7, <1>9 DEF JoinInv

\* A step of the root's program that does not touch joining.
LEMMA RootGoesOn ==
    ASSUME JoinInv, UNCHANGED <<setup, sc, join>>,
           NEW place \in {"failed", "waiting", "running", "closing", "closeAll", "starting"},
           sim' = [sim EXCEPT ![RootHost] = place],
           place = "starting" => RootCreated,
           sim[RootHost] \notin {"off", "exited"},
           \A s \in Servers : (GreetingTo(s)' => GreetingTo(s)) /\ (JoinedOf(s)' => JoinedOf(s))
    PROVE  JoinInv'
<1>1. RootHost' = RootHost /\ RootHost \in Addresses
  BY JoinFacts DEF setup, RootHost, HostOf
<1>2. sim' \in [Addresses -> {"off", "failed", "loaded", "waiting", "inviting", "starting",
                              "running", "closing", "closeAll", "exited"}]
      /\ sc' \in [Addresses -> {NoConfig, readBack}] /\ sim'[RootHost] = place
  BY <1>1 DEF JoinInv, SimTyped
<1>3. RootPhase'
  BY <1>1, <1>2 DEF JoinInv, RootPhase, RootCreated, setup, join
<1> QED  BY <1>2, <1>3, JoinAside

LEMMA EndInvitesJoin ==
    ASSUME JoinInv, EndInvites
    PROVE  JoinInv'
<1>1. /\ sim[RootHost] = "inviting" /\ UNCHANGED <<setup, sc, join, msgs>>
      /\ \/ sim' = [sim EXCEPT ![RootHost] = "failed"]
         \/ sim' = [sim EXCEPT ![RootHost] = "starting"]
  BY DEF EndInvites
<1>2. \A s \in Servers : (GreetingTo(s)' => GreetingTo(s)) /\ (JoinedOf(s)' => JoinedOf(s))
  BY <1>1 DEF GreetingTo, JoinedOf
<1>3. RootCreated
  BY <1>1 DEF JoinInv, RootPhase
<1> QED  BY <1>1, <1>2, <1>3, RootGoesOn
\* A step of one server on the way of its Joined: the others stay where they
\* are, and the server is no more missing than before.
LEMMA OneServerMoves ==
    ASSUME JoinInv, NEW s \in Servers, s # RootNode, RootCreated,
           UNCHANGED <<setup, sim, sc, invite, CalledWG, running>>,
           greeting' \subseteq Servers, JoinedWG' \in Int,
           instance' \in [Servers -> [created : BOOLEAN, config : SUBSET Configuration]],
           \A r \in Servers \ {s} :
             /\ (GreetingTo(r)' <=> GreetingTo(r)) /\ (JoinedOf(r)' <=> JoinedOf(r))
             /\ (r \in greeting' <=> r \in greeting) /\ instance'[r] = instance[r],
           Called(s), instance[s].created => instance'[s].created,
           GreetingTo(s)' => ~instance'[s].created,
           s \in greeting' => instance'[s].created /\ ~JoinedOf(s)',
           JoinedOf(s)' => instance'[s].created,
           instance'[s].created => LeaderNeeds \subseteq instance'[s].config,
           \/ JoinedWG' = JoinedWG /\ (s \in Unjoined' => s \in Unjoined)
           \/ JoinedWG' = JoinedWG - 1 /\ s \in Unjoined /\ s \notin Unjoined'
    PROVE  JoinInv'
<1>1. Servers' = Servers /\ Others' = Others /\ RootHost' = RootHost /\ Batches' = Batches
      /\ Addresses' = Addresses /\ NrServers' = NrServers /\ (\A d : Begin(d)' = Begin(d))
      /\ RootNode \in Servers
  BY JoinFacts DEF Servers, Others, NrServers, RootHost, HostOf, Batches, Addresses, Begin, setup
<1>2. \A r : Called(r)' <=> Called(r)
  BY <1>1 DEF Called, Listed, setup
<1>3. RootCreated'
  BY <1>1 DEF RootCreated
<1>4. SetupFixed' /\ SimTyped' /\ BatchesApart'
  BY <1>1 DEF JoinInv, SetupFixed, SimTyped, BatchesApart, setup
<1>5. RootPhase'
  BY <1>1, <1>3 DEF JoinInv, RootPhase, setup
<1>6. JoinPath'
  BY <1>1, <1>2, <1>3 DEF JoinInv, JoinPath
<1>7. GroupsCount'
  <2>1. Unjoined' \ {s} = Unjoined \ {s} /\ Uncalled' = Uncalled /\ Unjoined' \subseteq Others
    BY <1>1, <1>2 DEF Unjoined, Uncalled, Others
  <2>2. /\ JoinedWG >= Cardinality(Unjoined) /\ CalledWG >= Cardinality(Uncalled)
        /\ JoinedWG \in Int
    BY DEF JoinInv, GroupsCount, SimTyped
  <2>3. CASE JoinedWG' = JoinedWG /\ (s \in Unjoined' => s \in Unjoined)
    <3>1. Unjoined' \subseteq Unjoined
      BY <2>1, <2>3
    <3>2. Cardinality(Unjoined') <= Cardinality(Unjoined)
          /\ Cardinality(Unjoined') \in Nat /\ Cardinality(Unjoined) \in Nat
      BY <3>1, JoinFacts, FewerServers
    <3> QED  BY <1>3, <2>1, <2>2, <2>3, <3>2 DEF GroupsCount
  <2>4. CASE JoinedWG' = JoinedWG - 1 /\ s \in Unjoined /\ s \notin Unjoined'
    <3>1. Unjoined' \subseteq Unjoined /\ s \in Unjoined \ Unjoined'
      BY <2>1, <2>4
    <3>2. Cardinality(Unjoined') + 1 <= Cardinality(Unjoined)
          /\ Cardinality(Unjoined') \in Nat /\ Cardinality(Unjoined) \in Nat
      BY <3>1, JoinFacts, FewerServers
    <3> QED  BY <1>3, <2>1, <2>2, <2>4, <3>2 DEF GroupsCount
  <2> QED  BY <2>3, <2>4
<1>8. running' => \A r \in Servers' : instance'[r].created
  BY <1>1 DEF JoinInv
<1> QED  BY <1>4, <1>5, <1>6, <1>7, <1>8 DEF JoinInv

LEMMA ReceiveHelloJoin ==
    ASSUME JoinInv, NEW s \in Servers, ReceiveHello(s)
    PROVE  JoinInv'
<1> DEFINE fields == HelloChainBoost \cap TakenOver
<1>1. /\ GreetingTo(s) /\ msgs' = msgs \ {Msg("Hello", RootNode, s)}
      /\ instance' = [instance EXCEPT ![s] = Configured(NewChainBoostProtocol, fields)]
      /\ greeting' = greeting \cup {s} \/ greeting' = greeting
      /\ UNCHANGED <<setup, sim, sc, invite, CalledWG, JoinedWG, running>>
  BY DEF ReceiveHello, GreetingTo
<1>2. s # RootNode /\ Called(s) /\ ~instance[s].created /\ RootCreated /\ ~JoinedOf(s) /\ s \notin greeting
  BY <1>1 DEF JoinInv, JoinPath
<1>3. instance \in [Servers -> [created : BOOLEAN, config : SUBSET Configuration]]
      /\ greeting \subseteq Servers /\ JoinedWG \in Int
  BY DEF JoinInv, SimTyped
<1>4. LeaderNeeds \subseteq fields /\ fields \subseteq Configuration
  BY DEF LeaderNeeds, HelloChainBoost, TakenOver, Configuration
<1> HIDE DEF fields
<1>5. Configured(NewChainBoostProtocol, fields) = [created |-> TRUE, config |-> fields]
  BY NewlyConfigured
<1>6. /\ instance'[s] = [created |-> TRUE, config |-> fields]
      /\ \A r \in Servers \ {s} : instance'[r] = instance[r]
      /\ instance' \in [Servers -> [created : BOOLEAN, config : SUBSET Configuration]]
  <2>1. [created |-> TRUE, config |-> fields] \in [created : BOOLEAN, config : SUBSET Configuration]
    BY <1>4
  <2> QED  BY <1>1, <1>3, <1>5, <2>1
<1>7. instance'[s].created /\ instance'[s].config = fields
  BY <1>6
<1>8. /\ \A r \in Servers \ {s} : GreetingTo(r)' <=> GreetingTo(r)
      /\ \A r \in Servers : JoinedOf(r)' <=> JoinedOf(r)
      /\ ~GreetingTo(s)'
  BY <1>1 DEF GreetingTo, JoinedOf, Msg
<1>9. s \in Unjoined
  BY <1>2 DEF Unjoined, Others
<1>10. greeting' \subseteq Servers /\ JoinedWG' = JoinedWG
       /\ \A r \in Servers \ {s} : r \in greeting' <=> r \in greeting
  BY <1>1, <1>3
<1> QED  BY <1>1, <1>2, <1>3, <1>4, <1>6, <1>7, <1>8, <1>9, <1>10, OneServerMoves

LEMMA SendJoinedJoin ==
    ASSUME JoinInv, NEW s \in Servers, SendJoined(s) \/ JoinedFails(s)
    PROVE  JoinInv'
<1>1. /\ s \in greeting /\ greeting' = greeting \ {s}
      /\ msgs' = msgs \cup {Msg("Joined", s, RootNode)} \/ msgs' = msgs
      /\ UNCHANGED <<setup, sim, sc, invite, CalledWG, JoinedWG, instance, running>>
  BY DEF SendJoined, JoinedFails
<1>2. s # RootNode /\ Called(s) /\ instance[s].created /\ RootCreated
      /\ LeaderNeeds \subseteq instance[s].config /\ ~GreetingTo(s)
  BY <1>1 DEF JoinInv, JoinPath
<1>3. instance \in [Servers -> [created : BOOLEAN, config : SUBSET Configuration]]
      /\ greeting \subseteq Servers /\ JoinedWG \in Int
  BY DEF JoinInv, SimTyped
<1>4. /\ \A r \in Servers : GreetingTo(r)' <=> GreetingTo(r)
      /\ \A r \in Servers \ {s} : JoinedOf(r)' <=> JoinedOf(r)
  BY <1>1 DEF GreetingTo, JoinedOf, Msg
<1>5. s \in Unjoined
  BY <1>1, <1>2 DEF Unjoined, Others
<1>6. greeting' \subseteq Servers /\ s \notin greeting'
      /\ \A r \in Servers \ {s} : r \in greeting' <=> r \in greeting
  BY <1>1, <1>3
<1> QED  BY <1>1, <1>2, <1>3, <1>4, <1>5, <1>6, OneServerMoves

LEMMA ReceiveJoinedJoin ==
    ASSUME JoinInv, NEW s \in Servers, ReceiveJoined(s)
    PROVE  JoinInv'
<1>1. /\ JoinedOf(s) /\ msgs' = msgs \ {Msg("Joined", s, RootNode)}
      /\ JoinedWG' = JoinedWG - 1
      /\ UNCHANGED <<setup, sim, sc, invite, CalledWG, instance, greeting, running>>
  BY DEF ReceiveJoined, JoinedOf
<1>2. s # RootNode /\ Called(s) /\ instance[s].created /\ RootCreated
      /\ LeaderNeeds \subseteq instance[s].config /\ ~GreetingTo(s) /\ s \notin greeting
  BY <1>1 DEF JoinInv, JoinPath
<1>3. instance \in [Servers -> [created : BOOLEAN, config : SUBSET Configuration]]
      /\ greeting \subseteq Servers /\ JoinedWG \in Int /\ JoinedWG' \in Int
  BY <1>1 DEF JoinInv, SimTyped
<1>4. /\ \A r \in Servers : GreetingTo(r)' <=> GreetingTo(r)
      /\ \A r \in Servers \ {s} : JoinedOf(r)' <=> JoinedOf(r)
      /\ ~JoinedOf(s)'
  BY <1>1 DEF GreetingTo, JoinedOf, Msg
<1>5. s \in Unjoined /\ s \notin Unjoined'
  <2>1. Others' = Others
    BY <1>1 DEF Others, Servers, NrServers, setup
  <2> QED  BY <1>1, <1>2, <1>4, <2>1 DEF Unjoined, Others
<1> QED  BY <1>1, <1>2, <1>3, <1>4, <1>5, OneServerMoves

LEMMA StartProtocolsJoin ==
    ASSUME JoinInv, StartProtocols
    PROVE  JoinInv'
<1>1. /\ sim[RootHost] = "starting" /\ JoinedWG = 0 /\ running' = TRUE
      /\ sim' = [sim EXCEPT ![RootHost] = "running"]
      /\ UNCHANGED <<setup, sc, invite, CalledWG, JoinedWG, instance, greeting, msgs>>
  BY DEF StartProtocols
<1>2. RootCreated
  BY <1>1 DEF JoinInv, RootPhase
<1>3. Servers' = Servers /\ Others' = Others /\ RootHost' = RootHost /\ Batches' = Batches
      /\ Addresses' = Addresses /\ NrServers' = NrServers /\ (\A d : Begin(d)' = Begin(d))
      /\ RootNode \in Servers /\ RootHost \in Addresses
  BY <1>1, JoinFacts DEF Servers, Others, NrServers, RootHost, HostOf, Batches, Addresses, Begin, setup
<1>4. \A r : Called(r)' <=> Called(r)
  BY <1>1, <1>3 DEF Called, Listed, setup
<1>5. \A s \in Servers : instance[s].created
  <2>1. Cardinality(Unjoined) \in Nat /\ 0 >= Cardinality(Unjoined) /\ IsFiniteSet(Unjoined)
    <3>1. Unjoined \subseteq Others /\ IsFiniteSet(Others)
      BY JoinFacts
    <3>2. IsFiniteSet(Unjoined) /\ Cardinality(Unjoined) \in Nat
      BY <3>1, FS_Subset, FS_CardinalityType
    <3> QED  BY <1>1, <1>2, <3>2 DEF JoinInv, GroupsCount
  <2>2. Unjoined = {}
    BY <2>1, FS_EmptySet
  <2> QED  BY <1>2, <2>2 DEF Unjoined, Others, RootCreated
<1>6. SetupFixed' /\ BatchesApart'
  BY <1>1, <1>3 DEF JoinInv, SetupFixed, BatchesApart, setup
<1>7. sim' \in [Addresses -> {"off", "failed", "loaded", "waiting", "inviting", "starting",
                              "running", "closing", "closeAll", "exited"}]
      /\ sim'[RootHost] = "running"
  BY <1>1, <1>3 DEF JoinInv, SimTyped
<1>8. SimTyped'
  <2>1. running' \in BOOLEAN
    BY <1>1, Zenon
  <2> QED  BY <1>1, <1>3, <1>7, <2>1 DEF JoinInv, SimTyped, setup
<1>9. RootPhase'
  BY <1>1, <1>3, <1>7 DEF JoinInv, RootPhase, setup
<1>10. JoinPath'
  BY <1>1, <1>3, <1>4 DEF JoinInv, JoinPath, GreetingTo, JoinedOf, RootCreated
<1>11. Unjoined' = Unjoined /\ Uncalled' = Uncalled
  BY <1>1, <1>3, <1>4 DEF Unjoined, Uncalled, JoinedOf
<1>12. GroupsCount'
  BY <1>1, <1>11 DEF JoinInv, GroupsCount, RootCreated
<1> QED  BY <1>1, <1>3, <1>5, <1>6, <1>8, <1>9, <1>10, <1>12 DEF JoinInv
\* The messages of closing are not those of joining.
LEMMA ClosingMessages ==
    ASSUME NEW new, \A m \in new : m.type \in {"Done", "PrepareClose", "Close"},
           msgs' \subseteq msgs \cup new
    PROVE  \A s : (GreetingTo(s)' => GreetingTo(s)) /\ (JoinedOf(s)' => JoinedOf(s))
<1>1. \A s : Msg("Hello", RootNode, s) \notin new /\ Msg("Joined", s, RootNode) \notin new
  BY DEF Msg
<1> QED  BY <1>1 DEF GreetingTo, JoinedOf

LEMMA StartJoin ==
    ASSUME JoinInv, Start
    PROVE  JoinInv'
<1>1. ASSUME NEW s \in Servers, Listen(s) \/ MarkStarted(s) PROVE JoinInv'
  <2>1. UNCHANGED <<setup, sim, sc, join, msgs>>
    BY <1>1 DEF Listen, MarkStarted
  <2>2. \A r \in Servers : (GreetingTo(r)' => GreetingTo(r)) /\ (JoinedOf(r)' => JoinedOf(r))
    BY <2>1 DEF GreetingTo, JoinedOf
  <2>3. RootPhase'
    BY <2>1 DEF JoinInv, RootPhase, RootHost, HostOf, RootCreated, setup, join
  <2> QED  BY <2>1, <2>2, <2>3, JoinAside DEF JoinInv, SimTyped
<1> QED  BY <1>1, LaunchJoin DEF Start

LEMMA JoiningJoin ==
    ASSUME JoinInv, Joining
    PROVE  JoinInv'
BY CreateJoin, EndInvitesJoin, StartProtocolsJoin, SkipJoin, InviteJoin, ReceiveHelloJoin,
   SendJoinedJoin, ReceiveJoinedJoin DEF Joining

LEMMA FailureJoin ==
    ASSUME JoinInv, Failure
    PROVE  JoinInv'
<1>1. ASSUME NEW h \in Addresses, GiveUp(h) PROVE JoinInv'
  <2>1. Exit(h) /\ UNCHANGED <<setup, sc, join>>
    BY <1>1 DEF GiveUp
  <2> QED  BY <2>1, ExitJoin
<1> QED  BY <1>1, InviteTimesOutJoin, SendJoinedJoin DEF Failure

LEMMA ClosingJoin ==
    ASSUME JoinInv, Closing
    PROVE  JoinInv'
<1>1. ASSUME RoundsOver PROVE JoinInv'
  <2>1. sim[RootHost] = "running" /\ sim' = [sim EXCEPT ![RootHost] = "closing"]
        /\ UNCHANGED <<setup, sc, join, msgs>>
    BY <1>1 DEF RoundsOver
  <2> QED  BY <2>1, RootGoesOn DEF GreetingTo, JoinedOf
<1>2. ASSUME UNCHANGED <<setup, sim, sc, join>>,
             \A s : (GreetingTo(s)' => GreetingTo(s)) /\ (JoinedOf(s)' => JoinedOf(s))
      PROVE  JoinInv'
  <2>1. RootPhase'
    BY <1>2 DEF JoinInv, RootPhase, RootHost, HostOf, RootCreated, setup, join
  <2> QED  BY <1>2, <2>1, JoinAside DEF JoinInv, SimTyped
<1>3. ASSUME SendDone PROVE JoinInv'
  <2> DEFINE new == {Msg("Done", RootNode, RootOrder[sendPos + 1])}
  <2>1. msgs' \subseteq msgs \cup new /\ UNCHANGED <<setup, sim, sc, join>>
    BY <1>3 DEF SendDone
  <2>2. \A m \in new : m.type \in {"Done", "PrepareClose", "Close"}
    BY DEF Msg
  <2> HIDE DEF new
  <2> QED  BY <1>2, <2>1, <2>2, ClosingMessages
<1>4. ASSUME StartCloseAll PROVE JoinInv'
  <2>1. sim[RootHost] = "closing" /\ sim' = [sim EXCEPT ![RootHost] = "closeAll"]
        /\ msgs' \subseteq msgs \cup Prepare(RootNode) /\ UNCHANGED <<setup, sc, join>>
    BY <1>4 DEF StartCloseAll
  <2>2. \A m \in Prepare(RootNode) : m.type \in {"Done", "PrepareClose", "Close"}
    BY DEF Prepare, Msg
  <2>3. \A s : (GreetingTo(s)' => GreetingTo(s)) /\ (JoinedOf(s)' => JoinedOf(s))
    BY <2>1, <2>2, ClosingMessages
  <2> QED  BY <2>1, <2>3, RootGoesOn
<1>5. ASSUME NEW s \in Servers, ReceiveDone(s) PROVE JoinInv'
  <2>1. Exit(HostOf(s)) /\ UNCHANGED <<setup, sc, join>>
    BY <1>5 DEF ReceiveDone
  <2> QED  BY <2>1, ExitJoin
<1>6. ASSUME NEW s \in Servers, FuncPrepareClose(s) \/ FuncClose(s) PROVE JoinInv'
  <2>1. msgs' \subseteq msgs \cup (Prepare(s) \cup CloseMsg(s)) /\ UNCHANGED <<setup, sim, sc, join>>
    BY <1>6 DEF FuncPrepareClose, FuncClose
  <2>2. \A m \in Prepare(s) \cup CloseMsg(s) : m.type \in {"Done", "PrepareClose", "Close"}
    BY DEF Prepare, CloseMsg, Msg
  <2> QED  BY <1>2, <2>1, <2>2, ClosingMessages
<1>7. ASSUME NEW s \in Servers, CloseHost(s) PROVE JoinInv'
  <2>1. /\ Alive(s) /\ UNCHANGED <<setup, sc, join, msgs>>
        /\ sim' = IF s = RootNode THEN [sim EXCEPT ![RootHost] = "waiting"] ELSE sim
    BY <1>7 DEF CloseHost, Reachable
  <2>2. \A r : (GreetingTo(r)' => GreetingTo(r)) /\ (JoinedOf(r)' => JoinedOf(r))
    BY <2>1 DEF GreetingTo, JoinedOf
  <2>3. CASE s = RootNode
    <3>1. sim[RootHost] \notin {"off", "exited"}
      BY <2>1, <2>3 DEF Alive, RootHost
    <3> QED  BY <2>1, <2>2, <2>3, <3>1, RootGoesOn
  <2>4. CASE s # RootNode
    BY <1>2, <2>1, <2>2, <2>4
  <2> QED  BY <2>3, <2>4
<1>8. ASSUME NEW h \in Addresses, WaitServers(h) PROVE JoinInv'
  <2>1. Exit(h) /\ UNCHANGED <<setup, sc, join>>
    BY <1>8 DEF WaitServers
  <2> QED  BY <2>1, ExitJoin
<1> QED  BY <1>1, <1>3, <1>4, <1>5, <1>6, <1>7, <1>8 DEF Closing

LEMMA JoinStep ==
    ASSUME JoinInv, [SimNext]_simVars
    PROVE  JoinInv'
<1>1. CASE UNCHANGED simVars
  <2>1. UNCHANGED <<setup, sim, sc, join, msgs>>
    BY <1>1 DEF simVars
  <2>2. \A r \in Servers : (GreetingTo(r)' => GreetingTo(r)) /\ (JoinedOf(r)' => JoinedOf(r))
    BY <2>1 DEF GreetingTo, JoinedOf
  <2>3. RootPhase'
    BY <2>1 DEF JoinInv, RootPhase, RootHost, HostOf, RootCreated, setup, join
  <2> QED  BY <2>1, <2>2, <2>3, JoinAside DEF JoinInv, SimTyped
<1> QED  BY <1>1, StartJoin, JoiningJoin, ClosingJoin, FailureJoin DEF SimNext, Steps

\* The protocols start only when every server has got the configuration that a
\* leader needs, and neither wait group is counted below zero, whatever is
\* sent again, lost or given up: a server is invited once, and counted once
\* (runsimul.go:210-232; ChainBoostSimulation.go:374-376).
THEOREM EverybodyJoinsFirst == SimSpec => []JoinedBeforeStart
<1>1. SimInit => JoinInv
  BY JoinAtFirst
<1>2. JoinInv /\ [SimNext]_simVars => JoinInv'
  BY JoinStep
<1>3. JoinInv => JoinedBeforeStart
  <2> SUFFICES ASSUME JoinInv PROVE JoinedBeforeStart
    OBVIOUS
  <2>1. running => \A s \in Servers : LeaderNeeds \subseteq instance[s].config
    BY DEF JoinInv, JoinPath
  <2>2. CalledWG >= 0 /\ JoinedWG >= 0
    <3>1. Cardinality(Unjoined) \in Nat /\ Cardinality(Uncalled) \in Nat
      BY JoinFacts, FewerServers
    <3>2. CalledWG \in Int /\ JoinedWG \in Int
      BY DEF JoinInv, SimTyped
    <3> QED  BY <3>1, <3>2 DEF JoinInv, GroupsCount
  <2> QED  BY <2>1, <2>2 DEF JoinedBeforeStart
<1> QED  BY <1>1, <1>2, <1>3, PTL DEF SimSpec

-----------------------------------------------------------------------------
(* A simulation: closing.                                                  *)

\* Who has sent Close has called FuncClose.
CloseSaid == \A s, c : Msg("Close", c, s) \in msgs => c \in leaving

\* A server closes after all servers below it in the close tree
\* (close_all.go:13, 89-92).
THEOREM LeavesCloseFirst == SimSpec => []LeavesFirst
<1> DEFINE Inv == CloseSaid /\ LeavesFirst
<1>1. SimInit => Inv
  BY DEF SimInit, CloseSaid, LeavesFirst
<1>2. Inv /\ [SimNext]_simVars => Inv'
  <2> SUFFICES ASSUME Inv, [SimNext]_simVars PROVE Inv'
    OBVIOUS
  <2> HIDE DEF Inv
  <2>1. ASSUME UNCHANGED <<setup, leaving>>, NEW new, msgs' \subseteq msgs \cup new,
               \A m \in new : m.type # "Close"
        PROVE  Inv'
    <3>1. \A s, c : Msg("Close", c, s) \notin new
      BY <2>1 DEF Msg
    <3>2. \A s : Children(s)' = Children(s)
      BY <2>1 DEF Children, setup
    <3> QED  BY <2>1, <3>1, <3>2 DEF Inv, CloseSaid, LeavesFirst
  <2>2. ASSUME UNCHANGED <<setup, leaving>>, msgs' \subseteq msgs PROVE Inv'
    <3> DEFINE none == {}
    <3>1. msgs' \subseteq msgs \cup none /\ \A m \in none : m.type # "Close"
      BY <2>2
    <3> HIDE DEF none
    <3> QED  BY <2>1, <2>2, <3>1
  <2>3. \A h : Exit(h) => msgs' \subseteq msgs
    BY DEF Exit
  <2>4. CASE UNCHANGED simVars
    BY <2>2, <2>4 DEF simVars, close
  <2>5. CASE Start
    BY <2>2, <2>5 DEF Start, Launch, Listen, MarkStarted, close
  <2>6. CASE Failure
    BY <2>2, <2>3, <2>6 DEF Failure, GiveUp, InviteTimesOut, JoinedFails, close
  <2>7. CASE Joining
    <3>1. CASE CreateProtocols
      BY <2>2, <2>3, <3>1 DEF CreateProtocols, close
    <3>2. CASE EndInvites \/ StartProtocols
      BY <2>2, <3>2 DEF EndInvites, StartProtocols, close
    <3>3. ASSUME NEW b \in Batches, SkipRoot(b) PROVE Inv'
      BY <2>2, <3>3 DEF SkipRoot, close
    <3>4. ASSUME NEW b \in Batches, Invite(b) PROVE Inv'
      <4> DEFINE new == {Msg("Hello", RootNode, RootOrder[invite[b].pos + 1])}
      <4>1. msgs' \subseteq msgs \cup new /\ UNCHANGED <<setup, leaving>>
        BY <3>4 DEF Invite, close
      <4>2. \A m \in new : m.type # "Close"
        BY DEF Msg
      <4> HIDE DEF new
      <4> QED  BY <2>1, <4>1, <4>2
    <3>5. ASSUME NEW s \in Servers, ReceiveHello(s) \/ ReceiveJoined(s) PROVE Inv'
      BY <2>2, <3>5 DEF ReceiveHello, ReceiveJoined, close
    <3>6. ASSUME NEW s \in Servers, SendJoined(s) PROVE Inv'
      <4> DEFINE new == {Msg("Joined", s, RootNode)}
      <4>1. msgs' \subseteq msgs \cup new /\ UNCHANGED <<setup, leaving>>
        BY <3>6 DEF SendJoined, close
      <4>2. \A m \in new : m.type # "Close"
        BY DEF Msg
      <4> HIDE DEF new
      <4> QED  BY <2>1, <4>1, <4>2
    <3> QED  BY <2>7, <3>1, <3>2, <3>3, <3>4, <3>5, <3>6 DEF Joining
  <2>8. CASE Closing
    <3>1. CASE RoundsOver
      BY <2>2, <3>1 DEF RoundsOver, close
    <3>2. CASE SendDone
      <4> DEFINE new == {Msg("Done", RootNode, RootOrder[sendPos + 1])}
      <4>1. msgs' \subseteq msgs \cup new /\ UNCHANGED <<setup, leaving>>
        BY <3>2 DEF SendDone
      <4>2. \A m \in new : m.type # "Close"
        BY DEF Msg
      <4> HIDE DEF new
      <4> QED  BY <2>1, <4>1, <4>2
    <3>3. CASE StartCloseAll
      <4>1. msgs' \subseteq msgs \cup Prepare(RootNode) /\ UNCHANGED <<setup, leaving>>
        BY <3>3 DEF StartCloseAll, close
      <4>2. \A m \in Prepare(RootNode) : m.type # "Close"
        BY DEF Prepare, Msg
      <4> QED  BY <2>1, <4>1, <4>2
    <3>4. ASSUME NEW s \in Servers, ReceiveDone(s) \/ CloseHost(s) PROVE Inv'
      BY <2>2, <2>3, <3>4 DEF ReceiveDone, CloseHost, close
    <3>5. ASSUME NEW h \in Addresses, WaitServers(h) PROVE Inv'
      BY <2>2, <2>3, <3>5 DEF WaitServers, close
    <3>6. ASSUME NEW s \in Servers, FuncPrepareClose(s) \/ FuncClose(s) PROVE Inv'
      <4>1. UNCHANGED setup /\ msgs' \subseteq msgs \cup (Prepare(s) \cup CloseMsg(s))
        BY <3>6 DEF FuncPrepareClose, FuncClose
      <4>2. \A r : Children(r)' = Children(r)
        BY <4>1 DEF Children, setup
      <4>3. \A r, c : Msg("Close", c, r) \in Prepare(s) \cup CloseMsg(s) => c = s /\ Msg("Close", c, r) \in CloseMsg(s)
        BY DEF Prepare, CloseMsg, Msg
      <4>4. CASE msgs' \subseteq msgs \cup Prepare(s) /\ UNCHANGED leaving
        <5>1. \A m \in Prepare(s) : m.type # "Close"
          BY DEF Prepare, Msg
        <5> QED  BY <2>1, <4>1, <4>4, <5>1
      <4>5. CASE leaving' = leaving \cup {s} /\ Children(s) \subseteq leaving
        BY <4>1, <4>2, <4>3, <4>5 DEF Inv, CloseSaid, LeavesFirst
      <4>6. FuncClose(s) => Children(s) \subseteq leaving /\ leaving' = leaving \cup {s}
        BY DEF Inv, FuncClose, AllClose, CloseSaid
      <4>7. FuncPrepareClose(s) => \/ msgs' \subseteq msgs \cup Prepare(s) /\ UNCHANGED leaving
                                   \/ leaving' = leaving \cup {s} /\ Children(s) \subseteq leaving
        BY DEF FuncPrepareClose
      <4> QED  BY <3>6, <4>4, <4>5, <4>6, <4>7
    <3> QED  BY <2>8, <3>1, <3>2, <3>3, <3>4, <3>5, <3>6 DEF Closing
  <2> QED  BY <2>4, <2>5, <2>6, <2>7, <2>8 DEF SimNext, Steps
<1>3. Inv => LeavesFirst
  OBVIOUS
<1> QED  BY <1>1, <1>2, <1>3, PTL DEF SimSpec
-----------------------------------------------------------------------------
(* The client: the list of nodes of a call.                                *)

LessNumber == {p \in Nat \X Nat : p[1] < p[2]}

\* A set of numbers has a least one.
LEMMA LeastNumber ==
    ASSUME NEW T, T \subseteq Nat, T # {}
    PROVE  \E n \in T : \A m \in T : ~(m < n)
<1>1. IsWellFoundedOn(LessNumber, Nat)
  BY NatLessThanWellFounded DEF OpToRel, LessNumber
<1>2. \E n \in T : \A m \in T : ~(<<m, n>> \in LessNumber)
  BY <1>1, WFMin
<1>3. \A m, n \in Nat : <<m, n>> \in LessNumber <=> m < n
  BY DEF LessNumber
<1> QED  BY <1>2, <1>3

\* What the loop over the nodes has put into the list after each of its first
\* n rounds.
Rounds(f, order, ignored, n) ==
    f = [i \in 0..n |->
           IF i = 0 THEN <<>>
           ELSE IF order[i] \in ignored THEN f[i - 1] ELSE Append(f[i - 1], order[i])]

\* The loop can be followed to its end.
LEMMA LoopRuns ==
    ASSUME NEW S, NEW order \in Seq(S), NEW ignored
    PROVE  \E f : Rounds(f, order, ignored, Len(order))
<1> DEFINE Stuck == {n \in 0..Len(order) : ~ \E f : Rounds(f, order, ignored, n)}
<1>1. SUFFICES ASSUME Stuck # {} PROVE FALSE
  <2>1. Len(order) \in 0..Len(order)
    OBVIOUS
  <2> QED  BY <2>1, <1>1
<1>2. PICK n \in Stuck : \A m \in Stuck : ~(m < n)
  <2>1. Stuck \subseteq Nat
    OBVIOUS
  <2> HIDE DEF Stuck
  <2> QED  BY <1>1, <2>1, LeastNumber
<1>3. n \in 0..Len(order) /\ ~ \E f : Rounds(f, order, ignored, n)
  BY <1>2
<1>4. CASE n = 0
  <2>1. Rounds([i \in 0..0 |-> <<>>], order, ignored, 0)
    BY DEF Rounds
  <2> QED  BY <1>3, <1>4, <2>1
<1>5. CASE n # 0
  <2>1. n - 1 \in 0..Len(order) /\ n - 1 < n
    BY <1>3, <1>5
  <2>2. PICK f : Rounds(f, order, ignored, n - 1)
    BY <1>2, <2>1
  <2> DEFINE g == [i \in 0..n |-> IF i < n THEN f[i]
                                  ELSE IF order[n] \in ignored THEN f[n - 1]
                                  ELSE Append(f[n - 1], order[n])]
  <2>3. ASSUME NEW i \in 0..n
        PROVE  g[i] = IF i = 0 THEN <<>>
                      ELSE IF order[i] \in ignored THEN g[i - 1] ELSE Append(g[i - 1], order[i])
    <3>1. CASE i = n
      BY <1>3, <1>5, <3>1
    <3>2. CASE i # n
      <4>1. i \in 0..(n - 1) /\ i < n /\ (i # 0 => i - 1 \in 0..n /\ i - 1 < n)
        BY <1>3, <3>2
      <4>2. g[i] = f[i] /\ (i # 0 => g[i - 1] = f[i - 1])
        BY <4>1
      <4>3. f[i] = IF i = 0 THEN <<>>
                   ELSE IF order[i] \in ignored THEN f[i - 1] ELSE Append(f[i - 1], order[i])
        BY <2>2, <4>1 DEF Rounds
      <4> HIDE DEF g
      <4> QED  BY <4>2, <4>3
    <3> QED  BY <3>1, <3>2
  <2>4. g = [i \in 0..n |-> g[i]]
    OBVIOUS
  <2> HIDE DEF g
  <2>5. Rounds(g, order, ignored, n)
    BY <2>3, <2>4 DEF Rounds
  <2> QED  BY <1>3, <2>5
<1> QED  BY <1>4, <1>5

\* It makes a list of nodes that is not longer than the order it goes through.
LEMMA UsableFacts ==
    ASSUME NEW S, NEW order \in Seq(S), NEW ignored
    PROVE  Usable(order, ignored) \in Seq(S) /\ Len(Usable(order, ignored)) <= Len(order)
<1>1. \E f : Rounds(f, order, ignored, Len(order))
  BY LoopRuns
<1> DEFINE f == CHOOSE f : Rounds(f, order, ignored, Len(order))
           Good(i) == f[i] \in Seq(S) /\ Len(f[i]) <= i
           Bad == {i \in 0..Len(order) : ~Good(i)}
<1>2. Rounds(f, order, ignored, Len(order))
  BY <1>1
<1>3. Usable(order, ignored) = f[Len(order)]
  BY DEF Usable, Rounds
<1> HIDE DEF f
<1>4. \A i \in 0..Len(order) :
         f[i] = IF i = 0 THEN <<>>
                ELSE IF order[i] \in ignored THEN f[i - 1] ELSE Append(f[i - 1], order[i])
  BY <1>2 DEF Rounds
<1>5. Bad = {}
  <2>1. SUFFICES ASSUME Bad # {} PROVE FALSE
    OBVIOUS
  <2>2. PICK n \in Bad : \A m \in Bad : ~(m < n)
    <3>1. Bad \subseteq Nat
      OBVIOUS
    <3> HIDE DEF Bad
    <3> QED  BY <2>1, <3>1, LeastNumber
  <2>3. n \in 0..Len(order) /\ ~Good(n)
    BY <2>2
  <2>4. n # 0
    <3>1. f[0] = <<>>
      BY <1>4
    <3>2. <<>> \in Seq(S) /\ Len(<<>>) = 0
      OBVIOUS
    <3>3. Good(0)
      BY <3>1, <3>2
    <3> HIDE DEF Good
    <3> QED  BY <2>3, <3>3
  <2>5. n - 1 \in 0..Len(order) /\ n - 1 < n /\ order[n] \in S
    BY <2>3, <2>4
  <2>6. f[n - 1] \in Seq(S) /\ Len(f[n - 1]) <= n - 1
    <3>1. n - 1 \notin Bad
      <4> HIDE DEF Bad
      <4> QED  BY <2>2, <2>5
    <3> QED  BY <2>5, <3>1
  <2>7. f[n] = f[n - 1] \/ f[n] = Append(f[n - 1], order[n])
    BY <1>4, <2>3, <2>4
  <2>8. /\ Append(f[n - 1], order[n]) \in Seq(S)
        /\ Len(Append(f[n - 1], order[n])) = Len(f[n - 1]) + 1
        /\ Len(f[n - 1]) \in Nat
    BY <2>5, <2>6
  <2>9. f[n] \in Seq(S)
    BY <2>6, <2>7, <2>8
  <2>10. Len(f[n]) <= n
    <3>1. Len(f[n]) = Len(f[n - 1]) \/ Len(f[n]) = Len(f[n - 1]) + 1
      BY <2>7, <2>8
    <3>2. n \in Nat
      BY <2>3
    <3> HIDE DEF Bad
    <3> QED  BY <2>6, <2>8, <3>1, <3>2
  <2> QED  BY <2>3, <2>9, <2>10
<1>6. Len(order) \in 0..Len(order) /\ Good(Len(order))
  <2>1. Len(order) \in 0..Len(order)
    OBVIOUS
  <2> HIDE DEF Good
  <2>2. \A i \in 0..Len(order) : Good(i)
    BY <1>5
  <2> QED  BY <2>1, <2>2
<1> QED  BY <1>3, <1>6

\* The constants of a client: at least one node, and options as they can be.
ProperCalls == NbrNodes \in Nat \ {0} /\ \A c \in Calls : Options[c] \in ParallelOptions

\* A call's list has nodes in it, and not more than there are.
LEMMA ListFacts ==
    ASSUME ProperCalls, NEW c \in Calls, NEW perm \in Perms(Options[c])
    PROVE  /\ NodesList(Options[c], perm) \in Seq(Nodes)
           /\ Len(NodesList(Options[c], perm)) \in 0..NbrNodes
<1> DEFINE opt == Options[c]
           order == [i \in Nodes |-> ((StartNode(opt) + perm[i]) % NbrNodes) + 1]
           usable == Usable(order, opt.ignoreNodes)
<1>1. NbrNodes \in Nat \ {0} /\ opt \in ParallelOptions
  BY DEF ProperCalls
<1>2. StartNode(opt) \in 0..(NbrNodes - 1)
  BY <1>1 DEF StartNode
<1>3. perm \in [Nodes -> 0..(NbrNodes - 1)]
  BY <1>1 DEF Perms, Nodes
<1>4. AskNodes(opt) \in 0..NbrNodes
  BY <1>1, <1>2 DEF AskNodes
<1>5. order \in Seq(Nodes) /\ Len(order) = NbrNodes
  <2>1. \A i \in Nodes : order[i] \in Nodes
    BY <1>1, <1>2, <1>3 DEF Nodes
  <2>2. order \in [1..NbrNodes -> Nodes]
    BY <2>1 DEF Nodes
  <2> QED  BY <1>1, <2>2
<1> HIDE DEF order
<1>6. usable \in Seq(Nodes) /\ Len(usable) <= NbrNodes
  BY <1>5, UsableFacts
<1>7. NodesList(opt, perm) =
        IF Len(usable) > AskNodes(opt) THEN SubSeq(usable, 1, AskNodes(opt)) ELSE usable
  BY DEF NodesList, order
<1> HIDE DEF usable
<1>8. CASE Len(usable) > AskNodes(opt)
  <2>1. /\ SubSeq(usable, 1, AskNodes(opt)) \in Seq(Nodes)
        /\ Len(SubSeq(usable, 1, AskNodes(opt))) = AskNodes(opt)
    BY <1>4, <1>6, <1>8
  <2> QED  BY <1>4, <1>7, <1>8, <2>1
<1>9. CASE ~(Len(usable) > AskNodes(opt))
  BY <1>1, <1>6, <1>7, <1>9
<1> QED  BY <1>8, <1>9
-----------------------------------------------------------------------------
(* The client: type correctness.                                           *)

\* The places at which a goroutine has taken a node that has not yet failed or
\* answered; those at which it uses a connection; and those at which it decodes.
AtNode == {"lock", "write", "read", "finish", "decide", "announce", "close"}
AtConn == {"write", "read", "finish"}
AtRet == {"announce", "close"}

CallTyped ==
    /\ connections \in [Nodes -> {"none", "open", "broken"}]
    /\ connectionsLock \in [Nodes -> Workers \cup {Free}]
    /\ main \in [Calls -> {"none", "collect", "returned"}]
    /\ nodesChan \in [Calls -> Seq(Nodes)] /\ nodesNbr \in [Calls -> 0..NbrNodes]
    /\ errChan \in [Calls -> Nat] /\ errs \in [Calls -> Nat]
    /\ decodedChan \in [Calls -> Seq(Nodes)]
    /\ done \in [Calls -> BOOLEAN] /\ decoding \in [Calls -> BOOLEAN]
    /\ ret \in [Calls -> 0..NbrNodes]
    /\ result \in [Calls -> Nodes \cup {0, Failed}]
    /\ pc \in [Workers -> {"none", "test", "take", "lock", "write", "read", "finish",
                           "decide", "announce", "close", "gone"}]
    /\ node \in [Workers -> 0..NbrNodes]
    /\ answer \in [Workers -> {"none", "reply", "error"}]
    /\ closer \in {"idle", "range", "lock", "closed"} /\ waitsFor \in 0..NbrNodes
    /\ listed \subseteq Nodes /\ before \subseteq Calls
    /\ lateWrite \in BOOLEAN /\ panicked \in BOOLEAN

\* Who is past taking a node has one; so has Close when it waits for a lock.
NodeTaken ==
    /\ \A w \in Workers : pc[w] \in AtNode => node[w] \in Nodes
    /\ closer = "lock" => waitsFor \in Nodes

\* The goroutines of a call that was not made have not begun.
Begun ==
    /\ \A w \in Workers : pc[w] = "none" <=> main[w[1]] = "none"
    /\ \A c \in Calls : main[c] = "none" =>
          nodesNbr[c] = 0 /\ errs[c] = 0 /\ errChan[c] = 0 /\ nodesChan[c] = <<>>
    /\ \A c \in Calls : main[c] = "none" => result[c] = 0 /\ ~done[c]

CallsSound == CallTyped /\ NodeTaken /\ Begun

LEMMA ClientNames ==
    ASSUME ProperCalls
    PROVE  /\ NbrNodes \in Nat \ {0} /\ Half \in Nat
           /\ Nodes = 1..NbrNodes /\ 0 \notin Nodes /\ Failed \notin Nodes /\ Failed # 0
           /\ Nodes \subseteq 0..NbrNodes
           /\ \A w \in Workers : w[1] \in Calls /\ w[2] \in 1..Half /\ w = <<w[1], w[2]>>
           /\ Free \notin Workers
<1>1. NbrNodes \in Nat \ {0}
  BY DEF ProperCalls
<1>2. Half \in Nat
  BY <1>1 DEF Half
<1>3. \A w \in Workers : w[1] \in Calls /\ w[2] \in 1..Half /\ w = <<w[1], w[2]>>
  BY DEF Workers
<1>4. Free \notin Workers
  <2>1. Free[2] = 0
    BY DEF Free
  <2> QED  BY <1>3, <2>1
<1> QED  BY <1>1, <1>2, <1>3, <1>4 DEF Nodes, Failed

LEMMA CallsAtFirst == ASSUME ProperCalls, ClientInit PROVE CallsSound
<1>1. <<>> \in Seq(Nodes)
  OBVIOUS
<1>2. CallTyped
  <2>1. 0 \in 0..NbrNodes
    BY ClientNames
  <2>2. /\ connections \in [Nodes -> {"none", "open", "broken"}]
        /\ connectionsLock \in [Nodes -> Workers \cup {Free}]
        /\ main \in [Calls -> {"none", "collect", "returned"}]
        /\ nodesChan \in [Calls -> Seq(Nodes)] /\ decodedChan \in [Calls -> Seq(Nodes)]
    BY <1>1 DEF ClientInit
  <2>3. /\ nodesNbr \in [Calls -> 0..NbrNodes] /\ ret \in [Calls -> 0..NbrNodes]
        /\ errChan \in [Calls -> Nat] /\ errs \in [Calls -> Nat]
        /\ done \in [Calls -> BOOLEAN] /\ decoding \in [Calls -> BOOLEAN]
        /\ result \in [Calls -> Nodes \cup {0, Failed}] /\ node \in [Workers -> 0..NbrNodes]
    BY <2>1 DEF ClientInit
  <2> QED  BY <2>1, <2>2, <2>3 DEF ClientInit, CallTyped
<1>3. NodeTaken /\ Begun
  BY ClientNames DEF ClientInit, NodeTaken, Begun, AtNode
<1> QED  BY <1>2, <1>3 DEF CallsSound

\* Taking from a channel.
LEMMA Taken ==
    ASSUME NEW S, NEW s \in Seq(S), s # <<>>
    PROVE  Head(s) \in S /\ Tail(s) \in Seq(S) /\ Len(s) \in Nat /\ Len(Tail(s)) = Len(s) - 1
  OBVIOUS

LEMMA StartTypes ==
    ASSUME ProperCalls, CallsSound, NEW c \in Calls, StartCall(c) PROVE CallsSound'
<1>1. PICK perm \in Perms(Options[c]) :
        /\ nodesChan' = [nodesChan EXCEPT ![c] = NodesList(Options[c], perm)]
        /\ nodesNbr' = [nodesNbr EXCEPT ![c] = Len(NodesList(Options[c], perm))]
  BY DEF StartCall
<1>2. /\ NodesList(Options[c], perm) \in Seq(Nodes)
      /\ Len(NodesList(Options[c], perm)) \in 0..NbrNodes
  BY ListFacts
<1>3. CallTyped'
  BY <1>1, <1>2 DEF StartCall, CallsSound, CallTyped, conns, closeState
<1>4. NodeTaken'
  BY DEF StartCall, CallsSound, NodeTaken, CallTyped, AtNode, closeState
<1>5. Begun'
  <2>1. main \in [Calls -> {"none", "collect", "returned"}] /\ main[c] = "none"
    BY DEF StartCall, CallsSound, CallTyped
  <2>2. /\ \A w \in Workers : pc'[w] = IF w[1] = c THEN "test" ELSE pc[w]
        /\ \A d \in Calls : main'[d] = IF d = c THEN "collect" ELSE main[d]
    BY <2>1 DEF StartCall
  <2>3. \A w \in Workers : pc'[w] = "none" <=> main'[w[1]] = "none"
    BY <2>2, ClientNames DEF CallsSound, Begun
  <2>4. /\ \A d \in Calls \ {c} : nodesNbr'[d] = nodesNbr[d] /\ nodesChan'[d] = nodesChan[d]
        /\ UNCHANGED <<errs, errChan, result, done>>
    BY <1>1 DEF StartCall, CallsSound, CallTyped
  <2> QED  BY <2>2, <2>3, <2>4 DEF CallsSound, Begun
<1> QED  BY <1>3, <1>4, <1>5 DEF CallsSound

LEMMA MainTypes ==
    ASSUME ProperCalls, CallsSound, NEW c \in Calls, Main(c)
    PROVE  CallsSound'
<1>1. CASE CollectAnswer(c)
  <2>1. Head(decodedChan[c]) \in Nodes /\ <<>> \in Seq(Nodes)
    BY <1>1, Taken DEF CollectAnswer, CallsSound, CallTyped
  <2> QED  BY <1>1, <2>1, ClientNames DEF CollectAnswer, Return, CallsSound, CallTyped, NodeTaken,
             Begun, conns, workers, closeState
<1>2. CASE CollectError(c)
  <2>1. errChan[c] \in Nat /\ errChan[c] > 0 /\ errs[c] \in Nat /\ done[c] \in BOOLEAN
    BY <1>2 DEF CollectError, CallsSound, CallTyped
  <2>2. CallTyped'
    <3>1. /\ errChan' \in [Calls -> Nat] /\ errs' \in [Calls -> Nat]
          /\ done' \in [Calls -> BOOLEAN] /\ panicked' \in BOOLEAN
      <4>1. errChan' \in [Calls -> Nat]
        BY <1>2, <2>1 DEF CollectError, CallsSound, CallTyped
      <4>2. CASE Options[c].quitError
        <5>1. errs' \in [Calls -> Nat] /\ done' = [done EXCEPT ![c] = TRUE] /\ panicked' = done[c]
          BY <1>2, <4>2 DEF CollectError, CallsSound, CallTyped
        <5>2. done' \in [Calls -> BOOLEAN]
          BY <5>1 DEF CallsSound, CallTyped
        <5> QED  BY <2>1, <4>1, <5>1, <5>2
      <4>3. CASE ~Options[c].quitError
        <5>1. errs' = [errs EXCEPT ![c] = @ + 1] /\ UNCHANGED <<done, panicked>>
          BY <1>2, <4>3 DEF CollectError
        <5>2. errs' \in [Calls -> Nat]
          BY <5>1 DEF CallsSound, CallTyped
        <5> QED  BY <4>1, <5>1, <5>2 DEF CallsSound, CallTyped
      <4> QED  BY <4>2, <4>3
    <3>2. /\ main' \in [Calls -> {"none", "collect", "returned"}]
          /\ result' \in [Calls -> Nodes \cup {0, Failed}]
      BY <1>2 DEF CollectError, Return, CallsSound, CallTyped
    <3>3. UNCHANGED <<conns, nodesChan, nodesNbr, decodedChan, decoding, ret, workers, closeState, lateWrite>>
      BY <1>2 DEF CollectError
    <3> QED  BY <3>1, <3>2, <3>3 DEF CallsSound, CallTyped, conns, workers, closeState
  <2>3. NodeTaken'
    BY <1>2 DEF CollectError, CallsSound, NodeTaken, workers, closeState
  <2>4. Begun'
    <3>1. /\ main[c] = "collect" /\ main'[c] # "none"
          /\ \A d \in Calls \ {c} : /\ main'[d] = main[d] /\ errChan'[d] = errChan[d]
                                   /\ errs'[d] = errs[d] /\ done'[d] = done[d]
                                   /\ result'[d] = result[d]
          /\ UNCHANGED <<nodesNbr, nodesChan, pc>>
      BY <1>2 DEF CollectError, Return, CallsSound, CallTyped, workers
    <3> QED  BY <3>1, ClientNames DEF CallsSound, Begun
  <2> QED  BY <2>2, <2>3, <2>4 DEF CallsSound
<1>3. CASE CollectEnd(c)
  BY <1>3, ClientNames DEF CollectEnd, Return, CallsSound, CallTyped, NodeTaken,
             Begun, conns, workers, closeState
<1> QED  BY <1>1, <1>2, <1>3 DEF Main
Places == {"none", "test", "take", "lock", "write", "read", "finish",
           "decide", "announce", "close", "gone"}

\* A goroutine that goes on keeps its node, or has none any more.
LEMMA GoesOn ==
    ASSUME ProperCalls, CallsSound, NEW w \in Workers, pc[w] # "none",
           NEW l \in Places \ {"none"}, l \in AtNode => pc[w] \in AtNode,
           Goto(w, l) \/ Again(w)
    PROVE  /\ pc' \in [Workers -> Places] /\ node' \in [Workers -> 0..NbrNodes]
           /\ \A v \in Workers : pc'[v] \in AtNode => node'[v] \in Nodes
           /\ \A v \in Workers : pc'[v] = "none" <=> pc[v] = "none"
           /\ \A v \in Workers \ {w} : pc'[v] = pc[v] /\ node'[v] = node[v]
           /\ Goto(w, l) => pc'[w] = l /\ node'[w] = node[w]
           /\ Again(w) => pc'[w] = "test"
<1>1. pc \in [Workers -> Places] /\ node \in [Workers -> 0..NbrNodes]
  BY DEF CallsSound, CallTyped, Places
<1>2. \A v \in Workers : pc[v] \in AtNode => node[v] \in Nodes
  BY DEF CallsSound, NodeTaken
<1>3. 0 \in 0..NbrNodes
  BY ClientNames
<1>4. CASE Goto(w, l)
  BY <1>1, <1>2, <1>4 DEF Goto, Again
<1>5. CASE Again(w)
  <2>1. "test" \in Places /\ "test" \notin AtNode /\ "test" # "none"
    BY DEF Places, AtNode
  <2>2. pc' = [pc EXCEPT ![w] = "test"] /\ node' = [node EXCEPT ![w] = 0]
    BY <1>5 DEF Again
  <2>3. /\ \A v \in Workers \ {w} : pc'[v] = pc[v] /\ node'[v] = node[v]
        /\ pc'[w] = "test" /\ node'[w] = 0
    BY <1>1, <2>2
  <2>4. pc' \in [Workers -> Places] /\ node' \in [Workers -> 0..NbrNodes]
    BY <1>1, <1>3, <2>1, <2>2
  <2>5. Goto(w, l) => pc'[w] = l /\ node'[w] = node[w]
    BY <1>1 DEF Goto
  <2> QED  BY <1>2, <2>1, <2>3, <2>4, <2>5
<1> QED  BY <1>4, <1>5

\* The step of a goroutine is sound when what it changes besides is typed.
LEMMA WorkerSound ==
    ASSUME ProperCalls, CallsSound, NEW w \in Workers, pc[w] # "none",
           pc' \in [Workers -> Places], node' \in [Workers -> 0..NbrNodes],
           \A v \in Workers : pc'[v] \in AtNode => node'[v] \in Nodes,
           \A v \in Workers : pc'[v] = "none" <=> pc[v] = "none",
           UNCHANGED <<main, result, errs, nodesNbr, closer, waitsFor, before>>,
           connections' \in [Nodes -> {"none", "open", "broken"}],
           connectionsLock' \in [Nodes -> Workers \cup {Free}],
           nodesChan' \in [Calls -> Seq(Nodes)], errChan' \in [Calls -> Nat],
           decodedChan' \in [Calls -> Seq(Nodes)],
           done' \in [Calls -> BOOLEAN], decoding' \in [Calls -> BOOLEAN],
           ret' \in [Calls -> 0..NbrNodes],
           answer' \in [Workers -> {"none", "reply", "error"}], listed' \subseteq Nodes,
           lateWrite' \in BOOLEAN, panicked' \in BOOLEAN,
           \A c \in Calls \ {w[1]} : errChan'[c] = errChan[c] /\ nodesChan'[c] = nodesChan[c]
                                     /\ done'[c] = done[c]
    PROVE  CallsSound'
<1>1. CallTyped'
  BY DEF CallsSound, CallTyped, Places
<1>2. NodeTaken'
  BY DEF CallsSound, NodeTaken
<1>3. main[w[1]] # "none"
  BY DEF CallsSound, Begun
<1>4. Begun'
  BY <1>3 DEF CallsSound, Begun
<1> QED  BY <1>1, <1>2, <1>4 DEF CallsSound

LEMMA TestTypes ==
    ASSUME ProperCalls, CallsSound, NEW w \in Workers, TestDone(w) PROVE CallsSound'
<1>1. PICK l \in {"gone", "take"} : Goto(w, l)
  BY DEF TestDone
<1>2. l \in Places \ {"none"} /\ l \notin AtNode /\ pc[w] # "none"
  BY DEF TestDone, Places, AtNode
<1>3. UNCHANGED <<conns, calls, answer, closeState, lateWrite, panicked>>
  BY DEF TestDone
<1> QED  BY <1>1, <1>2, <1>3, GoesOn, WorkerSound
         DEF CallsSound, CallTyped, conns, calls, closeState

LEMMA TakeTypes ==
    ASSUME ProperCalls, CallsSound, NEW w \in Workers, TakeNode(w) PROVE CallsSound'
<1>1. UNCHANGED <<conns, main, nodesNbr, errChan, errs, decodedChan, done, decoding, ret,
                  result, answer, closeState, lateWrite, panicked>>
  BY DEF TakeNode
<1>2. pc[w] # "none" /\ w[1] \in Calls
  BY ClientNames DEF TakeNode
<1>3. CASE nodesChan[w[1]] = <<>>
  <2>1. Goto(w, "gone") /\ nodesChan' = nodesChan
    BY <1>3 DEF TakeNode
  <2>2. "gone" \in Places \ {"none"} /\ "gone" \notin AtNode
    BY DEF Places, AtNode
  <2> QED  BY <1>1, <1>2, <2>1, <2>2, GoesOn, WorkerSound
           DEF CallsSound, CallTyped, conns, closeState
<1>4. CASE nodesChan[w[1]] # <<>>
  <2>1. /\ node' = [node EXCEPT ![w] = Head(nodesChan[w[1]])]
        /\ nodesChan' = [nodesChan EXCEPT ![w[1]] = Tail(@)]
        /\ pc' = [pc EXCEPT ![w] = "lock"]
    BY <1>4 DEF TakeNode
  <2>2. Head(nodesChan[w[1]]) \in Nodes /\ Tail(nodesChan[w[1]]) \in Seq(Nodes)
    BY <1>2, <1>4, Taken DEF CallsSound, CallTyped
  <2>3. /\ pc' \in [Workers -> Places] /\ node' \in [Workers -> 0..NbrNodes]
        /\ nodesChan' \in [Calls -> Seq(Nodes)]
        /\ \A c \in Calls \ {w[1]} : nodesChan'[c] = nodesChan[c]
    BY <1>2, <2>1, <2>2, ClientNames DEF CallsSound, CallTyped, Places
  <2>4. \A v \in Workers : pc'[v] \in AtNode => node'[v] \in Nodes
    BY <2>1, <2>2 DEF CallsSound, CallTyped, NodeTaken
  <2>5. \A v \in Workers : pc'[v] = "none" <=> pc[v] = "none"
    BY <1>2, <2>1 DEF CallsSound, CallTyped
  <2> QED  BY <1>1, <1>2, <2>3, <2>4, <2>5, WorkerSound
           DEF CallsSound, CallTyped, conns, closeState
<1> QED  BY <1>3, <1>4

\* What a report adds.
LEMMA Reported ==
    ASSUME ProperCalls, CallsSound, NEW w \in Workers, Report(w) \/ UNCHANGED errChan
    PROVE  /\ errChan' \in [Calls -> Nat]
           /\ \A c \in Calls \ {w[1]} : errChan'[c] = errChan[c]
           /\ Report(w) => errChan'[w[1]] = errChan[w[1]] + 1
<1>1. errChan \in [Calls -> Nat] /\ w[1] \in Calls
  BY ClientNames DEF CallsSound, CallTyped
<1> QED  BY <1>1 DEF Report

LEMMA LockTypes ==
    ASSUME ProperCalls, CallsSound, NEW w \in Workers, LockAndDial(w) PROVE CallsSound'
<1>1. pc[w] = "lock" /\ "write" \in Places \ {"none"} /\ pc[w] \in AtNode
  BY DEF LockAndDial, Places, AtNode
<1>2. Goto(w, "write") \/ Again(w)
  BY DEF LockAndDial
<1>3. Report(w) \/ UNCHANGED errChan
  BY DEF LockAndDial
<1>4. /\ connections' \in [Nodes -> {"none", "open", "broken"}]
      /\ connectionsLock' \in [Nodes -> Workers \cup {Free}]
  BY DEF LockAndDial, CallsSound, CallTyped, conns
<1>5. UNCHANGED <<main, nodesChan, nodesNbr, errs, decodedChan, done, decoding, ret, result,
                  answer, closeState, lateWrite, panicked>>
  BY DEF LockAndDial
<1>6. /\ errChan' \in [Calls -> Nat]
      /\ \A c \in Calls \ {w[1]} : errChan'[c] = errChan[c]
  BY <1>3, Reported
<1>7. /\ pc' \in [Workers -> Places] /\ node' \in [Workers -> 0..NbrNodes]
      /\ \A v \in Workers : pc'[v] \in AtNode => node'[v] \in Nodes
      /\ \A v \in Workers : pc'[v] = "none" <=> pc[v] = "none"
  BY <1>1, <1>2, GoesOn
<1> QED  BY <1>1, <1>4, <1>5, <1>6, <1>7, WorkerSound
         DEF CallsSound, CallTyped, closeState

LEMMA WritingTypes ==
    ASSUME ProperCalls, CallsSound, NEW w \in Workers, WriteMessage(w) PROVE CallsSound'
<1>1. pc[w] = "write" /\ {"read", "finish"} \subseteq Places \ {"none"} /\ pc[w] \in AtNode
  BY DEF WriteMessage, Places, AtNode
<1>2. PICK l \in {"read", "finish"} : Goto(w, l)
  BY DEF WriteMessage
<1>3. /\ connections' \in [Nodes -> {"none", "open", "broken"}]
      /\ answer' \in [Workers -> {"none", "reply", "error"}]
  BY DEF WriteMessage, Broken, CallsSound, CallTyped
<1>4. lateWrite' \in BOOLEAN
  BY DEF WriteMessage, CallsSound, CallTyped
<1>5. UNCHANGED <<connectionsLock, calls, closeState, panicked>>
  BY DEF WriteMessage
<1> QED  BY <1>1, <1>2, <1>3, <1>4, <1>5, GoesOn, WorkerSound
         DEF CallsSound, CallTyped, calls, closeState

LEMMA ReadTypes ==
    ASSUME ProperCalls, CallsSound, NEW w \in Workers, ReadMessage(w) PROVE CallsSound'
<1>1. pc[w] = "read" /\ "finish" \in Places \ {"none"} /\ pc[w] \in AtNode
  BY DEF ReadMessage, Places, AtNode
<1>2. /\ connections' \in [Nodes -> {"none", "open", "broken"}]
      /\ answer' \in [Workers -> {"none", "reply", "error"}]
  BY DEF ReadMessage, Broken, CallsSound, CallTyped
<1>3. Goto(w, "finish") /\ UNCHANGED <<connectionsLock, calls, closeState, lateWrite, panicked>>
  BY DEF ReadMessage
<1> QED  BY <1>1, <1>2, <1>3, GoesOn, WorkerSound
         DEF CallsSound, CallTyped, calls, closeState

LEMMA FinishTypes ==
    ASSUME ProperCalls, CallsSound, NEW w \in Workers, Finish(w) PROVE CallsSound'
<1>1. pc[w] = "finish" /\ "decide" \in Places \ {"none"} /\ pc[w] \in AtNode
  BY DEF Finish, Places, AtNode
<1>2. (Goto(w, "decide") \/ Again(w)) /\ (Report(w) \/ UNCHANGED errChan)
  BY DEF Finish
<1>3. /\ connections' \in [Nodes -> {"none", "open", "broken"}] /\ listed' \subseteq Nodes
      /\ connectionsLock' \in [Nodes -> Workers \cup {Free}]
      /\ answer' \in [Workers -> {"none", "reply", "error"}]
  BY DEF Finish, closeConn, CallsSound, CallTyped
<1>4. UNCHANGED <<main, nodesChan, nodesNbr, errs, decodedChan, done, decoding, ret, result,
                  closer, waitsFor, before, lateWrite, panicked>>
  BY DEF Finish
<1>5. /\ errChan' \in [Calls -> Nat]
      /\ \A c \in Calls \ {w[1]} : errChan'[c] = errChan[c]
  BY <1>2, Reported
<1>6. /\ pc' \in [Workers -> Places] /\ node' \in [Workers -> 0..NbrNodes]
      /\ \A v \in Workers : pc'[v] \in AtNode => node'[v] \in Nodes
      /\ \A v \in Workers : pc'[v] = "none" <=> pc[v] = "none"
  BY <1>1, <1>2, GoesOn
<1> QED  BY <1>1, <1>3, <1>4, <1>5, <1>6, WorkerSound DEF CallsSound, CallTyped

LEMMA DecideTypes ==
    ASSUME ProperCalls, CallsSound, NEW w \in Workers, Decide(w) PROVE CallsSound'
<1>1. pc[w] = "decide" /\ "announce" \in Places \ {"none"} /\ pc[w] \in AtNode
  BY DEF Decide, Places, AtNode
<1>2. (Goto(w, "announce") \/ Again(w)) /\ (Report(w) \/ UNCHANGED errChan)
  BY DEF Decide
<1>3. decoding' \in [Calls -> BOOLEAN] /\ ret' \in [Calls -> 0..NbrNodes]
  <2>1. /\ decoding' = decoding \/ decoding' = [decoding EXCEPT ![w[1]] = TRUE]
        /\ ret' = ret \/ ret' = [ret EXCEPT ![w[1]] = node[w]]
    BY DEF Decide
  <2>2. node[w] \in 0..NbrNodes
    BY DEF CallsSound, CallTyped
  <2>3. ret' \in [Calls -> 0..NbrNodes]
    BY <2>1, <2>2 DEF CallsSound, CallTyped
  <2>4. decoding' \in [Calls -> BOOLEAN]
    BY <2>1 DEF CallsSound, CallTyped
  <2> QED  BY <2>3, <2>4
<1>4. UNCHANGED <<conns, main, nodesChan, nodesNbr, errs, decodedChan, done, result,
                  answer, closeState, lateWrite, panicked>>
  BY DEF Decide
<1>5. /\ errChan' \in [Calls -> Nat]
      /\ \A c \in Calls \ {w[1]} : errChan'[c] = errChan[c]
  BY <1>2, Reported
<1>6. /\ pc' \in [Workers -> Places] /\ node' \in [Workers -> 0..NbrNodes]
      /\ \A v \in Workers : pc'[v] \in AtNode => node'[v] \in Nodes
      /\ \A v \in Workers : pc'[v] = "none" <=> pc[v] = "none"
  BY <1>1, <1>2, GoesOn
<1> QED  BY <1>1, <1>3, <1>4, <1>5, <1>6, WorkerSound
         DEF CallsSound, CallTyped, conns, closeState

LEMMA AnnounceTypes ==
    ASSUME ProperCalls, CallsSound, NEW w \in Workers, Announce(w) PROVE CallsSound'
<1>1. pc[w] = "announce" /\ "close" \in Places \ {"none"} /\ pc[w] \in AtNode
  BY DEF Announce, Places, AtNode
<1>2. decodedChan' \in [Calls -> Seq(Nodes)]
  <2>1. node[w] \in Nodes
    BY <1>1 DEF CallsSound, NodeTaken
  <2>2. <<node[w]>> \in Seq(Nodes)
    BY <2>1
  <2> QED  BY <2>2 DEF Announce, CallsSound, CallTyped
<1>3. UNCHANGED <<conns, main, nodesChan, nodesNbr, errChan, errs, done, decoding, ret,
                  result, answer, closeState, lateWrite, panicked>> /\ Goto(w, "close")
  BY DEF Announce
<1> QED  BY <1>1, <1>2, <1>3, GoesOn, WorkerSound DEF CallsSound, CallTyped, conns, closeState

LEMMA DoneTypes ==
    ASSUME ProperCalls, CallsSound, NEW w \in Workers, CloseDone(w) PROVE CallsSound'
<1>1. pc[w] = "close" /\ "close" \in Places \ {"none"} /\ pc[w] \in AtNode /\ w[1] \in Calls
  BY ClientNames DEF CloseDone, Places, AtNode
<1>2. /\ done' = [done EXCEPT ![w[1]] = TRUE] /\ panicked' = done[w[1]]
      /\ decoding' = [decoding EXCEPT ![w[1]] = FALSE] /\ Again(w)
      /\ UNCHANGED <<conns, main, nodesChan, nodesNbr, errChan, errs, decodedChan, ret, result,
                     answer, closeState, lateWrite>>
  BY DEF CloseDone
<1>3. /\ done' \in [Calls -> BOOLEAN] /\ decoding' \in [Calls -> BOOLEAN]
      /\ panicked' \in BOOLEAN
      /\ \A c \in Calls \ {w[1]} : done'[c] = done[c]
  BY <1>1, <1>2 DEF CallsSound, CallTyped
<1> QED  BY <1>1, <1>2, <1>3, GoesOn, WorkerSound DEF CallsSound, CallTyped, conns, closeState

LEMMA ClosingTypes == ASSUME ProperCalls, CallsSound, Close PROVE CallsSound'
<1>1. /\ UNCHANGED <<connectionsLock, calls, workers, lateWrite, panicked>>
      /\ before' \subseteq Calls /\ listed' \subseteq Nodes
      /\ closer' \in {"idle", "range", "lock", "closed"}
      /\ connections' \in [Nodes -> {"none", "open", "broken"}]
  BY DEF Close, CloseStart, CloseNext, CloseOne, CloseEnd, closeConn, Connected, CallsSound,
         CallTyped, conns
<1>2. (closer' = "lock" => waitsFor' \in Nodes) /\ waitsFor' \in 0..NbrNodes
  BY ClientNames DEF Close, CloseStart, CloseNext, CloseOne, CloseEnd, Connected, CallsSound,
         CallTyped, NodeTaken
<1> QED  BY <1>1, <1>2 DEF CallsSound, CallTyped, NodeTaken, Begun, calls, workers

LEMMA CallsStep == ASSUME ProperCalls, CallsSound, [ClientNext]_clientVars PROVE CallsSound'
<1>1. ASSUME NEW c \in Calls, StartCall(c) \/ Main(c) PROVE CallsSound'
  BY <1>1, StartTypes, MainTypes
<1>2. ASSUME NEW w \in Workers, Worker(w) PROVE CallsSound'
  BY <1>2, TestTypes, TakeTypes, LockTypes, WritingTypes, ReadTypes, FinishTypes, DecideTypes,
     AnnounceTypes, DoneTypes DEF Worker
<1>3. CASE UNCHANGED clientVars
  BY <1>3 DEF CallsSound, CallTyped, NodeTaken, Begun, clientVars, conns, calls, workers, closeState
<1> QED  BY <1>1, <1>2, <1>3, ClosingTypes DEF ClientNext
-----------------------------------------------------------------------------
(* The client: who uses a connection.                                      *)

\* A step that leaves the connections and their locks alone, and nobody takes
\* a connection.
LEMMA HeldAside ==
    ASSUME InUseIsHeld, UNCHANGED conns,
           \A v \in Workers : pc'[v] \in AtConn => pc[v] \in AtConn /\ node'[v] = node[v]
    PROVE  InUseIsHeld'
  BY DEF InUseIsHeld, AtConn, conns

LEMMA WorkerHeld ==
    ASSUME ProperCalls, CallsSound, InUseIsHeld, NEW w \in Workers, Worker(w)
    PROVE  InUseIsHeld'
<1> DEFINE n == node[w]
<1>1. /\ \A v \in Workers : pc[v] \in AtNode => node[v] \in Nodes
      /\ connections \in [Nodes -> {"none", "open", "broken"}]
      /\ connectionsLock \in [Nodes -> Workers \cup {Free}]
  BY DEF CallsSound, CallTyped, NodeTaken
<1>2. AtConn \subseteq AtNode /\ "none" \notin AtNode
  BY DEF AtConn, AtNode
<1>3. \A v \in Workers : pc[v] \in AtConn =>
        node[v] \in Nodes /\ connectionsLock[node[v]] = v /\ connections[node[v]] # "none"
  BY <1>1, <1>2 DEF InUseIsHeld, AtConn
<1>4. ASSUME NEW l \in Places \ {"none"}, l \in AtNode => pc[w] \in AtNode, pc[w] # "none",
             Goto(w, l) \/ Again(w)
      PROVE  /\ \A v \in Workers \ {w} : pc'[v] = pc[v] /\ node'[v] = node[v]
             /\ Goto(w, l) => pc'[w] = l /\ node'[w] = node[w]
             /\ Again(w) => pc'[w] \notin AtConn
  <2>1. "test" \notin AtConn
    BY DEF AtConn
  <2> QED  BY <1>4, <2>1, GoesOn
<1>5. CASE TestDone(w)
  <2>1. PICK l \in {"gone", "take"} : Goto(w, l)
    BY <1>5 DEF TestDone
  <2>2. l \in Places \ {"none"} /\ l \notin AtNode /\ pc[w] # "none" /\ UNCHANGED conns
    BY <1>5 DEF TestDone, Places, AtNode
  <2> QED  BY <1>2, <1>4, <2>1, <2>2, HeldAside
<1>6. CASE TakeNode(w)
  <2>1. UNCHANGED conns /\ pc[w] # "none"
    BY <1>6 DEF TakeNode
  <2>2. /\ \A v \in Workers \ {w} : pc'[v] = pc[v] /\ node'[v] = node[v]
        /\ pc'[w] \notin AtConn
    BY <1>6 DEF TakeNode, Goto, AtConn, CallsSound, CallTyped
  <2> QED  BY <2>1, <2>2, HeldAside
<1>7. CASE LockAndDial(w)
  <2>1. pc[w] = "lock" /\ pc[w] \in AtNode /\ "write" \in Places \ {"none"} /\ n \in Nodes
    BY <1>1, <1>7 DEF LockAndDial, AtNode, Places
  <2>2. connectionsLock[n] = Free
    BY <1>7 DEF LockAndDial
  <2>3. \A v \in Workers : pc[v] \in AtConn => node[v] # n
    BY <1>3, <2>2, ClientNames
  <2>4. CASE Again(w) /\ UNCHANGED conns
    BY <1>4, <2>1, <2>4, HeldAside
  <2>5. CASE /\ connectionsLock' = [connectionsLock EXCEPT ![n] = w] /\ Goto(w, "write")
             /\ \/ connections[n] # "none" /\ connections' = connections
                \/ connections' = [connections EXCEPT ![n] = "open"]
    <3>1. /\ connectionsLock'[n] = w /\ connections'[n] # "none"
          /\ \A m \in Nodes \ {n} : connectionsLock'[m] = connectionsLock[m]
                                    /\ connections'[m] = connections[m]
      BY <1>1, <2>1, <2>5
    <3>2. /\ \A v \in Workers \ {w} : pc'[v] = pc[v] /\ node'[v] = node[v]
          /\ pc'[w] = "write" /\ node'[w] = n
      BY <1>4, <2>1, <2>5
    <3> HIDE DEF n
    <3> QED  BY <1>3, <2>3, <3>1, <3>2 DEF InUseIsHeld, AtConn
  <2> QED  BY <1>7, <2>4, <2>5 DEF LockAndDial
<1>8. CASE WriteMessage(w) \/ ReadMessage(w)
  <2>1. pc[w] \in AtConn /\ pc[w] \in AtNode /\ pc[w] # "none"
    BY <1>8 DEF WriteMessage, ReadMessage, AtConn, AtNode
  <2>2. PICK l \in {"read", "finish"} : Goto(w, l)
    BY <1>8 DEF WriteMessage, ReadMessage
  <2>3. l \in Places \ {"none"}
    BY DEF Places
  <2>4. /\ connectionsLock' = connectionsLock
        /\ connections' = connections \/ connections' = [connections EXCEPT ![n] = "broken"]
    BY <1>8 DEF WriteMessage, ReadMessage, Broken
  <2>5. \A m \in Nodes : connections[m] # "none" => connections'[m] # "none"
    BY <1>1, <2>4
  <2>6. \A v \in Workers \ {w} : pc'[v] = pc[v] /\ node'[v] = node[v]
    BY <1>4, <2>1, <2>2, <2>3
  <2>7. node'[w] = n
    BY <1>4, <2>1, <2>2, <2>3
  <2>8. \A v \in Workers : pc'[v] \in AtConn => pc[v] \in AtConn /\ node'[v] = node[v]
    BY <2>1, <2>6, <2>7
  <2> QED  BY <1>3, <2>4, <2>5, <2>8 DEF InUseIsHeld, AtConn
<1>9. CASE Finish(w)
  <2>1. pc[w] \in AtConn /\ pc[w] \in AtNode /\ pc[w] # "none" /\ "decide" \in Places \ {"none"}
    BY <1>9 DEF Finish, AtConn, AtNode, Places
  <2>2. /\ Goto(w, "decide") \/ Again(w)
        /\ connectionsLock' = [connectionsLock EXCEPT ![n] = Free]
        /\ connections' = connections \/ connections' = [connections EXCEPT ![n] = "none"]
    BY <1>9 DEF Finish, closeConn
  <2>3. /\ \A v \in Workers \ {w} : pc'[v] = pc[v] /\ node'[v] = node[v]
        /\ pc'[w] \notin AtConn
    <3>1. "decide" \notin AtConn
      BY DEF AtConn
    <3> QED  BY <1>4, <2>1, <2>2, <3>1
  <2>4. \A v \in Workers \ {w} : pc[v] \in AtConn => node[v] # n
    BY <1>3, <2>1
  <2>5. \A m \in Nodes \ {n} : connectionsLock'[m] = connectionsLock[m]
                               /\ connections'[m] = connections[m]
    BY <1>1, <2>2
  <2> HIDE DEF n
  <2> QED  BY <1>3, <2>3, <2>4, <2>5 DEF InUseIsHeld, AtConn
<1>10. CASE Decide(w) \/ Announce(w) \/ CloseDone(w)
  <2>1. PICK l \in {"announce", "close"} : Goto(w, l) \/ Again(w)
    BY <1>10 DEF Decide, Announce, CloseDone
  <2>2. l \in Places \ {"none"} /\ l \notin AtConn
    BY DEF Places, AtConn
  <2>3. pc[w] \in AtNode /\ pc[w] # "none" /\ UNCHANGED conns
    BY <1>10 DEF Decide, Announce, CloseDone, AtNode
  <2> QED  BY <1>4, <2>1, <2>2, <2>3, HeldAside
<1> QED  BY <1>5, <1>6, <1>7, <1>8, <1>9, <1>10 DEF Worker

LEMMA HeldStep ==
    ASSUME ProperCalls, CallsSound, InUseIsHeld, [ClientNext]_clientVars
    PROVE  InUseIsHeld'
<1>1. ASSUME NEW c \in Calls, StartCall(c) PROVE InUseIsHeld'
  <2>1. \A v \in Workers : pc'[v] \in AtConn => pc[v] \in AtConn
    BY <1>1 DEF StartCall, AtConn
  <2> QED  BY <1>1, <2>1, HeldAside DEF StartCall
<1>2. ASSUME NEW c \in Calls, Main(c) PROVE InUseIsHeld'
  BY <1>2, HeldAside DEF Main, CollectAnswer, CollectError, CollectEnd, workers
<1>3. CASE CloseStart \/ CloseNext \/ CloseEnd \/ UNCHANGED clientVars
  BY <1>3, HeldAside DEF CloseStart, CloseNext, CloseEnd, clientVars, workers
<1>4. CASE CloseOne
  <2>1. /\ waitsFor \in Nodes /\ connectionsLock[waitsFor] = Free
        /\ connections' = [connections EXCEPT ![waitsFor] = "none"]
        /\ UNCHANGED <<connectionsLock, pc, node>>
    BY <1>4 DEF CloseOne, CloseMayGoOn, closeConn, CallsSound, NodeTaken, workers
  <2>2. /\ connections \in [Nodes -> {"none", "open", "broken"}]
        /\ \A v \in Workers : pc[v] \in AtConn => node[v] \in Nodes
    BY DEF CallsSound, CallTyped, NodeTaken, AtConn, AtNode
  <2>3. \A v \in Workers : pc[v] \in AtConn => node[v] # waitsFor
    BY <2>1, ClientNames DEF InUseIsHeld, AtConn
  <2>4. \A m \in Nodes \ {waitsFor} : connections'[m] = connections[m]
    BY <2>1, <2>2
  <2> QED  BY <2>1, <2>2, <2>3, <2>4 DEF InUseIsHeld, AtConn
<1> QED  BY <1>1, <1>2, <1>3, <1>4, WorkerHeld DEF ClientNext, Close

\* Nobody else uses or closes a connection while a goroutine has a message on it
\* (websocket_client.go:77-94, 514-523).
THEOREM ConnectionsHeld == ProperCalls => (ClientSpec => []InUseIsHeld)
<1>1. ProperCalls /\ ClientInit => CallsSound /\ InUseIsHeld
  BY CallsAtFirst DEF ClientInit, InUseIsHeld
<1>2. ProperCalls /\ (CallsSound /\ InUseIsHeld) /\ [ClientNext]_clientVars
        => (CallsSound /\ InUseIsHeld)'
  BY CallsStep, HeldStep
<1>3. SUFFICES ASSUME ProperCalls PROVE ClientSpec => []InUseIsHeld
  OBVIOUS
<1> QED  BY <1>1, <1>2, <1>3, PTL DEF ClientSpec
-----------------------------------------------------------------------------
(* The client: the answer.                                                 *)

\* Who decodes holds the mutex, alone, and has put its node's answer into ret.
Decoding ==
    /\ \A w \in Workers : pc[w] \in AtRet => decoding[w[1]] /\ ret[w[1]] = node[w]
    /\ \A v, w \in Workers : pc[v] \in AtRet /\ pc[w] \in AtRet /\ v[1] = w[1] => v = w

\* Once there is an answer, done is closed or about to be, so that no other
\* answer is decoded; without QuitError only an answer closes it.
Answered(c) == result[c] \in Nodes \/ decodedChan[c] # <<>>
FirstAnswer ==
    /\ \A c \in Calls : Answered(c) =>
          done[c] \/ \E w \in Workers : w[1] = c /\ pc[w] = "close"
    /\ \A w \in Workers : pc[w] = "announce" => ~Answered(w[1])
    /\ \A w \in Workers : pc[w] \in AtRet /\ ~Options[w[1]].quitError => ~done[w[1]]
    /\ \A c \in Calls : decodedChan[c] # <<>> => Head(decodedChan[c]) = ret[c]

AnswerInv == CallsSound /\ Decoding /\ FirstAnswer /\ AnswerOfReturnedNode

\* A step that does not touch answers, and after which who decodes did so before.
LEMMA AnswerAside ==
    ASSUME AnswerInv, CallsSound', UNCHANGED <<result, decodedChan, done, decoding, ret>>,
           \A v \in Workers : pc'[v] \in AtRet \/ pc[v] \in AtRet =>
               pc'[v] = pc[v] /\ node'[v] = node[v]
    PROVE  AnswerInv'
<1>1. Decoding'
  BY DEF AnswerInv, Decoding
<1>2. FirstAnswer'
  <2>1. "close" \in AtRet /\ "announce" \in AtRet
    BY DEF AtRet
  <2> QED  BY <2>1 DEF AnswerInv, FirstAnswer, Answered
<1>3. AnswerOfReturnedNode'
  BY DEF AnswerInv, AnswerOfReturnedNode
<1> QED  BY <1>1, <1>2, <1>3 DEF AnswerInv

LEMMA CollectAnswers ==
    ASSUME ProperCalls, AnswerInv, CallsSound', NEW c \in Calls, CollectAnswer(c)
    PROVE  AnswerInv'
<1>1. /\ decodedChan[c] # <<>> /\ decodedChan' = [decodedChan EXCEPT ![c] = <<>>]
      /\ result' = [result EXCEPT ![c] = Head(decodedChan[c])]
      /\ UNCHANGED <<done, decoding, ret, pc, node>>
  BY DEF CollectAnswer, Return, workers
<1>2. /\ decodedChan \in [Calls -> Seq(Nodes)] /\ result \in [Calls -> Nodes \cup {0, Failed}]
  BY DEF AnswerInv, CallsSound, CallTyped
<1>3. /\ decodedChan'[c] = <<>> /\ result'[c] = Head(decodedChan[c])
      /\ \A d \in Calls \ {c} : decodedChan'[d] = decodedChan[d] /\ result'[d] = result[d]
  BY <1>1, <1>2
<1>4. Answered(c) /\ Head(decodedChan[c]) = ret[c]
  BY <1>1 DEF Answered, AnswerInv, FirstAnswer
<1>5. \A d \in Calls : Answered(d)' => Answered(d)
  BY <1>3, <1>4 DEF Answered
<1>6. Decoding'
  BY <1>1 DEF AnswerInv, Decoding
<1>7. FirstAnswer'
  <2>1. \A d \in Calls : Answered(d)' => done'[d] \/ \E w \in Workers : w[1] = d /\ pc'[w] = "close"
    BY <1>1, <1>5 DEF AnswerInv, FirstAnswer
  <2>2. \A w \in Workers : pc'[w] = "announce" => ~Answered(w[1])'
    BY <1>1, <1>5, ClientNames DEF AnswerInv, FirstAnswer
  <2>3. \A d \in Calls : decodedChan'[d] # <<>> => Head(decodedChan'[d]) = ret'[d]
    BY <1>1, <1>3 DEF AnswerInv, FirstAnswer
  <2> QED  BY <1>1, <2>1, <2>2, <2>3 DEF AnswerInv, FirstAnswer
<1>8. AnswerOfReturnedNode'
  BY <1>1, <1>3, <1>4 DEF AnswerInv, AnswerOfReturnedNode
<1> QED  BY <1>6, <1>7, <1>8 DEF AnswerInv

\* The call returns an error.
LEMMA FailureAnswers ==
    ASSUME ProperCalls, AnswerInv, CallsSound', NEW c \in Calls, main[c] = "collect",
           result' = result \/ result' = [result EXCEPT ![c] = Failed],
           done' = done \/ (Options[c].quitError /\ done' = [done EXCEPT ![c] = TRUE]),
           UNCHANGED <<decodedChan, decoding, ret, workers>>
    PROVE  AnswerInv'
<1>1. /\ done \in [Calls -> BOOLEAN] /\ result \in [Calls -> Nodes \cup {0, Failed}]
      /\ UNCHANGED <<pc, node>>
  BY DEF AnswerInv, CallsSound, CallTyped, workers
<1>2. /\ \A d \in Calls : result'[d] \in Nodes => result'[d] = result[d]
      /\ \A d \in Calls : done[d] => done'[d]
      /\ \A d \in Calls : ~Options[d].quitError => done'[d] = done[d]
  BY <1>1, ClientNames
<1>3. \A d \in Calls : Answered(d)' => Answered(d)
  BY <1>2 DEF Answered
<1>4. Decoding'
  BY <1>1 DEF AnswerInv, Decoding
<1>5. FirstAnswer'
  BY <1>1, <1>2, <1>3, ClientNames DEF AnswerInv, FirstAnswer
<1>6. AnswerOfReturnedNode'
  BY <1>2 DEF AnswerInv, AnswerOfReturnedNode
<1> QED  BY <1>4, <1>5, <1>6 DEF AnswerInv

LEMMA DecideAnswers ==
    ASSUME ProperCalls, AnswerInv, CallsSound', NEW w \in Workers, Decide(w)
    PROVE  AnswerInv'
<1> DEFINE c == w[1]
<1>1. /\ pc[w] = "decide" /\ pc[w] \in AtNode /\ pc[w] \notin AtRet /\ ~decoding[c] /\ c \in Calls
      /\ UNCHANGED <<decodedChan, done, result>> /\ CallsSound
  BY ClientNames DEF Decide, AtNode, AtRet, AnswerInv
<1>2. "announce" \in Places \ {"none"} /\ "announce" \in AtRet /\ "test" \notin AtRet
  BY DEF Places, AtRet
<1>3. CASE Again(w) /\ UNCHANGED <<decoding, ret>>
  <2>1. /\ \A v \in Workers \ {w} : pc'[v] = pc[v] /\ node'[v] = node[v]
        /\ pc'[w] = "test"
    BY <1>1, <1>2, <1>3, GoesOn
  <2> QED  BY <1>1, <1>2, <1>3, <2>1, AnswerAside
<1>4. CASE /\ Wanted(w) /\ decoding' = [decoding EXCEPT ![c] = TRUE]
           /\ ret' = [ret EXCEPT ![c] = node[w]] /\ Goto(w, "announce")
  <2>1. /\ \A v \in Workers \ {w} : pc'[v] = pc[v] /\ node'[v] = node[v]
        /\ pc'[w] = "announce" /\ node'[w] = node[w]
    BY <1>1, <1>2, <1>4, GoesOn
  <2>2. /\ decoding'[c] /\ ret'[c] = node[w]
        /\ \A d \in Calls \ {c} : decoding'[d] = decoding[d] /\ ret'[d] = ret[d]
    <3>1. decoding \in [Calls -> BOOLEAN] /\ ret \in [Calls -> 0..NbrNodes]
      BY <1>1 DEF CallsSound, CallTyped
    <3>2. decoding' = [decoding EXCEPT ![c] = TRUE] /\ ret' = [ret EXCEPT ![c] = node[w]]
      BY <1>4
    <3> HIDE DEF c
    <3> QED  BY <1>1, <3>1, <3>2
  <2>3. ~done[c]
    BY <1>4 DEF Wanted
  <2>4. \A v \in Workers : pc[v] \in AtRet => v[1] # c
    BY <1>1 DEF AnswerInv, Decoding
  <2>5. ~Answered(c) /\ \A d \in Calls : Answered(d)' = Answered(d)
    <3>1. "close" \in AtRet
      BY DEF AtRet
    <3> QED  BY <1>1, <2>3, <2>4, <3>1 DEF AnswerInv, FirstAnswer, Answered
  <2>6. Decoding'
    <3>1. \A v \in Workers : pc'[v] \in AtRet => v = w \/ (v # w /\ pc[v] \in AtRet /\ v[1] # c)
      BY <2>1, <2>4
    <3>2. \A v \in Workers : pc'[v] \in AtRet => decoding'[v[1]] /\ ret'[v[1]] = node'[v]
      BY <2>1, <2>2, <3>1, ClientNames DEF AnswerInv, Decoding
    <3>3. \A u, v \in Workers : pc'[u] \in AtRet /\ pc'[v] \in AtRet /\ u[1] = v[1] => u = v
      BY <3>1 DEF AnswerInv, Decoding
    <3> QED  BY <3>2, <3>3 DEF Decoding
  <2>7. FirstAnswer'
    <3>1. \A d \in Calls : Answered(d)' => done'[d] \/ \E v \in Workers : v[1] = d /\ pc'[v] = "close"
      BY <1>1, <2>1, <2>5 DEF AnswerInv, FirstAnswer
    <3>2. \A v \in Workers : pc'[v] = "announce" => ~Answered(v[1])'
      BY <1>1, <2>1, <2>5, ClientNames DEF AnswerInv, FirstAnswer
    <3>3. \A v \in Workers : pc'[v] \in AtRet /\ ~Options[v[1]].quitError => ~done'[v[1]]
      BY <1>1, <2>1, <2>3 DEF AnswerInv, FirstAnswer
    <3>4. \A d \in Calls : decodedChan'[d] # <<>> => Head(decodedChan'[d]) = ret'[d]
      BY <1>1, <2>2, <2>5 DEF AnswerInv, FirstAnswer, Answered
    <3> QED  BY <3>1, <3>2, <3>3, <3>4 DEF FirstAnswer
  <2>8. AnswerOfReturnedNode'
    BY <1>1, <2>2, <2>5 DEF AnswerInv, AnswerOfReturnedNode, Answered
  <2> QED  BY <2>6, <2>7, <2>8 DEF AnswerInv
<1> QED  BY <1>3, <1>4 DEF Decide

LEMMA AnnounceAnswers ==
    ASSUME ProperCalls, AnswerInv, CallsSound', NEW w \in Workers, Announce(w)
    PROVE  AnswerInv'
<1> DEFINE c == w[1]
<1>1. /\ pc[w] = "announce" /\ pc[w] \in AtNode /\ pc[w] \in AtRet /\ c \in Calls
      /\ decodedChan' = [decodedChan EXCEPT ![c] = <<node[w]>>] /\ Goto(w, "close")
      /\ UNCHANGED <<done, decoding, ret, result>> /\ CallsSound
  BY ClientNames DEF Announce, AtNode, AtRet, AnswerInv
<1>2. "close" \in Places \ {"none"} /\ "close" \in AtRet
  BY DEF Places, AtRet
<1>3. /\ \A v \in Workers \ {w} : pc'[v] = pc[v] /\ node'[v] = node[v]
      /\ pc'[w] = "close" /\ node'[w] = node[w]
  BY <1>1, <1>2, GoesOn
<1>4. /\ decodedChan'[c] = <<node[w]>> /\ \A d \in Calls \ {c} : decodedChan'[d] = decodedChan[d]
  BY <1>1 DEF CallsSound, CallTyped
<1>5. ret[c] = node[w] /\ \A v \in Workers \ {w} : pc[v] \in AtRet => v[1] # c
  BY <1>1 DEF AnswerInv, Decoding
<1>6. Decoding'
  BY <1>1, <1>2, <1>3 DEF AnswerInv, Decoding
<1>7. \A d \in Calls \ {c} : Answered(d)' = Answered(d)
  BY <1>1, <1>4 DEF Answered
<1>8. FirstAnswer'
  <2>1. \A d \in Calls : Answered(d)' => done'[d] \/ \E v \in Workers : v[1] = d /\ pc'[v] = "close"
    BY <1>1, <1>3, <1>7 DEF AnswerInv, FirstAnswer
  <2>2. \A v \in Workers : pc'[v] = "announce" => ~Answered(v[1])'
    <3>1. \A v \in Workers : pc'[v] = "announce" => v # w /\ pc[v] = "announce" /\ v[1] # c
      BY <1>3, <1>5 DEF AtRet
    <3> QED  BY <1>7, <3>1, ClientNames DEF AnswerInv, FirstAnswer
  <2>3. \A v \in Workers : pc'[v] \in AtRet /\ ~Options[v[1]].quitError => ~done'[v[1]]
    BY <1>1, <1>3 DEF AnswerInv, FirstAnswer
  <2>4. \A d \in Calls : decodedChan'[d] # <<>> => Head(decodedChan'[d]) = ret'[d]
    <3>1. Head(<<node[w]>>) = node[w]
      OBVIOUS
    <3> QED  BY <1>1, <1>4, <1>5, <3>1 DEF AnswerInv, FirstAnswer
  <2> QED  BY <2>1, <2>2, <2>3, <2>4 DEF FirstAnswer
<1>9. AnswerOfReturnedNode'
  BY <1>1 DEF AnswerInv, AnswerOfReturnedNode
<1> QED  BY <1>6, <1>8, <1>9 DEF AnswerInv

LEMMA DoneAnswers ==
    ASSUME ProperCalls, AnswerInv, CallsSound', NEW w \in Workers, CloseDone(w)
    PROVE  AnswerInv'
<1> DEFINE c == w[1]
<1>1. /\ pc[w] = "close" /\ pc[w] \in AtNode /\ pc[w] \in AtRet /\ c \in Calls
      /\ done' = [done EXCEPT ![c] = TRUE] /\ decoding' = [decoding EXCEPT ![c] = FALSE]
      /\ Again(w) /\ UNCHANGED <<decodedChan, ret, result>> /\ CallsSound
  BY ClientNames DEF CloseDone, AtNode, AtRet, AnswerInv
<1>2. "close" \in Places \ {"none"} /\ "test" \notin AtRet
  BY DEF Places, AtRet
<1>3. /\ \A v \in Workers \ {w} : pc'[v] = pc[v] /\ node'[v] = node[v]
      /\ pc'[w] = "test"
  BY <1>1, <1>2, GoesOn
<1>4. done'[c] /\ \A d \in Calls \ {c} : done'[d] = done[d] /\ decoding'[d] = decoding[d]
  BY <1>1 DEF CallsSound, CallTyped
<1>5. \A v \in Workers : pc'[v] \in AtRet =>
        v # w /\ v[1] # c /\ pc[v] \in AtRet /\ pc'[v] = pc[v] /\ node'[v] = node[v]
  BY <1>1, <1>2, <1>3 DEF AnswerInv, Decoding
<1>6. Decoding'
  <2>1. \A v \in Workers : pc'[v] \in AtRet => decoding'[v[1]] /\ ret'[v[1]] = node'[v]
    BY <1>1, <1>4, <1>5, ClientNames DEF AnswerInv, Decoding
  <2>2. \A u, v \in Workers : pc'[u] \in AtRet /\ pc'[v] \in AtRet /\ u[1] = v[1] => u = v
    BY <1>5 DEF AnswerInv, Decoding
  <2> QED  BY <2>1, <2>2 DEF Decoding
<1>7. \A d \in Calls : Answered(d)' = Answered(d)
  BY <1>1 DEF Answered
<1>8. FirstAnswer'
  <2>1. \A d \in Calls : Answered(d)' => done'[d] \/ \E v \in Workers : v[1] = d /\ pc'[v] = "close"
    BY <1>3, <1>4, <1>7 DEF AnswerInv, FirstAnswer
  <2>2. \A v \in Workers : pc'[v] = "announce" => ~Answered(v[1])'
    <3>1. "announce" \in AtRet
      BY DEF AtRet
    <3> QED  BY <1>5, <1>7, <3>1, ClientNames DEF AnswerInv, FirstAnswer
  <2>3. \A v \in Workers : pc'[v] \in AtRet /\ ~Options[v[1]].quitError => ~done'[v[1]]
    BY <1>4, <1>5, ClientNames DEF AnswerInv, FirstAnswer
  <2>4. \A d \in Calls : decodedChan'[d] # <<>> => Head(decodedChan'[d]) = ret'[d]
    BY <1>1 DEF AnswerInv, FirstAnswer
  <2> QED  BY <2>1, <2>2, <2>3, <2>4 DEF FirstAnswer
<1>9. AnswerOfReturnedNode'
  BY <1>1 DEF AnswerInv, AnswerOfReturnedNode
<1> QED  BY <1>6, <1>8, <1>9 DEF AnswerInv

\* The places before decoding.
LEMMA OthersAnswer ==
    ASSUME ProperCalls, AnswerInv, CallsSound', NEW w \in Workers,
           \/ TestDone(w) \/ TakeNode(w) \/ LockAndDial(w) \/ WriteMessage(w)
           \/ ReadMessage(w) \/ Finish(w)
    PROVE  AnswerInv'
<1>1. UNCHANGED <<result, decodedChan, done, decoding, ret>> /\ pc[w] \notin AtRet
  BY DEF TestDone, TakeNode, LockAndDial, WriteMessage, ReadMessage, Finish, calls, AtRet
<1>2. /\ \A v \in Workers \ {w} : pc'[v] = pc[v] /\ node'[v] = node[v]
      /\ pc'[w] \notin AtRet
  <2>1. pc \in [Workers -> Places] /\ node \in [Workers -> 0..NbrNodes]
    BY DEF AnswerInv, CallsSound, CallTyped, Places
  <2>2. \E l \in {"gone", "take", "lock", "write", "read", "finish", "decide", "test"} :
          pc' = [pc EXCEPT ![w] = l]
    BY DEF TestDone, TakeNode, LockAndDial, WriteMessage, ReadMessage, Finish, Goto, Again
  <2>3. node' = node \/ \E n : node' = [node EXCEPT ![w] = n]
    BY DEF TestDone, TakeNode, LockAndDial, WriteMessage, ReadMessage, Finish, Goto, Again
  <2>4. \A v \in Workers \ {w} : node'[v] = node[v]
    BY <2>1, <2>3
  <2>5. (\A v \in Workers \ {w} : pc'[v] = pc[v]) /\ pc'[w] \notin AtRet
    BY <2>1, <2>2 DEF AtRet
  <2> QED  BY <2>4, <2>5
<1> QED  BY <1>1, <1>2, AnswerAside

LEMMA AnswerStep ==
    ASSUME ProperCalls, AnswerInv, [ClientNext]_clientVars PROVE AnswerInv'
<1>1. CallsSound'
  BY CallsStep DEF AnswerInv
<1>2. ASSUME NEW c \in Calls, StartCall(c) PROVE AnswerInv'
  <2>1. \A v \in Workers : pc'[v] \in AtRet \/ pc[v] \in AtRet => pc'[v] = pc[v]
    <3>1. main[c] = "none" /\ \A v \in Workers : pc'[v] = IF v[1] = c THEN "test" ELSE pc[v]
      BY <1>2 DEF StartCall
    <3>2. "test" \notin AtRet /\ "none" \notin AtRet
      BY DEF AtRet
    <3> QED  BY <3>1, <3>2 DEF AnswerInv, CallsSound, Begun
  <2>2. UNCHANGED <<result, decodedChan, done, decoding, ret, node>>
    BY <1>2 DEF StartCall
  <2> QED  BY <1>1, <2>1, <2>2, AnswerAside
<1>3. ASSUME NEW c \in Calls, Main(c) PROVE AnswerInv'
  <2>1. CASE CollectAnswer(c)
    BY <1>1, <2>1, CollectAnswers
  <2>2. CASE CollectError(c) \/ CollectEnd(c)
    <3>1. /\ main[c] = "collect"
          /\ result' = result \/ result' = [result EXCEPT ![c] = Failed]
          /\ done' = done \/ (Options[c].quitError /\ done' = [done EXCEPT ![c] = TRUE])
          /\ UNCHANGED <<decodedChan, decoding, ret, workers>>
      BY <2>2 DEF CollectError, CollectEnd, Return
    <3> QED  BY <1>1, <3>1, FailureAnswers
  <2> QED  BY <1>3, <2>1, <2>2 DEF Main
<1>4. ASSUME NEW w \in Workers, Worker(w) PROVE AnswerInv'
  BY <1>1, <1>4, OthersAnswer, DecideAnswers, AnnounceAnswers, DoneAnswers DEF Worker
<1>5. CASE Close \/ UNCHANGED clientVars
  <2>1. UNCHANGED <<calls, workers>>
    BY <1>5 DEF Close, CloseStart, CloseNext, CloseOne, CloseEnd, clientVars
  <2> QED  BY <1>1, <2>1, AnswerAside DEF calls, workers
<1> QED  BY <1>2, <1>3, <1>4, <1>5 DEF ClientNext

LEMMA AnswerAtFirst == ASSUME ProperCalls, ClientInit PROVE AnswerInv
<1>1. CallsSound
  BY CallsAtFirst
<1>2. /\ \A w \in Workers : pc[w] \notin AtRet
      /\ \A c \in Calls : ~Answered(c) /\ result[c] \notin Nodes /\ decodedChan[c] = <<>>
  BY ClientNames DEF ClientInit, AtRet, Answered
<1>3. "announce" \in AtRet
  BY DEF AtRet
<1> QED  BY <1>1, <1>2, <1>3 DEF AnswerInv, Decoding, FirstAnswer, AnswerOfReturnedNode

\* What a call returns is the answer of the node it names, however many nodes
\* answer at the same time (websocket_client.go:351-365).
THEOREM AnswerIsTheNodes == ProperCalls => (ClientSpec => []AnswerOfReturnedNode)
<1>1. ProperCalls /\ ClientInit => AnswerInv
  BY AnswerAtFirst
<1>2. ProperCalls /\ AnswerInv /\ [ClientNext]_clientVars => AnswerInv'
  BY AnswerStep
<1>3. AnswerInv => AnswerOfReturnedNode
  BY DEF AnswerInv
<1>4. SUFFICES ASSUME ProperCalls PROVE ClientSpec => []AnswerOfReturnedNode
  OBVIOUS
<1> QED  BY <1>1, <1>2, <1>3, <1>4, PTL DEF ClientSpec
-----------------------------------------------------------------------------
(* The client: the errors.                                                 *)

\* A node of the list is still in it, with a goroutine, in the errors, or has
\* answered; when done is closed without QuitError, one has answered.
Busy(c) == {i \in 1..Half : <<c, i>> \in Workers /\ pc[<<c, i>>] \in AtNode}
NotAnswered(c) == errs[c] + errChan[c] + Len(nodesChan[c]) + Cardinality(Busy(c))
NodesCount ==
    \A c \in Calls : /\ NotAnswered(c) <= nodesNbr[c]
                     /\ done[c] /\ ~Options[c].quitError => NotAnswered(c) < nodesNbr[c]

\* A call fails without QuitError when all nodes have.
FailsWhole ==
    \A c \in Calls : result[c] = Failed /\ ~Options[c].quitError =>
        errs[c] = nodesNbr[c] /\ main[c] = "returned"

ErrorInv == AnswerInv /\ NodesCount /\ FailsWhole /\ PanicsExplained

LEMMA BusyFacts ==
    ASSUME ProperCalls, NEW c
    PROVE  /\ IsFiniteSet(Busy(c)) /\ Cardinality(Busy(c)) \in Nat
           /\ Cardinality(Busy(c)) = 0 <=> Busy(c) = {}
<1>1. IsFiniteSet(1..Half)
  BY FS_Interval, ClientNames
<1>2. Busy(c) \in SUBSET (1..Half)
  BY DEF Busy
<1>3. IsFiniteSet(Busy(c))
  BY <1>1, <1>2, FS_Subset
<1> QED  BY <1>3, FS_CardinalityType, FS_EmptySet

\* What one goroutine's step does to the numbers of busy ones.
LEMMA BusyStep ==
    ASSUME ProperCalls, NEW w \in Workers,
           \A v \in Workers \ {w} : pc'[v] \in AtNode <=> pc[v] \in AtNode
    PROVE  /\ \A d \in Calls \ {w[1]} : Busy(d)' = Busy(d)
           /\ (pc[w] \in AtNode <=> pc'[w] \in AtNode) => Busy(w[1])' = Busy(w[1])
           /\ pc[w] \in AtNode /\ pc'[w] \notin AtNode =>
                Cardinality(Busy(w[1])') = Cardinality(Busy(w[1])) - 1
           /\ pc[w] \notin AtNode /\ pc'[w] \in AtNode =>
                Cardinality(Busy(w[1])') = Cardinality(Busy(w[1])) + 1
<1>1. w[1] \in Calls /\ w[2] \in 1..Half /\ w = <<w[1], w[2]>>
  BY ClientNames
<1>2. \A d, i : <<d, i>> # w => (<<d, i>> \in Workers => (pc'[<<d, i>>] \in AtNode <=> pc[<<d, i>>] \in AtNode))
  OBVIOUS
<1>3. ASSUME NEW d \in Calls \ {w[1]} PROVE Busy(d)' = Busy(d)
  <2>1. \A i : <<d, i>> # w
    BY <1>1, <1>3
  <2> QED  BY <1>2, <2>1 DEF Busy
<1>4. ASSUME pc[w] \in AtNode <=> pc'[w] \in AtNode PROVE Busy(w[1])' = Busy(w[1])
  <2>1. \A v \in Workers : pc'[v] \in AtNode <=> pc[v] \in AtNode
    BY <1>4
  <2> QED  BY <2>1 DEF Busy
<1>5. \A i : i # w[2] => <<w[1], i>> # w
  BY <1>1
<1>6. ASSUME pc[w] \in AtNode, pc'[w] \notin AtNode
      PROVE  Cardinality(Busy(w[1])') = Cardinality(Busy(w[1])) - 1
  <2>1. w[2] \in Busy(w[1]) /\ Busy(w[1])' = Busy(w[1]) \ {w[2]}
    BY <1>1, <1>2, <1>5, <1>6 DEF Busy
  <2> QED  BY <2>1, BusyFacts, FS_RemoveElement
<1>7. ASSUME pc[w] \notin AtNode, pc'[w] \in AtNode
      PROVE  Cardinality(Busy(w[1])') = Cardinality(Busy(w[1])) + 1
  <2>1. w[2] \notin Busy(w[1]) /\ Busy(w[1])' = Busy(w[1]) \cup {w[2]}
    BY <1>1, <1>2, <1>5, <1>7 DEF Busy
  <2> QED  BY <2>1, BusyFacts, FS_AddElement
<1> QED  BY <1>3, <1>4, <1>6, <1>7

LEMMA CountTyped ==
    ASSUME ProperCalls, CallsSound, NEW c \in Calls
    PROVE  /\ errs[c] \in Nat /\ errChan[c] \in Nat /\ Len(nodesChan[c]) \in Nat
           /\ Cardinality(Busy(c)) \in Nat /\ NotAnswered(c) \in Nat /\ nodesNbr[c] \in Nat
           /\ nodesNbr[c] <= NbrNodes
<1>1. errs[c] \in Nat /\ errChan[c] \in Nat /\ nodesChan[c] \in Seq(Nodes) /\ nodesNbr[c] \in 0..NbrNodes
  BY DEF CallsSound, CallTyped
<1>2. Len(nodesChan[c]) \in Nat
  BY <1>1
<1> QED  BY <1>1, <1>2, BusyFacts, ClientNames DEF NotAnswered

\* The four parts of the count, as numbers.
LEMMA Parts ==
    ASSUME ProperCalls, CallsSound, NEW c \in Calls
    PROVE  \E e, b, l, k \in Nat :
              /\ errs[c] = e /\ errChan[c] = b /\ Len(nodesChan[c]) = l
              /\ Cardinality(Busy(c)) = k /\ NotAnswered(c) = e + b + l + k
BY CountTyped DEF NotAnswered

\* The count is right after a step that does not add to it, and that closes done
\* only when it takes away from it.
LEMMA CountKept ==
    ASSUME ProperCalls, CallsSound, CallsSound', NodesCount, UNCHANGED nodesNbr,
           \A c \in Calls : /\ NotAnswered(c)' <= NotAnswered(c)
                            /\ done'[c] /\ ~Options[c].quitError =>
                                 done[c] \/ NotAnswered(c)' < NotAnswered(c)
    PROVE  NodesCount'
<1>1. SUFFICES ASSUME NEW c \in Calls
               PROVE  /\ NotAnswered(c)' <= nodesNbr'[c]
                      /\ done'[c] /\ ~Options[c].quitError => NotAnswered(c)' < nodesNbr'[c]
  BY DEF NodesCount
<1>2. NotAnswered(c) \in Nat /\ nodesNbr[c] \in Nat
  BY CountTyped
<1>3. /\ errs'[c] \in Nat /\ errChan'[c] \in Nat /\ nodesChan'[c] \in Seq(Nodes)
      /\ Cardinality(Busy(c)') \in Nat
  <2>1. /\ IsFiniteSet(Busy(c)') /\ Busy(c)' \in SUBSET (1..Half)
    <3>1. Busy(c)' \in SUBSET (1..Half)
      BY DEF Busy
    <3>2. IsFiniteSet(1..Half)
      BY FS_Interval, ClientNames
    <3> QED  BY <3>1, <3>2, FS_Subset
  <2> QED  BY <2>1, FS_CardinalityType DEF CallsSound, CallTyped
<1>4. NotAnswered(c)' \in Nat
  <2>1. Len(nodesChan'[c]) \in Nat
    BY <1>3
  <2> QED  BY <1>3, <2>1 DEF NotAnswered
<1>5. /\ NotAnswered(c)' <= NotAnswered(c) /\ NotAnswered(c) <= nodesNbr[c]
      /\ nodesNbr'[c] = nodesNbr[c]
  BY DEF NodesCount
<1>6. NotAnswered(c)' <= nodesNbr'[c]
  BY <1>2, <1>4, <1>5
<1>7. ASSUME done'[c], ~Options[c].quitError PROVE NotAnswered(c)' < nodesNbr'[c]
  <2>1. done[c] => NotAnswered(c) < nodesNbr[c]
    BY <1>7 DEF NodesCount
  <2>2. CASE done[c]
    BY <1>2, <1>4, <1>5, <2>1, <2>2
  <2>3. CASE NotAnswered(c)' < NotAnswered(c)
    BY <1>2, <1>4, <1>5, <2>3
  <2> QED  BY <1>7, <2>2, <2>3
<1> QED  BY <1>6, <1>7

\* The steps of goroutines, by what they do to the count.
LEMMA WorkerCounts ==
    ASSUME ProperCalls, CallsSound, CallsSound', NodesCount, NEW w \in Workers, Worker(w)
    PROVE  NodesCount'
<1> DEFINE c == w[1]
<1>1. /\ c \in Calls /\ UNCHANGED <<errs, nodesNbr>>
      /\ pc \in [Workers -> Places] /\ done \in [Calls -> BOOLEAN]
      /\ errChan \in [Calls -> Nat] /\ nodesChan \in [Calls -> Seq(Nodes)]
  BY ClientNames DEF Worker, TestDone, TakeNode, LockAndDial, WriteMessage, ReadMessage, Finish,
                     Decide, Announce, CloseDone, calls, CallsSound, CallTyped, Places
<1>2. /\ errs[c] \in Nat /\ errChan[c] \in Nat /\ Len(nodesChan[c]) \in Nat
      /\ Cardinality(Busy(c)) \in Nat /\ \A d \in Calls : NotAnswered(d) \in Nat
      /\ nodesChan[c] \in Seq(Nodes)
  BY <1>1, CountTyped
<1>2a. PICK e, b, l, k \in Nat :
          /\ errs[c] = e /\ errChan[c] = b /\ Len(nodesChan[c]) = l
          /\ Cardinality(Busy(c)) = k /\ NotAnswered(c) = e + b + l + k
  BY <1>1, Parts
<1>3. \E at : pc' = [pc EXCEPT ![w] = at]
  BY DEF Worker, TestDone, TakeNode, LockAndDial, WriteMessage, ReadMessage, Finish,
         Decide, Announce, CloseDone, Goto, Again
<1>4. \A v \in Workers \ {w} : pc'[v] = pc[v]
  BY <1>1, <1>3
<1>5. ASSUME NEW d \in Calls \ {c}
      PROVE  NotAnswered(d)' = NotAnswered(d) /\ done'[d] = done[d]
  <2>1. errChan'[d] = errChan[d] /\ nodesChan'[d] = nodesChan[d] /\ done'[d] = done[d]
    BY <1>1 DEF Worker, TestDone, TakeNode, LockAndDial, WriteMessage, ReadMessage, Finish,
                Decide, Announce, CloseDone, Report, calls
  <2>2. Busy(d)' = Busy(d)
    BY <1>4, BusyStep
  <2> QED  BY <1>1, <2>1, <2>2 DEF NotAnswered
<1>6. ASSUME NotAnswered(c)' <= NotAnswered(c),
             done'[c] /\ ~Options[c].quitError => done[c] \/ NotAnswered(c)' < NotAnswered(c)
      PROVE  NodesCount'
  <2>1. \A d \in Calls : /\ NotAnswered(d)' <= NotAnswered(d)
                         /\ done'[d] /\ ~Options[d].quitError =>
                              done[d] \/ NotAnswered(d)' < NotAnswered(d)
    BY <1>2, <1>5, <1>6
  <2> HIDE DEF c
  <2> QED  BY <1>1, <2>1, CountKept
\* A goroutine goes on with its node.
<1>7. ASSUME pc[w] \in AtNode <=> pc'[w] \in AtNode, UNCHANGED <<errChan, nodesChan, done>>
      PROVE  NodesCount'
  <2>1. Busy(c)' = Busy(c)
    BY <1>4, <1>7, BusyStep
  <2>2. NotAnswered(c)' = NotAnswered(c)
    BY <1>1, <1>7, <2>1 DEF NotAnswered
  <2> QED  BY <1>1, <1>2, <1>6, <1>7, <2>2
\* It reports its node.
<1>8. ASSUME pc[w] \in AtNode, Report(w), Again(w), UNCHANGED <<nodesChan, done>>
      PROVE  NodesCount'
  <2>1. pc'[w] \notin AtNode /\ errChan'[c] = errChan[c] + 1
    BY <1>1, <1>8 DEF Again, AtNode, Report
  <2>2. Cardinality(Busy(c)') = Cardinality(Busy(c)) - 1
    BY <1>4, <1>8, <2>1, BusyStep
  <2>3. NotAnswered(c)' = NotAnswered(c)
    <3>1. NotAnswered(c)' = e + (b + 1) + l + (k - 1)
      BY <1>1, <1>8, <1>2a, <2>1, <2>2 DEF NotAnswered
    <3> QED  BY <1>2a, <3>1
  <2> QED  BY <1>1, <1>2, <1>6, <1>8, <2>3
\* It drops its node.
<1>9. ASSUME pc[w] \in AtNode, Again(w), UNCHANGED <<errChan, nodesChan>>
      PROVE  NodesCount'
  <2>1. pc'[w] \notin AtNode
    BY <1>1, <1>9 DEF Again, AtNode
  <2>2. Cardinality(Busy(c)') = Cardinality(Busy(c)) - 1
    BY <1>4, <1>9, <2>1, BusyStep
  <2>3. NotAnswered(c)' = NotAnswered(c) - 1
    <3>1. NotAnswered(c)' = e + b + l + (k - 1)
      BY <1>1, <1>9, <1>2a, <2>2 DEF NotAnswered
    <3> QED  BY <1>2a, <3>1
  <2> QED  BY <1>1, <1>2, <1>6, <2>3
<1>10. CASE TestDone(w)
  <2>1. pc[w] \notin AtNode /\ pc'[w] \notin AtNode
    BY <1>1, <1>10 DEF TestDone, Goto, AtNode
  <2> QED  BY <1>7, <1>10, <2>1 DEF TestDone, calls
<1>11. CASE TakeNode(w)
  <2>1. pc[w] \notin AtNode /\ UNCHANGED <<errChan, done>>
    BY <1>11 DEF TakeNode, AtNode
  <2>2. CASE nodesChan[c] = <<>>
    <3>1. pc'[w] \notin AtNode /\ UNCHANGED nodesChan
      BY <1>1, <1>11, <2>2 DEF TakeNode, Goto, AtNode
    <3> QED  BY <1>7, <2>1, <3>1
  <2>3. CASE nodesChan[c] # <<>>
    <3>1. pc'[w] \in AtNode /\ nodesChan'[c] = Tail(nodesChan[c])
      BY <1>1, <1>11, <2>3 DEF TakeNode, AtNode
    <3>2. Len(nodesChan'[c]) = Len(nodesChan[c]) - 1
      BY <1>1, <2>3, <3>1, Taken
    <3>3. Cardinality(Busy(c)') = Cardinality(Busy(c)) + 1
      BY <1>4, <2>1, <3>1, BusyStep
    <3>4. NotAnswered(c)' = NotAnswered(c)
      <4>1. NotAnswered(c)' = e + b + (l - 1) + (k + 1)
        BY <1>1, <1>2a, <2>1, <3>2, <3>3 DEF NotAnswered
      <4> QED  BY <1>2a, <4>1
    <3> QED  BY <1>1, <1>2, <1>6, <2>1, <3>4
  <2> QED  BY <2>2, <2>3
<1>12. CASE LockAndDial(w)
  <2>1. pc[w] \in AtNode /\ UNCHANGED <<nodesChan, done>>
    BY <1>12 DEF LockAndDial, AtNode
  <2>2. CASE Goto(w, "write") /\ UNCHANGED errChan
    <3>1. pc'[w] \in AtNode
      BY <1>1, <2>2 DEF Goto, AtNode
    <3> QED  BY <1>7, <2>1, <2>2, <3>1
  <2>3. CASE Report(w) /\ Again(w)
    BY <1>8, <2>1, <2>3
  <2> QED  BY <1>12, <2>2, <2>3 DEF LockAndDial
<1>13. CASE WriteMessage(w) \/ ReadMessage(w) \/ Announce(w)
  <2>1. /\ pc[w] \in AtNode /\ UNCHANGED <<errChan, nodesChan, done>>
        /\ \E at \in {"read", "finish", "close"} : Goto(w, at)
    BY <1>13 DEF WriteMessage, ReadMessage, Announce, AtNode, calls
  <2>2. pc'[w] \in AtNode
    BY <1>1, <2>1 DEF Goto, AtNode
  <2> QED  BY <1>7, <2>1, <2>2
<1>14. CASE Finish(w)
  <2>1. pc[w] \in AtNode /\ UNCHANGED <<nodesChan, done>>
    BY <1>14 DEF Finish, AtNode
  <2>2. CASE Goto(w, "decide") /\ UNCHANGED errChan
    <3>1. pc'[w] \in AtNode
      BY <1>1, <2>2 DEF Goto, AtNode
    <3> QED  BY <1>7, <2>1, <2>2, <3>1
  <2>3. CASE Report(w) /\ Again(w)
    BY <1>8, <2>1, <2>3
  <2> QED  BY <1>14, <2>2, <2>3 DEF Finish
<1>15. CASE Decide(w)
  <2>1. pc[w] \in AtNode /\ UNCHANGED <<nodesChan, done>>
    BY <1>15 DEF Decide, AtNode
  <2>2. CASE Goto(w, "announce") /\ UNCHANGED errChan
    <3>1. pc'[w] \in AtNode
      BY <1>1, <2>2 DEF Goto, AtNode
    <3> QED  BY <1>7, <2>1, <2>2, <3>1
  <2>3. CASE Report(w) /\ Again(w)
    BY <1>8, <2>1, <2>3
  <2>4. CASE Again(w) /\ UNCHANGED errChan
    BY <1>9, <2>1, <2>4
  <2> QED  BY <1>15, <2>2, <2>3, <2>4 DEF Decide
<1>16. CASE CloseDone(w)
  <2>1. pc[w] \in AtNode /\ Again(w) /\ UNCHANGED <<errChan, nodesChan>>
    BY <1>16 DEF CloseDone, AtNode
  <2> QED  BY <1>9, <2>1
<1> QED  BY <1>10, <1>11, <1>12, <1>13, <1>14, <1>15, <1>16 DEF Worker

\* Those of the caller.
LEMMA CallerCounts ==
    ASSUME ProperCalls, CallsSound, CallsSound', NodesCount, NEW c \in Calls, Main(c)
    PROVE  NodesCount'
<1>1. /\ UNCHANGED <<pc, nodesNbr, nodesChan>>
      /\ errChan \in [Calls -> Nat] /\ errs \in [Calls -> Nat] /\ done \in [Calls -> BOOLEAN]
  BY DEF Main, CollectAnswer, CollectError, CollectEnd, workers, CallsSound, CallTyped
<1>2. \A d \in Calls : Busy(d)' = Busy(d) /\ Len(nodesChan'[d]) = Len(nodesChan[d])
  BY <1>1 DEF Busy
<1>3. \A d \in Calls : /\ NotAnswered(d) \in Nat /\ Len(nodesChan[d]) \in Nat
                       /\ Cardinality(Busy(d)) \in Nat /\ nodesChan[d] \in Seq(Nodes)
  BY CountTyped DEF CallsSound, CallTyped
<1>4. CASE UNCHANGED <<errChan, errs, done>>
  <2>1. \A d \in Calls : NotAnswered(d)' = NotAnswered(d)
    BY <1>2, <1>4 DEF NotAnswered
  <2> QED  BY <1>1, <1>3, <1>4, <2>1, CountKept
<1>5. CASE CollectError(c)
  <2>1. /\ errChan' = [errChan EXCEPT ![c] = @ - 1]
        /\ errs' = errs \/ errs' = [errs EXCEPT ![c] = @ + 1]
        /\ \A d \in Calls : ~Options[d].quitError => done'[d] = done[d]
    BY <1>1, <1>5 DEF CollectError
  <2>2. ASSUME NEW d \in Calls PROVE NotAnswered(d)' <= NotAnswered(d)
    <3>1. errs[d] \in Nat /\ errChan[d] \in Nat
      BY <1>1
    <3>2. CASE d = c
      <4>1. errChan'[d] = errChan[d] - 1 /\ (errs'[d] = errs[d] \/ errs'[d] = errs[d] + 1)
        BY <1>1, <2>1, <3>2
      <4>2. PICK e, b, l, k \in Nat :
              /\ errs[d] = e /\ errChan[d] = b /\ Len(nodesChan[d]) = l
              /\ Cardinality(Busy(d)) = k /\ NotAnswered(d) = e + b + l + k
        BY Parts
      <4>3. NotAnswered(d)' \in {e + (b - 1) + l + k, (e + 1) + (b - 1) + l + k}
        BY <1>2, <4>1, <4>2 DEF NotAnswered
      <4> QED  BY <4>2, <4>3
    <3>3. CASE d # c
      <4>1. errChan'[d] = errChan[d] /\ errs'[d] = errs[d]
        BY <1>1, <2>1, <3>3
      <4> QED  BY <1>2, <1>3, <4>1 DEF NotAnswered
    <3> QED  BY <3>2, <3>3
  <2> QED  BY <1>1, <2>1, <2>2, CountKept
<1> QED  BY <1>4, <1>5 DEF Main, CollectAnswer, CollectEnd

LEMMA StartCounts ==
    ASSUME ProperCalls, CallsSound, CallsSound', NodesCount, NEW c \in Calls, StartCall(c)
    PROVE  NodesCount'
<1>1. /\ main[c] = "none" /\ UNCHANGED <<errs, errChan, done>>
      /\ \A w \in Workers : pc'[w] = IF w[1] = c THEN "test" ELSE pc[w]
  BY DEF StartCall
<1>2. PICK list : /\ nodesChan' = [nodesChan EXCEPT ![c] = list]
                  /\ nodesNbr' = [nodesNbr EXCEPT ![c] = Len(list)]
  BY DEF StartCall
<1>3. /\ nodesChan \in [Calls -> Seq(Nodes)] /\ nodesNbr \in [Calls -> 0..NbrNodes]
      /\ nodesChan' \in [Calls -> Seq(Nodes)]
  BY DEF CallsSound, CallTyped
<1>4. ASSUME NEW d \in Calls \ {c}
      PROVE  NotAnswered(d)' = NotAnswered(d) /\ nodesNbr'[d] = nodesNbr[d]
  <2>1. nodesChan'[d] = nodesChan[d] /\ nodesNbr'[d] = nodesNbr[d]
    BY <1>2, <1>3
  <2>2. \A i : <<d, i>> \in Workers => pc'[<<d, i>>] = pc[<<d, i>>]
    BY <1>1
  <2>3. Busy(d)' = Busy(d)
    BY <2>2 DEF Busy
  <2> QED  BY <1>1, <2>1, <2>3 DEF NotAnswered
<1>5. NotAnswered(c)' = nodesNbr'[c] /\ ~done[c] /\ nodesNbr'[c] \in Nat
  <2>1. errs[c] = 0 /\ errChan[c] = 0 /\ ~done[c]
    BY <1>1 DEF CallsSound, Begun
  <2>2. \A i : <<c, i>> \in Workers => pc'[<<c, i>>] \notin AtNode
    BY <1>1 DEF AtNode
  <2>3. Busy(c)' = {}
    BY <2>2 DEF Busy
  <2>4. Cardinality(Busy(c)') = 0
    BY <2>3, FS_EmptySet
  <2>5. nodesChan'[c] = list /\ nodesNbr'[c] = Len(list) /\ list \in Seq(Nodes)
    BY <1>2, <1>3
  <2>6. Len(list) \in Nat
    BY <2>5
  <2> QED  BY <1>1, <2>1, <2>4, <2>5, <2>6 DEF NotAnswered
<1>6. NotAnswered(c)' <= nodesNbr'[c]
  BY <1>5
<1> QED  BY <1>1, <1>4, <1>5, <1>6 DEF NodesCount

LEMMA CountStep ==
    ASSUME ProperCalls, CallsSound, CallsSound', NodesCount, [ClientNext]_clientVars
    PROVE  NodesCount'
<1>1. CASE Close \/ UNCHANGED clientVars
  <2>1. UNCHANGED <<calls, workers>>
    BY <1>1 DEF Close, CloseStart, CloseNext, CloseOne, CloseEnd, clientVars
  <2> QED  BY <2>1 DEF calls, workers, NodesCount, NotAnswered, Busy
<1> QED  BY <1>1, StartCounts, CallerCounts, WorkerCounts DEF ClientNext

\* Who returns an error has collected all, or quits.
LEMMA FailureStep ==
    ASSUME ProperCalls, CallsSound, NodesCount, FailsWhole, AnswerInv, [ClientNext]_clientVars
    PROVE  FailsWhole'
<1>1. /\ main \in [Calls -> {"none", "collect", "returned"}] /\ errs \in [Calls -> Nat]
      /\ nodesNbr \in [Calls -> 0..NbrNodes] /\ decodedChan \in [Calls -> Seq(Nodes)]
      /\ result \in [Calls -> Nodes \cup {0, Failed}]
  BY DEF CallsSound, CallTyped
<1>2. ASSUME NEW c \in Calls,
             /\ \A d \in Calls \ {c} : /\ result'[d] = result[d] /\ errs'[d] = errs[d]
                                       /\ nodesNbr'[d] = nodesNbr[d] /\ main'[d] = main[d],
             result'[c] = Failed /\ ~Options[c].quitError =>
                 errs'[c] = nodesNbr'[c] /\ main'[c] = "returned"
      PROVE  FailsWhole'
  BY <1>2 DEF FailsWhole
<1>3. ASSUME NEW c \in Calls, StartCall(c) PROVE FailsWhole'
  <2>1. result[c] # Failed
    BY <1>3, ClientNames DEF StartCall, CallsSound, Begun
  <2>2. \A d \in Calls \ {c} : /\ result'[d] = result[d] /\ errs'[d] = errs[d]
                               /\ nodesNbr'[d] = nodesNbr[d] /\ main'[d] = main[d]
    BY <1>1, <1>3 DEF StartCall
  <2>3. result'[c] = result[c]
    BY <1>3 DEF StartCall
  <2> QED  BY <1>2, <2>1, <2>2, <2>3
<1>4. ASSUME NEW c \in Calls, Main(c) PROVE FailsWhole'
  <2>1. /\ main[c] = "collect" /\ UNCHANGED nodesNbr
        /\ \A d \in Calls \ {c} : /\ result'[d] = result[d] /\ errs'[d] = errs[d]
                                  /\ main'[d] = main[d]
    BY <1>1, <1>4 DEF Main, CollectAnswer, CollectError, CollectEnd, Return
  <2>2. result[c] = Failed => Options[c].quitError
    BY <2>1 DEF FailsWhole
  <2>3. CASE CollectAnswer(c)
    <3>1. result'[c] = Head(decodedChan[c]) /\ decodedChan[c] # <<>> /\ decodedChan[c] \in Seq(Nodes)
      BY <1>1, <2>3 DEF CollectAnswer, Return
    <3>2. result'[c] \in Nodes
      BY <3>1
    <3> QED  BY <1>2, <2>1, <3>2, ClientNames
  <2>4. CASE CollectError(c)
    <3>1. Options[c].quitError \/ result'[c] = result[c]
      BY <2>4 DEF CollectError
    <3> QED  BY <1>2, <2>1, <2>2, <3>1
  <2>5. CASE CollectEnd(c)
    <3>1. PICK e, b, l, k \in Nat :
            /\ errs[c] = e /\ errChan[c] = b /\ Len(nodesChan[c]) = l
            /\ Cardinality(Busy(c)) = k /\ NotAnswered(c) = e + b + l + k
      BY Parts
    <3>2. NotAnswered(c) <= nodesNbr[c] /\ ~(errs[c] < nodesNbr[c]) /\ nodesNbr[c] \in Nat
      BY <2>5, CountTyped DEF NodesCount, CollectEnd, Collecting
    <3>3. errs[c] = nodesNbr[c]
      BY <3>1, <3>2
    <3>4. main'[c] = "returned" /\ errs'[c] = errs[c] /\ nodesNbr'[c] = nodesNbr[c]
      BY <1>1, <2>5 DEF CollectEnd, Return
    <3> QED  BY <1>2, <2>1, <3>3, <3>4
  <2> QED  BY <1>4, <2>3, <2>4, <2>5 DEF Main
<1>5. CASE \/ \E w \in Workers : Worker(w)
           \/ Close \/ UNCHANGED clientVars
  <2>1. UNCHANGED <<result, errs, nodesNbr, main>>
    BY <1>5 DEF Worker, TestDone, TakeNode, LockAndDial, WriteMessage, ReadMessage, Finish,
                Decide, Announce, CloseDone, Close, CloseStart, CloseNext, CloseOne, CloseEnd,
                calls, clientVars
  <2> QED  BY <2>1 DEF FailsWhole
<1> QED  BY <1>3, <1>4, <1>5 DEF ClientNext

\* Only three steps panic.
LEMMA PanicStep ==
    ASSUME ProperCalls, AnswerInv, NodesCount, PanicsExplained, [ClientNext]_clientVars
    PROVE  PanicsExplained'
<1>1. CASE UNCHANGED clientVars
  BY <1>1 DEF clientVars, calls, PanicsExplained
<1>2. CASE ClientNext
  <2>1. ~panicked
    BY <1>2 DEF ClientNext
  <2>2. ASSUME NEW c \in Calls, CollectError(c) PROVE PanicsExplained'
    <3>1. Options[c].quitError \/ panicked' = panicked
      BY <2>2 DEF CollectError
    <3> QED  BY <2>1, <3>1 DEF PanicsExplained
  <2>3. ASSUME NEW c \in Calls, CollectEnd(c) PROVE PanicsExplained'
    <3>1. /\ nodesNbr'[c] = nodesNbr[c] /\ main'[c] = "returned"
          /\ panicked' => errs[c] = 0
      BY <2>3 DEF CollectEnd, Return, AnswerInv, CallsSound, CallTyped
    <3>2. nodesNbr[c] \in Nat /\ errs[c] \in Nat /\ ~(errs[c] < nodesNbr[c])
      BY <2>3, CountTyped DEF CollectEnd, Collecting, AnswerInv
    <3> QED  BY <3>1, <3>2 DEF PanicsExplained
  <2>4. ASSUME NEW w \in Workers, CloseDone(w) PROVE PanicsExplained'
    <3>1. pc[w] \in AtRet /\ panicked' = done[w[1]] /\ w[1] \in Calls
      BY <2>4, ClientNames DEF CloseDone, AtRet
    <3> QED  BY <3>1 DEF AnswerInv, FirstAnswer, PanicsExplained
  <2>5. CASE UNCHANGED panicked
    BY <2>1, <2>5 DEF PanicsExplained
  <2>6. \/ UNCHANGED panicked \/ \E c \in Calls : CollectError(c) \/ CollectEnd(c)
        \/ \E w \in Workers : CloseDone(w)
    BY <1>2 DEF ClientNext, StartCall, Main, CollectAnswer, Worker, TestDone, TakeNode,
                LockAndDial, WriteMessage, ReadMessage, Finish, Decide, Announce,
                Close, CloseStart, CloseNext, CloseOne, CloseEnd
  <2> QED  BY <2>2, <2>3, <2>4, <2>5, <2>6
<1> QED  BY <1>1, <1>2

LEMMA ErrorAtFirst == ASSUME ProperCalls, ClientInit PROVE ErrorInv
<1>1. AnswerInv
  BY AnswerAtFirst
<1>2. /\ \A w \in Workers : pc[w] \notin AtNode
      /\ \A c \in Calls : /\ result[c] = 0 /\ ~done[c] /\ nodesNbr[c] = 0
                          /\ errs[c] = 0 /\ errChan[c] = 0 /\ nodesChan[c] = <<>>
      /\ ~panicked
  BY DEF ClientInit, AtNode
<1>3. ASSUME NEW c \in Calls PROVE NotAnswered(c) = 0
  <2>1. Busy(c) = {}
    BY <1>2 DEF Busy
  <2>2. Len(nodesChan[c]) = 0
    BY <1>2
  <2> QED  BY <1>2, <2>1, <2>2, FS_EmptySet DEF NotAnswered
<1>4. NodesCount
  BY <1>2, <1>3 DEF NodesCount
<1> QED  BY <1>1, <1>2, <1>4, ClientNames DEF ErrorInv, FailsWhole, PanicsExplained

LEMMA ErrorStep == ASSUME ProperCalls, ErrorInv, [ClientNext]_clientVars PROVE ErrorInv'
<1>1. AnswerInv /\ AnswerInv' /\ CallsSound /\ CallsSound'
  BY AnswerStep DEF ErrorInv, AnswerInv
<1> QED  BY <1>1, CountStep, FailureStep, PanicStep DEF ErrorInv

\* When the errors are as many as the nodes, no node is left anywhere else.
LEMMA NobodyLeft == ASSUME ProperCalls, ErrorInv PROVE ErrorMeansAllFailed
<1>1. SUFFICES ASSUME NEW c \in Calls, result[c] = Failed, ~Options[c].quitError
               PROVE  /\ nodesChan[c] = <<>> /\ errs[c] = nodesNbr[c]
                      /\ \A w \in Workers : w[1] = c => pc[w] \in {"test", "take", "gone"}
  BY DEF ErrorMeansAllFailed
<1>2. errs[c] = nodesNbr[c] /\ main[c] = "returned"
  BY <1>1 DEF ErrorInv, FailsWhole
<1>3. CallsSound /\ NotAnswered(c) <= nodesNbr[c]
  BY DEF ErrorInv, AnswerInv, NodesCount
<1>4. PICK e, b, l, k \in Nat :
        /\ errs[c] = e /\ errChan[c] = b /\ Len(nodesChan[c]) = l
        /\ Cardinality(Busy(c)) = k /\ NotAnswered(c) = e + b + l + k
  BY <1>3, Parts
<1>5. l = 0 /\ k = 0
  BY <1>2, <1>3, <1>4
<1>6. nodesChan[c] = <<>>
  <2>1. nodesChan[c] \in Seq(Nodes) /\ Len(nodesChan[c]) = 0
    BY <1>3, <1>4, <1>5 DEF CallsSound, CallTyped
  <2> QED  BY <2>1
<1>7. Busy(c) = {}
  BY <1>4, <1>5, BusyFacts
<1>8. ASSUME NEW w \in Workers, w[1] = c PROVE pc[w] \in {"test", "take", "gone"}
  <2>1. w = <<c, w[2]>> /\ w[2] \in 1..Half
    BY <1>8, ClientNames
  <2>2. pc[w] \notin AtNode
    BY <1>7, <2>1 DEF Busy
  <2>3. pc[w] \in Places /\ pc[w] # "none"
    BY <1>2, <1>3, <1>8 DEF CallsSound, CallTyped, Begun, Places
  <2> QED  BY <2>2, <2>3 DEF AtNode, Places
<1> QED  BY <1>2, <1>6, <1>8

\* A call without QuitError that returns an error has the errors of all nodes of
\* its list, and no goroutine of it has one left (websocket_client.go:385-399).
THEOREM ErrorsOfAllNodes == ProperCalls => (ClientSpec => []ErrorMeansAllFailed)
<1>1. ProperCalls /\ ClientInit => ErrorInv
  BY ErrorAtFirst
<1>2. ProperCalls /\ ErrorInv /\ [ClientNext]_clientVars => ErrorInv'
  BY ErrorStep
<1>3. ProperCalls /\ ErrorInv => ErrorMeansAllFailed
  BY NobodyLeft
<1>4. SUFFICES ASSUME ProperCalls PROVE ClientSpec => []ErrorMeansAllFailed
  OBVIOUS
<1> QED  BY <1>1, <1>2, <1>3, <1>4, PTL DEF ClientSpec

\* done is closed twice only where QuitError closes it, and errs[0] missing only
\* when a list is empty (websocket_client.go:363, 386-399).
THEOREM PanicsAreTheseTwo == ProperCalls => (ClientSpec => []PanicsExplained)
<1>1. ProperCalls /\ ClientInit => ErrorInv
  BY ErrorAtFirst
<1>2. ProperCalls /\ ErrorInv /\ [ClientNext]_clientVars => ErrorInv'
  BY ErrorStep
<1>3. ErrorInv => PanicsExplained
  BY DEF ErrorInv
<1>4. SUFFICES ASSUME ProperCalls PROVE ClientSpec => []PanicsExplained
  OBVIOUS
<1> QED  BY <1>1, <1>2, <1>3, <1>4, PTL DEF ClientSpec
=============================================================================
