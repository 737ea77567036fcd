-------------------------- MODULE TreeNodeInstance --------------------------
(***************************************************************************)
(* The message side of a protocol instance on a node of a tree             *)
(* (onet/treenode.go).  Connections put messages into msgDispatchQueue; a  *)
(* reader goroutine takes them, collects the messages of all children      *)
(* where the protocol wants them together, and gives them to a channel or  *)
(* a handler of the protocol.                                              *)
(*                                                                         *)
(* The reader sleeps on a channel of capacity one, msgDispatchQueueWait.   *)
(* Every critical section of msgDispatchQueueMutex is one step.            *)
(***************************************************************************)
EXTENDS Integers, Sequences, FiniteSets

CONSTANTS
    Children,       \* the children of this node
    Parent,         \* the parent, or another value at the root
    Aggregated,     \* types whose children's messages come together
    Single,         \* types whose messages come one by one
    Channels,       \* the types with a channel; the others have a handler
    Capacity,       \* channel length: DefaultChannelLength, or as registered
    Rounds,         \* sender -> type -> how often it sends that type
    Misattributed   \* messages that createValueAndVerify refuses

Types == Aggregated \cup Single
Senders == Children \cup {Parent}

\* A message: who sent it, its type, and which one of that type it is.
Message ==
    UNION {[from : {s}, type : {t}, round : 1..Rounds[s][t]] : s \in Senders, t \in Types}

ASSUME InstanceAssumption ==
    /\ IsFiniteSet(Children) /\ Parent \notin Children
    /\ Channels \subseteq Types /\ Aggregated \cap Single = {}
    /\ Capacity \in Nat \ {0}
    /\ Rounds \in [Senders -> [Types -> Nat]]
    /\ \A t \in Aggregated : Rounds[Parent][t] = 0
    /\ Misattributed \subseteq Message

VARIABLES
    msgDispatchQueue,
    notified,     \* msgDispatchQueueWait holds a value
    closing,      \* and msgDispatchQueueWait is closed
    reader,       \* where dispatchMsgReader is: "test", "wait", "dispatch",
                  \* "send" (in dispatchChannel), "gone"
    batch,        \* the messages it is dispatching
    msgQueue,     \* per type: the children's messages collected so far
    channel,      \* per type: the batches in the protocol's channel
    sent,         \* per sender and type: messages sent so far
    read,         \* the messages the reader took (history)
    handed        \* per type: the batches given to the protocol (history)

vars == <<msgDispatchQueue, notified, closing, reader, batch, msgQueue, channel,
          sent, read, handed>>

TypeOK ==
    /\ msgDispatchQueue \in Seq(Message)
    /\ notified \in BOOLEAN /\ closing \in BOOLEAN
    /\ reader \in {"test", "wait", "dispatch", "send", "gone"}
    /\ batch \in Seq(Message)
    /\ msgQueue \in [Aggregated -> Seq(Message)]
    /\ channel \in [Channels -> Seq(Seq(Message))]
    /\ \A t \in Channels : Len(channel[t]) <= Capacity
    /\ sent \in [Senders -> [Types -> Nat]]
    /\ read \in Seq(Message)
    /\ handed \in [Types -> Seq(Seq(Message))]

Init ==
    /\ msgDispatchQueue = <<>> /\ notified = FALSE /\ closing = FALSE
    /\ reader = "test" /\ batch = <<>>
    /\ msgQueue = [t \in Aggregated |-> <<>>]
    /\ channel = [t \in Channels |-> <<>>]
    /\ sent = [s \in Senders |-> [t \in Types |-> 0]]
    /\ read = <<>>
    /\ handed = [t \in Types |-> <<>>]

-----------------------------------------------------------------------------
(* The connections.                                                        *)

\* A child sends its next message of an aggregated type when the protocol
\* got the last one: it waits for its parent's answer.
MaySend(s, t) ==
    /\ sent[s][t] < Rounds[s][t]
    /\ t \in Aggregated => sent[s][t] = Len(handed[t])

AlwaysAccepts == TRUE   \* mutant: the flag is not looked at
Accepts == ~closing

\* ProcessProtocolMsg and notifyDispatch.
ProcessProtocolMsg(s, t) ==
    /\ MaySend(s, t)
    /\ sent' = [sent EXCEPT ![s][t] = @ + 1]
    /\ IF Accepts
       THEN /\ msgDispatchQueue' = Append(msgDispatchQueue,
                 [from |-> s, type |-> t, round |-> sent[s][t] + 1])
            /\ notified' = TRUE
       ELSE UNCHANGED <<msgDispatchQueue, notified>>
    /\ UNCHANGED <<closing, reader, batch, msgQueue, channel, read, handed>>

-----------------------------------------------------------------------------
(* dispatchMsgReader.                                                      *)

ReaderTest ==
    /\ reader = "test"
    /\ \/ /\ closing
          /\ reader' = "gone"
          /\ UNCHANGED <<msgDispatchQueue, batch, read>>
       \/ /\ ~closing /\ msgDispatchQueue # <<>>
          /\ batch' = <<Head(msgDispatchQueue)>>
          /\ read' = Append(read, Head(msgDispatchQueue))
          /\ msgDispatchQueue' = Tail(msgDispatchQueue)
          /\ reader' = "dispatch"
       \/ /\ ~closing /\ msgDispatchQueue = <<>>
          /\ reader' = "wait"
          /\ UNCHANGED <<msgDispatchQueue, batch, read>>
    /\ UNCHANGED <<notified, closing, msgQueue, channel, sent, handed>>

\* What lets the reader go on: a value in the channel, or its being closed.
ByValueOnly == notified   \* mutant: closing does not wake the reader
Woken == notified \/ closing

ReaderWait ==
    /\ reader = "wait"
    /\ Woken
    /\ notified' = FALSE
    /\ reader' = "test"
    /\ UNCHANGED <<msgDispatchQueue, closing, batch, msgQueue, channel, sent, read, handed>>

\* aggregate: what is collected of the message's type once it has come.
Collected(m) == Append(msgQueue[m.type], m)
\* What is left when a batch is complete.
NotEmptied(m) == msgQueue   \* mutant: the batch stays in the queue
Emptied(m) == [msgQueue EXCEPT ![m.type] = <<>>]

\* The message is dispatched alone.
Direct(m) == m.from = Parent \/ m.type \notin Aggregated

\* dispatchMsgToProtocol up to the choice of the channel or handler.
Aggregate ==
    /\ reader = "dispatch"
    /\ LET m == batch[1]
       IN \/ /\ Direct(m)
             /\ reader' = "send"
             /\ UNCHANGED <<batch, msgQueue>>
          \/ /\ ~Direct(m) /\ Len(Collected(m)) = Cardinality(Children)
             /\ batch' = Collected(m)
             /\ msgQueue' = Emptied(m)
             /\ reader' = "send"
          \/ /\ ~Direct(m) /\ Len(Collected(m)) # Cardinality(Children)
             /\ msgQueue' = [msgQueue EXCEPT ![m.type] = Collected(m)]
             /\ batch' = <<>>
             /\ reader' = "test"
    /\ UNCHANGED <<msgDispatchQueue, notified, closing, channel, sent, read, handed>>

BatchType == batch[1].type
Verified == \A i \in DOMAIN batch : batch[i] \notin Misattributed
HandOver == handed' = [handed EXCEPT ![BatchType] = Append(@, batch)]

\* dispatchHandler: the handler runs in the reader goroutine.
DispatchHandler ==
    /\ reader = "send" /\ BatchType \notin Channels
    /\ IF Verified THEN HandOver ELSE UNCHANGED handed
    /\ reader' = "test" /\ batch' = <<>>
    /\ UNCHANGED <<msgDispatchQueue, notified, closing, msgQueue, channel, sent, read>>

\* dispatchChannel for messages that come together: it waits while the
\* channel is full.
SendAggregated ==
    /\ reader = "send" /\ BatchType \in Channels \cap Aggregated
    /\ IF Verified
       THEN /\ Len(channel[BatchType]) < Capacity
            /\ channel' = [channel EXCEPT ![BatchType] = Append(@, batch)]
            /\ HandOver
       ELSE UNCHANGED <<channel, handed>>
    /\ reader' = "test" /\ batch' = <<>>
    /\ UNCHANGED <<msgDispatchQueue, notified, closing, msgQueue, sent, read>>

\* dispatchChannel for a single message: it is dropped when the channel is
\* full or the instance is closing.
SendSingle ==
    /\ reader = "send" /\ BatchType \in Channels \cap Single
    /\ IF Verified /\ Len(channel[BatchType]) < Capacity /\ ~closing
       THEN /\ channel' = [channel EXCEPT ![BatchType] = Append(@, batch)]
            /\ HandOver
       ELSE UNCHANGED <<channel, handed>>
    /\ reader' = "test" /\ batch' = <<>>
    /\ UNCHANGED <<msgDispatchQueue, notified, closing, msgQueue, sent, read>>

-----------------------------------------------------------------------------
(* The protocol.                                                           *)

\* The protocol receives from one of its channels.
Consume(t) ==
    /\ channel[t] # <<>>
    /\ channel' = [channel EXCEPT ![t] = Tail(@)]
    /\ UNCHANGED <<msgDispatchQueue, notified, closing, reader, batch, msgQueue, sent,
                   read, handed>>

\* closeDispatch, called once by nodeDelete.
CloseDispatch ==
    /\ ~closing
    /\ closing' = TRUE
    /\ UNCHANGED <<msgDispatchQueue, notified, reader, batch, msgQueue, channel, sent,
                   read, handed>>

Reader == ReaderTest \/ ReaderWait \/ Aggregate \/ DispatchHandler
          \/ SendAggregated \/ SendSingle

Next ==
    \/ \E s \in Senders, t \in Types : ProcessProtocolMsg(s, t)
    \/ Reader
    \/ \E t \in Channels : Consume(t)
    \/ CloseDispatch

Spec == Init /\ [][Next]_vars

\* The reader runs when it can, and the protocol reads its channels.
FairSpec == Spec /\ WF_vars(Reader)
                 /\ \A t \in Channels : WF_vars(Consume(t))

-----------------------------------------------------------------------------
(* Properties.                                                             *)

\* The queue is a mailbox: whatever the timing of notification, sleep and
\* closing, no message is overtaken, read twice, read after closing, or left
\* lying while the reader sleeps (treenode.go:503-555).
Box == INSTANCE Mailbox WITH Msg <- Message, inbox <- msgDispatchQueue,
                             taken <- read, open <- ~closing
ImplementsMailbox == Box!FairBoxSpec

\* A batch of an aggregated type holds one message of every child, all of the
\* same round, and batches come in the order of the rounds (treenode.go:603-632).
CompleteBatches ==
    \A t \in Aggregated : \A k \in DOMAIN handed[t] :
        LET b == handed[t][k]
        IN  /\ Len(b) = Cardinality(Children)
            /\ {b[i].from : i \in DOMAIN b} = Children
            /\ \A i \in DOMAIN b : b[i].round = k

\* What a channel of single messages gets from one sender is in the order in
\* which that sender sent it, although some may be dropped
\* (treenode.go:473-496).
SenderOrder ==
    \A t \in Single : \A i, j \in DOMAIN handed[t] :
        i < j /\ handed[t][i][1].from = handed[t][j][1].from
        => handed[t][i][1].round < handed[t][j][1].round

\* After closing, the reader goroutine ends (treenode.go:525-534).
ReaderEnds == [](closing => <>(reader = "gone"))
=============================================================================
