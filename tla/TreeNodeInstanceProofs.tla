----------------------- MODULE TreeNodeInstanceProofs -----------------------
(***************************************************************************)
(* Proofs about the message side of a protocol instance, for any set of    *)
(* children, any message types and any channel length.                     *)
(*                                                                         *)
(* That the queue implements a mailbox follows step by step.  That batches *)
(* are complete needs an invariant: of an aggregated type, every child has *)
(* at most one message between the connections and the protocol, and it    *)
(* belongs to the batch that comes next (AllCurrent, AllDiffer).           *)
(***************************************************************************)
EXTENDS TreeNodeInstance, FiniteSetTheorems, TLAPS

\* The reader has the messages that it dispatches in hand, all of one type.
BatchHeld ==
    /\ reader = "dispatch" => Len(batch) = 1
    /\ reader = "send" => /\ Len(batch) >= 1
                          /\ \A i \in 1..Len(batch) : batch[i].type = batch[1].type

\* A message of an aggregated type is the last that its sender has sent, and
\* belongs to the next batch.
CurrentIn(m, hd, st) ==
    m.type \in Aggregated => /\ m.from \in Children
                             /\ m.round = Len(hd[m.type]) + 1
                             /\ st[m.from][m.type] = m.round
Current(m) == CurrentIn(m, handed, sent)

\* All messages on their way to the protocol are current.
AllCurrent ==
    /\ \A i \in 1..Len(msgDispatchQueue) : Current(msgDispatchQueue[i])
    /\ reader \in {"dispatch", "send"} => \A i \in 1..Len(batch) : Current(batch[i])
    /\ \A t \in Aggregated : \A i \in 1..Len(msgQueue[t]) :
          Current(msgQueue[t][i])

\* Not the same child with the same aggregated type.
Differ(m, n) == m.type \in Aggregated /\ m.type = n.type => m.from # n.from

\* No two messages on their way to the protocol are of the same child and type.
AllDiffer ==
    /\ \A i, j \in 1..Len(msgDispatchQueue) :
          i # j => Differ(msgDispatchQueue[i], msgDispatchQueue[j])
    /\ reader \in {"dispatch", "send"} =>
          \A i \in 1..Len(batch) :
             /\ \A j \in 1..Len(batch) : i # j => Differ(batch[i], batch[j])
             /\ \A j \in 1..Len(msgDispatchQueue) : Differ(batch[i], msgDispatchQueue[j])
    /\ \A t \in Aggregated : \A i \in 1..Len(msgQueue[t]) :
          /\ \A j \in 1..Len(msgQueue[t]) : i # j => Differ(msgQueue[t][i], msgQueue[t][j])
          /\ \A j \in 1..Len(msgDispatchQueue) : Differ(msgQueue[t][i], msgDispatchQueue[j])
          /\ reader = "dispatch" => Differ(msgQueue[t][i], batch[1])

\* A batch that is dispatched is full, and nothing of it is left behind.
BatchFull ==
    reader = "send" /\ batch[1].type \in Aggregated =>
        /\ Len(batch) = Cardinality(Children)
        /\ msgQueue[batch[1].type] = <<>>

\* What is collected is of the type under which it is collected.
TypesKept ==
    \A t \in Aggregated : \A i \in 1..Len(msgQueue[t]) : msgQueue[t][i].type = t

TypeInv == TypeOK /\ BatchHeld
CurInv == AllCurrent /\ AllDiffer /\ BatchFull
IndInv == TypeInv /\ TypesKept /\ CurInv /\ CompleteBatches

-----------------------------------------------------------------------------
(* Facts about messages and batches.                                       *)

\* The fields of a message.
LEMMA MessageFacts ==
    ASSUME NEW m \in Message
    PROVE  /\ m.from \in Senders /\ m.type \in Types /\ m.round \in Nat
           /\ m.round \in 1..Rounds[m.from][m.type]
           /\ m.type \in Aggregated => m.from \in Children
  <1> DEFINE Sets == {[from : {s}, type : {t}, round : 1..Rounds[s][t]] :
                        s \in Senders, t \in Types}
  <1>0. PICK S \in Sets : m \in S
    BY DEF Message
  <1>1. PICK s \in Senders, t \in Types :
            S = [from : {s}, type : {t}, round : 1..Rounds[s][t]]
    BY <1>0
  <1>2. m.from = s /\ m.type = t /\ m.round \in 1..Rounds[s][t]
    BY <1>0, <1>1
  <1>3. Rounds[s][t] \in Nat
    BY InstanceAssumption
  <1>4. t \in Aggregated => s \in Children
    <2>1. t \in Aggregated /\ s = Parent => Rounds[s][t] = 0
      BY InstanceAssumption
    <2>2. Rounds[s][t] # 0
      BY <1>2, <1>3
    <2> QED
      BY <2>1, <2>2 DEF Senders
  <1> QED
    BY <1>2, <1>3, <1>4

\* What a sender sends next is a message.
LEMMA NextMessage ==
    ASSUME NEW s \in Senders, NEW t \in Types, NEW k \in Nat, k < Rounds[s][t]
    PROVE  [from |-> s, type |-> t, round |-> k + 1] \in Message
  <1>1. Rounds[s][t] \in Nat
    BY InstanceAssumption
  <1>2. k + 1 \in 1..Rounds[s][t]
    BY <1>1
  <1> DEFINE Of(x, y) == [from : {x}, type : {y}, round : 1..Rounds[x][y]]
  <1>3. [from |-> s, type |-> t, round |-> k + 1] \in Of(s, t)
    BY <1>2
  <1> HIDE DEF Of
  <1>4. Of(s, t) \in {Of(x, y) : x \in Senders, y \in Types}
    BY SMT
  <1>5. [from |-> s, type |-> t, round |-> k + 1]
            \in UNION {Of(x, y) : x \in Senders, y \in Types}
    BY <1>3, <1>4
  <1> QED
    BY <1>5 DEF Message, Of

\* The elements of a sequence to which a message is appended.
LEMMA AppendFacts ==
    ASSUME NEW q \in Seq(Message), NEW m \in Message
    PROVE  /\ Append(q, m) \in Seq(Message) /\ Len(q) \in Nat
           /\ Len(Append(q, m)) = Len(q) + 1
           /\ \A i \in 1..Len(Append(q, m)) :
                 \/ i \in 1..Len(q) /\ Append(q, m)[i] = q[i] /\ q[i] \in Message
                 \/ i = Len(q) + 1 /\ Append(q, m)[i] = m
  <1>1. Len(q) \in Nat /\ Len(Append(q, m)) = Len(q) + 1 /\ Append(q, m) \in Seq(Message)
    OBVIOUS
  <1>2. ASSUME NEW i \in 1..Len(q)
        PROVE  Append(q, m)[i] = q[i] /\ q[i] \in Message
    OBVIOUS
  <1>3. Append(q, m)[Len(q) + 1] = m
    OBVIOUS
  <1>4. \A i \in 1..(Len(q) + 1) : i \in 1..Len(q) \/ i = Len(q) + 1
    BY <1>1
  <1> QED
    BY <1>1, <1>2, <1>3, <1>4

\* As many different children as there are, are all of them.
LEMMA AllChildren ==
    ASSUME NEW b \in Seq(Message), Len(b) = Cardinality(Children),
           \A i \in 1..Len(b) : b[i].from \in Children,
           \A i, j \in 1..Len(b) : i # j => b[i].from # b[j].from
    PROVE  {b[i].from : i \in DOMAIN b} = Children
  <1> DEFINE f == [i \in 1..Len(b) |-> b[i].from]
  <1>1. f \in Injection(1..Len(b), Children)
    BY DEF Injection, IsInjective
  <1>2. IsFiniteSet(Children)
    BY InstanceAssumption
  <1>3. Len(b) \in Nat
    OBVIOUS
  <1>4. Cardinality(1..Len(b)) = Len(b)
    BY <1>3, FS_Interval
  <1>5. f \in Surjection(1..Len(b), Children)
    BY <1>1, <1>2, <1>4, FS_Injection
  <1>6. \A c \in Children : \E i \in 1..Len(b) : f[i] = c
    BY <1>5 DEF Surjection
  <1>7. DOMAIN b = 1..Len(b)
    OBVIOUS
  <1> QED
    BY <1>6, <1>7

-----------------------------------------------------------------------------
(* The types, and what the reader holds.                                   *)

\* The messages in hand are messages when the reader dispatches.
LEMMA HeldFacts ==
    ASSUME TypeInv, reader \in {"dispatch", "send"}
    PROVE  /\ batch[1] \in Message /\ 1 \in 1..Len(batch)
           /\ BatchType \in Types
           /\ \A i \in 1..Len(batch) : batch[i] \in Message
  <1>0. batch \in Seq(Message) /\ (Len(batch) = 1 \/ Len(batch) >= 1)
    BY DEF TypeInv, TypeOK, BatchHeld
  <1>1. batch \in Seq(Message) /\ Len(batch) \in Nat /\ Len(batch) >= 1
    BY <1>0
  <1>2. batch[1] \in Message /\ \A i \in 1..Len(batch) : batch[i] \in Message
    BY <1>1
  <1> QED
    BY <1>1, <1>2, MessageFacts DEF BatchType

LEMMA SendTypes ==
    ASSUME TypeInv, NEW s \in Senders, NEW t \in Types, ProcessProtocolMsg(s, t)
    PROVE  TypeInv'
  <1>1. sent[s][t] \in Nat
    BY DEF TypeInv, TypeOK
  <1>2. [from |-> s, type |-> t, round |-> sent[s][t] + 1] \in Message
    BY <1>1, NextMessage DEF ProcessProtocolMsg, MaySend
  <1>3. msgDispatchQueue' \in Seq(Message) /\ notified' \in BOOLEAN
    <2>1. msgDispatchQueue \in Seq(Message) /\ notified \in BOOLEAN
      BY DEF TypeInv, TypeOK
    <2>2. CASE UNCHANGED <<msgDispatchQueue, notified>>
      BY <2>1, <2>2
    <2>3. CASE /\ msgDispatchQueue' = Append(msgDispatchQueue,
                      [from |-> s, type |-> t, round |-> sent[s][t] + 1])
               /\ notified' = TRUE
      BY <1>2, <2>1, <2>3
    <2> QED
      BY <2>2, <2>3 DEF ProcessProtocolMsg
  <1>4. sent' \in [Senders -> [Types -> Nat]]
    BY <1>1 DEF ProcessProtocolMsg, TypeInv, TypeOK
  <1> QED
    BY <1>3, <1>4 DEF ProcessProtocolMsg, TypeInv, TypeOK, BatchHeld

LEMMA TestTypes ==
    ASSUME TypeInv, ReaderTest
    PROVE  TypeInv'
  <1>1. CASE closing /\ reader' = "gone" /\ UNCHANGED <<msgDispatchQueue, batch, read>>
    BY <1>1 DEF ReaderTest, TypeInv, TypeOK, BatchHeld
  <1>2. CASE /\ ~closing /\ msgDispatchQueue # <<>>
             /\ batch' = <<Head(msgDispatchQueue)>>
             /\ read' = Append(read, Head(msgDispatchQueue))
             /\ msgDispatchQueue' = Tail(msgDispatchQueue)
             /\ reader' = "dispatch"
    <2>1. Head(msgDispatchQueue) \in Message /\ Tail(msgDispatchQueue) \in Seq(Message)
      BY <1>2 DEF TypeInv, TypeOK
    <2>2. batch' \in Seq(Message) /\ Len(batch') = 1
      BY <1>2, <2>1
    <2>3. read' \in Seq(Message)
      BY <1>2, <2>1 DEF TypeInv, TypeOK
    <2> QED
      BY <1>2, <2>1, <2>2, <2>3 DEF ReaderTest, TypeInv, TypeOK, BatchHeld
  <1>3. CASE /\ ~closing /\ msgDispatchQueue = <<>> /\ reader' = "wait"
             /\ UNCHANGED <<msgDispatchQueue, batch, read>>
    BY <1>3 DEF ReaderTest, TypeInv, TypeOK, BatchHeld
  <1> QED
    BY <1>1, <1>2, <1>3 DEF ReaderTest

\* What has been collected, with the message that comes.
LEMMA CollectedFacts ==
    ASSUME TypeInv, NEW m \in Message, ~Direct(m)
    PROVE  /\ m.type \in Aggregated /\ msgQueue[m.type] \in Seq(Message)
           /\ Collected(m) \in Seq(Message)
           /\ Len(Collected(m)) = Len(msgQueue[m.type]) + 1
           /\ Collected(m)[Len(msgQueue[m.type]) + 1] = m
           /\ \A i \in 1..Len(msgQueue[m.type]) : Collected(m)[i] = msgQueue[m.type][i]
  BY DEF TypeInv, TypeOK, Direct, Collected

LEMMA AggregateTypes ==
    ASSUME TypeInv, Aggregate,
           \A t \in Aggregated : \A i \in 1..Len(msgQueue[t]) : msgQueue[t][i].type = t
    PROVE  TypeInv'
  <1> DEFINE m == batch[1]
  <1>0. UNCHANGED <<msgDispatchQueue, notified, closing, channel, sent, read, handed>>
    BY DEF Aggregate
  <1>1. reader = "dispatch" /\ m \in Message /\ Len(batch) = 1
    BY HeldFacts DEF Aggregate, TypeInv, BatchHeld
  <1>2. CASE Direct(m) /\ reader' = "send" /\ UNCHANGED <<batch, msgQueue>>
    <2>1. batch' = batch /\ Len(batch) = 1 /\ reader' = "send"
      BY <1>1, <1>2
    <2>2. BatchHeld'
      BY <2>1 DEF BatchHeld
    <2> QED
      BY <1>0, <1>2, <2>2 DEF TypeInv, TypeOK
  <1>3. CASE /\ ~Direct(m) /\ Len(Collected(m)) = Cardinality(Children)
             /\ batch' = Collected(m) /\ msgQueue' = Emptied(m) /\ reader' = "send"
    <2> DEFINE q == msgQueue[m.type]
    <2>0. /\ m.type \in Aggregated /\ q \in Seq(Message)
          /\ Collected(m) \in Seq(Message) /\ Len(Collected(m)) = Len(q) + 1
          /\ Collected(m)[Len(q) + 1] = m
          /\ \A i \in 1..Len(q) : Collected(m)[i] = q[i]
      BY <1>1, <1>3, CollectedFacts
    <2>a. Len(q) \in Nat
      BY <2>0
    <2>b. \A i \in 1..Len(q) : q[i].type = m.type
      BY <2>0
    <2>c. ASSUME NEW i \in 1..Len(Collected(m)) PROVE Collected(m)[i].type = m.type
      <3>1. i \in 1..Len(q) \/ i = Len(q) + 1
        BY <2>0, <2>a
      <3> QED
        BY <2>0, <2>b, <3>1
    <2>1. /\ batch' \in Seq(Message) /\ Len(batch') >= 1
          /\ \A i \in 1..Len(batch') : batch'[i].type = m.type
      <3> HIDE DEF m, q
      <3> QED
        BY <1>3, <2>0, <2>a, <2>c
    <2>2. msgQueue \in [Aggregated -> Seq(Message)] /\ <<>> \in Seq(Message)
      BY DEF TypeInv, TypeOK
    <2>3. msgQueue' \in [Aggregated -> Seq(Message)]
      BY <1>3, <2>2 DEF Emptied
    <2>4. 1 \in 1..Len(batch')
      BY <2>1
    <2>5. BatchHeld'
      BY <1>3, <2>1, <2>4 DEF BatchHeld
    <2> QED
      BY <1>0, <1>3, <2>1, <2>3, <2>5 DEF TypeInv, TypeOK
  <1>4. CASE /\ ~Direct(m) /\ Len(Collected(m)) # Cardinality(Children)
             /\ msgQueue' = [msgQueue EXCEPT ![m.type] = Collected(m)]
             /\ batch' = <<>> /\ reader' = "test"
    <2>1. Collected(m) \in Seq(Message)
      BY <1>1, <1>4, CollectedFacts
    <2>2. msgQueue' \in [Aggregated -> Seq(Message)]
      BY <1>4, <2>1 DEF TypeInv, TypeOK
    <2> QED
      BY <1>0, <1>4, <2>2 DEF TypeInv, TypeOK, BatchHeld
  <1> QED
    BY <1>2, <1>3, <1>4 DEF Aggregate

LEMMA HandedTypes ==
    ASSUME TypeInv, reader = "send", HandOver \/ UNCHANGED handed
    PROVE  handed' \in [Types -> Seq(Seq(Message))]
  <1>1. /\ handed \in [Types -> Seq(Seq(Message))] /\ batch \in Seq(Message)
        /\ BatchType \in Types
    BY HeldFacts DEF TypeInv, TypeOK
  <1>2. Append(handed[BatchType], batch) \in Seq(Seq(Message))
    BY <1>1
  <1> QED
    BY <1>1, <1>2 DEF HandOver

LEMMA SendOnTypes ==
    ASSUME TypeInv, DispatchHandler \/ SendAggregated \/ SendSingle
    PROVE  TypeInv'
  <1>1. reader = "send"
    BY DEF DispatchHandler, SendAggregated, SendSingle
  <1>2. handed' \in [Types -> Seq(Seq(Message))]
    BY <1>1, HandedTypes DEF DispatchHandler, SendAggregated, SendSingle
  <1>3. channel' \in [Channels -> Seq(Seq(Message))]
        /\ \A t \in Channels : Len(channel'[t]) <= Capacity
    <2>1. CASE UNCHANGED channel
      BY <2>1 DEF TypeInv, TypeOK
    <2>2. CASE /\ BatchType \in Channels /\ Len(channel[BatchType]) < Capacity
               /\ channel' = [channel EXCEPT ![BatchType] = Append(@, batch)]
      <3>1. channel[BatchType] \in Seq(Seq(Message)) /\ batch \in Seq(Message)
        BY <2>2 DEF TypeInv, TypeOK
      <3>2. /\ Append(channel[BatchType], batch) \in Seq(Seq(Message))
            /\ Len(Append(channel[BatchType], batch)) = Len(channel[BatchType]) + 1
            /\ Len(channel[BatchType]) \in Nat
        BY <3>1
      <3>3. Len(channel[BatchType]) + 1 <= Capacity
        BY <2>2, <3>2, InstanceAssumption
      <3> QED
        BY <2>2, <3>2, <3>3 DEF TypeInv, TypeOK
    <2> QED
      BY <2>1, <2>2 DEF DispatchHandler, SendAggregated, SendSingle
  <1>4. /\ reader' = "test" /\ batch' = <<>>
        /\ UNCHANGED <<msgDispatchQueue, notified, closing, msgQueue, sent, read>>
    BY DEF DispatchHandler, SendAggregated, SendSingle
  <1> QED
    BY <1>2, <1>3, <1>4 DEF TypeInv, TypeOK, BatchHeld

LEMMA ConsumeTypes ==
    ASSUME TypeInv, NEW t \in Channels, Consume(t)
    PROVE  TypeInv'
  <1>1. channel[t] \in Seq(Seq(Message)) /\ channel[t] # <<>>
        /\ Len(channel[t]) <= Capacity
    BY DEF Consume, TypeInv, TypeOK
  <1>2. /\ Tail(channel[t]) \in Seq(Seq(Message))
        /\ Len(Tail(channel[t])) = Len(channel[t]) - 1
        /\ Len(channel[t]) \in Nat
    BY <1>1
  <1>3. channel' = [channel EXCEPT ![t] = Tail(channel[t])]
    BY DEF Consume
  <1>4. Len(Tail(channel[t])) <= Capacity
    BY <1>1, <1>2, InstanceAssumption
  <1>5. channel' \in [Channels -> Seq(Seq(Message))]
        /\ \A c \in Channels : Len(channel'[c]) <= Capacity
    BY <1>2, <1>3, <1>4 DEF TypeInv, TypeOK
  <1> QED
    BY <1>5 DEF Consume, TypeInv, TypeOK, BatchHeld

LEMMA InitTypes == Init => TypeInv
  <1> SUFFICES ASSUME Init PROVE TypeInv
    OBVIOUS
  <1>1. /\ channel \in [Channels -> Seq(Seq(Message))]
        /\ \A t \in Channels : Len(channel[t]) <= Capacity
    BY InstanceAssumption DEF Init
  <1>2. /\ msgQueue \in [Aggregated -> Seq(Message)]
        /\ sent \in [Senders -> [Types -> Nat]]
        /\ handed \in [Types -> Seq(Seq(Message))]
    BY DEF Init
  <1>0. <<>> \in Seq(Message)
    OBVIOUS
  <1>3. /\ msgDispatchQueue \in Seq(Message) /\ batch \in Seq(Message)
        /\ read \in Seq(Message)
        /\ notified \in BOOLEAN /\ closing \in BOOLEAN /\ reader = "test"
    BY <1>0 DEF Init
  <1> QED
    BY <1>1, <1>2, <1>3 DEF TypeInv, TypeOK, BatchHeld

LEMMA AggregateKeepsTypes ==
    ASSUME TypeInv, TypesKept, Aggregate
    PROVE  TypesKept'
  <1> DEFINE m == batch[1]
  <1>1. m \in Message /\ msgQueue \in [Aggregated -> Seq(Message)]
    BY HeldFacts DEF Aggregate, TypeInv, TypeOK
  <1>2. CASE UNCHANGED msgQueue
    BY <1>2 DEF TypesKept
  <1>3. CASE ~Direct(m) /\ msgQueue' = Emptied(m)
    <2>1. m.type \in Aggregated
      BY <1>3 DEF Direct
    <2>2. SUFFICES ASSUME NEW t \in Aggregated, NEW i \in 1..Len(msgQueue'[t])
                   PROVE  msgQueue'[t][i].type = t
      BY DEF TypesKept
    <2>3. msgQueue'[t] = IF t = m.type THEN <<>> ELSE msgQueue[t]
      BY <1>1, <1>3 DEF Emptied
    <2> QED
      BY <2>2, <2>3 DEF TypesKept
  <1>4. CASE ~Direct(m) /\ msgQueue' = [msgQueue EXCEPT ![m.type] = Collected(m)]
    <2>1. SUFFICES ASSUME NEW t \in Aggregated, NEW i \in 1..Len(msgQueue'[t])
                   PROVE  msgQueue'[t][i].type = t
      BY DEF TypesKept
    <2>2. CASE t = m.type
      <3>1. msgQueue'[t] = Collected(m)
        BY <1>1, <1>4, <2>2
      <3>2. /\ Len(msgQueue[t]) \in Nat /\ Len(Collected(m)) = Len(msgQueue[t]) + 1
            /\ Collected(m)[Len(msgQueue[t]) + 1] = m
            /\ \A k \in 1..Len(msgQueue[t]) : Collected(m)[k] = msgQueue[t][k]
        BY <1>1, <1>4, <2>2, CollectedFacts
      <3>3. CASE i \in 1..Len(msgQueue[t])
        BY <3>1, <3>2, <3>3 DEF TypesKept
      <3>4. CASE i = Len(msgQueue[t]) + 1
        BY <2>2, <3>1, <3>2, <3>4
      <3> QED
        BY <2>1, <3>1, <3>2, <3>3, <3>4
    <2>3. CASE t # m.type
      <3>1. msgQueue'[t] = msgQueue[t]
        BY <1>1, <1>4, <2>3
      <3> QED
        BY <3>1 DEF TypesKept
    <2> QED
      BY <2>2, <2>3
  <1> QED
    BY <1>2, <1>3, <1>4 DEF Aggregate

LEMMA NextTypes ==
    ASSUME TypeInv, TypesKept, [Next]_vars
    PROVE  TypeInv' /\ TypesKept'
  <1>1. CASE UNCHANGED vars
    BY <1>1 DEF vars, TypeInv, TypeOK, BatchHeld, TypesKept
  <1>2. ASSUME NEW s \in Senders, NEW t \in Types, ProcessProtocolMsg(s, t)
        PROVE  TypeInv' /\ TypesKept'
    BY <1>2, SendTypes DEF ProcessProtocolMsg, TypesKept
  <1>3. CASE ReaderTest
    BY <1>3, TestTypes DEF ReaderTest, TypesKept
  <1>4. CASE ReaderWait
    BY <1>4 DEF ReaderWait, TypeInv, TypeOK, BatchHeld, TypesKept
  <1>5. CASE Aggregate
    BY <1>5, AggregateTypes, AggregateKeepsTypes DEF TypesKept
  <1>6. CASE DispatchHandler \/ SendAggregated \/ SendSingle
    BY <1>6, SendOnTypes DEF DispatchHandler, SendAggregated, SendSingle, TypesKept
  <1>7. ASSUME NEW t \in Channels, Consume(t)
        PROVE  TypeInv' /\ TypesKept'
    BY <1>7, ConsumeTypes DEF Consume, TypesKept
  <1>8. CASE CloseDispatch
    BY <1>8 DEF CloseDispatch, TypeInv, TypeOK, BatchHeld, TypesKept
  <1> QED
    BY <1>1, <1>2, <1>3, <1>4, <1>5, <1>6, <1>7, <1>8 DEF Next, Reader

\* The types of the queue, the reader and the channels (treenode.go:20-60).
THEOREM InstanceTypeCorrect == Spec => []TypeOK
  <1>1. Init => TypeInv /\ TypesKept
    BY InitTypes DEF Init, TypesKept
  <1>2. TypeInv /\ TypesKept /\ [Next]_vars => TypeInv' /\ TypesKept'
    BY NextTypes
  <1>3. TypeInv => TypeOK
    BY DEF TypeInv
  <1> QED
    BY <1>1, <1>2, <1>3, PTL DEF Spec

-----------------------------------------------------------------------------
(* The queue is a mailbox.                                                 *)

\* Every step of the instance is a step of the mailbox or none of its own.
LEMMA BoxStep ==
    ASSUME TypeInv, [Next]_vars
    PROVE  [Box!BoxNext]_(Box!boxVars)
  <1>1. CASE UNCHANGED vars
    BY <1>1 DEF vars, Box!boxVars
  <1>2. ASSUME NEW s \in Senders, NEW t \in Types, ProcessProtocolMsg(s, t)
        PROVE  [Box!BoxNext]_(Box!boxVars)
    <2> DEFINE m == [from |-> s, type |-> t, round |-> sent[s][t] + 1]
    <2>1. CASE Accepts
      <3>1. m \in Message
        <4>1. sent[s][t] \in Nat /\ sent[s][t] < Rounds[s][t]
          BY <1>2 DEF ProcessProtocolMsg, MaySend, TypeInv, TypeOK
        <4> QED
          BY <4>1, NextMessage
      <3>2. Box!Put(m)
        BY <1>2, <2>1 DEF ProcessProtocolMsg, Accepts, Box!Put
      <3> QED
        BY <3>1, <3>2 DEF Box!BoxNext
    <2>2. CASE ~Accepts
      BY <1>2, <2>2 DEF ProcessProtocolMsg, Box!boxVars
    <2> QED
      BY <2>1, <2>2
  <1>3. CASE ReaderTest
    <2>1. CASE UNCHANGED <<msgDispatchQueue, read>>
      BY <1>3, <2>1 DEF ReaderTest, Box!boxVars
    <2>2. CASE /\ ~closing /\ msgDispatchQueue # <<>>
               /\ read' = Append(read, Head(msgDispatchQueue))
               /\ msgDispatchQueue' = Tail(msgDispatchQueue)
      BY <1>3, <2>2 DEF ReaderTest, Box!BoxNext, Box!Take
    <2> QED
      BY <1>3, <2>1, <2>2 DEF ReaderTest
  <1>4. CASE CloseDispatch
    BY <1>4 DEF CloseDispatch, Box!BoxNext, Box!Shut
  <1>5. CASE \/ ReaderWait \/ Aggregate \/ DispatchHandler \/ SendAggregated \/ SendSingle
             \/ \E t \in Channels : Consume(t)
    BY <1>5 DEF ReaderWait, Aggregate, DispatchHandler, SendAggregated, SendSingle, Consume,
                Box!boxVars
  <1> QED
    BY <1>1, <1>2, <1>3, <1>4, <1>5 DEF Next, Reader

\* No message that a connection puts into the queue is overtaken, read twice,
\* or read after closing: the queue with its lock and its notification channel
\* implements a mailbox (treenode.go:503-555).  The run checks that besides
\* no message is left lying (ImplementsMailbox).
THEOREM QueueIsMailbox == Spec => Box!BoxSpec
  <1>1. Init => TypeInv /\ TypesKept
    BY InitTypes DEF Init, TypesKept
  <1>2. TypeInv /\ TypesKept /\ [Next]_vars => TypeInv' /\ TypesKept'
    BY NextTypes
  <1>3. Init => Box!BoxInit
    BY DEF Init, Box!BoxInit
  <1>4. TypeInv /\ [Next]_vars => [Box!BoxNext]_(Box!boxVars)
    BY BoxStep
  <1> QED
    BY <1>1, <1>2, <1>3, <1>4, PTL DEF Spec, Box!BoxSpec

-----------------------------------------------------------------------------
(* Batches are complete.                                                   *)

\* A child sends: its last message has been handed over, so that nothing of it
\* and of this type is on its way.
LEMMA SendCurrent ==
    ASSUME IndInv, NEW s \in Senders, NEW t \in Types, ProcessProtocolMsg(s, t)
    PROVE  CurInv'
  <1> DEFINE q == msgDispatchQueue
  <1>0. PICK m : m = [from |-> s, type |-> t, round |-> sent[s][t] + 1]
    OBVIOUS
  <1>1. /\ sent \in [Senders -> [Types -> Nat]] /\ sent[s][t] \in Nat
        /\ sent' = [sent EXCEPT ![s][t] = sent[s][t] + 1]
        /\ q \in Seq(Message)
        /\ UNCHANGED <<reader, batch, msgQueue, handed>>
    BY DEF ProcessProtocolMsg, IndInv, TypeInv, TypeOK
  <1>2. m \in Message
    BY <1>0, <1>1, NextMessage DEF ProcessProtocolMsg, MaySend
  <1>3. t \in Aggregated => sent[s][t] = Len(handed[t]) /\ s \in Children
    BY <1>0, <1>2, MessageFacts DEF ProcessProtocolMsg, MaySend
  <1>4. sent'[s][t] = sent[s][t] + 1
    BY <1>1
  <1>5. ASSUME NEW n \in Message, Current(n)
        PROVE  CurrentIn(n, handed', sent') /\ Differ(n, m) /\ Differ(m, n)
    <2>1. CASE n.type \notin Aggregated
      BY <1>0, <2>1, <1>5 DEF Current, CurrentIn, Differ
    <2>2. CASE n.type \in Aggregated
      <3>1. /\ n.from \in Senders /\ n.type \in Types
            /\ n.round = Len(handed[n.type]) + 1 /\ sent[n.from][n.type] = n.round
        BY <1>5, <2>2, MessageFacts DEF Current, CurrentIn
      <3>2. ~(n.type = t /\ n.from = s)
        BY <1>1, <1>3, <2>2, <3>1
      <3>3. sent'[n.from][n.type] = sent[n.from][n.type]
        BY <1>1, <3>1, <3>2
      <3> QED
        BY <1>0, <1>1, <1>5, <2>2, <3>2, <3>3 DEF Current, CurrentIn, Differ
    <2> QED
      BY <2>1, <2>2
  <1>6. CurrentIn(m, handed', sent')
    BY <1>0, <1>1, <1>3, <1>4 DEF CurrentIn
  <1>7. \/ q' = q
        \/ q' = Append(q, m)
    BY <1>0 DEF ProcessProtocolMsg
  <1>8. /\ Len(q) \in Nat /\ Len(q') \in Nat
        /\ \A i \in 1..Len(q') : \/ i \in 1..Len(q) /\ q'[i] = q[i] /\ q[i] \in Message
                                 \/ i = Len(q) + 1 /\ q'[i] = m
    <2>0. q \in Seq(Message)
      BY <1>1
    <2>1. CASE q' = q
      BY <2>0, <2>1
    <2>2. CASE q' = Append(q, m)
      BY <1>2, <2>0, <2>2, AppendFacts
    <2> QED
      BY <1>7, <2>1, <2>2
  <1>9. /\ \A i \in 1..Len(q) : Current(q[i]) /\ Differ(q[i], m) /\ Differ(m, q[i])
              /\ CurrentIn(q[i], handed', sent')
        /\ reader \in {"dispatch", "send"} =>
              \A i \in 1..Len(batch) : CurrentIn(batch[i], handed', sent') /\ Differ(batch[i], m)
        /\ \A u \in Aggregated : \A i \in 1..Len(msgQueue[u]) :
              CurrentIn(msgQueue[u][i], handed', sent') /\ Differ(msgQueue[u][i], m)
    <2>1. \A i \in 1..Len(q) : q[i] \in Message /\ Current(q[i])
      BY <1>1 DEF IndInv, CurInv, AllCurrent
    <2>2. reader \in {"dispatch", "send"} =>
              \A i \in 1..Len(batch) : batch[i] \in Message /\ Current(batch[i])
      BY HeldFacts DEF IndInv, CurInv, AllCurrent
    <2>3. \A u \in Aggregated : \A i \in 1..Len(msgQueue[u]) :
              msgQueue[u][i] \in Message /\ Current(msgQueue[u][i])
      <3>1. msgQueue \in [Aggregated -> Seq(Message)]
        BY DEF IndInv, TypeInv, TypeOK
      <3> QED
        BY <3>1 DEF IndInv, CurInv, AllCurrent
    <2> QED
      BY <1>5, <2>1, <2>2, <2>3
  <1>10. AllCurrent'
    BY <1>1, <1>6, <1>8, <1>9 DEF AllCurrent, Current
  <1>11. AllDiffer'
    <2>0. AllDiffer /\ UNCHANGED <<reader, batch, msgQueue>>
      BY <1>1 DEF IndInv, CurInv
    <2>1. \A i, j \in 1..Len(q') : i # j => Differ(q'[i], q'[j])
      BY <1>8, <1>9, <2>0 DEF AllDiffer
    <2>2. reader \in {"dispatch", "send"} =>
             \A i \in 1..Len(batch) : \A j \in 1..Len(q') : Differ(batch[i], q'[j])
      BY <1>8, <1>9, <2>0 DEF AllDiffer
    <2>3. \A u \in Aggregated : \A i \in 1..Len(msgQueue[u]) :
             \A j \in 1..Len(q') : Differ(msgQueue[u][i], q'[j])
      BY <1>8, <1>9, <2>0 DEF AllDiffer
    <2> QED
      BY <2>0, <2>1, <2>2, <2>3 DEF AllDiffer
  <1>12. BatchFull'
    BY <1>1 DEF BatchFull, IndInv, CurInv
  <1> QED
    BY <1>10, <1>11, <1>12 DEF CurInv

\* The reader takes the first message of the queue.
LEMMA TestCurrent ==
    ASSUME IndInv, ReaderTest
    PROVE  CurInv'
  <1> DEFINE q == msgDispatchQueue
  <1>1. UNCHANGED <<msgQueue, sent, handed>> /\ q \in Seq(Message)
    BY DEF ReaderTest, IndInv, TypeInv, TypeOK
  <1>2. AllCurrent /\ AllDiffer
    BY DEF IndInv, CurInv
  <1>3. CASE /\ q # <<>> /\ batch' = <<Head(q)>> /\ q' = Tail(q) /\ reader' = "dispatch"
    <2>1. /\ Len(q) \in Nat /\ 1 \in 1..Len(q) /\ Len(q') = Len(q) - 1
          /\ \A i \in 1..Len(q') : i + 1 \in 1..Len(q) /\ i + 1 # 1 /\ q'[i] = q[i + 1]
          /\ Len(batch') = 1 /\ batch'[1] = q[1]
      BY <1>1, <1>3
    <2>2. AllCurrent'
      BY <1>1, <1>2, <1>3, <2>1 DEF AllCurrent, Current
    <2>3. AllDiffer'
      <3>1. \A i, j \in 1..Len(q') : i # j => Differ(q'[i], q'[j])
        BY <1>2, <2>1 DEF AllDiffer
      <3>2. /\ \A i, j \in 1..Len(batch') : i # j => Differ(batch'[i], batch'[j])
            /\ \A i \in 1..Len(batch'), j \in 1..Len(q') : Differ(batch'[i], q'[j])
        BY <1>2, <2>1 DEF AllDiffer
      <3>3. \A t \in Aggregated : \A i \in 1..Len(msgQueue[t]) :
               /\ \A j \in 1..Len(msgQueue[t]) : i # j => Differ(msgQueue[t][i], msgQueue[t][j])
               /\ \A j \in 1..Len(q') : Differ(msgQueue[t][i], q'[j])
               /\ Differ(msgQueue[t][i], batch'[1])
        BY <1>2, <2>1 DEF AllDiffer
      <3> QED
        BY <1>1, <3>1, <3>2, <3>3 DEF AllDiffer
    <2> QED
      BY <1>3, <2>2, <2>3 DEF CurInv, BatchFull
  <1>4. CASE reader' \in {"gone", "wait"} /\ UNCHANGED <<msgDispatchQueue, batch>>
    <2>1. AllCurrent'
      BY <1>1, <1>2, <1>4 DEF AllCurrent, Current
    <2> QED
      BY <1>1, <1>2, <1>4, <2>1 DEF CurInv, AllDiffer, BatchFull
  <1> QED
    BY <1>3, <1>4 DEF ReaderTest

\* What is collected with the message in hand is current, and different from
\* what waits in the queue.
LEMMA CollectedCurrent ==
    ASSUME IndInv, reader = "dispatch", ~Direct(batch[1])
    PROVE  \A i \in 1..Len(Collected(batch[1])) :
              /\ Current(Collected(batch[1])[i])
              /\ Collected(batch[1])[i].type = batch[1].type
              /\ \A j \in 1..Len(Collected(batch[1])) :
                    i # j => Differ(Collected(batch[1])[i], Collected(batch[1])[j])
              /\ \A j \in 1..Len(msgDispatchQueue) :
                    Differ(Collected(batch[1])[i], msgDispatchQueue[j])
  <1>1. PICK m, c, o : m = batch[1] /\ c = Collected(m) /\ o = msgQueue[m.type]
    OBVIOUS
  <1>2. m \in Message /\ 1 \in 1..Len(batch) /\ ~Direct(m)
    BY <1>1, HeldFacts DEF IndInv
  <1>3. /\ m.type \in Aggregated /\ o \in Seq(Message) /\ Len(o) \in Nat
        /\ c = Append(o, m)
    BY <1>1, <1>2, CollectedFacts DEF IndInv, Collected
  <1>4. \A i \in 1..Len(c) : \/ i \in 1..Len(o) /\ c[i] = o[i]
                             \/ i = Len(o) + 1 /\ c[i] = m
    BY <1>2, <1>3, AppendFacts
  <1>5. /\ Current(m)
        /\ \A j \in 1..Len(msgDispatchQueue) : Differ(m, msgDispatchQueue[j])
    BY <1>1, <1>2 DEF IndInv, CurInv, AllCurrent, AllDiffer
  <1>6. \A i \in 1..Len(o) :
           /\ Current(o[i]) /\ o[i].type = m.type
           /\ \A j \in 1..Len(o) : i # j => Differ(o[i], o[j])
           /\ \A j \in 1..Len(msgDispatchQueue) : Differ(o[i], msgDispatchQueue[j])
           /\ Differ(o[i], m)
    BY <1>1, <1>3 DEF IndInv, CurInv, AllCurrent, AllDiffer, TypesKept
  <1>7. \A i \in 1..Len(o) : Differ(m, o[i])
    BY <1>6 DEF Differ
  <1>8. \A i \in 1..Len(c) :
           /\ Current(c[i]) /\ c[i].type = m.type
           /\ \A j \in 1..Len(c) : i # j => Differ(c[i], c[j])
           /\ \A j \in 1..Len(msgDispatchQueue) : Differ(c[i], msgDispatchQueue[j])
    BY <1>4, <1>5, <1>6, <1>7
  <1> QED
    BY <1>1, <1>8

\* aggregate: the message in hand is dispatched, completes a batch, or waits
\* for the others.
LEMMA AggregateCurrent ==
    ASSUME IndInv, Aggregate
    PROVE  CurInv'
  <1>1. PICK m, c : m = batch[1] /\ c = Collected(m)
    OBVIOUS
  <1>2. /\ reader = "dispatch" /\ m \in Message /\ Len(batch) = 1
        /\ msgQueue \in [Aggregated -> Seq(Message)]
    BY <1>1, HeldFacts DEF Aggregate, IndInv, TypeInv, TypeOK, BatchHeld
  <1>3. UNCHANGED <<msgDispatchQueue, sent, handed>>
    BY DEF Aggregate
  <1>4. AllCurrent /\ AllDiffer
    BY DEF IndInv, CurInv
  <1>5. CASE Direct(m) /\ reader' = "send" /\ UNCHANGED <<batch, msgQueue>>
    <2>1. m.type \notin Aggregated
      BY <1>2, <1>5, MessageFacts, InstanceAssumption DEF Direct
    <2>2. AllCurrent'
      BY <1>2, <1>3, <1>4, <1>5 DEF AllCurrent, Current
    <2>3. AllDiffer'
      BY <1>2, <1>3, <1>4, <1>5 DEF AllDiffer
    <2>4. BatchFull'
      BY <1>1, <1>5, <2>1 DEF BatchFull
    <2> QED
      BY <2>2, <2>3, <2>4 DEF CurInv
  <1>6. ASSUME ~Direct(m)
        PROVE  /\ m.type \in Aggregated
               /\ \A i \in 1..Len(c) :
                    /\ Current(c[i]) /\ c[i].type = m.type
                    /\ \A j \in 1..Len(c) : i # j => Differ(c[i], c[j])
                    /\ \A j \in 1..Len(msgDispatchQueue) : Differ(c[i], msgDispatchQueue[j])
    BY <1>1, <1>2, <1>6, CollectedCurrent DEF Direct
  <1>7. CASE /\ ~Direct(m) /\ Len(c) = Cardinality(Children)
             /\ batch' = c /\ msgQueue' = Emptied(m) /\ reader' = "send"
    <2>1. /\ msgQueue'[m.type] = <<>>
          /\ \A t \in Aggregated : t # m.type => msgQueue'[t] = msgQueue[t]
      BY <1>2, <1>6, <1>7 DEF Emptied
    <2>2. \A t \in Aggregated : \A i \in 1..Len(msgQueue'[t]) : msgQueue'[t] = msgQueue[t]
      BY <2>1
    <2>3. AllCurrent'
      BY <1>3, <1>4, <1>6, <1>7, <2>2 DEF AllCurrent, Current
    <2>4. AllDiffer'
      BY <1>3, <1>4, <1>6, <1>7, <2>2 DEF AllDiffer
    <2>5. BatchFull'
      <3>1. c \in Seq(Message) /\ Len(c) >= 1 /\ Len(c) \in Nat
        BY <1>1, <1>2, <1>7, CollectedFacts DEF IndInv
      <3>2. c[1].type = m.type
        BY <1>6, <1>7, <3>1
      <3> QED
        BY <1>7, <2>1, <3>2 DEF BatchFull
    <2> QED
      BY <2>3, <2>4, <2>5 DEF CurInv
  <1>8. CASE /\ ~Direct(m) /\ msgQueue' = [msgQueue EXCEPT ![m.type] = c]
             /\ batch' = <<>> /\ reader' = "test"
    <2>1. \A t \in Aggregated : msgQueue'[t] = IF t = m.type THEN c ELSE msgQueue[t]
      BY <1>2, <1>6, <1>8
    <2>2. AllCurrent'
      BY <1>3, <1>4, <1>6, <1>8, <2>1 DEF AllCurrent, Current
    <2>3. AllDiffer'
      BY <1>3, <1>4, <1>6, <1>8, <2>1 DEF AllDiffer
    <2> QED
      BY <1>8, <2>2, <2>3 DEF CurInv, BatchFull
  <1> QED
    BY <1>1, <1>5, <1>7, <1>8 DEF Aggregate

\* A batch that is handed over is the next one and complete, and what stays
\* behind is of other types.
LEMMA FullBatch ==
    ASSUME IndInv, reader = "send", BatchType \in Aggregated
    PROVE  /\ Len(batch) = Cardinality(Children)
           /\ {batch[i].from : i \in DOMAIN batch} = Children
           /\ \A i \in DOMAIN batch : batch[i].round = Len(handed[BatchType]) + 1
           /\ \A j \in 1..Len(msgDispatchQueue) : msgDispatchQueue[j].type # BatchType
           /\ \A t \in Aggregated : \A i \in 1..Len(msgQueue[t]) :
                 msgQueue[t][i].type # BatchType
  <1>1. PICK u : u = BatchType
    OBVIOUS
  <1>2. /\ batch \in Seq(Message) /\ DOMAIN batch = 1..Len(batch) /\ 1 \in 1..Len(batch)
        /\ batch[1].type = u
        /\ \A i \in 1..Len(batch) : batch[i].type = u
        /\ Len(batch) = Cardinality(Children) /\ msgQueue[u] = <<>>
    <2>1. batch \in Seq(Message) /\ 1 \in 1..Len(batch)
      BY HeldFacts DEF IndInv, TypeInv, TypeOK
    <2>2. batch[1].type = u /\ \A i \in 1..Len(batch) : batch[i].type = u
      BY <1>1 DEF BatchType, IndInv, TypeInv, BatchHeld
    <2>3. Len(batch) = Cardinality(Children) /\ msgQueue[u] = <<>>
      BY <1>1, <2>2 DEF IndInv, CurInv, BatchFull
    <2> QED
      BY <2>1, <2>2, <2>3
  <1>3. \A i \in 1..Len(batch) :
           /\ batch[i].from \in Children /\ batch[i].round = Len(handed[u]) + 1
           /\ \A j \in 1..Len(batch) : i # j => batch[i].from # batch[j].from
           /\ \A j \in 1..Len(msgDispatchQueue) :
                 msgDispatchQueue[j].type = u => batch[i].from # msgDispatchQueue[j].from
    BY <1>1, <1>2 DEF IndInv, CurInv, AllCurrent, AllDiffer, Current, CurrentIn, Differ
  <1>4. {batch[i].from : i \in DOMAIN batch} = Children
    BY <1>2, <1>3, AllChildren
  <1>5. ASSUME NEW j \in 1..Len(msgDispatchQueue), msgDispatchQueue[j].type = u
        PROVE  FALSE
    <2>1. msgDispatchQueue[j].from \in Children
      BY <1>1, <1>5 DEF IndInv, CurInv, AllCurrent, Current, CurrentIn
    <2>2. PICK i \in DOMAIN batch : batch[i].from = msgDispatchQueue[j].from
      BY <1>4, <2>1
    <2> QED
      BY <1>2, <1>3, <1>5, <2>2
  <1>6. \A t \in Aggregated : \A i \in 1..Len(msgQueue[t]) : msgQueue[t][i].type # u
    <2>1. \A i \in 1..Len(msgQueue[u]) : FALSE
      BY <1>2
    <2> QED
      BY <2>1 DEF IndInv, TypesKept
  <1> QED
    BY <1>1, <1>2, <1>3, <1>4, <1>5, <1>6

\* dispatchHandler and dispatchChannel.
LEMMA SendOnCurrent ==
    ASSUME IndInv, DispatchHandler \/ SendAggregated \/ SendSingle
    PROVE  CurInv' /\ CompleteBatches'
  <1>1. /\ reader = "send" /\ reader' = "test" /\ batch' = <<>>
        /\ UNCHANGED <<msgDispatchQueue, msgQueue, sent>>
        /\ HandOver \/ UNCHANGED handed
    BY DEF DispatchHandler, SendAggregated, SendSingle
  <1>2. AllCurrent /\ AllDiffer /\ CompleteBatches
    BY DEF IndInv, CurInv
  <1>3. AllDiffer' /\ BatchFull'
    BY <1>1, <1>2 DEF AllDiffer, BatchFull
  <1>4. CASE UNCHANGED handed
    <2>1. AllCurrent'
      BY <1>1, <1>2, <1>4 DEF AllCurrent, Current
    <2> QED
      BY <1>2, <1>3, <1>4, <2>1 DEF CurInv, CompleteBatches
  <1>5. CASE HandOver
    <2>1. PICK u, b : u = BatchType /\ b = batch
      OBVIOUS
    <2>2. u \in Types /\ b \in Seq(Message) /\ handed \in [Types -> Seq(Seq(Message))]
      BY <1>1, <2>1, HeldFacts DEF IndInv, TypeInv, TypeOK
    <2>3. handed' = [handed EXCEPT ![u] = Append(handed[u], b)]
      BY <1>5, <2>1 DEF HandOver
    <2>4. \A t \in Types : t # u => handed'[t] = handed[t]
      BY <2>2, <2>3
    <2>5. Aggregated \subseteq Types
      BY DEF Types
    <2>6. \A n : n.type # u /\ CurrentIn(n, handed, sent) => CurrentIn(n, handed', sent')
      BY <1>1, <2>4, <2>5 DEF CurrentIn
    <2>7. CASE u \notin Aggregated
      <3>1. \A n : CurrentIn(n, handed, sent) => CurrentIn(n, handed', sent')
        BY <2>6, <2>7 DEF CurrentIn
      <3>2. AllCurrent'
        BY <1>1, <1>2, <3>1 DEF AllCurrent, Current
      <3>3. \A t \in Aggregated : handed'[t] = handed[t]
        BY <2>4, <2>5, <2>7
      <3>4. CompleteBatches'
        BY <1>2, <3>3 DEF CompleteBatches
      <3> QED
        BY <1>3, <3>2, <3>4 DEF CurInv
    <2>8. CASE u \in Aggregated
      <3>1. /\ Len(b) = Cardinality(Children)
            /\ {b[i].from : i \in DOMAIN b} = Children
            /\ \A i \in DOMAIN b : b[i].round = Len(handed[u]) + 1
        BY <1>1, <2>1, <2>8, FullBatch
      <3>2. /\ \A j \in 1..Len(msgDispatchQueue) : msgDispatchQueue[j].type # u
            /\ \A t \in Aggregated : \A i \in 1..Len(msgQueue[t]) : msgQueue[t][i].type # u
        BY <1>1, <2>1, <2>8, FullBatch
      <3>3. AllCurrent'
        BY <1>1, <1>2, <2>6, <3>2 DEF AllCurrent, Current
      <3>4. /\ Len(handed[u]) \in Nat
            /\ DOMAIN handed'[u] = 1..(Len(handed[u]) + 1)
            /\ handed'[u][Len(handed[u]) + 1] = b
            /\ DOMAIN handed[u] = 1..Len(handed[u])
            /\ \A k \in DOMAIN handed[u] : handed'[u][k] = handed[u][k]
        <4>1. handed'[u] = Append(handed[u], b) /\ handed[u] \in Seq(Seq(Message))
          BY <2>2, <2>3
        <4> QED
          BY <2>2, <4>1
      <3>5. CompleteBatches'
        <4>1. SUFFICES ASSUME NEW t \in Aggregated, NEW k \in DOMAIN handed'[t]
                       PROVE  /\ Len(handed'[t][k]) = Cardinality(Children)
                              /\ {handed'[t][k][i].from : i \in DOMAIN handed'[t][k]} = Children
                              /\ \A i \in DOMAIN handed'[t][k] : handed'[t][k][i].round = k
          BY DEF CompleteBatches
        <4>2. CASE t = u /\ k = Len(handed[u]) + 1
          BY <3>1, <3>4, <4>2
        <4>3. CASE k \in DOMAIN handed[t] /\ handed'[t][k] = handed[t][k]
          BY <1>2, <4>3 DEF CompleteBatches
        <4>4. \/ t = u /\ k = Len(handed[u]) + 1
              \/ k \in DOMAIN handed[t] /\ handed'[t][k] = handed[t][k]
          BY <2>4, <2>5, <3>4
        <4> QED
          BY <4>2, <4>3, <4>4
      <3> QED
        BY <1>3, <3>3, <3>5 DEF CurInv
    <2> QED
      BY <2>7, <2>8
  <1> QED
    BY <1>1, <1>4, <1>5

\* Steps that move no message.
LEMMA NothingMoves ==
    ASSUME IndInv, UNCHANGED <<msgDispatchQueue, batch, msgQueue, sent, handed>>,
           reader' = reader \/ reader' = "test"
    PROVE  CurInv' /\ CompleteBatches'
  <1>1. AllCurrent /\ AllDiffer /\ BatchFull /\ CompleteBatches
    BY DEF IndInv, CurInv
  <1>2. AllCurrent'
    BY <1>1 DEF AllCurrent, Current
  <1>3. AllDiffer'
    BY <1>1 DEF AllDiffer
  <1> QED
    BY <1>1, <1>2, <1>3 DEF CurInv, BatchFull, CompleteBatches

LEMMA InitInd == Init => IndInv
  <1> SUFFICES ASSUME Init PROVE IndInv
    OBVIOUS
  <1>1. /\ Len(msgDispatchQueue) = 0 /\ reader = "test"
        /\ \A t \in Aggregated : msgQueue[t] = <<>> /\ handed[t] = <<>>
    BY DEF Init, Types
  <1>2. CurInv /\ TypesKept /\ CompleteBatches
    BY <1>1 DEF CurInv, AllCurrent, AllDiffer, BatchFull, TypesKept, CompleteBatches
  <1> QED
    BY <1>2, InitTypes DEF IndInv

LEMMA NextInd ==
    ASSUME IndInv, [Next]_vars
    PROVE  IndInv'
  <1>1. TypeInv' /\ TypesKept'
    BY NextTypes DEF IndInv
  <1>2. CASE UNCHANGED vars
    BY <1>1, <1>2, NothingMoves DEF vars, IndInv
  <1>3. ASSUME NEW s \in Senders, NEW t \in Types, ProcessProtocolMsg(s, t)
        PROVE  CurInv' /\ CompleteBatches'
    <2>1. UNCHANGED handed /\ CompleteBatches
      BY <1>3 DEF ProcessProtocolMsg, IndInv
    <2> QED
      BY <1>3, <2>1, SendCurrent DEF CompleteBatches
  <1>4. CASE ReaderTest
    <2>1. UNCHANGED handed /\ CompleteBatches
      BY <1>4 DEF ReaderTest, IndInv
    <2> QED
      BY <1>1, <1>4, <2>1, TestCurrent DEF CompleteBatches, IndInv
  <1>5. CASE Aggregate
    <2>1. UNCHANGED handed /\ CompleteBatches
      BY <1>5 DEF Aggregate, IndInv
    <2> QED
      BY <1>1, <1>5, <2>1, AggregateCurrent DEF CompleteBatches, IndInv
  <1>6. CASE DispatchHandler \/ SendAggregated \/ SendSingle
    BY <1>1, <1>6, SendOnCurrent DEF IndInv
  <1>7. CASE ReaderWait \/ CloseDispatch \/ \E t \in Channels : Consume(t)
    <2>1. /\ UNCHANGED <<msgDispatchQueue, batch, msgQueue, sent, handed>>
          /\ reader' = reader \/ reader' = "test"
      BY <1>7 DEF ReaderWait, CloseDispatch, Consume
    <2> QED
      BY <1>1, <2>1, NothingMoves DEF IndInv
  <1> QED
    BY <1>1, <1>2, <1>3, <1>4, <1>5, <1>6, <1>7 DEF Next, Reader, IndInv

\* A batch of an aggregated type holds one message of every child, all of the
\* same round, and batches come in the order of the rounds, for any number of
\* children and rounds (treenode.go:603-632).
THEOREM BatchesComplete == Spec => []CompleteBatches
  <1>1. Init => IndInv
    BY InitInd
  <1>2. IndInv /\ [Next]_vars => IndInv'
    BY NextInd
  <1>3. IndInv => CompleteBatches
    BY DEF IndInv
  <1> QED
    BY <1>1, <1>2, <1>3, PTL DEF Spec
=============================================================================
