--------------------------- MODULE OverlayProofs ---------------------------
(***************************************************************************)
(* What holds of the overlay for every number of connections, goroutines,  *)
(* tokens, messages, trees and removals.                                   *)
(***************************************************************************)
EXTENDS Overlay, FiniteSetTheorems, WellFoundedInduction, NaturalsInduction, TLAPS

-----------------------------------------------------------------------------
(* The loop of checkPendingMessages.                                       *)

LessNat == {p \in Nat \X Nat : p[1] < p[2]}

\* A set of numbers has a least one.
LEMMA LeastNumber ==
    ASSUME NEW T, T \subseteq Nat, T # {}
    PROVE  \E n \in T : \A m \in T : ~(m < n)
<1>1. IsWellFoundedOn(LessNat, Nat)
  BY NatLessThanWellFounded DEF OpToRel, LessNat
<1>2. \E n \in T : \A m \in T : ~(<<m, n>> \in LessNat)
  BY <1>1, WFMin
<1>3. \A m, n \in Nat : <<m, n>> \in LessNat <=> m < n
  BY DEF LessNat
<1> QED  BY <1>2, <1>3

\* What the loop has done before its i-th round is over, for all of the first
\* n rounds.
Rounds(f, list, set, n) ==
    f = [i \in 0..n |->
           IF i = 0 THEN <<>>
           ELSE IF list[i] \in set THEN Append(f[i - 1], list[i]) ELSE f[i - 1]]

\* The loop can be followed to its end.
LEMMA LoopRuns ==
    ASSUME NEW S, NEW list \in Seq(S), NEW set
    PROVE  \E f : Rounds(f, list, set, Len(list))
<1> DEFINE Stuck == {n \in 0..Len(list) : ~ \E f : Rounds(f, list, set, n)}
<1>1. SUFFICES ASSUME Stuck # {} PROVE FALSE
  <2>1. Len(list) \in 0..Len(list)
    OBVIOUS
  <2> QED  BY <2>1, <1>1
<1>2. PICK n \in Stuck : \A m \in Stuck : ~(m < n)
  <2>1. Stuck \subseteq Nat
    OBVIOUS
  <2> HIDE DEF Stuck
  <2> QED  BY <1>1, <2>1, LeastNumber
<1>3. n \in 0..Len(list) /\ ~ \E f : Rounds(f, list, set, n)
  BY <1>2
<1>4. CASE n = 0
  <2>1. Rounds([i \in 0..0 |-> <<>>], list, set, 0)
    BY DEF Rounds
  <2> QED  BY <1>3, <1>4, <2>1
<1>5. CASE n # 0
  <2>1. n - 1 \in 0..Len(list) /\ n - 1 < n
    BY <1>3, <1>5
  <2>2. PICK f : Rounds(f, list, set, n - 1)
    BY <1>2, <2>1
  <2> DEFINE g == [i \in 0..n |-> IF i < n THEN f[i]
                                  ELSE IF list[n] \in set THEN Append(f[n - 1], list[n])
                                  ELSE f[n - 1]]
  <2>3. ASSUME NEW i \in 0..n
        PROVE  g[i] = IF i = 0 THEN <<>>
                      ELSE IF list[i] \in set THEN Append(g[i - 1], list[i]) ELSE g[i - 1]
    <3>1. CASE i = n
      BY <1>3, <1>5, <3>1
    <3>2. CASE i # n
      <4>1. i \in 0..(n - 1) /\ i < n /\ (i # 0 => i - 1 \in 0..n /\ i - 1 < n)
        BY <1>3, <3>2
      <4>2. g[i] = f[i] /\ (i # 0 => g[i - 1] = f[i - 1])
        BY <4>1
      <4>3. f[i] = IF i = 0 THEN <<>>
                   ELSE IF list[i] \in set THEN Append(f[i - 1], list[i]) ELSE f[i - 1]
        BY <2>2, <4>1 DEF Rounds
      <4> HIDE DEF g
      <4> QED  BY <4>2, <4>3
    <3> QED  BY <3>1, <3>2
  <2>4. g = [i \in 0..n |-> g[i]]
    OBVIOUS
  <2> HIDE DEF g
  <2>5. Rounds(g, list, set, n)
    BY <2>3, <2>4 DEF Rounds
  <2> QED  BY <1>3, <2>5
<1> QED  BY <1>4, <1>5


\* Members of a list, and a list without a member that is there twice.
In(x, list) == \E k \in 1..Len(list) : list[k] = x
NoneTwiceIn(list) == \A j, k \in 1..Len(list) : list[j] = list[k] => j = k

LEMMA AppendMembers ==
    ASSUME NEW S, NEW list \in Seq(S), NEW y \in S
    PROVE  /\ Append(list, y) \in Seq(S)
           /\ \A x : In(x, Append(list, y)) <=> In(x, list) \/ x = y
           /\ NoneTwiceIn(list) /\ ~In(y, list) => NoneTwiceIn(Append(list, y))
<1>1. /\ Append(list, y) \in Seq(S) /\ Len(Append(list, y)) = Len(list) + 1
      /\ \A k \in 1..Len(list) : Append(list, y)[k] = list[k]
      /\ Append(list, y)[Len(list) + 1] = y
      /\ Len(list) \in Nat
  OBVIOUS
<1>2. \A k \in 1..(Len(list) + 1) : k \in 1..Len(list) \/ k = Len(list) + 1
  BY <1>1
<1>3. 1..Len(list) \subseteq 1..(Len(list) + 1) /\ Len(list) + 1 \in 1..(Len(list) + 1)
  BY <1>1
<1>4. \A x : In(x, Append(list, y)) <=> In(x, list) \/ x = y
  BY <1>1, <1>2, <1>3 DEF In
<1>5. ASSUME NoneTwiceIn(list), ~In(y, list) PROVE NoneTwiceIn(Append(list, y))
  BY <1>1, <1>2, <1>5 DEF In, NoneTwiceIn
<1> QED  BY <1>1, <1>4, <1>5

\* The value of the operator is that of the loop.
LEMMA FilteredIsLoop ==
    ASSUME NEW S, NEW list \in Seq(S), NEW set
    PROVE  \E f : Rounds(f, list, set, Len(list)) /\ Filtered(list, set) = f[Len(list)]
<1>1. \E f : Rounds(f, list, set, Len(list))
  BY LoopRuns
<1> DEFINE f == CHOOSE f : Rounds(f, list, set, Len(list))
<1>2. Rounds(f, list, set, Len(list))
  BY <1>1
<1>3. Filtered(list, set) = f[Len(list)]
  BY DEF Filtered, Rounds
<1> QED  BY <1>2, <1>3

\* The loop keeps what is in the set, and each of it as often as it was there.
LEMMA FilteredParts ==
    ASSUME NEW S, NEW list \in Seq(S), NEW set
    PROVE  /\ Filtered(list, set) \in Seq(S)
           /\ \A x : In(x, Filtered(list, set)) <=> In(x, list) /\ x \in set
           /\ NoneTwiceIn(list) => NoneTwiceIn(Filtered(list, set))
<1>1. PICK f : Rounds(f, list, set, Len(list)) /\ Filtered(list, set) = f[Len(list)]
  BY FilteredIsLoop
<1> DEFINE Seen(x, i) == \E j \in 1..i : list[j] = x
           Good(i) == /\ f[i] \in Seq(S)
                      /\ \A x : In(x, f[i]) <=> Seen(x, i) /\ x \in set
                      /\ NoneTwiceIn(list) => NoneTwiceIn(f[i])
           Bad == {i \in 0..Len(list) : ~Good(i)}
<1>2. \A i \in 0..Len(list) :
         f[i] = IF i = 0 THEN <<>>
                ELSE IF list[i] \in set THEN Append(f[i - 1], list[i]) ELSE f[i - 1]
  BY <1>1 DEF Rounds
<1>3. Good(0)
  <2>1. f[0] = <<>>
    BY <1>2
  <2>2. ~Seen(0, 0) /\ \A x : ~Seen(x, 0)
    OBVIOUS
  <2>3. \A x : ~In(x, <<>>)
    BY DEF In
  <2>4. NoneTwiceIn(<<>>)
    BY DEF NoneTwiceIn
  <2> QED  BY <2>1, <2>2, <2>3, <2>4
<1>4. ASSUME NEW i \in 0..Len(list), i # 0, Good(i - 1) PROVE Good(i)
  <2>1. /\ i \in 1..Len(list) /\ i - 1 \in 0..Len(list) /\ list[i] \in S
        /\ f[i] = IF list[i] \in set THEN Append(f[i - 1], list[i]) ELSE f[i - 1]
    BY <1>2, <1>4
  <2>2. \A x : Seen(x, i) <=> Seen(x, i - 1) \/ x = list[i]
    <3>1. \A j \in 1..i : j \in 1..(i - 1) \/ j = i
      BY <2>1
    <3>2. 1..(i - 1) \subseteq 1..i /\ i \in 1..i
      BY <2>1
    <3> QED  BY <3>1, <3>2
  <2>3. NoneTwiceIn(list) => ~Seen(list[i], i - 1)
    <3>1. \A j \in 1..(i - 1) : j \in 1..Len(list) /\ j # i
      BY <2>1
    <3> QED  BY <2>1, <3>1 DEF NoneTwiceIn
  <2>4. /\ f[i - 1] \in Seq(S)
        /\ \A x : In(x, f[i - 1]) <=> Seen(x, i - 1) /\ x \in set
        /\ NoneTwiceIn(list) => NoneTwiceIn(f[i - 1])
    BY <1>4
  <2> HIDE DEF Seen
  <2>5. CASE list[i] \in set
    <3>1. /\ Append(f[i - 1], list[i]) \in Seq(S)
          /\ \A x : In(x, Append(f[i - 1], list[i])) <=> In(x, f[i - 1]) \/ x = list[i]
          /\ NoneTwiceIn(f[i - 1]) /\ ~In(list[i], f[i - 1])
               => NoneTwiceIn(Append(f[i - 1], list[i]))
      BY <2>1, <2>4, AppendMembers
    <3>2. f[i] = Append(f[i - 1], list[i])
      BY <2>1, <2>5
    <3> QED  BY <2>2, <2>3, <2>4, <2>5, <3>1, <3>2
  <2>6. CASE list[i] \notin set
    <3>1. f[i] = f[i - 1]
      BY <2>1, <2>6
    <3> QED  BY <2>2, <2>3, <2>4, <2>6, <3>1
  <2> QED  BY <2>5, <2>6
<1> HIDE DEF Good
<1>5. Bad = {}
  <2>1. SUFFICES ASSUME Bad # {} PROVE FALSE
    OBVIOUS
  <2>2. PICK n \in Bad : \A m \in Bad : ~(m < n)
    <3>1. Bad \subseteq Nat
      OBVIOUS
    <3> HIDE DEF Bad
    <3> QED  BY <2>1, <3>1, LeastNumber
  <2>3. n \in 0..Len(list) /\ ~Good(n)
    BY <2>2
  <2>4. n # 0
    BY <1>3, <2>3
  <2>5. n - 1 \in 0..Len(list) /\ n - 1 < n
    BY <2>3, <2>4
  <2>6. Good(n - 1)
    BY <2>2, <2>5
  <2> QED  BY <1>4, <2>3, <2>4, <2>6
<1>6. Good(Len(list))
  <2>1. Len(list) \in 0..Len(list)
    OBVIOUS
  <2> QED  BY <1>5, <2>1
<1>7. \A x : Seen(x, Len(list)) <=> In(x, list)
  BY DEF In
<1> HIDE DEF Seen
<1> QED  BY <1>1, <1>6, <1>7 DEF Good

-----------------------------------------------------------------------------
(* Type correctness.                                                       *)

\* A worker that is at one of these places holds a message.
MessagePlaces ==
    {"save", "known", "register", "request", "lookup", "insert", "bind", "enqueue"}
WorkTyped ==
    \A w \in Workers : /\ work[w].at \in MessagePlaces => Held(w) \in Msgs
                       /\ work[w].at = "set" => Held(w) \in TreeIDs
TypeInv == TypeOK /\ WorkTyped

LEMMA SourceOfMessage ==
    ASSUME NEW m \in Msgs
    PROVE  Src(m) \in Conns /\ m \in Range(Sent[Src(m)])
  BY OverlayAssumption DEF Src

LEMMA TreeOfMessage ==
    ASSUME NEW m \in Msgs
    PROVE  Dest[m] \in Tokens /\ TreeFor(m) \in TreeIDs
  BY OverlayAssumption DEF TreeFor

LEMMA RosterOfTree ==
    ASSUME NEW id \in TreeIDs
    PROVE  RosterOf[id] \in Rosters
  BY OverlayAssumption DEF Rosters, Range

LEMMA ChannelsTyped ==
    ASSUME StorageTypeOK, NEW ids, CancelDeletion(ids)
    PROVE  /\ removals' \in Seq([tree : TreeIDs, cancelled : BOOLEAN,
                                 at : {"timing", "fired", "over"}])
           /\ Len(removals') = Len(removals)
           /\ cancellations' \in [TreeIDs -> 0..Len(removals)]
<1> DEFINE R == [tree : TreeIDs, cancelled : BOOLEAN, at : {"timing", "fired", "over"}]
<1>1. removals \in Seq(R) /\ cancellations \in [TreeIDs -> 0..Len(removals)]
  BY DEF StorageTypeOK
<1>2. \A x \in R : [x EXCEPT !.cancelled = TRUE] \in R
  OBVIOUS
<1> HIDE DEF R
<1>3. \A g \in 1..Len(removals) : removals[g] \in R
  BY <1>1
<1>4. \A g \in 1..Len(removals) : ClosedChannels(ids)[g] \in R
  BY <1>2, <1>3 DEF ClosedChannels
<1>5. ClosedChannels(ids) = [g \in 1..Len(removals) |-> ClosedChannels(ids)[g]]
  BY DEF ClosedChannels
<1>6. Len(removals) \in Nat
  BY <1>1
<1>7. ClosedChannels(ids) \in Seq(R) /\ Len(ClosedChannels(ids)) = Len(removals)
  BY <1>4, <1>5, <1>6
<1>8. cancellations' \in [TreeIDs -> 0..Len(removals)]
  BY <1>1, <1>6 DEF CancelDeletion
<1> QED  BY <1>7, <1>8 DEF CancelDeletion, R

LEMMA RegisterTyped ==
    ASSUME StorageTypeOK, NEW id \in TreeIDs, Register(id) \/ Unregister(id)
    PROVE  StorageTypeOK'
  BY DEF StorageTypeOK, Register, Unregister

LEMMA RefreshTyped ==
    ASSUME StorageTypeOK, NEW id \in TreeIDs, GetAndRefresh(id)
    PROVE  StorageTypeOK'
  BY ChannelsTyped DEF StorageTypeOK, GetAndRefresh

LEMMA SetTyped ==
    ASSUME StorageTypeOK, NEW ids, Set(ids)
    PROVE  StorageTypeOK'
  BY ChannelsTyped DEF StorageTypeOK, Set

LEMMA RemoveTyped ==
    ASSUME StorageTypeOK, NEW id \in TreeIDs, RemoveTree(id)
    PROVE  StorageTypeOK'
<1>1. CASE closed \/ cancellations[id] # 0
  BY <1>1 DEF StorageTypeOK, RemoveTree
<1>2. CASE ~(closed \/ cancellations[id] # 0)
  <2> DEFINE R == [tree : TreeIDs, cancelled : BOOLEAN, at : {"timing", "fired", "over"}]
             x == [tree |-> id, cancelled |-> FALSE, at |-> "timing"]
  <2>1. x \in R /\ removals \in Seq(R) /\ Len(removals) < MaxRemovals /\ MaxRemovals \in Nat
        /\ removals' = Append(removals, x)
        /\ cancellations' = [cancellations EXCEPT ![id] = Len(removals) + 1]
    BY <1>2, RemovalsAssumption DEF StorageTypeOK, RemoveTree
  <2> HIDE DEF x, R
  <2>2. removals' \in Seq(R) /\ Len(removals') = Len(removals) + 1 /\ Len(removals) \in Nat
    BY <2>1
  <2>3. cancellations' \in [TreeIDs -> 0..Len(removals')]
    BY <2>1, <2>2 DEF StorageTypeOK
  <2> QED  BY <2>1, <2>2, <2>3 DEF StorageTypeOK, RemoveTree, R
<1> QED  BY <1>1, <1>2

LEMMA GoroutineTyped ==
    ASSUME StorageTypeOK, NEW g \in 1..Len(removals),
           TimerFires(g) \/ DeleteTree(g) \/ StopTimer(g)
    PROVE  StorageTypeOK'
<1> DEFINE R == [tree : TreeIDs, cancelled : BOOLEAN, at : {"timing", "fired", "over"}]
<1>0. removals \in Seq(R)
  BY DEF StorageTypeOK
<1>1. removals \in Seq(R) /\ removals[g] \in R
  <2> HIDE DEF R
  <2> QED  BY <1>0
<1>2. \A p \in {"fired", "over"} : [removals[g] EXCEPT !.at = p] \in R
  BY <1>1
<1>3. PICK p \in {"fired", "over"} : removals' = [removals EXCEPT ![g] = [removals[g] EXCEPT !.at = p]]
  BY DEF TimerFires, DeleteTree, StopTimer
<1> HIDE DEF R
<1>4. removals' \in Seq(R) /\ Len(removals') = Len(removals)
  BY <1>1, <1>2, <1>3
<1>5. removals[g].tree \in TreeIDs
  BY <1>1 DEF R
<1>6. /\ trees' \in [TreeIDs -> {"absent", "known", "stored"}]
      /\ cancellations' \in [TreeIDs -> 0..Len(removals)]
      /\ UNCHANGED <<closed, waitingToClose>>
  <2>1. CASE TimerFires(g) \/ StopTimer(g)
    BY <2>1 DEF StorageTypeOK, TimerFires, StopTimer
  <2>2. CASE DeleteTree(g)
    BY <1>5, <2>2 DEF StorageTypeOK, DeleteTree
  <2> QED  BY <2>1, <2>2
<1> QED  BY <1>4, <1>6 DEF StorageTypeOK, R

LEMMA CloseTyped ==
    ASSUME StorageTypeOK, CloseStorage \/ StorageClosed
    PROVE  StorageTypeOK'
  BY ChannelsTyped DEF StorageTypeOK, CloseStorage, StorageClosed

LEMMA SameStorage ==
    ASSUME StorageTypeOK, UNCHANGED storageVars
    PROVE  StorageTypeOK'
  BY DEF StorageTypeOK, storageVars

LEMMA WorkerTyped ==
    ASSUME TypeInv, NEW w \in Workers
    PROVE  /\ work[w].at \in MessagePlaces =>
                 /\ Held(w) \in Msgs /\ TokenOf(w) \in Tokens /\ TreeFor(Held(w)) \in TreeIDs
                 /\ Src(Held(w)) \in Conns
           /\ work[w].at = "set" => Held(w) \in TreeIDs
  BY SourceOfMessage, TreeOfMessage DEF TypeInv, WorkTyped, TokenOf

Jobs == [at : {"idle", "save", "known", "register", "request",
               "lookup", "insert", "bind", "enqueue", "set"},
         what : Msgs \cup TreeIDs \cup {"nothing"}]

\* The job of one worker changes.
LEMMA JobChanged ==
    ASSUME TypeInv, NEW w \in Workers, NEW j \in Jobs, work' = [work EXCEPT ![w] = j],
           j.at \in MessagePlaces => j.what \in Msgs, j.at = "set" => j.what \in TreeIDs
    PROVE  work' \in [Workers -> Jobs] /\ WorkTyped'
<1>1. work \in [Workers -> Jobs] /\ WorkTyped
  BY DEF TypeInv, TypeOK, Jobs
<1>2. \A v \in Workers : work'[v] = IF v = w THEN j ELSE work[v]
  BY <1>1
<1> QED  BY <1>1, <1>2 DEF WorkTyped, Held

LEMMA FinishTyped ==
    ASSUME TypeInv, NEW w \in Workers, Finish(w)
    PROVE  work' \in [Workers -> Jobs] /\ WorkTyped'
<1>1. Idle \in Jobs /\ Idle.at \notin MessagePlaces /\ Idle.at # "set"
  BY DEF Idle, Jobs, MessagePlaces
<1> QED  BY <1>1, JobChanged DEF Finish

LEMMA GotoTyped ==
    ASSUME TypeInv, NEW w \in Workers, NEW p \in MessagePlaces, Goto(w, p), Held(w) \in Msgs
    PROVE  work' \in [Workers -> Jobs] /\ WorkTyped'
<1> DEFINE j == [work[w] EXCEPT !.at = p]
<1>1. work[w] \in Jobs /\ work[w].what \in Msgs
  BY DEF TypeInv, TypeOK, Jobs, Held
<1>2. j \in Jobs /\ j.at = p /\ j.what = work[w].what /\ p # "set"
  BY <1>1 DEF Jobs, MessagePlaces
<1>3. work' = [work EXCEPT ![w] = j]
  BY DEF Goto
<1> HIDE DEF j
<1> QED  BY <1>1, <1>2, <1>3, JobChanged

LEMMA NewJobTyped ==
    ASSUME TypeInv, NEW w \in Workers, NEW p, NEW x, work' = [work EXCEPT ![w] = [at |-> p, what |-> x]],
           \/ p \in MessagePlaces /\ x \in Msgs
           \/ p = "set" /\ x \in TreeIDs
    PROVE  work' \in [Workers -> Jobs] /\ WorkTyped'
<1> DEFINE j == [at |-> p, what |-> x]
<1>1. /\ j \in Jobs /\ j.at = p /\ j.what = x
      /\ p \in MessagePlaces => x \in Msgs
      /\ p = "set" => x \in TreeIDs
  BY DEF Jobs, MessagePlaces
<1> HIDE DEF j
<1>2. work' = [work EXCEPT ![w] = j]
  BY DEF j
<1> QED  BY <1>1, <1>2, JobChanged

LEMMA SameWorkTyped ==
    ASSUME TypeInv, UNCHANGED work
    PROVE  work' \in [Workers -> Jobs] /\ WorkTyped'
  BY DEF TypeInv, TypeOK, Jobs, WorkTyped, Held

LEMMA TypeInit == Init => TypeInv
<1> SUFFICES ASSUME Init PROVE TypeInv
  OBVIOUS
<1>1. StorageTypeOK
  <2>1. /\ removals \in Seq([tree : TreeIDs, cancelled : BOOLEAN,
                             at : {"timing", "fired", "over"}])
        /\ Len(removals) = 0
    BY DEF Init, StorageInit
  <2>2. /\ trees \in [TreeIDs -> {"absent", "known", "stored"}]
        /\ cancellations \in [TreeIDs -> 0..0]
        /\ closed = FALSE /\ waitingToClose = FALSE
    BY DEF Init, StorageInit
  <2>3. Len(removals) <= MaxRemovals /\ cancellations \in [TreeIDs -> 0..Len(removals)]
    BY <2>1, <2>2, RemovalsAssumption
  <2> QED  BY <2>1, <2>2, <2>3 DEF StorageTypeOK
<1>2. work \in [Workers -> Jobs] /\ WorkTyped
  <2>1. Idle \in Jobs /\ Idle.at \notin MessagePlaces /\ Idle.at # "set"
    BY DEF Idle, Jobs, MessagePlaces
  <2>2. work = [w \in Workers |-> Idle]
    BY DEF Init
  <2> QED  BY <2>1, <2>2 DEF WorkTyped
<1>3. toCome \subseteq Packets
  BY DEF Init, PacketsSent
<1>4. /\ todo \in [Retransmitters -> Seq(Msgs)] /\ spawned \in [TreeIDs -> Nat]
      /\ pendingMsg \in Seq(Msgs) /\ delivered \in [Tokens -> Seq(Msgs)]
      /\ started \in [Tokens -> Nat]
      /\ creating \in [Local -> {"no", "inserted", "set", "over"}]
      /\ pendingTreeMarshal \in [Rosters -> SUBSET TreeIDs]
  BY DEF Init
<1>5. /\ requests \in [Conns -> [TreeIDs -> Nat]]
      /\ rosterRequests \in [Conns -> [Rosters -> Nat]]
  BY DEF Init
<1>6. /\ dropped = {} /\ pendingTreeLocked = FALSE /\ unanswered = {} /\ overtaken = {}
      /\ wiped = {} /\ instances = {} /\ protocolInstances = {} /\ instancesInfo = {}
      /\ pendingConfigs = {} /\ configured = {} /\ overlay = "open"
  BY DEF Init
<1> QED  BY <1>1, <1>2, <1>3, <1>4, <1>5, <1>6 DEF TypeInv, TypeOK, Jobs

LEMMA DeleteTyped ==
    ASSUME TypeInv, NEW t \in Tokens, NodeDelete(t)
    PROVE  StorageTypeOK'
<1>1. TreeOf[t] \in TreeIDs
  BY OverlayAssumption
<1>2. UNCHANGED storageVars \/ RemoveTree(TreeOf[t])
  BY DEF NodeDelete, CleanTreeStorage, storageVars
<1> QED  BY <1>1, <1>2, RemoveTyped, SameStorage DEF TypeInv, TypeOK

LEMMA TypeSavePendingMsg ==
    ASSUME TypeInv, NEW w \in Workers, SavePendingMsg(w)
    PROVE  TypeInv'
<1>1. /\ Held(w) \in Msgs /\ TokenOf(w) \in Tokens /\ TreeFor(Held(w)) \in TreeIDs
      /\ Src(Held(w)) \in Conns
  BY WorkerTyped DEF SavePendingMsg, MessagePlaces
<1>2. work' \in [Workers -> Jobs] /\ WorkTyped'
  BY <1>1, GotoTyped DEF SavePendingMsg, MessagePlaces
<1>3. StorageTypeOK'
  BY <1>1, SameStorage DEF TypeInv, TypeOK, SavePendingMsg
<1> QED  BY <1>1, <1>2, <1>3
         DEF TypeInv, TypeOK, Jobs, SavePendingMsg, messageVars, requestVars,
             instanceVars, configVars, workerVars

LEMMA TypeTestRegistered ==
    ASSUME TypeInv, NEW w \in Workers, TestRegistered(w)
    PROVE  TypeInv'
<1>1. /\ Held(w) \in Msgs /\ TokenOf(w) \in Tokens /\ TreeFor(Held(w)) \in TreeIDs
      /\ Src(Held(w)) \in Conns
  BY WorkerTyped DEF TestRegistered, MessagePlaces
<1>2. work' \in [Workers -> Jobs] /\ WorkTyped'
  BY <1>1, GotoTyped, FinishTyped DEF TestRegistered, MessagePlaces
<1>3. StorageTypeOK'
  BY <1>1, SameStorage DEF TypeInv, TypeOK, TestRegistered
<1> QED  BY <1>1, <1>2, <1>3
         DEF TypeInv, TypeOK, Jobs, TestRegistered, messageVars, requestVars,
             instanceVars, configVars, workerVars

LEMMA TypeRegisterUnknown ==
    ASSUME TypeInv, NEW w \in Workers, RegisterUnknown(w)
    PROVE  TypeInv'
<1>1. /\ Held(w) \in Msgs /\ TokenOf(w) \in Tokens /\ TreeFor(Held(w)) \in TreeIDs
      /\ Src(Held(w)) \in Conns
  BY WorkerTyped DEF RegisterUnknown, MessagePlaces
<1>2. work' \in [Workers -> Jobs] /\ WorkTyped'
  BY <1>1, GotoTyped DEF RegisterUnknown, MessagePlaces
<1>3. StorageTypeOK'
  BY <1>1, RegisterTyped DEF TypeInv, TypeOK, RegisterUnknown
<1> QED  BY <1>1, <1>2, <1>3
         DEF TypeInv, TypeOK, Jobs, RegisterUnknown, messageVars, requestVars,
             instanceVars, configVars, workerVars

LEMMA TypeSendRequest ==
    ASSUME TypeInv, NEW w \in Workers, SendRequest(w)
    PROVE  TypeInv'
<1>1. /\ Held(w) \in Msgs /\ TokenOf(w) \in Tokens /\ TreeFor(Held(w)) \in TreeIDs
      /\ Src(Held(w)) \in Conns
  BY WorkerTyped DEF SendRequest, MessagePlaces
<1>2. work' \in [Workers -> Jobs] /\ WorkTyped'
  BY <1>1, FinishTyped DEF SendRequest
<1>3. StorageTypeOK'
  BY <1>1, SameStorage DEF TypeInv, TypeOK, SendRequest
<1> QED  BY <1>1, <1>2, <1>3
         DEF TypeInv, TypeOK, Jobs, SendRequest, messageVars, requestVars,
             instanceVars, configVars, workerVars

LEMMA TypeSendRequestFails ==
    ASSUME TypeInv, NEW w \in Workers, SendRequestFails(w)
    PROVE  TypeInv'
<1>1. /\ Held(w) \in Msgs /\ TokenOf(w) \in Tokens /\ TreeFor(Held(w)) \in TreeIDs
      /\ Src(Held(w)) \in Conns
  BY WorkerTyped DEF SendRequestFails, MessagePlaces
<1>2. work' \in [Workers -> Jobs] /\ WorkTyped'
  BY <1>1, FinishTyped DEF SendRequestFails
<1>3. StorageTypeOK'
  BY <1>1, RegisterTyped DEF TypeInv, TypeOK, SendRequestFails
<1> QED  BY <1>1, <1>2, <1>3
         DEF TypeInv, TypeOK, Jobs, SendRequestFails, messageVars, requestVars,
             instanceVars, configVars, workerVars

LEMMA TypeLookup ==
    ASSUME TypeInv, NEW w \in Workers, Lookup(w)
    PROVE  TypeInv'
<1>1. /\ Held(w) \in Msgs /\ TokenOf(w) \in Tokens /\ TreeFor(Held(w)) \in TreeIDs
      /\ Src(Held(w)) \in Conns
  BY WorkerTyped DEF Lookup, MessagePlaces
<1>2. work' \in [Workers -> Jobs] /\ WorkTyped'
  BY <1>1, GotoTyped, FinishTyped DEF Lookup, Drop, MessagePlaces
<1>3. StorageTypeOK'
  BY <1>1, SameStorage DEF TypeInv, TypeOK, Lookup
<1> QED  BY <1>1, <1>2, <1>3
         DEF TypeInv, TypeOK, Jobs, Lookup, messageVars, requestVars,
             instanceVars, configVars, workerVars, Drop

LEMMA TypeInsertInstance ==
    ASSUME TypeInv, NEW w \in Workers, InsertInstance(w)
    PROVE  TypeInv'
<1>1. /\ Held(w) \in Msgs /\ TokenOf(w) \in Tokens /\ TreeFor(Held(w)) \in TreeIDs
      /\ Src(Held(w)) \in Conns
  BY WorkerTyped DEF InsertInstance, MessagePlaces
<1>2. work' \in [Workers -> Jobs] /\ WorkTyped'
  BY <1>1, GotoTyped DEF InsertInstance, MessagePlaces
<1>3. StorageTypeOK'
  BY <1>1, SameStorage DEF TypeInv, TypeOK, InsertInstance
<1> QED  BY <1>1, <1>2, <1>3
         DEF TypeInv, TypeOK, Jobs, InsertInstance, messageVars, requestVars,
             instanceVars, configVars, workerVars, GetConfig

LEMMA TypeBindInstance ==
    ASSUME TypeInv, NEW w \in Workers, BindInstance(w)
    PROVE  TypeInv'
<1>1. /\ Held(w) \in Msgs /\ TokenOf(w) \in Tokens /\ TreeFor(Held(w)) \in TreeIDs
      /\ Src(Held(w)) \in Conns
  BY WorkerTyped DEF BindInstance, MessagePlaces
<1>2. work' \in [Workers -> Jobs] /\ WorkTyped'
  BY <1>1, GotoTyped, FinishTyped DEF BindInstance, Drop, MessagePlaces
<1>3. StorageTypeOK'
  BY <1>1, SameStorage DEF TypeInv, TypeOK, BindInstance
<1> QED  BY <1>1, <1>2, <1>3
         DEF TypeInv, TypeOK, Jobs, BindInstance, messageVars, requestVars,
             instanceVars, configVars, workerVars, Drop

LEMMA TypeNewProtocolFails ==
    ASSUME TypeInv, NEW w \in Workers, NewProtocolFails(w)
    PROVE  TypeInv'
<1>1. /\ Held(w) \in Msgs /\ TokenOf(w) \in Tokens /\ TreeFor(Held(w)) \in TreeIDs
      /\ Src(Held(w)) \in Conns
  BY WorkerTyped DEF NewProtocolFails, MessagePlaces
<1>2. work' \in [Workers -> Jobs] /\ WorkTyped'
  BY <1>1, FinishTyped DEF NewProtocolFails, Drop
<1>3. StorageTypeOK'
  BY <1>1, DeleteTyped DEF TypeInv, TypeOK, NewProtocolFails
<1> QED  BY <1>1, <1>2, <1>3
         DEF TypeInv, TypeOK, Jobs, NewProtocolFails, messageVars, requestVars,
             instanceVars, configVars, workerVars, Drop, NodeDelete

LEMMA TypeNewProtocolNil ==
    ASSUME TypeInv, NEW w \in Workers, NewProtocolNil(w)
    PROVE  TypeInv'
<1>1. /\ Held(w) \in Msgs /\ TokenOf(w) \in Tokens /\ TreeFor(Held(w)) \in TreeIDs
      /\ Src(Held(w)) \in Conns
  BY WorkerTyped DEF NewProtocolNil, MessagePlaces
<1>2. work' \in [Workers -> Jobs] /\ WorkTyped'
  BY <1>1, FinishTyped DEF NewProtocolNil, Drop
<1>3. StorageTypeOK'
  BY <1>1, SameStorage DEF TypeInv, TypeOK, NewProtocolNil
<1> QED  BY <1>1, <1>2, <1>3
         DEF TypeInv, TypeOK, Jobs, NewProtocolNil, messageVars, requestVars,
             instanceVars, configVars, workerVars, Drop

LEMMA TypeEnqueue ==
    ASSUME TypeInv, NEW w \in Workers, Enqueue(w)
    PROVE  TypeInv'
<1>1. /\ Held(w) \in Msgs /\ TokenOf(w) \in Tokens /\ TreeFor(Held(w)) \in TreeIDs
      /\ Src(Held(w)) \in Conns
  BY WorkerTyped DEF Enqueue, MessagePlaces
<1>2. work' \in [Workers -> Jobs] /\ WorkTyped'
  BY <1>1, FinishTyped DEF Enqueue, Drop
<1>3. StorageTypeOK'
  BY <1>1, SameStorage DEF TypeInv, TypeOK, Enqueue
<1>4. delivered' \in [Tokens -> Seq(Msgs)]
  <2>1. Append(delivered[TokenOf(w)], Held(w)) \in Seq(Msgs)
    BY <1>1 DEF TypeInv, TypeOK
  <2> QED  BY <1>1, <2>1 DEF TypeInv, TypeOK, Enqueue
<1> QED  BY <1>1, <1>2, <1>3, <1>4
         DEF TypeInv, TypeOK, Jobs, Enqueue, messageVars, requestVars,
             instanceVars, configVars, workerVars, Drop


\* The first step of TransmitMsg.
LEMMA BeginTyped ==
    ASSUME TypeInv, NEW w \in Workers, NEW m \in Msgs, BeginTransmit(w, m)
    PROVE  work' \in [Workers -> Jobs] /\ WorkTyped' /\ StorageTypeOK'
<1>1. StorageTypeOK'
  BY TreeOfMessage, RefreshTyped DEF TypeInv, TypeOK, BeginTransmit
<1>2. PICK p \in MessagePlaces : work' = [work EXCEPT ![w] = [at |-> p, what |-> m]]
  BY DEF BeginTransmit, MessagePlaces
<1> QED  BY <1>1, <1>2, NewJobTyped

LEMMA ConnsWork == Conns \subseteq Workers /\ Retransmitters \subseteq Workers
  BY DEF Workers

LEMMA TypeReceive ==
    ASSUME TypeInv, NEW c \in Conns, Receive(c)
    PROVE  TypeInv'
<1>1. PICK m \in Msgs : Arrives(c, "message", m) /\ BeginTransmit(c, m)
  BY DEF Receive
<1>2. work' \in [Workers -> Jobs] /\ WorkTyped' /\ StorageTypeOK'
  BY <1>1, ConnsWork, BeginTyped
<1>3. toCome' \subseteq toCome
  BY <1>1 DEF Arrives
<1> QED  BY <1>2, <1>3
         DEF TypeInv, TypeOK, Jobs, Receive, messageVars, requestVars,
             instanceVars, configVars, workerVars

LEMMA TypeHandleSendTree ==
    ASSUME TypeInv, NEW c \in Conns, HandleSendTree(c)
    PROVE  TypeInv'
<1>1. PICK id \in TreeIDs :
         /\ requests[c][id] > 0
         /\ requests' = [requests EXCEPT ![c][id] = @ - 1]
         /\ work' = IF IsRegistered(id)
                    THEN [work EXCEPT ![c] = [at |-> "set", what |-> id]] ELSE work
  BY DEF HandleSendTree
<1>2. work' \in [Workers -> Jobs] /\ WorkTyped'
  <2>1. CASE IsRegistered(id)
    BY <1>1, <2>1, ConnsWork, NewJobTyped
  <2>2. CASE ~IsRegistered(id)
    BY <1>1, <2>2, SameWorkTyped
  <2> QED  BY <2>1, <2>2
<1>3. requests' \in [Conns -> [TreeIDs -> Nat]]
  BY <1>1 DEF TypeInv, TypeOK
<1>4. StorageTypeOK'
  BY SameStorage DEF TypeInv, TypeOK, HandleSendTree
<1> QED  BY <1>2, <1>3, <1>4
         DEF TypeInv, TypeOK, Jobs, HandleSendTree, messageVars, requestVars,
             instanceVars, configVars, workerVars

LEMMA TypePeerLacksTree ==
    ASSUME TypeInv, NEW c \in Conns, PeerLacksTree(c)
    PROVE  TypeInv'
<1>1. PICK id \in TreeIDs : /\ requests[c][id] > 0
                            /\ requests' = [requests EXCEPT ![c][id] = @ - 1]
                            /\ unanswered' = unanswered \cup {id}
  BY DEF PeerLacksTree
<1>2. work' \in [Workers -> Jobs] /\ WorkTyped'
  BY SameWorkTyped DEF PeerLacksTree, workerVars
<1>3. requests' \in [Conns -> [TreeIDs -> Nat]]
  BY <1>1 DEF TypeInv, TypeOK
<1>4. StorageTypeOK'
  BY SameStorage DEF TypeInv, TypeOK, PeerLacksTree
<1> QED  BY <1>1, <1>2, <1>3, <1>4
         DEF TypeInv, TypeOK, Jobs, PeerLacksTree, messageVars, requestVars,
             instanceVars, configVars, workerVars

LEMMA RegisterTreesTyped ==
    ASSUME TypeInv, NEW ids, RegisterTrees(ids)
    PROVE  StorageTypeOK' /\ spawned' \in [TreeIDs -> Nat]
<1>1. StorageTypeOK'
  BY SetTyped DEF TypeInv, TypeOK, RegisterTrees
<1>2. spawned' \in [TreeIDs -> Nat]
  BY DEF TypeInv, TypeOK, RegisterTrees
<1> QED  BY <1>1, <1>2

LEMMA TypeRegisterTree ==
    ASSUME TypeInv, NEW c \in Conns, RegisterTree(c)
    PROVE  TypeInv'
<1>1. work' \in [Workers -> Jobs] /\ WorkTyped'
  BY ConnsWork, FinishTyped DEF RegisterTree
<1>2. StorageTypeOK' /\ spawned' \in [TreeIDs -> Nat]
  BY RegisterTreesTyped DEF RegisterTree
<1> QED  BY <1>1, <1>2
         DEF TypeInv, TypeOK, Jobs, RegisterTree, messageVars, requestVars,
             instanceVars, configVars, workerVars

LEMMA TypeHandleSendTreeMarshal ==
    ASSUME TypeInv, NEW c \in Conns, HandleSendTreeMarshal(c)
    PROVE  TypeInv'
<1>1. PICK id \in TreeIDs :
         /\ requests[c][id] > 0
         /\ requests' = [requests EXCEPT ![c][id] = @ - 1]
         /\ \/ work' = [work EXCEPT ![c] = [at |-> "set", what |-> id]]
            \/ UNCHANGED work
         /\ \/ UNCHANGED <<rosterRequests, pendingTreeMarshal>>
            \/ /\ rosterRequests' = [rosterRequests EXCEPT ![c][RosterOf[id]] = @ + 1]
               /\ AddPendingTreeMarshal(id)
  BY DEF HandleSendTreeMarshal
<1>2. work' \in [Workers -> Jobs] /\ WorkTyped'
  BY <1>1, ConnsWork, NewJobTyped, SameWorkTyped
<1>3. requests' \in [Conns -> [TreeIDs -> Nat]]
  BY <1>1 DEF TypeInv, TypeOK
<1>4. StorageTypeOK'
  BY SameStorage DEF TypeInv, TypeOK, HandleSendTreeMarshal
<1>5. /\ rosterRequests' \in [Conns -> [Rosters -> Nat]]
      /\ pendingTreeMarshal' \in [Rosters -> SUBSET TreeIDs]
  <2>1. CASE UNCHANGED <<rosterRequests, pendingTreeMarshal>>
    BY <2>1 DEF TypeInv, TypeOK
  <2>2. CASE /\ rosterRequests' = [rosterRequests EXCEPT ![c][RosterOf[id]] = @ + 1]
             /\ AddPendingTreeMarshal(id)
    <3>1. RosterOf[id] \in Rosters
      BY RosterOfTree
    <3>2. rosterRequests' \in [Conns -> [Rosters -> Nat]]
      BY <2>2, <3>1 DEF TypeInv, TypeOK
    <3>3. pendingTreeMarshal' \in [Rosters -> SUBSET TreeIDs]
      BY <2>2, <3>1 DEF TypeInv, TypeOK, AddPendingTreeMarshal
    <3> QED  BY <3>2, <3>3
  <2> QED  BY <1>1, <2>1, <2>2
<1> QED  BY <1>2, <1>3, <1>4, <1>5
         DEF TypeInv, TypeOK, Jobs, HandleSendTreeMarshal, messageVars, requestVars,
             instanceVars, configVars, workerVars

LEMMA TypeHandleSendRoster ==
    ASSUME TypeInv, NEW c \in Conns, HandleSendRoster(c)
    PROVE  TypeInv'
<1>1. PICK r \in Rosters : RosterAnswered(c, r) /\ CheckPendingTreeMarshal(r)
  BY DEF HandleSendRoster
<1>2. work' \in [Workers -> Jobs] /\ WorkTyped'
  BY SameWorkTyped DEF HandleSendRoster
<1>3. rosterRequests' \in [Conns -> [Rosters -> Nat]]
  BY <1>1 DEF TypeInv, TypeOK, RosterAnswered
<1>4. StorageTypeOK' /\ spawned' \in [TreeIDs -> Nat] /\ pendingTreeLocked' \in BOOLEAN
  <2>1. CASE pendingTreeMarshal[r] = {}
    BY <1>1, <2>1, SameStorage DEF TypeInv, TypeOK, CheckPendingTreeMarshal
  <2>2. CASE pendingTreeMarshal[r] # {}
    BY <1>1, <2>2, RegisterTreesTyped DEF TypeInv, TypeOK, CheckPendingTreeMarshal
  <2> QED  BY <2>1, <2>2
<1> QED  BY <1>2, <1>3, <1>4
         DEF TypeInv, TypeOK, Jobs, HandleSendRoster, messageVars, requestVars,
             instanceVars, configVars, workerVars

LEMMA TypeHandleConfigMessage ==
    ASSUME TypeInv, NEW c \in Conns, HandleConfigMessage(c)
    PROVE  TypeInv'
<1>1. PICK m \in Msgs : /\ Arrives(c, "config", m)
                        /\ pendingConfigs' = pendingConfigs \cup {Dest[m]}
  BY DEF HandleConfigMessage
<1>2. work' \in [Workers -> Jobs] /\ WorkTyped'
  BY SameWorkTyped DEF HandleConfigMessage, workerVars
<1>3. toCome' \subseteq toCome
  BY <1>1 DEF Arrives
<1>4. StorageTypeOK'
  BY SameStorage DEF TypeInv, TypeOK, HandleConfigMessage
<1>5. Dest[m] \in Tokens
  BY TreeOfMessage
<1> QED  BY <1>1, <1>2, <1>3, <1>4, <1>5
         DEF TypeInv, TypeOK, Jobs, HandleConfigMessage, messageVars, requestVars,
             instanceVars, configVars, workerVars

LEMMA TypeCheckPendingMessages ==
    ASSUME TypeInv, NEW r \in Retransmitters, CheckPendingMessages(r)
    PROVE  TypeInv'
<1>1. PICK id \in TreeIDs :
         /\ spawned[id] > 0
         /\ spawned' = [spawned EXCEPT ![id] = @ - 1]
         /\ todo' = [todo EXCEPT ![r] = Filtered(pendingMsg, WaitsFor(id))]
         /\ pendingMsg' = Filtered(pendingMsg, Msgs \ WaitsFor(id))
  BY DEF CheckPendingMessages, Remaining
<1>2. work' \in [Workers -> Jobs] /\ WorkTyped'
  BY SameWorkTyped DEF CheckPendingMessages
<1>3. pendingMsg \in Seq(Msgs)
  BY DEF TypeInv, TypeOK
<1>4. pendingMsg' \in Seq(Msgs) /\ Filtered(pendingMsg, WaitsFor(id)) \in Seq(Msgs)
  BY <1>1, <1>3, FilteredParts
<1>5. todo' \in [Retransmitters -> Seq(Msgs)] /\ spawned' \in [TreeIDs -> Nat]
  BY <1>1, <1>4 DEF TypeInv, TypeOK
<1>6. StorageTypeOK'
  BY SameStorage DEF TypeInv, TypeOK, CheckPendingMessages
<1> QED  BY <1>2, <1>4, <1>5, <1>6
         DEF TypeInv, TypeOK, Jobs, CheckPendingMessages, messageVars, requestVars,
             instanceVars, configVars, workerVars

LEMMA TypeRetransmit ==
    ASSUME TypeInv, NEW r \in Retransmitters, Retransmit(r)
    PROVE  TypeInv'
<1>1. todo[r] \in Seq(Msgs) /\ todo[r] # <<>>
  BY DEF TypeInv, TypeOK, Retransmit
<1>2. Head(todo[r]) \in Msgs /\ Tail(todo[r]) \in Seq(Msgs)
  BY <1>1
<1>3. PICK m \in Msgs : m = Head(todo[r]) /\ BeginTransmit(r, m)
  BY <1>2 DEF Retransmit
<1>4. work' \in [Workers -> Jobs] /\ WorkTyped' /\ StorageTypeOK'
  BY <1>3, ConnsWork, BeginTyped
<1>5. todo' \in [Retransmitters -> Seq(Msgs)]
  BY <1>2 DEF TypeInv, TypeOK, Retransmit
<1> QED  BY <1>4, <1>5
         DEF TypeInv, TypeOK, Jobs, Retransmit, messageVars, requestVars,
             instanceVars, configVars, workerVars

LEMMA TypeCreate ==
    ASSUME TypeInv, NEW t \in Local, CreateInstance(t) \/ CreateRegister(t) \/ CreateBind(t)
    PROVE  TypeInv'
<1>1. t \in Tokens
  BY OverlayAssumption
<1>2. work' \in [Workers -> Jobs] /\ WorkTyped'
  BY SameWorkTyped DEF CreateInstance, CreateRegister, CreateBind, workerVars
<1>3. CASE CreateInstance(t)
  <2>1. StorageTypeOK'
    BY <1>3, SameStorage DEF TypeInv, TypeOK, CreateInstance
  <2> QED  BY <1>1, <1>2, <1>3, <2>1
         DEF TypeInv, TypeOK, Jobs, CreateInstance, messageVars, requestVars,
             instanceVars, configVars, workerVars
<1>4. CASE CreateRegister(t)
  <2>1. StorageTypeOK' /\ spawned' \in [TreeIDs -> Nat]
    BY <1>4, RegisterTreesTyped DEF CreateRegister
  <2> QED  BY <1>1, <1>2, <1>4, <2>1
         DEF TypeInv, TypeOK, Jobs, CreateRegister, messageVars, requestVars,
             instanceVars, configVars, workerVars
<1>5. CASE CreateBind(t)
  <2>1. StorageTypeOK'
    BY <1>5, SameStorage DEF TypeInv, TypeOK, CreateBind
  <2> QED  BY <1>1, <1>2, <1>5, <2>1
         DEF TypeInv, TypeOK, Jobs, CreateBind, messageVars, requestVars,
             instanceVars, configVars, workerVars
<1> QED  BY <1>3, <1>4, <1>5

LEMMA TypeNodeDone ==
    ASSUME TypeInv, NEW t \in Tokens, NodeDone(t)
    PROVE  TypeInv'
<1>1. work' \in [Workers -> Jobs] /\ WorkTyped'
  BY SameWorkTyped DEF NodeDone, workerVars
<1>2. StorageTypeOK'
  BY DeleteTyped DEF NodeDone
<1> QED  BY <1>1, <1>2
         DEF TypeInv, TypeOK, Jobs, NodeDone, NodeDelete, messageVars, requestVars,
             instanceVars, configVars, workerVars

LEMMA TypeClose ==
    ASSUME TypeInv, CloseOverlay \/ OverlayClosed
    PROVE  TypeInv'
<1>1. work' \in [Workers -> Jobs] /\ WorkTyped'
  BY SameWorkTyped DEF CloseOverlay, OverlayClosed, workerVars
<1>2. StorageTypeOK'
  BY CloseTyped DEF TypeInv, TypeOK, CloseOverlay, OverlayClosed
<1> QED  BY <1>1, <1>2
         DEF TypeInv, TypeOK, Jobs, CloseOverlay, OverlayClosed, messageVars, requestVars,
             instanceVars, configVars, workerVars

LEMMA TypeRemovalStep ==
    ASSUME TypeInv, RemovalStep
    PROVE  TypeInv'
<1>1. work' \in [Workers -> Jobs] /\ WorkTyped'
  BY SameWorkTyped DEF RemovalStep, workerVars
<1>2. StorageTypeOK'
  BY GoroutineTyped DEF TypeInv, TypeOK, RemovalStep
<1>3. wiped' \subseteq TreeIDs
  BY DEF TypeInv, TypeOK, RemovalStep
<1> QED  BY <1>1, <1>2, <1>3
         DEF TypeInv, TypeOK, Jobs, RemovalStep, messageVars, requestVars,
             instanceVars, configVars, workerVars

LEMMA TypeStill ==
    ASSUME TypeInv, UNCHANGED vars
    PROVE  TypeInv'
<1>1. work' \in [Workers -> Jobs] /\ WorkTyped'
  BY SameWorkTyped DEF vars, workerVars
<1>2. StorageTypeOK'
  BY SameStorage DEF TypeInv, TypeOK, vars
<1> QED  BY <1>1, <1>2
         DEF TypeInv, TypeOK, Jobs, vars, messageVars, requestVars,
             instanceVars, configVars, workerVars

LEMMA TypeStep == TypeInv /\ [Next]_vars => TypeInv'
  BY TypeSavePendingMsg, TypeTestRegistered, TypeRegisterUnknown, TypeSendRequest,
     TypeSendRequestFails, TypeLookup, TypeInsertInstance, TypeBindInstance,
     TypeNewProtocolFails, TypeNewProtocolNil, TypeEnqueue, TypeReceive,
     TypeHandleSendTree, TypePeerLacksTree, TypeRegisterTree, TypeHandleSendTreeMarshal,
     TypeHandleSendRoster, TypeHandleConfigMessage, TypeCheckPendingMessages,
     TypeRetransmit, TypeCreate, TypeNodeDone, TypeClose, TypeRemovalStep, TypeStill
  DEF Next, Transmission, Reception

\* The variables of the overlay keep their types: in particular no request is
\* counted below zero, and what a worker holds at a place of TransmitMsg is a
\* message (overlay.go).
THEOREM OverlayTypeCorrect == Spec => []TypeOK
<1>1. Spec => []TypeInv
  BY TypeInit, TypeStep, PTL DEF Spec
<1>2. TypeInv => TypeOK
  BY DEF TypeInv
<1> QED  BY <1>1, <1>2, PTL

-----------------------------------------------------------------------------
(* What a step does to the jobs of the workers.                            *)

\* Worker w goes to place p with x in its hands, and no other worker moves.
Moves(w, p, x) ==
    /\ work'[w].at = p /\ work'[w].what = x
    /\ \A v \in Workers : v # w => work'[v] = work[v]

LEMMA GotoMoves ==
    ASSUME TypeInv, NEW w \in Workers, NEW p, Goto(w, p)
    PROVE  Moves(w, p, Held(w))
<1>1. work \in [Workers -> Jobs] /\ work[w] \in Jobs
  BY DEF TypeInv, TypeOK, Jobs
<1>2. work' = [work EXCEPT ![w] = [work[w] EXCEPT !.at = p]]
  BY DEF Goto
<1>3. /\ [work[w] EXCEPT !.at = p].at = p
      /\ [work[w] EXCEPT !.at = p].what = work[w].what
  BY <1>1 DEF Jobs
<1> QED  BY <1>1, <1>2, <1>3 DEF Moves, Held

LEMMA FinishMoves ==
    ASSUME TypeInv, NEW w \in Workers, Finish(w)
    PROVE  Moves(w, "idle", "nothing")
<1>1. work \in [Workers -> Jobs]
  BY DEF TypeInv, TypeOK, Jobs
<1> QED  BY <1>1 DEF Moves, Finish, Idle

LEMMA NewJobMoves ==
    ASSUME TypeInv, NEW w \in Workers, NEW p, NEW x, work' = [work EXCEPT ![w] = [at |-> p, what |-> x]]
    PROVE  Moves(w, p, x)
<1>1. work \in [Workers -> Jobs]
  BY DEF TypeInv, TypeOK, Jobs
<1> QED  BY <1>1 DEF Moves

LEMMA BeginMoves ==
    ASSUME TypeInv, NEW w \in Workers, NEW m, BeginTransmit(w, m)
    PROVE  /\ trees[TreeFor(m)] = "stored" => Moves(w, "lookup", m)
           /\ trees[TreeFor(m)] # "stored" => Moves(w, "save", m)
  BY NewJobMoves DEF BeginTransmit

\* TransmitMsg, place by place.
LEMMA SaveMoves ==
    ASSUME TypeInv, NEW w \in Workers, SavePendingMsg(w)
    PROVE  Moves(w, "known", Held(w)) /\ work[w].at = "save"
  BY GotoMoves DEF SavePendingMsg

LEMMA TestMoves ==
    ASSUME TypeInv, NEW w \in Workers, TestRegistered(w)
    PROVE  /\ work[w].at = "known"
           /\ IsRegistered(TreeFor(Held(w))) => Moves(w, "idle", "nothing")
           /\ ~IsRegistered(TreeFor(Held(w))) => Moves(w, "register", Held(w))
  BY GotoMoves, FinishMoves DEF TestRegistered

LEMMA RegisterMoves ==
    ASSUME TypeInv, NEW w \in Workers, RegisterUnknown(w)
    PROVE  Moves(w, "request", Held(w)) /\ work[w].at = "register"
  BY GotoMoves DEF RegisterUnknown

LEMMA RequestMoves ==
    ASSUME TypeInv, NEW w \in Workers, SendRequest(w) \/ SendRequestFails(w)
    PROVE  Moves(w, "idle", "nothing") /\ work[w].at = "request"
  BY FinishMoves DEF SendRequest, SendRequestFails

LEMMA LookupMoves ==
    ASSUME TypeInv, NEW w \in Workers, Lookup(w)
    PROVE  /\ work[w].at = "lookup"
           /\ \/ TokenOf(w) \in instancesInfo /\ Moves(w, "idle", "nothing")
              \/ /\ TokenOf(w) \notin instancesInfo /\ TokenOf(w) \in protocolInstances
                 /\ Moves(w, "enqueue", Held(w))
              \/ /\ TokenOf(w) \notin instancesInfo /\ TokenOf(w) \notin protocolInstances
                 /\ Moves(w, "insert", Held(w))
  BY GotoMoves, FinishMoves DEF Lookup, Drop, IsDone

LEMMA InsertMoves ==
    ASSUME TypeInv, NEW w \in Workers, InsertInstance(w)
    PROVE  Moves(w, "bind", Held(w)) /\ work[w].at = "insert"
  BY GotoMoves DEF InsertInstance

LEMMA BindMoves ==
    ASSUME TypeInv, NEW w \in Workers, BindInstance(w)
    PROVE  /\ work[w].at = "bind"
           /\ TokenOf(w) \in instances => Moves(w, "enqueue", Held(w))
           /\ TokenOf(w) \notin instances => Moves(w, "idle", "nothing")
  BY GotoMoves, FinishMoves DEF BindInstance, Drop

LEMMA FailMoves ==
    ASSUME TypeInv, NEW w \in Workers, NewProtocolFails(w) \/ NewProtocolNil(w)
    PROVE  Moves(w, "idle", "nothing") /\ work[w].at = "bind"
  BY FinishMoves DEF NewProtocolFails, NewProtocolNil, Drop

LEMMA EnqueueMoves ==
    ASSUME TypeInv, NEW w \in Workers, Enqueue(w)
    PROVE  Moves(w, "idle", "nothing") /\ work[w].at = "enqueue"
  BY FinishMoves DEF Enqueue, Drop

\* What a connection does.
LEMMA SendTreeMoves ==
    ASSUME TypeInv, NEW c \in Conns, HandleSendTree(c) \/ HandleSendTreeMarshal(c)
    PROVE  work[c].at = "idle" /\ (UNCHANGED work \/ \E id \in TreeIDs : Moves(c, "set", id))
<1>1. c \in Workers
  BY ConnsWork
<1>2. \/ UNCHANGED work
      \/ \E id \in TreeIDs : work' = [work EXCEPT ![c] = [at |-> "set", what |-> id]]
  BY DEF HandleSendTree, HandleSendTreeMarshal
<1> QED  BY <1>1, <1>2, NewJobMoves DEF HandleSendTree, HandleSendTreeMarshal

LEMMA RegisterTreeMoves ==
    ASSUME TypeInv, NEW c \in Conns, RegisterTree(c)
    PROVE  Moves(c, "idle", "nothing") /\ work[c].at = "set"
  BY ConnsWork, FinishMoves DEF RegisterTree

LEMMA ReceiveMoves ==
    ASSUME TypeInv, NEW c \in Conns, Receive(c)
    PROVE  \E m \in Msgs : /\ Arrives(c, "message", m)
                           /\ Dest[m] \in Local => creating[Dest[m]] = "over"
                           /\ \/ trees[TreeFor(m)] = "stored" /\ Moves(c, "lookup", m)
                              \/ trees[TreeFor(m)] # "stored" /\ Moves(c, "save", m)
  BY ConnsWork, BeginMoves DEF Receive

LEMMA RetransmitMoves ==
    ASSUME TypeInv, NEW r \in Retransmitters, Retransmit(r)
    PROVE  \E m \in Msgs : /\ m = Head(todo[r]) /\ todo[r] # <<>> /\ work[r].at = "idle"
                           /\ todo' = [todo EXCEPT ![r] = Tail(todo[r])]
                           /\ \/ trees[TreeFor(m)] = "stored" /\ Moves(r, "lookup", m)
                              \/ trees[TreeFor(m)] # "stored" /\ Moves(r, "save", m)
<1>1. todo[r] \in Seq(Msgs) /\ todo[r] # <<>>
  BY DEF TypeInv, TypeOK, Retransmit
<1>2. Head(todo[r]) \in Msgs
  BY <1>1
<1>3. PICK m \in Msgs : m = Head(todo[r])
  BY <1>2
<1>4. BeginTransmit(r, m)
  BY <1>3 DEF Retransmit
<1> QED  BY <1>3, <1>4, ConnsWork, BeginMoves DEF Retransmit

\* The steps that leave the workers alone.
Elsewhere ==
    \/ \E c \in Conns : PeerLacksTree(c) \/ HandleSendRoster(c) \/ HandleConfigMessage(c)
    \/ \E r \in Retransmitters : CheckPendingMessages(r)
    \/ \E t \in Local : CreateInstance(t) \/ CreateRegister(t) \/ CreateBind(t)
    \/ \E t \in Tokens : NodeDone(t)
    \/ RemovalStep \/ CloseOverlay \/ OverlayClosed
    \/ UNCHANGED vars

LEMMA ElsewhereStays == ASSUME Elsewhere PROVE UNCHANGED work
  BY DEF Elsewhere, PeerLacksTree, HandleSendRoster, HandleConfigMessage,
         CheckPendingMessages, CreateInstance, CreateRegister, CreateBind, NodeDone,
         RemovalStep, CloseOverlay, OverlayClosed, vars, workerVars

LEMMA StepKinds ==
    ASSUME [Next]_vars
    PROVE  \/ Elsewhere
           \/ \E w \in Workers : Transmission(w)
           \/ \E c \in Conns : \/ Receive(c) \/ HandleSendTree(c) \/ HandleSendTreeMarshal(c)
                               \/ RegisterTree(c)
           \/ \E r \in Retransmitters : Retransmit(r)
  BY DEF Next, Reception, Elsewhere

-----------------------------------------------------------------------------
(* One protocol instance per token.                                        *)

\* transmitMux is held by one worker.
MuxInv == \A v, w \in Workers : HoldsTransmitMux(v) /\ HoldsTransmitMux(w) => v = w

\* Message m has been received, and nobody has accepted it or given it up; a
\* worker may also be asking for its tree.
Present(m) ==
    \/ \E w \in Workers : work[w].at \in MessagePlaces /\ Held(w) = m
    \/ In(m, pendingMsg)
    \/ \E r \in Retransmitters : In(m, todo[r])

\* Messages for a protocol of this server come when it has started.
LocalInv == \A m \in Msgs : Present(m) /\ Dest[m] \in Local => creating[Dest[m]] = "over"

\* The protocol of a token that was started runs or is done.  A worker that is
\* about to start one is the first, and what it entered is there or is done.
StartedOnce == \A t \in Tokens : started[t] = 0 \/ started[t] = 1
StartedKnown == \A t \in Tokens : started[t] # 0 => t \in protocolInstances \cup instancesInfo
FirstStart == \A w \in Workers : work[w].at \in {"insert", "bind"} => started[TokenOf(w)] = 0
Entered == \A w \in Workers : work[w].at = "bind" => TokenOf(w) \in instances \cup instancesInfo
RunningEntered == protocolInstances \subseteq instances
LocalStart ==
    \A t \in Local : /\ creating[t] # "over" => started[t] = 0
                     /\ creating[t] \in {"inserted", "set"} => t \in instances \cup instancesInfo
StartInv == StartedOnce /\ StartedKnown /\ FirstStart /\ Entered /\ RunningEntered /\ LocalStart

LEMMA MuxInit == Init => MuxInv
  BY DEF Init, MuxInv, HoldsTransmitMux, Idle

\* A worker does not come to hold the lock.
LEMMA MuxFalls ==
    ASSUME MuxInv, \A w \in Workers : HoldsTransmitMux(w)' => HoldsTransmitMux(w)
    PROVE  MuxInv'
  BY DEF MuxInv

LEMMA MuxMoves ==
    ASSUME MuxInv, NEW w \in Workers, NEW p, NEW x, Moves(w, p, x),
           p \notin {"insert", "bind", "enqueue"} \/ HoldsTransmitMux(w)
    PROVE  MuxInv'
  BY MuxFalls DEF Moves, HoldsTransmitMux

LEMMA MuxStep == TypeInv /\ MuxInv /\ [Next]_vars => MuxInv'
<1> SUFFICES ASSUME TypeInv, MuxInv, [Next]_vars PROVE MuxInv'
  OBVIOUS
<1>1. CASE Elsewhere
  BY <1>1, ElsewhereStays DEF MuxInv, HoldsTransmitMux
<1>2. ASSUME NEW w \in Workers, Transmission(w) PROVE MuxInv'
  <2>1. CASE Lookup(w)
    <3>1. \A v \in Workers : ~HoldsTransmitMux(v)
      BY <2>1 DEF Lookup
    <3>2. \A v \in Workers : v # w => work'[v] = work[v]
      BY <2>1, LookupMoves DEF Moves
    <3> QED  BY <3>1, <3>2 DEF MuxInv, HoldsTransmitMux
  <2>2. CASE SavePendingMsg(w)
    BY <2>2, SaveMoves, MuxMoves
  <2>3. CASE TestRegistered(w)
    BY <2>3, TestMoves, MuxMoves
  <2>4. CASE RegisterUnknown(w)
    BY <2>4, RegisterMoves, MuxMoves
  <2>5. CASE SendRequest(w) \/ SendRequestFails(w)
    BY <2>5, RequestMoves, MuxMoves
  <2>6. CASE InsertInstance(w)
    BY <2>6, InsertMoves, MuxMoves DEF HoldsTransmitMux
  <2>7. CASE BindInstance(w)
    BY <2>7, BindMoves, MuxMoves DEF HoldsTransmitMux
  <2>8. CASE NewProtocolFails(w) \/ NewProtocolNil(w)
    BY <2>8, FailMoves, MuxMoves
  <2>9. CASE Enqueue(w)
    BY <2>9, EnqueueMoves, MuxMoves
  <2> QED  BY <1>2, <2>1, <2>2, <2>3, <2>4, <2>5, <2>6, <2>7, <2>8, <2>9 DEF Transmission
<1>3. ASSUME NEW c \in Conns, Receive(c) PROVE MuxInv'
  BY <1>3, ReceiveMoves, MuxMoves, ConnsWork
<1>4. ASSUME NEW c \in Conns, HandleSendTree(c) \/ HandleSendTreeMarshal(c) PROVE MuxInv'
  <2>1. CASE UNCHANGED work
    BY <2>1 DEF MuxInv, HoldsTransmitMux
  <2>2. CASE ~UNCHANGED work
    BY <1>4, <2>2, SendTreeMoves, MuxMoves, ConnsWork
  <2> QED  BY <2>1, <2>2
<1>5. ASSUME NEW c \in Conns, RegisterTree(c) PROVE MuxInv'
  BY <1>5, RegisterTreeMoves, MuxMoves, ConnsWork
<1>6. ASSUME NEW r \in Retransmitters, Retransmit(r) PROVE MuxInv'
  BY <1>6, RetransmitMoves, MuxMoves, ConnsWork
<1> QED  BY <1>1, <1>2, <1>3, <1>4, <1>5, <1>6, StepKinds

LEMMA TailMembers ==
    ASSUME NEW S, NEW list \in Seq(S), list # <<>>
    PROVE  /\ Head(list) \in S /\ Tail(list) \in Seq(S)
           /\ \A x : In(x, list) <=> x = Head(list) \/ In(x, Tail(list))
           /\ NoneTwiceIn(list) => NoneTwiceIn(Tail(list)) /\ ~In(Head(list), Tail(list))
<1>1. /\ Len(list) \in Nat /\ Len(list) # 0 /\ Head(list) = list[1] /\ Head(list) \in S
      /\ Tail(list) \in Seq(S) /\ Len(Tail(list)) = Len(list) - 1
      /\ \A k \in 1..(Len(list) - 1) : Tail(list)[k] = list[k + 1]
  OBVIOUS
<1>2. /\ \A k \in 1..Len(list) : k = 1 \/ (k - 1 \in 1..(Len(list) - 1) /\ (k - 1) + 1 = k)
      /\ \A k \in 1..(Len(list) - 1) : k + 1 \in 1..Len(list) /\ k + 1 # 1
      /\ 1 \in 1..Len(list)
      /\ \A j, k \in 1..(Len(list) - 1) : j + 1 = k + 1 => j = k
  BY <1>1
<1>3. ASSUME NEW x PROVE In(x, list) <=> x = Head(list) \/ In(x, Tail(list))
  <2>1. ASSUME In(x, list) PROVE x = Head(list) \/ In(x, Tail(list))
    <3>1. PICK k \in 1..Len(list) : list[k] = x
      BY <2>1 DEF In
    <3>2. CASE k = 1
      BY <1>1, <3>1, <3>2
    <3>3. CASE k # 1
      <4>1. k - 1 \in 1..(Len(list) - 1) /\ Tail(list)[k - 1] = x
        BY <1>1, <1>2, <3>1, <3>3
      <4> QED  BY <1>1, <4>1 DEF In
    <3> QED  BY <3>2, <3>3
  <2>2. ASSUME x = Head(list) \/ In(x, Tail(list)) PROVE In(x, list)
    BY <1>1, <1>2, <2>2 DEF In
  <2> QED  BY <2>1, <2>2
<1>4. ASSUME NoneTwiceIn(list) PROVE NoneTwiceIn(Tail(list)) /\ ~In(Head(list), Tail(list))
  BY <1>1, <1>2, <1>4 DEF In, NoneTwiceIn
<1> QED  BY <1>1, <1>3, <1>4

\* The lists change only where messages are put on them or taken off.
LEMMA ListsStay ==
    ASSUME [Next]_vars,
           \A w \in Workers : ~SavePendingMsg(w),
           \A r \in Retransmitters : ~CheckPendingMessages(r) /\ ~Retransmit(r)
    PROVE  UNCHANGED <<pendingMsg, todo>>
  BY DEF Next, Transmission, Reception, TestRegistered, RegisterUnknown, SendRequest,
         SendRequestFails, Lookup, InsertInstance, BindInstance, NewProtocolFails,
         NewProtocolNil, Enqueue, Receive, HandleSendTree, PeerLacksTree, RegisterTree,
         HandleSendTreeMarshal, HandleSendRoster, HandleConfigMessage, CreateInstance,
         CreateRegister, CreateBind, NodeDone, RemovalStep, CloseOverlay, OverlayClosed,
         vars, workerVars

\* One list after a step, for each of the three actions.
LEMMA SaveLists ==
    ASSUME TypeInv, NEW w \in Workers, SavePendingMsg(w)
    PROVE  /\ Held(w) \in Msgs /\ UNCHANGED todo
           /\ \A x : In(x, pendingMsg') <=> In(x, pendingMsg) \/ x = Held(w)
           /\ NoneTwiceIn(pendingMsg) /\ ~In(Held(w), pendingMsg) => NoneTwiceIn(pendingMsg')
<1>1. Held(w) \in Msgs
  BY WorkerTyped DEF SavePendingMsg, MessagePlaces
<1>2. pendingMsg \in Seq(Msgs) /\ pendingMsg' = Append(pendingMsg, Held(w))
  BY DEF TypeInv, TypeOK, SavePendingMsg
<1>3. UNCHANGED todo
  BY DEF SavePendingMsg
<1> QED  BY <1>1, <1>2, <1>3, AppendMembers

LEMMA CheckLists ==
    ASSUME TypeInv, NEW r \in Retransmitters, CheckPendingMessages(r)
    PROVE  /\ todo[r] = <<>> /\ UNCHANGED work
           /\ \A s \in Retransmitters : s # r => todo'[s] = todo[s]
           /\ NoneTwiceIn(pendingMsg) => NoneTwiceIn(pendingMsg') /\ NoneTwiceIn(todo'[r])
           /\ \E id \in TreeIDs :
                /\ spawned[id] > 0 /\ spawned' = [spawned EXCEPT ![id] = @ - 1]
                /\ \A x \in Msgs : In(x, todo'[r]) <=> In(x, pendingMsg) /\ TreeFor(x) = id
                /\ \A x \in Msgs : In(x, pendingMsg') <=> In(x, pendingMsg) /\ TreeFor(x) # id
<1>1. PICK id \in TreeIDs :
         /\ spawned[id] > 0
         /\ spawned' = [spawned EXCEPT ![id] = @ - 1]
         /\ todo' = [todo EXCEPT ![r] = Filtered(pendingMsg, WaitsFor(id))]
         /\ pendingMsg' = Filtered(pendingMsg, Msgs \ WaitsFor(id))
  BY DEF CheckPendingMessages, Remaining
<1>2. pendingMsg \in Seq(Msgs)
  BY DEF TypeInv, TypeOK
<1>3. todo'[r] = Filtered(pendingMsg, WaitsFor(id)) /\ \A s \in Retransmitters : s # r => todo'[s] = todo[s]
  BY <1>1 DEF TypeInv, TypeOK
<1>4. /\ \A x : In(x, todo'[r]) <=> In(x, pendingMsg) /\ x \in WaitsFor(id)
      /\ NoneTwiceIn(pendingMsg) => NoneTwiceIn(todo'[r])
  BY <1>2, <1>3, FilteredParts
<1>5. /\ \A x : In(x, pendingMsg') <=> In(x, pendingMsg) /\ x \in Msgs \ WaitsFor(id)
      /\ NoneTwiceIn(pendingMsg) => NoneTwiceIn(pendingMsg')
  BY <1>1, <1>2, FilteredParts
<1>6. \A x \in Msgs : x \in WaitsFor(id) <=> TreeFor(x) = id
  BY DEF WaitsFor
<1>7. todo[r] = <<>> /\ UNCHANGED work
  BY DEF CheckPendingMessages
<1> QED  BY <1>1, <1>3, <1>4, <1>5, <1>6, <1>7

LEMMA RetransmitLists ==
    ASSUME TypeInv, NEW r \in Retransmitters, Retransmit(r)
    PROVE  /\ UNCHANGED pendingMsg
           /\ \A s \in Retransmitters : s # r => todo'[s] = todo[s]
           /\ \A x : In(x, todo[r]) <=> x = Head(todo[r]) \/ In(x, todo'[r])
           /\ NoneTwiceIn(todo[r]) => NoneTwiceIn(todo'[r]) /\ ~In(Head(todo[r]), todo'[r])
<1>1. todo[r] \in Seq(Msgs) /\ todo[r] # <<>> /\ todo \in [Retransmitters -> Seq(Msgs)]
  BY DEF TypeInv, TypeOK, Retransmit
<1>2. todo' = [todo EXCEPT ![r] = Tail(todo[r])] /\ UNCHANGED pendingMsg
  BY DEF Retransmit
<1>3. todo'[r] = Tail(todo[r]) /\ \A s \in Retransmitters : s # r => todo'[s] = todo[s]
  BY <1>1, <1>2
<1> QED  BY <1>1, <1>2, <1>3, TailMembers

\* A worker moves on with the message it holds, or lets it go.
LEMMA PresentMoves ==
    ASSUME NEW w \in Workers, NEW p, NEW x, Moves(w, p, x), UNCHANGED <<pendingMsg, todo>>,
           \/ p \notin MessagePlaces
           \/ work[w].at \in MessagePlaces /\ x = Held(w),
           NEW m \in Msgs, Present(m)'
    PROVE  Present(m)
<1>1. CASE In(m, pendingMsg) \/ \E r \in Retransmitters : In(m, todo[r])
  BY <1>1 DEF Present
<1>2. CASE \E v \in Workers : work'[v].at \in MessagePlaces /\ work'[v].what = m
  BY <1>2 DEF Present, Moves, Held
<1> QED  BY <1>1, <1>2 DEF Present, Held

LEMMA PresentFrom ==
    ASSUME TypeInv, [Next]_vars, NEW m \in Msgs, Present(m)', ~Present(m)
    PROVE  Dest[m] \in Local => creating[Dest[m]] = "over"
<1>1. CASE \E w \in Workers : SavePendingMsg(w)
  <2>1. PICK w \in Workers : SavePendingMsg(w)
    BY <1>1
  <2>2. Moves(w, "known", Held(w)) /\ work[w].at = "save"
    BY <2>1, SaveMoves
  <2>3. UNCHANGED todo /\ \A x : In(x, pendingMsg') <=> In(x, pendingMsg) \/ x = Held(w)
    BY <2>1, SaveLists
  <2> QED  BY <2>2, <2>3 DEF Present, Moves, MessagePlaces, Held
<1>2. CASE \E r \in Retransmitters : CheckPendingMessages(r)
  <2>1. PICK r \in Retransmitters : CheckPendingMessages(r)
    BY <1>2
  <2>2. /\ UNCHANGED work /\ \A s \in Retransmitters : s # r => todo'[s] = todo[s]
        /\ In(m, todo'[r]) => In(m, pendingMsg)
        /\ In(m, pendingMsg') => In(m, pendingMsg)
    BY <2>1, CheckLists
  <2> QED  BY <2>2 DEF Present, Held
<1>3. CASE \E r \in Retransmitters : Retransmit(r)
  <2>1. PICK r \in Retransmitters : Retransmit(r)
    BY <1>3
  <2>2. /\ UNCHANGED pendingMsg /\ \A s \in Retransmitters : s # r => todo'[s] = todo[s]
        /\ \A x : In(x, todo[r]) <=> x = Head(todo[r]) \/ In(x, todo'[r])
    BY <2>1, RetransmitLists
  <2>3. PICK p : Moves(r, p, Head(todo[r]))
    BY <2>1, RetransmitMoves
  <2> QED  BY <2>2, <2>3, ConnsWork DEF Present, Moves, Held
<1>4. CASE /\ ~ \E w \in Workers : SavePendingMsg(w)
           /\ ~ \E r \in Retransmitters : CheckPendingMessages(r) \/ Retransmit(r)
  <2>1. UNCHANGED <<pendingMsg, todo>>
    BY <1>4, ListsStay
  <2>2. CASE Elsewhere
    BY <2>1, <2>2, ElsewhereStays DEF Present, Held
  <2>3. ASSUME NEW w \in Workers, Transmission(w) PROVE FALSE
    <3>1. \/ Moves(w, "idle", "nothing")
          \/ \E p : Moves(w, p, Held(w)) /\ work[w].at \in MessagePlaces
      <4>1. CASE Lookup(w)
        BY <4>1, LookupMoves DEF MessagePlaces
      <4>2. CASE TestRegistered(w)
        BY <4>2, TestMoves DEF MessagePlaces
      <4>3. CASE RegisterUnknown(w)
        BY <4>3, RegisterMoves DEF MessagePlaces
      <4>4. CASE SendRequest(w) \/ SendRequestFails(w)
        BY <4>4, RequestMoves
      <4>5. CASE InsertInstance(w)
        BY <4>5, InsertMoves DEF MessagePlaces
      <4>6. CASE BindInstance(w)
        BY <4>6, BindMoves DEF MessagePlaces
      <4>7. CASE NewProtocolFails(w) \/ NewProtocolNil(w)
        BY <4>7, FailMoves
      <4>8. CASE Enqueue(w)
        BY <4>8, EnqueueMoves
      <4> QED  BY <1>4, <2>3, <4>1, <4>2, <4>3, <4>4, <4>5, <4>6, <4>7, <4>8 DEF Transmission
    <3>2. "idle" \notin MessagePlaces
      BY DEF MessagePlaces
    <3> QED  BY <2>1, <3>1, <3>2, PresentMoves
  <2>4. ASSUME NEW c \in Conns, Receive(c) PROVE Dest[m] \in Local => creating[Dest[m]] = "over"
    <3>1. PICK n \in Msgs : /\ Dest[n] \in Local => creating[Dest[n]] = "over"
                            /\ \E p : Moves(c, p, n)
      BY <2>4, ReceiveMoves
    <3>2. m = n
      BY <2>1, <3>1, ConnsWork DEF Present, Moves, Held
    <3> QED  BY <3>1, <3>2
  <2>5. ASSUME NEW c \in Conns, HandleSendTree(c) \/ HandleSendTreeMarshal(c) PROVE FALSE
    <3>1. CASE UNCHANGED work
      BY <2>1, <3>1 DEF Present, Held
    <3>2. CASE \E id \in TreeIDs : Moves(c, "set", id)
      BY <2>1, <3>2, PresentMoves, ConnsWork DEF MessagePlaces
    <3> QED  BY <2>5, <3>1, <3>2, SendTreeMoves
  <2>6. ASSUME NEW c \in Conns, RegisterTree(c) PROVE FALSE
    BY <2>1, <2>6, RegisterTreeMoves, PresentMoves, ConnsWork DEF MessagePlaces
  <2> QED  BY <1>4, <2>2, <2>3, <2>4, <2>5, <2>6, StepKinds
<1> QED  BY <1>1, <1>2, <1>3, <1>4

LEMMA OverStays ==
    ASSUME TypeInv, [Next]_vars, NEW t \in Local, creating[t] = "over"
    PROVE  creating'[t] = "over"
<1>1. ASSUME NEW u \in Local, CreateInstance(u) \/ CreateRegister(u) \/ CreateBind(u)
      PROVE  creating'[t] = "over"
  <2>1. PICK p : creating' = [creating EXCEPT ![u] = p] /\ u # t
    BY <1>1 DEF CreateInstance, CreateRegister, CreateBind
  <2> QED  BY <2>1 DEF TypeInv, TypeOK
<1>2. CASE ~ \E u \in Local : CreateInstance(u) \/ CreateRegister(u) \/ CreateBind(u)
  <2>1. UNCHANGED creating
    BY <1>2
    DEF Next, Transmission, Reception, SavePendingMsg, TestRegistered, RegisterUnknown,
         SendRequest, SendRequestFails, Lookup, InsertInstance, BindInstance,
         NewProtocolFails, NewProtocolNil, Enqueue, Receive, HandleSendTree,
         PeerLacksTree, RegisterTree, HandleSendTreeMarshal, HandleSendRoster,
         HandleConfigMessage, CheckPendingMessages, Retransmit, NodeDone, RemovalStep,
         CloseOverlay, OverlayClosed, vars
  <2> QED  BY <2>1
<1> QED  BY <1>1, <1>2

LEMMA LocalInvInit == Init => LocalInv
  BY DEF Init, LocalInv, Present, MessagePlaces, Idle, In

LEMMA LocalInvStep == TypeInv /\ LocalInv /\ [Next]_vars => LocalInv'
<1> SUFFICES ASSUME TypeInv, LocalInv, [Next]_vars, NEW m \in Msgs, Present(m)', Dest[m] \in Local
             PROVE  creating'[Dest[m]] = "over"
  BY DEF LocalInv
<1>1. creating[Dest[m]] = "over"
  BY PresentFrom DEF LocalInv
<1> QED  BY <1>1, OverStays

LEMMA StartInit == Init => StartInv
  BY OverlayAssumption
     DEF Init, StartInv, StartedOnce, StartedKnown, FirstStart, Entered, RunningEntered,
         LocalStart, Idle

\* Steps that neither start nor end an instance nor bring a worker to do so.
LEMMA StartQuiet ==
    ASSUME StartInv, UNCHANGED <<instanceVars, creating>>,
           \A w \in Workers : \/ work'[w] = work[w]
                              \/ work'[w].at \notin {"insert", "bind"}
    PROVE  StartInv'
  BY DEF StartInv, StartedOnce, StartedKnown, FirstStart, Entered, RunningEntered,
         LocalStart, instanceVars, TokenOf, Held

LEMMA StartQuietMoves ==
    ASSUME StartInv, UNCHANGED <<instanceVars, creating>>,
           NEW w \in Workers, NEW p, NEW x, Moves(w, p, x), p \notin {"insert", "bind"}
    PROVE  StartInv'
  BY StartQuiet DEF Moves

\* An instance is deleted, or all are.
LEMMA StartDeletes ==
    ASSUME TypeInv, StartInv, NEW gone, gone \subseteq instances,
           instances' = instances \ gone, protocolInstances' = protocolInstances \ gone,
           instancesInfo' = instancesInfo \cup gone, UNCHANGED <<started, creating>>,
           \A w \in Workers : work'[w] = work[w] \/ work'[w].at \notin {"insert", "bind"}
    PROVE  StartInv'
  BY DEF StartInv, StartedOnce, StartedKnown, FirstStart, Entered, RunningEntered,
         LocalStart, TokenOf, Held

LEMMA StartNodeDelete ==
    ASSUME TypeInv, StartInv, NEW t \in Tokens, NodeDelete(t), UNCHANGED <<started, creating>>,
           \A w \in Workers : work'[w] = work[w] \/ work'[w].at \notin {"insert", "bind"}
    PROVE  StartInv'
<1>1. CASE t \in instances
  BY <1>1, StartDeletes DEF NodeDelete
<1>2. CASE t \notin instances
  BY <1>2, StartQuiet DEF NodeDelete, instanceVars
<1> QED  BY <1>1, <1>2

LEMMA StartLookup ==
    ASSUME TypeInv, StartInv, NEW w \in Workers, Lookup(w)
    PROVE  StartInv'
<1>1. UNCHANGED <<instanceVars, creating>> /\ TokenOf(w) \in Tokens
  BY WorkerTyped DEF Lookup, MessagePlaces
<1>2. CASE \E p, x : Moves(w, p, x) /\ p \notin {"insert", "bind"}
  BY <1>1, <1>2, StartQuietMoves
<1>3. CASE /\ TokenOf(w) \notin instancesInfo /\ TokenOf(w) \notin protocolInstances
           /\ Moves(w, "insert", Held(w))
  <2>1. started[TokenOf(w)] = 0
    BY <1>1, <1>3 DEF StartInv, StartedKnown
  <2> QED  BY <1>1, <1>3, <2>1
           DEF StartInv, StartedOnce, StartedKnown, FirstStart, Entered, RunningEntered,
               LocalStart, instanceVars, Moves, TokenOf, Held
<1> QED  BY <1>2, <1>3, LookupMoves

LEMMA StartInsert ==
    ASSUME TypeInv, StartInv, NEW w \in Workers, InsertInstance(w)
    PROVE  StartInv'
<1>1. /\ instances' = instances \cup {TokenOf(w)}
      /\ UNCHANGED <<protocolInstances, instancesInfo, started, creating>>
  BY DEF InsertInstance
<1>2. Moves(w, "bind", Held(w)) /\ work[w].at = "insert"
  BY InsertMoves
<1> QED  BY <1>1, <1>2
         DEF StartInv, StartedOnce, StartedKnown, FirstStart, Entered, RunningEntered,
             LocalStart, Moves, TokenOf, Held

\* The first worker of a token starts its protocol.
LEMMA StartBind ==
    ASSUME TypeInv, MuxInv, LocalInv, StartInv, NEW w \in Workers, BindInstance(w)
    PROVE  StartInv'
<1> DEFINE t == TokenOf(w)
<1>1. /\ work[w].at = "bind" /\ started' = [started EXCEPT ![t] = @ + 1]
      /\ UNCHANGED <<instances, instancesInfo, creating>>
      /\ \/ t \in instances /\ protocolInstances' = protocolInstances \cup {t}
         \/ t \notin instances /\ UNCHANGED protocolInstances
  BY DEF BindInstance
<1>2. t \in Tokens /\ Held(w) \in Msgs
  BY <1>1, WorkerTyped DEF MessagePlaces
<1>3. started[t] = 0 /\ t \in instances \cup instancesInfo
  BY <1>1 DEF StartInv, FirstStart, Entered
<1>4. \A u \in Tokens : started'[u] = IF u = t THEN 1 ELSE started[u]
  BY <1>1, <1>2, <1>3 DEF TypeInv, TypeOK
<1>5. \A v \in Workers : v # w => work'[v] = work[v] /\ work[v].at \notin {"insert", "bind"}
  BY <1>1, BindMoves DEF MuxInv, HoldsTransmitMux, Moves
<1>6. work'[w].at \notin {"insert", "bind"}
  BY BindMoves DEF Moves
<1>7. t \in Local => creating[t] = "over"
  <2>1. Present(Held(w))
    BY <1>1 DEF Present, MessagePlaces
  <2> QED  BY <1>2, <2>1 DEF LocalInv, TokenOf
<1> HIDE DEF t
<1>8. \A u \in Local : u \in Tokens
  BY OverlayAssumption
<1>9. StartedOnce' /\ StartedKnown' /\ RunningEntered'
  BY <1>1, <1>3, <1>4 DEF StartInv, StartedOnce, StartedKnown, RunningEntered
<1>10. FirstStart' /\ Entered'
  BY <1>5, <1>6 DEF FirstStart, Entered
<1>11. LocalStart'
  BY <1>1, <1>4, <1>7, <1>8 DEF StartInv, LocalStart
<1> QED  BY <1>9, <1>10, <1>11 DEF StartInv

\* CreateProtocol.
LEMMA StartCreate ==
    ASSUME TypeInv, LocalInv, StartInv, NEW t \in Local,
           CreateInstance(t) \/ CreateRegister(t) \/ CreateBind(t)
    PROVE  StartInv'
<1>1. UNCHANGED work /\ t \in Tokens /\ UNCHANGED instancesInfo
  BY OverlayAssumption
     DEF CreateInstance, CreateRegister, CreateBind, workerVars, instanceVars
<1>2. CASE CreateInstance(t)
  <2>1. /\ \A u \in Local : creating'[u] = IF u = t THEN "inserted" ELSE creating[u]
        /\ creating[t] = "no" /\ instances' = instances \cup {t}
        /\ UNCHANGED <<protocolInstances, started>>
    BY <1>2 DEF CreateInstance, TypeInv, TypeOK
  <2> QED  BY <1>1, <2>1
           DEF StartInv, StartedOnce, StartedKnown, FirstStart, Entered, RunningEntered,
               LocalStart, TokenOf, Held
<1>3. CASE CreateRegister(t)
  <2>1. /\ \A u \in Local : creating'[u] = IF u = t THEN "set" ELSE creating[u]
        /\ creating[t] = "inserted" /\ UNCHANGED instanceVars
    BY <1>3 DEF CreateRegister, TypeInv, TypeOK
  <2> QED  BY <1>1, <2>1
           DEF StartInv, StartedOnce, StartedKnown, FirstStart, Entered, RunningEntered,
               LocalStart, TokenOf, Held, instanceVars
<1>4. CASE CreateBind(t)
  <2>1. /\ \A u \in Local : creating'[u] = IF u = t THEN "over" ELSE creating[u]
        /\ creating[t] = "set" /\ UNCHANGED instances
        /\ started' = [started EXCEPT ![t] = @ + 1]
        /\ \/ t \in instances /\ protocolInstances' = protocolInstances \cup {t}
           \/ t \notin instances /\ UNCHANGED protocolInstances
    BY <1>4 DEF CreateBind, TypeInv, TypeOK
  <2>2. started[t] = 0 /\ t \in instances \cup instancesInfo
    BY <2>1 DEF StartInv, LocalStart
  <2>3. \A u \in Tokens : started'[u] = IF u = t THEN 1 ELSE started[u]
    BY <1>1, <2>1, <2>2 DEF TypeInv, TypeOK
  <2>4. \A w \in Workers : work[w].at \in {"insert", "bind"} => TokenOf(w) # t
    <3> SUFFICES ASSUME NEW w \in Workers, work[w].at \in {"insert", "bind"}, TokenOf(w) = t
                 PROVE  FALSE
      OBVIOUS
    <3>1. Held(w) \in Msgs /\ Present(Held(w))
      BY WorkerTyped DEF Present, MessagePlaces
    <3> QED  BY <2>1, <3>1 DEF LocalInv, TokenOf
  <2>5. StartedOnce' /\ StartedKnown' /\ RunningEntered'
    BY <1>1, <2>1, <2>2, <2>3 DEF StartInv, StartedOnce, StartedKnown, RunningEntered
  <2>6. FirstStart'
    <3>1. \A w \in Workers : work[w].at \in {"insert", "bind"} => TokenOf(w) \in Tokens
      BY WorkerTyped DEF MessagePlaces
    <3> QED  BY <1>1, <2>3, <2>4, <3>1 DEF StartInv, FirstStart, TokenOf, Held
  <2>7. Entered'
    BY <1>1, <2>1 DEF StartInv, Entered, TokenOf, Held
  <2>8. LocalStart'
    BY <1>1, <2>1, <2>3, OverlayAssumption DEF StartInv, LocalStart
  <2> QED  BY <2>5, <2>6, <2>7, <2>8 DEF StartInv
<1> QED  BY <1>2, <1>3, <1>4

LEMMA StartStep == TypeInv /\ MuxInv /\ LocalInv /\ StartInv /\ [Next]_vars => StartInv'
<1> SUFFICES ASSUME TypeInv, MuxInv, LocalInv, StartInv, [Next]_vars PROVE StartInv'
  OBVIOUS
<1>1. ASSUME NEW w \in Workers, Transmission(w) PROVE StartInv'
  <2>1. CASE Lookup(w)
    BY <2>1, StartLookup
  <2>2. CASE InsertInstance(w)
    BY <2>2, StartInsert
  <2>3. CASE BindInstance(w)
    BY <2>3, StartBind
  <2>4. CASE NewProtocolFails(w)
    <3>1. NodeDelete(TokenOf(w)) /\ UNCHANGED <<started, creating>> /\ TokenOf(w) \in Tokens
      BY <2>4, WorkerTyped DEF NewProtocolFails, MessagePlaces
    <3>2. \A v \in Workers : work'[v] = work[v] \/ work'[v].at \notin {"insert", "bind"}
      BY <2>4, FailMoves DEF Moves
    <3> QED  BY <3>1, <3>2, StartNodeDelete
  <2>5. CASE \/ SavePendingMsg(w) \/ TestRegistered(w) \/ RegisterUnknown(w)
             \/ SendRequest(w) \/ SendRequestFails(w) \/ NewProtocolNil(w) \/ Enqueue(w)
    <3>1. UNCHANGED <<instanceVars, creating>>
      BY <2>5 DEF SavePendingMsg, TestRegistered, RegisterUnknown, SendRequest,
                  SendRequestFails, NewProtocolNil, Enqueue
    <3>2. \E p, x : Moves(w, p, x) /\ p \notin {"insert", "bind"}
      BY <2>5, SaveMoves, TestMoves, RegisterMoves, RequestMoves, FailMoves, EnqueueMoves
    <3> QED  BY <3>1, <3>2, StartQuietMoves
  <2> QED  BY <1>1, <2>1, <2>2, <2>3, <2>4, <2>5 DEF Transmission
<1>2. ASSUME NEW c \in Conns,
             \/ Receive(c) \/ HandleSendTree(c) \/ HandleSendTreeMarshal(c) \/ RegisterTree(c)
      PROVE  StartInv'
  <2>1. UNCHANGED <<instanceVars, creating>>
    BY <1>2 DEF Receive, HandleSendTree, HandleSendTreeMarshal, RegisterTree
  <2>2. UNCHANGED work \/ \E p, x : Moves(c, p, x) /\ p \notin {"insert", "bind"}
    BY <1>2, ReceiveMoves, SendTreeMoves, RegisterTreeMoves
  <2> QED  BY <2>1, <2>2, StartQuietMoves, StartQuiet, ConnsWork
<1>3. ASSUME NEW r \in Retransmitters, Retransmit(r) PROVE StartInv'
  <2>1. UNCHANGED <<instanceVars, creating>>
    BY <1>3 DEF Retransmit
  <2> QED  BY <1>3, <2>1, RetransmitMoves, StartQuietMoves, ConnsWork
<1>4. CASE Elsewhere
  <2>1. UNCHANGED work
    BY <1>4, ElsewhereStays
  <2>2. ASSUME NEW t \in Local, CreateInstance(t) \/ CreateRegister(t) \/ CreateBind(t)
        PROVE  StartInv'
    BY <2>2, StartCreate
  <2>3. ASSUME NEW t \in Tokens, NodeDone(t) PROVE StartInv'
    BY <2>1, <2>3, StartNodeDelete DEF NodeDone
  <2>4. CASE CloseOverlay
    <3>1. /\ instances' = instances \ instances
          /\ protocolInstances' = protocolInstances \ instances
          /\ instancesInfo' = instancesInfo \cup instances /\ UNCHANGED <<started, creating>>
      BY <2>4 DEF CloseOverlay, StartInv, RunningEntered
    <3> QED  BY <2>1, <3>1, StartDeletes
  <2>5. CASE \/ \E c \in Conns : \/ PeerLacksTree(c) \/ HandleSendRoster(c)
                                 \/ HandleConfigMessage(c)
             \/ \E r \in Retransmitters : CheckPendingMessages(r)
             \/ RemovalStep \/ OverlayClosed \/ UNCHANGED vars
    <3>1. UNCHANGED <<instanceVars, creating>>
      BY <2>5 DEF PeerLacksTree, HandleSendRoster, HandleConfigMessage,
                  CheckPendingMessages, RemovalStep, OverlayClosed, vars
    <3> QED  BY <2>1, <3>1, StartQuiet
  <2> QED  BY <1>4, <2>2, <2>3, <2>4, <2>5 DEF Elsewhere
<1> QED  BY <1>1, <1>2, <1>3, <1>4, StepKinds

\* A token gets at most one protocol instance, whatever the number of workers
\* that transmit its messages, of its messages, and of the times that the
\* instance is done, deleted or closed in between (overlay.go:148-221,
\* 605-666): transmitMux makes the look-up and the start one, and
\* instancesInfo remembers what is over.
THEOREM OneProtocol == Spec => []OneProtocolPerToken
<1>1. Init => TypeInv /\ MuxInv /\ LocalInv /\ StartInv
  BY TypeInit, MuxInit, LocalInvInit, StartInit
<1>2. /\ TypeInv /\ MuxInv /\ LocalInv /\ StartInv /\ [Next]_vars
      => (TypeInv /\ MuxInv /\ LocalInv /\ StartInv)'
  BY TypeStep, MuxStep, LocalInvStep, StartStep
<1>3. StartInv => OneProtocolPerToken
  BY DEF StartInv, StartedOnce, OneProtocolPerToken
<1> QED  BY <1>1, <1>2, <1>3, PTL DEF Spec

-----------------------------------------------------------------------------
(* No message is lost or delivered twice.                                  *)

\* Where a message can be, besides on its way (ToCome) and given up (dropped).
WithWorker(m) == \E w \in Workers : work[w].at \in InHand /\ Held(w) = m
ToTransmit(m) == \E r \in Retransmitters : In(m, todo[r])
WaitsNow(m) == In(m, pendingMsg)
Taken(m) == \E t \in Tokens : In(m, delivered[t])

\* It is in one of these places.
OnlyPlace(m) ==
    \/ /\ ToCome(m)
       /\ ~WithWorker(m) /\ ~ToTransmit(m) /\ ~WaitsNow(m) /\ ~Taken(m) /\ m \notin dropped
    \/ /\ WithWorker(m)
       /\ ~ToCome(m) /\ ~ToTransmit(m) /\ ~WaitsNow(m) /\ ~Taken(m) /\ m \notin dropped
    \/ /\ ToTransmit(m)
       /\ ~ToCome(m) /\ ~WithWorker(m) /\ ~WaitsNow(m) /\ ~Taken(m) /\ m \notin dropped
    \/ /\ WaitsNow(m)
       /\ ~ToCome(m) /\ ~WithWorker(m) /\ ~ToTransmit(m) /\ ~Taken(m) /\ m \notin dropped
    \/ /\ Taken(m)
       /\ ~ToCome(m) /\ ~WithWorker(m) /\ ~ToTransmit(m) /\ ~WaitsNow(m) /\ m \notin dropped
    \/ /\ m \in dropped
       /\ ~ToCome(m) /\ ~WithWorker(m) /\ ~ToTransmit(m) /\ ~WaitsNow(m) /\ ~Taken(m)
PlaceInv == \A m \in Msgs : OnlyPlace(m)

\* It is there once.
HandOnce ==
    \A v, w \in Workers :
        work[v].at \in InHand /\ work[w].at \in InHand /\ Held(v) = Held(w) => v = w
TodoOnce ==
    /\ \A r \in Retransmitters : NoneTwiceIn(todo[r])
    /\ \A r, s \in Retransmitters : \A m \in Msgs : In(m, todo[r]) /\ In(m, todo[s]) => r = s
WaitOnce == NoneTwiceIn(pendingMsg)
TakenOnce ==
    \A t \in Tokens : /\ NoneTwiceIn(delivered[t])
                      /\ \A m \in Msgs : In(m, delivered[t]) => Dest[m] = t
OnceInv == HandOnce /\ TodoOnce /\ WaitOnce /\ TakenOnce

\* A worker keeps its message, lets it go, has none, or gets one.
LEMMA HandKept ==
    ASSUME HandOnce, NEW w \in Workers, NEW p \in InHand, Moves(w, p, Held(w)), work[w].at \in InHand
    PROVE  HandOnce' /\ \A m \in Msgs : WithWorker(m)' <=> WithWorker(m)
<1>1. \A v \in Workers : /\ work'[v].at \in InHand <=> work[v].at \in InHand
                         /\ work'[v].what = work[v].what
  BY DEF Moves, Held
<1> QED  BY <1>1 DEF HandOnce, WithWorker, Held

LEMMA HandLost ==
    ASSUME HandOnce, NEW w \in Workers, NEW p, NEW x, p \notin InHand, Moves(w, p, x),
           work[w].at \in InHand
    PROVE  HandOnce' /\ \A m \in Msgs : WithWorker(m)' <=> WithWorker(m) /\ m # Held(w)
<1>1. /\ work'[w].at \notin InHand
      /\ \A v \in Workers : v # w => work'[v] = work[v]
  BY DEF Moves
<1> QED  BY <1>1 DEF HandOnce, WithWorker, Held

LEMMA HandNone ==
    ASSUME HandOnce, NEW w \in Workers, NEW p, NEW x, p \notin InHand, Moves(w, p, x),
           work[w].at \notin InHand
    PROVE  HandOnce' /\ \A m \in Msgs : WithWorker(m)' <=> WithWorker(m)
<1>1. /\ work'[w].at \notin InHand
      /\ \A v \in Workers : v # w => work'[v] = work[v]
  BY DEF Moves
<1> QED  BY <1>1 DEF HandOnce, WithWorker, Held

LEMMA HandGot ==
    ASSUME HandOnce, NEW w \in Workers, NEW p \in InHand, NEW x \in Msgs, Moves(w, p, x),
           work[w].at \notin InHand, ~WithWorker(x)
    PROVE  HandOnce' /\ \A m \in Msgs : WithWorker(m)' <=> WithWorker(m) \/ m = x
<1>1. /\ work'[w].at \in InHand /\ work'[w].what = x
      /\ \A v \in Workers : v # w => work'[v] = work[v]
  BY DEF Moves
<1> QED  BY <1>1 DEF HandOnce, WithWorker, Held

LEMMA HandStays ==
    ASSUME HandOnce, UNCHANGED work
    PROVE  HandOnce' /\ \A m \in Msgs : WithWorker(m)' <=> WithWorker(m)
  BY DEF HandOnce, WithWorker, Held

LEMMA ListsOnce ==
    ASSUME UNCHANGED <<todo, pendingMsg>>
    PROVE  /\ TodoOnce /\ WaitOnce => TodoOnce' /\ WaitOnce'
           /\ \A m : (ToTransmit(m)' <=> ToTransmit(m)) /\ (WaitsNow(m)' <=> WaitsNow(m))
  BY DEF TodoOnce, WaitOnce, ToTransmit, WaitsNow

LEMMA TakenStays ==
    ASSUME UNCHANGED delivered
    PROVE  /\ TakenOnce => TakenOnce'
           /\ \A m : Taken(m)' <=> Taken(m)
  BY DEF TakenOnce, Taken

LEMMA PacketsDiffer ==
    ASSUME NEW m, NEW n
    PROVE  /\ Packet("message", m) # Packet("config", n)
           /\ Packet("message", m) = Packet("message", n) => m = n
<1>1. Packet("message", m).kind = "message" /\ Packet("config", n).kind = "config"
  BY DEF Packet
<1>2. Packet("message", m).msg = m /\ Packet("message", n).msg = n
  BY DEF Packet
<1> QED  BY <1>1, <1>2

LEMMA PlaceInit == Init => PlaceInv /\ OnceInv
<1> SUFFICES ASSUME Init PROVE PlaceInv /\ OnceInv
  OBVIOUS
<1>1. \A m \in Msgs : ToCome(m)
  BY DEF Init, ToCome, PacketsSent, Packets, Packet
<1>2. \A w \in Workers : work[w].at \notin InHand
  BY DEF Init, Idle, InHand
<1>3. \A x : ~In(x, <<>>)
  BY DEF In
<1>4. NoneTwiceIn(<<>>)
  BY DEF NoneTwiceIn
<1>5. /\ \A r \in Retransmitters : todo[r] = <<>>
      /\ \A t \in Tokens : delivered[t] = <<>>
      /\ pendingMsg = <<>> /\ dropped = {}
  BY DEF Init
<1>6. \A m \in Msgs : ~WithWorker(m) /\ ~ToTransmit(m) /\ ~WaitsNow(m) /\ ~Taken(m)
  BY <1>2, <1>3, <1>5 DEF WithWorker, ToTransmit, WaitsNow, Taken
<1>7. PlaceInv
  BY <1>1, <1>5, <1>6 DEF PlaceInv, OnlyPlace
<1>8. HandOnce
  BY <1>2 DEF HandOnce
<1>9. TodoOnce /\ WaitOnce /\ TakenOnce
  BY <1>3, <1>4, <1>5 DEF TodoOnce, WaitOnce, TakenOnce
<1> QED  BY <1>7, <1>8, <1>9 DEF OnceInv

\* No message changes its place.
LEMMA PlaceStays ==
    ASSUME PlaceInv, OnceInv, UNCHANGED <<todo, pendingMsg, delivered, dropped>>,
           HandOnce' /\ \A m \in Msgs : WithWorker(m)' <=> WithWorker(m),
           \A m \in Msgs : ToCome(m)' <=> ToCome(m)
    PROVE  PlaceInv' /\ OnceInv'
  BY ListsOnce, TakenStays DEF PlaceInv, OnlyPlace, OnceInv

LEMMA SameToCome ==
    ASSUME UNCHANGED toCome
    PROVE  \A m : ToCome(m)' <=> ToCome(m)
  BY DEF ToCome

\* A worker gives its message up.
LEMMA PlaceDrops ==
    ASSUME PlaceInv, OnceInv, UNCHANGED <<toCome, todo, pendingMsg, delivered>>,
           NEW w \in Workers, Moves(w, "idle", "nothing"), work[w].at \in InHand,
           Held(w) \in Msgs, dropped' = dropped \cup {Held(w)}
    PROVE  PlaceInv' /\ OnceInv'
<1>1. WithWorker(Held(w))
  BY DEF WithWorker
<1>2. HandOnce' /\ \A m \in Msgs : WithWorker(m)' <=> WithWorker(m) /\ m # Held(w)
  BY HandLost DEF OnceInv, InHand
<1>3. \A m : ToCome(m)' <=> ToCome(m)
  BY SameToCome
<1> QED  BY <1>1, <1>2, <1>3, ListsOnce, TakenStays DEF PlaceInv, OnlyPlace, OnceInv

LEMMA PlaceKeeps ==
    ASSUME PlaceInv, OnceInv, UNCHANGED <<toCome, todo, pendingMsg, delivered, dropped>>,
           NEW w \in Workers, NEW p \in InHand, Moves(w, p, Held(w)), work[w].at \in InHand
    PROVE  PlaceInv' /\ OnceInv'
  BY HandKept, SameToCome, PlaceStays DEF OnceInv

LEMMA PlaceIdles ==
    ASSUME PlaceInv, OnceInv, UNCHANGED <<toCome, todo, pendingMsg, delivered, dropped>>,
           NEW w \in Workers, NEW p, NEW x, p \notin InHand, Moves(w, p, x), work[w].at \notin InHand
    PROVE  PlaceInv' /\ OnceInv'
  BY HandNone, SameToCome, PlaceStays DEF OnceInv

LEMMA PlaceSave ==
    ASSUME TypeInv, PlaceInv, OnceInv, NEW w \in Workers, SavePendingMsg(w)
    PROVE  PlaceInv' /\ OnceInv'
<1>1. /\ Held(w) \in Msgs /\ UNCHANGED todo
      /\ \A x : In(x, pendingMsg') <=> In(x, pendingMsg) \/ x = Held(w)
      /\ NoneTwiceIn(pendingMsg) /\ ~In(Held(w), pendingMsg) => NoneTwiceIn(pendingMsg')
  BY SaveLists
<1>2. Moves(w, "known", Held(w)) /\ work[w].at \in InHand /\ "known" \notin InHand
  BY SaveMoves DEF InHand
<1>3. UNCHANGED <<toCome, delivered, dropped>>
  BY DEF SavePendingMsg, messageVars
<1>4. WithWorker(Held(w)) /\ ~WaitsNow(Held(w))
  <2>1. WithWorker(Held(w))
    BY <1>2 DEF WithWorker
  <2> QED  BY <1>1, <2>1 DEF PlaceInv, OnlyPlace
<1>5. HandOnce' /\ \A m \in Msgs : WithWorker(m)' <=> WithWorker(m) /\ m # Held(w)
  BY <1>2, HandLost DEF OnceInv
<1>6. \A m : WaitsNow(m)' <=> WaitsNow(m) \/ m = Held(w)
  BY <1>1 DEF WaitsNow
<1>7. WaitOnce'
  BY <1>1, <1>4 DEF WaitOnce, OnceInv, WaitsNow
<1>8. TodoOnce' /\ \A m : ToTransmit(m)' <=> ToTransmit(m)
  BY <1>1 DEF TodoOnce, ToTransmit, OnceInv
<1>9. \A m : ToCome(m)' <=> ToCome(m)
  BY <1>3, SameToCome
<1> QED  BY <1>1, <1>3, <1>4, <1>5, <1>6, <1>7, <1>8, <1>9, TakenStays
         DEF PlaceInv, OnlyPlace, OnceInv

LEMMA PlaceLookup ==
    ASSUME TypeInv, PlaceInv, OnceInv, NEW w \in Workers, Lookup(w)
    PROVE  PlaceInv' /\ OnceInv'
<1>1. UNCHANGED <<toCome, todo, pendingMsg, delivered>> /\ work[w].at \in InHand
  BY DEF Lookup, InHand
<1>2. Held(w) \in Msgs
  BY WorkerTyped DEF Lookup, MessagePlaces
<1>3. CASE IsDone(TokenOf(w))
  <2>1. dropped' = dropped \cup {Held(w)} /\ Moves(w, "idle", "nothing")
    BY <1>3, FinishMoves DEF Lookup, Drop
  <2> QED  BY <1>1, <1>2, <2>1, PlaceDrops
<1>4. CASE ~IsDone(TokenOf(w))
  <2>1. PICK p \in InHand : UNCHANGED dropped /\ Moves(w, p, Held(w))
    BY <1>4, GotoMoves DEF Lookup, InHand
  <2> QED  BY <1>1, <2>1, PlaceKeeps
<1> QED  BY <1>3, <1>4

LEMMA PlaceBind ==
    ASSUME TypeInv, PlaceInv, OnceInv, NEW w \in Workers, BindInstance(w)
    PROVE  PlaceInv' /\ OnceInv'
<1>1. UNCHANGED <<toCome, todo, pendingMsg, delivered>> /\ work[w].at \in InHand
  BY DEF BindInstance, InHand
<1>2. Held(w) \in Msgs
  BY WorkerTyped DEF BindInstance, MessagePlaces
<1>3. CASE TokenOf(w) \notin instances
  <2>1. dropped' = dropped \cup {Held(w)} /\ Moves(w, "idle", "nothing")
    BY <1>3, FinishMoves DEF BindInstance, Drop
  <2> QED  BY <1>1, <1>2, <2>1, PlaceDrops
<1>4. CASE TokenOf(w) \in instances
  <2>1. UNCHANGED dropped /\ Moves(w, "enqueue", Held(w)) /\ "enqueue" \in InHand
    BY <1>4, GotoMoves DEF BindInstance, InHand
  <2> QED  BY <1>1, <2>1, PlaceKeeps
<1> QED  BY <1>3, <1>4

LEMMA PlaceFail ==
    ASSUME TypeInv, PlaceInv, OnceInv, NEW w \in Workers, NewProtocolFails(w) \/ NewProtocolNil(w)
    PROVE  PlaceInv' /\ OnceInv'
<1>1. /\ UNCHANGED <<toCome, todo, pendingMsg, delivered>> /\ work[w].at \in InHand
      /\ dropped' = dropped \cup {Held(w)}
  BY DEF NewProtocolFails, NewProtocolNil, InHand, Drop
<1>2. Held(w) \in Msgs /\ Moves(w, "idle", "nothing")
  BY WorkerTyped, FailMoves DEF MessagePlaces
<1> QED  BY <1>1, <1>2, PlaceDrops

LEMMA PlaceEnqueue ==
    ASSUME TypeInv, PlaceInv, OnceInv, NEW w \in Workers, Enqueue(w)
    PROVE  PlaceInv' /\ OnceInv'
<1> DEFINE t == TokenOf(w)
<1>1. UNCHANGED <<toCome, todo, pendingMsg>> /\ work[w].at \in InHand
  BY DEF Enqueue, InHand
<1>2. Held(w) \in Msgs /\ Moves(w, "idle", "nothing") /\ t \in Tokens /\ t = Dest[Held(w)]
  BY WorkerTyped, EnqueueMoves DEF MessagePlaces, TokenOf
<1>3. CASE t \notin instances
  <2>1. dropped' = dropped \cup {Held(w)} /\ UNCHANGED delivered
    BY <1>3 DEF Enqueue, Drop
  <2> QED  BY <1>1, <1>2, <2>1, PlaceDrops
<1>4. CASE t \in instances
  <2>1. UNCHANGED dropped /\ delivered' = [delivered EXCEPT ![t] = Append(delivered[t], Held(w))]
    BY <1>4 DEF Enqueue
  <2> HIDE DEF t
  <2>2. WithWorker(Held(w)) /\ ~Taken(Held(w))
    <3>1. WithWorker(Held(w))
      BY <1>1 DEF WithWorker
    <3> QED  BY <1>2, <3>1 DEF PlaceInv, OnlyPlace
  <2>3. HandOnce' /\ \A m \in Msgs : WithWorker(m)' <=> WithWorker(m) /\ m # Held(w)
    BY <1>1, <1>2, HandLost DEF OnceInv, InHand
  <2>4. delivered[t] \in Seq(Msgs) /\ delivered \in [Tokens -> Seq(Msgs)]
    BY <1>2 DEF TypeInv, TypeOK
  <2>5. /\ delivered'[t] = Append(delivered[t], Held(w))
        /\ \A u \in Tokens : u # t => delivered'[u] = delivered[u]
    BY <1>2, <2>1, <2>4
  <2>6. /\ \A x : In(x, delivered'[t]) <=> In(x, delivered[t]) \/ x = Held(w)
        /\ NoneTwiceIn(delivered[t]) /\ ~In(Held(w), delivered[t]) => NoneTwiceIn(delivered'[t])
    BY <1>2, <2>4, <2>5, AppendMembers
  <2>7. TakenOnce'
    BY <1>2, <2>2, <2>5, <2>6 DEF TakenOnce, OnceInv, Taken
  <2>8. \A m \in Msgs : Taken(m)' <=> Taken(m) \/ m = Held(w)
    BY <1>2, <2>5, <2>6 DEF Taken
  <2>9. \A m : ToCome(m)' <=> ToCome(m)
    BY <1>1, SameToCome
  <2> QED  BY <1>1, <1>2, <2>1, <2>2, <2>3, <2>7, <2>8, <2>9, ListsOnce
           DEF PlaceInv, OnlyPlace, OnceInv
<1> QED  BY <1>3, <1>4

LEMMA PlaceReceive ==
    ASSUME TypeInv, PlaceInv, OnceInv, NEW c \in Conns, Receive(c)
    PROVE  PlaceInv' /\ OnceInv'
<1>1. PICK n \in Msgs : Arrives(c, "message", n) /\ \E p \in InHand : Moves(c, p, n)
  BY ReceiveMoves DEF InHand
<1>2. /\ work[c].at \notin InHand /\ ToCome(n) /\ toCome' = toCome \ {Packet("message", n)}
      /\ UNCHANGED <<todo, pendingMsg, delivered, dropped>>
  BY <1>1 DEF Arrives, InHand, ToCome, Receive
<1>3. HandOnce' /\ \A m \in Msgs : WithWorker(m)' <=> WithWorker(m) \/ m = n
  BY <1>1, <1>2, ConnsWork, HandGot DEF PlaceInv, OnlyPlace, OnceInv
<1>4. \A m \in Msgs : ToCome(m)' <=> ToCome(m) /\ m # n
  BY <1>2, PacketsDiffer DEF ToCome
<1> QED  BY <1>2, <1>3, <1>4, ListsOnce, TakenStays DEF PlaceInv, OnlyPlace, OnceInv

LEMMA PlaceConfig ==
    ASSUME TypeInv, PlaceInv, OnceInv, NEW c \in Conns, HandleConfigMessage(c)
    PROVE  PlaceInv' /\ OnceInv'
<1>1. PICK n \in Msgs : toCome' = toCome \ {Packet("config", n)}
  BY DEF HandleConfigMessage, Arrives
<1>2. UNCHANGED <<work, todo, pendingMsg, delivered, dropped>>
  BY DEF HandleConfigMessage, workerVars
<1>3. \A m \in Msgs : ToCome(m)' <=> ToCome(m)
  BY <1>1, PacketsDiffer DEF ToCome
<1> QED  BY <1>2, <1>3, HandStays, PlaceStays DEF OnceInv

LEMMA PlaceCheck ==
    ASSUME TypeInv, PlaceInv, OnceInv, NEW r \in Retransmitters, CheckPendingMessages(r)
    PROVE  PlaceInv' /\ OnceInv'
<1>1. /\ todo[r] = <<>> /\ UNCHANGED work
      /\ \A s \in Retransmitters : s # r => todo'[s] = todo[s]
      /\ NoneTwiceIn(pendingMsg) => NoneTwiceIn(pendingMsg') /\ NoneTwiceIn(todo'[r])
  BY CheckLists
<1>2. PICK id \in TreeIDs :
        /\ \A x \in Msgs : In(x, todo'[r]) <=> In(x, pendingMsg) /\ TreeFor(x) = id
        /\ \A x \in Msgs : In(x, pendingMsg') <=> In(x, pendingMsg) /\ TreeFor(x) # id
  BY CheckLists
<1>3. UNCHANGED <<toCome, delivered, dropped>>
  BY DEF CheckPendingMessages, messageVars
<1>4. HandOnce' /\ \A m \in Msgs : WithWorker(m)' <=> WithWorker(m)
  BY <1>1, HandStays DEF OnceInv
<1>5. \A x : ~In(x, todo[r])
  BY <1>1 DEF In
<1>6. \A m \in Msgs : /\ ToTransmit(m)' <=> ToTransmit(m) \/ (WaitsNow(m) /\ TreeFor(m) = id)
                      /\ WaitsNow(m)' <=> WaitsNow(m) /\ TreeFor(m) # id
  BY <1>1, <1>2, <1>5 DEF ToTransmit, WaitsNow
<1>7. \A m \in Msgs : WaitsNow(m) => ~ToTransmit(m)
  BY DEF PlaceInv, OnlyPlace
<1>8. TodoOnce' /\ WaitOnce'
  BY <1>1, <1>2, <1>7 DEF TodoOnce, WaitOnce, OnceInv, ToTransmit, WaitsNow
<1>9. \A m : ToCome(m)' <=> ToCome(m)
  BY <1>3, SameToCome
<1> QED  BY <1>3, <1>4, <1>6, <1>8, <1>9, TakenStays DEF PlaceInv, OnlyPlace, OnceInv

LEMMA PlaceRetransmit ==
    ASSUME TypeInv, PlaceInv, OnceInv, NEW r \in Retransmitters, Retransmit(r)
    PROVE  PlaceInv' /\ OnceInv'
<1>1. PICK n \in Msgs : /\ n = Head(todo[r]) /\ work[r].at = "idle"
                        /\ \E p \in InHand : Moves(r, p, n)
  BY RetransmitMoves DEF InHand
<1>2. /\ UNCHANGED pendingMsg
      /\ \A s \in Retransmitters : s # r => todo'[s] = todo[s]
      /\ \A x : In(x, todo[r]) <=> x = n \/ In(x, todo'[r])
      /\ NoneTwiceIn(todo[r]) => NoneTwiceIn(todo'[r]) /\ ~In(n, todo'[r])
  BY <1>1, RetransmitLists
<1>3. UNCHANGED <<toCome, delivered, dropped>>
  BY DEF Retransmit, messageVars
<1>4. ToTransmit(n)
  BY <1>2 DEF ToTransmit
<1>5. HandOnce' /\ \A m \in Msgs : WithWorker(m)' <=> WithWorker(m) \/ m = n
  BY <1>1, <1>4, ConnsWork, HandGot DEF PlaceInv, OnlyPlace, OnceInv, InHand
<1>6. TodoOnce' /\ WaitOnce'
  BY <1>2 DEF TodoOnce, WaitOnce, OnceInv
<1>7. \A m \in Msgs : ToTransmit(m)' <=> ToTransmit(m) /\ m # n
  <2>1. ~In(n, todo'[r]) /\ \A s \in Retransmitters : s # r => ~In(n, todo'[s])
    BY <1>2 DEF TodoOnce, OnceInv
  <2> QED  BY <1>2, <2>1 DEF ToTransmit
<1>8. \A m : (ToCome(m)' <=> ToCome(m)) /\ (WaitsNow(m)' <=> WaitsNow(m))
  BY <1>2, <1>3, SameToCome DEF WaitsNow
<1> QED  BY <1>3, <1>4, <1>5, <1>6, <1>7, <1>8, TakenStays DEF PlaceInv, OnlyPlace, OnceInv

LEMMA PlaceStep == TypeInv /\ PlaceInv /\ OnceInv /\ [Next]_vars => PlaceInv' /\ OnceInv'
<1> SUFFICES ASSUME TypeInv, PlaceInv, OnceInv, [Next]_vars PROVE PlaceInv' /\ OnceInv'
  OBVIOUS
<1>1. ASSUME NEW w \in Workers, Transmission(w) PROVE PlaceInv' /\ OnceInv'
  <2>1. CASE TestRegistered(w) \/ RegisterUnknown(w) \/ SendRequest(w) \/ SendRequestFails(w)
    <3>1. UNCHANGED <<toCome, todo, pendingMsg, delivered, dropped>>
      BY <2>1 DEF TestRegistered, RegisterUnknown, SendRequest, SendRequestFails, messageVars
    <3>2. work[w].at \notin InHand /\ \E p, x : p \notin InHand /\ Moves(w, p, x)
      BY <2>1, TestMoves, RegisterMoves, RequestMoves DEF InHand
    <3> QED  BY <3>1, <3>2, PlaceIdles
  <2>2. CASE InsertInstance(w)
    <3>1. UNCHANGED <<toCome, todo, pendingMsg, delivered, dropped>>
      BY <2>2 DEF InsertInstance, messageVars
    <3>2. work[w].at \in InHand /\ "bind" \in InHand /\ Moves(w, "bind", Held(w))
      BY <2>2, InsertMoves DEF InHand
    <3> QED  BY <3>1, <3>2, PlaceKeeps
  <2> QED  BY <1>1, <2>1, <2>2, PlaceSave, PlaceLookup, PlaceBind, PlaceFail, PlaceEnqueue
           DEF Transmission
<1>2. ASSUME NEW c \in Conns, HandleSendTree(c) \/ HandleSendTreeMarshal(c) \/ RegisterTree(c)
      PROVE  PlaceInv' /\ OnceInv'
  <2>1. UNCHANGED <<toCome, todo, pendingMsg, delivered, dropped>>
    BY <1>2 DEF HandleSendTree, HandleSendTreeMarshal, RegisterTree, messageVars
  <2>2. \/ UNCHANGED work
        \/ work[c].at \notin InHand /\ \E p, x : p \notin InHand /\ Moves(c, p, x)
    BY <1>2, SendTreeMoves, RegisterTreeMoves DEF InHand
  <2>3. CASE UNCHANGED work
    BY <2>1, <2>3, HandStays, SameToCome, PlaceStays DEF OnceInv
  <2>4. CASE work[c].at \notin InHand /\ \E p, x : p \notin InHand /\ Moves(c, p, x)
    BY <2>1, <2>4, PlaceIdles, ConnsWork
  <2> QED  BY <2>2, <2>3, <2>4
<1>3. CASE Elsewhere
  <2>1. ASSUME NEW c \in Conns, HandleConfigMessage(c) PROVE PlaceInv' /\ OnceInv'
    BY <2>1, PlaceConfig
  <2>2. ASSUME NEW r \in Retransmitters, CheckPendingMessages(r) PROVE PlaceInv' /\ OnceInv'
    BY <2>2, PlaceCheck
  <2>3. CASE \/ \E c \in Conns : PeerLacksTree(c) \/ HandleSendRoster(c)
             \/ \E t \in Local : CreateInstance(t) \/ CreateRegister(t) \/ CreateBind(t)
             \/ \E t \in Tokens : NodeDone(t)
             \/ RemovalStep \/ CloseOverlay \/ OverlayClosed
             \/ UNCHANGED vars
    <3>1. UNCHANGED <<toCome, todo, pendingMsg, delivered, dropped>>
      BY <2>3 DEF PeerLacksTree, HandleSendRoster, CreateInstance, CreateRegister,
                  CreateBind, NodeDone, RemovalStep, CloseOverlay, OverlayClosed, vars,
                  messageVars, workerVars
    <3>2. UNCHANGED work
      BY <1>3, ElsewhereStays
    <3> QED  BY <3>1, <3>2, HandStays, SameToCome, PlaceStays DEF OnceInv
  <2> QED  BY <1>3, <2>1, <2>2, <2>3 DEF Elsewhere
<1> QED  BY <1>1, <1>2, <1>3, PlaceReceive, PlaceRetransmit, StepKinds

\* How often a message is in a place.
LEMMA CountedOnce ==
    ASSUME NEW T, \A x, y \in T : x = y
    PROVE  Cardinality(T) = IF T = {} THEN 0 ELSE 1
<1>1. CASE T = {}
  BY <1>1, FS_EmptySet
<1>2. CASE T # {}
  <2>1. PICK x \in T : TRUE
    BY <1>2
  <2>2. T = {x}
    BY <2>1
  <2> QED  BY <1>2, <2>2, FS_Singleton
<1> QED  BY <1>1, <1>2

LEMMA PlacesCounted ==
    ASSUME TypeInv, OnceInv, NEW m \in Msgs
    PROVE  /\ Cardinality(InHands(m)) = IF WithWorker(m) THEN 1 ELSE 0
           /\ Cardinality(InTodo(m)) = IF ToTransmit(m) THEN 1 ELSE 0
           /\ Cardinality(Waiting(m)) = IF WaitsNow(m) THEN 1 ELSE 0
           /\ Cardinality(Accepted(m)) = IF Taken(m) THEN 1 ELSE 0
<1>1. Cardinality(InHands(m)) = IF WithWorker(m) THEN 1 ELSE 0
  <2>1. \A v, w \in InHands(m) : v = w
    BY DEF InHands, HandOnce, OnceInv
  <2>2. InHands(m) = {} <=> ~WithWorker(m)
    BY DEF InHands, WithWorker
  <2> QED  BY <2>1, <2>2, CountedOnce
<1>2. Cardinality(InTodo(m)) = IF ToTransmit(m) THEN 1 ELSE 0
  <2>1. \A x : x \in InTodo(m) <=>
           \E r \in Retransmitters : \E i \in 1..Len(todo[r]) : x = <<r, i>> /\ todo[r][i] = m
    BY DEF InTodo
  <2>2. \A x, y \in InTodo(m) : x = y
    BY <2>1 DEF TodoOnce, OnceInv, In, NoneTwiceIn
  <2>3. InTodo(m) = {} <=> ~ToTransmit(m)
    BY <2>1 DEF ToTransmit, In
  <2> QED  BY <2>2, <2>3, CountedOnce
<1>3. Cardinality(Waiting(m)) = IF WaitsNow(m) THEN 1 ELSE 0
  <2>1. \A i, j \in Waiting(m) : i = j
    BY DEF Waiting, WaitOnce, OnceInv, NoneTwiceIn
  <2>2. Waiting(m) = {} <=> ~WaitsNow(m)
    BY DEF Waiting, WaitsNow, In
  <2> QED  BY <2>1, <2>2, CountedOnce
<1>4. Cardinality(Accepted(m)) = IF Taken(m) THEN 1 ELSE 0
  <2>1. \A x : x \in Accepted(m) <=>
           \E t \in Tokens : \E i \in 1..Len(delivered[t]) : x = <<t, i>> /\ delivered[t][i] = m
    BY DEF Accepted
  <2>2. \A x, y \in Accepted(m) : x = y
    BY <2>1 DEF TakenOnce, OnceInv, In, NoneTwiceIn
  <2>3. Accepted(m) = {} <=> ~Taken(m)
    BY <2>1 DEF Taken, In
  <2> QED  BY <2>2, <2>3, CountedOnce
<1> QED  BY <1>1, <1>2, <1>3, <1>4

\* A message that has arrived is in exactly one place, and an instance accepts
\* only messages of its own token: for any number of connections, goroutines of
\* checkPendingMessages, trees that come, go and come again, and whenever the
\* overlay closes, none is lost without being given up and none is delivered
\* twice (overlay.go:129-335).
THEOREM NoMessageLost == Spec => []MessageConserved
<1>1. Init => TypeInv /\ PlaceInv /\ OnceInv
  BY TypeInit, PlaceInit
<1>2. TypeInv /\ PlaceInv /\ OnceInv /\ [Next]_vars => (TypeInv /\ PlaceInv /\ OnceInv)'
  BY TypeStep, PlaceStep
<1>3. TypeInv /\ PlaceInv /\ OnceInv => MessageConserved
  <2> SUFFICES ASSUME TypeInv, PlaceInv, OnceInv PROVE MessageConserved
    OBVIOUS
  <2>1. ASSUME NEW m \in Msgs PROVE Places(m) = IF ToCome(m) THEN 0 ELSE 1
    <3>1. /\ Cardinality(InHands(m)) = IF WithWorker(m) THEN 1 ELSE 0
          /\ Cardinality(InTodo(m)) = IF ToTransmit(m) THEN 1 ELSE 0
          /\ Cardinality(Waiting(m)) = IF WaitsNow(m) THEN 1 ELSE 0
          /\ Cardinality(Accepted(m)) = IF Taken(m) THEN 1 ELSE 0
      BY PlacesCounted
    <3> QED  BY <3>1 DEF Places, PlaceInv, OnlyPlace
  <2>2. ASSUME NEW t \in Tokens, NEW i \in 1..Len(delivered[t])
        PROVE  Dest[delivered[t][i]] = t
    <3>1. delivered[t] \in Seq(Msgs)
      BY DEF TypeInv, TypeOK
    <3>2. delivered[t][i] \in Msgs /\ In(delivered[t][i], delivered[t])
      BY <3>1 DEF In
    <3> QED  BY <3>2 DEF OnceInv, TakenOnce
  <2> QED  BY <2>1, <2>2 DEF MessageConserved
<1> QED  BY <1>1, <1>2, <1>3, PTL DEF Spec

-----------------------------------------------------------------------------
(* No message is forgotten.                                                *)

\* Somebody will learn of the tree: a request for it, or for the roster that it
\* waits for, is on its way, is about to be sent or was answered; or nobody
\* answers.
Asked(id) ==
    \/ \E c \in Conns : requests[c][id] > 0
    \/ \E c \in Conns : /\ rosterRequests[c][RosterOf[id]] > 0
                        /\ id \in pendingTreeMarshal[RosterOf[id]]
    \/ \E w \in Workers : work[w].at = "request" /\ TreeFor(Held(w)) = id
    \/ \E w \in Workers : work[w].at = "set" /\ Held(w) = id
    \/ id \in unanswered

\* Somebody is about to ask for the tree.
Asking(id) == \E w \in Workers : work[w].at \in {"known", "register"} /\ TreeFor(Held(w)) = id

KnownInv == \A id \in TreeIDs : trees[id] = "known" => Asked(id)
StoredInv ==
    \A m \in Msgs :
        In(m, pendingMsg) /\ trees[TreeFor(m)] = "stored"
            => m \in overtaken \/ spawned[TreeFor(m)] > 0
AbsentInv ==
    \A m \in Msgs :
        In(m, pendingMsg) /\ trees[TreeFor(m)] = "absent"
            => \/ m \in overtaken \/ spawned[TreeFor(m)] > 0
               \/ Asking(TreeFor(m)) \/ TreeFor(m) \in unanswered \/ TreeFor(m) \in wiped
ForgetInv == KnownInv /\ StoredInv /\ AbsentInv

LEMMA ForgetInit == Init => ForgetInv
<1> SUFFICES ASSUME Init PROVE ForgetInv
  OBVIOUS
<1>1. \A id \in TreeIDs : trees[id] = "absent"
  BY DEF Init, StorageInit
<1>2. \A m : ~In(m, pendingMsg)
  BY DEF Init, In
<1> QED  BY <1>1, <1>2 DEF ForgetInv, KnownInv, StoredInv, AbsentInv

\* The history only grows.
Grown == unanswered \subseteq unanswered' /\ overtaken \subseteq overtaken' /\ wiped \subseteq wiped'

\* A step that leaves the trees, the list and the goroutines alone.
LEMMA ForgetStill ==
    ASSUME ForgetInv, UNCHANGED <<trees, pendingMsg, spawned>>, Grown,
           \A id \in TreeIDs : /\ trees[id] = "known" /\ Asked(id) => Asked(id)'
                               /\ trees[id] = "absent" /\ Asking(id) => Asking(id)'
    PROVE  ForgetInv'
<1>1. \A m \in Msgs : TreeFor(m) \in TreeIDs
  BY TreeOfMessage
<1>2. KnownInv'
  BY DEF ForgetInv, KnownInv
<1>3. StoredInv'
  BY DEF ForgetInv, StoredInv, Grown
<1>4. AbsentInv'
  BY <1>1 DEF ForgetInv, AbsentInv, Grown
<1> QED  BY <1>2, <1>3, <1>4 DEF ForgetInv

\* The requests stay, and no worker comes to or leaves the places at which a tree
\* is asked for or set.
Askers == {"known", "register", "request", "set"}
LEMMA ForgetAside ==
    ASSUME ForgetInv, UNCHANGED <<trees, pendingMsg, spawned, requestVars>>,
           \/ UNCHANGED work
           \/ \E w \in Workers : \E p, x : Moves(w, p, x) /\ work[w].at \notin Askers
    PROVE  ForgetInv'
<1>1. \A w \in Workers : work[w].at \in Askers => work'[w] = work[w]
  BY DEF Moves
<1>2. ASSUME NEW id \in TreeIDs PROVE (Asked(id) => Asked(id)') /\ (Asking(id) => Asking(id)')
  BY <1>1 DEF Asked, Asking, Held, requestVars, Askers
<1> QED  BY <1>2, ForgetStill DEF Grown, requestVars

\* RegisterTree, and checkPendingTreeMarshal.
LEMMA ForgetSet ==
    ASSUME TypeInv, ForgetInv, NEW ids, RegisterTrees(ids), UNCHANGED pendingMsg, Grown,
           \A id \in TreeIDs \ ids : /\ Asked(id) => Asked(id)'
                                     /\ Asking(id) => Asking(id)'
    PROVE  ForgetInv'
<1>1. \A m \in Msgs : TreeFor(m) \in TreeIDs
  BY TreeOfMessage
<1>2. /\ \A id \in TreeIDs : trees'[id] = IF id \in ids THEN "stored" ELSE trees[id]
      /\ \A id \in TreeIDs : spawned'[id] = spawned[id] + IF id \in ids THEN 1 ELSE 0
  BY DEF RegisterTrees, Set
<1>3. \A id \in TreeIDs : /\ spawned[id] \in Nat
                          /\ id \in ids => spawned'[id] > 0
                          /\ id \notin ids => spawned'[id] = spawned[id]
  BY <1>2 DEF TypeInv, TypeOK
<1>4. KnownInv'
  BY <1>2 DEF ForgetInv, KnownInv
<1>5. StoredInv'
  BY <1>1, <1>2, <1>3 DEF ForgetInv, StoredInv, Grown
<1>6. AbsentInv'
  BY <1>1, <1>2, <1>3 DEF ForgetInv, AbsentInv, Grown
<1> QED  BY <1>4, <1>5, <1>6 DEF ForgetInv

LEMMA ForgetSave ==
    ASSUME TypeInv, ForgetInv, NEW w \in Workers, SavePendingMsg(w)
    PROVE  ForgetInv'
<1>1. /\ Held(w) \in Msgs /\ \A x : In(x, pendingMsg') <=> In(x, pendingMsg) \/ x = Held(w)
  BY SaveLists
<1>2. Moves(w, "known", Held(w)) /\ work[w].at = "save"
  BY SaveMoves
<1>3. /\ UNCHANGED <<trees, spawned, requests, rosterRequests, pendingTreeMarshal, unanswered, wiped>>
      /\ overtaken \subseteq overtaken'
      /\ trees[TreeFor(Held(w))] = "stored" => Held(w) \in overtaken'
  BY DEF SavePendingMsg, storageVars
<1>4. ASSUME NEW id \in TreeIDs PROVE (Asked(id) => Asked(id)') /\ (Asking(id) => Asking(id)')
  BY <1>2, <1>3 DEF Asked, Asking, Held, Moves
<1>5. \A id : id = TreeFor(Held(w)) => Asking(id)'
  BY <1>2 DEF Asking, Held, Moves, TreeFor
<1>6. KnownInv'
  BY <1>3, <1>4 DEF ForgetInv, KnownInv
<1>7. StoredInv'
  BY <1>1, <1>3 DEF ForgetInv, StoredInv
<1>8. AbsentInv'
  <2> SUFFICES ASSUME NEW m \in Msgs, In(m, pendingMsg'), trees'[TreeFor(m)] = "absent"
               PROVE  \/ m \in overtaken' \/ spawned'[TreeFor(m)] > 0
                      \/ Asking(TreeFor(m))' \/ TreeFor(m) \in unanswered' \/ TreeFor(m) \in wiped'
    BY DEF AbsentInv
  <2>1. CASE m = Held(w)
    BY <1>5, <2>1
  <2>2. CASE m # Held(w)
    BY <1>1, <1>3, <1>4, <2>2, TreeOfMessage DEF ForgetInv, AbsentInv
  <2> QED  BY <2>1, <2>2
<1> QED  BY <1>6, <1>7, <1>8 DEF ForgetInv

LEMMA ForgetTest ==
    ASSUME TypeInv, ForgetInv, NEW w \in Workers, TestRegistered(w)
    PROVE  ForgetInv'
<1>1. /\ UNCHANGED <<trees, pendingMsg, spawned, requestVars>> /\ work[w].at = "known"
      /\ TreeFor(Held(w)) \in TreeIDs
  BY WorkerTyped DEF TestRegistered, storageVars, MessagePlaces
<1>2. \/ IsRegistered(TreeFor(Held(w))) /\ Moves(w, "idle", "nothing")
      \/ Moves(w, "register", Held(w))
  BY TestMoves
<1>3. ASSUME NEW id \in TreeIDs PROVE Asked(id) => Asked(id)'
  BY <1>1, <1>2 DEF Asked, Held, Moves, requestVars
<1>4. ASSUME NEW id \in TreeIDs, trees[id] = "absent", Asking(id) PROVE Asking(id)'
  <2>1. PICK v \in Workers : work[v].at \in {"known", "register"} /\ TreeFor(Held(v)) = id
    BY <1>4 DEF Asking
  <2>2. CASE v # w
    BY <1>2, <2>1, <2>2 DEF Asking, Moves, Held
  <2>3. CASE v = w
    BY <1>2, <1>4, <2>1, <2>3 DEF Asking, Moves, Held, IsRegistered, TreeFor
  <2> QED  BY <2>2, <2>3
<1> QED  BY <1>1, <1>3, <1>4, ForgetStill DEF Grown, requestVars

LEMMA ForgetRegister ==
    ASSUME TypeInv, ForgetInv, NEW w \in Workers, RegisterUnknown(w)
    PROVE  ForgetInv'
<1>1. /\ UNCHANGED <<pendingMsg, spawned, requestVars>> /\ work[w].at = "register"
      /\ Register(TreeFor(Held(w))) /\ TreeFor(Held(w)) \in TreeIDs
  BY WorkerTyped DEF RegisterUnknown, MessagePlaces
<1>2. PICK here \in TreeIDs : here = TreeFor(Held(w))
  BY <1>1
<1>3. \A id \in TreeIDs : trees'[id] = IF id = here THEN "known" ELSE trees[id]
  BY <1>1, <1>2 DEF Register, TypeInv, TypeOK, StorageTypeOK
<1>4. Moves(w, "request", Held(w))
  BY RegisterMoves
<1>5. Asked(here)'
  BY <1>2, <1>4 DEF Asked, Held, Moves, TreeFor
<1>6. ASSUME NEW id \in TreeIDs, id # here PROVE (Asked(id) => Asked(id)') /\ (Asking(id) => Asking(id)')
  BY <1>1, <1>2, <1>4, <1>6 DEF Asked, Asking, Held, Moves, requestVars
<1>7. \A m \in Msgs : TreeFor(m) \in TreeIDs
  BY TreeOfMessage
<1>8. KnownInv'
  BY <1>3, <1>5, <1>6 DEF ForgetInv, KnownInv
<1>9. StoredInv'
  BY <1>1, <1>3, <1>7 DEF ForgetInv, StoredInv, requestVars
<1>10. AbsentInv'
  BY <1>1, <1>3, <1>6, <1>7 DEF ForgetInv, AbsentInv, requestVars
<1> QED  BY <1>8, <1>9, <1>10 DEF ForgetInv

LEMMA ForgetRequest ==
    ASSUME TypeInv, ForgetInv, NEW w \in Workers, SendRequest(w)
    PROVE  ForgetInv'
<1>1. /\ UNCHANGED <<trees, pendingMsg, spawned, unanswered, overtaken, wiped, rosterRequests,
                     pendingTreeMarshal>>
      /\ work[w].at = "request"
      /\ requests' = [requests EXCEPT ![Src(Held(w))][TreeFor(Held(w))] = @ + 1]
  BY DEF SendRequest, storageVars
<1>2. Moves(w, "idle", "nothing")
  BY RequestMoves
<1>3. PICK s \in Conns, here \in TreeIDs : s = Src(Held(w)) /\ here = TreeFor(Held(w))
  BY <1>1, WorkerTyped DEF MessagePlaces
<1>4. /\ requests'[s][here] > 0
      /\ \A c \in Conns, id \in TreeIDs : requests[c][id] > 0 => requests'[c][id] > 0
  BY <1>1, <1>3 DEF TypeInv, TypeOK
<1>5. Asked(here)'
  BY <1>4 DEF Asked
<1>6. ASSUME NEW id \in TreeIDs PROVE (Asked(id) => Asked(id)') /\ (Asking(id) => Asking(id)')
  <2>1. CASE id = here
    BY <1>1, <1>2, <1>5, <2>1 DEF Asking, Held, Moves
  <2>2. CASE id # here
    BY <1>1, <1>2, <1>3, <1>4, <2>2 DEF Asked, Asking, Held, Moves
  <2> QED  BY <2>1, <2>2
<1> QED  BY <1>1, <1>6, ForgetStill DEF Grown

LEMMA ForgetRequestFails ==
    ASSUME TypeInv, ForgetInv, NEW w \in Workers, SendRequestFails(w)
    PROVE  ForgetInv'
<1>1. /\ UNCHANGED <<pendingMsg, spawned, overtaken, wiped, requests, rosterRequests,
                     pendingTreeMarshal>>
      /\ work[w].at = "request" /\ Unregister(TreeFor(Held(w)))
      /\ unanswered' = unanswered \cup {TreeFor(Held(w))}
  BY DEF SendRequestFails
<1>2. Moves(w, "idle", "nothing")
  BY RequestMoves
<1>3. PICK here \in TreeIDs : here = TreeFor(Held(w))
  BY <1>1, WorkerTyped DEF MessagePlaces
<1>4. /\ here \in unanswered' /\ unanswered \subseteq unanswered'
      /\ \A id \in TreeIDs : id # here => trees'[id] = trees[id]
      /\ trees'[here] = "stored" => trees[here] = "stored"
  BY <1>1, <1>3 DEF Unregister, TypeInv, TypeOK, StorageTypeOK
<1>5. Asked(here)'
  BY <1>4 DEF Asked
<1>6. ASSUME NEW id \in TreeIDs, id # here PROVE (Asked(id) => Asked(id)') /\ (Asking(id) => Asking(id)')
  BY <1>1, <1>2, <1>3, <1>4, <1>6 DEF Asked, Asking, Held, Moves
<1>7. \A m \in Msgs : TreeFor(m) \in TreeIDs
  BY TreeOfMessage
<1>8. KnownInv'
  BY <1>4, <1>5, <1>6 DEF ForgetInv, KnownInv
<1>9. StoredInv'
  BY <1>1, <1>4, <1>7 DEF ForgetInv, StoredInv
<1>10. AbsentInv'
  BY <1>1, <1>4, <1>6, <1>7 DEF ForgetInv, AbsentInv
<1> QED  BY <1>8, <1>9, <1>10 DEF ForgetInv

LEMMA SameTreesDelete ==
    ASSUME NEW t, NodeDelete(t)
    PROVE  UNCHANGED trees
  BY DEF NodeDelete, CleanTreeStorage, RemoveTree, storageVars

LEMMA ForgetTransmission ==
    ASSUME TypeInv, ForgetInv, NEW w \in Workers, Transmission(w)
    PROVE  ForgetInv'
<1>1. CASE \/ Lookup(w) \/ InsertInstance(w) \/ BindInstance(w) \/ NewProtocolFails(w)
           \/ NewProtocolNil(w) \/ Enqueue(w)
  <2>1. UNCHANGED <<trees, pendingMsg, spawned, requestVars>>
    BY <1>1, SameTreesDelete
       DEF Lookup, InsertInstance, BindInstance, NewProtocolFails, NewProtocolNil, Enqueue,
           storageVars
  <2>2. work[w].at \notin Askers /\ \E p, x : Moves(w, p, x)
    BY <1>1, LookupMoves, InsertMoves, BindMoves, FailMoves, EnqueueMoves DEF Askers
  <2> QED  BY <2>1, <2>2, ForgetAside
<1> QED  BY <1>1, ForgetSave, ForgetTest, ForgetRegister, ForgetRequest, ForgetRequestFails
         DEF Transmission

\* An answer to a request: the count of one connection and tree falls.
LEMMA AnswerCounts ==
    ASSUME TypeInv, NEW c \in Conns, NEW here \in TreeIDs, requests[c][here] > 0,
           requests' = [requests EXCEPT ![c][here] = @ - 1]
    PROVE  \A d \in Conns, id \in TreeIDs : id # here => requests'[d][id] = requests[d][id]
  BY DEF TypeInv, TypeOK

LEMMA ForgetSendTree ==
    ASSUME TypeInv, ForgetInv, NEW c \in Conns, HandleSendTree(c)
    PROVE  ForgetInv'
<1>1. PICK here \in TreeIDs :
         /\ requests[c][here] > 0
         /\ requests' = [requests EXCEPT ![c][here] = @ - 1]
         /\ work' = IF IsRegistered(here)
                    THEN [work EXCEPT ![c] = [at |-> "set", what |-> here]] ELSE work
  BY DEF HandleSendTree
<1>2. /\ UNCHANGED <<trees, pendingMsg, spawned, unanswered, overtaken, wiped, rosterRequests,
                     pendingTreeMarshal>>
      /\ work[c].at = "idle" /\ c \in Workers
  BY ConnsWork DEF HandleSendTree, storageVars
<1>3. \/ trees[here] = "absent" /\ UNCHANGED work
      \/ Moves(c, "set", here)
  BY <1>1, <1>2, NewJobMoves DEF IsRegistered
<1>4. \A d \in Conns, id \in TreeIDs : id # here => requests'[d][id] = requests[d][id]
  BY <1>1, AnswerCounts
<1>5. ASSUME NEW id \in TreeIDs, trees[id] = "known", Asked(id) PROVE Asked(id)'
  <2>1. CASE id = here
    BY <1>2, <1>3, <1>5, <2>1 DEF Asked, Held, Moves
  <2>2. CASE id # here
    BY <1>2, <1>3, <1>4, <1>5, <2>2 DEF Asked, Held, Moves
  <2> QED  BY <2>1, <2>2
<1>6. ASSUME NEW id \in TreeIDs PROVE Asking(id) => Asking(id)'
  BY <1>2, <1>3 DEF Asking, Held, Moves
<1> QED  BY <1>2, <1>5, <1>6, ForgetStill DEF Grown

LEMMA ForgetPeerLacks ==
    ASSUME TypeInv, ForgetInv, NEW c \in Conns, PeerLacksTree(c)
    PROVE  ForgetInv'
<1>1. PICK here \in TreeIDs : /\ requests[c][here] > 0
                              /\ requests' = [requests EXCEPT ![c][here] = @ - 1]
                              /\ unanswered' = unanswered \cup {here}
  BY DEF PeerLacksTree
<1>2. UNCHANGED <<trees, work, pendingMsg, spawned, overtaken, wiped, rosterRequests,
                  pendingTreeMarshal>>
  BY DEF PeerLacksTree, storageVars, workerVars
<1>3. \A d \in Conns, id \in TreeIDs : id # here => requests'[d][id] = requests[d][id]
  BY <1>1, AnswerCounts
<1>4. ASSUME NEW id \in TreeIDs, Asked(id) PROVE Asked(id)'
  <2>1. CASE id = here
    BY <1>1, <2>1 DEF Asked
  <2>2. CASE id # here
    BY <1>1, <1>2, <1>3, <1>4, <2>2 DEF Asked, Held
  <2> QED  BY <2>1, <2>2
<1>5. ASSUME NEW id \in TreeIDs PROVE Asking(id) => Asking(id)'
  BY <1>2 DEF Asking, Held
<1> QED  BY <1>1, <1>2, <1>4, <1>5, ForgetStill DEF Grown

LEMMA ForgetRegisterTree ==
    ASSUME TypeInv, ForgetInv, NEW c \in Conns, RegisterTree(c)
    PROVE  ForgetInv'
<1>1. /\ UNCHANGED <<pendingMsg, requestVars>> /\ RegisterTrees({Held(c)})
      /\ work[c].at = "set" /\ c \in Workers
  BY ConnsWork DEF RegisterTree
<1>2. Moves(c, "idle", "nothing")
  BY RegisterTreeMoves
<1>3. PICK here : here = Held(c)
  OBVIOUS
<1>4. ASSUME NEW id \in TreeIDs \ {here}
      PROVE  (Asked(id) => Asked(id)') /\ (Asking(id) => Asking(id)')
  BY <1>1, <1>2, <1>3 DEF Asked, Asking, Held, Moves, requestVars
<1>5. RegisterTrees({here})
  BY <1>1, <1>3
<1> QED  BY <1>1, <1>4, <1>5, ForgetSet DEF Grown, requestVars

LEMMA ForgetSendTreeMarshal ==
    ASSUME TypeInv, ForgetInv, NEW c \in Conns, HandleSendTreeMarshal(c)
    PROVE  ForgetInv'
<1>1. PICK here \in TreeIDs :
         /\ requests[c][here] > 0
         /\ requests' = [requests EXCEPT ![c][here] = @ - 1]
         /\ \/ /\ ~IsRegistered(here)
               /\ UNCHANGED <<work, rosterRequests, pendingTreeMarshal>>
            \/ /\ work' = [work EXCEPT ![c] = [at |-> "set", what |-> here]]
               /\ UNCHANGED <<rosterRequests, pendingTreeMarshal>>
            \/ /\ rosterRequests' = [rosterRequests EXCEPT ![c][RosterOf[here]] = @ + 1]
               /\ AddPendingTreeMarshal(here)
               /\ UNCHANGED work
  BY DEF HandleSendTreeMarshal
<1>2. /\ UNCHANGED <<trees, pendingMsg, spawned, unanswered, overtaken, wiped>>
      /\ work[c].at = "idle" /\ c \in Workers
  BY ConnsWork DEF HandleSendTreeMarshal, storageVars
<1>3. \A d \in Conns, id \in TreeIDs : id # here => requests'[d][id] = requests[d][id]
  BY <1>1, AnswerCounts
<1>4. UNCHANGED work \/ Moves(c, "set", here)
  BY <1>1, <1>2, NewJobMoves
<1>5. /\ \A d \in Conns, r \in Rosters : rosterRequests[d][r] > 0 => rosterRequests'[d][r] > 0
      /\ \A r \in Rosters : pendingTreeMarshal[r] \subseteq pendingTreeMarshal'[r]
  <2>1. CASE UNCHANGED <<rosterRequests, pendingTreeMarshal>>
    BY <2>1
  <2>2. CASE /\ rosterRequests' = [rosterRequests EXCEPT ![c][RosterOf[here]] = @ + 1]
             /\ AddPendingTreeMarshal(here)
    <3>1. RosterOf[here] \in Rosters
      BY RosterOfTree
    <3>2. \A d \in Conns, r \in Rosters : rosterRequests[d][r] > 0 => rosterRequests'[d][r] > 0
      BY <2>2, <3>1 DEF TypeInv, TypeOK
    <3>3. \A r \in Rosters : pendingTreeMarshal[r] \subseteq pendingTreeMarshal'[r]
      BY <2>2, <3>1 DEF TypeInv, TypeOK, AddPendingTreeMarshal
    <3> QED  BY <3>2, <3>3
  <2> QED  BY <1>1, <2>1, <2>2
<1>6. ASSUME NEW id \in TreeIDs, trees[id] = "known", Asked(id) PROVE Asked(id)'
  <2>1. CASE id = here
    <3>1. IsRegistered(here)
      BY <1>6, <2>1 DEF IsRegistered
    <3>2. CASE work' = [work EXCEPT ![c] = [at |-> "set", what |-> here]]
      <4>1. Moves(c, "set", here)
        BY <1>2, <3>2, NewJobMoves
      <4> QED  BY <1>2, <2>1, <4>1 DEF Asked, Held, Moves
    <3>3. CASE /\ rosterRequests' = [rosterRequests EXCEPT ![c][RosterOf[here]] = @ + 1]
               /\ AddPendingTreeMarshal(here)
      <4>1. RosterOf[here] \in Rosters
        BY RosterOfTree
      <4>2. rosterRequests'[c][RosterOf[here]] > 0
        BY <3>3, <4>1 DEF TypeInv, TypeOK
      <4>3. here \in pendingTreeMarshal'[RosterOf[here]]
        BY <3>3, <4>1 DEF TypeInv, TypeOK, AddPendingTreeMarshal
      <4> QED  BY <2>1, <4>2, <4>3 DEF Asked
    <3> QED  BY <1>1, <3>1, <3>2, <3>3
  <2>2. CASE id # here
    <3>1. RosterOf[id] \in Rosters
      BY RosterOfTree
    <3> QED  BY <1>2, <1>3, <1>4, <1>5, <1>6, <2>2, <3>1 DEF Asked, Held, Moves
  <2> QED  BY <2>1, <2>2
<1>7. ASSUME NEW id \in TreeIDs PROVE Asking(id) => Asking(id)'
  BY <1>2, <1>4 DEF Asking, Held, Moves
<1> QED  BY <1>2, <1>6, <1>7, ForgetStill DEF Grown

LEMMA ForgetSendRoster ==
    ASSUME TypeInv, ForgetInv, NEW c \in Conns, HandleSendRoster(c)
    PROVE  ForgetInv'
<1>1. PICK r \in Rosters : RosterAnswered(c, r) /\ CheckPendingTreeMarshal(r)
  BY DEF HandleSendRoster
<1>2. UNCHANGED <<requests, unanswered, overtaken, wiped, pendingTreeMarshal, work, pendingMsg>>
  BY DEF HandleSendRoster
<1>3. \A d \in Conns, s \in Rosters : s # r => rosterRequests'[d][s] = rosterRequests[d][s]
  BY <1>1 DEF RosterAnswered, TypeInv, TypeOK
<1>4. ASSUME NEW id \in TreeIDs \ pendingTreeMarshal[r]
      PROVE  (Asked(id) => Asked(id)') /\ (Asking(id) => Asking(id)')
  <2>1. RosterOf[id] \in Rosters
    BY RosterOfTree
  <2> QED  BY <1>2, <1>3, <1>4, <2>1 DEF Asked, Asking, Held
<1>5. CASE pendingTreeMarshal[r] = {}
  <2>1. UNCHANGED <<trees, spawned>>
    BY <1>1, <1>5 DEF CheckPendingTreeMarshal, storageVars
  <2> QED  BY <1>2, <1>4, <1>5, <2>1, ForgetStill DEF Grown
<1>6. CASE pendingTreeMarshal[r] # {}
  <2>1. PICK ids : ids = pendingTreeMarshal[r]
    OBVIOUS
  <2>2. RegisterTrees(ids)
    BY <1>1, <1>6, <2>1 DEF CheckPendingTreeMarshal
  <2> QED  BY <1>2, <1>4, <2>1, <2>2, ForgetSet DEF Grown
<1> QED  BY <1>5, <1>6

LEMMA ForgetCheck ==
    ASSUME TypeInv, ForgetInv, NEW r \in Retransmitters, CheckPendingMessages(r)
    PROVE  ForgetInv'
<1>1. PICK here \in TreeIDs :
        /\ spawned' = [spawned EXCEPT ![here] = @ - 1]
        /\ \A x \in Msgs : In(x, pendingMsg') <=> In(x, pendingMsg) /\ TreeFor(x) # here
  BY CheckLists
<1>2. UNCHANGED <<trees, work, requestVars>>
  BY DEF CheckPendingMessages, storageVars
<1>3. \A id \in TreeIDs : id # here => spawned'[id] = spawned[id]
  BY <1>1 DEF TypeInv, TypeOK
<1>4. \A m \in Msgs : TreeFor(m) \in TreeIDs
  BY TreeOfMessage
<1>5. ASSUME NEW id \in TreeIDs PROVE (Asked(id) => Asked(id)') /\ (Asking(id) => Asking(id)')
  BY <1>2 DEF Asked, Asking, Held, requestVars
<1>6. KnownInv'
  BY <1>2, <1>5 DEF ForgetInv, KnownInv
<1>7. StoredInv'
  BY <1>1, <1>2, <1>3, <1>4 DEF ForgetInv, StoredInv, requestVars
<1>8. AbsentInv'
  BY <1>1, <1>2, <1>3, <1>4, <1>5 DEF ForgetInv, AbsentInv, requestVars
<1> QED  BY <1>6, <1>7, <1>8 DEF ForgetInv

\* A removal deletes a tree, or the entry of one that is requested.
LEMMA ForgetRemoval ==
    ASSUME TypeInv, ForgetInv, RemovalStep
    PROVE  ForgetInv'
<1>1. /\ UNCHANGED <<work, pendingMsg, spawned, requests, unanswered, overtaken,
                     rosterRequests, pendingTreeMarshal>>
      /\ wiped' = wiped \cup {id \in TreeIDs : trees[id] = "known" /\ trees'[id] = "absent"}
  BY DEF RemovalStep, workerVars
<1>2. \A id \in TreeIDs : trees'[id] = trees[id] \/ trees'[id] = "absent"
  <2>1. PICK g \in 1..Len(removals) : TimerFires(g) \/ DeleteTree(g) \/ StopTimer(g)
    BY DEF RemovalStep
  <2> QED  BY <2>1 DEF TimerFires, DeleteTree, StopTimer, TypeInv, TypeOK, StorageTypeOK
<1>3. ASSUME NEW id \in TreeIDs PROVE (Asked(id) => Asked(id)') /\ (Asking(id) => Asking(id)')
  BY <1>1 DEF Asked, Asking, Held
<1>4. \A m \in Msgs : TreeFor(m) \in TreeIDs /\ trees[TreeFor(m)] \in {"absent", "known", "stored"}
  BY TreeOfMessage DEF TypeInv, TypeOK, StorageTypeOK
<1>5. KnownInv'
  BY <1>2, <1>3 DEF ForgetInv, KnownInv
<1>6. StoredInv'
  BY <1>1, <1>2, <1>4 DEF ForgetInv, StoredInv
<1>7. AbsentInv'
  BY <1>1, <1>2, <1>3, <1>4 DEF ForgetInv, AbsentInv, StoredInv
<1> QED  BY <1>5, <1>6, <1>7 DEF ForgetInv

LEMMA ForgetStep == TypeInv /\ ForgetInv /\ [Next]_vars => ForgetInv'
<1> SUFFICES ASSUME TypeInv, ForgetInv, [Next]_vars PROVE ForgetInv'
  OBVIOUS
<1>1. ASSUME NEW c \in Conns, Receive(c) PROVE ForgetInv'
  <2>1. UNCHANGED <<trees, pendingMsg, spawned, requestVars>> /\ work[c].at \notin Askers
    BY <1>1 DEF Receive, BeginTransmit, GetAndRefresh, Arrives, Askers
  <2>2. \E p, x : Moves(c, p, x)
    BY <1>1, ReceiveMoves
  <2> QED  BY <2>1, <2>2, ConnsWork, ForgetAside
<1>2. ASSUME NEW r \in Retransmitters, Retransmit(r) PROVE ForgetInv'
  <2>1. UNCHANGED <<trees, pendingMsg, spawned, requestVars>> /\ work[r].at \notin Askers
    BY <1>2 DEF Retransmit, BeginTransmit, GetAndRefresh, Askers
  <2>2. \E p, x : Moves(r, p, x)
    BY <1>2, RetransmitMoves
  <2> QED  BY <2>1, <2>2, ConnsWork, ForgetAside
<1>3. CASE Elsewhere
  <2>1. UNCHANGED work
    BY <1>3, ElsewhereStays
  <2>2. ASSUME NEW t \in Local, CreateRegister(t) PROVE ForgetInv'
    <3>1. RegisterTrees({TreeOf[t]}) /\ UNCHANGED <<pendingMsg, requestVars>>
      BY <2>2 DEF CreateRegister
    <3>2. ASSUME NEW id \in TreeIDs PROVE (Asked(id) => Asked(id)') /\ (Asking(id) => Asking(id)')
      BY <2>1, <3>1 DEF Asked, Asking, Held, requestVars
    <3> QED  BY <3>1, <3>2, ForgetSet DEF Grown, requestVars
  <2>3. CASE \/ \E c \in Conns : HandleConfigMessage(c)
             \/ \E t \in Local : CreateInstance(t) \/ CreateBind(t)
             \/ \E t \in Tokens : NodeDone(t)
             \/ CloseOverlay \/ OverlayClosed \/ UNCHANGED vars
    <3>1. UNCHANGED <<trees, pendingMsg, spawned, requestVars>>
      BY <2>3, SameTreesDelete
         DEF HandleConfigMessage, CreateInstance, CreateBind, NodeDone, CloseOverlay,
             CloseStorage, OverlayClosed, StorageClosed, vars, workerVars, storageVars
    <3> QED  BY <2>1, <3>1, ForgetAside
  <2> QED  BY <1>3, <2>2, <2>3, ForgetPeerLacks, ForgetSendRoster, ForgetCheck, ForgetRemoval
           DEF Elsewhere
<1> QED  BY <1>1, <1>2, <1>3, ForgetTransmission, ForgetSendTree, ForgetSendTreeMarshal,
            ForgetRegisterTree, StepKinds

\* While a message waits for its tree, somebody is about to transmit it or to
\* request the tree, or a request is on its way: whatever the order in which
\* trees are looked up, registered, requested, answered, stored and removed, the
\* only losses are the ones that the history names (overlay.go:137-147,
\* 242-335, treestorage.go:84-107).
THEOREM NoMessageForgotten == Spec => []NoneForgotten
<1>1. Init => TypeInv /\ ForgetInv
  BY TypeInit, ForgetInit
<1>2. TypeInv /\ ForgetInv /\ [Next]_vars => (TypeInv /\ ForgetInv)'
  BY TypeStep, ForgetStep
<1>3. TypeInv /\ ForgetInv => NoneForgotten
  <2> SUFFICES ASSUME TypeInv, ForgetInv, NEW i \in DOMAIN pendingMsg, NEW m, m = pendingMsg[i]
               PROVE  \/ Expected(TreeFor(m)) \/ TreeFor(m) \in unanswered
                      \/ m \in overtaken \/ TreeFor(m) \in wiped
    BY DEF NoneForgotten
  <2>1. m \in Msgs /\ In(m, pendingMsg)
    BY DEF TypeInv, TypeOK, In
  <2>2. TreeFor(m) \in TreeIDs /\ trees[TreeFor(m)] \in {"absent", "known", "stored"}
    BY <2>1, TreeOfMessage DEF TypeInv, TypeOK, StorageTypeOK
  <2>3. CASE trees[TreeFor(m)] = "known"
    BY <2>2, <2>3 DEF ForgetInv, KnownInv, Asked, Expected
  <2>4. CASE trees[TreeFor(m)] = "stored"
    BY <2>1, <2>4 DEF ForgetInv, StoredInv, Expected
  <2>5. CASE trees[TreeFor(m)] = "absent"
    BY <2>1, <2>5 DEF ForgetInv, AbsentInv, Asking, Expected
  <2> QED  BY <2>2, <2>3, <2>4, <2>5
<1> QED  BY <1>1, <1>2, <1>3, PTL DEF Spec

-----------------------------------------------------------------------------
(* The lock of the trees that wait for a roster.                           *)

\* A roster is requested when a tree waits for it, and the list keeps the tree.
RosterInv ==
    /\ ~pendingTreeLocked
    /\ \A c \in Conns, r \in Rosters : rosterRequests[c][r] > 0 => pendingTreeMarshal[r] # {}

LEMMA RosterInit == Init => RosterInv
  BY DEF Init, RosterInv

LEMMA RosterStep == TypeInv /\ RosterInv /\ [Next]_vars => RosterInv'
<1> SUFFICES ASSUME TypeInv, RosterInv, [Next]_vars PROVE RosterInv'
  OBVIOUS
<1>1. ASSUME NEW c \in Conns, HandleSendTreeMarshal(c) PROVE RosterInv'
  <2>1. PICK here \in TreeIDs :
          \/ UNCHANGED <<rosterRequests, pendingTreeMarshal>>
          \/ /\ rosterRequests' = [rosterRequests EXCEPT ![c][RosterOf[here]] = @ + 1]
             /\ AddPendingTreeMarshal(here)
    BY <1>1 DEF HandleSendTreeMarshal
  <2>2. UNCHANGED pendingTreeLocked /\ RosterOf[here] \in Rosters
    BY <1>1, RosterOfTree DEF HandleSendTreeMarshal
  <2>3. CASE UNCHANGED <<rosterRequests, pendingTreeMarshal>>
    BY <2>2, <2>3 DEF RosterInv
  <2>4. CASE /\ rosterRequests' = [rosterRequests EXCEPT ![c][RosterOf[here]] = @ + 1]
             /\ AddPendingTreeMarshal(here)
    <3>1. \A d \in Conns, r \in Rosters :
             r # RosterOf[here] => rosterRequests'[d][r] = rosterRequests[d][r]
      BY <2>2, <2>4 DEF TypeInv, TypeOK
    <3>2. \A r \in Rosters : pendingTreeMarshal'[r] =
             IF r = RosterOf[here] THEN pendingTreeMarshal[r] \cup {here} ELSE pendingTreeMarshal[r]
      BY <2>2, <2>4 DEF TypeInv, TypeOK, AddPendingTreeMarshal
    <3> QED  BY <2>2, <3>1, <3>2 DEF RosterInv
  <2> QED  BY <2>1, <2>3, <2>4
<1>2. ASSUME NEW c \in Conns, HandleSendRoster(c) PROVE RosterInv'
  <2>1. PICK r \in Rosters : RosterAnswered(c, r) /\ CheckPendingTreeMarshal(r)
    BY <1>2 DEF HandleSendRoster
  <2>2. UNCHANGED pendingTreeMarshal
    BY <1>2 DEF HandleSendRoster
  <2>3. pendingTreeMarshal[r] # {} /\ UNCHANGED pendingTreeLocked
    BY <2>1 DEF RosterAnswered, RosterInv, CheckPendingTreeMarshal
  <2>4. \A d \in Conns, s \in Rosters : rosterRequests'[d][s] > 0 => rosterRequests[d][s] > 0
    BY <2>1 DEF RosterAnswered, TypeInv, TypeOK
  <2> QED  BY <2>2, <2>3, <2>4 DEF RosterInv
<1>3. CASE ~ \E c \in Conns : HandleSendTreeMarshal(c) \/ HandleSendRoster(c)
  <2>1. UNCHANGED <<rosterRequests, pendingTreeMarshal, pendingTreeLocked>>
    BY <1>3
    DEF Next, Transmission, Reception, SavePendingMsg, TestRegistered, RegisterUnknown,
         SendRequest, SendRequestFails, Lookup, InsertInstance, BindInstance,
         NewProtocolFails, NewProtocolNil, Enqueue, Receive, HandleSendTree,
         PeerLacksTree, RegisterTree, HandleConfigMessage, CheckPendingMessages,
         Retransmit, CreateInstance, CreateRegister, CreateBind, NodeDone, RemovalStep,
         CloseOverlay, OverlayClosed, vars, requestVars
  <2> QED  BY <2>1 DEF RosterInv
<1> QED  BY <1>1, <1>2, <1>3

\* checkPendingTreeMarshal returns without releasing pendingTreeLock when no tree
\* waits for the roster (overlay.go:277-281), but that never happens: a roster
\* that arrives was requested, its tree was put on the list first, and the list
\* is never emptied.
THEOREM RosterLockReleased == Spec => []PendingTreeLockFree
<1>1. Init => TypeInv /\ RosterInv
  BY TypeInit, RosterInit
<1>2. TypeInv /\ RosterInv /\ [Next]_vars => (TypeInv /\ RosterInv)'
  BY TypeStep, RosterStep
<1>3. RosterInv => PendingTreeLockFree
  BY DEF RosterInv, PendingTreeLockFree
<1> QED  BY <1>1, <1>2, <1>3, PTL DEF Spec
=============================================================================
