-------------------------- MODULE SideChainProofs --------------------------
(***************************************************************************)
(* Proofs about the side chain, for any number of nodes, any committee     *)
(* size and any round durations.                                           *)
(*                                                                         *)
(* The committee list is read and written by two goroutines without a      *)
(* lock.  That it stays free of duplicates and long enough needs no        *)
(* timing assumption, because every list that is ever written is made from *)
(* one list that was read (Lists).  That it is ordered by recency needs    *)
(* Apart (Recency).                                                        *)
(*                                                                         *)
(* The chains are in step because the counter of wgSyncScRound is the      *)
(* difference between the rounds added and the rounds reported (Counters). *)
(***************************************************************************)
EXTENDS SideChain, TLAPS

\* A committee list that can be cut to a window: no duplicates, long enough.
Sound(s) == Distinct(s) /\ Len(s) >= CommitteeWindow - 1

\* The leader of the epoch, if it is not the root, has its own list by now.
HasOwnList ==
    /\ NextSideChainLeader \notin {Root, NoNode}
    /\ SCRoundNumber # 1 \/ scpc \in {"signing", "signed"}

\* All committee lists, those in the hands of a goroutine included, are sound.
Lists ==
    /\ scpc = "start" => /\ CommitteeNodes = <<>>
                         /\ ledAt = [n \in Nodes |-> 0]
                         /\ mcpc # "updating"
                         /\ SCRoundNumber = 1
    /\ scpc # "start" => /\ Sound(CommitteeNodes)
                         /\ Sound(sent)
                         /\ NextSideChainLeader \in Nodes
    /\ mcpc = "updating" => Sound(readByMain) /\ mcLeader \in Nodes \ {Root}
    /\ scpc = "cutting" => Sound(readBySide)
    /\ scpc \in {"electing", "cutting"} => SCRoundNumber = 1
    /\ HasOwnList => Sound(leaderCommittee)

-----------------------------------------------------------------------------
(* Facts about lists.                                                      *)

\* The durations give a positive number of side chain rounds per epoch.
LEMMA EpochLength ==
    /\ ScPerMc \in Nat /\ ScPerMc >= 1
    /\ MCRoundPerEpoch \in Nat /\ MCRoundPerEpoch >= 1
    /\ ScPerMc * MCRoundPerEpoch \in Nat
    /\ ScPerMc * MCRoundPerEpoch >= 1
  <1>1. ScPerMc \in Nat /\ ScPerMc >= 1
    BY DurationAssumption
  <1>2. MCRoundPerEpoch \in Nat /\ MCRoundPerEpoch >= 1
    BY EpochAssumption
  <1>3. \A a, b \in Nat : a >= 1 /\ b >= 1 => a * b \in Nat /\ a * b >= 1
    OBVIOUS
  <1> QED
    BY <1>1, <1>2, <1>3

\* Epoch numbers are natural numbers.
LEMMA DivisionType == \A a, b \in Nat : b >= 1 => a \div b \in Nat
  OBVIOUS

\* The quotient of a number that is written with quotient and remainder.
LEMMA DivisionFact ==
    ASSUME NEW b \in Nat, b >= 1, NEW q \in Nat, NEW r \in 0..(b - 1)
    PROVE  (b * q + r) \div b = q
  OBVIOUS

\* A prefix of a list.
LEMMA PrefixFacts ==
    ASSUME NEW S, NEW s \in Seq(S), NEW m \in Nat, m <= Len(s)
    PROVE  /\ SubSeq(s, 1, m) \in Seq(S)
           /\ Len(SubSeq(s, 1, m)) = m
           /\ \A i \in 1..m : SubSeq(s, 1, m)[i] = s[i]
  OBVIOUS

\* The window of a sound list is sound and keeps its first member.
LEMMA WindowFacts ==
    ASSUME NEW s \in Seq(Nodes), Sound(s)
    PROVE  /\ Window(s) \in Seq(Nodes)
           /\ Sound(Window(s))
           /\ Len(Window(s)) = CommitteeWindow - 1
           /\ \A i \in 1..Len(Window(s)) : Window(s)[i] = s[i]
           /\ Window(s)[1] = s[1]
           /\ Window(s)[1] \in Nodes
  <1> DEFINE m == CommitteeWindow - 1
  <1>1. m \in Nat /\ m >= 1 /\ m <= Len(s)
    BY CommitteeAssumption DEF Sound
  <1>2. /\ Window(s) \in Seq(Nodes)
        /\ Len(Window(s)) = m
        /\ \A i \in 1..m : Window(s)[i] = s[i]
    BY <1>1, PrefixFacts DEF Window
  <1>3. Distinct(Window(s))
    BY <1>1, <1>2 DEF Sound, Distinct
  <1> QED
    BY <1>1, <1>2, <1>3 DEF Sound

\* The place of n is where n is, or one past the end.
LEMMA PlaceFacts ==
    ASSUME NEW s \in Seq(Nodes), NEW n \in Nodes
    PROVE  /\ Place(s, n) \in 1..(Len(s) + 1)
           /\ Place(s, n) <= Len(s) => s[Place(s, n)] = n
           /\ Place(s, n) > Len(s) => \A i \in 1..Len(s) : s[i] # n
  <1>1. CASE \E i \in 1..Len(s) : s[i] = n
    <2>1. /\ Place(s, n) \in 1..Len(s)
          /\ s[Place(s, n)] = n
      BY <1>1 DEF Place
    <2> QED
      BY <2>1
  <1>2. CASE ~\E i \in 1..Len(s) : s[i] = n
    <2>1. Place(s, n) = Len(s) + 1
      BY <1>2 DEF Place
    <2> QED
      BY <2>1, <1>2
  <1> QED
    BY <1>1, <1>2

\* Where the members of the list are after n has moved to the front.
LEMMA MovedFacts ==
    ASSUME NEW s \in Seq(Nodes), NEW n \in Nodes
    PROVE  /\ MovedToFront(s, n) \in Seq(Nodes)
           /\ Len(MovedToFront(s, n)) >= Len(s)
           /\ Len(MovedToFront(s, n)) >= 1
           /\ MovedToFront(s, n)[1] = n
           /\ \A i \in 2..Len(MovedToFront(s, n)) :
                 IF i <= Place(s, n)
                 THEN i - 1 \in 1..Len(s) /\ MovedToFront(s, n)[i] = s[i - 1]
                 ELSE i \in 1..Len(s) /\ MovedToFront(s, n)[i] = s[i]
  <1> DEFINE p == Place(s, n)
             len == IF p <= Len(s) THEN Len(s) ELSE Len(s) + 1
             t == MovedToFront(s, n)
  <1>1. Len(s) \in Nat /\ p \in 1..(Len(s) + 1)
    BY PlaceFacts
  <1> HIDE DEF p
  <1>2. len \in Nat /\ len >= Len(s) /\ len >= 1 /\ p <= len
    BY <1>1
  <1>3. t = [i \in 1..len |-> IF i = 1 THEN n ELSE IF i <= p THEN s[i - 1] ELSE s[i]]
    BY DEF MovedToFront, p
  <1>4. ASSUME NEW i \in 1..len, i # 1
        PROVE  IF i <= p THEN i - 1 \in 1..Len(s) ELSE i \in 1..Len(s)
    BY <1>1, <1>2, <1>4
  <1> HIDE DEF len
  <1>5. \A i \in 1..len :
           (IF i = 1 THEN n ELSE IF i <= p THEN s[i - 1] ELSE s[i]) \in Nodes
    BY <1>4
  <1>6. t \in Seq(Nodes) /\ Len(t) = len
    <2> HIDE DEF t
    <2>1. t \in [1..len -> Nodes]
      BY <1>3, <1>5
    <2> QED
      BY <2>1, <1>2
  <1>7. t[1] = n
    <2> HIDE DEF t
    <2> QED
      BY <1>2, <1>3
  <1>8. ASSUME NEW i \in 2..len
        PROVE  IF i <= p THEN i - 1 \in 1..Len(s) /\ t[i] = s[i - 1]
                         ELSE i \in 1..Len(s) /\ t[i] = s[i]
    <2> HIDE DEF t
    <2>1. i \in 1..len /\ i # 1
      BY <1>2
    <2> QED
      BY <2>1, <1>3, <1>4
  <1> QED
    BY <1>2, <1>6, <1>7, <1>8 DEF p

\* Moving a node to the front keeps a list sound.
LEMMA MovedSound ==
    ASSUME NEW s \in Seq(Nodes), NEW n \in Nodes, Sound(s)
    PROVE  Sound(MovedToFront(s, n))
  <1> DEFINE p == Place(s, n)
             t == MovedToFront(s, n)
  <1> HIDE DEF p, t
  <1>0. t \in Seq(Nodes) /\ Len(t) >= Len(s) /\ t[1] = n
    BY MovedFacts, Zenon DEF t
  <1>1. Len(s) \in Nat /\ Len(t) \in Nat
    BY <1>0
  <1>2. \A i \in 2..Len(t) :
           IF i <= p THEN i - 1 \in 1..Len(s) /\ t[i] = s[i - 1]
                     ELSE i \in 1..Len(s) /\ t[i] = s[i]
    BY MovedFacts, Zenon DEF t, p
  <1>3. /\ p \in 1..(Len(s) + 1)
        /\ p <= Len(s) => s[p] = n
        /\ p > Len(s) => \A i \in 1..Len(s) : s[i] # n
    BY PlaceFacts DEF p
  <1>4. \A i, j \in 1..Len(s) : s[i] = s[j] => i = j
    BY DEF Sound, Distinct
  <1>5. \A i \in 2..Len(t) : t[i] # n
    <2> SUFFICES ASSUME NEW i \in 2..Len(t) PROVE t[i] # n
      OBVIOUS
    <2>1. CASE i <= p
      BY <2>1, <1>1, <1>2, <1>3, <1>4
    <2>2. CASE i > p
      BY <2>2, <1>1, <1>2, <1>3, <1>4
    <2> QED
      BY <2>1, <2>2, <1>1, <1>3
  <1>6. ASSUME NEW i \in 2..Len(t), NEW j \in 2..Len(t), t[i] = t[j]
        PROVE  i = j
    <2>1. CASE i <= p /\ j <= p
      BY <2>1, <1>6, <1>1, <1>2, <1>4
    <2>2. CASE i > p /\ j > p
      BY <2>2, <1>6, <1>1, <1>2, <1>3, <1>4
    <2>3. CASE i <= p /\ j > p
      BY <2>3, <1>6, <1>1, <1>2, <1>3, <1>4
    <2>4. CASE i > p /\ j <= p
      BY <2>4, <1>6, <1>1, <1>2, <1>3, <1>4
    <2> QED
      BY <2>1, <2>2, <2>3, <2>4, <1>1, <1>3
  <1>7. Distinct(t)
    <2> SUFFICES ASSUME NEW i \in 1..Len(t), NEW j \in 1..Len(t), t[i] = t[j]
                 PROVE  i = j
      BY DEF Distinct
    <2> QED
      BY <1>0, <1>1, <1>5, <1>6
  <1> QED
    BY <1>0, <1>1, <1>7, CommitteeAssumption DEF Sound, t

-----------------------------------------------------------------------------
(* Types and lists.                                                        *)

\* The main chain is within its rounds.
Running ==
    /\ mcpc \in {"start", "filling"} => MCRoundNumber = 1
    /\ mcpc # "stopped" => MCRoundNumber <= SimulationRounds

IndInv == TypeOK /\ Running /\ Lists

\* Before the chains start there are no lists.
LEMMA InitIndInv == Init => IndInv
  <1> SUFFICES ASSUME Init PROVE IndInv
    OBVIOUS
  <1> USE EpochLength, DurationAssumption, NodesAssumption DEF Init
  <1>1. TypeOK
    BY DEF TypeOK
  <1>2. Lists /\ Running
    BY DEF Lists, HasOwnList, Running
  <1> QED
    BY <1>1, <1>2 DEF IndInv

\* Steps of the main chain that leave the committee alone.
LEMMA MainPlainSteps ==
    ASSUME IndInv,
           \/ StartMainChainProtocol \/ AnnounceSecondRound \/ LeaderlessRound
           \/ WaitForSideChain \/ AddSideChainRounds \/ CloseRound
    PROVE  IndInv'
  <1> USE EpochLength, DurationAssumption, NodesAssumption
          DEF IndInv, TypeOK, Running, Lists, HasOwnList, sideVars, tailVars
  <1>1. CASE StartMainChainProtocol
    BY <1>1 DEF StartMainChainProtocol
  <1>2. CASE AnnounceSecondRound
    BY <1>2 DEF AnnounceSecondRound, NextMainRound
  <1>3. CASE LeaderlessRound
    BY <1>3 DEF LeaderlessRound
  <1>4. CASE WaitForSideChain
    BY <1>4 DEF WaitForSideChain
  <1>5. CASE AddSideChainRounds
    BY <1>5 DEF AddSideChainRounds, AddedRounds
  <1>6. CASE CloseRound
    BY <1>6 DEF CloseRound, NextMainRound
  <1> QED
    BY <1>1, <1>2, <1>3, <1>4, <1>5, <1>6

\* The two halves of UpdateSideChainCommittee.
LEMMA MainUpdateSteps ==
    ASSUME IndInv,
           \/ \E n \in Nodes \ {Root} : UpdateSideChainCommittee(n)
           \/ StoreCommittee
    PROVE  IndInv'
  <1> USE NodesAssumption DEF IndInv, sideVars, tailVars
  <1>1. ASSUME NEW n \in Nodes \ {Root}, UpdateSideChainCommittee(n)
        PROVE  IndInv'
    <2>1. TypeOK'
      BY <1>1 DEF UpdateSideChainCommittee, TypeOK
    <2>2. Lists' /\ Running'
      BY <1>1 DEF UpdateSideChainCommittee, Lists, Running, HasOwnList, TypeOK
    <2> QED
      BY <2>1, <2>2
  <1>2. CASE StoreCommittee
    <2>1. /\ readByMain \in Seq(Nodes) /\ mcLeader \in Nodes /\ Sound(readByMain)
          /\ scpc # "start"
      BY <1>2 DEF StoreCommittee, TypeOK, Lists
    <2>2. CommitteeNodes' \in Seq(Nodes) /\ Sound(CommitteeNodes')
      BY <1>2, <2>1, MovedFacts, MovedSound, Zenon DEF StoreCommittee
    <2>3. TypeOK'
      BY <1>2, <2>2 DEF StoreCommittee, TypeOK
    <2>4. Lists' /\ Running'
      BY <1>2, <2>1, <2>2 DEF StoreCommittee, Lists, Running, HasOwnList
    <2> QED
      BY <2>3, <2>4
  <1> QED
    BY <1>1, <1>2

\* The side chain's start: the first committee is the one that is drawn.
LEMMA StartSideStep ==
    ASSUME IndInv, StartSideChainProtocol
    PROVE  /\ IndInv'
           /\ CommitteeNodes' \in FirstCommittees
           /\ sent' = CommitteeNodes'
           /\ NextSideChainLeader' = CommitteeNodes'[1]
  <1> USE NodesAssumption DEF IndInv, mainVars, tailVars
  <1>1. PICK s \in FirstCommittees :
           /\ CommitteeNodes' = CommitteeNodes \o s
           /\ sent' = CommitteeNodes \o s
           /\ NextSideChainLeader' = (CommitteeNodes \o s)[1]
    BY DEF StartSideChainProtocol
  <1>2. /\ s \in Seq(Nodes) /\ Len(s) = CommitteeWindow /\ Distinct(s)
        /\ CommitteeWindow \in Nat /\ CommitteeWindow >= 2
    BY CommitteeAssumption
  <1>3. CommitteeNodes = <<>>
    BY DEF StartSideChainProtocol, Lists
  <1>4. CommitteeNodes \o s = s
    BY <1>2, <1>3
  <1>5. Sound(s) /\ s[1] \in Nodes
    BY <1>2 DEF Sound
  <1>6. TypeOK'
    BY <1>1, <1>2, <1>4, <1>5 DEF StartSideChainProtocol, TypeOK
  <1>7. Lists' /\ Running'
    BY <1>1, <1>4, <1>5
       DEF StartSideChainProtocol, Lists, Running, HasOwnList, TypeOK
  <1> QED
    BY <1>1, <1>4, <1>6, <1>7

\* The leader's step: whichever list it works with is long enough to be cut.
LEMMA LeaderStep ==
    ASSUME IndInv, SideChainLeaderPreNewRound
    PROVE  IndInv'
  <1> USE NodesAssumption DEF IndInv, mainVars, tailVars
  <1>1. /\ scpc = "announced" /\ scpc' = "signing"
        /\ UNCHANGED <<mainVars, SCRoundNumber, readBySide, NextSideChainLeader,
                       sent, wgSyncScRound, wgSyncMcRound, tailVars, summaries>>
    BY DEF SideChainLeaderPreNewRound
  <1>2. /\ Sound(CommitteeNodes) /\ Sound(sent) /\ NextSideChainLeader \in Nodes
        /\ CommitteeNodes \in Seq(Nodes) /\ sent \in Seq(Nodes)
        /\ leaderCommittee \in Seq(Nodes)
    BY <1>1 DEF Lists, TypeOK
  <1>3. \A s \in Seq(Nodes) :
           Sound(s) => SubSeq(s, 1, CommitteeWindow - 1) \in Seq(Nodes)
    BY WindowFacts DEF Window
  <1>4. CASE SCRoundNumber = 1
    <2>1. /\ roster' = SubSeq(sent, 1, CommitteeWindow - 1)
          /\ IF NextSideChainLeader = Root
             THEN CommitteeNodes' = sent /\ leaderCommittee' = leaderCommittee
             ELSE leaderCommittee' = sent /\ CommitteeNodes' = CommitteeNodes
      BY <1>4 DEF SideChainLeaderPreNewRound
    <2>2. roster' \in Seq(Nodes)
      BY <2>1, <1>2, <1>3
    <2>3. TypeOK'
      BY <1>1, <1>2, <2>1, <2>2 DEF TypeOK
    <2>4. Lists' /\ Running'
      BY <1>1, <1>2, <2>1 DEF Lists, Running, HasOwnList
    <2> QED
      BY <2>3, <2>4
  <1>5. CASE SCRoundNumber # 1
    <2>1. /\ roster' = SubSeq(KeptList, 1, CommitteeWindow - 1)
          /\ UNCHANGED <<CommitteeNodes, leaderCommittee>>
      BY <1>5 DEF SideChainLeaderPreNewRound
    <2>2. KeptList \in Seq(Nodes) /\ Sound(KeptList)
      BY <1>1, <1>2, <1>5 DEF KeptList, Lists, HasOwnList
    <2>3. roster' \in Seq(Nodes)
      BY <2>1, <2>2, <1>3
    <2>4. TypeOK'
      BY <1>1, <2>1, <2>3 DEF TypeOK
    <2>5. Lists' /\ Running'
      BY <1>1, <1>5, <2>1 DEF Lists, Running, HasOwnList
    <2> QED
      BY <2>4, <2>5
  <1> QED
    BY <1>4, <1>5

\* The root's step after a block: a summary block starts the epoch anew.
LEMMA PostRoundStep ==
    ASSUME IndInv, SideChainRootPostNewRound
    PROVE  IndInv'
  <1> USE NodesAssumption, EpochLength DEF IndInv, mainVars, tailVars
  <1>1. /\ scpc = "signed"
        /\ wgSyncScRound' = wgSyncScRound - 1
        /\ UNCHANGED <<mainVars, CommitteeNodes, readBySide, NextSideChainLeader,
                       sent, leaderCommittee, roster, wgSyncMcRound, tailVars>>
    BY DEF SideChainRootPostNewRound
  <1>2. CASE SummaryRound
    <2>1. /\ SCRoundNumber' = 1
          /\ summaries' = Append(summaries, MCRoundNumber \div MCRoundPerEpoch)
          /\ scpc' = "electing"
      BY <1>2 DEF SideChainRootPostNewRound
    <2>2. MCRoundNumber \div MCRoundPerEpoch \in Nat
      <3>1. MCRoundNumber \in Nat
        BY DEF TypeOK
      <3> QED
        BY <3>1, EpochLength, DivisionType
    <2>3. TypeOK'
      BY <1>1, <2>1, <2>2 DEF TypeOK
    <2>4. Lists' /\ Running'
      BY <1>1, <2>1 DEF Lists, Running, HasOwnList
    <2> QED
      BY <2>3, <2>4
  <1>3. CASE ~SummaryRound
    <2>1. /\ SCRoundNumber' = SCRoundNumber + 1
          /\ summaries' = summaries
          /\ scpc' = "notify"
      BY <1>3 DEF SideChainRootPostNewRound
    <2>2. SCRoundNumber' \in 1..(ScPerMc * MCRoundPerEpoch)
      BY <1>3, <2>1 DEF SummaryRound, TypeOK
    <2>3. TypeOK'
      BY <1>1, <2>1, <2>2 DEF TypeOK
    <2>4. Lists' /\ Running'
      BY <1>1, <2>1 DEF Lists, Running, HasOwnList
    <2> QED
      BY <2>3, <2>4
  <1> QED
    BY <1>2, <1>3

\* The epoch change.
LEMMA EpochSteps ==
    ASSUME IndInv, ReadCommittee \/ CutCommittee
    PROVE  IndInv'
  <1> USE NodesAssumption DEF IndInv, mainVars, tailVars
  <1>1. CASE ReadCommittee
    <2>1. TypeOK'
      BY <1>1 DEF ReadCommittee, TypeOK
    <2>2. Lists' /\ Running'
      BY <1>1 DEF ReadCommittee, Lists, Running, HasOwnList
    <2> QED
      BY <2>1, <2>2
  <1>2. CASE CutCommittee
    <2>1. readBySide \in Seq(Nodes) /\ Sound(readBySide) /\ SCRoundNumber = 1
      BY <1>2 DEF CutCommittee, TypeOK, Lists
    <2>2. /\ Window(readBySide) \in Seq(Nodes)
          /\ Sound(Window(readBySide))
          /\ Window(readBySide)[1] \in Nodes
      BY <2>1, WindowFacts
    <2>3. TypeOK'
      BY <1>2, <2>2 DEF CutCommittee, TypeOK
    <2>4. Lists' /\ Running'
      BY <1>2, <2>1, <2>2 DEF CutCommittee, Lists, Running, HasOwnList
    <2> QED
      BY <2>3, <2>4
  <1> QED
    BY <1>1, <1>2

\* Steps of the side chain that leave the committee alone.
LEMMA SidePlainSteps ==
    ASSUME IndInv,
           FinalSignature \/ NotifyLeader \/ WaitForMainChain \/ AddMainChainRound
    PROVE  IndInv'
  <1> USE NodesAssumption
          DEF IndInv, TypeOK, Running, Lists, HasOwnList, mainVars, sideVars, tailVars
  <1>1. CASE FinalSignature
    BY <1>1 DEF FinalSignature
  <1>2. CASE NotifyLeader
    BY <1>2 DEF NotifyLeader
  <1>3. CASE WaitForMainChain
    BY <1>3 DEF WaitForMainChain
  <1>4. CASE AddMainChainRound
    BY <1>4 DEF AddMainChainRound
  <1> QED
    BY <1>1, <1>2, <1>3, <1>4

\* Every step preserves the invariant.
LEMMA NextIndInv == IndInv /\ [Next]_vars => IndInv'
  <1> SUFFICES ASSUME IndInv, [Next]_vars PROVE IndInv'
    OBVIOUS
  <1>1. CASE UNCHANGED vars
    BY <1>1 DEF IndInv, TypeOK, Running, Lists, HasOwnList, vars
  <1>2. CASE MainStep
    BY <1>2, MainPlainSteps, MainUpdateSteps DEF MainStep
  <1>3. CASE SideStep
    BY <1>3, StartSideStep, LeaderStep, PostRoundStep, EpochSteps, SidePlainSteps
       DEF SideStep
  <1> QED
    BY <1>1, <1>2, <1>3 DEF Next

\* The types and the soundness of all lists hold whatever the timing.
THEOREM IndInvHolds == Spec => []IndInv
  BY InitIndInv, NextIndInv, PTL DEF Spec

\* Type correctness of the side chain and its coupling to the main chain.
THEOREM SideTypeCorrect == Spec => []TypeOK
  <1>1. IndInv => TypeOK
    BY DEF IndInv
  <1> QED
    BY <1>1, IndInvHolds, PTL

\* However the epoch change and UpdateSideChainCommittee interleave, the
\* committee has no node twice, and the slices that are cut from it
\* (SideChainProtocol(ChainBoost).go:111, 123, 233) are within it.
THEOREM SoundCommittee == Spec => []CommitteeSound
  <1>1. IndInv => CommitteeSound
    BY DEF IndInv, Lists, Sound, CommitteeSound
  <1> QED
    BY <1>1, IndInvHolds, PTL

-----------------------------------------------------------------------------
(* The chains run in step.                                                 *)

\* The wait group counts the rounds that are added but not yet reported.
Counters ==
    /\ wgSyncScRound = ScPerMc * RoundsAdded - RoundsReported
    /\ wgSyncScRound <= ScPerMc
    /\ mcpc \in {"start", "adding"} => wgSyncScRound <= 0
    /\ Paced => wgSyncScRound >= 0

\* Products of the numbers of rounds.
LEMMA Products ==
    /\ \A a \in Nat, b \in Int : a * b \in Int
    /\ \A a \in Nat, b \in Int : a * (b + 1) = a * b + a
    /\ \A a \in Nat, b \in Int : a * (b - 1) = a * b - a
    /\ \A a \in Nat : a * 0 = 0 /\ a * 1 = a
  OBVIOUS

\* The two counts are integers.
LEMMA CountTypes ==
    ASSUME TypeOK
    PROVE  /\ RoundsAdded \in Int
           /\ RoundsReported \in Nat
           /\ ScPerMc * RoundsAdded \in Int
  <1>1. MCRoundNumber \in Int /\ SCRoundNumber \in Nat /\ SCRoundNumber >= 1
    BY EpochLength DEF TypeOK
  <1>2. RoundsAdded \in Int
    BY <1>1 DEF RoundsAdded
  <1>3. Len(summaries) * (ScPerMc * MCRoundPerEpoch) \in Nat
    <2>1. Len(summaries) \in Nat
      BY DEF TypeOK
    <2>2. \A a, b \in Nat : a * b \in Nat
      OBVIOUS
    <2> QED
      BY <2>1, <2>2, EpochLength
  <1>4. RoundsReported \in Nat
    BY <1>1, <1>3 DEF RoundsReported
  <1> QED
    BY <1>2, <1>4, EpochLength, Products

\* The root's step after a block reports one more round.
LEMMA OneMoreReported ==
    ASSUME TypeOK, SideChainRootPostNewRound
    PROVE  RoundsReported' = RoundsReported + 1
  <1> DEFINE E == ScPerMc * MCRoundPerEpoch
  <1>1. /\ E \in Nat /\ Len(summaries) \in Nat /\ SCRoundNumber \in Nat
        /\ summaries \in Seq(Nat)
    BY EpochLength DEF TypeOK
  <1>2. Len(summaries) * E \in Int
    BY <1>1, Products
  <1>3. CASE SummaryRound
    <2>1. SCRoundNumber = E /\ SCRoundNumber' = 1
      BY <1>3 DEF SideChainRootPostNewRound, SummaryRound
    <2>2. Len(summaries') = Len(summaries) + 1
      BY <1>1, <1>3 DEF SideChainRootPostNewRound
    <2> HIDE DEF E
    <2>3. (Len(summaries) + 1) * E = Len(summaries) * E + E
      BY <1>1
    <2>4. Len(summaries') * E + SCRoundNumber' - 1
             = (Len(summaries) * E + SCRoundNumber - 1) + 1
      BY <1>1, <1>2, <2>1, <2>2, <2>3
    <2> QED
      BY <2>4 DEF RoundsReported, E
  <1>4. CASE ~SummaryRound
    <2>1. SCRoundNumber' = SCRoundNumber + 1 /\ summaries' = summaries
      BY <1>4 DEF SideChainRootPostNewRound
    <2> HIDE DEF E
    <2>2. Len(summaries') * E + SCRoundNumber' - 1
             = (Len(summaries) * E + SCRoundNumber - 1) + 1
      BY <1>1, <1>2, <2>1
    <2> QED
      BY <2>2 DEF RoundsReported, E
  <1> QED
    BY <1>3, <1>4

\* Nothing is added or reported when the chains start.
LEMMA InitCounters == Init => Counters
  <1> SUFFICES ASSUME Init PROVE Counters
    OBVIOUS
  <1>1. RoundsAdded = 0
    BY DEF Init, RoundsAdded
  <1>2. RoundsReported = 0
    BY EpochLength DEF Init, RoundsReported
  <1> QED
    BY <1>1, <1>2, EpochLength, Products DEF Init, Counters

\* Every step keeps the balance.
LEMMA NextCounters == IndInv /\ Counters /\ [Next]_vars => Counters'
  <1> SUFFICES ASSUME IndInv, Counters, [Next]_vars PROVE Counters'
    OBVIOUS
  <1> DEFINE A == RoundsAdded
             R == RoundsReported
  <1>1. /\ A \in Int /\ R \in Nat /\ ScPerMc * A \in Int
        /\ wgSyncScRound \in Int /\ MCRoundNumber \in Int
    BY CountTypes DEF IndInv, TypeOK
  <1>2. ScPerMc \in Nat /\ ScPerMc >= 1
    BY EpochLength
  <1>3. ASSUME UNCHANGED <<MCRoundNumber, mcpc, SCRoundNumber, summaries, wgSyncScRound>>
        PROVE  Counters'
    BY <1>3 DEF Counters, RoundsAdded, RoundsReported
  <1>4. ASSUME R' = R, A' = A, wgSyncScRound' = wgSyncScRound,
               mcpc' \in {"start", "adding"} => wgSyncScRound <= 0
        PROVE  Counters'
    BY <1>4 DEF Counters
  <1>5. ASSUME R' = R, A' = A + 1, wgSyncScRound' = wgSyncScRound + ScPerMc,
               mcpc \in {"start", "adding"}, mcpc' \notin {"start", "adding"}
        PROVE  Counters'
    <2>1. ScPerMc * A' = ScPerMc * A + ScPerMc
      BY <1>1, <1>2, <1>5, Products
    <2> QED
      BY <2>1, <1>1, <1>2, <1>5 DEF Counters
  <1>6. CASE StartMainChainProtocol
    <2>1. R' = R
      BY <1>6 DEF StartMainChainProtocol, RoundsReported, sideVars
    <2>2. A' = A + 1
      BY <1>1, <1>6 DEF StartMainChainProtocol, RoundsAdded
    <2> QED
      BY <1>5, <1>6, <2>1, <2>2 DEF StartMainChainProtocol
  <1>7. CASE AddSideChainRounds
    <2>1. R' = R
      BY <1>7 DEF AddSideChainRounds, RoundsReported, sideVars
    <2>2. A' = A + 1
      BY <1>1, <1>7 DEF AddSideChainRounds, RoundsAdded
    <2> QED
      BY <1>5, <1>7, <2>1, <2>2 DEF AddSideChainRounds, AddedRounds
  <1>8. CASE AnnounceSecondRound \/ CloseRound
    <2>1. R' = R /\ wgSyncScRound' = wgSyncScRound
      BY <1>8 DEF AnnounceSecondRound, CloseRound, RoundsReported, sideVars
    <2>2. A' = A /\ mcpc' \notin {"start", "adding"}
      BY <1>1, <1>8 DEF AnnounceSecondRound, CloseRound, NextMainRound, RoundsAdded
    <2> QED
      BY <1>4, <2>1, <2>2
  <1>9. CASE LeaderlessRound \/ StoreCommittee \/ WaitForSideChain
             \/ \E n \in Nodes \ {Root} : UpdateSideChainCommittee(n)
    <2>1. R' = R /\ wgSyncScRound' = wgSyncScRound
      BY <1>9 DEF LeaderlessRound, StoreCommittee, WaitForSideChain,
                  UpdateSideChainCommittee, RoundsReported, sideVars
    <2>2. A' = A /\ (mcpc' \in {"start", "adding"} => wgSyncScRound <= 0)
      BY <1>1, <1>9 DEF LeaderlessRound, StoreCommittee, WaitForSideChain,
                        UpdateSideChainCommittee, RoundsAdded
    <2> QED
      BY <1>4, <2>1, <2>2
  <1>10. CASE SideChainRootPostNewRound
    <2>1. R' = R + 1
      BY <1>10, OneMoreReported DEF IndInv
    <2>2. /\ A' = A /\ mcpc' = mcpc
          /\ wgSyncScRound' = wgSyncScRound - 1
          /\ Paced => wgSyncScRound > 0
      BY <1>10 DEF SideChainRootPostNewRound, RoundsAdded, mainVars
    <2> QED
      BY <1>1, <1>2, <2>1, <2>2 DEF Counters
  <1>11. CASE \/ StartSideChainProtocol \/ SideChainLeaderPreNewRound
              \/ FinalSignature \/ ReadCommittee \/ CutCommittee \/ NotifyLeader
              \/ WaitForMainChain \/ AddMainChainRound
    BY <1>3, <1>11
       DEF StartSideChainProtocol, SideChainLeaderPreNewRound, FinalSignature,
           ReadCommittee, CutCommittee, NotifyLeader, WaitForMainChain,
           AddMainChainRound, mainVars, sideVars, tailVars
  <1>12. CASE UNCHANGED vars
    BY <1>3, <1>12 DEF vars
  <1> QED
    BY <1>6, <1>7, <1>8, <1>9, <1>10, <1>11, <1>12 DEF Next, MainStep, SideStep

\* The balance holds in every state.
THEOREM CountersHold == Spec => [](IndInv /\ Counters)
  BY IndInvHolds, InitCounters, NextCounters, PTL DEF Spec

\* When the side chain is not faster than the main chain, the side chain is
\* never ahead of what the main chain has added and at most one main chain
\* round behind it (MainChainProtocol.go:177-180).
THEOREM InStep == Paced => (Spec => []LockStep)
  <1> SUFFICES ASSUME Paced PROVE Spec => []LockStep
    OBVIOUS
  <1>1. IndInv /\ Counters => LockStep
    <2> SUFFICES ASSUME IndInv, Counters PROVE LockStep
      OBVIOUS
    <2>1. /\ RoundsAdded \in Int /\ RoundsReported \in Nat
          /\ ScPerMc * RoundsAdded \in Int /\ wgSyncScRound \in Int
      BY CountTypes DEF IndInv, TypeOK
    <2>2. ScPerMc * (RoundsAdded - 1) = ScPerMc * RoundsAdded - ScPerMc
      BY <2>1, EpochLength, Products
    <2> QED
      BY <2>1, <2>2, EpochLength DEF Counters, LockStep
  <1> QED
    BY <1>1, CountersHold, PTL

-----------------------------------------------------------------------------
(* Epoch numbers.                                                          *)

\* A multiple of k that is less than k away from another, and not below it,
\* is the same.
LEMMA SameMultiple ==
    ASSUME NEW k \in Nat, k >= 1, NEW a \in Int, NEW b \in Int,
           k * a - k * b >= 0, k * a - k * b <= k - 1
    PROVE  a = b
  <1>1. CASE a > b
    <2>1. PICK d \in Nat : a = (b + 1) + d
      <3>1. a - b - 1 \in Nat /\ a = (b + 1) + (a - b - 1)
        BY <1>1
      <3> QED
        BY <3>1
    <2>2. k * a = k * b + k + k * d
      BY <2>1
    <2>3. k * d \in Nat
      OBVIOUS
    <2> QED
      BY <2>2, <2>3
  <1>2. CASE a < b
    <2>1. PICK d \in Nat : b = (a + 1) + d
      <3>1. b - a - 1 \in Nat /\ b = (a + 1) + (b - a - 1)
        BY <1>2
      <3> QED
        BY <3>1
    <2>2. k * b = k * a + k + k * d
      BY <2>1
    <2>3. k * d \in Nat
      OBVIOUS
    <2> QED
      BY <2>2, <2>3
  <1> QED
    BY <1>1, <1>2

\* When a summary block is written, the main chain has added exactly the
\* rounds of all epochs up to this one.
LEMMA AddedAtSummary ==
    ASSUME IndInv, Counters, Paced, SideChainRootPostNewRound, SummaryRound
    PROVE  RoundsAdded = MCRoundPerEpoch * (Len(summaries) + 1)
  <1> DEFINE k == ScPerMc
             P == MCRoundPerEpoch
             L == Len(summaries)
             A == RoundsAdded
  <1>1. /\ k \in Nat /\ k >= 1 /\ P \in Nat /\ L \in Nat
        /\ A \in Int /\ wgSyncScRound \in Int
    BY EpochLength, CountTypes DEF IndInv, TypeOK
  <1>2. RoundsReported = L * (k * P) + k * P - 1
    BY DEF SummaryRound, RoundsReported
  <1>3. /\ wgSyncScRound = k * A - RoundsReported
        /\ wgSyncScRound > 0 /\ wgSyncScRound <= k
    BY DEF Counters, SideChainRootPostNewRound
  <1> HIDE DEF k, P, L, A
  <1>4. P * (L + 1) \in Int /\ k * A \in Int /\ k * (P * (L + 1)) \in Int
    BY <1>1
  <1>5. L * (k * P) + k * P = k * (P * (L + 1))
    BY <1>1
  <1>6. L * (k * P) \in Int /\ k * P \in Int
    BY <1>1
  <1>7. RoundsReported = k * (P * (L + 1)) - 1
    BY <1>2, <1>4, <1>5, <1>6
  <1>8. /\ k * A - k * (P * (L + 1)) >= 0
        /\ k * A - k * (P * (L + 1)) <= k - 1
    BY <1>1, <1>3, <1>4, <1>7
  <1>9. A = P * (L + 1)
    BY <1>1, <1>4, <1>8, SameMultiple
  <1> QED
    BY <1>9 DEF A, P, L

\* The root computes the right epoch number for every summary block.  An
\* epoch of a single main chain round would be numbered one too high.
THEOREM EpochNumbers ==
    Paced /\ MCRoundPerEpoch >= 2 => (Spec => []SummaryEpochs)
  <1> SUFFICES ASSUME Paced, MCRoundPerEpoch >= 2 PROVE Spec => []SummaryEpochs
    OBVIOUS
  <1>1. Init => SummaryEpochs
    BY DEF Init, SummaryEpochs
  <1>2. IndInv /\ Counters /\ SummaryEpochs /\ [Next]_vars => SummaryEpochs'
    <2> SUFFICES ASSUME IndInv, Counters, SummaryEpochs, [Next]_vars
                 PROVE  SummaryEpochs'
      OBVIOUS
    <2>1. CASE UNCHANGED summaries
      BY <2>1 DEF SummaryEpochs
    <2>2. CASE SideChainRootPostNewRound /\ SummaryRound
      <3> DEFINE P == MCRoundPerEpoch
                 L == Len(summaries)
      <3>1. P \in Nat /\ P >= 2 /\ summaries \in Seq(Nat) /\ L \in Nat
        BY EpochLength DEF IndInv, TypeOK
      <3>2. RoundsAdded = P * (L + 1)
        BY <2>2, AddedAtSummary
      <3>3. summaries' = Append(summaries, MCRoundNumber \div P)
        BY <2>2 DEF SideChainRootPostNewRound
      <3>4. MCRoundNumber \in Nat
        BY DEF IndInv, TypeOK
      <3>5. MCRoundNumber = RoundsAdded + 0 \/ MCRoundNumber = RoundsAdded + 1
        BY <3>4 DEF RoundsAdded
      <3> HIDE DEF P, L
      <3>6. MCRoundNumber \div P = L + 1
        <4>1. PICK r \in 0..1 : MCRoundNumber = P * (L + 1) + r
          BY <3>2, <3>5
        <4>2. L + 1 \in Nat /\ r \in 0..(P - 1)
          BY <3>1
        <4>3. (P * (L + 1) + r) \div P = L + 1
          BY <3>1, <4>2, DivisionFact
        <4> QED
          BY <4>1, <4>3
      <3>7. /\ Len(summaries') = L + 1
            /\ \A i \in 1..L : summaries'[i] = summaries[i]
            /\ summaries'[L + 1] = L + 1
        BY <3>1, <3>3, <3>6 DEF L
      <3> QED
        BY <3>1, <3>7 DEF SummaryEpochs, L
    <2>3. CASE SideChainRootPostNewRound /\ ~SummaryRound
      BY <2>1, <2>3 DEF SideChainRootPostNewRound
    <2>4. CASE MainStep
      BY <2>1, <2>4 DEF MainStep, StartMainChainProtocol, AnnounceSecondRound,
         LeaderlessRound, UpdateSideChainCommittee, StoreCommittee,
         WaitForSideChain, AddSideChainRounds, CloseRound, sideVars
    <2>5. CASE SideStep /\ ~SideChainRootPostNewRound
      BY <2>1, <2>5 DEF SideStep, StartSideChainProtocol,
         SideChainLeaderPreNewRound, FinalSignature, ReadCommittee,
         CutCommittee, NotifyLeader, WaitForMainChain, AddMainChainRound, sideVars
    <2> QED
      BY <2>1, <2>2, <2>3, <2>4, <2>5 DEF Next, vars
  <1> QED
    BY <1>1, <1>2, CountersHold, PTL DEF Spec

-----------------------------------------------------------------------------
(* The committee of an epoch.                                              *)

\* The root is not the first member of a committee that may be drawn.
RootNotFirst == \A s \in FirstCommittees : s[1] # Root

\* The root never leads the side chain, and the leader of the epoch, once it
\* has a list of its own, signs with the window of that list.
LeaderNotRoot ==
    /\ scpc # "start" => CommitteeNodes[1] # Root /\ NextSideChainLeader # Root
    /\ scpc = "cutting" => readBySide[1] # Root
    /\ HasOwnList => roster = SubSeq(leaderCommittee, 1, CommitteeWindow - 1)

\* With a first committee that is not headed by the root, the root never
\* comes to lead: only main chain leaders move to the front of the list.
LEMMA NextLeaderNotRoot ==
    ASSUME RootNotFirst, IndInv, LeaderNotRoot, [Next]_vars
    PROVE  /\ LeaderNotRoot'
           /\ roster' # roster => SCRoundNumber = 1
  <1>1. CASE \/ UNCHANGED vars
             \/ StartMainChainProtocol \/ AnnounceSecondRound \/ LeaderlessRound
             \/ WaitForSideChain \/ AddSideChainRounds \/ CloseRound
             \/ \E n \in Nodes \ {Root} : UpdateSideChainCommittee(n)
    <2>1. UNCHANGED <<scpc, CommitteeNodes, NextSideChainLeader, readBySide,
                      SCRoundNumber, roster, leaderCommittee>>
      BY <1>1 DEF vars, StartMainChainProtocol, AnnounceSecondRound,
         LeaderlessRound, WaitForSideChain, AddSideChainRounds, CloseRound,
         UpdateSideChainCommittee, sideVars
    <2> QED
      BY <2>1 DEF LeaderNotRoot, HasOwnList
  <1>2. CASE StoreCommittee
    <2>1. readByMain \in Seq(Nodes) /\ mcLeader \in Nodes \ {Root}
      BY <1>2 DEF StoreCommittee, IndInv, TypeOK, Lists
    <2>2. CommitteeNodes'[1] = mcLeader
      BY <1>2, <2>1, MovedFacts, Zenon DEF StoreCommittee
    <2>3. UNCHANGED <<scpc, NextSideChainLeader, readBySide, SCRoundNumber,
                      roster, leaderCommittee>>
      BY <1>2 DEF StoreCommittee, sideVars
    <2> QED
      BY <2>1, <2>2, <2>3 DEF LeaderNotRoot, HasOwnList
  <1>3. CASE StartSideChainProtocol
    <2>1. /\ CommitteeNodes' \in FirstCommittees
          /\ NextSideChainLeader' = CommitteeNodes'[1]
      BY <1>3, StartSideStep
    <2>2. CommitteeNodes'[1] # Root
      BY <2>1 DEF RootNotFirst
    <2>3. SCRoundNumber' = 1 /\ scpc' = "announced" /\ roster' = roster
      BY <1>3 DEF StartSideChainProtocol, IndInv, Lists
    <2> QED
      BY <2>1, <2>2, <2>3 DEF LeaderNotRoot, HasOwnList
  <1>4. CASE SideChainLeaderPreNewRound
    <2>1. /\ NextSideChainLeader # Root /\ NextSideChainLeader \in Nodes
          /\ scpc = "announced" /\ scpc' = "signing"
          /\ UNCHANGED <<NextSideChainLeader, readBySide, SCRoundNumber>>
          /\ CommitteeNodes' = CommitteeNodes
      BY <1>4 DEF SideChainLeaderPreNewRound, LeaderNotRoot, IndInv, Lists
    <2>2. CASE SCRoundNumber = 1
      <3>1. roster' = SubSeq(leaderCommittee', 1, CommitteeWindow - 1)
        BY <1>4, <2>1, <2>2 DEF SideChainLeaderPreNewRound
      <3> QED
        BY <2>1, <2>2, <3>1 DEF LeaderNotRoot, HasOwnList
    <2>3. CASE SCRoundNumber # 1
      <3>1. roster' = SubSeq(leaderCommittee, 1, CommitteeWindow - 1)
        BY <1>4, <2>1, <2>3 DEF SideChainLeaderPreNewRound, KeptList
      <3>2. leaderCommittee' = leaderCommittee
        BY <1>4, <2>1, <2>3 DEF SideChainLeaderPreNewRound
      <3>3. roster = SubSeq(leaderCommittee, 1, CommitteeWindow - 1)
        BY <2>1, <2>3, NodesAssumption DEF LeaderNotRoot, HasOwnList
      <3> QED
        BY <2>1, <2>3, <3>1, <3>2, <3>3 DEF LeaderNotRoot, HasOwnList
    <2> QED
      BY <2>2, <2>3
  <1>5. CASE SideChainRootPostNewRound
    <2>1. /\ UNCHANGED <<CommitteeNodes, NextSideChainLeader, readBySide,
                         roster, leaderCommittee>>
          /\ scpc = "signed" /\ scpc' \in {"electing", "notify"}
          /\ scpc' = "electing" => SCRoundNumber' = 1
      BY <1>5 DEF SideChainRootPostNewRound
    <2> QED
      BY <2>1 DEF LeaderNotRoot, HasOwnList
  <1>6. CASE ReadCommittee
    BY <1>6 DEF ReadCommittee, LeaderNotRoot, HasOwnList
  <1>7. CASE CutCommittee
    <2>1. readBySide \in Seq(Nodes) /\ Sound(readBySide) /\ SCRoundNumber = 1
      BY <1>7 DEF CutCommittee, IndInv, TypeOK, Lists
    <2>2. Window(readBySide)[1] # Root
      BY <1>7, <2>1, WindowFacts DEF CutCommittee, LeaderNotRoot
    <2> QED
      BY <1>7, <2>1, <2>2 DEF CutCommittee, LeaderNotRoot, HasOwnList
  <1>8. CASE FinalSignature \/ NotifyLeader \/ WaitForMainChain \/ AddMainChainRound
    BY <1>8 DEF FinalSignature, NotifyLeader, WaitForMainChain,
       AddMainChainRound, sideVars, LeaderNotRoot, HasOwnList
  <1> QED
    BY <1>1, <1>2, <1>3, <1>4, <1>5, <1>6, <1>7, <1>8 DEF Next, MainStep, SideStep

\* The root never leads the side chain.
THEOREM RootNeverLeads == RootNotFirst => (Spec => []LeaderNotRoot)
  <1> SUFFICES ASSUME RootNotFirst PROVE Spec => []LeaderNotRoot
    OBVIOUS
  <1>1. Init => LeaderNotRoot
    BY DEF Init, LeaderNotRoot, HasOwnList
  <1>2. IndInv /\ LeaderNotRoot /\ [Next]_vars => LeaderNotRoot'
    BY NextLeaderNotRoot
  <1> QED
    BY <1>1, <1>2, IndInvHolds, PTL DEF Spec

\* Unless the root is drawn first, the committee that signs changes only in
\* the first round of an epoch, although main chain leaders enter the
\* root's list all the time (SideChainProtocol(ChainBoost).go:105-125).
THEOREM FixedCommittee == RootNotFirst => (Spec => OneCommitteePerEpoch)
  <1> SUFFICES ASSUME RootNotFirst PROVE Spec => OneCommitteePerEpoch
    OBVIOUS
  <1>1. IndInv /\ LeaderNotRoot /\ [Next]_vars
           => [roster' # roster => SCRoundNumber = 1]_vars
    BY NextLeaderNotRoot
  <1> QED
    BY <1>1, IndInvHolds, RootNeverLeads, PTL DEF Spec, OneCommitteePerEpoch

-----------------------------------------------------------------------------
(* The committee is ordered by recency.                                    *)

\* Nobody in S has led after a member of c that it is not ahead of.
Ordered(c, S) ==
    \A i \in 1..Len(c) : \A n \in S :
        (\E j \in 1..(i - 1) : c[j] = n) \/ ledAt[n] <= ledAt[c[i]]

\* While a leader is being moved to the front, the others are in order.  The
\* list that was read is still the current one.
Recency ==
    /\ \A n \in Nodes : ledAt[n] <= MCRoundNumber
    /\ mcpc # "updating" => Ordered(CommitteeNodes, Nodes)
    /\ mcpc = "updating" => /\ Ordered(CommitteeNodes, Nodes \ {mcLeader})
                            /\ readByMain = CommitteeNodes
                            /\ scpc # "cutting"
                            /\ ledAt[mcLeader] = MCRoundNumber
    /\ scpc = "cutting" => readBySide = CommitteeNodes

\* Moving the most recent leader to the front orders the list.
LEMMA MovedOrdered ==
    ASSUME NEW s \in Seq(Nodes), NEW m \in Nodes, Sound(s), TypeOK,
           Ordered(s, Nodes \ {m}), \A n \in Nodes : ledAt[n] <= ledAt[m]
    PROVE  Ordered(MovedToFront(s, m), Nodes)
  <1> DEFINE p == Place(s, m)
             t == MovedToFront(s, m)
  <1> HIDE DEF p, t
  <1>0. t \in Seq(Nodes) /\ Len(t) >= Len(s) /\ t[1] = m
    BY MovedFacts, Zenon DEF t
  <1>1. Len(s) \in Nat /\ Len(t) \in Nat
    BY <1>0
  <1>2. \A i \in 2..Len(t) :
           IF i <= p THEN i - 1 \in 1..Len(s) /\ t[i] = s[i - 1]
                     ELSE i \in 1..Len(s) /\ t[i] = s[i]
    BY MovedFacts, Zenon DEF t, p
  <1>3. /\ p \in 1..(Len(s) + 1)
        /\ p <= Len(s) => s[p] = m
    BY PlaceFacts DEF p
  \* The new place of a member other than m.
  <1>4. ASSUME NEW j \in 1..Len(s), s[j] # m, NEW i \in 2..Len(t),
               j < IF i <= p THEN i - 1 ELSE i
        PROVE  \E l \in 1..(i - 1) : t[l] = s[j]
    <2>1. CASE j < p
      <3>1. j + 1 \in 2..Len(t) /\ j + 1 <= p /\ j + 1 \in 1..(i - 1)
        BY <2>1, <1>1, <1>3, <1>4
      <3>2. t[j + 1] = s[(j + 1) - 1]
        BY <3>1, <1>2
      <3>3. (j + 1) - 1 = j
        OBVIOUS
      <3>4. t[j + 1] = s[j]
        BY <3>2, <3>3
      <3> QED
        BY <3>1, <3>4
    <2>2. CASE j > p
      <3>1. j \in 2..Len(t) /\ ~(j <= p) /\ j \in 1..(i - 1)
        BY <2>2, <1>1, <1>3, <1>4, <1>0
      <3>2. t[j] = s[j]
        BY <3>1, <1>2
      <3> QED
        BY <3>1, <3>2
    <2>3. CASE j = p
      BY <2>3, <1>1, <1>3, <1>4
    <2> QED
      BY <2>1, <2>2, <2>3, <1>3
  <1>5. ASSUME NEW i \in 1..Len(t), NEW n \in Nodes
        PROVE  (\E j \in 1..(i - 1) : t[j] = n) \/ ledAt[n] <= ledAt[t[i]]
    <2>1. CASE i = 1
      BY <2>1, <1>0
    <2>2. CASE i # 1 /\ n = m
      <3>1. 1 \in 1..(i - 1)
        BY <2>2, <1>1
      <3> QED
        BY <2>2, <3>1, <1>0
    <2>3. CASE i # 1 /\ n # m
      <3> DEFINE o == IF i <= p THEN i - 1 ELSE i
      <3>1. i \in 2..Len(t)
        BY <2>3, <1>1
      <3>2. o \in 1..Len(s) /\ t[i] = s[o]
        BY <3>1, <1>2
      <3> HIDE DEF o
      <3>3. (\E j \in 1..(o - 1) : s[j] = n) \/ ledAt[n] <= ledAt[s[o]]
        BY <2>3, <3>2 DEF Ordered
      <3>4. ASSUME NEW j \in 1..(o - 1), s[j] = n
            PROVE  \E l \in 1..(i - 1) : t[l] = n
        <4>1. j \in 1..Len(s) /\ j < o
          BY <3>2, <1>1
        <4> QED
          BY <4>1, <3>1, <3>4, <2>3, <1>4 DEF o
      <3> QED
        BY <3>2, <3>3, <3>4
    <2> QED
      BY <2>1, <2>2, <2>3
  <1> QED
    BY <1>5 DEF Ordered, t

\* Every step keeps the order, if the two updates of the list are apart.
LEMMA NextRecency ==
    ASSUME Apart, IndInv, LeaderNotRoot, Recency, [Next]_vars
    PROVE  Recency'
  <1> USE NodesAssumption
  <1>1. /\ MCRoundNumber \in Int /\ ledAt \in [Nodes -> Nat]
        /\ CommitteeNodes \in Seq(Nodes) /\ Len(CommitteeNodes) \in Nat
    BY DEF IndInv, TypeOK
  <1>2. CASE \/ StartMainChainProtocol \/ AnnounceSecondRound \/ LeaderlessRound
             \/ WaitForSideChain \/ AddSideChainRounds \/ CloseRound
    <2>1. /\ UNCHANGED <<scpc, CommitteeNodes, readBySide, ledAt>>
          /\ mcpc # "updating" /\ mcpc' # "updating"
          /\ MCRoundNumber' \in {MCRoundNumber, MCRoundNumber + 1}
      BY <1>2 DEF StartMainChainProtocol, AnnounceSecondRound, LeaderlessRound,
         WaitForSideChain, AddSideChainRounds, CloseRound, NextMainRound, sideVars
    <2>2. \A n \in Nodes : ledAt[n] <= MCRoundNumber'
      BY <1>1, <2>1 DEF Recency
    <2>3. Ordered(CommitteeNodes, Nodes)'
      BY <2>1 DEF Recency, Ordered
    <2> QED
      BY <2>1, <2>2, <2>3 DEF Recency
  <1>3. ASSUME NEW n \in Nodes \ {Root}, UpdateSideChainCommittee(n)
        PROVE  Recency'
    <2>1. /\ mcpc = "open" /\ mcpc' = "updating" /\ mcLeader' = n
          /\ readByMain' = CommitteeNodes /\ scpc # "cutting"
          /\ ledAt' = [ledAt EXCEPT ![n] = MCRoundNumber]
          /\ UNCHANGED <<scpc, CommitteeNodes, readBySide, MCRoundNumber>>
      BY <1>3 DEF UpdateSideChainCommittee, sideVars
    <2>2. /\ ledAt'[n] = MCRoundNumber
          /\ \A m \in Nodes : /\ m # n => ledAt'[m] = ledAt[m]
                              /\ ledAt[m] <= ledAt'[m]
                              /\ ledAt'[m] <= MCRoundNumber
      BY <1>1, <2>1 DEF Recency
    <2>3. ASSUME NEW i \in 1..Len(CommitteeNodes), NEW m \in Nodes \ {n}
          PROVE  \/ \E j \in 1..(i - 1) : CommitteeNodes[j] = m
                 \/ ledAt'[m] <= ledAt'[CommitteeNodes[i]]
      <3>1. CommitteeNodes[i] \in Nodes
        BY <1>1
      <3>2. \/ \E j \in 1..(i - 1) : CommitteeNodes[j] = m
            \/ ledAt[m] <= ledAt[CommitteeNodes[i]]
        BY <2>1 DEF Recency, Ordered
      <3>3. /\ ledAt'[m] = ledAt[m]
            /\ ledAt[CommitteeNodes[i]] <= ledAt'[CommitteeNodes[i]]
            /\ ledAt'[CommitteeNodes[i]] \in Int
            /\ ledAt[m] \in Int /\ ledAt[CommitteeNodes[i]] \in Int
        BY <1>1, <2>1, <2>2, <3>1
      <3> QED
        BY <3>2, <3>3
    <2>4. Ordered(CommitteeNodes, Nodes \ {mcLeader})'
      BY <2>1, <2>3 DEF Ordered
    <2> QED
      BY <2>1, <2>2, <2>4 DEF Recency
  <1>4. CASE StoreCommittee
    <2>1. /\ mcpc = "updating" /\ mcpc' = "waiting"
          /\ CommitteeNodes' = MovedToFront(readByMain, mcLeader)
          /\ UNCHANGED <<scpc, readBySide, MCRoundNumber, ledAt>>
      BY <1>4 DEF StoreCommittee, sideVars
    <2>2. /\ readByMain = CommitteeNodes /\ Sound(readByMain)
          /\ mcLeader \in Nodes /\ scpc # "cutting"
          /\ Ordered(CommitteeNodes, Nodes \ {mcLeader})
          /\ \A n \in Nodes : ledAt[n] <= ledAt[mcLeader]
      BY <2>1 DEF Recency, IndInv, Lists
    <2>3. Ordered(MovedToFront(readByMain, mcLeader), Nodes)
      BY <1>1, <2>2, MovedOrdered DEF IndInv
    <2>4. Ordered(CommitteeNodes, Nodes)'
      BY <2>1, <2>3 DEF Ordered
    <2> QED
      BY <2>1, <2>2, <2>4 DEF Recency
  <1>5. CASE StartSideChainProtocol
    <2>1. /\ CommitteeNodes' \in Seq(Nodes) /\ mcpc' # "updating"
          /\ \A n \in Nodes : ledAt'[n] = 0 /\ ledAt'[n] <= MCRoundNumber'
          /\ scpc' # "cutting"
      <3>1. CommitteeNodes' \in Seq(Nodes)
        BY <1>5, StartSideStep DEF IndInv, TypeOK
      <3> QED
        BY <1>5, <3>1 DEF StartSideChainProtocol, IndInv, TypeOK, Lists, mainVars
    <2>2. Ordered(CommitteeNodes, Nodes)'
      <3>1. \A i \in 1..Len(CommitteeNodes') : CommitteeNodes'[i] \in Nodes
        BY <2>1
      <3> QED
        BY <2>1, <3>1 DEF Ordered
    <2> QED
      BY <2>1, <2>2 DEF Recency
  <1>6. CASE CutCommittee
    <2>1. /\ scpc = "cutting" /\ scpc' = "notify"
          /\ CommitteeNodes' = Window(readBySide)
          /\ UNCHANGED <<mcpc, MCRoundNumber, ledAt>>
      BY <1>6 DEF CutCommittee, mainVars
    <2>2. /\ readBySide = CommitteeNodes /\ mcpc # "updating"
          /\ Ordered(CommitteeNodes, Nodes) /\ Sound(readBySide)
      BY <2>1 DEF Recency, IndInv, Lists
    <2>3. /\ Len(CommitteeNodes') \in Nat
          /\ Len(CommitteeNodes') <= Len(CommitteeNodes)
          /\ \A i \in 1..Len(CommitteeNodes') : CommitteeNodes'[i] = CommitteeNodes[i]
      BY <1>1, <2>1, <2>2, WindowFacts, CommitteeAssumption DEF Sound
    <2>4. ASSUME NEW i \in 1..Len(CommitteeNodes'), NEW n \in Nodes
          PROVE  \/ \E j \in 1..(i - 1) : CommitteeNodes'[j] = n
                 \/ ledAt[n] <= ledAt[CommitteeNodes'[i]]
      <3>1. /\ i \in 1..Len(CommitteeNodes)
            /\ \A j \in 1..(i - 1) : j \in 1..Len(CommitteeNodes')
        BY <1>1, <2>3
      <3> QED
        BY <2>2, <2>3, <3>1 DEF Ordered
    <2>5. Ordered(CommitteeNodes, Nodes)'
      BY <2>1, <2>4 DEF Ordered
    <2> QED
      BY <2>1, <2>2, <2>5 DEF Recency
  <1>7. CASE \/ UNCHANGED vars \/ SideChainLeaderPreNewRound \/ FinalSignature
             \/ SideChainRootPostNewRound \/ NotifyLeader \/ ReadCommittee
             \/ WaitForMainChain \/ AddMainChainRound
    <2>1. UNCHANGED <<mcpc, mcLeader, MCRoundNumber, ledAt, readByMain>>
      BY <1>7 DEF vars, SideChainLeaderPreNewRound, FinalSignature,
         SideChainRootPostNewRound, NotifyLeader, ReadCommittee,
         WaitForMainChain, AddMainChainRound, mainVars
    <2>2. CommitteeNodes' = CommitteeNodes
      BY <1>7 DEF vars, SideChainLeaderPreNewRound, FinalSignature,
         SideChainRootPostNewRound, NotifyLeader, ReadCommittee,
         WaitForMainChain, AddMainChainRound, LeaderNotRoot
    <2>3. /\ scpc' = "cutting" => readBySide' = CommitteeNodes
          /\ scpc' = "cutting" /\ scpc # "cutting" => mcpc # "updating"
      BY <1>7 DEF vars, SideChainLeaderPreNewRound, FinalSignature,
         SideChainRootPostNewRound, NotifyLeader, ReadCommittee,
         WaitForMainChain, AddMainChainRound, sideVars, Recency
    <2> QED
      BY <2>1, <2>2, <2>3 DEF Recency, Ordered
  <1> QED
    BY <1>2, <1>3, <1>4, <1>5, <1>6, <1>7 DEF Next, MainStep, SideStep

\* If the two unlocked updates of the committee do not overlap and the root
\* is not drawn first, the committee lists nodes by how recently they led,
\* and each epoch's window holds the most recent leaders
\* (SideChainProtocol(ChainBoost).go:233-237, 346-384).
THEOREM RecentLeaders == Apart /\ RootNotFirst => (Spec => []RecentFirst)
  <1> SUFFICES ASSUME Apart, RootNotFirst PROVE Spec => []RecentFirst
    OBVIOUS
  <1>1. Init => Recency
    BY NodesAssumption DEF Init, Recency, Ordered
  <1>2. IndInv /\ LeaderNotRoot /\ Recency /\ [Next]_vars => Recency'
    BY NextRecency
  <1>3. Recency => RecentFirst
    BY DEF Recency, Ordered, RecentFirst
  <1> QED
    BY <1>1, <1>2, <1>3, IndInvHolds, RootNeverLeads, PTL DEF Spec

-----------------------------------------------------------------------------
(* The main chain's rounds are counted.                                    *)

\* Main chain rounds closed by RootPreNewRound (round 1 is not).
RoundsClosed == IF mcpc \in {"start", "filling"} THEN 0 ELSE MCRoundNumber - 2

\* The root has still to go on to wait for the main chain.
SyncPending ==
    IF scpc \in {"electing", "cutting", "notify"} /\ SyncRound THEN 1 ELSE 0

\* The goroutines that went on to wait for the main chain so far.
SyncsStarted ==
    Len(summaries) * MCRoundPerEpoch + (SCRoundNumber \div ScPerMc)
    - (1 \div ScPerMc) - SyncPending

\* What is in the wait group, or about to be added to it.
MainBalance ==
    wgSyncMcRound + waiting + woken = 1 + SyncsStarted - RoundsClosed

\* Quotient and remainder of the next number.
LEMMA NextQuotient ==
    ASSUME NEW c \in Nat, NEW k \in Nat, k >= 1
    PROVE  (c + 1) \div k = (c \div k) + IF (c + 1) % k = 0 THEN 1 ELSE 0
  <1>1. CASE (c + 1) % k = 0
    <2>1. (c + 1) \div k = c \div k + 1
      BY <1>1
    <2> QED
      BY <1>1, <2>1
  <1>2. CASE (c + 1) % k # 0
    <2>1. (c + 1) \div k = c \div k
      BY <1>2
    <2>2. c \div k \in Int
      OBVIOUS
    <2> QED
      BY <1>2, <2>1, <2>2
  <1> QED
    BY <1>1, <1>2

\* A lower bound of a quotient.
LEMMA QuotientBound ==
    ASSUME NEW c \in Nat, NEW k \in Nat, k >= 1, NEW x \in Int, c >= k * x
    PROVE  c \div k >= x
  OBVIOUS

\* The quotient of one.
LEMMA UnitQuotient ==
    ASSUME NEW k \in Nat, k >= 1
    PROVE  /\ 1 \div k = IF k = 1 THEN 1 ELSE 0
           /\ 1 % k = 0 <=> k = 1
  <1>1. CASE k = 1
    BY <1>1
  <1>2. CASE k >= 2
    <2>1. 1 \div k = 0 /\ 1 % k = 1
      BY <1>2
    <2> QED
      BY <1>2, <2>1
  <1> QED
    BY <1>1, <1>2

\* The root goes on to wait after each ScPerMc-th round of an epoch.
LEMMA SyncInterval == SCRoundPerEpoch \div MCRoundPerEpoch = ScPerMc
  <1>1. SCRoundPerEpoch = MCRoundPerEpoch * ScPerMc + 0
    BY EpochAssumption, EpochLength, Products
  <1>2. 0 \in 0..(MCRoundPerEpoch - 1)
    BY EpochLength
  <1>3. (MCRoundPerEpoch * ScPerMc + 0) \div MCRoundPerEpoch = ScPerMc
    BY <1>2, EpochLength, DivisionFact
  <1> QED
    BY <1>1, <1>3

\* The terms of the balance are integers.
LEMMA BalanceTypes ==
    ASSUME TypeOK
    PROVE  /\ Len(summaries) \in Nat /\ Len(summaries) * MCRoundPerEpoch \in Int
           /\ SCRoundNumber \in Nat /\ SCRoundNumber >= 1
           /\ SCRoundNumber \div ScPerMc \in Int /\ 1 \div ScPerMc \in Int
           /\ SyncPending \in 0..1 /\ RoundsClosed \in Int
           /\ wgSyncMcRound \in Int /\ waiting \in Nat /\ woken \in Nat
  <1>1. /\ Len(summaries) \in Nat /\ SCRoundNumber \in Nat /\ SCRoundNumber >= 1
        /\ MCRoundNumber \in Int
        /\ wgSyncMcRound \in Int /\ waiting \in Nat /\ woken \in Nat
    BY EpochLength DEF TypeOK
  <1>2. Len(summaries) * MCRoundPerEpoch \in Int
    BY <1>1, EpochLength, Products
  <1>3. SCRoundNumber \div ScPerMc \in Int /\ 1 \div ScPerMc \in Int
    BY <1>1, EpochLength, DivisionType
  <1>4. SyncPending \in 0..1
    BY DEF SyncPending
  <1>5. RoundsClosed \in Int
    BY <1>1 DEF RoundsClosed
  <1> QED
    BY <1>1, <1>2, <1>3, <1>4, <1>5

\* Reporting a round starts no wait; it only makes one due.
LEMMA ReportKeepsSyncs ==
    ASSUME TypeOK, SideChainRootPostNewRound
    PROVE  SyncsStarted' = SyncsStarted
  <1> DEFINE k == ScPerMc
             P == MCRoundPerEpoch
             L == Len(summaries)
             c == SCRoundNumber
  <1>1. /\ k \in Nat /\ k >= 1 /\ P \in Nat /\ L \in Nat /\ c \in Nat /\ c >= 1
        /\ L * P \in Int /\ c \div k \in Int /\ 1 \div k \in Int
        /\ summaries \in Seq(Nat)
    BY EpochLength, BalanceTypes DEF TypeOK
  <1>2. SyncPending = 0
    BY DEF SideChainRootPostNewRound, SyncPending
  <1>3. CASE SummaryRound
    <2>1. /\ c = k * P /\ c' = 1 /\ scpc' = "electing"
          /\ summaries' = Append(summaries, MCRoundNumber \div MCRoundPerEpoch)
      BY <1>3 DEF SideChainRootPostNewRound, SummaryRound
    <2>2. L' = L + 1
      <3>1. MCRoundNumber \in Nat
        BY DEF TypeOK
      <3>2. MCRoundNumber \div MCRoundPerEpoch \in Nat
        BY <3>1, EpochLength, DivisionType
      <3> QED
        BY <1>1, <2>1, <3>2
    <2>3. SyncPending' = 1 \div k
      <3>1. SyncRound' <=> 1 % k = 0
        BY <2>1, SyncInterval DEF SyncRound
      <3>2. SyncPending' = IF 1 % k = 0 THEN 1 ELSE 0
        BY <2>1, <3>1 DEF SyncPending
      <3> QED
        BY <1>1, <3>2, UnitQuotient
    <2>4. c \div k = P
      <3>1. (k * P + 0) \div k = P
        <4>1. 0 \in 0..(k - 1)
          BY <1>1
        <4> QED
          BY <4>1, <1>1, DivisionFact
      <3>2. k * P + 0 = c
        BY <1>1, <2>1
      <3> QED
        BY <3>1, <3>2
    <2>5. SyncsStarted' = L' * P + (1 \div k) - (1 \div k) - SyncPending'
      BY <2>1 DEF SyncsStarted
    <2>6. SyncsStarted = L * P + (c \div k) - (1 \div k) - SyncPending
      BY DEF SyncsStarted
    <2> HIDE DEF k, P, L, c
    <2>7. (L + 1) * P = L * P + P
      BY <1>1
    <2>8. L' * P = L * P + P
      BY <2>2, <2>7
    <2>9. SyncsStarted' = L * P + P - (1 \div k)
      BY <1>1, <2>3, <2>5, <2>8
    <2>10. SyncsStarted = L * P + P - (1 \div k)
      <3>1. SyncsStarted = L * P + P - (1 \div k) - 0
        BY <1>2, <2>4, <2>6, Zenon
      <3> QED
        BY <1>1, <3>1
    <2> QED
      BY <2>9, <2>10
  <1>4. CASE ~SummaryRound
    <2>1. c' = c + 1 /\ scpc' = "notify" /\ summaries' = summaries
      BY <1>4 DEF SideChainRootPostNewRound
    <2>2. SyncPending' = IF (c + 1) % k = 0 THEN 1 ELSE 0
      <3>1. SyncRound' <=> (c + 1) % k = 0
        BY <2>1, SyncInterval DEF SyncRound
      <3> QED
        BY <2>1, <3>1 DEF SyncPending
    <2>3. (c + 1) \div k = (c \div k) + SyncPending'
      BY <1>1, <2>2, NextQuotient
    <2>4. SyncsStarted' = L * P + ((c + 1) \div k) - (1 \div k) - SyncPending'
      BY <2>1 DEF SyncsStarted
    <2>5. SyncsStarted = L * P + (c \div k) - (1 \div k) - SyncPending
      BY DEF SyncsStarted
    <2>6. SyncPending' \in Int
      BY <2>2
    <2> HIDE DEF k, P, L, c
    <2> QED
      BY <1>1, <1>2, <2>3, <2>4, <2>5, <2>6
  <1> QED
    BY <1>3, <1>4

\* By the time the main chain closes a round, the side chain is far enough:
\* the wait for that round has been started or is the next to be.
LEMMA EnoughSyncs ==
    ASSUME IndInv, Counters, mcpc = "writing"
    PROVE  SyncsStarted >= MCRoundNumber - 2
  <1> DEFINE k == ScPerMc
             P == MCRoundPerEpoch
             L == Len(summaries)
             c == SCRoundNumber
             A == MCRoundNumber
             x == A - 1 - L * P
  <1>1. /\ k \in Nat /\ k >= 1 /\ P \in Nat /\ L \in Nat /\ c \in Nat /\ c >= 1
        /\ L * P \in Int /\ c \div k \in Int /\ 1 \div k \in Int
        /\ SyncPending \in 0..1 /\ A \in Int
    BY EpochLength, BalanceTypes DEF IndInv, TypeOK
  <1>2. /\ wgSyncScRound \in Int
        /\ wgSyncScRound = k * A - RoundsReported
        /\ wgSyncScRound <= k
    BY DEF Counters, RoundsAdded, IndInv, TypeOK
  <1>3. RoundsReported = L * (k * P) + c - 1
    BY DEF RoundsReported
  <1>4. SyncsStarted = L * P + (c \div k) - (1 \div k) - SyncPending
    BY DEF SyncsStarted
  <1>5. 1 \div k = IF k = 1 THEN 1 ELSE 0
    BY <1>1, UnitQuotient
  <1> HIDE DEF k, P, L, c, A
  <1>6. x \in Int /\ k * A \in Int /\ L * (k * P) \in Int
    BY <1>1
  <1>7. k * x = k * A - k - L * (k * P)
    <2>1. k * x = k * A - k * 1 - k * (L * P)
      BY <1>1
    <2>2. k * (L * P) = L * (k * P) /\ k * 1 = k
      BY <1>1
    <2> QED
      BY <2>1, <2>2
  <1>8. c - 1 >= k * x
    BY <1>1, <1>2, <1>3, <1>6, <1>7
  <1> HIDE DEF x
  <1>9. (c \div k) - (1 \div k) >= x
    <2>1. CASE k = 1
      <3>1. c \div k = c /\ 1 \div k = 1
        BY <1>1, <1>5, <2>1
      <3>2. k * x = x
        BY <1>6, <2>1
      <3> QED
        BY <1>1, <1>6, <1>8, <3>1, <3>2
    <2>2. CASE k # 1
      <3>1. c >= k * x
        <4>1. k * x \in Int
          BY <1>1, <1>6
        <4> QED
          BY <1>1, <1>8, <4>1
      <3>2. c \div k >= x
        BY <1>1, <1>6, <3>1, QuotientBound
      <3>3. 1 \div k = 0
        BY <1>5, <2>2
      <3> QED
        BY <1>1, <1>6, <3>2, <3>3
    <2> QED
      BY <2>1, <2>2
  <1>10. \A d, e \in Int : d - e >= x => L * P + d - e - SyncPending >= A - 2
    BY <1>1, <1>6 DEF x
  <1>11. L * P + (c \div k) - (1 \div k) - SyncPending >= A - 2
    BY <1>1, <1>9, <1>10
  <1> QED
    BY <1>4, <1>11 DEF A

\* Every step keeps the balance of main chain rounds.
LEMMA NextMainBalance ==
    ASSUME IndInv, MainBalance, [Next]_vars
    PROVE  MainBalance'
  <1> DEFINE S == SyncsStarted
             C == RoundsClosed
  <1>1. /\ Len(summaries) * MCRoundPerEpoch \in Int
        /\ SCRoundNumber \div ScPerMc \in Int /\ 1 \div ScPerMc \in Int
        /\ SyncPending \in 0..1 /\ C \in Int
        /\ wgSyncMcRound \in Int /\ waiting \in Nat /\ woken \in Nat
        /\ MCRoundNumber \in Int
    BY BalanceTypes DEF IndInv, TypeOK
  <1>2. S \in Int
    BY <1>1 DEF SyncsStarted
  <1>3. ASSUME S' = S, C' = C, UNCHANGED <<wgSyncMcRound, waiting, woken>>
        PROVE  MainBalance'
    BY <1>3 DEF MainBalance
  <1>4. ASSUME UNCHANGED <<scpc, SCRoundNumber, summaries>>
        PROVE  S' = S
    BY <1>4 DEF SyncsStarted, SyncPending, SyncRound
  <1>5. CASE \/ StartMainChainProtocol \/ AnnounceSecondRound \/ LeaderlessRound
             \/ WaitForSideChain \/ AddSideChainRounds \/ StoreCommittee
             \/ \E n \in Nodes \ {Root} : UpdateSideChainCommittee(n)
    <2>1. UNCHANGED <<scpc, SCRoundNumber, summaries, wgSyncMcRound, waiting, woken>>
      BY <1>5 DEF StartMainChainProtocol, AnnounceSecondRound, LeaderlessRound,
         WaitForSideChain, AddSideChainRounds, StoreCommittee,
         UpdateSideChainCommittee, sideVars, tailVars
    <2>2. C' = C
      BY <1>1, <1>5 DEF StartMainChainProtocol, AnnounceSecondRound,
         LeaderlessRound, WaitForSideChain, AddSideChainRounds, StoreCommittee,
         UpdateSideChainCommittee, NextMainRound, RoundsClosed, IndInv, Running
    <2> QED
      BY <1>3, <1>4, <2>1, <2>2
  <1>6. CASE CloseRound
    <2>1. /\ UNCHANGED <<scpc, SCRoundNumber, summaries, waiting, woken>>
          /\ wgSyncMcRound' = wgSyncMcRound - 1
      BY <1>6 DEF CloseRound, sideVars, tailVars
    <2>2. C' = C + 1
      BY <1>1, <1>6 DEF CloseRound, NextMainRound, RoundsClosed
    <2>3. S' = S
      BY <1>4, <2>1
    <2> QED
      BY <1>1, <1>2, <2>1, <2>2, <2>3 DEF MainBalance
  <1>7. CASE SideChainRootPostNewRound
    <2>1. S' = S
      BY <1>7, ReportKeepsSyncs DEF IndInv
    <2>2. C' = C /\ UNCHANGED <<wgSyncMcRound, waiting, woken>>
      BY <1>7 DEF SideChainRootPostNewRound, RoundsClosed, mainVars, tailVars
    <2> QED
      BY <1>3, <2>1, <2>2
  <1>8. CASE \/ StartSideChainProtocol \/ SideChainLeaderPreNewRound
             \/ FinalSignature \/ ReadCommittee \/ CutCommittee
    <2>1. /\ UNCHANGED <<SCRoundNumber, summaries, wgSyncMcRound, waiting, woken,
                         mcpc, MCRoundNumber>>
          /\ \/ scpc \notin {"electing", "cutting", "notify"}
                /\ scpc' \notin {"electing", "cutting", "notify"}
             \/ scpc \in {"electing", "cutting", "notify"}
                /\ scpc' \in {"electing", "cutting", "notify"}
      BY <1>8 DEF StartSideChainProtocol, SideChainLeaderPreNewRound,
         FinalSignature, ReadCommittee, CutCommittee, mainVars, tailVars
    <2>2. SyncPending' = SyncPending
      BY <2>1 DEF SyncPending, SyncRound
    <2>3. S' = S /\ C' = C
      BY <2>1, <2>2 DEF SyncsStarted, RoundsClosed
    <2> QED
      BY <1>3, <2>1, <2>3
  <1>9. CASE NotifyLeader
    <2>1. /\ UNCHANGED <<SCRoundNumber, summaries, wgSyncMcRound, woken, mcpc,
                         MCRoundNumber>>
          /\ scpc = "notify" /\ scpc' = "announced"
          /\ waiting' = IF SyncRound THEN waiting + 1 ELSE waiting
      BY <1>9 DEF NotifyLeader, mainVars
    <2>2. SyncPending' = 0 /\ SyncPending = IF SyncRound THEN 1 ELSE 0
      BY <2>1 DEF SyncPending
    <2>3. S' = S + SyncPending /\ C' = C
      <3>1. C' = C
        BY <2>1 DEF RoundsClosed
      <3>2. S' = Len(summaries) * MCRoundPerEpoch + (SCRoundNumber \div ScPerMc)
                 - (1 \div ScPerMc) - 0
        BY <2>1, <2>2 DEF SyncsStarted
      <3>3. S' = S + SyncPending
        BY <1>1, <3>2 DEF SyncsStarted
      <3> QED
        BY <3>1, <3>3
    <2>4. waiting' = waiting + SyncPending
      BY <1>1, <2>1, <2>2
    <2> QED
      BY <1>1, <1>2, <2>1, <2>3, <2>4 DEF MainBalance
  <1>10. CASE WaitForMainChain \/ AddMainChainRound
    <2>1. /\ UNCHANGED <<scpc, SCRoundNumber, summaries, mcpc, MCRoundNumber>>
          /\ wgSyncMcRound' + waiting' + woken' = wgSyncMcRound + waiting + woken
      BY <1>1, <1>10 DEF WaitForMainChain, AddMainChainRound, mainVars, sideVars
    <2>2. S' = S /\ C' = C
      BY <1>4, <2>1 DEF RoundsClosed
    <2> QED
      BY <2>1, <2>2 DEF MainBalance
  <1>11. CASE UNCHANGED vars
    <2>1. UNCHANGED <<scpc, SCRoundNumber, summaries, wgSyncMcRound, waiting, woken>>
      BY <1>11 DEF vars
    <2>2. C' = C
      BY <1>11 DEF vars, RoundsClosed
    <2> QED
      BY <1>3, <1>4, <2>1, <2>2
  <1> QED
    BY <1>5, <1>6, <1>7, <1>8, <1>9, <1>10, <1>11 DEF Next, MainStep, SideStep

\* When the goroutines released by wgSyncMcRound run within a round, the
\* counter of wgSyncMcRound never becomes negative, although Done and Add
\* are run by different goroutines (MainChainProtocol.go:220,
\* SideChainProtocol(ChainBoost).go:277-278).
THEOREM NoNegativeCount == Paced => (Spec => []MainChainCounted)
  <1> SUFFICES ASSUME Paced PROVE Spec => []MainChainCounted
    OBVIOUS
  <1>1. Init => MainBalance /\ MainChainCounted
    <2> SUFFICES ASSUME Init PROVE MainBalance /\ MainChainCounted
      OBVIOUS
    <2>1. SyncPending = 0 /\ RoundsClosed = 0
      BY DEF Init, SyncPending, RoundsClosed
    <2>2. Len(summaries) * MCRoundPerEpoch = 0
      BY EpochLength DEF Init
    <2>3. 1 \div ScPerMc \in Int
      BY EpochLength, DivisionType
    <2>4. SyncsStarted = 0 + (1 \div ScPerMc) - (1 \div ScPerMc) - 0
      BY <2>1, <2>2 DEF Init, SyncsStarted
    <2>5. SyncsStarted = 0
      BY <2>3, <2>4
    <2> QED
      BY <2>1, <2>5 DEF Init, MainBalance, MainChainCounted
  <1>2. IndInv /\ Counters /\ MainBalance /\ MainChainCounted /\ [Next]_vars
           => MainBalance' /\ MainChainCounted'
    <2> SUFFICES ASSUME IndInv, Counters, MainBalance, MainChainCounted, [Next]_vars
                 PROVE  MainBalance' /\ MainChainCounted'
      OBVIOUS
    <2>1. MainBalance'
      BY NextMainBalance
    <2>2. wgSyncMcRound \in Int /\ waiting \in Nat /\ woken \in Nat /\ MCRoundNumber \in Int
      BY DEF IndInv, TypeOK
    <2>3. CASE CloseRound
      <3>1. /\ mcpc = "writing" /\ woken = 0 /\ (waiting > 0 => wgSyncMcRound > 0)
            /\ wgSyncMcRound' = wgSyncMcRound - 1
        BY <2>3 DEF CloseRound
      <3>2. SyncsStarted >= MCRoundNumber - 2
        BY <3>1, EnoughSyncs
      <3>3. SyncsStarted \in Int
        BY BalanceTypes DEF SyncsStarted, IndInv
      <3>4. RoundsClosed = MCRoundNumber - 2
        BY <3>1 DEF RoundsClosed
      <3>5. wgSyncMcRound + waiting + woken >= 1
        BY <2>2, <3>2, <3>3, <3>4 DEF MainBalance
      <3> QED
        BY <2>1, <2>2, <3>1, <3>5 DEF MainChainCounted
    <2>4. CASE AddMainChainRound
      BY <2>1, <2>2, <2>4 DEF AddMainChainRound, MainChainCounted
    <2>5. CASE UNCHANGED wgSyncMcRound
      BY <2>1, <2>5 DEF MainChainCounted
    <2>6. CASE MainStep /\ ~CloseRound
      BY <2>5, <2>6 DEF MainStep, StartMainChainProtocol, AnnounceSecondRound,
         LeaderlessRound, UpdateSideChainCommittee, StoreCommittee,
         WaitForSideChain, AddSideChainRounds
    <2>7. CASE SideStep /\ ~AddMainChainRound
      BY <2>5, <2>7 DEF SideStep, StartSideChainProtocol,
         SideChainLeaderPreNewRound, FinalSignature, SideChainRootPostNewRound,
         ReadCommittee, CutCommittee, NotifyLeader, WaitForMainChain
    <2> QED
      BY <2>3, <2>4, <2>5, <2>6, <2>7 DEF Next, vars
  <1> QED
    BY <1>1, <1>2, CountersHold, PTL DEF Spec
=============================================================================
