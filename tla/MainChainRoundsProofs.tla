------------------------ MODULE MainChainRoundsProofs ------------------------
(***************************************************************************)
(* Proofs about the round engine, for any number of nodes and rounds, any  *)
(* power tables and with or without the timing assumption Prompt.          *)
(*                                                                         *)
(* The safety of an election rests on HasLeader.  It is a lock that is     *)
(* released by opening the next round, so what has to be shown is that     *)
(* nothing claimed for one round is ever mistaken for a claim of a later   *)
(* one: every message announces a round that has been opened already       *)
(* (NoFutureRounds), the root's stand-in exists at most once (OneStandIn)  *)
(* and a goroutine past the test of RootPreNewRound closes the very round  *)
(* it was tested against (ClosingHolds).                                   *)
(***************************************************************************)
EXTENDS MainChainRounds, FiniteSetTheorems, SequenceTheorems, TLAPS

\* No message, timer or node is ahead of the root.
NoFutureRounds ==
    /\ \A r \in timers : r <= MCRoundNumber
    /\ pushing <= MCRoundNumber
    /\ \A n \in Nodes :
          /\ nodeRound[n] + Len(newRounds[n]) <= MCRoundNumber
          /\ nodeRound[n] + Len(newRounds[n]) <= SimulationRounds
    /\ \A m \in inflight : m.from \in Nodes /\ m.round <= MCRoundNumber
    /\ \A i \in 1..Len(leaderChan) : leaderChan[i].round <= MCRoundNumber
    /\ dispatching.round <= MCRoundNumber
    /\ \A c \in claims : c.msg.round <= MCRoundNumber

\* The root's stand-in for the open round is in at most one place.
OneStandIn ==
    /\ \A i, j \in 1..Len(leaderChan) :
          IsStandIn(leaderChan[i]) /\ IsStandIn(leaderChan[j]) => i = j
    /\ pushing = MCRoundNumber =>
          /\ \A i \in 1..Len(leaderChan) : ~IsStandIn(leaderChan[i])
          /\ ~IsStandIn(dispatching)
          /\ \A c \in claims : ~IsStandIn(c.msg)
    /\ IsStandIn(dispatching) =>
          /\ \A i \in 1..Len(leaderChan) : ~IsStandIn(leaderChan[i])
          /\ \A c \in claims : ~IsStandIn(c.msg)
    /\ \A c \in claims : IsStandIn(c.msg) =>
          /\ \A i \in 1..Len(leaderChan) : ~IsStandIn(leaderChan[i])
          /\ \A d \in claims : IsStandIn(d.msg) => c = d

\* A goroutine that decided to close a round still finds that round open.
ClosingHolds ==
    \A c \in claims : c.pc = "closing" =>
        c.msg.round = MCRoundNumber /\ MCRoundNumber # 1

IndInv ==
    /\ TypeOK
    /\ OneBlockPerRound
    /\ FirstLeaderOnly
    /\ NoFutureRounds
    /\ OneStandIn
    /\ ClosingHolds

\* A step that does not change who leads the open round.
SameElection ==
    /\ UNCHANGED <<chain, MCRoundNumber>>
    /\ StandInPending' <=> StandInPending
    /\ Holders' = Holders

-----------------------------------------------------------------------------
(* Facts about the channel and about the announcement of a round.          *)

\* The capacity of MainChainNewLeaderChan is a number.
LEMMA ChanCapType == ChanCap \in Nat
  BY NodesAssumption, FS_CardinalityType DEF ChanCap

\* A sequence over a set is a sequence over a larger one.
LEMMA SeqMono ==
    ASSUME NEW A, NEW B, A \subseteq B
    PROVE  Seq(A) \subseteq Seq(B)
  <1> SUFFICES ASSUME NEW q \in Seq(A) PROVE q \in Seq(B)
    OBVIOUS
  <1>1. Len(q) \in Nat /\ q \in [1..Len(q) -> A]
    OBVIOUS
  <1>2. q \in [1..Len(q) -> B]
    BY <1>1
  <1> QED
    BY <1>1, <1>2

\* What a channel holds after a send.
LEMMA SendFacts ==
    ASSUME NEW S, NEW q \in Seq(S), NEW e \in S
    PROVE  /\ Append(q, e) \in Seq(S)
           /\ Len(Append(q, e)) = Len(q) + 1
           /\ \A i \in 1..Len(q) : Append(q, e)[i] = q[i]
           /\ Append(q, e)[Len(q) + 1] = e
  OBVIOUS

\* What a channel holds after a receive.
LEMMA ReceiveFacts ==
    ASSUME NEW S, NEW q \in Seq(S), q # <<>>
    PROVE  /\ Head(q) \in S
           /\ Head(q) = q[1]
           /\ Tail(q) \in Seq(S)
           /\ Len(q) \in Nat \ {0}
           /\ Len(Tail(q)) = Len(q) - 1
           /\ \A i \in 1..Len(Tail(q)) : Tail(q)[i] = q[i + 1]
  OBVIOUS

-----------------------------------------------------------------------------
(* Type correctness and the inductive invariant.                           *)

\* The state in which Start leaves the nodes satisfies the invariant.
LEMMA InitIndInv == Init => IndInv
  <1> SUFFICES ASSUME Init PROVE IndInv
    OBVIOUS
  <1> USE RoundsAssumption, NodesAssumption, ChanCapType DEF Init
  <1>1. TypeOK
    <2>1. HasLeader \in BOOLEAN /\ done \in BOOLEAN
      BY Zenon
    <2>2. leaderChan \in Seq(NewLeaderMsg) /\ Len(leaderChan) <= ChanCap
      OBVIOUS
    <2>3. chain \in Seq(Block) /\ newRounds \in [Nodes -> Seq(Rounds)]
      OBVIOUS
    <2>4. nodeRound \in [Nodes -> Rounds] /\ checking \in [Nodes -> SUBSET Rounds]
      BY DEF Rounds
    <2> QED
      BY <2>1, <2>2, <2>3, <2>4 DEF TypeOK, Rounds
  <1>2. OneBlockPerRound
    BY DEF OneBlockPerRound
  <1>3. ~StandInPending /\ Holders = {}
    BY DEF StandInPending, IsStandIn, Holders, NoMsg
  <1>4. FirstLeaderOnly
    BY <1>3 DEF FirstLeaderOnly
  <1>5. NoFutureRounds /\ OneStandIn /\ ClosingHolds
    BY DEF NoFutureRounds, OneStandIn, ClosingHolds, NoMsg, IsStandIn
  <1> QED
    BY <1>1, <1>2, <1>4, <1>5 DEF IndInv

\* A step that leaves the election at the root alone preserves the parts of
\* the invariant that are about it.
LEMMA ElectionUntouched ==
    ASSUME IndInv,
           UNCHANGED <<MCRoundNumber, HasLeader, chain, pushing, leaderChan,
                       dispatching, claims>>
    PROVE  /\ OneBlockPerRound' /\ FirstLeaderOnly' /\ OneStandIn' /\ ClosingHolds'
           /\ SameElection
  BY DEF SameElection, IndInv, OneBlockPerRound, FirstLeaderOnly, OneStandIn, ClosingHolds,
         StandInPending, Holders, IsStandIn

\* A node that counts a round touches only its own state and its inbox.
LEMMA NewRoundStep ==
    ASSUME IndInv, NEW n \in Nodes, MainChainNewRound(n)
    PROVE  IndInv' /\ SameElection
  <1> USE DEF MainChainNewRound, rootVars, CountedRound
  <1> DEFINE q == newRounds[n]
  <1>1. /\ q \in Seq(Rounds) /\ q # <<>>
        /\ nodeRound[n] \in Rounds
        /\ nodeRound[n] + Len(q) <= MCRoundNumber
        /\ nodeRound[n] + Len(q) <= SimulationRounds
    BY DEF IndInv, TypeOK, NoFutureRounds
  <1> HIDE DEF q
  <1>2. /\ Head(q) \in Rounds
        /\ Tail(q) \in Seq(Rounds)
        /\ Len(q) \in Nat \ {0}
        /\ Len(Tail(q)) = Len(q) - 1
    BY <1>1, ReceiveFacts
  <1>3. nodeRound[n] + 1 \in Rounds
    BY <1>1, <1>2, RoundsAssumption DEF Rounds
  <1>4. TypeOK'
    <2>1. newRounds' \in [Nodes -> Seq(Rounds)]
      BY <1>2 DEF IndInv, TypeOK, q
    <2>2. nodeRound' \in [Nodes -> Rounds]
      BY <1>3 DEF IndInv, TypeOK
    <2>3. checking' \in [Nodes -> SUBSET Rounds]
      BY <1>2 DEF IndInv, TypeOK, q
    <2> QED
      BY <2>1, <2>2, <2>3 DEF IndInv, TypeOK
  <1>5. NoFutureRounds'
    <2>1. ASSUME NEW k \in Nodes
          PROVE  nodeRound'[k] + Len(newRounds'[k]) = nodeRound[k] + Len(newRounds[k])
      <3>1. CASE k = n
        BY <3>1, <1>1, <1>2 DEF IndInv, TypeOK, Rounds, q
      <3>2. CASE k # n
        BY <3>2 DEF IndInv, TypeOK
      <3> QED
        BY <3>1, <3>2
    <2> QED
      BY <2>1 DEF IndInv, NoFutureRounds
  <1> QED
    BY <1>4, <1>5, ElectionUntouched DEF IndInv

\* A leadership check only adds a message of a node, never a stand-in.
LEMMA CheckLeadershipStep ==
    ASSUME IndInv, NEW n \in Nodes, NEW seed \in checking[n],
           MainChainCheckLeadership(n, seed)
    PROVE  IndInv' /\ SameElection
  <1> USE DEF MainChainCheckLeadership, rootVars, AnnouncedRound
  <1> DEFINE m == [from |-> n, seed |-> seed, round |-> nodeRound[n]]
  <1>1. seed \in Rounds /\ nodeRound[n] \in Rounds /\ nodeRound[n] <= MCRoundNumber
    BY RoundsAssumption DEF IndInv, TypeOK, NoFutureRounds, Rounds
  <1>2. m \in NewLeaderMsg /\ m.from \in Nodes /\ m.round <= MCRoundNumber
    BY <1>1 DEF NewLeaderMsg, Participants
  <1>3. inflight' \subseteq inflight \cup {m}
    OBVIOUS
  <1> HIDE DEF m
  <1>4. TypeOK'
    <2>1. checking' \in [Nodes -> SUBSET Rounds]
      BY DEF IndInv, TypeOK
    <2>2. inflight' \subseteq NewLeaderMsg
      BY <1>2, <1>3 DEF IndInv, TypeOK
    <2> QED
      BY <2>1, <2>2 DEF IndInv, TypeOK
  <1>5. NoFutureRounds'
    BY <1>2, <1>3 DEF IndInv, NoFutureRounds
  <1> QED
    BY <1>4, <1>5, ElectionUntouched DEF IndInv

\* Messages from the nodes are never stand-ins, so delivering one, or losing
\* it to a full channel, does not disturb the election.
LEMMA DeliverStep ==
    ASSUME IndInv, NEW m \in inflight, DeliverNewLeader(m)
    PROVE  IndInv' /\ SameElection
  <1> USE DEF DeliverNewLeader, rootVars, nodeVars
  <1>1. /\ m \in NewLeaderMsg /\ m.from # Root /\ m.round <= MCRoundNumber
        /\ leaderChan \in Seq(NewLeaderMsg) /\ Len(leaderChan) <= ChanCap
    BY NodesAssumption DEF IndInv, TypeOK, NoFutureRounds
  <1>2. CASE Len(leaderChan) < ChanCap
    <2>1. leaderChan' = Append(leaderChan, m)
      BY <1>2
    <2>2. /\ leaderChan' \in Seq(NewLeaderMsg)
          /\ Len(leaderChan') = Len(leaderChan) + 1
          /\ \A i \in 1..Len(leaderChan) : leaderChan'[i] = leaderChan[i]
          /\ leaderChan'[Len(leaderChan) + 1] = m
      BY <1>1, <2>1, SendFacts
    <2>3. Len(leaderChan) \in Nat
      BY <1>1
    <2>4. \A i \in 1..Len(leaderChan') :
             \/ i \in 1..Len(leaderChan) /\ leaderChan'[i] = leaderChan[i]
             \/ leaderChan'[i] = m
      BY <2>2, <2>3
    <2>5. TypeOK'
      BY <1>2, <2>2, <2>3, ChanCapType DEF IndInv, TypeOK
    <2>6. ~IsStandIn(m)' /\ (StandInPending' <=> StandInPending) /\ Holders' = Holders
      BY <1>1, <2>2, <2>3, <2>4 DEF IsStandIn, StandInPending, Holders
    <2>7. FirstLeaderOnly'
      BY <2>6 DEF IndInv, FirstLeaderOnly
    <2>8. NoFutureRounds'
      BY <1>1, <2>4 DEF IndInv, NoFutureRounds
    <2>9. OneStandIn'
      BY <1>1, <2>2, <2>3, <2>4 DEF IndInv, OneStandIn, IsStandIn
    <2> QED
      BY <2>5, <2>6, <2>7, <2>8, <2>9 DEF IndInv, OneBlockPerRound, ClosingHolds, SameElection
  <1>3. CASE ~(Len(leaderChan) < ChanCap)
    <2>1. leaderChan' = leaderChan
      BY <1>3
    <2>2. TypeOK' /\ NoFutureRounds'
      BY <2>1 DEF IndInv, TypeOK, NoFutureRounds
    <2> QED
      BY <2>1, <2>2, ElectionUntouched DEF IndInv
  <1> QED
    BY <1>2, <1>3

\* The Dispatch loop takes a message: a stand-in for the open round moves
\* from the channel to the loop, anything else is no stand-in.
LEMMA NewLeaderStep ==
    ASSUME IndInv, MainChainNewLeader
    PROVE  IndInv' /\ SameElection
  <1> USE DEF MainChainNewLeader, rootVars, nodeVars
  <1>1. leaderChan \in Seq(NewLeaderMsg) /\ leaderChan # <<>> /\ Len(leaderChan) <= ChanCap
    BY DEF IndInv, TypeOK
  <1>2. /\ Head(leaderChan) \in NewLeaderMsg
        /\ Head(leaderChan) = leaderChan[1]
        /\ leaderChan' \in Seq(NewLeaderMsg)
        /\ Len(leaderChan) \in Nat \ {0}
        /\ Len(leaderChan') = Len(leaderChan) - 1
        /\ \A i \in 1..Len(leaderChan') : leaderChan'[i] = leaderChan[i + 1]
    BY <1>1, ReceiveFacts
  <1>3. \/ /\ dispatching' = leaderChan[1]
           /\ leaderChan[1].round = MCRoundNumber
        \/ /\ dispatching' = NoMsg
           /\ ~IsStandIn(leaderChan[1])
    BY <1>2 DEF IsStandIn
  <1>4. MCRoundNumber \in Nat \ {0}
    BY RoundsAssumption DEF IndInv, TypeOK
  <1>5. ~IsStandIn(NoMsg) /\ ~IsStandIn(dispatching) /\ NoMsg.round <= MCRoundNumber
    BY <1>4 DEF IsStandIn, NoMsg
  <1>6. TypeOK'
    BY <1>1, <1>2, <1>3, ChanCapType DEF IndInv, TypeOK
  <1>7. Holders' = Holders
    BY DEF Holders
  <1>8. \A m : IsStandIn(m)' <=> IsStandIn(m)
    BY DEF IsStandIn
  <1>9. StandInPending' <=> StandInPending
    <2>1. IsStandIn(dispatching)' <=> IsStandIn(leaderChan[1])
      BY <1>3, <1>5, <1>8 DEF IsStandIn
    <2>2. (\E i \in 1..Len(leaderChan) : IsStandIn(leaderChan[i]))
          <=> \/ IsStandIn(leaderChan[1])
              \/ \E i \in 1..Len(leaderChan') : IsStandIn(leaderChan'[i])
      <3>1. \A i \in 1..Len(leaderChan) : i # 1 =>
               i - 1 \in 1..Len(leaderChan') /\ leaderChan'[i - 1] = leaderChan[i]
        BY <1>2
      <3>2. \A i \in 1..Len(leaderChan') : i + 1 \in 1..Len(leaderChan)
        BY <1>2
      <3> QED
        BY <1>2, <3>1, <3>2
    <2> QED
      BY <1>5, <1>8, <2>1, <2>2 DEF StandInPending, IsStandIn
  <1>10. FirstLeaderOnly'
    BY <1>7, <1>9 DEF IndInv, FirstLeaderOnly
  <1>11. NoFutureRounds'
    <2>1. \A i \in 1..Len(leaderChan') : leaderChan'[i].round <= MCRoundNumber
      BY <1>2 DEF IndInv, NoFutureRounds
    <2>2. dispatching'.round <= MCRoundNumber
      BY <1>2, <1>3, <1>5 DEF IndInv, NoFutureRounds
    <2> QED
      BY <2>1, <2>2 DEF IndInv, NoFutureRounds
  <1>12. OneStandIn'
    <2>1. \A i \in 1..Len(leaderChan') : i + 1 \in 1..Len(leaderChan) /\ i + 1 # 1
      BY <1>2
    <2>2. 1 \in 1..Len(leaderChan)
      BY <1>2
    <2>3. OneStandIn
      BY DEF IndInv
    <2>4. \A i, j \in 1..Len(leaderChan') :
            IsStandIn(leaderChan'[i]) /\ IsStandIn(leaderChan'[j]) => i = j
      BY <1>2, <2>1, <2>3 DEF OneStandIn
    <2>5. IsStandIn(dispatching') => IsStandIn(leaderChan[1])
      BY <1>3, <1>5
    <2>6. IsStandIn(leaderChan[1]) =>
            \A i \in 1..Len(leaderChan') : ~IsStandIn(leaderChan'[i])
      BY <1>2, <2>1, <2>2, <2>3 DEF OneStandIn
    <2>7. (\A i \in 1..Len(leaderChan) : ~IsStandIn(leaderChan[i])) =>
            /\ \A i \in 1..Len(leaderChan') : ~IsStandIn(leaderChan'[i])
            /\ ~IsStandIn(dispatching')
      BY <1>2, <2>1, <2>2, <2>5
    <2> QED
      BY <1>8, <2>2, <2>3, <2>4, <2>5, <2>6, <2>7 DEF OneStandIn, IsStandIn
  <1> QED
    BY <1>6, <1>7, <1>9, <1>10, <1>11, <1>12
       DEF IndInv, OneBlockPerRound, ClosingHolds, SameElection

\* Spawning a claim moves a stand-in from the loop to the goroutines; any
\* other claim starts behind MCPLock.
LEMMA SpawnStep ==
    ASSUME IndInv, SpawnClaim
    PROVE  IndInv' /\ SameElection
  <1> USE DEF SpawnClaim, rootVars, nodeVars
  <1> DEFINE g == [msg |-> dispatching, pc |-> "spawned"]
  <1>1. MCRoundNumber \in Nat \ {0}
    BY RoundsAssumption DEF IndInv, TypeOK
  <1>2. dispatching \in NewLeaderMsg /\ dispatching.round <= MCRoundNumber
    BY DEF IndInv, TypeOK, NoFutureRounds
  <1>3. g \in Claim /\ g.pc = "spawned" /\ g.msg = dispatching
    BY <1>2 DEF Claim
  <1>4. ~IsStandIn(dispatching)' /\ NoMsg.round <= MCRoundNumber
    BY <1>1 DEF IsStandIn, NoMsg
  <1>5. \/ claims' = claims \cup {g}
        \/ claims' = claims /\ ~IsStandIn(dispatching)
    BY DEF MayLead, IsStandIn
  <1> HIDE DEF g
  <1>6. TypeOK'
    BY <1>3, <1>5 DEF IndInv, TypeOK
  <1>7. Holders' = Holders
    BY <1>3, <1>5 DEF Holders
  <1>8. \A m : IsStandIn(m)' <=> IsStandIn(m)
    BY DEF IsStandIn
  <1>9. StandInPending' <=> StandInPending
    BY <1>3, <1>4, <1>5, <1>8 DEF StandInPending, IsStandIn
  <1>10. FirstLeaderOnly'
    BY <1>7, <1>9 DEF IndInv, FirstLeaderOnly
  <1>11. NoFutureRounds'
    BY <1>2, <1>3, <1>4, <1>5 DEF IndInv, NoFutureRounds
  <1>12. OneStandIn'
    BY <1>3, <1>4, <1>5, <1>8 DEF IndInv, OneStandIn, IsStandIn
  <1>13. ClosingHolds'
    BY <1>3, <1>5 DEF IndInv, ClosingHolds
  <1> QED
    BY <1>6, <1>7, <1>9, <1>10, <1>11, <1>12, <1>13
       DEF IndInv, OneBlockPerRound, SameElection

\* Taking the leadership needs a free round, or is the step by which the one
\* stand-in becomes the one holder.
LEMMA TakeLeadershipStep ==
    ASSUME IndInv, NEW c \in claims, TakeLeadership(c)
    PROVE  /\ IndInv'
           /\ \/ SameElection
              \/ /\ UNCHANGED <<chain, MCRoundNumber>>
                 /\ ~StandInPending' /\ Holders' = {At(c, "sleeping")}
                 /\ \/ StandInPending /\ c.msg.from = Root
                    \/ /\ ~StandInPending /\ Holders = {}
                       /\ MCRoundNumber \in Rounds
  <1> USE DEF TakeLeadership, nodeVars
  <1> DEFINE d == At(c, "sleeping")
  <1>1. c \in Claim /\ c.msg.round <= MCRoundNumber
    BY DEF IndInv, TypeOK, NoFutureRounds
  <1>2. d \in Claim /\ d.pc = "sleeping" /\ d.msg = c.msg
    BY <1>1 DEF At, Claim
  <1>3. \A m : IsStandIn(m)' <=> IsStandIn(m)
    BY DEF IsStandIn
  <1>4. CASE ~MayLead(c.msg)
    <2>1. claims' = claims \ {c} /\ HasLeader' = HasLeader
      BY <1>4
    <2>2. ~IsStandIn(c.msg) /\ c \notin Holders
      BY <1>4 DEF MayLead, IsStandIn, Holders
    <2>3. Holders' = Holders
      BY <2>1, <2>2 DEF Holders
    <2>4. StandInPending' <=> StandInPending
      BY <1>3, <2>1, <2>2 DEF StandInPending, IsStandIn
    <2>5. TypeOK'
      BY <2>1 DEF IndInv, TypeOK
    <2>6. NoFutureRounds' /\ ClosingHolds'
      BY <2>1 DEF IndInv, NoFutureRounds, ClosingHolds
    <2>7. FirstLeaderOnly'
      BY <2>1, <2>3, <2>4 DEF IndInv, FirstLeaderOnly
    <2>8. OneStandIn'
      BY <1>3, <2>1 DEF IndInv, OneStandIn, IsStandIn
    <2> QED
      BY <2>3, <2>4, <2>5, <2>6, <2>7, <2>8 DEF IndInv, OneBlockPerRound, SameElection
  <1>5. CASE MayLead(c.msg)
    <2>1. claims' = (claims \ {c}) \cup {d} /\ HasLeader' = TRUE
      BY <1>5
    <2> HIDE DEF d
    <2>2. TypeOK'
      <3>1. claims' \subseteq Claim
        BY <1>2, <2>1 DEF IndInv, TypeOK
      <3>2. HasLeader' \in BOOLEAN
        BY <2>1, Zenon
      <3> QED
        BY <3>1, <3>2 DEF IndInv, TypeOK
    <2>3. NoFutureRounds' /\ ClosingHolds'
      BY <1>1, <1>2, <2>1 DEF IndInv, NoFutureRounds, ClosingHolds
    <2>4. OneStandIn'
      BY <1>2, <1>3, <2>1 DEF IndInv, OneStandIn, IsStandIn
    <2>5. Holders' \subseteq Holders \cup {d}
      BY <1>2, <2>1 DEF Holders
    <2>6. CASE c.msg.round # MCRoundNumber
      <3>1. d \notin Holders' /\ ~IsStandIn(c.msg)
        BY <1>2, <2>6 DEF Holders, IsStandIn
      <3>2. StandInPending' <=> StandInPending
        BY <1>2, <1>3, <2>1, <3>1 DEF StandInPending, IsStandIn
      <3>3. Holders' = Holders
        BY <2>1, <2>6, <3>1 DEF Holders
      <3> QED
        BY <2>1, <2>2, <2>3, <2>4, <3>2, <3>3
           DEF IndInv, FirstLeaderOnly, OneBlockPerRound, SameElection
    <2>7. CASE c.msg.round = MCRoundNumber
      <3>1. Holders = {}
        BY <2>7, <1>5 DEF MayLead, IndInv, FirstLeaderOnly, StandInPending, IsStandIn
      <3>2. ~StandInPending'
        <4>1. CASE IsStandIn(c.msg)
          BY <4>1, <1>2, <1>3, <2>1 DEF IndInv, OneStandIn, StandInPending, IsStandIn
        <4>2. CASE ~IsStandIn(c.msg)
          <5>1. ~StandInPending
            BY <4>2, <2>7, <1>5 DEF MayLead, IsStandIn, IndInv, FirstLeaderOnly
          <5> QED
            BY <5>1, <1>2, <1>3, <2>1 DEF StandInPending, IsStandIn
        <4> QED
          BY <4>1, <4>2
      <3>3. Holders' = {d}
        BY <1>2, <2>1, <2>5, <2>7, <3>1 DEF Holders
      <3>4. MCRoundNumber \in Rounds
        BY <1>1, <2>7 DEF Claim, NewLeaderMsg
      <3>5. StandInPending => c.msg.from = Root
        BY <1>5 DEF MayLead, IndInv, FirstLeaderOnly
      <3>6. FirstLeaderOnly'
        BY <2>1, <3>2, <3>3 DEF FirstLeaderOnly
      <3> QED
        BY <2>1, <2>2, <2>3, <2>4, <3>1, <3>2, <3>3, <3>4, <3>5, <3>6
           DEF IndInv, OneBlockPerRound, d
    <2> QED
      BY <2>6, <2>7
  <1> QED
    BY <1>4, <1>5

\* A goroutine that wakes up either goes on to close the round or ends; no
\* other goroutine becomes a holder.
LEMMA PreNewRoundStep ==
    ASSUME IndInv, NEW c \in claims, RootPreNewRound(c)
    PROVE  /\ IndInv'
           /\ UNCHANGED <<chain, MCRoundNumber>>
           /\ \/ MCRoundNumber = 1
              \/ SameElection
              \/ /\ StandInPending' <=> StandInPending
                 /\ Holders = {c} /\ Holders' = {At(c, "closing")}
  <1> USE DEF RootPreNewRound, rootVars, nodeVars
  <1> DEFINE d == At(c, "closing")
  <1>1. c \in Claim /\ c.msg.round <= MCRoundNumber /\ c.pc = "sleeping"
    BY DEF IndInv, TypeOK, NoFutureRounds
  <1>2. d \in Claim /\ d.pc = "closing" /\ d.msg = c.msg
    BY <1>1 DEF At, Claim
  <1>3. \A m : IsStandIn(m)' <=> IsStandIn(m)
    BY DEF IsStandIn
  <1>4. \/ claims' = claims \ {c}
        \/ /\ claims' = (claims \ {c}) \cup {d}
           /\ c.msg.round = MCRoundNumber /\ MCRoundNumber # 1
           /\ c \in Holders
    BY <1>1 DEF ClosesRound, Holders
  <1> HIDE DEF d
  <1>5. TypeOK'
    BY <1>2, <1>4 DEF IndInv, TypeOK
  <1>6. NoFutureRounds' /\ ClosingHolds'
    BY <1>1, <1>2, <1>4 DEF IndInv, NoFutureRounds, ClosingHolds
  <1>7. OneStandIn'
    BY <1>2, <1>3, <1>4 DEF IndInv, OneStandIn, IsStandIn
  <1>8. StandInPending' => StandInPending
    BY <1>2, <1>3, <1>4 DEF StandInPending, IsStandIn
  <1>9. \/ Holders' \subseteq Holders
        \/ Holders' \subseteq (Holders \ {c}) \cup {d} /\ c \in Holders
    BY <1>2, <1>4 DEF Holders
  <1>10. FirstLeaderOnly'
    BY <1>8, <1>9 DEF IndInv, FirstLeaderOnly
  <1>11. ASSUME MCRoundNumber # 1
         PROVE  \/ SameElection
                \/ /\ StandInPending' <=> StandInPending
                   /\ Holders = {c} /\ Holders' = {d}
    <2>1. StandInPending' <=> StandInPending
      BY <1>1, <1>2, <1>3, <1>4 DEF StandInPending, IsStandIn
    <2>2. CASE c \in Holders
      <3>1. ClosesRound(c.msg) /\ Holders = {c}
        BY <1>11, <2>2 DEF ClosesRound, Holders, IndInv, FirstLeaderOnly
      <3>2. claims' = (claims \ {c}) \cup {d}
        BY <3>1 DEF d
      <3>3. Holders' = {d}
        BY <1>2, <2>2, <3>1, <3>2 DEF Holders
      <3> QED
        BY <2>1, <3>1, <3>3
    <2>3. CASE c \notin Holders
      <3>1. claims' = claims \ {c}
        BY <1>4, <2>3
      <3>2. Holders' = Holders
        BY <2>3, <3>1 DEF Holders
      <3> QED
        BY <2>1, <3>2 DEF SameElection
    <2> QED
      BY <2>2, <2>3
  <1> QED
    BY <1>5, <1>6, <1>7, <1>10, <1>11 DEF IndInv, OneBlockPerRound, d

\* startTimer claims the round only when nobody leads it, hence when there is
\* neither a holder nor a stand-in.
LEMMA TimerStep ==
    ASSUME IndInv, NEW r \in timers, startTimer(r)
    PROVE  /\ IndInv'
           /\ \/ SameElection
              \/ /\ UNCHANGED <<chain, MCRoundNumber>>
                 /\ ~StandInPending /\ Holders = {} /\ StandInPending'
                 /\ MCRoundNumber \in Rounds
  <1> USE DEF startTimer, nodeVars
  <1>1. r \in Rounds /\ r <= MCRoundNumber
    BY DEF IndInv, TypeOK, NoFutureRounds
  <1>2. \A m : IsStandIn(m)' <=> IsStandIn(m)
    BY DEF IsStandIn
  <1>3. Holders' = Holders
    BY DEF Holders
  <1>4. ClosingHolds' /\ OneBlockPerRound'
    BY DEF IndInv, ClosingHolds, OneBlockPerRound
  <1>5. CASE LeaderlessRound(r)
    <2>1. HasLeader' = TRUE /\ pushing' = r /\ MCRoundNumber = r /\ ~HasLeader
      BY <1>5 DEF LeaderlessRound
    <2>2. ~StandInPending /\ Holders = {}
      BY <2>1 DEF IndInv, FirstLeaderOnly
    <2>3. TypeOK'
      <3>1. HasLeader' \in BOOLEAN
        BY <2>1, Zenon
      <3> QED
        BY <1>1, <2>1, <3>1 DEF IndInv, TypeOK
    <2>4. NoFutureRounds'
      BY <1>1, <2>1 DEF IndInv, NoFutureRounds
    <2>5. FirstLeaderOnly'
      BY <1>3, <2>1, <2>2 DEF FirstLeaderOnly
    <2>6. \A c \in claims : ~IsStandIn(c.msg)
      BY <2>2 DEF StandInPending, Holders, IsStandIn
    <2>7. OneStandIn'
      BY <1>2, <2>2, <2>6 DEF IndInv, OneStandIn, StandInPending, IsStandIn
    <2> QED
      BY <1>1, <1>4, <2>1, <2>2, <2>3, <2>4, <2>5, <2>7 DEF IndInv, StandInPending
  <1>6. CASE ~LeaderlessRound(r)
    <2>1. UNCHANGED <<HasLeader, pushing>>
      BY <1>6
    <2>2. TypeOK' /\ NoFutureRounds'
      BY <2>1 DEF IndInv, TypeOK, NoFutureRounds
    <2> QED
      BY <2>1, <2>2, ElectionUntouched DEF IndInv
  <1> QED
    BY <1>5, <1>6

\* The stand-in moves from the timer goroutine into the channel.
LEMMA PushStep ==
    ASSUME IndInv, PushOwnLeader
    PROVE  IndInv' /\ SameElection
  <1> USE DEF PushOwnLeader, nodeVars
  <1> DEFINE m == [from |-> Root, seed |-> pushing, round |-> pushing]
  <1>1. MCRoundNumber \in Nat \ {0}
    BY RoundsAssumption DEF IndInv, TypeOK
  <1>2. /\ pushing \in Rounds
        /\ leaderChan \in Seq(NewLeaderMsg) /\ Len(leaderChan) < ChanCap
    BY DEF IndInv, TypeOK
  <1>3. m \in NewLeaderMsg /\ m.round = pushing
    BY <1>2 DEF NewLeaderMsg, Participants
  <1>4. IsStandIn(m) <=> pushing = MCRoundNumber
    BY DEF IsStandIn
  <1> HIDE DEF m
  <1>5. /\ leaderChan' \in Seq(NewLeaderMsg)
        /\ Len(leaderChan') = Len(leaderChan) + 1
        /\ \A i \in 1..Len(leaderChan) : leaderChan'[i] = leaderChan[i]
        /\ leaderChan'[Len(leaderChan) + 1] = m
    BY <1>2, <1>3, SendFacts DEF m
  <1>6. Len(leaderChan) \in Nat
    BY <1>2
  <1>7. \A i \in 1..Len(leaderChan') :
           \/ i \in 1..Len(leaderChan) /\ leaderChan'[i] = leaderChan[i]
           \/ i = Len(leaderChan) + 1 /\ leaderChan'[i] = m
    BY <1>5, <1>6
  <1>8. \A x : IsStandIn(x)' <=> IsStandIn(x)
    BY DEF IsStandIn
  <1>9. pushing' # MCRoundNumber
    BY <1>1
  <1>10. TypeOK'
    BY <1>2, <1>5, <1>6, ChanCapType DEF IndInv, TypeOK
  <1>11. Holders' = Holders
    BY DEF Holders
  <1>12. StandInPending' <=> StandInPending
    BY <1>4, <1>5, <1>6, <1>7, <1>8, <1>9 DEF StandInPending, IsStandIn
  <1>13. FirstLeaderOnly'
    BY <1>11, <1>12 DEF IndInv, FirstLeaderOnly
  <1>14. pushing <= MCRoundNumber
    BY DEF IndInv, NoFutureRounds
  <1>15. NoFutureRounds'
    BY <1>1, <1>3, <1>7, <1>14 DEF IndInv, NoFutureRounds
  <1>16. OneStandIn'
    <2>1. OneStandIn
      BY DEF IndInv
    <2> QED
      BY <1>4, <1>7, <1>8, <1>9, <2>1 DEF OneStandIn, IsStandIn
  <1> QED
    BY <1>10, <1>11, <1>12, <1>13, <1>15, <1>16
       DEF IndInv, OneBlockPerRound, ClosingHolds, SameElection

\* Closing a round and opening the next.  Whatever is still under way was
\* announced for a round that is now over, so nobody leads the new round.
LEMMA OpenRound ==
    ASSUME IndInv, readBCAndSendtoOthers, MCRoundNumber \in Rounds,
           NEW b \in Block, b.round = MCRoundNumber, chain' = Append(chain, b),
           claims' \subseteq claims, \A c \in claims' : c.pc # "closing",
           UNCHANGED <<pushing, nodeVars, inflight, leaderChan, dispatching>>
    PROVE  /\ IndInv'
           /\ ~StandInPending' /\ Holders' = {}
           /\ MCRoundNumber' = MCRoundNumber + 1
  <1> USE DEF nodeVars
  <1>1. MCRoundNumber' = MCRoundNumber + 1 /\ MCRoundNumber \in Nat
    BY RoundsAssumption DEF readBCAndSendtoOthers, Rounds
  <1>2. /\ \A i \in 1..Len(leaderChan) :
              leaderChan[i].round \in Nat /\ leaderChan[i].round <= MCRoundNumber
        /\ dispatching.round \in Nat /\ dispatching.round <= MCRoundNumber
        /\ \A c \in claims : c.msg.round \in Nat /\ c.msg.round <= MCRoundNumber
        /\ \A m \in inflight : m.round \in Nat /\ m.round <= MCRoundNumber
        /\ pushing \in Nat /\ pushing <= MCRoundNumber
        /\ \A r \in timers : r \in Nat /\ r <= MCRoundNumber
    <2>1. Rounds \subseteq Nat
      BY RoundsAssumption DEF Rounds
    <2>2. \A m \in NewLeaderMsg \cup {NoMsg} : m.round \in Nat
      <3>1. NoMsg.round \in Nat
        BY DEF NoMsg
      <3>2. \A m \in NewLeaderMsg : m.round \in Nat
        BY <2>1 DEF NewLeaderMsg
      <3> QED
        BY <3>1, <3>2
    <2>3. /\ \A i \in 1..Len(leaderChan) : leaderChan[i] \in NewLeaderMsg
          /\ dispatching \in NewLeaderMsg \cup {NoMsg}
          /\ inflight \subseteq NewLeaderMsg
      BY DEF IndInv, TypeOK
    <2>4. \A c \in claims : c.msg \in NewLeaderMsg
      BY DEF IndInv, TypeOK, Claim
    <2>5. pushing \in Nat /\ timers \subseteq Nat
      BY <2>1 DEF IndInv, TypeOK
    <2> QED
      BY <2>2, <2>3, <2>4, <2>5 DEF IndInv, NoFutureRounds
  <1>3. /\ ~StandInPending' /\ Holders' = {}
    BY <1>1, <1>2 DEF StandInPending, Holders, IsStandIn
  <1>4. FirstLeaderOnly'
    BY <1>3 DEF FirstLeaderOnly
  <1>5. OneStandIn'
    BY <1>1, <1>2 DEF OneStandIn, IsStandIn
  <1>6. ClosingHolds'
    BY DEF ClosingHolds
  <1>7. /\ chain' \in Seq(Block)
        /\ Len(chain') = Len(chain) + 1
        /\ \A i \in 1..Len(chain) : chain'[i] = chain[i]
        /\ chain'[Len(chain) + 1] = b
    BY SendFacts DEF IndInv, TypeOK
  <1>8. Len(chain) = MCRoundNumber - 1 /\ \A i \in 1..Len(chain) : chain[i].round = i
    BY DEF IndInv, OneBlockPerRound
  <1>9. OneBlockPerRound'
    BY <1>1, <1>7, <1>8 DEF OneBlockPerRound
  <1>10. CASE LastRound
    <2>1. done' = TRUE /\ UNCHANGED <<HasLeader, timers, newRounds>>
      BY <1>10 DEF readBCAndSendtoOthers
    <2>2. done' \in BOOLEAN
      BY <2>1, Zenon
    <2>3. TypeOK'
      BY <1>1, <1>7, <2>1, <2>2, RoundsAssumption DEF IndInv, TypeOK, Rounds
    <2>4. NoFutureRounds'
      <3>1. \A n \in Nodes : nodeRound[n] + Len(newRounds[n]) \in Nat
        BY RoundsAssumption DEF IndInv, TypeOK, Rounds
      <3> QED
        BY <1>1, <1>2, <2>1, <3>1 DEF IndInv, NoFutureRounds
    <2> QED
      BY <1>1, <1>3, <1>4, <1>5, <1>6, <1>9, <2>3, <2>4 DEF IndInv
  <1>11. CASE ~LastRound
    <2>1. /\ HasLeader' = FALSE /\ done' = done
          /\ timers' = timers \cup {MCRoundNumber + 1}
      BY <1>11 DEF readBCAndSendtoOthers
    <2>2. PICK powers \in PowerSets :
            newRounds' = [n \in Nodes |->
                IF n \in powers THEN Append(newRounds[n], MCRoundNumber + 1)
                                ELSE newRounds[n]]
      BY <1>11 DEF readBCAndSendtoOthers
    <2>3. MCRoundNumber + 1 \in Rounds
      BY <1>11, RoundsAssumption DEF LastRound, Rounds
    <2>4. ASSUME NEW n \in Nodes
          PROVE  /\ newRounds'[n] \in Seq(Rounds)
                 /\ Len(newRounds'[n]) \in {Len(newRounds[n]), Len(newRounds[n]) + 1}
                 /\ Len(newRounds[n]) \in Nat
      <3>1. newRounds[n] \in Seq(Rounds)
        BY DEF IndInv, TypeOK
      <3>2. CASE n \in powers
        <4>1. newRounds'[n] = Append(newRounds[n], MCRoundNumber + 1)
          BY <2>2, <3>2
        <4> QED
          BY <2>3, <3>1, <4>1, SendFacts
      <3>3. CASE n \notin powers
        <4>1. newRounds'[n] = newRounds[n]
          BY <2>2, <3>3
        <4> QED
          BY <3>1, <4>1
      <3> QED
        BY <3>2, <3>3
    <2>5. TypeOK'
      <3>1. HasLeader' \in BOOLEAN
        BY <2>1, Zenon
      <3>2. newRounds' \in [Nodes -> Seq(Rounds)]
        BY <2>2, <2>4
      <3>3. timers' \subseteq Rounds
        BY <2>1, <2>3 DEF IndInv, TypeOK
      <3>4. MCRoundNumber' \in 1..(SimulationRounds + 1)
        BY <1>1, <2>3, RoundsAssumption DEF Rounds
      <3> QED
        BY <1>7, <2>1, <3>1, <3>2, <3>3, <3>4 DEF IndInv, TypeOK
    <2>6. NoFutureRounds'
      <3>1. ASSUME NEW n \in Nodes
            PROVE  /\ nodeRound'[n] + Len(newRounds'[n]) <= MCRoundNumber'
                   /\ nodeRound'[n] + Len(newRounds'[n]) <= SimulationRounds
        <4>1. nodeRound[n] \in Nat /\ nodeRound[n] + Len(newRounds[n]) <= MCRoundNumber
          BY RoundsAssumption DEF IndInv, TypeOK, NoFutureRounds, Rounds
        <4>2. nodeRound'[n] = nodeRound[n]
          OBVIOUS
        <4> DEFINE x == Len(newRounds[n])
                   y == Len(newRounds'[n])
        <4>3. x \in Nat /\ y \in {x, x + 1} /\ nodeRound[n] + x <= MCRoundNumber
          BY <2>4, <4>1
        <4> HIDE DEF x, y
        <4>4. nodeRound[n] + y <= MCRoundNumber + 1 /\ MCRoundNumber + 1 <= SimulationRounds
          BY <1>1, <2>3, <4>1, <4>3, RoundsAssumption DEF Rounds
        <4>5. nodeRound[n] + y <= SimulationRounds
          BY <1>1, <4>1, <4>3, <4>4, RoundsAssumption
        <4> QED
          BY <1>1, <4>2, <4>4, <4>5 DEF y
      <3>2. \A r \in timers' : r <= MCRoundNumber'
        BY <1>1, <1>2, <2>1
      <3> QED
        BY <1>1, <1>2, <3>1, <3>2 DEF IndInv, NoFutureRounds
    <2> QED
      BY <1>1, <1>3, <1>4, <1>5, <1>6, <1>9, <2>5, <2>6 DEF IndInv
  <1> QED
    BY <1>10, <1>11

\* StartMainChainProtocol writes block 1 and opens round 2.
LEMMA StartStep ==
    ASSUME IndInv, StartMainChainProtocol
    PROVE  IndInv' /\ ~StandInPending' /\ Holders' = {} /\ MCRoundNumber' = 2
  <1> DEFINE b == [round |-> 1, leader |-> Root, seed |-> 1, empty |-> FALSE]
  <1>1. 1 \in Rounds
    BY RoundsAssumption DEF Rounds
  <1>2. b \in Block /\ b.round = 1
    BY <1>1 DEF Block, Participants
  <1>3. chain' = Append(chain, b)
    BY DEF StartMainChainProtocol, AppendBlock
  <1>4. MCRoundNumber = 1 /\ \A c \in claims : c.pc # "closing"
    BY DEF StartMainChainProtocol, IndInv, ClosingHolds
  <1> HIDE DEF b
  <1> QED
    BY <1>1, <1>2, <1>3, <1>4, OpenRound DEF StartMainChainProtocol

\* RootPreNewRound writes the block of the open round and opens the next.
LEMMA CloseStep ==
    ASSUME IndInv, NEW c \in claims, CloseRound(c)
    PROVE  /\ IndInv' /\ ~StandInPending' /\ Holders' = {}
           /\ Holders = {c} /\ MCRoundNumber \in Rounds /\ MCRoundNumber # 1
           /\ MCRoundNumber' = MCRoundNumber + 1
  <1> DEFINE b == [round |-> c.msg.round, leader |-> c.msg.from,
                   seed |-> c.msg.seed, empty |-> c.msg.from = Root]
  <1>1. c \in Claim /\ c.pc = "closing" /\ c.msg.round = MCRoundNumber /\ MCRoundNumber # 1
    BY DEF CloseRound, IndInv, TypeOK, ClosingHolds
  <1>2. b \in Block /\ b.round = MCRoundNumber /\ MCRoundNumber \in Rounds
    BY <1>1 DEF Claim, NewLeaderMsg, Block
  <1>3. chain' = Append(chain, b)
    BY DEF CloseRound, AppendBlock
  <1>4. \A d \in claims : d.pc = "closing" => d \in Holders
    BY DEF IndInv, ClosingHolds, Holders
  <1>5. Holders = {c} /\ \A d \in claims' : d.pc # "closing"
    BY <1>1, <1>4 DEF CloseRound, IndInv, FirstLeaderOnly, Holders
  <1>6. claims' \subseteq claims /\ readBCAndSendtoOthers
    BY DEF CloseRound
  <1>7. UNCHANGED <<pushing, nodeVars, inflight, leaderChan, dispatching>>
    BY DEF CloseRound
  <1> HIDE DEF b
  <1> QED
    BY <1>1, <1>2, <1>3, <1>5, <1>6, <1>7, OpenRound

\* Every step of the round engine preserves the invariant.
LEMMA NextIndInv == IndInv /\ [Next]_vars => IndInv'
  <1> SUFFICES ASSUME IndInv, [Next]_vars PROVE IndInv'
    OBVIOUS
  <1>1. CASE UNCHANGED vars
    <2>1. TypeOK' /\ NoFutureRounds'
      BY <1>1 DEF vars, IndInv, TypeOK, NoFutureRounds
    <2> QED
      BY <1>1, <2>1, ElectionUntouched DEF vars, IndInv
  <1>2. CASE RootStep
    BY <1>2, StartStep, NewLeaderStep, SpawnStep, PushStep, TakeLeadershipStep,
       PreNewRoundStep, CloseStep, TimerStep, DeliverStep DEF RootStep
  <1>3. CASE \E n \in Nodes : NodeStep(n)
    BY <1>3, NewRoundStep, CheckLeadershipStep DEF NodeStep
  <1> QED
    BY <1>1, <1>2, <1>3 DEF Next

\* IndInv is an invariant of the round engine.
THEOREM IndInvHolds == Spec => []IndInv
  BY InitIndInv, NextIndInv, PTL DEF Spec

\* Every variable of the round engine keeps its type and its bounds: the
\* root never runs a round too many (MainChainBlockChain.go:80) and the
\* channel never overflows (onet/treenode.go:485).
THEOREM TypeCorrect == Spec => []TypeOK
  <1>1. IndInv => TypeOK
    BY DEF IndInv
  <1> QED
    BY <1>1, IndInvHolds, PTL

\* In every round at most one goroutine leads, for any number of racing
\* NewLeader messages, timers and spawned goroutines.
THEOREM Exclusion == Spec => []FirstLeaderOnly
  <1>1. IndInv => FirstLeaderOnly
    BY DEF IndInv
  <1> QED
    BY <1>1, IndInvHolds, PTL

\* The chain holds one block per closed round, written by a claim for that
\* round.
THEOREM BlockPerRound == Spec => []OneBlockPerRound
  <1>1. IndInv => OneBlockPerRound
    BY DEF IndInv
  <1> QED
    BY <1>1, IndInvHolds, PTL

-----------------------------------------------------------------------------
(* The round engine implements RoundLog.                                   *)

\* A step that leaves chain and winner alone is a stutter of the round log.
LEMMA LogStutter ==
    ASSUME SameElection
    PROVE  UNCHANGED Log!vars
  BY DEF SameElection, PublicLog, Winner, Log!vars

\* The winner is the root's stand-in, or else the only holder.
LEMMA WinnerFacts ==
    ASSUME MCRoundNumber # 1
    PROVE  /\ StandInPending => Winner = Root
           /\ ~StandInPending /\ Holders = {} => Winner = NoLeader
           /\ \A c : ~StandInPending /\ Holders = {c} => Winner = c.msg.from
  BY DEF Winner

\* Closing a round appends the block to the public log.
LEMMA PublicLogGrows ==
    ASSUME NEW b \in Block, chain \in Seq(Block), chain' = Append(chain, b)
    PROVE  /\ PublicLog' = Append(PublicLog, [leader |-> b.leader, empty |-> b.empty])
           /\ Len(PublicLog) = Len(chain)
           /\ PublicLog = <<>> <=> chain = <<>>
  <1> DEFINE R == [leader : Participants, empty : BOOLEAN]
             e == [leader |-> b.leader, empty |-> b.empty]
  <1>1. /\ chain' \in Seq(Block)
        /\ Len(chain') = Len(chain) + 1
        /\ \A i \in 1..Len(chain) : chain'[i] = chain[i]
        /\ chain'[Len(chain) + 1] = b
    BY SendFacts
  <1>2. Len(chain) \in Nat /\ \A i \in 1..Len(chain) : chain[i] \in Block
    OBVIOUS
  <1>3. PublicLog \in Seq(R) /\ Len(PublicLog) = Len(chain)
    BY <1>2 DEF PublicLog, Block
  <1>4. PublicLog' \in Seq(R) /\ Len(PublicLog') = Len(chain) + 1
    <2>1. \A i \in 1..Len(chain') : chain'[i] \in Block
      BY <1>1
    <2> QED
      BY <1>1, <1>2, <2>1 DEF PublicLog, Block
  <1>5. e \in R
    BY DEF Block
  <1> HIDE DEF R, e
  <1>6. /\ Append(PublicLog, e) \in Seq(R)
        /\ Len(Append(PublicLog, e)) = Len(PublicLog) + 1
        /\ \A i \in 1..Len(PublicLog) : Append(PublicLog, e)[i] = PublicLog[i]
        /\ Append(PublicLog, e)[Len(PublicLog) + 1] = e
    BY <1>3, <1>5, SendFacts
  <1>7. ASSUME NEW i \in 1..(Len(chain) + 1)
        PROVE  PublicLog'[i] = Append(PublicLog, e)[i]
    <2>1. CASE i = Len(chain) + 1
      <3>1. PublicLog'[i] = e
        BY <1>1, <1>2, <2>1 DEF PublicLog, e
      <3> QED
        BY <1>3, <1>6, <2>1, <3>1
    <2>2. CASE i \in 1..Len(chain)
      <3>1. PublicLog'[i] = [leader |-> chain[i].leader, empty |-> chain[i].empty]
        BY <1>1, <1>2, <2>2 DEF PublicLog
      <3>2. PublicLog[i] = [leader |-> chain[i].leader, empty |-> chain[i].empty]
        BY <2>2 DEF PublicLog
      <3> QED
        BY <1>3, <1>6, <2>2, <3>1, <3>2
    <2>3. i = Len(chain) + 1 \/ i \in 1..Len(chain)
      BY <1>2
    <2> QED
      BY <2>1, <2>2, <2>3
  <1>8. PublicLog' = Append(PublicLog, e)
    BY <1>3, <1>4, <1>6, <1>7, SeqEqual
  <1>9. PublicLog = <<>> <=> chain = <<>>
    BY <1>2, <1>3, EmptySeq
  <1> QED
    BY <1>3, <1>8, <1>9 DEF e

\* The initial states map to the initial state of the round log.
LEMMA RefinementInit == Init => Log!Init
  <1> SUFFICES ASSUME Init PROVE Log!Init
    OBVIOUS
  <1>1. Winner = Root
    BY DEF Init, Winner
  <1>2. PublicLog = <<>>
    BY DEF Init, PublicLog
  <1> QED
    BY <1>1, <1>2 DEF Log!Init

\* Every step of the engine is an election, a closing or a stutter of the log.
LEMMA RefinementStep ==
    ASSUME IndInv, [Next]_vars
    PROVE  [Log!Next]_(Log!vars)
  <1>1. CASE UNCHANGED vars
    BY <1>1 DEF vars, PublicLog, Winner, StandInPending, Holders, IsStandIn, Log!vars
  <1>2. ASSUME NEW n \in Nodes, NodeStep(n)
        PROVE  UNCHANGED Log!vars
    BY <1>2, NewRoundStep, CheckLeadershipStep, LogStutter DEF NodeStep
  <1>3. CASE StartMainChainProtocol
    <2> DEFINE b == [round |-> 1, leader |-> Root, seed |-> 1, empty |-> FALSE]
    <2>1. b \in Block /\ b.leader = Root /\ b.empty = FALSE
      BY RoundsAssumption DEF Block, Participants, Rounds
    <2>2. chain' = Append(chain, b) /\ chain = <<>> /\ MCRoundNumber = 1
      BY <1>3 DEF StartMainChainProtocol, AppendBlock
    <2> HIDE DEF b
    <2>3. /\ PublicLog' = Append(PublicLog, [leader |-> b.leader, empty |-> b.empty])
          /\ PublicLog = <<>>
      BY <2>1, <2>2, PublicLogGrows
    <2>4. Winner = Root
      BY <2>2 DEF Winner
    <2>5. Winner' = NoLeader
      BY <1>3, StartStep DEF Winner
    <2>6. Root # NoLeader
      BY NodesAssumption
    <2>7. PublicLog' = Append(PublicLog, [leader |-> Winner,
                                          empty  |-> Winner = Root /\ PublicLog # <<>>])
      BY <2>1, <2>3, <2>4
    <2>8. Len(PublicLog) < SimulationRounds
      BY <2>3, RoundsAssumption
    <2>9. Log!Close
      BY <2>4, <2>5, <2>6, <2>7, <2>8 DEF Log!Close
    <2> QED
      BY <2>9 DEF Log!Next
  <1>4. ASSUME NEW c \in claims, CloseRound(c)
        PROVE  Log!Close
    <2> DEFINE b == [round |-> c.msg.round, leader |-> c.msg.from,
                     seed |-> c.msg.seed, empty |-> c.msg.from = Root]
    <2>1. c.msg \in NewLeaderMsg /\ chain \in Seq(Block)
      BY DEF IndInv, TypeOK, Claim
    <2>2. b \in Block /\ b.leader = c.msg.from /\ b.empty = (c.msg.from = Root)
      BY <2>1 DEF NewLeaderMsg, Block
    <2>3. chain' = Append(chain, b)
      BY <1>4 DEF CloseRound, AppendBlock
    <2> HIDE DEF b
    <2>4. /\ PublicLog' = Append(PublicLog, [leader |-> b.leader, empty |-> b.empty])
          /\ Len(PublicLog) = Len(chain)
          /\ PublicLog = <<>> <=> chain = <<>>
      BY <2>1, <2>2, <2>3, PublicLogGrows
    <2>5. /\ Holders = {c} /\ MCRoundNumber \in Rounds /\ MCRoundNumber # 1
          /\ ~StandInPending' /\ Holders' = {} /\ MCRoundNumber' = MCRoundNumber + 1
      BY <1>4, CloseStep
    <2>6. ~StandInPending /\ Len(chain) = MCRoundNumber - 1
      BY <2>5 DEF IndInv, FirstLeaderOnly, OneBlockPerRound
    <2>7. Winner = c.msg.from
      BY <2>5, <2>6, WinnerFacts
    <2>8. Winner' = NoLeader
      <3>1. MCRoundNumber' # 1
        BY <2>5, RoundsAssumption DEF Rounds
      <3> QED
        BY <2>5, <3>1 DEF Winner
    <2>9. Winner # NoLeader
      BY <2>1, <2>7, NodesAssumption DEF NewLeaderMsg, Participants
    <2>10. Len(PublicLog) < SimulationRounds /\ PublicLog # <<>>
      <3>1. MCRoundNumber \in Int /\ 1 < MCRoundNumber /\ MCRoundNumber <= SimulationRounds
        BY <2>5, RoundsAssumption DEF Rounds
      <3>2. Len(chain) < SimulationRounds /\ Len(chain) # 0
        BY <2>6, <3>1, RoundsAssumption
      <3> QED
        BY <2>1, <2>4, <3>2
    <2>11. PublicLog' = Append(PublicLog, [leader |-> Winner,
                                           empty  |-> Winner = Root /\ PublicLog # <<>>])
      BY <2>2, <2>4, <2>7, <2>10
    <2> QED
      BY <2>8, <2>9, <2>10, <2>11 DEF Log!Close
  <1>5. CASE MainChainNewLeader \/ SpawnClaim \/ PushOwnLeader
    BY <1>5, NewLeaderStep, SpawnStep, PushStep, LogStutter
  <1>6. ASSUME NEW m \in inflight, DeliverNewLeader(m)
        PROVE  UNCHANGED Log!vars
    BY <1>6, DeliverStep, LogStutter
  <1>7. ASSUME NEW c \in claims, TakeLeadership(c)
        PROVE  [Log!Next]_(Log!vars)
    <2>1. c.msg.from \in Participants /\ At(c, "sleeping").msg = c.msg
      BY DEF IndInv, TypeOK, Claim, NewLeaderMsg, At
    <2>2. CASE SameElection
      BY <2>2, LogStutter
    <2>3. CASE MCRoundNumber = 1 /\ ~SameElection
      BY <1>7, <2>3, TakeLeadershipStep DEF Winner, PublicLog, Log!vars
    <2>4. CASE MCRoundNumber # 1 /\ ~SameElection
      <3>1. /\ UNCHANGED <<chain, MCRoundNumber>>
            /\ ~StandInPending' /\ Holders' = {At(c, "sleeping")}
            /\ \/ StandInPending /\ c.msg.from = Root
               \/ /\ ~StandInPending /\ Holders = {}
                  /\ MCRoundNumber \in Rounds
        BY <1>7, <2>4, TakeLeadershipStep
      <3>2. Winner' = c.msg.from /\ PublicLog' = PublicLog
        BY <2>1, <2>4, <3>1 DEF Winner, PublicLog
      <3>3. CASE StandInPending /\ c.msg.from = Root
        BY <2>4, <3>2, <3>3, WinnerFacts DEF Log!vars
      <3>4. CASE ~StandInPending /\ Holders = {} /\ MCRoundNumber \in Rounds
        <4>1. Winner = NoLeader
          BY <2>4, <3>4, WinnerFacts
        <4>2. Len(PublicLog) < SimulationRounds
          BY <3>4, RoundsAssumption DEF PublicLog, IndInv, OneBlockPerRound, Rounds
        <4>3. Log!Elect(c.msg.from)
          BY <3>2, <4>1, <4>2 DEF Log!Elect
        <4> QED
          BY <2>1, <4>3 DEF Log!Next, Participants
      <3> QED
        BY <3>1, <3>3, <3>4
    <2> QED
      BY <2>2, <2>3, <2>4
  <1>8. ASSUME NEW c \in claims, RootPreNewRound(c)
        PROVE  UNCHANGED Log!vars
    <2>1. At(c, "closing").msg = c.msg
      BY DEF At
    <2>2. CASE SameElection
      BY <2>2, LogStutter
    <2>3. CASE MCRoundNumber = 1
      BY <1>8, <2>3, PreNewRoundStep DEF Winner, PublicLog, Log!vars
    <2>4. CASE /\ StandInPending' <=> StandInPending
               /\ Holders = {c} /\ Holders' = {At(c, "closing")}
      BY <1>8, <2>1, <2>4, PreNewRoundStep DEF Winner, PublicLog, Log!vars
    <2> QED
      BY <1>8, <2>2, <2>3, <2>4, PreNewRoundStep
  <1>9. ASSUME NEW r \in timers, startTimer(r)
        PROVE  [Log!Next]_(Log!vars)
    <2>1. CASE SameElection
      BY <2>1, LogStutter
    <2>2. CASE ~SameElection
      <3>1. /\ UNCHANGED <<chain, MCRoundNumber>>
            /\ ~StandInPending /\ Holders = {} /\ StandInPending'
            /\ MCRoundNumber \in Rounds
        BY <1>9, <2>2, TimerStep
      <3>2. Winner' = Root /\ PublicLog' = PublicLog
        BY <3>1 DEF Winner, PublicLog
      <3>3. CASE MCRoundNumber = 1
        BY <3>2, <3>3 DEF Winner, Log!vars
      <3>4. CASE MCRoundNumber # 1
        <4>1. Winner = NoLeader
          BY <3>1, <3>4, WinnerFacts
        <4>2. Len(PublicLog) < SimulationRounds
          BY <3>1, RoundsAssumption DEF PublicLog, IndInv, OneBlockPerRound, Rounds
        <4>3. Log!Elect(Root)
          BY <3>2, <4>1, <4>2 DEF Log!Elect
        <4> QED
          BY <4>3 DEF Log!Next
      <3> QED
        BY <3>3, <3>4
    <2> QED
      BY <2>1, <2>2
  <1> QED
    BY <1>1, <1>2, <1>3, <1>4, <1>5, <1>6, <1>7, <1>8, <1>9
       DEF Next, RootStep, Log!Next

\* The round engine implements the public log: the first participant elected
\* in a round stays elected, and its block, and only its block, closes the
\* round.
THEOREM Refinement == Spec => ImplementsRoundLog
  <1>1. IndInv /\ [Next]_vars => [Log!Next]_(Log!vars)
    BY RefinementStep
  <1> QED
    BY <1>1, RefinementInit, IndInvHolds, PTL DEF Spec, ImplementsRoundLog, Log!Spec

-----------------------------------------------------------------------------
(* Nodes that always have power stay in step with the root.                *)

\* What the announcement does to the round counters when every node has power.
LEMMA AnnouncedToAll ==
    ASSUME TypeOK, PowerSets = {Nodes}, readBCAndSendtoOthers
    PROVE  \/ done'
           \/ /\ MCRoundNumber' = MCRoundNumber + 1 /\ done' = done
              /\ \A n \in Nodes : /\ newRounds'[n] = Append(newRounds[n], MCRoundNumber + 1)
                                  /\ newRounds[n] \in Seq(Nat)
                                  /\ Len(newRounds'[n]) = Len(newRounds[n]) + 1
                                  /\ Len(newRounds[n]) \in Nat
  <1>1. CASE LastRound
    BY <1>1 DEF readBCAndSendtoOthers
  <1>2. CASE ~LastRound
    <2>1. /\ MCRoundNumber' = MCRoundNumber + 1 /\ done' = done
          /\ newRounds' = [n \in Nodes |-> Append(newRounds[n], MCRoundNumber + 1)]
      BY <1>2 DEF readBCAndSendtoOthers
    <2>2. MCRoundNumber + 1 \in Nat /\ Rounds \subseteq Nat
      BY RoundsAssumption DEF TypeOK, Rounds
    <2>3. ASSUME NEW n \in Nodes
          PROVE  /\ newRounds'[n] = Append(newRounds[n], MCRoundNumber + 1)
                 /\ newRounds[n] \in Seq(Nat)
                 /\ Len(newRounds'[n]) = Len(newRounds[n]) + 1
                 /\ Len(newRounds[n]) \in Nat
      <3>1. newRounds[n] \in Seq(Nat)
        BY <2>2, SeqMono DEF TypeOK
      <3> QED
        BY <2>1, <2>2, <3>1, SendFacts
    <2> QED
      BY <2>1, <2>2, <2>3
  <1> QED
    BY <1>1, <1>2

\* If every node keeps its power, no node ever misses a round: the promise
\* of ChainBoostSimulation.go:279 holds exactly under this assumption.
THEOREM Synchrony == PowerSets = {Nodes} => (Spec => []NodesInSync)
  <1> SUFFICES ASSUME PowerSets = {Nodes} PROVE Spec => []NodesInSync
    OBVIOUS
  <1>1. Init => NodesInSync
    BY DEF Init, NodesInSync
  <1>2. TypeOK /\ NodesInSync /\ [Next]_vars => NodesInSync'
    <2> SUFFICES ASSUME TypeOK, NodesInSync, [Next]_vars PROVE NodesInSync'
      OBVIOUS
    <2>1. CASE UNCHANGED <<done, nodeRound, newRounds, MCRoundNumber>>
      BY <2>1 DEF NodesInSync
    <2>2. CASE readBCAndSendtoOthers /\ UNCHANGED nodeVars
      <3>1. CASE done'
        BY <3>1 DEF NodesInSync
      <3>2. CASE ~done'
        <4>1. ASSUME NEW n \in Nodes
              PROVE  nodeRound'[n] + Len(newRounds'[n]) = MCRoundNumber'
          <5>1. /\ nodeRound[n] + Len(newRounds[n]) = MCRoundNumber
                /\ Len(newRounds'[n]) = Len(newRounds[n]) + 1
                /\ Len(newRounds[n]) \in Nat
                /\ MCRoundNumber' = MCRoundNumber + 1
            BY <2>2, <3>2, AnnouncedToAll DEF NodesInSync
          <5>2. nodeRound'[n] = nodeRound[n] /\ nodeRound[n] \in Nat
            BY <2>2, RoundsAssumption DEF nodeVars, TypeOK, Rounds
          <5> QED
            BY <5>1, <5>2
        <4> QED
          BY <4>1 DEF NodesInSync
      <3> QED
        BY <3>1, <3>2
    <2>3. ASSUME NEW n \in Nodes, MainChainNewRound(n)
          PROVE  NodesInSync'
      <3>1. newRounds[n] \in Seq(Rounds) /\ newRounds[n] # <<>>
        BY <2>3 DEF TypeOK, MainChainNewRound
      <3>2. ASSUME NEW k \in Nodes
            PROVE  nodeRound'[k] + Len(newRounds'[k]) = nodeRound[k] + Len(newRounds[k])
        <4>1. CASE k = n
          <5>1. Len(newRounds'[k]) = Len(newRounds[k]) - 1 /\ Len(newRounds[k]) \in Nat
            BY <2>3, <3>1, <4>1, ReceiveFacts DEF MainChainNewRound, TypeOK
          <5>2. nodeRound'[k] = nodeRound[k] + 1 /\ nodeRound[k] \in Nat
            BY <2>3, <4>1, RoundsAssumption DEF MainChainNewRound, CountedRound, TypeOK, Rounds
          <5> QED
            BY <5>1, <5>2
        <4>2. CASE k # n
          BY <2>3, <4>2 DEF MainChainNewRound, TypeOK
        <4> QED
          BY <4>1, <4>2
      <3> QED
        BY <2>3, <3>2 DEF NodesInSync, MainChainNewRound, rootVars
    <2>4. CASE StartMainChainProtocol \/ \E c \in claims : CloseRound(c)
      BY <2>2, <2>4 DEF StartMainChainProtocol, CloseRound
    <2>5. CASE MainChainNewLeader \/ SpawnClaim \/ PushOwnLeader
      BY <2>1, <2>5 DEF MainChainNewLeader, SpawnClaim, PushOwnLeader, rootVars, nodeVars
    <2>6. CASE \E c \in claims : TakeLeadership(c) \/ RootPreNewRound(c)
      BY <2>1, <2>6 DEF TakeLeadership, RootPreNewRound, rootVars, nodeVars
    <2>7. CASE \/ \E r \in timers : startTimer(r)
               \/ \E m \in inflight : DeliverNewLeader(m)
      BY <2>1, <2>7 DEF startTimer, DeliverNewLeader, rootVars, nodeVars
    <2>8. CASE \E n \in Nodes : \E seed \in checking[n] : MainChainCheckLeadership(n, seed)
      BY <2>1, <2>8 DEF MainChainCheckLeadership, rootVars
    <2> QED
      BY <2>1, <2>3, <2>4, <2>5, <2>6, <2>7, <2>8
         DEF vars, Next, RootStep, NodeStep
  <1> QED
    BY <1>1, <1>2, TypeCorrect, PTL DEF Spec

-----------------------------------------------------------------------------
(* Every leader was elected by the seed of the round it leads.             *)

\* Seeds and rounds agree all along the way from the announcement of a round
\* to its block: a queued NewRound carries the seed of the round the node
\* will then be in, and a running check the seed of the round it is in.
SeedsMatch ==
    /\ ElectedByOwnSeed
    /\ done => MCRoundNumber > SimulationRounds
    /\ \A n \in Nodes :
          /\ \A i \in 1..Len(newRounds[n]) : newRounds[n][i] = nodeRound[n] + i
          /\ \A seed \in checking[n] : seed = nodeRound[n]
    /\ \A m \in inflight : m.seed = m.round
    /\ \A i \in 1..Len(leaderChan) : leaderChan[i].seed = leaderChan[i].round
    /\ dispatching.seed = dispatching.round
    /\ \A c \in claims : c.msg.seed = c.msg.round

\* Arithmetic of a queue that loses its head while the counter grows.
LEMMA NextSums ==
    \A a, b \in Nat : a + (b + 1) = (a + b) + 1 /\ a + (b + 1) = a + 1 + b
  OBVIOUS

\* Opening a round keeps every message's seed equal to its round.
LEMMA SeedsOpenRound ==
    ASSUME TypeOK, NodesInSync, SeedsMatch, PowerSets = {Nodes},
           readBCAndSendtoOthers, NEW b \in Block, b.seed = b.round,
           chain' = Append(chain, b), MCRoundNumber \in Rounds, claims' \subseteq claims,
           UNCHANGED <<nodeVars, inflight, leaderChan, dispatching>>
    PROVE  SeedsMatch'
  <1> USE DEF nodeVars
  <1>1. ElectedByOwnSeed'
    <2>1. /\ Len(chain') = Len(chain) + 1
          /\ \A i \in 1..Len(chain) : chain'[i] = chain[i]
          /\ chain'[Len(chain) + 1] = b
          /\ Len(chain) \in Nat
      BY SendFacts DEF TypeOK
    <2>2. \A i \in 1..Len(chain') : i \in 1..Len(chain) \/ i = Len(chain) + 1
      BY <2>1
    <2> QED
      BY <2>1, <2>2 DEF SeedsMatch, ElectedByOwnSeed
  <1>2. ~done
    BY RoundsAssumption DEF SeedsMatch, Rounds
  <1>3. done' => MCRoundNumber' > SimulationRounds
    <2>1. CASE LastRound
      <3>1. MCRoundNumber' = SimulationRounds + 1
        BY <2>1 DEF readBCAndSendtoOthers, LastRound
      <3> QED
        BY <3>1, RoundsAssumption
    <2>2. CASE ~LastRound
      BY <1>2, <2>2 DEF readBCAndSendtoOthers
    <2> QED
      BY <2>1, <2>2
  <1>4. ASSUME NEW n \in Nodes
        PROVE  \A i \in 1..Len(newRounds'[n]) : newRounds'[n][i] = nodeRound[n] + i
    <2>1. CASE LastRound
      BY <2>1 DEF readBCAndSendtoOthers, SeedsMatch
    <2>2. CASE ~LastRound
      <3>1. /\ newRounds[n] \in Seq(Nat)
            /\ newRounds'[n] = Append(newRounds[n], MCRoundNumber + 1)
            /\ Len(newRounds[n]) \in Nat
            /\ Len(newRounds'[n]) = Len(newRounds[n]) + 1
        <4>1. done' = done
          BY <2>2 DEF readBCAndSendtoOthers
        <4> QED
          BY <1>2, <4>1, AnnouncedToAll
      <3>2. MCRoundNumber \in Nat /\ MCRoundNumber + 1 \in Nat /\ nodeRound[n] \in Nat
        BY RoundsAssumption DEF TypeOK, Rounds
      <3>3. /\ \A i \in 1..Len(newRounds[n]) : newRounds'[n][i] = newRounds[n][i]
            /\ newRounds'[n][Len(newRounds[n]) + 1] = MCRoundNumber + 1
        BY <3>1, <3>2, SendFacts
      <3>4. nodeRound[n] + Len(newRounds[n]) = MCRoundNumber
        BY <1>2 DEF NodesInSync
      <3>5. \A i \in 1..Len(newRounds'[n]) :
               i \in 1..Len(newRounds[n]) \/ i = Len(newRounds[n]) + 1
        BY <3>1
      <3>6. nodeRound[n] + (Len(newRounds[n]) + 1) = MCRoundNumber + 1
        BY <3>1, <3>2, <3>4, NextSums
      <3> QED
        BY <3>3, <3>5, <3>6 DEF SeedsMatch
    <2> QED
      BY <2>1, <2>2
  <1> QED
    BY <1>1, <1>4, <1>3 DEF SeedsMatch

\* A node that counts a round is then in the round of the seed it checks.
LEMMA SeedsNewRound ==
    ASSUME TypeOK, SeedsMatch, Prompt, NEW n \in Nodes, MainChainNewRound(n)
    PROVE  SeedsMatch'
  <1> USE DEF MainChainNewRound, rootVars, CountedRound
  <1>1. newRounds[n] \in Seq(Rounds) /\ newRounds[n] # <<>> /\ nodeRound[n] \in Nat
    BY RoundsAssumption DEF TypeOK, Rounds
  <1>2. /\ Head(newRounds[n]) = newRounds[n][1]
        /\ Len(newRounds[n]) \in Nat \ {0}
        /\ Len(Tail(newRounds[n])) = Len(newRounds[n]) - 1
        /\ \A i \in 1..Len(Tail(newRounds[n])) : Tail(newRounds[n])[i] = newRounds[n][i + 1]
    BY <1>1, ReceiveFacts
  <1>3. /\ nodeRound'[n] = nodeRound[n] + 1
        /\ newRounds'[n] = Tail(newRounds[n])
        /\ checking'[n] = {Head(newRounds[n])}
    BY DEF TypeOK
  <1>4. \A i \in 1..Len(newRounds'[n]) : newRounds'[n][i] = nodeRound'[n] + i
    <2> SUFFICES ASSUME NEW i \in 1..Len(Tail(newRounds[n]))
                 PROVE  Tail(newRounds[n])[i] = nodeRound[n] + 1 + i
      BY <1>3
    <2>1. i + 1 \in 1..Len(newRounds[n]) /\ i \in Nat
      BY <1>2
    <2>2. newRounds[n][i + 1] = nodeRound[n] + (i + 1)
      BY <2>1 DEF SeedsMatch
    <2> QED
      <3>1. Tail(newRounds[n])[i] = newRounds[n][i + 1]
        BY <1>2
      <3>2. nodeRound[n] + (i + 1) = nodeRound[n] + 1 + i
        BY <1>1, <2>1, NextSums
      <3> QED
        BY <2>2, <3>1, <3>2
  <1>5. \A seed \in checking'[n] : seed = nodeRound'[n]
    <2>1. newRounds[n][1] = nodeRound[n] + 1
      BY <1>2 DEF SeedsMatch
    <2> QED
      BY <1>2, <1>3, <2>1
  <1>6. ASSUME NEW k \in Nodes, k # n
        PROVE  /\ newRounds'[k] = newRounds[k] /\ nodeRound'[k] = nodeRound[k]
               /\ checking'[k] = checking[k]
    BY <1>6 DEF TypeOK
  <1>7. ElectedByOwnSeed'
    BY DEF SeedsMatch, ElectedByOwnSeed
  <1>8. \A k \in Nodes :
          /\ \A i \in 1..Len(newRounds'[k]) : newRounds'[k][i] = nodeRound'[k] + i
          /\ \A seed \in checking'[k] : seed = nodeRound'[k]
    <2> TAKE k \in Nodes
    <2>1. CASE k = n
      BY <1>4, <1>5, <2>1
    <2>2. CASE k # n
      BY <1>6, <2>2 DEF SeedsMatch
    <2> QED
      BY <2>1, <2>2
  <1> QED
    BY <1>7, <1>8 DEF SeedsMatch

\* The messages at the root keep their seeds while they move.
LEMMA SeedsElection ==
    ASSUME TypeOK, SeedsMatch,
           \/ MainChainNewLeader \/ SpawnClaim \/ PushOwnLeader
           \/ \E c \in claims : TakeLeadership(c) \/ RootPreNewRound(c)
           \/ \E r \in timers : startTimer(r)
           \/ \E m \in inflight : DeliverNewLeader(m)
    PROVE  SeedsMatch'
  <1> USE DEF rootVars, nodeVars
  <1>1. CASE MainChainNewLeader
    <2>1. leaderChan \in Seq(NewLeaderMsg) /\ leaderChan # <<>>
      BY <1>1 DEF MainChainNewLeader, TypeOK
    <2>2. /\ Head(leaderChan) = leaderChan[1] /\ Len(leaderChan) \in Nat \ {0}
          /\ Len(Tail(leaderChan)) = Len(leaderChan) - 1
          /\ \A i \in 1..Len(Tail(leaderChan)) : Tail(leaderChan)[i] = leaderChan[i + 1]
      BY <2>1, ReceiveFacts
    <2>3. dispatching' \in {leaderChan[1], NoMsg} /\ leaderChan' = Tail(leaderChan)
      BY <1>1, <2>2 DEF MainChainNewLeader
    <2>4. dispatching'.seed = dispatching'.round
      BY <2>2, <2>3 DEF SeedsMatch, NoMsg
    <2>5. \A i \in 1..Len(leaderChan') : leaderChan'[i].seed = leaderChan'[i].round
      BY <2>2, <2>3 DEF SeedsMatch
    <2> QED
      BY <1>1, <2>4, <2>5 DEF MainChainNewLeader, SeedsMatch, ElectedByOwnSeed
  <1>2. CASE SpawnClaim
    BY <1>2 DEF SpawnClaim, SeedsMatch, ElectedByOwnSeed, NoMsg
  <1>3. ASSUME NEW m \in NewLeaderMsg, m.seed = m.round,
               leaderChan' = Append(leaderChan, m)
        PROVE  \A i \in 1..Len(leaderChan') : leaderChan'[i].seed = leaderChan'[i].round
    <2>1. leaderChan \in Seq(NewLeaderMsg)
      BY DEF TypeOK
    <2>2. /\ Len(leaderChan') = Len(leaderChan) + 1 /\ Len(leaderChan) \in Nat
          /\ \A i \in 1..Len(leaderChan) : leaderChan'[i] = leaderChan[i]
          /\ leaderChan'[Len(leaderChan) + 1] = m
      BY <1>3, <2>1, SendFacts
    <2>3. \A i \in 1..Len(leaderChan') : i \in 1..Len(leaderChan) \/ i = Len(leaderChan) + 1
      BY <2>2
    <2> QED
      BY <1>3, <2>2, <2>3 DEF SeedsMatch
  <1>4. CASE PushOwnLeader
    <2> DEFINE m == [from |-> Root, seed |-> pushing, round |-> pushing]
    <2>1. m \in NewLeaderMsg /\ m.seed = m.round /\ leaderChan' = Append(leaderChan, m)
      BY <1>4 DEF PushOwnLeader, TypeOK, NewLeaderMsg, Participants
    <2>2. \A i \in 1..Len(leaderChan') : leaderChan'[i].seed = leaderChan'[i].round
      BY <1>3, <2>1
    <2> QED
      BY <1>4, <2>2 DEF PushOwnLeader, SeedsMatch, ElectedByOwnSeed
  <1>5. CASE \E c \in claims : TakeLeadership(c) \/ RootPreNewRound(c)
    <2>1. \A d \in claims' : d.msg.seed = d.msg.round
      BY <1>5 DEF TakeLeadership, RootPreNewRound, At, SeedsMatch
    <2> QED
      BY <1>5, <2>1 DEF TakeLeadership, RootPreNewRound, SeedsMatch, ElectedByOwnSeed
  <1>6. CASE \E r \in timers : startTimer(r)
    BY <1>6 DEF startTimer, SeedsMatch, ElectedByOwnSeed
  <1>7. ASSUME NEW m \in inflight, DeliverNewLeader(m)
        PROVE  SeedsMatch'
    <2>1. m \in NewLeaderMsg /\ m.seed = m.round
      BY DEF TypeOK, SeedsMatch
    <2>2. leaderChan' = leaderChan \/ leaderChan' = Append(leaderChan, m)
      BY <1>7 DEF DeliverNewLeader
    <2>3. \A i \in 1..Len(leaderChan') : leaderChan'[i].seed = leaderChan'[i].round
      BY <1>3, <2>1, <2>2 DEF SeedsMatch
    <2> QED
      BY <1>7, <2>3 DEF DeliverNewLeader, SeedsMatch, ElectedByOwnSeed
  <1> QED
    BY <1>1, <1>2, <1>4, <1>5, <1>6, <1>7

\* When every node has power and finishes its leadership check within the
\* round, no block is led by a node that an earlier seed elected, however
\* late its message arrives.
THEOREM OwnSeed == Prompt /\ PowerSets = {Nodes} => (Spec => []ElectedByOwnSeed)
  <1> SUFFICES ASSUME Prompt, PowerSets = {Nodes} PROVE Spec => []ElectedByOwnSeed
    OBVIOUS
  <1>1. Init => SeedsMatch
    BY DEF Init, SeedsMatch, ElectedByOwnSeed, NoMsg
  <1>2. IndInv /\ NodesInSync /\ SeedsMatch /\ [Next]_vars => SeedsMatch'
    <2> SUFFICES ASSUME IndInv, NodesInSync, SeedsMatch, [Next]_vars PROVE SeedsMatch'
      OBVIOUS
    <2>1. TypeOK
      BY DEF IndInv
    <2>2. CASE UNCHANGED vars
      BY <2>2 DEF vars, SeedsMatch, ElectedByOwnSeed
    <2>3. CASE StartMainChainProtocol
      <3> DEFINE b == [round |-> 1, leader |-> Root, seed |-> 1, empty |-> FALSE]
      <3>1. 1 \in Rounds
        BY RoundsAssumption DEF Rounds
      <3>2. b \in Block /\ b.seed = b.round
        BY <3>1 DEF Block, Participants
      <3>3. chain' = Append(chain, b)
        BY <2>3 DEF StartMainChainProtocol, AppendBlock
      <3> HIDE DEF b
      <3> QED
        BY <2>1, <2>3, <3>1, <3>2, <3>3, SeedsOpenRound DEF StartMainChainProtocol
    <2>4. ASSUME NEW c \in claims, CloseRound(c)
          PROVE  SeedsMatch'
      <3> DEFINE b == [round |-> c.msg.round, leader |-> c.msg.from,
                       seed |-> c.msg.seed, empty |-> c.msg.from = Root]
      <3>1. b \in Block /\ b.seed = b.round
        BY DEF IndInv, TypeOK, Claim, NewLeaderMsg, Block, SeedsMatch
      <3>2. chain' = Append(chain, b)
        BY <2>4 DEF CloseRound, AppendBlock
      <3>3. MCRoundNumber \in Rounds
        BY <2>4, CloseStep
      <3> HIDE DEF b
      <3> QED
        BY <2>1, <2>4, <3>1, <3>2, <3>3, SeedsOpenRound DEF CloseRound
    <2>5. ASSUME NEW n \in Nodes, NEW seed \in checking[n],
                 MainChainCheckLeadership(n, seed)
          PROVE  SeedsMatch'
      <3>1. \A m \in inflight' : m.seed = m.round
        BY <2>5 DEF MainChainCheckLeadership, AnnouncedRound, SeedsMatch
      <3>2. \A k \in Nodes : checking'[k] \subseteq checking[k]
        BY <2>1, <2>5 DEF MainChainCheckLeadership, TypeOK
      <3> QED
        BY <2>5, <3>1, <3>2
           DEF MainChainCheckLeadership, rootVars, SeedsMatch, ElectedByOwnSeed
    <2>6. CASE \E n \in Nodes : NodeStep(n)
      BY <2>1, <2>5, <2>6, SeedsNewRound DEF NodeStep
    <2>7. CASE RootStep
      BY <2>1, <2>3, <2>4, <2>7, SeedsElection DEF RootStep
    <2> QED
      BY <2>2, <2>6, <2>7 DEF Next
  <1>3. SeedsMatch => ElectedByOwnSeed
    BY DEF SeedsMatch
  <1>4. Spec => []NodesInSync
    BY Synchrony
  <1> QED
    BY <1>1, <1>2, <1>3, <1>4, IndInvHolds, PTL DEF Spec
=============================================================================
