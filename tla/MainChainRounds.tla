--------------------------- MODULE MainChainRounds ---------------------------
(***************************************************************************)
(* The round engine of the main chain (SimState = 1, or the main chain     *)
(* half of SimState = 2).                                                  *)
(*                                                                         *)
(* The root node opens a round by sending NewRound to every server that    *)
(* has power (readBCAndSendtoOthers).  A server that finds itself elected  *)
(* answers with NewLeader (MainChainCheckLeadership).  The root's Dispatch *)
(* loop spawns a goroutine for an answer; the goroutine that first sets    *)
(* HasLeader under MCPLock sleeps for the rest of the round and then       *)
(* closes it (RootPreNewRound): it writes the round's block and opens the  *)
(* next round.  If nobody claims the round in time, startTimer claims it   *)
(* for the root and the block is empty.                                    *)
(*                                                                         *)
(* Messages carry, besides the announced round, the round whose seed the   *)
(* sender evaluated its VRF on.  The code does not send the latter; it is  *)
(* kept here to say which election a message is the result of.             *)
(***************************************************************************)
EXTENDS Integers, Sequences, FiniteSets

CONSTANTS
    Nodes,             \* the servers of the tree other than the root
    Root,              \* the root node
    NoLeader,          \* no participant (only used by the refinement)
    SimulationRounds,  \* the configured number of main chain rounds
    PowerSets,         \* the sets of non-root servers that may have power
    Prompt             \* TRUE: no round change overtakes a goroutine that
                       \* has already read the round (see CloseRound)

ASSUME RoundsAssumption == SimulationRounds \in Nat \ {0}
ASSUME NodesAssumption == /\ IsFiniteSet(Nodes)
                          /\ Root \notin Nodes
                          /\ NoLeader \notin Nodes \cup {Root}
ASSUME PowerAssumption == PowerSets # {} /\ PowerSets \subseteq SUBSET Nodes
ASSUME PromptAssumption == Prompt \in BOOLEAN

VARIABLES
    MCRoundNumber,  \* the root's round counter
    HasLeader,      \* bz.MCLeader.HasLeader
    chain,          \* the blocks of the main chain, oldest first
    done,           \* DoneRootNode has been signalled
    timers,         \* rounds whose startTimer goroutine has not yet fired
    pushing,        \* the round for which a startTimer goroutine holds
                    \* MCPLock while it sends on the channel, or 0
    newRounds,      \* per node: NewRound messages under way, in order
    nodeRound,      \* per node: its own copy of MCRoundNumber
    checking,       \* per node: seeds of its running leadership checks
    inflight,       \* NewLeader messages under way to the root
    leaderChan,     \* the buffered channel MainChainNewLeaderChan
    dispatching,    \* message whose round the Dispatch loop found current
    claims          \* goroutines spawned for NewLeader messages

rootVars == <<MCRoundNumber, HasLeader, chain, done, timers, pushing>>
nodeVars == <<nodeRound, checking>>
vars == <<MCRoundNumber, HasLeader, chain, done, timers, pushing, newRounds,
          nodeRound, checking, inflight, leaderChan, dispatching, claims>>

Participants == Nodes \cup {Root}
Rounds == 1..SimulationRounds

\* NewLeader as the root's channel carries it: sender, seed, announced round.
NewLeaderMsg == [from : Participants, seed : Rounds, round : Rounds]

\* The zero message: the Dispatch loop is back in its select statement.
NoMsg == [from |-> Root, seed |-> 0, round |-> 0]

Claim == [msg : NewLeaderMsg, pc : {"spawned", "sleeping", "closing"}]

Block == [round : Rounds, leader : Participants, seed : Rounds, empty : BOOLEAN]

\* The channel holds one message per node of the tree.
ChanCap == Cardinality(Nodes) + 1

\* At(c, p): claim goroutine c at its step p.
At(c, p) == [msg |-> c.msg, pc |-> p]

-----------------------------------------------------------------------------
Init ==
    /\ MCRoundNumber = 1
    /\ HasLeader = FALSE
    /\ chain = <<>>
    /\ done = FALSE
    /\ timers = {}
    /\ pushing = 0
    /\ newRounds = [n \in Nodes |-> <<>>]
    /\ nodeRound = [n \in Nodes |-> 1]
    /\ checking = [n \in Nodes |-> {}]
    /\ inflight = {}
    /\ leaderChan = <<>>
    /\ dispatching = NoMsg
    /\ claims = {}

-----------------------------------------------------------------------------
(* The root node closes a round and opens the next.                        *)

\* A slip: the simulation runs one round too many.
OneRoundMore == MCRoundNumber = SimulationRounds + 1

LastRound == MCRoundNumber = SimulationRounds

\* After the last round the root only signals DoneRootNode.  Otherwise it
\* advances the round, clears HasLeader without taking MCPLock, sends
\* NewRound to every other server found in the power table, and starts the
\* timer of the new round.
readBCAndSendtoOthers ==
    \/ /\ LastRound
       /\ MCRoundNumber' = MCRoundNumber + 1
       /\ done' = TRUE
       /\ UNCHANGED <<HasLeader, timers, newRounds>>
    \/ /\ ~LastRound
       /\ MCRoundNumber' = MCRoundNumber + 1
       /\ HasLeader' = FALSE
       /\ \E powers \in PowerSets :
             newRounds' = [n \in Nodes |->
                 IF n \in powers THEN Append(newRounds[n], MCRoundNumber + 1)
                                 ELSE newRounds[n]]
       /\ timers' = timers \cup {MCRoundNumber + 1}
       /\ UNCHANGED done

\* The block that message m claimed; an empty one takes no transactions.
AppendBlock(m, empty) ==
    chain' = Append(chain, [round |-> m.round, leader |-> m.from,
                            seed |-> m.seed, empty |-> empty])

\* The root fills the first block itself and opens round 2.
StartMainChainProtocol ==
    /\ chain = <<>>
    /\ MCRoundNumber = 1
    /\ AppendBlock([from |-> Root, seed |-> 1, round |-> 1], FALSE)
    /\ readBCAndSendtoOthers
    /\ UNCHANGED <<pushing, nodeVars, inflight, leaderChan, dispatching, claims>>

\* The test with which RootPreNewRound decides to close the round at all.
ClosesRound(m) ==
    /\ m.round = MCRoundNumber
    /\ MCRoundNumber # 1
    /\ HasLeader

\* A claim goroutine wakes from its sleep and enters RootPreNewRound.  If
\* its message is not for the open round it ends without doing anything.
RootPreNewRound(c) ==
    /\ c.pc = "sleeping"
    /\ claims' = (claims \ {c})
                 \cup (IF ClosesRound(c.msg) THEN {At(c, "closing")} ELSE {})
    /\ UNCHANGED <<rootVars, newRounds, nodeVars, inflight, leaderChan, dispatching>>

\* The rest of RootPreNewRound, under BCLock: the block is written (without
\* transactions when the root stands in for a leader) and the next round is
\* announced.  With Prompt, a goroutine that read the round before it is
\* closed also reaches MCPLock before; nothing in the code enforces this,
\* only that every round lasts MCRoundDuration seconds.
CloseRound(c) ==
    /\ c.pc = "closing"
    /\ Prompt => /\ dispatching = NoMsg
                 /\ \A d \in claims : d.pc # "spawned"
    /\ AppendBlock(c.msg, c.msg.from = Root)
    /\ readBCAndSendtoOthers
    /\ claims' = claims \ {c}
    /\ UNCHANGED <<pushing, nodeVars, inflight, leaderChan, dispatching>>

-----------------------------------------------------------------------------
(* The other nodes.                                                        *)

\* A slip: a node does not count the round it is told of.
Uncounted(n) == nodeRound[n]

\* The node's round counter after one more NewRound.
CountedRound(n) == nodeRound[n] + 1

\* Dispatch receives NewRound: the node counts the round by itself and
\* checks its leadership in a goroutine.  With Prompt the previous check has
\* finished by then.
MainChainNewRound(n) ==
    /\ newRounds[n] # <<>>
    /\ Prompt => checking[n] = {}
    /\ newRounds' = [newRounds EXCEPT ![n] = Tail(@)]
    /\ nodeRound' = [nodeRound EXCEPT ![n] = CountedRound(n)]
    /\ checking' = [checking EXCEPT ![n] = @ \cup {Head(newRounds[n])}]
    /\ UNCHANGED <<rootVars, inflight, leaderChan, dispatching, claims>>

\* A slip: the node announces itself for the round after.
AnnouncedAhead(n) == nodeRound[n] + 1

\* The round a node announces itself for: the one it is in by now.
AnnouncedRound(n) == nodeRound[n]

\* The VRF decides whether the node is elected by the seed it was sent.  If
\* it is, it announces its leadership.
MainChainCheckLeadership(n, seed) ==
    /\ seed \in checking[n]
    /\ checking' = [checking EXCEPT ![n] = @ \ {seed}]
    /\ \/ UNCHANGED inflight
       \/ inflight' = inflight \cup
             {[from |-> n, seed |-> seed, round |-> AnnouncedRound(n)]}
    /\ UNCHANGED <<rootVars, newRounds, nodeRound, leaderChan, dispatching, claims>>

\* A NewLeader message reaches the root; when the channel is full the
\* message is dropped.
DeliverNewLeader(m) ==
    /\ inflight' = inflight \ {m}
    /\ leaderChan' = IF Len(leaderChan) < ChanCap
                     THEN Append(leaderChan, m) ELSE leaderChan
    /\ UNCHANGED <<rootVars, newRounds, nodeVars, dispatching, claims>>

-----------------------------------------------------------------------------
(* The root node elects.                                                   *)

\* Dispatch takes a message from the channel and compares the round.
MainChainNewLeader ==
    /\ dispatching = NoMsg
    /\ leaderChan # <<>>
    /\ leaderChan' = Tail(leaderChan)
    /\ dispatching' = IF Head(leaderChan).round = MCRoundNumber
                      THEN Head(leaderChan) ELSE NoMsg
    /\ UNCHANGED <<rootVars, newRounds, nodeVars, inflight, claims>>

\* A slip: the root's own message does not pass.
OnlyWithoutLeader(m) == ~HasLeader

\* A slip: nobody looks at HasLeader.
AnyClaim(m) == TRUE

\* The second half of the test, repeated by the goroutine under MCPLock:
\* nobody leads the round yet, or the message is the root's own.
MayLead(m) == ~HasLeader \/ m.from = Root

\* Dispatch reads HasLeader, without the lock, and spawns a goroutine.
SpawnClaim ==
    /\ dispatching # NoMsg
    /\ dispatching' = NoMsg
    /\ claims' = IF MayLead(dispatching)
                 THEN claims \cup {[msg |-> dispatching, pc |-> "spawned"]}
                 ELSE claims
    /\ UNCHANGED <<rootVars, newRounds, nodeVars, inflight, leaderChan>>

\* The spawned goroutine takes MCPLock.  It gives up if the round has a
\* leader; otherwise it sets HasLeader and sleeps for MCRoundDuration.
TakeLeadership(c) ==
    /\ c.pc = "spawned"
    /\ pushing = 0
    /\ \/ /\ ~MayLead(c.msg)
          /\ claims' = claims \ {c}
          /\ UNCHANGED HasLeader
       \/ /\ MayLead(c.msg)
          /\ claims' = (claims \ {c}) \cup {At(c, "sleeping")}
          /\ HasLeader' = TRUE
    /\ UNCHANGED <<MCRoundNumber, chain, done, timers, pushing, newRounds,
                   nodeVars, inflight, leaderChan, dispatching>>

\* A slip: the timer does not look at HasLeader.
TimerIgnoresLeader(r) == MCRoundNumber = r

\* The test of startTimer: its round is still open and has no leader.
LeaderlessRound(r) == MCRoundNumber = r /\ ~HasLeader

\* A timer expires.  Under MCPLock it claims the round for the root.
startTimer(r) ==
    /\ r \in timers
    /\ pushing = 0
    /\ timers' = timers \ {r}
    /\ \/ /\ LeaderlessRound(r)
          /\ HasLeader' = TRUE
          /\ pushing' = r
       \/ /\ ~LeaderlessRound(r)
          /\ UNCHANGED <<HasLeader, pushing>>
    /\ UNCHANGED <<MCRoundNumber, chain, done, newRounds, nodeVars, inflight,
                   leaderChan, dispatching, claims>>

\* The root's own NewLeader enters the channel as soon as there is room;
\* until then MCPLock is held.
PushOwnLeader ==
    /\ pushing # 0
    /\ Len(leaderChan) < ChanCap
    /\ leaderChan' = Append(leaderChan,
                            [from |-> Root, seed |-> pushing, round |-> pushing])
    /\ pushing' = 0
    /\ UNCHANGED <<MCRoundNumber, HasLeader, chain, done, timers, newRounds,
                   nodeVars, inflight, dispatching, claims>>

-----------------------------------------------------------------------------
RootStep ==
    \/ StartMainChainProtocol
    \/ MainChainNewLeader
    \/ SpawnClaim
    \/ PushOwnLeader
    \/ \E c \in claims : TakeLeadership(c) \/ RootPreNewRound(c) \/ CloseRound(c)
    \/ \E r \in timers : startTimer(r)
    \/ \E m \in inflight : DeliverNewLeader(m)

NodeStep(n) ==
    \/ MainChainNewRound(n)
    \/ \E seed \in checking[n] : MainChainCheckLeadership(n, seed)

Next == RootStep \/ \E n \in Nodes : NodeStep(n)

Spec == Init /\ [][Next]_vars

\* The Go scheduler runs some runnable goroutine, sleeps and timers end, and
\* TCP delivers: while anything can happen, something does.
FairSpec == Spec /\ WF_vars(Next)

-----------------------------------------------------------------------------
(* Properties.                                                             *)

TypeOK ==
    /\ MCRoundNumber \in 1..(SimulationRounds + 1)
    /\ HasLeader \in BOOLEAN
    /\ chain \in Seq(Block)
    /\ done \in BOOLEAN
    /\ timers \subseteq Rounds
    /\ pushing \in Rounds \cup {0}
    /\ newRounds \in [Nodes -> Seq(Rounds)]
    /\ nodeRound \in [Nodes -> Rounds]
    /\ checking \in [Nodes -> SUBSET Rounds]
    /\ inflight \subseteq NewLeaderMsg
    /\ leaderChan \in Seq(NewLeaderMsg)
    /\ Len(leaderChan) <= ChanCap
    /\ dispatching \in NewLeaderMsg \cup {NoMsg}
    /\ claims \subseteq Claim

\* The chain holds one block for every closed round, and the i-th block was
\* written by a claim for round i, however the claim goroutines and the
\* timer race for HasLeader (RootPreNewRound, MainChainProtocol.go:92, 144).
OneBlockPerRound ==
    /\ Len(chain) = MCRoundNumber - 1
    /\ \A i \in 1..Len(chain) : chain[i].round = i

\* The goroutines that won the open round: past MCPLock with a message for it.
Holders == {c \in claims : c.pc # "spawned" /\ c.msg.round = MCRoundNumber}

\* m is the message by which the root stands in for a missing leader.
IsStandIn(m) == m.from = Root /\ m.round = MCRoundNumber

\* The root's stand-in is on its way: it claims the open round.
StandInPending ==
    \/ pushing = MCRoundNumber
    \/ \E i \in 1..Len(leaderChan) : IsStandIn(leaderChan[i])
    \/ IsStandIn(dispatching)
    \/ \E c \in claims : c.pc = "spawned" /\ IsStandIn(c.msg)

\* At most one goroutine leads the open round and a stand-in never competes
\* with it (ChainBoostSimulation.go:107: "let the  first leader run main
\* chain protocol and ignore the rest").
FirstLeaderOnly ==
    /\ \A c, d \in Holders : c = d
    /\ StandInPending => Holders = {}
    /\ StandInPending \/ Holders # {} => HasLeader

\* The leader of a block was elected by the seed of that round, although
\* elections of earlier rounds may still be under way (the round test at
\* ChainBoostSimulation.go:290 is what keeps them out).
ElectedByOwnSeed == \A i \in 1..Len(chain) : chain[i].seed = chain[i].round

\* Every node has counted, or is about to be told, every round of the root:
\* "ALL nodes recieve this message to sync rounds"
\* (ChainBoostSimulation.go:279).
NodesInSync ==
    done \/ \A n \in Nodes : nodeRound[n] + Len(newRounds[n]) = MCRoundNumber

\* The simulation gets through all its rounds, leaderless ones included
\* ("publish an empty block in those rounds", ChainBoostSimulation.go:411).
AllRoundsClose == <>(done /\ Len(chain) = SimulationRounds)

\* The participant elected for the open round, if any.
Winner ==
    IF MCRoundNumber = 1 \/ StandInPending THEN Root
    ELSE IF Holders # {} THEN (CHOOSE c \in Holders : TRUE).msg.from
    ELSE NoLeader

PublicLog == [i \in 1..Len(chain) |->
                 [leader |-> chain[i].leader, empty |-> chain[i].empty]]

Log == INSTANCE RoundLog WITH log <- PublicLog, winner <- Winner

\* The engine implements the one-block-per-round log: an election is never
\* revoked and the elected participant's block closes the round.
ImplementsRoundLog == Log!Spec
=============================================================================
