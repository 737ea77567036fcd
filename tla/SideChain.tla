----------------------------- MODULE SideChain -----------------------------
(***************************************************************************)
(* The side chain and its coupling to the main chain (SimState = 2).       *)
(*                                                                         *)
(* The root node tells the epoch's side chain leader to run a round        *)
(* (RtLSideChainNewRound); the leader has its committee sign the block     *)
(* with BLS CoSi and reports back (LtRSideChainNewRound); the root writes  *)
(* the block and triggers the next round (SideChainRootPostNewRound).      *)
(* After ScPerMc * MCRoundPerEpoch rounds the block is a summary block, the *)
(* epoch ends, and the committee becomes a window of the nodes that led    *)
(* the main chain most recently.                                           *)
(*                                                                         *)
(* Meanwhile the main chain closes its rounds.  Two wait groups couple the *)
(* chains: the main chain waits for ScPerMc side chain rounds per round    *)
(* (wgSyncScRound), and a side chain goroutine waits for a main chain      *)
(* round (wgSyncMcRound).  The election of main chain leaders is in        *)
(* MainChainRounds and the blocks' contents are in MarketLedger.           *)
(***************************************************************************)
EXTENDS Integers, Sequences, FiniteSets

CONSTANTS
    Nodes,               \* the nodes of the tree
    Root,                \* the root node, one of them
    NoNode,              \* no node
    SimulationRounds,    \* number of main chain rounds
    MCRoundPerEpoch,     \* main chain rounds per epoch
    MCRoundDuration,     \* seconds
    SCRoundDuration,     \* seconds
    SCRoundPerEpoch,     \* side chain rounds per epoch, as configured
    CommitteeWindow,     \* size of the first committee
    FirstCommittees,     \* the committees StartSideChainProtocol may draw
    Failures,            \* TRUE: a BLS CoSi run may fail
    Paced,               \* TRUE: the side chain is not faster than the main
                         \* chain (see SideChainRootPostNewRound)
    Apart                \* TRUE: the two unlocked updates of the committee
                         \* do not overlap (see UpdateSideChainCommittee)

\* Side chain rounds per main chain round (an integer division).
ScPerMc == MCRoundDuration \div SCRoundDuration

\* The drawn committees: CommitteeWindow distinct nodes in some order.
Distinct(s) == \A i, j \in 1..Len(s) : s[i] = s[j] => i = j

ASSUME NodesAssumption == Root \in Nodes /\ NoNode \notin Nodes
ASSUME DurationAssumption ==
    /\ SimulationRounds \in Nat \ {0}
    /\ MCRoundDuration \in Nat /\ SCRoundDuration \in Nat \ {0}
    /\ ScPerMc \in Nat \ {0}
ASSUME EpochAssumption ==
    /\ MCRoundPerEpoch \in Nat \ {0}
    /\ SCRoundPerEpoch = MCRoundPerEpoch * ScPerMc
ASSUME CommitteeAssumption ==
    /\ CommitteeWindow \in Nat /\ CommitteeWindow >= 2
    /\ \A s \in FirstCommittees :
          s \in Seq(Nodes) /\ Len(s) = CommitteeWindow /\ Distinct(s)
ASSUME TimingAssumption == /\ Failures \in BOOLEAN
                           /\ Paced \in BOOLEAN
                           /\ Apart \in BOOLEAN

VARIABLES
    MCRoundNumber,        \* the root's main chain round
    mcpc,                 \* where the main chain is within the round
    mcLeader,             \* leader of the round that is being closed
    SCRoundNumber,        \* side chain round of the epoch, as it travels
                          \* from the root to the leader and back
    scpc,                 \* where the side chain is within the round
    CommitteeNodes,       \* the root's CommitteeNodesTreeNodeID
    readByMain,           \* the list UpdateSideChainCommittee works on
    readBySide,           \* the list the epoch change works on
    NextSideChainLeader,  \* leader of the epoch
    sent,                 \* the committee the last RtL message carries
    leaderCommittee,      \* the leader's own CommitteeNodesTreeNodeID
    roster,               \* the committee that signs the current block
    wgSyncScRound,        \* wait group: side chain rounds still awaited
    wgSyncMcRound,        \* wait group: main chain rounds still awaited
    waiting,              \* side chain goroutines in wgSyncMcRound.Wait
    woken,                \* side chain goroutines past Wait, before Add
    summaries,            \* epoch number computed for each summary block
    ledAt                 \* history: the last round each node led, or 0

mainVars == <<MCRoundNumber, mcpc, mcLeader, readByMain, ledAt>>
sideVars == <<SCRoundNumber, scpc, readBySide, NextSideChainLeader, sent,
              leaderCommittee, roster, summaries>>
tailVars == <<waiting, woken>>
vars == <<MCRoundNumber, mcpc, mcLeader, SCRoundNumber, scpc, CommitteeNodes,
          readByMain, readBySide, NextSideChainLeader, sent, leaderCommittee,
          roster, wgSyncScRound, wgSyncMcRound, waiting, woken, summaries,
          ledAt>>

Init ==
    /\ MCRoundNumber = 1 /\ mcpc = "start" /\ mcLeader = NoNode
    /\ SCRoundNumber = 1 /\ scpc = "start"
    /\ CommitteeNodes = <<>> /\ readByMain = <<>> /\ readBySide = <<>>
    /\ NextSideChainLeader = NoNode
    /\ sent = <<>> /\ leaderCommittee = <<>> /\ roster = <<>>
    /\ wgSyncScRound = 0
    /\ wgSyncMcRound = 1
    /\ waiting = 0 /\ woken = 0
    /\ summaries = <<>>
    /\ ledAt = [n \in Nodes |-> 0]

\* A wait group whose counter becomes negative panics.
Panicked == wgSyncScRound < 0 \/ wgSyncMcRound < 0

-----------------------------------------------------------------------------
(* The main chain.                                                         *)

\* The root adds the side chain rounds of round 1, takes BCLock and keeps it
\* while it fills the first block and sleeps.
StartMainChainProtocol ==
    /\ mcpc = "start"
    /\ wgSyncScRound' = wgSyncScRound + ScPerMc
    /\ mcpc' = "filling"
    /\ UNCHANGED <<MCRoundNumber, mcLeader, readByMain, ledAt, CommitteeNodes,
                   sideVars, wgSyncMcRound, tailVars>>

\* readBCAndSendtoOthers: the next round, or the end of the simulation.
NextMainRound ==
    /\ MCRoundNumber' = MCRoundNumber + 1
    /\ mcpc' = IF MCRoundNumber = SimulationRounds THEN "stopped" ELSE "open"

\* The end of StartMainChainProtocol: round 2 is announced, BCLock released.
AnnounceSecondRound ==
    /\ mcpc = "filling"
    /\ NextMainRound
    /\ UNCHANGED <<mcLeader, readByMain, ledAt, CommitteeNodes, sideVars,
                   wgSyncScRound, wgSyncMcRound, tailVars>>

\* RootPreNewRound for a round without a leader: the committee stays.
LeaderlessRound ==
    /\ mcpc = "open"
    /\ mcLeader' = Root
    /\ mcpc' = "waiting"
    /\ UNCHANGED <<MCRoundNumber, readByMain, ledAt, CommitteeNodes, sideVars,
                   wgSyncScRound, wgSyncMcRound, tailVars>>

\* RootPreNewRound for a round led by n: UpdateSideChainCommittee reads the
\* committee, without a lock.  The side chain has drawn its first committee
\* by then: both protocols start together and a main chain round lasts
\* MCRoundDuration seconds.  With Apart the epoch change is not at the same
\* time between its own read and write.
UpdateSideChainCommittee(n) ==
    /\ mcpc = "open"
    /\ scpc # "start"
    /\ Apart => scpc # "cutting"
    /\ mcLeader' = n
    /\ readByMain' = CommitteeNodes
    /\ mcpc' = "updating"
    /\ ledAt' = [ledAt EXCEPT ![n] = MCRoundNumber]
    /\ UNCHANGED <<MCRoundNumber, CommitteeNodes, sideVars, wgSyncScRound,
                   wgSyncMcRound, tailVars>>

\* A slip: a leader that is already a member is prepended all the same.
Prepended(s, n) == <<n>> \o s

\* The place of n in s; one past the end when it is not in it.
Place(s, n) ==
    IF \E i \in 1..Len(s) : s[i] = n
    THEN CHOOSE i \in 1..Len(s) : s[i] = n
    ELSE Len(s) + 1

\* The committee with n in front: n leaves its old place if it has one.
MovedToFront(s, n) ==
    [i \in 1..(IF Place(s, n) <= Len(s) THEN Len(s) ELSE Len(s) + 1) |->
        IF i = 1 THEN n
        ELSE IF i <= Place(s, n) THEN s[i - 1] ELSE s[i]]

\* The second half of UpdateSideChainCommittee writes the new committee.
StoreCommittee ==
    /\ mcpc = "updating"
    /\ CommitteeNodes' = MovedToFront(readByMain, mcLeader)
    /\ mcpc' = "waiting"
    /\ UNCHANGED <<MCRoundNumber, mcLeader, readByMain, ledAt, sideVars,
                   wgSyncScRound, wgSyncMcRound, tailVars>>

\* wgSyncScRound.Wait returns.
WaitForSideChain ==
    /\ mcpc = "waiting"
    /\ wgSyncScRound = 0
    /\ mcpc' = "adding"
    /\ UNCHANGED <<MCRoundNumber, mcLeader, readByMain, ledAt, CommitteeNodes,
                   sideVars, wgSyncScRound, wgSyncMcRound, tailVars>>

\* A slip: one side chain round too few is awaited.
OneRoundLess == wgSyncScRound + ScPerMc - 1

\* The counter after wgSyncScRound.Add for another main chain round.
AddedRounds == wgSyncScRound + ScPerMc

AddSideChainRounds ==
    /\ mcpc = "adding"
    /\ wgSyncScRound' = AddedRounds
    /\ mcpc' = "writing"
    /\ UNCHANGED <<MCRoundNumber, mcLeader, readByMain, ledAt, CommitteeNodes,
                   sideVars, wgSyncMcRound, tailVars>>

\* The rest of RootPreNewRound: under BCLock the block is written and the
\* next round announced; then wgSyncMcRound.Done.  A goroutine that this
\* Done, or the one before, releases runs within a round (Paced).
CloseRound ==
    /\ mcpc = "writing"
    /\ Paced => woken = 0 /\ (waiting > 0 => wgSyncMcRound > 0)
    /\ NextMainRound
    /\ wgSyncMcRound' = wgSyncMcRound - 1
    /\ UNCHANGED <<mcLeader, readByMain, ledAt, CommitteeNodes, sideVars,
                   wgSyncScRound, tailVars>>

-----------------------------------------------------------------------------
(* The side chain.                                                         *)

\* The root draws the first committee; its first member leads the epoch.
StartSideChainProtocol ==
    /\ scpc = "start"
    /\ \E s \in FirstCommittees :
          /\ CommitteeNodes' = CommitteeNodes \o s
          /\ sent' = CommitteeNodes \o s
          /\ NextSideChainLeader' = (CommitteeNodes \o s)[1]
    /\ scpc' = "announced"
    /\ UNCHANGED <<mainVars, SCRoundNumber, readBySide, leaderCommittee, roster,
                   wgSyncScRound, wgSyncMcRound, tailVars, summaries>>

\* A slip: the leader works with the root's list, not with its own copy.
RootsList == CommitteeNodes

\* The list a leader works with after round 1 of the epoch: the one it kept.
\* The root, as a leader, works with the list the main chain updates.
KeptList == IF NextSideChainLeader = Root THEN CommitteeNodes ELSE leaderCommittee

\* The leader takes over the committee in round 1 of the epoch, and starts
\* BLS CoSi with the first CommitteeWindow - 1 members.
SideChainLeaderPreNewRound ==
    /\ scpc = "announced"
    /\ scpc' = "signing"
    /\ \/ /\ SCRoundNumber = 1
          /\ roster' = SubSeq(sent, 1, CommitteeWindow - 1)
          /\ IF NextSideChainLeader = Root
             THEN CommitteeNodes' = sent /\ UNCHANGED leaderCommittee
             ELSE leaderCommittee' = sent /\ UNCHANGED CommitteeNodes
       \/ /\ SCRoundNumber # 1
          /\ roster' = SubSeq(KeptList, 1, CommitteeWindow - 1)
          /\ UNCHANGED <<CommitteeNodes, leaderCommittee>>
    /\ UNCHANGED <<mainVars, SCRoundNumber, readBySide, NextSideChainLeader,
                   sent, wgSyncScRound, wgSyncMcRound, tailVars, summaries>>

\* The final signature verifies: the leader reports to the root, which
\* sleeps for SCRoundDuration.  Otherwise the leader's Dispatch loop ends.
FinalSignature ==
    /\ scpc = "signing"
    /\ \/ scpc' = "signed"
       \/ Failures /\ scpc' = "failed"
    /\ UNCHANGED <<mainVars, SCRoundNumber, CommitteeNodes, readBySide,
                   NextSideChainLeader, sent, leaderCommittee, roster,
                   wgSyncScRound, wgSyncMcRound, tailVars, summaries>>

\* A slip: the summary block comes one round late.
LateSummary == SCRoundNumber = ScPerMc * MCRoundPerEpoch + 1

\* This round's block is the summary block of the epoch.
SummaryRound == SCRoundNumber = ScPerMc * MCRoundPerEpoch

\* SideChainRootPostNewRound up to wgSyncScRound.Done: under BCLock the
\* block is written, then the round number moves on.  The root has slept
\* SCRoundDuration seconds, so the main chain has started.  With Paced it
\* has also waited for the last ScPerMc rounds by the time the next one is
\* reported; nothing in the code enforces this, only the round durations.
SideChainRootPostNewRound ==
    /\ scpc = "signed"
    /\ mcpc \notin {"start", "filling"}
    /\ Paced => wgSyncScRound > 0
    /\ wgSyncScRound' = wgSyncScRound - 1
    /\ \/ /\ SummaryRound
          /\ SCRoundNumber' = 1
          /\ summaries' = Append(summaries, MCRoundNumber \div MCRoundPerEpoch)
          /\ scpc' = "electing"
       \/ /\ ~SummaryRound
          /\ SCRoundNumber' = SCRoundNumber + 1
          /\ scpc' = "notify"
          /\ UNCHANGED summaries
    /\ UNCHANGED <<mainVars, CommitteeNodes, readBySide, NextSideChainLeader,
                   sent, leaderCommittee, roster, wgSyncMcRound, tailVars>>

\* The epoch change reads the committee, without a lock.
ReadCommittee ==
    /\ scpc = "electing"
    /\ Apart => mcpc # "updating"
    /\ readBySide' = CommitteeNodes
    /\ scpc' = "cutting"
    /\ UNCHANGED <<mainVars, SCRoundNumber, CommitteeNodes, NextSideChainLeader,
                   sent, leaderCommittee, roster, wgSyncScRound, wgSyncMcRound,
                   tailVars, summaries>>

\* A slip: the window is cut from the end of the list.
OldestWindow(s) == SubSeq(s, Len(s) - (CommitteeWindow - 1) + 1, Len(s))

\* The window of most recent leaders that the next epoch keeps.
Window(s) == SubSeq(s, 1, CommitteeWindow - 1)

\* The epoch change writes the new committee and its leader.
CutCommittee ==
    /\ scpc = "cutting"
    /\ CommitteeNodes' = Window(readBySide)
    /\ sent' = Window(readBySide)
    /\ NextSideChainLeader' = Window(readBySide)[1]
    /\ scpc' = "notify"
    /\ UNCHANGED <<mainVars, SCRoundNumber, readBySide, leaderCommittee, roster,
                   wgSyncScRound, wgSyncMcRound, tailVars, summaries>>

\* A slip: the root never goes on to wait for the main chain.
NeverWaits == FALSE

\* The rounds after which the root waits for the main chain.
SyncRound == SCRoundNumber % (SCRoundPerEpoch \div MCRoundPerEpoch) = 0

\* The root triggers the next round, and only then goes on to wait for the
\* main chain: the wait does not hold the side chain back.
NotifyLeader ==
    /\ scpc = "notify"
    /\ scpc' = "announced"
    /\ waiting' = IF SyncRound THEN waiting + 1 ELSE waiting
    /\ UNCHANGED <<mainVars, SCRoundNumber, CommitteeNodes, readBySide,
                   NextSideChainLeader, sent, leaderCommittee, roster,
                   wgSyncScRound, wgSyncMcRound, woken, summaries>>

\* wgSyncMcRound.Wait returns in a waiting goroutine.
WaitForMainChain ==
    /\ waiting > 0
    /\ wgSyncMcRound = 0
    /\ waiting' = waiting - 1
    /\ woken' = woken + 1
    /\ UNCHANGED <<mainVars, sideVars, CommitteeNodes, wgSyncScRound, wgSyncMcRound>>

\* wgSyncMcRound.Add(1), the end of SideChainRootPostNewRound.
AddMainChainRound ==
    /\ woken > 0
    /\ woken' = woken - 1
    /\ wgSyncMcRound' = wgSyncMcRound + 1
    /\ UNCHANGED <<mainVars, sideVars, CommitteeNodes, wgSyncScRound, waiting>>

-----------------------------------------------------------------------------
MainStep ==
    \/ StartMainChainProtocol
    \/ AnnounceSecondRound
    \/ LeaderlessRound
    \/ \E n \in Nodes \ {Root} : UpdateSideChainCommittee(n)
    \/ StoreCommittee
    \/ WaitForSideChain
    \/ AddSideChainRounds
    \/ CloseRound

SideStep ==
    \/ StartSideChainProtocol
    \/ SideChainLeaderPreNewRound
    \/ FinalSignature
    \/ SideChainRootPostNewRound
    \/ ReadCommittee
    \/ CutCommittee
    \/ NotifyLeader
    \/ WaitForMainChain
    \/ AddMainChainRound

Next == ~Panicked /\ (MainStep \/ SideStep)

Spec == Init /\ [][Next]_vars

\* Goroutines run, sleeps end and messages arrive: while anything can happen,
\* something does.
FairSpec == Spec /\ WF_vars(Next)

-----------------------------------------------------------------------------
(* Properties.                                                             *)

TypeOK ==
    /\ MCRoundNumber \in 1..(SimulationRounds + 1)
    /\ mcpc \in {"start", "filling", "open", "updating", "waiting", "adding",
                 "writing", "stopped"}
    /\ mcLeader \in Nodes \cup {NoNode}
    /\ SCRoundNumber \in 1..(ScPerMc * MCRoundPerEpoch)
    /\ scpc \in {"start", "announced", "signing", "signed", "failed",
                 "electing", "cutting", "notify"}
    /\ CommitteeNodes \in Seq(Nodes) /\ readByMain \in Seq(Nodes)
    /\ readBySide \in Seq(Nodes) /\ sent \in Seq(Nodes)
    /\ leaderCommittee \in Seq(Nodes) /\ roster \in Seq(Nodes)
    /\ NextSideChainLeader \in Nodes \cup {NoNode}
    /\ wgSyncScRound \in Int /\ wgSyncMcRound \in Int
    /\ waiting \in Nat /\ woken \in Nat
    /\ summaries \in Seq(Nat)
    /\ ledAt \in [Nodes -> Nat]

\* Main chain rounds whose side chain rounds have been added to the group.
RoundsAdded ==
    IF mcpc \in {"filling", "writing"} THEN MCRoundNumber ELSE MCRoundNumber - 1

\* Side chain rounds reported so far, over all epochs.
RoundsReported ==
    Len(summaries) * (ScPerMc * MCRoundPerEpoch) + SCRoundNumber - 1

\* The chains run in step: the side chain is never ahead of the rounds the
\* main chain has added, and at most one main chain round behind ("wait for
\* MCDuration/SCduration number of go routines to be Done",
\* MainChainProtocol.go:99).
LockStep ==
    /\ RoundsReported <= ScPerMc * RoundsAdded
    /\ ScPerMc * (RoundsAdded - 1) <= RoundsReported

\* The epoch number that the root computes from the main chain's round when
\* it writes a summary block is the number of that summary block
\* (SideChainProtocol(ChainBoost).go:195, 214).
SummaryEpochs == \A i \in 1..Len(summaries) : summaries[i] = i

\* From the start of the side chain on, the committee has no node twice and
\* is never shorter than the slice that is cut from it ("todo: a out of
\* range bug happens sometimes!", SideChainProtocol(ChainBoost).go:107),
\* however the two unlocked updates interleave.
CommitteeSound ==
    scpc # "start" => /\ Distinct(CommitteeNodes)
                      /\ Len(CommitteeNodes) >= CommitteeWindow - 1

\* The committee lists nodes by how recently they led: who is not ahead of
\* a member has not led after it ("considering the last w distinct leaders",
\* SideChainProtocol(ChainBoost).go:342).  In particular the last leader is
\* first, and is the leader of the next epoch.
RecentFirst ==
    mcpc # "updating" =>
        \A i \in 1..Len(CommitteeNodes) : \A n \in Nodes :
            \/ \E j \in 1..(i - 1) : CommitteeNodes[j] = n
            \/ ledAt[n] <= ledAt[CommitteeNodes[i]]

\* The committee that signs changes only with the epoch ("the same committee
\* members", SideChainProtocol(ChainBoost).go:126, and the todo at 122).
OneCommitteePerEpoch == [][roster' # roster => SCRoundNumber = 1]_vars

\* The main chain never closes more rounds than the side chain's goroutines
\* have added to wgSyncMcRound (SideChainProtocol(ChainBoost).go:278).
MainChainCounted == wgSyncMcRound >= 0

\* "for root node to wait for a specific number of main chain rounds before
\* proceeding to next side chain's round" (ChainBoostSimulation.go:111): the
\* side chain does not report a round the main chain has not added, which
\* would make the wait group's counter negative.
SideChainHeldBack == wgSyncScRound >= 0

\* The chains do not wait for each other for ever: the simulation ends, unless
\* a collective signature fails, which ends the leader's Dispatch loop
\* (ChainBoostSimulation.go:346; MainChainProtocol.go:178,
\* SideChainProtocol(ChainBoost).go:277).
SimulationEnds == <>(mcpc = "stopped" \/ scpc = "failed")
=============================================================================
