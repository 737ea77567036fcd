----------------------------- MODULE LedgerPurge -----------------------------
(***************************************************************************)
(* The two programs that are run on the databases after a simulation:      *)
(* utilities/mainchain-purge and utilities/sidechain-purge go on making    *)
(* blocks until the queues are empty, to measure how long that takes.      *)
(* Each has its own copy of the loop that fills a block.                   *)
(***************************************************************************)
EXTENDS MarketLedger

VARIABLES
    mcPurge,    \* round of the next block: 0 not started, -1 ended
    scPurge,    \* started, done, next_sc_round, rnd_nbr, header size
    porPurged   \* history: PoRs taken by sidechain-purge

purgeVars == <<mcPurge, scPurge, porPurged>>

PurgeInit ==
    /\ Init
    /\ mcPurge = 0
    /\ scPurge = [state |-> "idle", next |-> 0, round |-> 0, header |-> 0]
    /\ porPurged = 0

\* The simulation is over: the root has passed its last round.
SimulationOver == MCRoundNumber = conf.SimulationRounds + 1

-----------------------------------------------------------------------------
(* mainchain-purge.                                                        *)

StartMainPurge ==
    /\ SimulationOver
    /\ mcPurge = 0
    /\ mainchainDb' = MainChainEndPosition(mainchainDb, conf.SimulationRounds)
    /\ mcPurge' = conf.SimulationRounds + 1
    /\ UNCHANGED <<conf, MCRoundNumber, SCRoundNumber, sidechainDb, SummPoRTxs, crashed,
                   blocks, scBlocks, issued, porIssued, scPurge, porPurged>>

\* A slip: the loop ends when one of the queues is empty.
OneEmpty(db) == MainChainGetFirstQueue(db) = <<>> \/ MainChainGetSecondQueue(db) = <<>>

\* The loop ends in a round that finds both queues empty; that round's row
\* has been inserted already.
NothingQueued(db) == MainChainGetFirstQueue(db) = <<>> /\ MainChainGetSecondQueue(db) = <<>>

\* One more round.  Sync transactions stay where they are.
MainPurgeRound ==
    LET added == InsertIntoMainChainRoundTable(mainchainDb, mcPurge, -1)
        pay   == TakePayments(added, mcPurge)
        first == TakeFirst(pay.db, 0, pay.size, mcPurge)
    IN  /\ mcPurge > 0
        /\ \/ /\ NothingQueued(added)
              /\ mainchainDb' = added
              /\ mcPurge' = -1
              /\ UNCHANGED blocks
           \/ /\ ~NothingQueued(added)
              /\ mainchainDb' = AddStatsToRoundTableBasedOnRoundNumber(
                    first.db, BlockStats(pay, first, <<>>), mcPurge)
              /\ mcPurge' = mcPurge + 1
              /\ blocks' = Append(blocks,
                    [txs |-> [i \in 1..first.num |-> first.rows[i].tx], pays |-> pay.num,
                     syncs |-> <<>>, size |-> first.size + pay.size + BlockMeasurement])
        /\ UNCHANGED <<conf, MCRoundNumber, SCRoundNumber, sidechainDb, SummPoRTxs, crashed,
                       scBlocks, issued, porIssued, scPurge, porPurged>>

-----------------------------------------------------------------------------
(* sidechain-purge.                                                        *)

StartSidePurge ==
    LET end == SideChainEndPosition(sidechainDb)
    IN  /\ SimulationOver
        /\ conf.SimState = 2
        /\ scPurge.state = "idle"
        /\ sidechainDb' = end.db
        /\ scPurge' = [state  |-> "running", next |-> (end.round + 1) % SCRoundPerEpoch,
                       round  |-> conf.SimulationRounds + 1,
                       header |-> SideChainGetLastRowSigLen(end.db, TxSize["TxPor"])]
        /\ UNCHANGED <<conf, MCRoundNumber, SCRoundNumber, mainchainDb, SummPoRTxs, crashed,
                       blocks, scBlocks, issued, porIssued, mcPurge, porPurged>>

\* The next side chain round and, after the last of a main chain round, the
\* next main chain round.
SidePurgeNext(state) ==
    [scPurge EXCEPT !.state = state,
                    !.next  = (@ + 1) % SCRoundPerEpoch,
                    !.round = IF scPurge.next % ScPerMc = 0 THEN @ + 1 ELSE @]

\* The row of a summary block, which takes nothing.
SidePurgeSummary ==
    /\ scPurge.state = "running"
    /\ scPurge.next = 0
    /\ sidechainDb' = InsertIntoSideChainRoundTable(sidechainDb, SCRoundPerEpoch, 0, scPurge.round)
    /\ scBlocks' = Append(scBlocks, <<>>)
    /\ scPurge' = SidePurgeNext("running")
    /\ UNCHANGED <<conf, MCRoundNumber, SCRoundNumber, mainchainDb, SummPoRTxs, crashed,
                   blocks, issued, porIssued, mcPurge, porPurged>>

\* A meta block.  Here the wait is scaled by SCRoundPerEpoch.  On an empty
\* queue only the row has been inserted.
SidePurgeRound ==
    LET added == InsertIntoSideChainRoundTable(sidechainDb, scPurge.next, 0, scPurge.round)
        taken == TakePoRs(added, scPurge.header, scPurge.next, scPurge.round, SCRoundPerEpoch)
        empty == SideChainGetFirstQueue(added) = <<>>
    IN  /\ scPurge.state = "running"
        /\ scPurge.next # 0
        /\ sidechainDb' = IF empty THEN added ELSE taken.db
        /\ scBlocks' = Append(scBlocks, taken.txs)
        /\ porPurged' = porPurged + Len(taken.txs)
        /\ scPurge' = SidePurgeNext(IF empty THEN "ended" ELSE "running")
        /\ UNCHANGED <<conf, MCRoundNumber, SCRoundNumber, mainchainDb, SummPoRTxs, crashed,
                       blocks, issued, porIssued, mcPurge>>

-----------------------------------------------------------------------------
\* The simulation is stopped before a purge is started.
PurgeNext ==
    \/ /\ mcPurge = 0 /\ scPurge.state = "idle"
       /\ Next
       /\ UNCHANGED purgeVars
    \/ StartMainPurge
    \/ MainPurgeRound
    \/ StartSidePurge
    \/ SidePurgeSummary
    \/ SidePurgeRound

PurgeSpec == PurgeInit /\ [][PurgeNext]_<<vars, purgeVars>>

-----------------------------------------------------------------------------
(* Properties.                                                             *)

\* No proof of retrievability is lost or counted twice on its way through
\* the queues, the meta blocks, the epoch's sums (SummPoRTxs, reset in
\* syncMainChainBCTransactionQueueCollect), the sync transactions and the
\* blocks of sidechain-purge.
PoRConserved == porIssued = PoRsAccounted + porPurged

\* Every round of mainchain-purge takes a transaction or a payment, so that the
\* loop ends (mainchain-purge/main.go:216).
TakesSomething ==
    \A i \in (conf.SimulationRounds + 1)..Len(blocks) :
        blocks[i].txs # <<>> \/ blocks[i].pays > 0

\* When mainchain-purge has ended, the blocks hold everything that was issued,
\* and no payment waits; when sidechain-purge has, all PoRs that were sent to
\* the side chain are in its blocks (mainchain-purge/main.go:174;
\* sidechain-purge/main.go:64, 123).
LeavesNothing ==
    /\ mcPurge = -1 => OnChain = issued /\ mainchainDb.SecondQueue = <<>>
    /\ scPurge.state = "ended" => porIssued = CountPoRs(issued) + SumOver(scBlocks, LAMBDA b : Len(b))

\* The purges empty the queues.
PurgeDrains == TakesSomething /\ LeavesNothing
=============================================================================
