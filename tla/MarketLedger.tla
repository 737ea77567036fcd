---------------------------- MODULE MarketLedger ----------------------------
(***************************************************************************)
(* What the root node keeps in the two databases: the service agreements   *)
(* (MarketMatching), the transaction queues of both chains, and the round  *)
(* tables.  All of it is updated under BCLock, so each block is one step.  *)
(*                                                                         *)
(* A main chain round that closes refreshes the power table, collects the  *)
(* transactions that the agreements call for, and, unless it is            *)
(* leaderless, fills a block from the queues.  With SimState = 2 the       *)
(* proofs of retrievability (TxPor) go to the side chain's queue instead;  *)
(* meta blocks take them, and the summary block of an epoch hands their    *)
(* number to the main chain in one TxSync.                                 *)
(*                                                                         *)
(* The two chains alternate as SideChain shows (LockStep).  LedgerTables   *)
(* gives the statements on the databases.                                  *)
(***************************************************************************)
EXTENDS Integers, LedgerTables, FiniteSets

-----------------------------------------------------------------------------
(* The sizes, in bytes, that blockchain/measurements.go computes for the   *)
(* transactions and for the blocks without their transactions.  Each size  *)
(* is the sum of the field widths of the types in transactions.go; the     *)
(* widths that the cryptographic library decides are CONSTANTS.            *)

CONSTANTS
    SectorNumber,   \* sectors of a stored file
    ScalarLen,      \* bytes of a scalar of the pairing suite's G1
    PointLen,       \* bytes of a point of G2
    PorStructSize,  \* size.Of an empty por.Por
    FileNameLen,    \* bytes of the random file name in a file tag
    SchnorrLen,     \* bytes of the signature of a file tag
    SCSigLen        \* bytes of the collective signature of a side chain block

ASSUME WidthsAssumption ==
    {SectorNumber, ScalarLen, PointLen, PorStructSize, FileNameLen, SchnorrLen,
     SCSigLen} \subseteq Nat

HashLen == 32
ServAgrIdLen == 8
CommitmentLen == 71
RoundNumberLen == 3
outpoint == HashLen + 4

\* The sample scripts are hexadecimal text, 214 and 118 characters.
TxPayIn == outpoint + 4 + 214 + 4
TxPayOut == 8 + 118 + 4

\* LockTime, Version and the two counters.
MC_TxPay == TxPayIn + TxPayOut + 4 + 4 + 1 + 1

\* The file tag: name, number of blocks (1000, in decimal), one scalar per
\* sector, signature.
Tau == FileNameLen + 4 + SectorNumber * ScalarLen + SchnorrLen
SC_ServAgr == 2 + 4 + 3 + 3 + Tau
SC_TxServAgrPropose == MC_TxPay + SC_ServAgr + CommitmentLen
SC_TxServAgrCommit == CommitmentLen + ServAgrIdLen

\* The array Mu of the measured sample is empty, so that its scalars are
\* added separately.
PorSize == SectorNumber * ScalarLen + PointLen + PorStructSize
SC_TxPoR == PorSize + ServAgrIdLen + RoundNumberLen
MC_TxStoragePay == ServAgrIdLen + MC_TxPay

\* The size of a transaction by its name in the queues.
TransactionMeasurement ==
    [TxPor |-> SC_TxPoR, TxServAgrPropose |-> SC_TxServAgrPropose, TxPay |-> MC_TxPay,
     TxStoragePayment |-> MC_TxStoragePay, TxServAgrCommit |-> SC_TxServAgrCommit]

\* Five counters and the fees; the counter of sync transactions is left out.
TransactionList == 5 * 2 + 3

\* Seed and leadership proof are left out.
BlockHeader == RoundNumberLen + HashLen + 4 + HashLen + 4

\* A main chain block without its transactions.
BlockMeasurement == 3 + BlockHeader + TransactionList

\* As BlockHeader, with the leader's public key.
SCBlockHeader == RoundNumberLen + HashLen + 4 + HashLen + 4 + 33
SCMetaBlockTransactionList == 2 + 3
SCSummaryBlockTransactionList == 2 + 3

\* Side chain blocks without transactions and without signature.
MetaBlockMeasurement == 3 + SCBlockHeader + SCMetaBlockTransactionList
SummaryBlockMeasurement == 3 + SCBlockHeader + SCSummaryBlockTransactionList

\* One random number per agreement in the summary, but two bytes for each.
SCSummaryTxMeasurement(SummTxNum) == 2 * SummTxNum

-----------------------------------------------------------------------------
(* The experiments.                                                        *)

CONSTANTS
    Experiments,      \* the configurations; the root is started with one
    MCRoundPerEpoch,
    MCRoundDuration,  \* in seconds
    SCRoundDuration,
    PercentageTxPay,  \* share of a main chain block for payments
    PayPercent,       \* PayPercentOfTransactions, in percent
    PayTxsDrawn       \* rand.Intn after the seed is reset: always the same

ScPerMc == MCRoundDuration \div SCRoundDuration
SCRoundPerEpoch == MCRoundPerEpoch * ScPerMc
TxNames == {"TxServAgrPropose", "TxServAgrCommit", "TxStoragePayment", "TxPor"}
TxSize == TransactionMeasurement

ASSUME TimingAssumption ==
    /\ {MCRoundPerEpoch, SCRoundDuration, ScPerMc} \subseteq Nat \ {0}
    /\ MCRoundDuration \in Nat
ASSUME PaymentsAssumption ==
    /\ PercentageTxPay \in 0..100
    /\ PayPercent \in Nat \ {100}
    /\ PayTxsDrawn \in Nat \ {0}
ASSUME ExperimentsAssumption ==
    \A e \in Experiments :
        /\ e.SimState \in {1, 2}
        /\ {e.Nodes, e.ContractsPerServer, e.SimulationRounds} \subseteq Nat \ {0}
        /\ {e.StoragePaymentEpoch, e.MainChainBlockSize, e.SideChainBlockSize} \subseteq Nat
        /\ \A a \in 1..(e.Nodes * e.ContractsPerServer) :
              {e.FileSize[a], e.ServAgrDuration[a]} \subseteq Nat \ {0}

VARIABLES
    conf,           \* the experiment that is run
    MCRoundNumber,
    SCRoundNumber,
    mainchainDb,
    sidechainDb,
    SummPoRTxs,     \* per agreement: PoRs in meta blocks since the summary
    crashed,        \* the root node has panicked
    blocks,         \* history: per main chain round, what its block holds
    scBlocks,       \* history: per side chain round, the PoRs of its block
    issued,         \* history: what was put into FirstQueue, in order
    porIssued       \* history: the number of TxPor issued so far

vars == <<conf, MCRoundNumber, SCRoundNumber, mainchainDb, sidechainDb, SummPoRTxs,
          crashed, blocks, scBlocks, issued, porIssued>>

Servers == 1..conf.Nodes
Agreements == 1..(conf.Nodes * conf.ContractsPerServer)
Market == MainChainGetMarketMatchingRows(mainchainDb)

-----------------------------------------------------------------------------
(* Initial contents of the databases.                                      *)

\* InitializeMainChainBC: one row per agreement and the rows of the rounds 0
\* and 1.  A seed is the number of times that the first one was hashed.
InitializeMainChainBC ==
    LET filled == InitialInsertValuesIntoMarketMatchingTable(
            InitalizeMainChainDbTables, conf.Nodes * conf.ContractsPerServer,
            conf.FileSize, conf.ServAgrDuration)
    IN  InsertIntoMainChainRoundTable(InsertIntoMainChainRoundTable(filled, 0, 0), 1, 1)

\* The servers, each as often as it holds contracts.
ServerOf(a) == (a - 1) \div conf.ContractsPerServer + 1

finalMainChainBCInitialization ==
    InitialInsertValuesIntoMainChainPowerTable(
        AddMoreFieldsIntoTableInMainChain(
            InitializeMainChainBC, [a \in Agreements |-> ServerOf(a)]),
        Servers)

Init ==
    /\ conf \in Experiments
    /\ MCRoundNumber = 1
    /\ SCRoundNumber = 1
    /\ mainchainDb = finalMainChainBCInitialization
    /\ sidechainDb = InitalizeSideChainDbTables
    /\ SummPoRTxs = [a \in Agreements |-> 0]
    /\ crashed = FALSE
    /\ blocks = <<>> /\ scBlocks = <<>>
    /\ issued = <<>>
    /\ porIssued = 0

-----------------------------------------------------------------------------
(* Power and new transactions.                                             *)

Expired(row) == MCRoundNumber - row.StartedMcRoundNumber > row.ServAgrDuration

\* updateBCPowerRound: a server's power is the size of the files of its
\* agreements that have not expired; servers without one get no row.
MinerServers ==
    LET active == {a \in Agreements : ~Expired(Market[a])}
    IN  [s \in {ServerOf(a) : a \in active} |->
            Total([a \in Agreements |-> IF a \in active /\ ServerOf(a) = s
                                        THEN Market[a].FileSize ELSE 0])]

\* updateBCPowerRound: the row of the next round, with the next seed, and the
\* new power table.
PoweredDb ==
    MainChainUpdatePowerTable(
        InsertIntoMainChainRoundTable(
            mainchainDb, MCRoundNumber + 1, MainChainGetLastRoundSeed(mainchainDb) + 1),
        MinerServers)

Tx(name, a) ==
    [name |-> name, size |-> TxSize[name], agr |-> a, issued |-> MCRoundNumber]

\* A slip: an expired agreement is proposed again at once.
ReissuedAtOnce(row) == ~row.Published

\* Neither published nor proposed again since it expired.
Inactive(row) == ~row.Published /\ ~row.TxIssued

\* The agreement has run out this round.
Expires(row) == Expired(row) /\ row.Published /\ row.TxIssued

\* The agreement is running: its server owes a proof of retrievability.
OwesPoR(row) == row.Published /\ ~Expired(row)

\* What an agreement puts into the main chain's first queue.
CollectedTxs(a) ==
    CASE Inactive(Market[a]) -> <<Tx("TxServAgrPropose", a), Tx("TxServAgrCommit", a)>>
      [] Expires(Market[a])  -> IF conf.StoragePaymentEpoch = 0
                                THEN <<Tx("TxStoragePayment", a)>> ELSE <<>>
      [] OwesPoR(Market[a]) /\ conf.SimState = 1 -> <<Tx("TxPor", a)>>
      [] OTHER -> <<>>

\* The flags of the agreements after their transactions were issued.
CollectedFlags(db) ==
    LET expiring == {a \in Agreements : Expires(Market[a])}
        inactive == {a \in Agreements : Inactive(Market[a])}
    IN  MainChainSetTxIssued(
            MainChainSetTxIssued(MainChainSetPublished(db, expiring, FALSE), expiring, FALSE),
            inactive, TRUE)

\* Go divides towards zero; the first round is epoch -1.
IssuedEpoch == IF MCRoundNumber = 1 THEN -1 ELSE (MCRoundNumber - 2) \div MCRoundPerEpoch

\* The side chain round before the current one; SCRoundPerEpoch for the last.
IssuedScRound ==
    LET r == (SCRoundNumber - 1) % SCRoundPerEpoch
    IN  IF r = 0 THEN SCRoundPerEpoch ELSE r

\* What an agreement puts into the side chain's queue.
CollectedPoRs(a) ==
    IF OwesPoR(Market[a]) /\ conf.SimState = 2
    THEN <<[agr |-> a, size |-> TxSize["TxPor"], issued |-> IssuedScRound, epoch |-> IssuedEpoch]>>
    ELSE <<>>

NewTxs == FlattenSeq([a \in Agreements |-> CollectedTxs(a)])
NewPoRs == FlattenSeq([a \in Agreements |-> CollectedPoRs(a)])

\* Regular payments of a round: drawn, or a share of all transactions.
NumberOfRegPay ==
    IF PayPercent = 0 \/ PayPercent > 100 THEN PayTxsDrawn
    ELSE (PayPercent * (Len(NewTxs) + Len(NewPoRs))) \div (100 - PayPercent)

NewPayments ==
    [i \in 1..NumberOfRegPay |-> [size |-> TxSize["TxPay"], issued |-> MCRoundNumber]]

\* The databases after updateMainChainBCTransactionQueueCollect.
CollectedDb ==
    BulkInsertIntoMainChainSecondQueue(
        BulkInsertIntoMainChainFirstQueue(CollectedFlags(PoweredDb), NewTxs), NewPayments)
CollectedSideDb == BulkInsertIntoSideChainFirstQueue(sidechainDb, NewPoRs)

-----------------------------------------------------------------------------
(* Taking transactions.  Rows are those that one SELECT has read.          *)

\* Size of the first n transactions of rows, after base.
PrefixSize(rows, n, base) == base + Total([i \in 1..n |-> rows[i].tx.size])

\* How many of rows fit behind base: the loop stops at the first one that
\* does not, and nothing at all fits when base is over the share.
NumFitting(rows, base, share) ==
    IF base > share THEN 0
    ELSE Max({n \in 0..Len(rows) : PrefixSize(rows, n, base) <= share})

\* The rowid up to which rows leave the queue; 0, and none, if n is 0.
LastRowId(rows, n) == IF n = 0 THEN 0 ELSE rows[n].rowid

WaitSum(rows, n, round) == Total([i \in 1..n |-> round - rows[i].tx.issued])

CountName(rows, n, name) == Cardinality({i \in 1..n : rows[i].tx.name = name})

\* Regular payments that fit into their share of the block.  The share is
\* compared in percent.
NumPayments(rows) ==
    LET share == PercentageTxPay * (conf.MainChainBlockSize - BlockMeasurement)
    IN  IF share < 0 THEN 0
        ELSE Max({n \in 0..Len(rows) : 100 * PrefixSize(rows, n, 0) <= share})

\* The database after the payments of a block are taken.
TakePayments(db, round) ==
    LET rows == MainChainGetSecondQueue(db)
        num  == NumPayments(rows)
        full == IF num < Len(rows)
                THEN AddToRoundTableBasedOnRoundNumber(db, "RegSpaceFull", round) ELSE db
    IN  [db   |-> MainChainDeleteFromSecondQueue(full, LastRowId(rows, num)),
         num  |-> num,
         size |-> PrefixSize(rows, num, 0),
         wait |-> WaitSum(rows, num, round)]

\* The first n transactions leave the first queue: a commit publishes its
\* agreement and starts it in this round.
Leaves(db, rows, n, round) ==
    MainChainSetPublishedAndStartRoundOnServAgrId(db,
        {rows[i].tx.agr : i \in {j \in 1..n : rows[j].tx.name = "TxServAgrCommit"}}, TRUE, round)

\* What is left of the block for other transactions than payments.
otherTxsShare(paysize) == conf.MainChainBlockSize - BlockMeasurement - paysize

\* The database after the first queue has filled the rest of a block, which
\* holds base bytes beyond the payments.
TakeFirst(db, base, paysize, round) ==
    LET rows == MainChainGetFirstQueue(db)
        num  == NumFitting(rows, base, otherTxsShare(paysize))
        left == Leaves(db, rows, num, round)
        full == IF num < Len(rows)
                THEN AddToRoundTableBasedOnRoundNumber(left, "BlockSpaceFull", round) ELSE left
    IN  [db   |-> MainChainDeleteFromFirstQueue(full, LastRowId(rows, num)),
         rows |-> rows,
         num  |-> num,
         size |-> PrefixSize(rows, num, base),
         wait |-> WaitSum(rows, num, round)]

\* The statistics of a block with these payments, first queue transactions
\* and sync transactions.
BlockStats(pay, first, syncs) ==
    LET count(name) == CountName(first.rows, first.num, name)
    IN  [BCSize |-> first.size + pay.size + BlockMeasurement,
         RegPayTx |-> pay.num,
         PoRTx |-> count("TxPor"),
         StorjPayTx |-> count("TxStoragePayment"),
         CntPropTx |-> count("TxServAgrPropose"),
         CntCmtTx |-> count("TxServAgrCommit"),
         TotalNumTx |-> first.num + pay.num + Len(syncs),
         FirstQueueWait |-> first.wait,
         SecondQueueWait |-> pay.wait,
         SyncTx |-> Len(syncs),
         ScPorTx |-> Total([i \in 1..Len(syncs) |-> syncs[i].por])]

\* The sums of the round table, for OverallEvaluation.
OverallColumns == {"BCSize", "RegPayTx", "PoRTx", "StorjPayTx", "CntPropTx", "CntCmtTx"}
OverallSums(db) == [column \in OverallColumns |-> GetSumMainChain(db, column)]

\* updateMainChainBCTransactionQueueTake fills the block with regular
\* payments up to their share, then with one TxSync whatever its size, then
\* with the first queue as far as it fits.
TakenBlock(db, round) ==
    LET pay   == TakePayments(db, round)
        sync  == MainChainPopFromSyncTxQueue(pay.db)
        base  == IF sync.tx = <<>> THEN 0 ELSE sync.tx[1].size
        first == TakeFirst(sync.db, base, pay.size, round)
        filed == AddStatsToRoundTableBasedOnRoundNumber(
                     first.db, BlockStats(pay, first, sync.tx), round)
    IN  [db    |-> InsertIntoMainChainOverallEvaluationTable(filed, round, OverallSums(filed)),
         block |-> [txs |-> [i \in 1..first.num |-> first.rows[i].tx], pays |-> pay.num,
                    syncs |-> sync.tx, size |-> first.size + pay.size + BlockMeasurement]]

-----------------------------------------------------------------------------
(* Main chain rounds.                                                      *)

\* The main chain's half of LockStep: wgSyncScRound.Wait has returned.
MainChainTurn ==
    /\ ~crashed
    /\ MCRoundNumber <= conf.SimulationRounds
    /\ conf.SimState = 2 => Len(scBlocks) >= ScPerMc * (MCRoundNumber - 1)

\* updateBCPowerRound panics when no agreement gives power.
CrashWithoutPower ==
    /\ MainChainTurn
    /\ PowerTableRefused(MinerServers)
    /\ crashed' = TRUE
    /\ mainchainDb' = PoweredDb
    /\ UNCHANGED <<conf, MCRoundNumber, SCRoundNumber, sidechainDb, SummPoRTxs, blocks,
                   scBlocks, issued, porIssued>>

\* What the rounds with and without a leader have in common.
CollectRest ==
    /\ MainChainTurn
    /\ ~PowerTableRefused(MinerServers)
    /\ sidechainDb' = CollectedSideDb
    /\ issued' = issued \o NewTxs
    /\ porIssued' = porIssued + Cardinality({a \in Agreements : OwesPoR(Market[a])})
    /\ MCRoundNumber' = MCRoundNumber + 1
    /\ UNCHANGED <<conf, SCRoundNumber, SummPoRTxs, scBlocks, crashed>>

\* A round without a leader: transactions are collected but not taken.
EmptyBlock ==
    /\ MCRoundNumber # 1
    /\ CollectRest
    /\ mainchainDb' = CollectedDb
    /\ blocks' = Append(blocks, [txs |-> <<>>, pays |-> 0, syncs |-> <<>>, size |-> 0])

\* A round with a leader.
FullBlock ==
    LET taken == TakenBlock(CollectedDb, MCRoundNumber)
    IN  /\ CollectRest
        /\ mainchainDb' = taken.db
        /\ blocks' = Append(blocks, taken.block)

-----------------------------------------------------------------------------
(* The side chain.                                                         *)

\* The side chain's half of LockStep.
SideChainTurn ==
    /\ ~crashed
    /\ conf.SimState = 2
    /\ MCRoundNumber # 1
    /\ Len(scBlocks) < ScPerMc * MCRoundNumber

\* The block of this side chain round is the epoch's summary block.
SummaryDue == SCRoundNumber = SCRoundPerEpoch

\* The wait of a PoR that is taken in side chain round scRound of main chain
\* round mcRound; across epochs it is scaled by epochLen.
WaitOf(tx, scRound, mcRound, epochLen) ==
    scRound - tx.issued + ((mcRound - 2) \div MCRoundPerEpoch - tx.epoch) * epochLen

\* The side chain's database after the PoRs of a block are taken.
TakePoRs(db, header, scRound, mcRound, epochLen) ==
    LET rows == SideChainGetFirstQueue(db)
        num  == NumFitting(rows, 0, conf.SideChainBlockSize - header)
        wait == Total([i \in 1..num |-> WaitOf(rows[i].tx, scRound, mcRound, epochLen)])
        full == IF num < Len(rows) THEN SideChainRoundTableSetBlockSpaceIsFull(db, scRound) ELSE db
    IN  [db  |-> SideChainRoundTableSetFinalRoundInfo(
                     SideChainDeleteFromFirstQueue(full, LastRowId(rows, num)),
                     PrefixSize(rows, num, header), num, wait, scRound, Len(rows) - num),
         txs |-> [i \in 1..num |-> rows[i].tx]]

updateSideChainBCRound(size) ==
    InsertIntoSideChainRoundTable(sidechainDb, SCRoundNumber, size, MCRoundNumber)

updateSideChainBCOverallEvaluation(db) ==
    InsertIntoSideChainOverallEvaluation(
        db, SCRoundNumber, GetSumSideChain(db, "BCSize"), GetSumSideChain(db, "PoRTx"))

\* A meta block.  The wait is scaled by MCRoundDuration.
MetaBlock ==
    LET taken == TakePoRs(updateSideChainBCRound(0), MetaBlockMeasurement + SCSigLen,
                          SCRoundNumber, MCRoundNumber, MCRoundDuration)
    IN  /\ SideChainTurn
        /\ ~SummaryDue
        /\ sidechainDb' = updateSideChainBCOverallEvaluation(taken.db)
        /\ scBlocks' = Append(scBlocks, taken.txs)
        /\ SummPoRTxs' = [a \in Agreements |-> SummPoRTxs[a] +
              Cardinality({i \in 1..Len(taken.txs) : taken.txs[i].agr = a})]
        /\ SCRoundNumber' = SCRoundNumber + 1
        /\ UNCHANGED <<conf, MCRoundNumber, mainchainDb, crashed, blocks, issued, porIssued>>

\* A slip: the sums of the epoch are not reset.
SumsKept == SummPoRTxs

\* syncMainChainBCTransactionQueueCollect sets the sums back to zero.
SumsAfterSync == [a \in Agreements |-> 0]

\* Size of the sync transaction: by the agreements with a PoR in the epoch.
SyncTxSize == SCSummaryTxMeasurement(Cardinality({a \in Agreements : SummPoRTxs[a] # 0}))

\* syncMainChainBCTransactionQueueCollect: the TxSync of the epoch.
SyncedDb ==
    InsertIntoMainChainSyncTxQueue(mainchainDb,
        [size |-> SyncTxSize, por |-> Total(SummPoRTxs), issued |-> MCRoundNumber])

\* Agreements are paid for at the end of every StoragePaymentEpoch-th epoch.
PaymentsDue ==
    /\ conf.StoragePaymentEpoch # 0
    /\ (MCRoundNumber \div MCRoundPerEpoch) % conf.StoragePaymentEpoch = 0

\* StoragePaymentMainChainBCTransactionQueueCollect: one payment per contract,
\* but each names the number of the server.
StoragePayments ==
    [a \in Agreements |-> Tx("TxStoragePayment", ServerOf(a))]

\* The summary block of an epoch.
SummaryBlock ==
    LET payments == IF PaymentsDue THEN StoragePayments ELSE <<>>
    IN  /\ SideChainTurn
        /\ SummaryDue
        /\ mainchainDb' = BulkInsertIntoMainChainFirstQueue(SyncedDb, payments)
        /\ issued' = issued \o payments
        /\ SummPoRTxs' = SumsAfterSync
        /\ sidechainDb' = updateSideChainBCRound(SummaryBlockMeasurement + SCSigLen + SyncTxSize)
        /\ scBlocks' = Append(scBlocks, <<>>)
        /\ SCRoundNumber' = 1
        /\ UNCHANGED <<conf, MCRoundNumber, crashed, blocks, porIssued>>

-----------------------------------------------------------------------------
Next ==
    \/ CrashWithoutPower
    \/ EmptyBlock
    \/ FullBlock
    \/ MetaBlock
    \/ SummaryBlock

Spec == Init /\ [][Next]_vars

-----------------------------------------------------------------------------
(* Properties.                                                             *)

TypeOK ==
    /\ conf \in Experiments
    /\ MCRoundNumber \in 1..(conf.SimulationRounds + 1)
    /\ SCRoundNumber \in 1..SCRoundPerEpoch
    /\ SummPoRTxs \in [Agreements -> Nat]
    /\ DOMAIN mainchainDb.PowerTable \subseteq Servers
    /\ crashed \in BOOLEAN

\* The sum of f over the members of sequence s.
SumOver(s, f(_)) == Total([i \in 1..Len(s) |-> f(s[i])])

\* The transactions in a queue's rows.
Queued(table) == [i \in 1..Len(table) |-> table[i].tx]

\* The transactions of agreements on the chain, in order.
OnChain == FlattenSeq([i \in 1..Len(blocks) |-> blocks[i].txs])

\* Every transaction that was ever put into the first queue is in exactly one
\* block or still waits, and blocks and queue hold them in the order of issue
\* (rows are deleted up to the rowid of the last one taken, dbbc.go:979;
\* "FIFO", MainChainBlockChain.go:654).
FirstInFirstOut == OnChain \o Queued(mainchainDb.FirstQueue) = issued

CountPoRs(txs) == Cardinality({i \in 1..Len(txs) : txs[i].name = "TxPor"})

\* The proofs of retrievability in queues and main chain blocks, in the sums
\* of the epoch and in sync transactions.
PoRsAccounted ==
    CountPoRs(Queued(mainchainDb.FirstQueue)) + CountPoRs(OnChain)
    + Len(sidechainDb.FirstQueue) + Total(SummPoRTxs)
    + SumOver(Queued(mainchainDb.SyncTxQueue), LAMBDA t : t.por)
    + SumOver(blocks, LAMBDA b : SumOver(b.syncs, LAMBDA t : t.por))

\* The sync transactions so far, on the chain or waiting, in order.
Syncs == FlattenSeq([i \in 1..Len(blocks) |-> blocks[i].syncs])
         \o Queued(mainchainDb.SyncTxQueue)

\* The rows of the side chain's round table for epoch k.
EpochRows(k) ==
    SubSeq(sidechainDb.RoundTable, (k - 1) * SCRoundPerEpoch + 1, k * SCRoundPerEpoch)

\* The k-th sync transaction sums up exactly the PoRs that the round table
\* counts for the blocks of the k-th epoch (SummPoRTxs against PorTx,
\* SideChainBlockChain.go:159, 178; MainChainBlockChain.go:671).
SummariesMatch ==
    \A k \in 1..Len(Syncs) :
        Syncs[k].por = SumOver(EpochRows(k), LAMBDA row : row.PoRTx)

\* What was issued about agreement a before the i-th transaction, its PoRs
\* aside.
LifecycleBefore(a, i) == {j \in 1..(i - 1) : issued[j].agr = a /\ issued[j].name # "TxPor"}

\* The order in which an agreement's transactions are to appear.
LifecycleOrder == <<"TxStoragePayment", "TxServAgrPropose", "TxServAgrCommit">>

\* Every agreement goes round: it expires and is paid for once, is proposed
\* again and committed to, in this order, however long the queue delays its
\* transactions ("if a ServAgr get expired, the column published is set to 0
\* until its poropose and commit transaction get submitted to the blockchain
\* again", MainAndSideChain/ReadMe.MD:33; StoragePaymentEpoch = 0).
PaidProposedCommitted ==
    conf.StoragePaymentEpoch = 0 =>
        \A i \in 1..Len(issued) : issued[i].name # "TxPor" =>
            issued[i].name =
                LifecycleOrder[(Cardinality(LifecycleBefore(issued[i].agr, i)) % 3) + 1]

\* A commit transaction waits in the queue exactly while its agreement has
\* been issued but not published, and never twice (the flags TxIssued and
\* Published, MainChainBlockChain.go:243, 263, 517).
CommitsWaiting(a) ==
    {i \in 1..Len(mainchainDb.FirstQueue) :
        mainchainDb.FirstQueue[i].tx.name = "TxServAgrCommit"
        /\ mainchainDb.FirstQueue[i].tx.agr = a}
OneCommitInFlight ==
    \A a \in Agreements :
        Cardinality(CommitsWaiting(a)) = IF Market[a].TxIssued /\ ~Market[a].Published THEN 1 ELSE 0

\* A block is not larger than MainChainBlockSize, unless regular payments and
\* the sync transaction alone already are ("pop transactions until
\* (other_transaction_share_of_block_is_full)", metrics.md:16).
BlockFits ==
    \A i \in 1..Len(blocks) :
        blocks[i].size <= conf.MainChainBlockSize \/ blocks[i].txs = <<>>

\* A row's statistics are those of block b.
Describes(row, b) ==
    /\ row.stats.BCSize = b.size
    /\ row.stats.RegPayTx = b.pays
    /\ row.stats.SyncTx = Len(b.syncs)
    /\ row.stats.TotalNumTx = b.pays + Len(b.syncs) + Len(b.txs)
    /\ row.stats.CntCmtTx = Cardinality({i \in 1..Len(b.txs) : b.txs[i].name = "TxServAgrCommit"})
    /\ row.stats.ScPorTx = SumOver(b.syncs, LAMBDA t : t.por)

\* The main chain's round table has one row per round, prepared a round ahead
\* under the number that the statistics are later addressed by: the row of a
\* round describes its block, empty for a leaderless round, every round has
\* its own seed, and the last overall evaluation sums up all blocks so far
\* (updateBCPowerRound, MainChainBlockChain.go:157;
\* AddStatsToRoundTableBasedOnRoundNumber, :586; "the overall results up
\* until each round", MainAndSideChain/ReadMe.MD:50).
RoundTableExact ==
    LET rows == mainchainDb.RoundTable
        evaluations == mainchainDb.OverallEvaluation
    IN  /\ \A r \in 1..Len(blocks) : Describes(rows[r + 1], blocks[r])
        /\ \A i, j \in 1..MCRoundNumber : i # j => rows[i].Seed # rows[j].Seed
        /\ evaluations # <<>> =>
              Last(evaluations).sums.BCSize =
                  SumOver(SubSeq(blocks, 1, Last(evaluations).RoundNbr), LAMBDA b : b.size)

\* A side chain block that left transactions behind is marked as full in the
\* round table, although the mark is addressed by a round number that repeats
\* in every epoch (dbbc.go:1183 against 1195).
FullMarked ==
    \A i \in 1..Len(sidechainDb.RoundTable) :
        sidechainDb.RoundTable[i].QueueFill > 0 => sidechainDb.RoundTable[i].BlockSpaceFull

\* "BlockSpaceFull: 1 indicates ... the block space is full"
\* (MainAndSideChain/ReadMe.MD:49): a row that is marked stands for a block
\* that left transactions behind.
MarkedFull ==
    \A i \in 1..Len(sidechainDb.RoundTable) :
        sidechainDb.RoundTable[i].BlockSpaceFull => sidechainDb.RoundTable[i].QueueFill > 0

\* "confirmation_time = (current_sidechain_round -
\* sidechain_round_it_got_into_queue) + (number_of_sc_rounds_in_one_epoch) x
\* (current_epoch - epoch_it_got_in_queue)" (metrics.md:40-42): the wait in
\* the round table is the sum of these times over the block's PoRs.
ConfirmationTimes ==
    \A i \in 1..Len(scBlocks) :
        LET row == sidechainDb.RoundTable[i]
        IN  row.Wait = SumOver(scBlocks[i],
                LAMBDA t : WaitOf(t, row.RoundNumber, row.McRound, SCRoundPerEpoch))

\* "Each round, adding one row in power table" (MainChainBlockChain.go:163):
\* there is always a server with power, so that the round can be closed.
PowerEachRound == ~crashed
=============================================================================
