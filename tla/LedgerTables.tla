---------------------------- MODULE LedgerTables ----------------------------
(***************************************************************************)
(* The SQL statements of blockchain/dbbc.go as operators.  A database is a *)
(* record of its tables, a table the sequence of its rows in the order of  *)
(* their rowid; an operator returns the database after the statement, or   *)
(* what the statement selects.  Opening the files, times of day, names of  *)
(* leaders and averages are left out: a row keeps the sum of the waits.    *)
(***************************************************************************)
EXTENDS Integers, Sequences, FiniteSets, SequencesExt

CONSTANT FetchLimit   \* a queue is read with LIMIT 5000

ASSUME FetchLimitAssumption == FetchLimit \in Nat \ {0}

-----------------------------------------------------------------------------
(* Tables in general.                                                      *)

\* SQLite numbers a new row one above the largest rowid in use.
NextRowId(table) == IF table = <<>> THEN 1 ELSE Last(table).rowid + 1

InsertRows(table, rows) ==
    table \o [i \in 1..Len(rows) |-> [rowid |-> NextRowId(table) + i - 1, tx |-> rows[i]]]

\* SELECT ... LIMIT without ORDER BY: the oldest rows.
FetchRows(table) ==
    SubSeq(table, 1, IF Len(table) < FetchLimit THEN Len(table) ELSE FetchLimit)

\* The table without its first n rows.
WithoutFirst(table, n) == SubSeq(table, n + 1, Len(table))

\* A slip: one row more.
DeleteOneMore(table, threshold) ==
    WithoutFirst(table, Cardinality({i \in 1..Len(table) : table[i].rowid <= threshold + 1}))

\* DELETE ... WHERE rowid <= threshold.  Rows are in the order of their rowid,
\* so that these are the first ones.
DeleteRows(table, threshold) ==
    WithoutFirst(table, Cardinality({i \in 1..Len(table) : table[i].rowid <= threshold}))

\* The sum of a sequence of numbers.
Total(s) ==
    LET sum[i \in 0..Len(s)] == IF i = 0 THEN 0 ELSE sum[i - 1] + s[i]
    IN  sum[Len(s)]

\* SELECT SUM(column).
SumColumn(table, column) == Total([i \in 1..Len(table) |-> table[i][column]])

\* The table with upd applied to the rows that meet cond.
UpdateWhere(table, cond(_), upd(_)) ==
    [i \in 1..Len(table) |-> IF cond(table[i]) THEN upd(table[i]) ELSE table[i]]

-----------------------------------------------------------------------------
(* Main chain: creation and initial contents.                              *)

InitalizeMainChainDbTables ==
    [MarketMatching |-> <<>>, FirstQueue |-> <<>>, SecondQueue |-> <<>>,
     RoundTable |-> <<>>, OverallEvaluation |-> <<>>, PowerTable |-> [h \in {} |-> 0],
     SyncTxQueue |-> <<>>]

\* Once for each of the n agreements.
InitialInsertValuesIntoMarketMatchingTable(db, n, size, duration) ==
    [db EXCEPT !.MarketMatching = [a \in 1..n |->
        [ServerInfo |-> 0, FileSize |-> size[a], ServAgrDuration |-> duration[a],
         StartedMcRoundNumber |-> 0, Published |-> TRUE, TxIssued |-> TRUE]]]

\* The i-th value goes to the row with rowid i.
AddMoreFieldsIntoTableInMainChain(db, values) ==
    [db EXCEPT !.MarketMatching = [i \in 1..Len(@) |->
        IF i <= Len(values) THEN [@[i] EXCEPT !.ServerInfo = values[i]] ELSE @[i]]]

\* The hosts, without a power yet.
InitialInsertValuesIntoMainChainPowerTable(db, hosts) ==
    [db EXCEPT !.PowerTable = [h \in hosts |-> 0]]

-----------------------------------------------------------------------------
(* Main chain: agreements and power.                                       *)

MainChainGetMarketMatchingRows(db) == db.MarketMatching

\* These three are executed once for each of a set of agreements.
MainChainSetTxIssued(db, rowIds, value) ==
    [db EXCEPT !.MarketMatching = [a \in 1..Len(@) |->
        IF a \in rowIds THEN [@[a] EXCEPT !.TxIssued = value] ELSE @[a]]]

MainChainSetPublished(db, rowIds, value) ==
    [db EXCEPT !.MarketMatching = [a \in 1..Len(@) |->
        IF a \in rowIds THEN [@[a] EXCEPT !.Published = value] ELSE @[a]]]

MainChainSetPublishedAndStartRoundOnServAgrId(db, ids, published, started) ==
    [db EXCEPT !.MarketMatching = [a \in 1..Len(@) |->
        IF a \in ids
        THEN [@[a] EXCEPT !.Published = published, !.StartedMcRoundNumber = started]
        ELSE @[a]]]

\* DELETE and INSERT.  Without values the INSERT is refused.
PowerTableRefused(powers) == DOMAIN powers = {}
MainChainUpdatePowerTable(db, powers) == [db EXCEPT !.PowerTable = powers]

-----------------------------------------------------------------------------
(* Main chain: queues.                                                     *)

BulkInsertIntoMainChainFirstQueue(db, rows) ==
    [db EXCEPT !.FirstQueue = InsertRows(@, rows)]

BulkInsertIntoMainChainSecondQueue(db, rows) ==
    [db EXCEPT !.SecondQueue = InsertRows(@, rows)]

InsertIntoMainChainSyncTxQueue(db, row) ==
    [db EXCEPT !.SyncTxQueue = InsertRows(@, <<row>>)]

MainChainGetFirstQueue(db) == FetchRows(db.FirstQueue)

MainChainGetSecondQueue(db) == FetchRows(db.SecondQueue)

MainChainDeleteFromFirstQueue(db, threshold) ==
    [db EXCEPT !.FirstQueue = DeleteRows(@, threshold)]

MainChainDeleteFromSecondQueue(db, threshold) ==
    [db EXCEPT !.SecondQueue = DeleteRows(@, threshold)]

\* The oldest sync transaction, as a sequence of at most one, and the
\* database without it.
MainChainPopFromSyncTxQueue(db) ==
    IF db.SyncTxQueue = <<>> THEN [tx |-> <<>>, db |-> db]
    ELSE [tx |-> <<Head(db.SyncTxQueue).tx>>, db |-> [db EXCEPT !.SyncTxQueue = Tail(@)]]

-----------------------------------------------------------------------------
(* Main chain: rounds.                                                     *)

NoStats == [BCSize |-> 0, RegPayTx |-> 0, PoRTx |-> 0, StorjPayTx |-> 0, CntPropTx |-> 0,
            CntCmtTx |-> 0, TotalNumTx |-> 0, FirstQueueWait |-> 0, SecondQueueWait |-> 0,
            SyncTx |-> 0, ScPorTx |-> 0]

InsertIntoMainChainRoundTable(db, roundNbr, seed) ==
    [db EXCEPT !.RoundTable = Append(@,
        [RoundNumber |-> roundNbr, Seed |-> seed, stats |-> NoStats,
         RegSpaceFull |-> FALSE, BlockSpaceFull |-> FALSE])]

\* The seed of the row with the largest round number.
MainChainGetLastRoundSeed(db) ==
    LET rows == db.RoundTable
        last == CHOOSE i \in DOMAIN rows :
                    \A j \in DOMAIN rows : rows[j].RoundNumber <= rows[i].RoundNumber
    IN  rows[last].Seed

\* RegSpaceFull or BlockSpaceFull becomes true in every row of that number.
AddToRoundTableBasedOnRoundNumber(db, column, roundNbr) ==
    [db EXCEPT !.RoundTable =
        UpdateWhere(@, LAMBDA row : row.RoundNumber = roundNbr,
                    LAMBDA row : [row EXCEPT ![column] = TRUE])]

\* A slip: the row prepared for the next round.
AddStatsToLastRow(db, stats, roundNbr) ==
    [db EXCEPT !.RoundTable[Len(db.RoundTable)].stats = stats]

AddStatsToRoundTableBasedOnRoundNumber(db, stats, roundNbr) ==
    [db EXCEPT !.RoundTable =
        UpdateWhere(@, LAMBDA row : row.RoundNumber = roundNbr,
                    LAMBDA row : [row EXCEPT !.stats = stats])]

GetSumMainChain(db, column) ==
    Total([i \in 1..Len(db.RoundTable) |-> db.RoundTable[i].stats[column]])

InsertIntoMainChainOverallEvaluationTable(db, roundNbr, sums) ==
    [db EXCEPT !.OverallEvaluation = Append(@, [RoundNbr |-> roundNbr, sums |-> sums])]

\* The row prepared for the round after the last one is removed.
MainChainEndPosition(db, maxRoundNbr) ==
    LET last == Last(db.RoundTable)
    IN  IF last.RoundNumber = maxRoundNbr + 1 /\ last.stats.BCSize = 0
        THEN [db EXCEPT !.RoundTable = Front(@)] ELSE db

-----------------------------------------------------------------------------
(* Side chain.                                                             *)

InitalizeSideChainDbTables ==
    [FirstQueue |-> <<>>, RoundTable |-> <<>>, OverallEvaluation |-> <<>>]

BulkInsertIntoSideChainFirstQueue(db, rows) ==
    [db EXCEPT !.FirstQueue = InsertRows(@, rows)]

SideChainGetFirstQueue(db) == FetchRows(db.FirstQueue)

SideChainDeleteFromFirstQueue(db, threshold) ==
    [db EXCEPT !.FirstQueue = DeleteRows(@, threshold)]

InsertIntoSideChainRoundTable(db, roundNbr, size, mcRound) ==
    [db EXCEPT !.RoundTable = Append(@,
        [RoundNumber |-> roundNbr, BCSize |-> size, PoRTx |-> 0, Wait |-> 0,
         BlockSpaceFull |-> FALSE, McRound |-> mcRound, QueueFill |-> 0])]

\* A slip: the row of the round before.
MarkRoundBefore(db, roundNbr) ==
    [db EXCEPT !.RoundTable =
        UpdateWhere(@, LAMBDA row : row.RoundNumber = roundNbr - 1,
                    LAMBDA row : [row EXCEPT !.BlockSpaceFull = TRUE])]

\* Every row of that number, whatever its epoch.
SideChainRoundTableSetBlockSpaceIsFull(db, roundNbr) ==
    [db EXCEPT !.RoundTable =
        UpdateWhere(@, LAMBDA row : row.RoundNumber = roundNbr,
                    LAMBDA row : [row EXCEPT !.BlockSpaceFull = TRUE])]

\* The last row of that number.
SideChainRoundTableSetFinalRoundInfo(db, size, por, wait, roundNbr, fill) ==
    LET rows == db.RoundTable
        last == SelectLastInSeq(rows, LAMBDA row : row.RoundNumber = roundNbr)
    IN  IF last = 0 THEN db
        ELSE [db EXCEPT !.RoundTable[last] =
                 [@ EXCEPT !.BCSize = size, !.PoRTx = por, !.Wait = wait, !.QueueFill = fill]]

GetSumSideChain(db, column) == SumColumn(db.RoundTable, column)

InsertIntoSideChainOverallEvaluation(db, roundNbr, size, por) ==
    [db EXCEPT !.OverallEvaluation = Append(@,
        [RoundNbr |-> roundNbr, BCSize |-> size, PoRTx |-> por])]

\* The number of the last round, and the database without the row of a
\* first round that has no block yet.
SideChainEndPosition(db) ==
    LET rows == db.RoundTable
    IN  IF rows = <<>> THEN [round |-> 0, db |-> db]
        ELSE IF Last(rows).RoundNumber = 1 /\ Last(rows).BCSize = 0
             THEN [round |-> 0, db |-> [db EXCEPT !.RoundTable = Front(@)]]
             ELSE [round |-> Last(rows).RoundNumber, db |-> db]

\* The size of the last block of round 29 without its transactions: 0 when
\* epochs are shorter.
SideChainGetLastRowSigLen(db, size) ==
    LET last == SelectLastInSeq(db.RoundTable, LAMBDA row : row.RoundNumber = 29)
    IN  IF last = 0 THEN 0
        ELSE db.RoundTable[last].BCSize
             - db.RoundTable[last].PoRTx * (IF db.FirstQueue = <<>> THEN 0 ELSE size)
=============================================================================
