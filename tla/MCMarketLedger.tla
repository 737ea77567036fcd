--------------------------- MODULE MCMarketLedger ---------------------------
(* Instances of MarketLedger for TLC.                                      *)
EXTENDS LedgerPurge

\* Main chain only: two short agreements and one that outlasts the
\* simulation, so that there is always a server with power.
MainOnly ==
    [SimState |-> 1, Nodes |-> 3, ContractsPerServer |-> 1, StoragePaymentEpoch |-> 0,
     FileSize |-> <<2, 1, 3>>, ServAgrDuration |-> <<1, 2, 20>>,
     MainChainBlockSize |-> 2000, SideChainBlockSize |-> 500, SimulationRounds |-> 9]

\* With the side chain: agreements that run out at different times, paid for
\* at the end of every epoch, two of them with the same server.
WithSideChain ==
    [SimState |-> 2, Nodes |-> 1, ContractsPerServer |-> 2, StoragePaymentEpoch |-> 1,
     FileSize |-> <<2, 1>>, ServAgrDuration |-> <<2, 5>>,
     MainChainBlockSize |-> 1500, SideChainBlockSize |-> 500, SimulationRounds |-> 5]

\* Two agreements that run out together: the power table becomes empty.
RunOutTogether ==
    [SimState |-> 1, Nodes |-> 2, ContractsPerServer |-> 1, StoragePaymentEpoch |-> 0,
     FileSize |-> <<1, 1>>, ServAgrDuration |-> <<2, 2>>,
     MainChainBlockSize |-> 1500, SideChainBlockSize |-> 500, SimulationRounds |-> 6]

AllExperiments == {MainOnly, WithSideChain, RunOutTogether}
SideExperiment == {WithSideChain}
=============================================================================
