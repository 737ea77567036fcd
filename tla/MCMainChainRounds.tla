-------------------------- MODULE MCMainChainRounds --------------------------
(* Instances of MainChainRounds for TLC.                                   *)
EXTENDS MainChainRounds

CONSTANTS n1, n2

\* Every server keeps an active agreement, hence power, in every round.
AllPowered == {Nodes}

\* Agreements expire: any set of servers may have power.
AnyPowered == SUBSET Nodes
=============================================================================
