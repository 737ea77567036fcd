------------------------------ MODULE RoundLog ------------------------------
(***************************************************************************)
(* What the main chain promises, seen from outside: a log that grows by    *)
(* one block per round.  In every round one participant is elected, the    *)
(* election is never revoked, and the elected participant's block closes   *)
(* the round.  Round 1 belongs to the root.  In a later round the root can *)
(* only stand in for a missing leader, and its block is then empty.        *)
(*                                                                         *)
(* MainChainRounds implements this specification; the messages, the timer  *)
(* and the racing goroutines live there.                                   *)
(***************************************************************************)
EXTENDS Naturals, Sequences

CONSTANTS Nodes,             \* the storage servers other than the root
          Root,              \* the root node, which runs the round engine
          NoLeader,          \* "nobody has been elected yet"
          SimulationRounds   \* the number of rounds of the simulation

VARIABLES log,      \* the blocks, in order
          winner    \* the participant elected for the open round

vars == <<log, winner>>

Init ==
    /\ log = <<>>
    /\ winner = Root

Elect(p) ==
    /\ Len(log) < SimulationRounds
    /\ winner = NoLeader
    /\ winner' = p
    /\ UNCHANGED log

Close ==
    /\ Len(log) < SimulationRounds
    /\ winner # NoLeader
    /\ log' = Append(log, [leader |-> winner,
                           empty  |-> winner = Root /\ log # <<>>])
    /\ winner' = NoLeader

Next == Close \/ \E p \in Nodes \cup {Root} : Elect(p)

Spec == Init /\ [][Next]_vars
=============================================================================
