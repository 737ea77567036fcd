----------------------------- MODULE MCOverlay -----------------------------
(* Instances of Overlay for TLC.                                           *)
EXTENDS Overlay, TLC

\* A protocol that two peers send messages for, and one of this server, on
\* trees with the same roster.
MCTreeOf == ("r1" :> "T1" @@ "own" :> "T2")
MCRosterOf == ("T1" :> "R" @@ "T2" :> "R")
MCOutcomes == ("r1" :> {"ok", "error", "nil"} @@ "own" :> {"ok"})
MCDest == ("m1" :> "r1" @@ "m2" :> "r1")
MCSent == ("c1" :> <<"m1">> @@ "c2" :> <<"m2">>)
=============================================================================
