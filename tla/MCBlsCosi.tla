------------------------------ MODULE MCBlsCosi ------------------------------
(* Instances of BlsCosi for TLC.                                           *)
EXTENDS BlsCosi

\* All sign; one refuses; the first subleader is silent; both members of the
\* first subtree are.
Profile(refusing, silent) ==
    [m \in Members |-> IF m \in silent THEN "silent"
                       ELSE IF m \in refusing THEN "refuses" ELSE "signs"]
MCProfiles == {Profile({}, {}), Profile({2}, {}), Profile({2, 3}, {}), Profile({}, {1}), Profile({}, {1, 2})}
=============================================================================
