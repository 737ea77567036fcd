-------------------------------- MODULE MCPor --------------------------------
(* Instances of Por for TLC.                                               *)
EXTENDS Por, TLC

\* The numbers of the first and the last of three blocks are the same byte.
MCFiles == {(0 :> <<1, 2>>) @@ (1 :> <<0, 4>>) @@ (2 :> <<3, 3>>),
            (0 :> <<2, 2>>) @@ (1 :> <<4, 1>>) @@ (2 :> <<2, 2>>)}
MCHashes == {(0 :> 3) @@ (1 :> 1)}
MCSecrets == {<<1, 3>>, <<4, 2>>}
\* Seeds from which every query with these factors is drawn.
MCSeeds == 1..81
MCIntn == [s \in MCSeeds |-> [k \in 1..l |-> IF k = 1 THEN s % 27 ELSE s \div 27]]
MCPicked == [s \in MCSeeds |-> [k \in 1..l |->
                LET d == IF k = 1 THEN (s \div 3) % 3 ELSE (s \div 9) % 3
                IN  IF d = 2 THEN 4 ELSE d + 1]]
=============================================================================
