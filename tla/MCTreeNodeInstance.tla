------------------------- MODULE MCTreeNodeInstance -------------------------
(* Instances of TreeNodeInstance for TLC.                                  *)
EXTENDS TreeNodeInstance, TLC

\* The children send two rounds of the aggregated type, and the parent some
\* single messages.
MCChild == "all" :> 2 @@ "single" :> 0 @@ "called" :> 0
MCRounds == "a" :> MCChild @@ "b" :> MCChild
            @@ "parent" :> ("all" :> 0 @@ "single" :> 2 @@ "called" :> 1)

\* One message comes from a server that is not the node it names.
MCMisattributed == {[from |-> "parent", type |-> "called", round |-> 1]}
=============================================================================
