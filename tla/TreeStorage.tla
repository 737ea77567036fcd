---------------------------- MODULE TreeStorage ----------------------------
(***************************************************************************)
(* The trees a server knows (onet/treestorage.go).  A tree that is no      *)
(* longer used is removed by a goroutine after a timeout, so that other    *)
(* nodes can still ask for it.  The removal can be cancelled.              *)
(*                                                                         *)
(* Every method holds the mutex from its first to its last line, so it is  *)
(* one step.  Close is two: it waits, with the mutex held, until all       *)
(* goroutines are gone.  A goroutine whose timer fires needs the mutex.    *)
(***************************************************************************)
EXTENDS Integers, Sequences, FiniteSets

CONSTANTS
    TreeIDs,       \* the trees
    MaxRemovals    \* bound on the number of removals that are started

ASSUME RemovalsAssumption == MaxRemovals \in Nat

VARIABLES
    trees,          \* per tree: "absent", "known" (a nil entry) or "stored"
    cancellations,  \* per tree: the goroutine that will remove it, or 0
    removals,       \* the goroutines of Remove in the order of their start
    closed,         \* Close was called
    waitingToClose  \* Close holds the mutex and waits for the goroutines

storageVars == <<trees, cancellations, removals, closed, waitingToClose>>

StorageTypeOK ==
    /\ trees \in [TreeIDs -> {"absent", "known", "stored"}]
    /\ removals \in Seq([tree : TreeIDs, cancelled : BOOLEAN,
                         at : {"timing", "fired", "over"}])
    /\ Len(removals) <= MaxRemovals
    /\ cancellations \in [TreeIDs -> 0..Len(removals)]
    /\ closed \in BOOLEAN /\ waitingToClose \in BOOLEAN

StorageInit ==
    /\ trees = [t \in TreeIDs |-> "absent"]
    /\ cancellations = [t \in TreeIDs |-> 0]
    /\ removals = <<>>
    /\ closed = FALSE
    /\ waitingToClose = FALSE

-----------------------------------------------------------------------------
(* Methods.  Their callers are the actions of Overlay.                     *)

\* The mutex is free.
Unlocked == ~waitingToClose

\* The channels of these trees' removals are closed (cancelDeletion).
ClosedChannels(ids) ==
    [g \in 1..Len(removals) |->
        IF \E t \in ids : cancellations[t] = g
        THEN [removals[g] EXCEPT !.cancelled = TRUE] ELSE removals[g]]

CancelDeletion(ids) ==
    /\ removals' = ClosedChannels(ids)
    /\ cancellations' = [t \in TreeIDs |-> IF t \in ids THEN 0 ELSE cancellations[t]]

IsRegistered(id) == trees[id] # "absent"

Register(id) ==
    /\ Unlocked
    /\ trees' = [trees EXCEPT ![id] = "known"]
    /\ UNCHANGED <<cancellations, removals, closed, waitingToClose>>

Unregister(id) ==
    /\ Unlocked
    /\ trees' = IF trees[id] = "stored" THEN trees ELSE [trees EXCEPT ![id] = "absent"]
    /\ UNCHANGED <<cancellations, removals, closed, waitingToClose>>

\* getAndRefresh: the result is trees[id].
GetAndRefresh(id) ==
    /\ Unlocked
    /\ CancelDeletion({id})
    /\ UNCHANGED <<trees, closed, waitingToClose>>

Set(ids) ==
    /\ Unlocked
    /\ CancelDeletion(ids)
    /\ trees' = [t \in TreeIDs |-> IF t \in ids THEN "stored" ELSE trees[t]]
    /\ UNCHANGED <<closed, waitingToClose>>

\* Remove starts a goroutine unless one is planned or the server is closing.
RemoveTree(id) ==
    /\ Unlocked
    /\ IF closed \/ cancellations[id] # 0
       THEN UNCHANGED <<removals, cancellations>>
       ELSE /\ Len(removals) < MaxRemovals
            /\ removals' = Append(removals,
                 [tree |-> id, cancelled |-> FALSE, at |-> "timing"])
            /\ cancellations' = [cancellations EXCEPT ![id] = Len(removals) + 1]
    /\ UNCHANGED <<trees, closed, waitingToClose>>

-----------------------------------------------------------------------------
(* The goroutines of Remove.                                               *)

\* The timer fires.  When the channel is closed too, select may still take
\* this branch.
TimerFires(g) ==
    /\ removals[g].at = "timing"
    /\ removals' = [removals EXCEPT ![g].at = "fired"]
    /\ UNCHANGED <<trees, cancellations, closed, waitingToClose>>

\* The goroutine does not look whether it has been cancelled since, nor
\* whether the planned removal is still its own.
DeleteTree(g) ==
    /\ removals[g].at = "fired"
    /\ Unlocked
    /\ trees' = [trees EXCEPT ![removals[g].tree] = "absent"]
    /\ cancellations' = [cancellations EXCEPT ![removals[g].tree] = 0]
    /\ removals' = [removals EXCEPT ![g].at = "over"]
    /\ UNCHANGED <<closed, waitingToClose>>

\* Mutant: the cancelled goroutine leaves without wg.Done.
StopWithoutDone(g) ==
    /\ removals[g].at = "timing" /\ removals[g].cancelled
    /\ removals' = [removals EXCEPT ![g].at = "leaked"]
    /\ UNCHANGED <<trees, cancellations, closed, waitingToClose>>

StopTimer(g) ==
    /\ removals[g].at = "timing"
    /\ removals[g].cancelled
    /\ removals' = [removals EXCEPT ![g].at = "over"]
    /\ UNCHANGED <<trees, cancellations, closed, waitingToClose>>

\* Close, up to the call of wg.Wait.
CloseStorage ==
    /\ Unlocked
    /\ closed' = TRUE
    /\ CancelDeletion(TreeIDs)
    /\ waitingToClose' = TRUE
    /\ UNCHANGED trees

\* wg.Wait returns.
StorageClosed ==
    /\ waitingToClose
    /\ \A g \in 1..Len(removals) : removals[g].at = "over"
    /\ waitingToClose' = FALSE
    /\ UNCHANGED <<trees, cancellations, removals, closed>>
=============================================================================
