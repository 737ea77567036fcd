------------------------------ MODULE Mailbox ------------------------------
(***************************************************************************)
(* What the dispatch queue of a tree node instance promises: messages are  *)
(* taken in the order in which they were put, each once, until the mailbox *)
(* is shut; and a message does not lie in an open mailbox for ever.        *)
(***************************************************************************)
EXTENDS Sequences

CONSTANT Msg

VARIABLES inbox,  \* put and not taken
          taken,  \* taken, in this order
          open    \* messages may be put and taken

boxVars == <<inbox, taken, open>>

BoxInit == inbox = <<>> /\ taken = <<>> /\ open = TRUE

Put(m) == open /\ inbox' = Append(inbox, m) /\ UNCHANGED <<taken, open>>

Take ==
    /\ open /\ inbox # <<>>
    /\ taken' = Append(taken, Head(inbox))
    /\ inbox' = Tail(inbox)
    /\ UNCHANGED open

Shut == open /\ open' = FALSE /\ UNCHANGED <<inbox, taken>>

BoxNext == (\E m \in Msg : Put(m)) \/ Take \/ Shut

BoxSpec == BoxInit /\ [][BoxNext]_boxVars
FairBoxSpec == BoxSpec /\ WF_boxVars(Take)
=============================================================================
