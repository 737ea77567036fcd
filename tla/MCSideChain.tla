---------------------------- MODULE MCSideChain ----------------------------
(* Instances of SideChain for TLC.                                         *)
EXTENDS SideChain

CONSTANTS n1, n2, n3

\* The root is a member, but not the first one.
RootInside == {<<n1, Root, n2>>}

\* The root is the first member drawn, and so leads the first epoch.
RootFirst == {<<Root, n1, n2>>}

\* Neither the root nor n3 is drawn, or the root is the last one drawn.
RootOutsideOrLast == {<<n1, n2, Root>>, <<n1, n2, n3>>}
=============================================================================
