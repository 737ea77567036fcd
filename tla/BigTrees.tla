------------------------------- MODULE BigTrees -------------------------------
(***************************************************************************)
(* The two parts of onet/tree.go that are recursive: reading a tree back   *)
(* from the form in which it is saved, and GenerateBigNaryTree.            *)
(***************************************************************************)
EXTENDS Trees

-----------------------------------------------------------------------------
(* Reading a tree.                                                         *)

Linked(nodes, p, tn) == IF p = Nil THEN Append(nodes, tn) ELSE AddChild(nodes, p, tn)

\* A slip: children are put in front.
RECURSIVE MakeTreeBackwards(_, _, _, _)
MakeTreeBackwards(tm, parent, ro, nodes) ==
    LET tn == [ID |-> tm.TreeNodeID, RosterIndex |-> SearchRoster(ro, tm.ServerIdentityID),
               Parent |-> Nil, Children |-> <<>>]
    IN FoldLeft(LAMBDA ns, c : MakeTreeBackwards(c, Len(nodes) + 1, ro, ns),
                Linked(nodes, parent, tn), Reverse(tm.Children))

RECURSIVE MakeTreeFromList(_, _, _, _)
MakeTreeFromList(tm, parent, ro, nodes) ==
    LET tn == [ID |-> tm.TreeNodeID, RosterIndex |-> SearchRoster(ro, tm.ServerIdentityID),
               Parent |-> Nil, Children |-> <<>>]
    IN FoldLeft(LAMBDA ns, c : MakeTreeFromList(c, Len(nodes) + 1, ro, ns),
                Linked(nodes, parent, tn), tm.Children)

\* "Not correct Roster-Id", or a server that is not in the roster.
MakeTree(tm, ro) ==
    LET nodes == MakeTreeFromList(tm.Children[1], Nil, ro, <<>>) IN
    IF ro.ID # tm.RosterID \/ \E n \in Range(nodes) : n.RosterIndex < 0 THEN NoTree
    ELSE [ID |-> tm.TreeID, Roster |-> ro, nodes |-> nodes]

-----------------------------------------------------------------------------
(* GenerateBigNaryTree.                                                    *)

\* The search for the next server: none that is used already if all are to be
\* used, and if possible none on the host of the parent.
RECURSIVE NextServer(_, _, _, _, _)
NextServer(ro, avoid, parentHost, first, at) ==
    LET n == RosterLen(ro)
        next == (at.roIndex + 1) % n
    IN IF \/ at.notSameHost /\ at.childHost = parentHost /\ n > 1
          \/ at.roIndex \in avoid
       THEN IF next \in avoid
            THEN NextServer(ro, avoid, parentHost, first,
                            [at EXCEPT !.roIndex = next, !.notSameHost = @ /\ next # first])
            ELSE IF next = first THEN next
            ELSE NextServer(ro, avoid, parentHost, first,
                            [at EXCEPT !.roIndex = next, !.childHost = Identity(ro, next).host])
       ELSE at.roIndex

\* A slip: a server on the host of the parent is taken like any other.
AnyHost(ro, useAll, used, host, roIndex) ==
    NextServer(ro, IF useAll THEN used ELSE {}, host, roIndex,
               [roIndex |-> roIndex, notSameHost |-> FALSE,
                childHost |-> Identity(ro, roIndex).host])
ChildServer(ro, useAll, used, host, roIndex) ==
    NextServer(ro, IF useAll THEN used ELSE {}, host, roIndex,
               [roIndex |-> roIndex, notSameHost |-> TRUE,
                childHost |-> Identity(ro, roIndex).host])

\* One child of a parent.
Grow(ro, useAll, g, parent) ==
    LET idx == ChildServer(ro, useAll, g.used,
                           Identity(ro, g.nodes[parent].RosterIndex).host, g.roIndex)
    IN [nodes |-> AddChild(g.nodes, parent, NewTreeNode(ro, idx)), used |-> g.used \cup {idx},
        roIndex |-> (idx + 1) % RosterLen(ro), next |-> Append(g.next, Len(g.nodes) + 1)]

\* The servers left are spread over the parents of the level, N each at most.
Share(N, size, g, level, i) ==
    LET share == ((size - Len(g.nodes)) * i) \div Len(level) IN IF share > N THEN N ELSE share

RECURSIVE Levels(_, _, _, _, _)
Levels(ro, N, size, g, level) ==
    IF Len(g.nodes) >= size THEN g.nodes
    ELSE LET full == FoldLeft(
                 LAMBDA h, i : FoldLeft(LAMBDA x, c : Grow(ro, RosterLen(ro) = size, x, level[i]),
                                        h, Numbers(Share(N, size, h, level, i))),
                 [g EXCEPT !.next = <<>>], Numbers(Len(level)))
         IN Levels(ro, N, size, full, full.next)

GenerateBigNaryTree(ro, N, size) ==
    NewTree(ro, Levels(ro, N, size,
                       [nodes |-> <<NewTreeNode(ro, 0)>>, used |-> {0},
                        roIndex |-> 1 % RosterLen(ro), next |-> <<>>], <<Root>>))
=============================================================================
