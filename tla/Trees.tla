-------------------------------- MODULE Trees --------------------------------
(***************************************************************************)
(* Rosters and trees (onet/tree.go), as operators.                         *)
(*                                                                         *)
(* A server identity is a record with its public key and its host.  IDs    *)
(* are hashes, and a hash is modelled by what is hashed.  An aggregate key *)
(* is the bag of the keys added up.  The nodes of a tree are a sequence in *)
(* the order of their allocation, the root first; Parent and Children hold *)
(* positions in it.  Roster indexes count from 0, as in the code.  The     *)
(* generators that are recursive are in BigTrees.                          *)
(***************************************************************************)
EXTENDS Integers, Sequences, SequencesExt, FiniteSets, Bags

Numbers(n) == [i \in 1..n |-> i]
Keys(ids) == [i \in DOMAIN ids |-> ids[i].key]
Sum(keys) == FoldLeft(LAMBDA agg, k : agg (+) SetToBag({k}), EmptyBag, keys)

-----------------------------------------------------------------------------
(* Rosters.                                                                *)

NoRoster == [ID |-> <<>>, List |-> <<>>, Aggregate |-> EmptyBag]
NewRoster(ids) ==
    IF ids = <<>> THEN NoRoster
    ELSE [ID |-> Keys(ids), List |-> ids, Aggregate |-> Sum(Keys(ids))]

RosterLen(ro) == Len(ro.List)
Identity(ro, idx) == ro.List[idx + 1]

\* Search: the first index of the key, or -1.
SearchRoster(ro, key) == SelectInSeq(ro.List, LAMBDA e : e.key = key) - 1

\* The root is swapped with the first server.
NewRosterWithRoot(ro, root) ==
    LET r == SearchRoster(ro, root.key) + 1 IN
    IF r = 0 THEN NoRoster
    ELSE NewRoster([ro.List EXCEPT ![1] = ro.List[r], ![r] = ro.List[1]])

IsRotation(ro, target) ==
    LET n == RosterLen(ro)
        offset == SearchRoster(target, ro.List[1].key) IN
    /\ n >= 2 /\ n = RosterLen(target) /\ offset > 0
    /\ \A i \in 0..(n - 1) : Identity(ro, i) = Identity(target, (i + offset) % n)

ContainsPublics(ro, pubs) ==
    /\ RosterLen(ro) = Len(pubs)
    /\ \A e \in Range(ro.List) : e.key \in Range(pubs)

Concat(ro, sis) ==
    NewRoster(FoldLeft(LAMBDA list, si : IF si.key \in Range(Keys(list)) THEN list
                                         ELSE Append(list, si),
                       ro.List, sis))

-----------------------------------------------------------------------------
(* Tree nodes.                                                             *)

Nil == 0
Root == 1
NewTreeNode(ro, idx) ==
    [ID |-> Identity(ro, idx).key, RosterIndex |-> idx, Parent |-> Nil, Children |-> <<>>]

\* AddChild, for a child that is allocated just then.
AddChild(nodes, p, child) ==
    Append([nodes EXCEPT ![p].Children = Append(@, Len(nodes) + 1)],
           [child EXCEPT !.Parent = p])

IsLeaf(nodes, k) == nodes[k].Children = <<>>
IsRoot(nodes, k) == nodes[k].Parent = Nil

\* Visit: depth first.
Visit(nodes, k) ==
    LET order[n \in DOMAIN nodes] ==
          <<n>> \o FlattenSeq([i \in DOMAIN nodes[n].Children |-> order[nodes[n].Children[i]]])
    IN order[k]
SubtreeCount(nodes, k) == Len(Visit(nodes, k)) - 1

-----------------------------------------------------------------------------
(* Trees.                                                                  *)

\* The hash of a tree marks the leaves, as the order of the keys alone does
\* not tell the shape.
NewTree(ro, nodes) ==
    [ID |-> <<ro.ID, [i \in DOMAIN nodes |->
                        LET k == Visit(nodes, Root)[i] IN <<nodes[k].ID, IsLeaf(nodes, k)>>]>>,
     Roster |-> ro, nodes |-> nodes]

List(t) == Visit(t.nodes, Root)
Size(t) == Len(List(t))
Search(t, id) ==
    LET list == List(t)
        at == SelectLastInSeq(list, LAMBDA k : t.nodes[k].ID = id)
    IN IF at = 0 THEN Nil ELSE list[at]
IsNary(t, n) == \A k \in Range(List(t)) : Len(t.nodes[k].Children) \in {0, n}
ServerIdentity(t, k) == Identity(t.Roster, t.nodes[k].RosterIndex)
UsesList(t) ==
    \A p \in Range(t.Roster.List) : \E k \in Range(List(t)) : ServerIdentity(t, k).key = p.key
ComputeSubtreeAggregate(t, k) ==
    LET below == Visit(t.nodes, k) IN
    Sum([i \in DOMAIN below |-> ServerIdentity(t, below[i]).key])
Depth(t) ==
    LET d[k \in DOMAIN t.nodes] == IF k = Root THEN 0 ELSE 1 + d[t.nodes[k].Parent]
    IN CHOOSE n \in {d[k] : k \in DOMAIN t.nodes} : \A k \in DOMAIN t.nodes : d[k] <= n

-----------------------------------------------------------------------------
(* The form in which a tree is saved and sent.                             *)

TreeMarshalCopyTree(t, k) ==
    LET copy[n \in DOMAIN t.nodes] ==
          [TreeNodeID |-> t.nodes[n].ID, ServerIdentityID |-> ServerIdentity(t, n).key,
           Children |-> [i \in DOMAIN t.nodes[n].Children |-> copy[t.nodes[n].Children[i]]]]
    IN copy[k]

MakeTreeMarshal(t) ==
    [TreeID |-> t.ID, RosterID |-> t.Roster.ID, Children |-> <<TreeMarshalCopyTree(t, Root)>>]

\* A tree that cannot be made.
NoTree == [ID |-> <<>>, Roster |-> NoRoster, nodes |-> <<>>]

\* Tree.Equal and TreeNode.Equal.
EqualTrees(t, u) ==
    /\ t.ID = u.ID /\ t.Roster.ID = u.Roster.ID
    /\ TreeMarshalCopyTree(t, Root) = TreeMarshalCopyTree(u, Root)

-----------------------------------------------------------------------------
(* GenerateNaryTreeWithRoot and the trees made with it.                    *)

\* A slip: the roster is not turned to begin at the root.
IndexFromFirst(ro, rootIndex, i) == i % RosterLen(ro)
IndexFromRoot(ro, rootIndex, i) == (i + rootIndex) % RosterLen(ro)

\* The i-th server becomes the child of the first parent that is not full.
Placed(ro, N, rootIndex, b, i) ==
    LET left == IF SubtreeCount(b.nodes, b.parents[1]) = N THEN Tail(b.parents) ELSE b.parents
        parents == IF left = <<>> THEN b.children ELSE left
        others == IF left = <<>> THEN <<>> ELSE b.children
        index == IndexFromRoot(ro, rootIndex, i)
    IN [nodes |-> AddChild(b.nodes, parents[1], NewTreeNode(ro, index)),
        parents |-> parents, children |-> Append(others, Len(b.nodes) + 1)]

GenerateNaryTreeWithRoot(ro, N, root) ==
    LET rootIndex == SearchRoster(ro, root.key)
        start == [nodes |-> <<NewTreeNode(ro, rootIndex)>>, parents |-> <<Root>>, children |-> <<>>]
    IN IF rootIndex < 0 THEN NoTree
       ELSE NewTree(ro, FoldLeft(LAMBDA b, i : Placed(ro, N, rootIndex, b, i),
                                 start, Numbers(RosterLen(ro) - 1)).nodes)

GenerateNaryTree(ro, N) == GenerateNaryTreeWithRoot(ro, N, ro.List[1])
GenerateBinaryTree(ro) == GenerateNaryTree(ro, 2)
GenerateStar(ro) == GenerateNaryTree(ro, RosterLen(ro) - 1)
=============================================================================
