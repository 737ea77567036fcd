---------------------------- MODULE MCSimulation ----------------------------
(* Instances of Simulation for TLC.                                        *)
EXTENDS Simulation, BigTrees

Exp(addresses, hosts, bf, depth, window, subtrees, one) ==
    [addresses |-> addresses, rc |-> [hosts |-> hosts, bf |-> bf, depth |-> depth],
     CommitteeWindow |-> window, NbrSubTrees |-> subtrees, oneProcess |-> one]

\* Virtual machines, with a full tree and with one that is not; localhost; a
\* machine without servers; a committee too large, and too small for its subtrees.
MCExperiments ==
    {Exp(<<"v1", "v2">>, 0, 2, 1, 2, 1, FALSE),
     Exp(<<"v1", "v2">>, 4, 0, 2, 3, 1, TRUE),
     Exp(<<"v1", "v2", "v3">>, 2, 2, 1, 1, 1, FALSE),
     Exp(<<"v1", "v2">>, 3, 1, 0, 3, 1, FALSE),
     Exp(<<"v1", "v2">>, 3, 1, 0, 1, 2, TRUE)}

-----------------------------------------------------------------------------
(* The generators of trees, over all rosters of up to four servers on two  *)
(* hosts, up to three children and five nodes; checked when a simulation   *)
(* is set up.                                                              *)

Rosters == UNION {{NewRoster([c \in 1..n |-> [key |-> c - 1, host |-> f[c]]]) :
                     f \in [1..n -> {"v1", "v2"}]} : n \in 1..4}
AtSetup == \A h \in Addresses : sim[h] = "off"

Host(t, k) == ServerIdentity(t, k).host
Behind(t, k) == {j \in DOMAIN t.nodes : j >= k}

\* GenerateBigNaryTree keeps what its comment promises: exactly the nodes asked
\* for, at most N children, all servers if there are as many; parent and child
\* are on one host only when no server of another host is left.  The levels
\* are filled one after the other, so hosts and bf given by CheckHosts fit the
\* depth (tree.go:539-613, build.go:294-342).
BigTreesSound ==
    AtSetup => \A ro \in Rosters, N \in 1..3, size \in 1..5 :
        LET t == GenerateBigNaryTree(ro, N, size) IN
        /\ Size(t) = size /\ \A k \in DOMAIN t.nodes : Len(t.nodes[k].Children) <= N
        /\ \A d \in 1..2 : size <= calcHosts(N, d) => Depth(t) <= d
        /\ size = RosterLen(ro) => UsesList(t) /\ ComputeSubtreeAggregate(t, Root) = ro.Aggregate
        /\ \A k \in DOMAIN t.nodes \ {Root} :
             LET h == Host(t, t.nodes[k].Parent) IN
             Host(t, k) = h =>
                 \/ size = RosterLen(ro) /\ \A j \in Behind(t, k) : Host(t, j) = h
                 \/ size # RosterLen(ro) /\ \A e \in Range(ro.List) : e.host = h

\* Any server may be made the root, of a tree or of a roster, and all the others
\* are kept; a roster turned round is recognised, and no other is
\* (tree.go:615-691, 745-829).
RootsSound ==
    AtSetup => \A ro \in Rosters, N \in 1..3 : \A root \in Range(ro.List) :
        LET t == GenerateNaryTreeWithRoot(ro, N, root)
            turned == NewRosterWithRoot(ro, root)
            r == SearchRoster(ro, root.key) IN
        /\ ServerIdentity(t, Root) = root /\ UsesList(t) /\ Size(t) = RosterLen(ro)
        /\ \A k \in DOMAIN t.nodes : Search(t, t.nodes[k].ID) = k
        /\ IsNary(t, N) <=> (RosterLen(ro) - 1) % N = 0
        /\ Len(GenerateStar(ro).nodes[Root].Children) = RosterLen(ro) - 1
        /\ turned.List[1] = root /\ turned.Aggregate = ro.Aggregate
        /\ ContainsPublics(ro, Keys(turned.List)) /\ Concat(ro, turned.List) = ro
        /\ IsRotation(ro, turned) <=> RosterLen(ro) = 2 /\ r = 1
        /\ LET moved == NewRoster(SubSeq(ro.List, r + 1, RosterLen(ro)) \o SubSeq(ro.List, 1, r))
           IN IsRotation(ro, moved) <=> r > 0

\* The generators keep to what their comments promise of the shape of the
\* tree, the hosts, the servers used and the root (tree.go:539-691, 745-829).
TreesSound == BigTreesSound /\ RootsSound
=============================================================================
