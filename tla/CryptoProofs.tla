---------------------------- MODULE CryptoProofs ----------------------------
(***************************************************************************)
(* What holds of the two cryptographic components: of the collective       *)
(* signature for every size of the committee, number of subtrees,          *)
(* threshold, number of rounds, and for all members that refuse or do not  *)
(* answer; of the proofs of retrievability for every file, key, size of a  *)
(* query and loss.                                                         *)
(***************************************************************************)
EXTENDS BlsCosi, Por, FiniteSetTheorems, WellFoundedInduction, NaturalsInduction, TLAPS

-----------------------------------------------------------------------------
(* The numbers of genTrees.                                                *)

\* Every subtree gets at least one member besides the leader, and the surplus
\* is smaller than the number of subtrees.
LEMMA SplitFacts ==
    /\ NSubtrees \in Nat /\ NSubtrees >= 1 /\ NSubtrees <= N - 1
    /\ NodesPerSubtree \in Nat /\ NodesPerSubtree >= 1
    /\ SurplusNodes \in Nat /\ SurplusNodes < NSubtrees
    /\ NSubtrees * NodesPerSubtree + SurplusNodes = N - 1
<1>1. NSubtrees \in Nat /\ NSubtrees >= 1 /\ NSubtrees <= N - 1
  BY CommitteeAssumption DEF NSubtrees
<1>2. ASSUME NEW k \in Nat, k >= 1, NEW c \in Nat, c >= k
      PROVE  /\ c \div k \in Nat /\ c \div k >= 1 /\ c % k \in Nat /\ c % k < k
             /\ k * (c \div k) + (c % k) = c
  BY <1>2
<1>3. N - 1 \in Nat
  BY CommitteeAssumption
<1> QED  BY <1>1, <1>2, <1>3 DEF NodesPerSubtree, SurplusNodes

\* Products keep the order.
LEMMA ProductMonotone ==
    ASSUME NEW a \in Nat, NEW b \in Nat, a <= b, NEW q \in Nat
    PROVE  a * q <= b * q /\ a * q \in Nat
<1>1. b * q = a * q + (b - a) * q
  OBVIOUS
<1>2. (b - a) * q >= 0
  OBVIOUS
<1>3. a * q \in Nat /\ b * q \in Nat
  OBVIOUS
<1> QED  BY <1>1, <1>2, <1>3

\* The members of one subtree follow those of the one before, without a gap, and
\* all members are used.
LEMMA UsedFacts ==
    /\ \A i \in 1..(NSubtrees + 1) : Used(i) \in Nat
    /\ Used(1) = 0 /\ Used(NSubtrees + 1) = N - 1
    /\ \A i \in Trees : /\ Length(i) \in Nat /\ Length(i) >= 2
                        /\ Used(i + 1) = Used(i) + Length(i) - 1
    /\ \A i, j \in 1..(NSubtrees + 1) : i <= j => Used(i) <= Used(j)
<1> DEFINE K == NSubtrees
           q == NodesPerSubtree
           s == SurplusNodes
<1>0. /\ K \in Nat /\ K >= 1 /\ K <= N - 1 /\ q \in Nat /\ q >= 1 /\ s \in Nat /\ s < K
      /\ K * q + s = N - 1
  BY SplitFacts
<1>1. \A i : Used(i) = (i - 1) * q + (IF i - 1 < s THEN i - 1 ELSE s)
  BY DEF Used
<1>2. \A i : Length(i) = q + 1 + (IF i <= s THEN 1 ELSE 0)
  BY DEF Length
<1>3. Trees = 1..K
  BY DEF Trees
<1> HIDE DEF K, q, s
<1>4. \A i \in 1..(K + 1) : Used(i) \in Nat
  <2> TAKE i \in 1..(K + 1)
  <2>1. i - 1 \in Nat
    BY <1>0
  <2>2. (i - 1) * q \in Nat
    BY <2>1, <1>0, ProductMonotone
  <2> QED  BY <2>1, <2>2, <1>0, <1>1
<1>5. Used(1) = 0
  BY <1>0, <1>1
<1>6. Used(K + 1) = N - 1
  <2>1. Used(K + 1) = K * q + s
    BY <1>0, <1>1
  <2> QED  BY <2>1, <1>0
<1>7. ASSUME NEW i \in Trees
      PROVE  Length(i) \in Nat /\ Length(i) >= 2 /\ Used(i + 1) = Used(i) + Length(i) - 1
  <2>1. i \in Nat /\ i >= 1 /\ i <= K
    BY <1>0, <1>3
  <2>2. i * q = (i - 1) * q + q
    BY <2>1, <1>0
  <2>3. Used(i + 1) = i * q + (IF i < s THEN i ELSE s)
    BY <1>1, <2>1
  <2>4. Used(i) = (i - 1) * q + (IF i - 1 < s THEN i - 1 ELSE s)
    BY <1>1
  <2>5. i * q \in Nat /\ (i - 1) * q \in Nat
    BY <2>1, <1>0, ProductMonotone
  <2> QED  BY <1>0, <1>2, <2>1, <2>2, <2>3, <2>4, <2>5
<1>8. ASSUME NEW i \in 1..(K + 1), NEW j \in 1..(K + 1), i <= j
      PROVE  Used(i) <= Used(j)
  <2>1. i - 1 \in Nat /\ j - 1 \in Nat /\ i - 1 <= j - 1
    BY <1>0, <1>8
  <2>2. (i - 1) * q <= (j - 1) * q /\ (i - 1) * q \in Nat /\ (j - 1) * q \in Nat
    BY <2>1, <1>0, ProductMonotone
  <2> QED  BY <1>0, <1>1, <2>1, <2>2
<1> QED  BY <1>4, <1>5, <1>6, <1>7, <1>8 DEF K

\* Going round the roster.
LEMMA Turns ==
    ASSUME NEW a \in Nat, a <= N - 2
    PROVE  /\ (Root + 1 + a) % N \in Members \ {Root}
           /\ (Root + 1 + a) % N = IF Root + 1 + a < N THEN Root + 1 + a ELSE (Root + 1 + a) - N
<1> DEFINE b == Root + 1 + a
<1>1. N \in Nat /\ N >= 2 /\ Root \in 0..(N - 1)
  BY CommitteeAssumption DEF Members
<1>2. b \in Nat /\ b < N + N /\ b > Root /\ b - N < Root
  BY <1>1
<1> HIDE DEF b
<1>3. b \div N \in Nat /\ b % N \in Nat /\ b % N < N /\ N * (b \div N) + (b % N) = b
  BY <1>1, <1>2
<1>4. b \div N = 0 \/ b \div N = 1
  <2>1. ASSUME b \div N >= 2 PROVE N * (b \div N) >= N * 2
    BY <1>1, <1>3, <2>1
  <2> QED  BY <1>1, <1>2, <1>3, <2>1
<1>5. b % N = IF b < N THEN b ELSE b - N
  BY <1>1, <1>2, <1>3, <1>4
<1>6. b % N \in Members \ {Root}
  BY <1>1, <1>2, <1>5 DEF Members
<1> QED  BY <1>5, <1>6 DEF b

\* A member's distance behind the leader.
Offset(m) == IF m > Root THEN (m - Root) - 1 ELSE ((m + N) - Root) - 1

LEMMA OffsetFacts ==
    /\ \A m \in Members \ {Root} : Offset(m) \in Nat /\ Offset(m) <= N - 2
    /\ \A a \in Nat : a <= N - 2 => Offset((Root + 1 + a) % N) = a
    /\ \A m \in Members \ {Root} : (Root + 1 + Offset(m)) % N = m
<1>1. N \in Nat /\ N >= 2 /\ Root \in 0..(N - 1)
  BY CommitteeAssumption DEF Members
<1>2. \A m \in Members \ {Root} : Offset(m) \in Nat /\ Offset(m) <= N - 2
  BY <1>1 DEF Members, Offset
<1>3. ASSUME NEW a \in Nat, a <= N - 2 PROVE Offset((Root + 1 + a) % N) = a
  BY <1>1, <1>3, Turns DEF Offset
<1>4. ASSUME NEW m \in Members \ {Root} PROVE (Root + 1 + Offset(m)) % N = m
  <2> DEFINE a == Offset(m)
  <2>1. a \in Nat /\ a <= N - 2
    BY <1>2
  <2>2. a = IF m > Root THEN (m - Root) - 1 ELSE ((m + N) - Root) - 1
    BY DEF Offset
  <2> HIDE DEF a
  <2>3. (Root + 1 + a) % N = IF Root + 1 + a < N THEN Root + 1 + a ELSE (Root + 1 + a) - N
    BY <2>1, Turns
  <2>4. m \in Int /\ 0 <= m /\ m <= N - 1 /\ m # Root
    BY <1>1 DEF Members
  <2>5. (Root + 1 + a) % N = m
    BY <1>1, <2>1, <2>2, <2>3, <2>4
  <2> QED  BY <2>5 DEF a
<1> QED  BY <1>2, <1>3, <1>4

\* The j-th member of the i-th subtree.
Place(i, j) == Used(i) + (j - 2)

LEMMA GenElements ==
    ASSUME NEW i \in Trees
    PROVE  /\ GenTrees[i] \in Seq(Members) /\ Len(GenTrees[i]) = Length(i)
           /\ GenTrees[i][1] = Root
           /\ \A j \in 2..Length(i) :
                /\ Place(i, j) \in Nat /\ Place(i, j) >= Used(i) /\ Place(i, j) < Used(i + 1)
                /\ GenTrees[i][j] \in Members \ {Root}
                /\ Offset(GenTrees[i][j]) = Place(i, j)
<1>1. N \in Nat /\ N >= 2 /\ Root \in 0..(N - 1) /\ Root \in Members
  BY CommitteeAssumption DEF Members
<1>2. /\ i \in Nat /\ i >= 1 /\ i <= NSubtrees /\ NSubtrees \in Nat
      /\ i \in 1..(NSubtrees + 1) /\ i + 1 \in 1..(NSubtrees + 1) /\ NSubtrees + 1 \in 1..(NSubtrees + 1)
  BY SplitFacts DEF Trees
<1>3. /\ Used(i) \in Nat /\ Used(i + 1) \in Nat /\ Used(i + 1) <= N - 1
      /\ Length(i) \in Nat /\ Length(i) >= 2 /\ Used(i + 1) = (Used(i) + Length(i)) - 1
  BY <1>2, UsedFacts
<1>4. GenTrees[i] = [j \in 1..Length(i) |->
                       IF j = 1 THEN Root ELSE (Root + 1 + Used(i) + (j - 2)) % N]
  BY DEF GenTrees, Trees
<1>5. ASSUME NEW j \in 2..Length(i)
      PROVE  /\ Place(i, j) \in Nat /\ Place(i, j) >= Used(i) /\ Place(i, j) < Used(i + 1)
             /\ GenTrees[i][j] \in Members \ {Root}
             /\ Offset(GenTrees[i][j]) = Place(i, j)
  <2>1. j \in Nat /\ j >= 2 /\ j <= Length(i) /\ j \in 1..Length(i)
    BY <1>3
  <2>2. Place(i, j) \in Nat /\ Place(i, j) >= Used(i) /\ Place(i, j) < Used(i + 1)
    BY <1>3, <2>1 DEF Place
  <2>3. Root + 1 + Used(i) + (j - 2) = Root + 1 + Place(i, j)
    BY <1>1, <1>3, <2>1 DEF Place
  <2>4. GenTrees[i][j] = (Root + 1 + Place(i, j)) % N
    BY <1>4, <2>1, <2>3
  <2>5. Place(i, j) <= N - 2
    BY <1>1, <1>3, <2>2
  <2> QED  BY <2>2, <2>4, <2>5, Turns, OffsetFacts
<1>6. GenTrees[i][1] = Root
  BY <1>3, <1>4
<1>7. \A j \in 1..Length(i) : GenTrees[i][j] \in Members
  <2> TAKE j \in 1..Length(i)
  <2>1. j = 1 \/ j \in 2..Length(i)
    BY <1>3
  <2> QED  BY <1>1, <1>5, <1>6, <2>1
<1>8. GenTrees[i] \in Seq(Members) /\ Len(GenTrees[i]) = Length(i)
  <2>1. ASSUME NEW len \in Nat, NEW g, g = [j \in 1..len |-> g[j]],
               \A j \in 1..len : g[j] \in Members
        PROVE  g \in Seq(Members) /\ Len(g) = len
    BY <2>1
  <2>2. GenTrees[i] = [j \in 1..Length(i) |-> GenTrees[i][j]]
    BY <1>4
  <2> QED  BY <1>3, <1>7, <2>1, <2>2
<1> QED  BY <1>5, <1>6, <1>8

\* No member is given out twice.
LEMMA GenDistinct ==
    ASSUME NEW i \in Trees, NEW k \in Trees, NEW j \in 2..Length(i), NEW h \in 2..Length(k),
           GenTrees[i][j] = GenTrees[k][h]
    PROVE  i = k /\ j = h
<1>1. /\ i \in Nat /\ i <= NSubtrees /\ k \in Nat /\ k <= NSubtrees /\ NSubtrees \in Nat
      /\ i >= 1 /\ k >= 1
  BY SplitFacts DEF Trees
<1>2. /\ i \in 1..(NSubtrees + 1) /\ i + 1 \in 1..(NSubtrees + 1)
      /\ k \in 1..(NSubtrees + 1) /\ k + 1 \in 1..(NSubtrees + 1)
  BY <1>1
<1>3. Used(i) \in Nat /\ Used(i + 1) \in Nat /\ Used(k) \in Nat /\ Used(k + 1) \in Nat
  BY <1>2, UsedFacts
<1>4. Place(i, j) = Place(k, h)
  BY GenElements
<1>5. /\ Place(i, j) >= Used(i) /\ Place(i, j) < Used(i + 1) /\ Place(i, j) \in Nat
      /\ Place(k, h) >= Used(k) /\ Place(k, h) < Used(k + 1)
  BY GenElements
<1>6. ~(i + 1 <= k) /\ ~(k + 1 <= i)
  <2>1. (i + 1 <= k => Used(i + 1) <= Used(k)) /\ (k + 1 <= i => Used(k + 1) <= Used(i))
    BY <1>2, UsedFacts
  <2> QED  BY <1>3, <1>4, <1>5, <2>1
<1>7. i = k
  BY <1>1, <1>6
<1>8. j \in Int /\ h \in Int
  BY UsedFacts
<1> QED  BY <1>3, <1>4, <1>7, <1>8 DEF Place

\* A set of numbers has a least one.
LessNat == {p \in Nat \X Nat : p[1] < p[2]}
LEMMA LeastNumber ==
    ASSUME NEW T, T \subseteq Nat, T # {}
    PROVE  \E c \in T : \A m \in T : ~(m < c)
<1>1. IsWellFoundedOn(LessNat, Nat)
  BY NatLessThanWellFounded DEF OpToRel, LessNat
<1>2. \E c \in T : \A m \in T : ~(<<m, c>> \in LessNat)
  BY <1>1, WFMin
<1>3. \A m, c \in Nat : <<m, c>> \in LessNat <=> m < c
  BY DEF LessNat
<1> QED  BY <1>2, <1>3

\* Every member but the leader is given out.
LEMMA GenComplete ==
    ASSUME NEW m \in Members \ {Root}
    PROVE  \E i \in Trees : \E j \in 2..Length(i) : GenTrees[i][j] = m
<1> DEFINE a == Offset(m)
           T == {i \in Trees : a < Used(i + 1)}
<1>1. N \in Nat /\ N >= 2 /\ NSubtrees \in Nat /\ NSubtrees >= 1 /\ Trees = 1..NSubtrees
  BY CommitteeAssumption, SplitFacts DEF Trees
<1>2. a \in Nat /\ a <= N - 2 /\ (Root + 1 + a) % N = m
  BY OffsetFacts
<1>3. NSubtrees \in T
  BY <1>1, <1>2, UsedFacts
<1> HIDE DEF a
<1>4. PICK i \in T : \A k \in T : ~(k < i)
  <2>1. T \subseteq Nat /\ T # {}
    BY <1>1, <1>3
  <2> HIDE DEF T
  <2> QED  BY <2>1, LeastNumber
<1>5. i \in Trees /\ i \in Nat /\ i >= 1 /\ i <= NSubtrees /\ a < Used(i + 1)
  BY <1>1, <1>4
<1>6. Used(i) <= a
  <2>1. CASE i = 1
    BY <1>2, <2>1, UsedFacts
  <2>2. CASE i # 1
    <3>1. i - 1 \in Trees /\ i - 1 < i /\ (i - 1) + 1 = i /\ i \in 1..(NSubtrees + 1)
      BY <1>1, <1>5, <2>2
    <3>2. i - 1 \notin T
      BY <1>4, <3>1
    <3>3. ~(a < Used(i))
      BY <3>1, <3>2
    <3>4. Used(i) \in Nat
      BY <3>1, UsedFacts
    <3> QED  BY <1>2, <3>3, <3>4
  <2> QED  BY <2>1, <2>2
<1> DEFINE j == (a - Used(i)) + 2
<1>7. /\ Used(i) \in Nat /\ Length(i) \in Nat /\ Used(i + 1) = (Used(i) + Length(i)) - 1
  BY <1>1, <1>5, UsedFacts
<1>8. j \in 2..Length(i)
  BY <1>2, <1>5, <1>6, <1>7
<1>9. Place(i, j) = a
  BY <1>2, <1>7 DEF Place
<1>10. Offset(GenTrees[i][j]) = a /\ GenTrees[i][j] \in Members \ {Root}
  BY <1>5, <1>8, <1>9, GenElements
<1>11. (Root + 1 + Offset(GenTrees[i][j])) % N = GenTrees[i][j]
  BY <1>10, OffsetFacts
<1>12. GenTrees[i][j] = m
  BY <1>2, <1>10, <1>11
<1> QED  BY <1>5, <1>8, <1>12

-----------------------------------------------------------------------------
(* Subtrees and their rotations.                                           *)

\* The members of a subtree besides the leader.
Below(nodes) == {nodes[j] : j \in 2..Len(nodes)}

\* A subtree has the members that genTrees has given to it, in any order.
Arranged(i, nodes) ==
    /\ nodes \in Seq(Members) /\ Len(nodes) = Length(i) /\ nodes[1] = Root
    /\ \A j, k \in 1..Len(nodes) : nodes[j] = nodes[k] => j = k
    /\ Below(nodes) = Below(GenTrees[i])

LEMMA GenArranged ==
    ASSUME NEW i \in Trees
    PROVE  Arranged(i, GenTrees[i])
<1>1. /\ GenTrees[i] \in Seq(Members) /\ Len(GenTrees[i]) = Length(i) /\ GenTrees[i][1] = Root
      /\ \A j \in 2..Length(i) : GenTrees[i][j] # Root
  BY GenElements
<1>2. ASSUME NEW j \in 1..Length(i), NEW k \in 1..Length(i), GenTrees[i][j] = GenTrees[i][k]
      PROVE  j = k
  <2>1. Length(i) \in Nat
    BY UsedFacts
  <2>2. (j = 1 \/ j \in 2..Length(i)) /\ (k = 1 \/ k \in 2..Length(i))
    BY <2>1
  <2>3. CASE j = 1 \/ k = 1
    BY <1>1, <1>2, <2>2, <2>3
  <2>4. CASE j \in 2..Length(i) /\ k \in 2..Length(i)
    BY <1>2, <2>4, GenDistinct
  <2> QED  BY <2>2, <2>3, <2>4
<1> QED  BY <1>1, <1>2 DEF Arranged

\* Subtrees of two numbers share no member, and together they hold all.
LEMMA BelowFacts ==
    /\ \A i \in Trees : Below(GenTrees[i]) \subseteq Members \ {Root}
    /\ \A i, k \in Trees : i # k => Below(GenTrees[i]) \cap Below(GenTrees[k]) = {}
    /\ \A m \in Members \ {Root} : \E i \in Trees : m \in Below(GenTrees[i])
<1>1. \A i \in Trees : Len(GenTrees[i]) = Length(i)
  BY GenElements
<1>2. \A i \in Trees : Below(GenTrees[i]) \subseteq Members \ {Root}
  BY <1>1, GenElements DEF Below
<1>3. ASSUME NEW i \in Trees, NEW k \in Trees, NEW m \in Below(GenTrees[i]) \cap Below(GenTrees[k])
      PROVE  i = k
  <2>1. PICK j \in 2..Length(i) : m = GenTrees[i][j]
    BY <1>1 DEF Below
  <2>2. PICK h \in 2..Length(k) : m = GenTrees[k][h]
    BY <1>1 DEF Below
  <2>3. GenTrees[i][j] = GenTrees[k][h]
    BY <2>1, <2>2
  <2> QED  BY <2>3, GenDistinct
<1>4. \A m \in Members \ {Root} : \E i \in Trees : m \in Below(GenTrees[i])
  BY <1>1, GenComplete DEF Below
<1> QED  BY <1>2, <1>3, <1>4

LEMMA ArrangedFacts ==
    ASSUME NEW i \in Trees, NEW nodes, Arranged(i, nodes)
    PROVE  /\ nodes \in Seq(Members) /\ Len(nodes) = Length(i) /\ Len(nodes) \in Nat
           /\ Len(nodes) >= 2 /\ Len(nodes) <= N
           /\ Subleader(nodes) \in Below(nodes) /\ Leaves(nodes) \subseteq Below(nodes)
           /\ Range(nodes) = {Root} \cup Below(nodes) /\ Root \notin Below(nodes)
           /\ Below(nodes) \subseteq Members
<1>1. /\ nodes \in Seq(Members) /\ Len(nodes) = Length(i) /\ nodes[1] = Root
      /\ Below(nodes) = Below(GenTrees[i])
  BY DEF Arranged
<1>2. Len(nodes) \in Nat /\ Len(nodes) >= 2
  BY <1>1, UsedFacts
<1>3. Len(nodes) <= N
  <2>1. /\ i \in 1..(NSubtrees + 1) /\ i + 1 \in 1..(NSubtrees + 1)
        /\ NSubtrees + 1 \in 1..(NSubtrees + 1) /\ i + 1 <= NSubtrees + 1
    BY SplitFacts DEF Trees
  <2>2. Used(i) \in Nat /\ Used(i + 1) \in Nat /\ Used(i + 1) <= N - 1
    BY <2>1, UsedFacts
  <2>3. Used(i + 1) = Used(i) + Length(i) - 1 /\ Length(i) \in Nat
    BY UsedFacts
  <2> QED  BY <1>1, <2>2, <2>3, CommitteeAssumption
<1>4. Subleader(nodes) \in Below(nodes) /\ Leaves(nodes) \subseteq Below(nodes)
  BY <1>2 DEF Subleader, Leaves, Below
<1>5. Range(nodes) = {Root} \cup Below(nodes)
  <2>1. Range(nodes) = {nodes[j] : j \in 1..Len(nodes)}
    BY <1>1 DEF Range
  <2>2. 1..Len(nodes) = {1} \cup 2..Len(nodes)
    BY <1>2
  <2> QED  BY <1>1, <2>1, <2>2 DEF Below
<1>6. Root \notin Below(nodes) /\ Below(nodes) \subseteq Members
  BY <1>1, BelowFacts
<1> QED  BY <1>1, <1>2, <1>3, <1>4, <1>5, <1>6

\* The tree of a list of nodes is unique.
LEMMA OneTree ==
    ASSUME NEW i \in Trees, NEW k \in Trees, NEW nodes, NEW other,
           Arranged(i, nodes), Arranged(k, other), i # k
    PROVE  Below(nodes) \cap Below(other) = {} /\ Subleader(nodes) # Subleader(other)
<1>1. Below(nodes) \cap Below(other) = {}
  BY BelowFacts DEF Arranged
<1> QED  BY <1>1, ArrangedFacts

\* What is where after a rotation.
LEMMA RotatedNodes ==
    ASSUME NEW S, NEW nodes \in Seq(S), Len(nodes) >= 2
    PROVE  /\ Rotated(nodes) \in Seq(S) /\ Len(Rotated(nodes)) = Len(nodes)
           /\ Rotated(nodes)[1] = nodes[1] /\ Rotated(nodes)[Len(nodes)] = nodes[2]
           /\ \A j \in 2..(Len(nodes) - 1) : Rotated(nodes)[j] = nodes[j + 1]
<1> DEFINE L == Len(nodes)
           mid == SubSeq(nodes, 3, L)
           left == <<nodes[1]>> \o mid
<1>1. L \in Nat /\ L >= 2 /\ nodes[1] \in S /\ nodes[2] \in S
  OBVIOUS
<1>2. /\ mid \in Seq(S) /\ Len(mid) = L - 2
      /\ \A j \in 1..(L - 2) : mid[j] = nodes[j + 2]
  <2>1. CASE L = 2
    BY <1>1, <2>1
  <2>2. CASE L >= 3
    BY <1>1, <2>2
  <2>3. L = 2 \/ L >= 3
    <3>1. \A h \in Nat : h >= 2 => h = 2 \/ h >= 3
      OBVIOUS
    <3> QED  BY <1>1, <3>1, Zenon
  <2> HIDE DEF mid
  <2> QED  BY <2>1, <2>2, <2>3
<1> HIDE DEF mid
<1>3. /\ left \in Seq(S) /\ Len(left) = L - 1 /\ left[1] = nodes[1]
      /\ \A j \in 2..(L - 1) : left[j] = nodes[j + 1]
  <2>1. <<nodes[1]>> \in Seq(S) /\ Len(<<nodes[1]>>) = 1 /\ <<nodes[1]>>[1] = nodes[1]
    BY <1>1
  <2>2. left \in Seq(S) /\ Len(left) = L - 1
    BY <1>1, <1>2, <2>1
  <2>3. left[1] = nodes[1]
    BY <1>1, <1>2, <2>1
  <2>4. ASSUME NEW j \in 2..(L - 1) PROVE left[j] = nodes[j + 1]
    <3>1. left[j] = mid[j - 1]
      BY <1>1, <1>2, <2>1
    <3>2. j - 1 \in 1..(L - 2) /\ (j - 1) + 2 = j + 1
      BY <1>1
    <3> QED  BY <1>2, <3>1, <3>2
  <2> QED  BY <2>2, <2>3, <2>4
<1>4. Rotated(nodes) = left \o <<nodes[2]>>
  BY DEF Rotated, mid
<1> HIDE DEF left
<1>5. <<nodes[2]>> \in Seq(S) /\ Len(<<nodes[2]>>) = 1 /\ <<nodes[2]>>[1] = nodes[2]
  BY <1>1
<1>6. Rotated(nodes) \in Seq(S) /\ Len(Rotated(nodes)) = L
  BY <1>1, <1>3, <1>4, <1>5
<1>7. \A j \in 1..(L - 1) : Rotated(nodes)[j] = left[j]
  BY <1>1, <1>3, <1>4, <1>5
<1>8. Rotated(nodes)[L] = nodes[2]
  BY <1>1, <1>3, <1>4, <1>5
<1>9. Rotated(nodes)[1] = nodes[1]
  BY <1>1, <1>3, <1>7
<1>10. \A j \in 2..(L - 1) : Rotated(nodes)[j] = nodes[j + 1]
  BY <1>1, <1>3, <1>7
<1> QED  BY <1>6, <1>8, <1>9, <1>10

LEMMA RotatedArranged ==
    ASSUME NEW i \in Trees, NEW nodes, Arranged(i, nodes)
    PROVE  Arranged(i, Rotated(nodes))
<1> DEFINE L == Len(nodes)
           R == Rotated(nodes)
<1>1. nodes \in Seq(Members) /\ L \in Nat /\ L >= 2 /\ L = Length(i) /\ nodes[1] = Root
  BY ArrangedFacts DEF Arranged
<1>2. /\ R \in Seq(Members) /\ Len(R) = L /\ R[1] = nodes[1] /\ R[L] = nodes[2]
      /\ \A j \in 2..(L - 1) : R[j] = nodes[j + 1]
  BY <1>1, RotatedNodes
\* where the j-th node comes from
<1> DEFINE from(j) == IF j = 1 THEN 1 ELSE IF j = L THEN 2 ELSE j + 1
<1>3. \A j \in 1..L : from(j) \in 1..L /\ R[j] = nodes[from(j)]
  BY <1>1, <1>2
<1>4. \A j, k \in 1..L : from(j) = from(k) => j = k
  BY <1>1
<1> HIDE DEF R
<1>5. \A j, k \in 1..L : nodes[j] = nodes[k] => j = k
  BY DEF Arranged
<1>6. \A j, k \in 1..L : R[j] = R[k] => j = k
  BY <1>3, <1>4, <1>5
<1>7. \A j \in 2..L : from(j) \in 2..L
  BY <1>1
<1>8. \A k \in 2..L : \E j \in 2..L : from(j) = k
  <2> TAKE k \in 2..L
  <2>1. CASE k = 2
    BY <1>1, <2>1
  <2>2. CASE k # 2
    <3>1. k - 1 \in 2..L /\ k - 1 # L /\ k - 1 # 1 /\ (k - 1) + 1 = k
      BY <1>1, <2>2
    <3> QED  BY <3>1
  <2> QED  BY <2>1, <2>2
<1> HIDE DEF from
<1>9. Below(R) = Below(nodes)
  <2>1. 2..L \subseteq 1..L
    BY <1>1
  <2>2. Below(R) = {R[j] : j \in 2..L} /\ Below(nodes) = {nodes[j] : j \in 2..L}
    BY <1>2 DEF Below
  <2>3. \A j \in 2..L : R[j] \in Below(nodes)
    BY <1>3, <1>7, <2>1, <2>2
  <2>4. \A k \in 2..L : nodes[k] \in Below(R)
    BY <1>3, <1>8, <2>1, <2>2
  <2> QED  BY <2>2, <2>3, <2>4
<1> QED  BY <1>1, <1>2, <1>6, <1>9 DEF Arranged, R

-----------------------------------------------------------------------------
(* The state without its numbers.                                          *)

SubRecord ==
    [nodes : Seq(Members), root : {"created", "announce", "wait", "over"},
     subleader : {"idle", "asked", "sent"}, heard : SUBSET Members,
     signal : {"none", "response", "timeout"}]
Goroutine == [at : {"none", "select", "rotated", "done"}, sub : 0..MaxSubs]

Types ==
    /\ does \in Profiles /\ round \in 0..Rounds
    /\ subTrees \in [Trees -> Seq(Members)]
    /\ subs \in Seq(SubRecord) /\ Len(subs) <= MaxSubs
    /\ collector \in [RoundNrs -> [Trees -> Goroutine]]
    /\ phase \in [RoundNrs -> {"idle", "starting", "collecting", "signed", "failed"}]
    /\ responses \in [RoundNrs -> SUBSET (1..MaxSubs)]
    /\ errors \in [RoundNrs -> SUBSET Trees]
    /\ DOMAIN responseMap = RoundNrs
    /\ signers \in [RoundNrs -> SUBSET Members]
    /\ tried \in [RoundNrs -> [Trees -> SUBSET Members]]
    /\ late \in [RoundNrs -> SUBSET Trees]

\* The tree of each number keeps its members.
TreesArranged == \A i \in Trees : Arranged(i, subTrees[i])

\* A sub-protocol works on one of the subtrees, hears its members only, and its
\* leader has ended before it signals anything.
SubSound(sub) ==
    /\ \E i \in Trees : Arranged(i, sub.nodes)
    /\ sub.heard \subseteq Below(sub.nodes)
    /\ sub.signal # "none" => sub.root = "over"
SubsSound == \A x \in 1..Len(subs) : SubSound(subs[x])

\* A goroutine watches a sub-protocol on its own subtree.
CollectorsSound ==
    \A r \in RoundNrs, i \in Trees :
        collector[r][i].at # "none" =>
            /\ collector[r][i].sub \in 1..Len(subs)
            /\ Arranged(i, subs[collector[r][i].sub].nodes)

\* Rounds are run one after the other.
InTurn ==
    \A r \in RoundNrs :
        /\ r < round => phase[r] = "signed"
        /\ r > round => phase[r] = "idle"
        /\ phase[r] \in {"idle", "starting"} => \A i \in Trees : collector[r][i].at = "none"

\* What the leader has got in a round came from goroutines that have ended with it.
Counts(r, x) == x \in responses[r] \/ \E m \in DOMAIN responseMap[r] : responseMap[r][m] = x
From(r, x, i) == collector[r][i].at = "done" /\ collector[r][i].sub = x
GotSound ==
    \A r \in RoundNrs : \A x : Counts(r, x) =>
        x \in 1..Len(subs) /\ subs[x].signal = "response" /\ \E i \in Trees : From(r, x, i)

\* Responses are entered under their subleaders.
KeysSound ==
    \A r \in RoundNrs : \A m \in DOMAIN responseMap[r] :
        m = Subleader(subs[responseMap[r][m]].nodes)

BaseInv ==
    /\ Types /\ TreesArranged /\ SubsSound /\ CollectorsSound /\ InTurn /\ GotSound /\ KeysSound

\* Sub-protocols are only added, and one that has answered does not change its answer.
Grows ==
    /\ Len(subs') >= Len(subs)
    /\ \A x \in 1..Len(subs) :
         /\ subs'[x].nodes = subs[x].nodes
         /\ subs[x].signal = "response" =>
              subs'[x].signal = "response" /\ subs'[x].heard = subs[x].heard

LEMMA InitBase == Init => BaseInv
<1> SUFFICES ASSUME Init PROVE BaseInv
  OBVIOUS
<1>1. Types
  <2>1. GenTrees \in [Trees -> Seq(Members)]
    <3>1. \A i \in Trees : GenTrees[i] \in Seq(Members)
      BY GenElements
    <3>2. GenTrees = [i \in Trees |-> GenTrees[i]]
      BY DEF GenTrees, Trees
    <3> QED  BY <3>1, <3>2
  <2>2. 0 \in 0..Rounds /\ 0 \in 0..MaxSubs /\ 0 <= MaxSubs
    BY CommitteeAssumption
  <2>3. collector \in [RoundNrs -> [Trees -> Goroutine]]
    BY <2>2 DEF Init, NoSub, Goroutine
  <2>4. subs \in Seq(SubRecord) /\ Len(subs) = 0
    BY DEF Init
  <2> QED  BY <2>1, <2>2, <2>3, <2>4 DEF Types, Init
<1>2. TreesArranged
  BY GenArranged DEF TreesArranged, Init
<1>3. Len(subs) = 0
  BY DEF Init
<1>4. SubsSound
  BY <1>3 DEF SubsSound
<1>5. CollectorsSound
  BY DEF CollectorsSound, Init
<1>6. InTurn
  BY DEF InTurn, Init, RoundNrs
<1>7. GotSound /\ KeysSound
  BY DEF GotSound, KeysSound, Counts, Init
<1> QED  BY <1>1, <1>2, <1>4, <1>5, <1>6, <1>7 DEF BaseInv

\* What a growing list of sub-protocols leaves in place.
LEMMA GrowsKeeps ==
    ASSUME BaseInv, Types', Grows, UNCHANGED <<collector, phase, responses, responseMap, round>>
    PROVE  CollectorsSound' /\ InTurn' /\ GotSound' /\ KeysSound'
<1>1. Len(subs) \in Nat /\ Len(subs') \in Nat /\ Len(subs') >= Len(subs)
  BY DEF BaseInv, Types, Grows
<1>2. \A x \in 1..Len(subs) : x \in 1..Len(subs') /\ subs'[x].nodes = subs[x].nodes
  BY <1>1 DEF Grows
<1>3. CollectorsSound'
  BY <1>2 DEF BaseInv, CollectorsSound
<1>4. InTurn'
  BY DEF BaseInv, InTurn
<1>5. GotSound'
  BY <1>2 DEF BaseInv, GotSound, Counts, From, Grows
<1>6. KeysSound'
  BY <1>2 DEF BaseInv, KeysSound, GotSound, Counts
<1> QED  BY <1>3, <1>4, <1>5, <1>6

\* A step of one sub-protocol.
LEMMA SubChanged ==
    ASSUME BaseInv, NEW x \in 1..Len(subs), NEW rec \in SubRecord,
           subs' = [subs EXCEPT ![x] = rec], rec.nodes = subs[x].nodes,
           rec.heard \subseteq Below(rec.nodes), rec.signal # "none" => rec.root = "over",
           subs[x].signal = "none",
           UNCHANGED <<does, round, subTrees, collector, phase, responses, errors, responseMap,
                       signers, tried, late>>
    PROVE  BaseInv' /\ Grows
<1>1. subs \in Seq(SubRecord) /\ Len(subs) \in Nat
  BY DEF BaseInv, Types
<1>2. /\ subs' \in Seq(SubRecord) /\ Len(subs') = Len(subs) /\ subs'[x] = rec
      /\ \A y \in 1..Len(subs) : y # x => subs'[y] = subs[y]
  BY <1>1
<1>3. Types'
  BY <1>2 DEF BaseInv, Types
<1>4. Grows
  BY <1>1, <1>2 DEF Grows
<1>5. TreesArranged'
  BY DEF BaseInv, TreesArranged
<1>6. SubsSound'
  <2>1. SubSound(rec)
    BY DEF BaseInv, SubsSound, SubSound
  <2>2. \A y \in 1..Len(subs) : SubSound(subs'[y])
    BY <1>2, <2>1 DEF BaseInv, SubsSound
  <2> QED  BY <1>2, <2>2 DEF SubsSound
<1> QED  BY <1>3, <1>4, <1>5, <1>6, GrowsKeeps DEF BaseInv

LEMMA SubStepBase ==
    ASSUME BaseInv, NEW x \in 1..Len(subs), SubStep(x)
    PROVE  BaseInv' /\ Grows
<1>1. subs \in Seq(SubRecord) /\ subs[x] \in SubRecord /\ SubSound(subs[x])
  BY DEF BaseInv, Types, SubsSound
<1>2. subs[x].root # "over" => subs[x].signal = "none"
  BY <1>1 DEF SubSound
<1>3. PICK i \in Trees : Arranged(i, subs[x].nodes)
  BY <1>1 DEF SubSound
<1>4. /\ Subleader(subs[x].nodes) \in Below(subs[x].nodes)
      /\ Leaves(subs[x].nodes) \subseteq Below(subs[x].nodes)
      /\ Below(subs[x].nodes) \subseteq Members
  BY <1>3, ArrangedFacts
<1>5. CASE Announce(x)
  <2> DEFINE rec == [subs[x] EXCEPT !.root = "wait"]
  <2>1. rec \in SubRecord /\ rec.nodes = subs[x].nodes /\ rec.heard = subs[x].heard
        /\ rec.signal = subs[x].signal
    BY <1>1 DEF SubRecord
  <2>2. subs' = [subs EXCEPT ![x] = rec]
    BY <1>1, <1>5 DEF Announce
  <2>3. subs[x].signal = "none" /\ subs[x].heard \subseteq Below(subs[x].nodes)
    BY <1>1, <1>2, <1>5 DEF Announce, SubSound
  <2> HIDE DEF rec
  <2> QED  BY <1>5, <2>1, <2>2, <2>3, SubChanged DEF Announce, history, mainVars
<1>6. CASE RootReceives(x)
  <2> DEFINE rec == [Stopped(subs[x]) EXCEPT !.signal = "response"]
  <2>1. rec \in SubRecord /\ rec.nodes = subs[x].nodes /\ rec.heard = subs[x].heard
        /\ rec.root = "over"
    BY <1>1 DEF SubRecord, Stopped
  <2>2. subs' = [subs EXCEPT ![x] = rec]
    BY <1>1, <1>6 DEF RootReceives
  <2>3. subs[x].signal = "none" /\ subs[x].heard \subseteq Below(subs[x].nodes)
    BY <1>1, <1>2, <1>6 DEF RootReceives, SubSound
  <2> HIDE DEF rec
  <2> QED  BY <1>6, <2>1, <2>2, <2>3, SubChanged DEF RootReceives, history, mainVars
<1>7. CASE RootTimesOut(x)
  <2> DEFINE rec == [Stopped(subs[x]) EXCEPT !.signal = "timeout"]
  <2>1. rec \in SubRecord /\ rec.nodes = subs[x].nodes /\ rec.heard = subs[x].heard
        /\ rec.root = "over"
    BY <1>1 DEF SubRecord, Stopped
  <2>2. subs' = [subs EXCEPT ![x] = rec]
    BY <1>1, <1>7 DEF RootTimesOut
  <2>3. subs[x].signal = "none" /\ subs[x].heard \subseteq Below(subs[x].nodes)
    BY <1>1, <1>2, <1>7 DEF RootTimesOut, SubSound
  <2> HIDE DEF rec
  <2> QED  BY <1>7, <2>1, <2>2, <2>3, SubChanged DEF RootTimesOut, history, mainVars
<1>8. CASE SubleaderAsks(x)
  <2> DEFINE rec == [subs[x] EXCEPT !.subleader = "asked", !.heard = {Subleader(subs[x].nodes)}]
  <2>1. rec \in SubRecord /\ rec.nodes = subs[x].nodes /\ rec.signal = subs[x].signal
        /\ rec.heard = {Subleader(subs[x].nodes)}
    BY <1>1, <1>4 DEF SubRecord
  <2>2. subs' = [subs EXCEPT ![x] = rec]
    BY <1>1, <1>8 DEF SubleaderAsks
  <2>3. subs[x].signal = "none" /\ {Subleader(subs[x].nodes)} \subseteq Below(subs[x].nodes)
    BY <1>2, <1>4, <1>8 DEF SubleaderAsks, Announced
  <2> HIDE DEF rec
  <2> QED  BY <1>8, <2>1, <2>2, <2>3, SubChanged DEF SubleaderAsks, history, mainVars
<1>9. CASE SubleaderReplies(x)
  <2> DEFINE rec == [subs[x] EXCEPT !.subleader = "sent"]
  <2>1. rec \in SubRecord /\ rec.nodes = subs[x].nodes /\ rec.heard = subs[x].heard
        /\ rec.signal = subs[x].signal
    BY <1>1 DEF SubRecord
  <2>2. subs' = [subs EXCEPT ![x] = rec]
    BY <1>1, <1>9 DEF SubleaderReplies
  <2>3. subs[x].signal = "none" /\ subs[x].heard \subseteq Below(subs[x].nodes)
    BY <1>1, <1>2, <1>9 DEF SubleaderReplies, Announced, SubSound
  <2> HIDE DEF rec
  <2> QED  BY <1>9, <2>1, <2>2, <2>3, SubChanged DEF SubleaderReplies, history, mainVars
<1>10. ASSUME NEW m \in Members, LeafAnswers(x, m) PROVE BaseInv' /\ Grows
  <2> DEFINE rec == [subs[x] EXCEPT !.heard = subs[x].heard \cup {m}]
  <2>1. rec \in SubRecord /\ rec.nodes = subs[x].nodes /\ rec.heard = subs[x].heard \cup {m}
        /\ rec.signal = subs[x].signal
    BY <1>1 DEF SubRecord
  <2>2. subs' = [subs EXCEPT ![x] = rec]
    BY <1>1, <1>10 DEF LeafAnswers
  <2>3. subs[x].signal = "none" /\ subs[x].heard \cup {m} \subseteq Below(subs[x].nodes)
    BY <1>1, <1>2, <1>4, <1>10 DEF LeafAnswers, Announced, SubSound
  <2> HIDE DEF rec
  <2> QED  BY <1>10, <2>1, <2>2, <2>3, SubChanged DEF LeafAnswers, history, mainVars
<1> QED  BY <1>5, <1>6, <1>7, <1>8, <1>9, <1>10 DEF SubStep

LEMMA UnchangedSubsGrow ==
    ASSUME BaseInv, UNCHANGED subs
    PROVE  Grows
<1>1. Len(subs) \in Nat
  BY DEF BaseInv, Types
<1> QED  BY <1>1 DEF Grows

\* A goroutine of collectSignatures goes on without a new sub-protocol.
LEMMA CollectorMoves ==
    ASSUME BaseInv, NEW r \in RoundNrs, NEW i \in Trees, NEW p \in {"rotated", "done"},
           Waiting(r, i), CollectorTo(r, i, p),
           UNCHANGED <<round, subs, phase, responseMap>>,
           \/ UNCHANGED responses
           \/ /\ p = "done" /\ Signal(r, i) = "response"
              /\ responses' = [responses EXCEPT ![r] = @ \cup {collector[r][i].sub}]
    PROVE  /\ collector' \in [RoundNrs -> [Trees -> Goroutine]]
           /\ responses' \in [RoundNrs -> SUBSET (1..MaxSubs)]
           /\ CollectorsSound' /\ InTurn' /\ GotSound' /\ KeysSound' /\ SubsSound'
<1>1. /\ collector \in [RoundNrs -> [Trees -> Goroutine]] /\ collector[r][i] \in Goroutine
      /\ responses \in [RoundNrs -> SUBSET (1..MaxSubs)] /\ Len(subs) \in Nat /\ Len(subs) <= MaxSubs
      /\ MaxSubs \in Nat
  BY CommitteeAssumption DEF BaseInv, Types
<1>2. /\ collector[r][i].at = "select"
      /\ collector' = [collector EXCEPT ![r] = [collector[r] EXCEPT ![i] =
                         [collector[r][i] EXCEPT !.at = p]]]
  BY <1>1 DEF Waiting, CollectorTo
<1>3. /\ collector' \in [RoundNrs -> [Trees -> Goroutine]]
      /\ collector'[r][i].at = p /\ collector'[r][i].sub = collector[r][i].sub
      /\ \A q \in RoundNrs, k \in Trees :
           q # r \/ k # i => collector'[q][k] = collector[q][k]
  BY <1>1, <1>2 DEF Goroutine
<1>4. collector[r][i].sub \in 1..Len(subs)
  BY <1>2 DEF BaseInv, CollectorsSound
<1>5. responses' \in [RoundNrs -> SUBSET (1..MaxSubs)]
  BY <1>1, <1>4
<1>6. CollectorsSound'
  BY <1>2, <1>3 DEF BaseInv, CollectorsSound
<1>7. InTurn'
  BY <1>2, <1>3 DEF BaseInv, InTurn
<1>8. GotSound'
  <2> SUFFICES ASSUME NEW q \in RoundNrs, NEW x, Counts(q, x)'
               PROVE  x \in 1..Len(subs) /\ subs[x].signal = "response" /\ \E k \in Trees : From(q, x, k)'
    BY DEF GotSound
  <2>1. CASE Counts(q, x)
    <3>1. PICK k \in Trees : From(q, x, k)
      BY <2>1 DEF BaseInv, GotSound
    <3>2. From(q, x, k)'
      BY <1>2, <1>3, <3>1 DEF From
    <3> QED  BY <2>1, <3>2 DEF BaseInv, GotSound
  <2>2. CASE ~Counts(q, x)
    <3>1. q = r /\ x = collector[r][i].sub /\ p = "done" /\ Signal(r, i) = "response"
      BY <1>1, <2>2 DEF Counts
    <3>2. From(r, x, i)'
      BY <1>3, <3>1 DEF From
    <3> QED  BY <1>4, <3>1, <3>2 DEF Signal
  <2> QED  BY <2>1, <2>2
<1>9. KeysSound' /\ SubsSound'
  BY DEF BaseInv, KeysSound, SubsSound
<1> QED  BY <1>3, <1>5, <1>6, <1>7, <1>8, <1>9

\* A goroutine runs only when its round has begun.
LEMMA RunningRound ==
    ASSUME BaseInv, NEW r \in RoundNrs, NEW i \in Trees, collector[r][i].at # "none"
    PROVE  round \in RoundNrs /\ r <= round
<1>1. round \in 0..Rounds /\ r \in 1..Rounds /\ Rounds \in Nat
  BY CommitteeAssumption DEF BaseInv, Types, RoundNrs
<1>2. ~(r > round)
  BY DEF BaseInv, InTurn
<1> QED  BY <1>1, <1>2 DEF RoundNrs

LEMMA CollectorEndsBase ==
    ASSUME BaseInv, NEW r \in RoundNrs, NEW i \in Trees, CollectorEnds(r, i)
    PROVE  BaseInv' /\ Grows
<1>1. /\ collector' \in [RoundNrs -> [Trees -> Goroutine]]
      /\ CollectorsSound' /\ InTurn' /\ GotSound' /\ KeysSound' /\ SubsSound'
  BY CollectorMoves DEF CollectorEnds, mainVars, history
<1>2. TreesArranged'
  BY DEF CollectorEnds, BaseInv, TreesArranged
<1>3. Types'
  BY <1>1 DEF CollectorEnds, BaseInv, Types, mainVars, history
<1> QED  BY <1>1, <1>2, <1>3, UnchangedSubsGrow DEF BaseInv, CollectorEnds

LEMMA CollectorForwardsBase ==
    ASSUME BaseInv, NEW r \in RoundNrs, NEW i \in Trees, CollectorForwards(r, i)
    PROVE  BaseInv' /\ Grows
<1>1. /\ collector' \in [RoundNrs -> [Trees -> Goroutine]]
      /\ responses' \in [RoundNrs -> SUBSET (1..MaxSubs)]
      /\ CollectorsSound' /\ InTurn' /\ GotSound' /\ KeysSound' /\ SubsSound'
  BY CollectorMoves DEF CollectorForwards, mainVars, history
<1>2. TreesArranged'
  BY DEF CollectorForwards, BaseInv, TreesArranged
<1>3. Types'
  BY <1>1 DEF CollectorForwards, BaseInv, Types, mainVars, history
<1> QED  BY <1>1, <1>2, <1>3, UnchangedSubsGrow DEF BaseInv, CollectorForwards

LEMMA CollectorRotatesBase ==
    ASSUME BaseInv, NEW r \in RoundNrs, NEW i \in Trees, CollectorRotates(r, i)
    PROVE  BaseInv' /\ Grows
<1>1. /\ collector' \in [RoundNrs -> [Trees -> Goroutine]]
      /\ CollectorsSound' /\ InTurn' /\ GotSound' /\ KeysSound' /\ SubsSound'
  BY CollectorMoves DEF CollectorRotates, mainVars
<1>2. subTrees \in [Trees -> Seq(Members)] /\ Arranged(i, subTrees[i])
  BY DEF BaseInv, Types, TreesArranged
<1>3. Arranged(i, Rotated(subTrees[i])) /\ Rotated(subTrees[i]) \in Seq(Members)
  BY <1>2, RotatedArranged DEF Arranged
<1>4. subTrees' \in [Trees -> Seq(Members)] /\ TreesArranged'
  BY <1>2, <1>3 DEF CollectorRotates, BaseInv, TreesArranged
<1>5. late' \in [RoundNrs -> SUBSET Trees] /\ errors' \in [RoundNrs -> SUBSET Trees]
  <2>1. round \in RoundNrs
    BY RunningRound DEF CollectorRotates, Waiting
  <2>2. late \in [RoundNrs -> SUBSET Trees] /\ errors \in [RoundNrs -> SUBSET Trees]
    BY DEF BaseInv, Types
  <2> QED  BY <2>1, <2>2 DEF CollectorRotates
<1>6. Types'
  BY <1>1, <1>4, <1>5 DEF CollectorRotates, BaseInv, Types, mainVars
<1> QED  BY <1>1, <1>4, <1>6, UnchangedSubsGrow DEF BaseInv, CollectorRotates

\* A sub-protocol that has just been started.
LEMMA StartedSub ==
    ASSUME NEW i \in Trees, NEW nodes, Arranged(i, nodes)
    PROVE  /\ StartSubProtocol(nodes) \in SubRecord /\ SubSound(StartSubProtocol(nodes))
           /\ StartSubProtocol(nodes).nodes = nodes
<1>1. nodes \in Seq(Members) /\ Len(nodes) \in Nat /\ Len(nodes) >= 2
  BY ArrangedFacts
<1>2. /\ NewSub(nodes) \in SubRecord /\ NewSub(nodes).nodes = nodes
      /\ NewSub(nodes).heard = {} /\ NewSub(nodes).signal = "none"
  BY <1>1 DEF NewSub, SubRecord
<1>3. CheckSubIntegrity(Len(nodes), Len(nodes) - 1)
  BY <1>1 DEF CheckSubIntegrity
<1>4. StartSubProtocol(nodes) = [NewSub(nodes) EXCEPT !.root = "announce"]
  BY <1>2, <1>3 DEF StartSubProtocol, StartSub
<1>5. /\ StartSubProtocol(nodes) \in SubRecord /\ StartSubProtocol(nodes).nodes = nodes
      /\ StartSubProtocol(nodes).heard = {} /\ StartSubProtocol(nodes).signal = "none"
  BY <1>2, <1>4 DEF SubRecord
<1> QED  BY <1>5 DEF SubSound

LEMMA CollectorRestartsBase ==
    ASSUME BaseInv, NEW r \in RoundNrs, NEW i \in Trees, CollectorRestarts(r, i)
    PROVE  BaseInv' /\ Grows
<1> DEFINE s == collector[r][i].sub
           stopped == [subs EXCEPT ![s] = Stopped(@)]
           fresh == StartSubProtocol(subTrees[i])
<1>1. /\ subs \in Seq(SubRecord) /\ Len(subs) \in Nat /\ Len(subs) < MaxSubs /\ MaxSubs \in Nat
      /\ collector \in [RoundNrs -> [Trees -> Goroutine]] /\ subTrees \in [Trees -> Seq(Members)]
      /\ collector[r][i].at = "rotated"
  BY CommitteeAssumption DEF BaseInv, Types, CollectorRestarts
<1>2. s \in 1..Len(subs) /\ SubSound(subs[s]) /\ subs[s] \in SubRecord
  BY <1>1 DEF BaseInv, CollectorsSound, SubsSound
<1>3. Arranged(i, subTrees[i])
  BY DEF BaseInv, TreesArranged
<1>4. fresh \in SubRecord /\ SubSound(fresh) /\ fresh.nodes = subTrees[i]
  BY <1>3, StartedSub
<1>5. /\ Stopped(subs[s]) \in SubRecord /\ SubSound(Stopped(subs[s]))
      /\ Stopped(subs[s]).nodes = subs[s].nodes /\ Stopped(subs[s]).heard = subs[s].heard
      /\ Stopped(subs[s]).signal = subs[s].signal
  BY <1>2 DEF Stopped, SubSound, SubRecord
<1>6. /\ stopped \in Seq(SubRecord) /\ Len(stopped) = Len(subs) /\ stopped[s] = Stopped(subs[s])
      /\ \A y \in 1..Len(subs) : y # s => stopped[y] = subs[y]
  BY <1>1, <1>2, <1>5
<1>7. subs' = Append(stopped, fresh)
  BY DEF CollectorRestarts
<1> HIDE DEF stopped, fresh, s
<1>8. /\ subs' \in Seq(SubRecord) /\ Len(subs') = Len(subs) + 1 /\ subs'[Len(subs) + 1] = fresh
      /\ \A y \in 1..Len(subs) : subs'[y] = stopped[y]
  BY <1>1, <1>4, <1>6, <1>7
<1>9. \A y \in 1..Len(subs) : y \in 1..Len(subs') /\ subs'[y].nodes = subs[y].nodes
  BY <1>1, <1>5, <1>6, <1>8
<1>10. Grows
  BY <1>1, <1>5, <1>6, <1>8 DEF Grows
<1>11. SubsSound'
  <2>1. \A y \in 1..(Len(subs) + 1) : SubSound(subs'[y])
    <3> TAKE y \in 1..(Len(subs) + 1)
    <3>1. y = Len(subs) + 1 \/ y \in 1..Len(subs)
      BY <1>1
    <3> QED  BY <1>4, <1>5, <1>6, <1>8, <3>1 DEF BaseInv, SubsSound
  <2> QED  BY <1>8, <2>1 DEF SubsSound
<1>12. /\ collector' \in [RoundNrs -> [Trees -> Goroutine]]
       /\ collector'[r][i].at = "select" /\ collector'[r][i].sub = Len(subs) + 1
       /\ \A q \in RoundNrs, k \in Trees :
            q # r \/ k # i => collector'[q][k] = collector[q][k]
  <2>1. collector' = [collector EXCEPT ![r] = [collector[r] EXCEPT ![i] =
                        [at |-> "select", sub |-> Len(subs) + 1]]]
    BY <1>1 DEF CollectorRestarts
  <2>2. [at |-> "select", sub |-> Len(subs) + 1] \in Goroutine
    BY <1>1 DEF Goroutine
  <2> QED  BY <1>1, <2>1, <2>2
<1>13. CollectorsSound'
  <2> SUFFICES ASSUME NEW q \in RoundNrs, NEW k \in Trees, collector'[q][k].at # "none"
               PROVE  /\ collector'[q][k].sub \in 1..Len(subs')
                      /\ Arranged(k, subs'[collector'[q][k].sub].nodes)
    BY DEF CollectorsSound
  <2>1. CASE q = r /\ k = i
    BY <1>1, <1>3, <1>4, <1>8, <1>12, <2>1
  <2>2. CASE q # r \/ k # i
    BY <1>9, <1>12, <2>2 DEF BaseInv, CollectorsSound
  <2> QED  BY <2>1, <2>2
<1>14. InTurn'
  BY <1>1, <1>12 DEF BaseInv, InTurn, CollectorRestarts, mainVars
<1>15. GotSound'
  <2> SUFFICES ASSUME NEW q \in RoundNrs, NEW x, Counts(q, x)'
               PROVE  /\ x \in 1..Len(subs') /\ subs'[x].signal = "response"
                      /\ \E k \in Trees : From(q, x, k)'
    BY DEF GotSound
  <2>1. Counts(q, x)
    BY DEF Counts, CollectorRestarts, mainVars
  <2>2. PICK k \in Trees : From(q, x, k)
    BY <2>1 DEF BaseInv, GotSound
  <2>3. From(q, x, k)'
    BY <1>1, <1>12, <2>2 DEF From
  <2>4. x \in 1..Len(subs) /\ subs[x].signal = "response"
    BY <2>1 DEF BaseInv, GotSound
  <2> QED  BY <1>9, <1>10, <2>3, <2>4 DEF Grows
<1>16. KeysSound'
  <2>1. \A q \in RoundNrs : \A m \in DOMAIN responseMap[q] : responseMap[q][m] \in 1..Len(subs)
    BY DEF BaseInv, GotSound, Counts
  <2> QED  BY <1>9, <2>1 DEF BaseInv, KeysSound, CollectorRestarts, mainVars
<1>17. TreesArranged'
  BY DEF CollectorRestarts, BaseInv, TreesArranged
<1>18. tried' \in [RoundNrs -> [Trees -> SUBSET Members]]
  <2>1. Subleader(subTrees[i]) \in Members
    BY <1>3, ArrangedFacts
  <2> QED  BY <2>1 DEF CollectorRestarts, BaseInv, Types
<1>19. Types'
  BY <1>1, <1>8, <1>12, <1>18 DEF CollectorRestarts, BaseInv, Types, mainVars
<1> QED  BY <1>10, <1>11, <1>13, <1>14, <1>15, <1>16, <1>17, <1>19 DEF BaseInv

LEMMA PreNewRoundBase ==
    ASSUME BaseInv, PreNewRound
    PROVE  BaseInv' /\ Grows
<1>1. /\ round \in Nat /\ round < Rounds /\ Rounds \in Nat /\ round + 1 \in RoundNrs
      /\ phase \in [RoundNrs -> {"idle", "starting", "collecting", "signed", "failed"}]
  BY CommitteeAssumption DEF BaseInv, Types, PreNewRound, RoundNrs
<1>2. GenTrees \in [Trees -> Seq(Members)]
  <2>1. \A i \in Trees : GenTrees[i] \in Seq(Members)
    BY GenElements
  <2>2. GenTrees = [i \in Trees |-> GenTrees[i]]
    BY DEF GenTrees, Trees
  <2> QED  BY <2>1, <2>2
<1>3. TreesArranged'
  BY GenArranged DEF PreNewRound, TreesArranged
<1>4. Types'
  BY <1>1, <1>2 DEF PreNewRound, BaseInv, Types, history
<1>5. InTurn'
  <2> SUFFICES ASSUME NEW r \in RoundNrs
               PROVE  /\ r < round + 1 => phase'[r] = "signed"
                      /\ r > round + 1 => phase'[r] = "idle"
                      /\ phase'[r] \in {"idle", "starting"} => \A i \in Trees : collector[r][i].at = "none"
    BY DEF InTurn, PreNewRound
  <2>1. r \in Nat /\ r >= 1
    BY DEF RoundNrs
  <2>2. phase[round + 1] = "idle"
    BY <1>1 DEF BaseInv, InTurn
  <2>3. CASE r = round + 1
    BY <1>1, <2>2, <2>3 DEF BaseInv, InTurn, PreNewRound
  <2>4. CASE r # round + 1
    <3>1. phase'[r] = phase[r]
      BY <1>1, <2>4 DEF PreNewRound
    <3>2. r < round + 1 => phase[r] = "signed"
      <4>1. CASE r = round
        BY <1>1, <2>1, <4>1 DEF PreNewRound
      <4>2. CASE r # round
        BY <1>1, <2>1, <4>2 DEF BaseInv, InTurn
      <4> QED  BY <4>1, <4>2
    <3> QED  BY <1>1, <2>1, <3>1, <3>2 DEF BaseInv, InTurn
  <2> QED  BY <2>3, <2>4
<1>6. SubsSound' /\ CollectorsSound' /\ GotSound' /\ KeysSound'
  BY DEF PreNewRound, BaseInv, SubsSound, CollectorsSound, GotSound, KeysSound, Counts, From
<1> QED  BY <1>3, <1>4, <1>5, <1>6, UnchangedSubsGrow DEF BaseInv, PreNewRound

LEMMA EndBase ==
    ASSUME BaseInv, TakeError \/ TimeOut
    PROVE  BaseInv' /\ Grows
<1>1. /\ phase' = [phase EXCEPT ![round] = "failed"] /\ round \in RoundNrs
      /\ phase[round] = "collecting"
      /\ UNCHANGED <<does, round, subTrees, subs, collector, responses, errors, tried, late,
                     responseMap, signers>>
  BY CommitteeAssumption DEF TakeError, TimeOut, BaseInv, Types, RoundNrs, history
<1>2. Types' /\ TreesArranged' /\ SubsSound' /\ CollectorsSound' /\ GotSound' /\ KeysSound'
  BY <1>1 DEF BaseInv, Types, TreesArranged, SubsSound, CollectorsSound, GotSound, KeysSound,
              Counts, From
<1>3. InTurn'
  <2>1. \A r \in RoundNrs : r < round \/ r > round => phase'[r] = phase[r]
    BY <1>1 DEF BaseInv, Types
  <2>2. phase'[round] = "failed" /\ round \in Int
    BY <1>1 DEF BaseInv, Types, RoundNrs
  <2>3. \A r \in RoundNrs : r # round => phase'[r] = phase[r]
    BY <1>1 DEF BaseInv, Types
  <2> QED  BY <1>1, <2>1, <2>2, <2>3 DEF BaseInv, InTurn
<1> QED  BY <1>1, <1>2, <1>3, UnchangedSubsGrow DEF BaseInv

\* The new entry of the response map, if there is one.
LEMMA CountedMap ==
    ASSUME NEW x
    PROVE  LET sl == Subleader(subs[x].nodes)
               map == responseMap[round]
               new == Counted(x).map
           IN  /\ sl \in DOMAIN map => new = map
               /\ sl \notin DOMAIN map =>
                    /\ DOMAIN new = DOMAIN map \cup {sl} /\ new[sl] = x
                    /\ \A m \in DOMAIN map : new[m] = map[m]
BY DEF Counted, Entered

LEMMA MaskMembers ==
    ASSUME BaseInv, NEW x \in 1..Len(subs)
    PROVE  /\ Mask(x) \subseteq Below(subs[x].nodes) /\ Mask(x) \subseteq Members /\ Root \notin Mask(x)
           /\ \A m \in Mask(x) : does[m] = "signs"
           /\ IsFiniteSet(Mask(x)) /\ Cardinality(Mask(x)) \in Nat
<1>1. Mask(x) \subseteq subs[x].heard /\ \A m \in Mask(x) : does[m] = "signs"
  BY DEF Mask, Answer
<1>2. PICK i \in Trees : Arranged(i, subs[x].nodes)
  BY DEF BaseInv, SubsSound, SubSound
<1>3. Mask(x) \subseteq Below(subs[x].nodes)
  BY <1>1 DEF BaseInv, SubsSound, SubSound
<1>4. Below(subs[x].nodes) \subseteq Members /\ Root \notin Below(subs[x].nodes)
  BY <1>2, ArrangedFacts
<1>5. IsFiniteSet(Members)
  BY CommitteeAssumption, FS_Interval DEF Members
<1>6. IsFiniteSet(Mask(x))
  BY <1>3, <1>4, <1>5, FS_Subset
<1> QED  BY <1>1, <1>3, <1>4, <1>6, FS_CardinalityType

LEMMA TakeResponseBase ==
    ASSUME BaseInv, TakeResponse
    PROVE  BaseInv' /\ Grows
<1>1. /\ round \in RoundNrs /\ phase[round] = "collecting" /\ round \in Int
      /\ DOMAIN responseMap = RoundNrs
      /\ phase \in [RoundNrs -> {"idle", "starting", "collecting", "signed", "failed"}]
      /\ responses \in [RoundNrs -> SUBSET (1..MaxSubs)] /\ signers \in [RoundNrs -> SUBSET Members]
  BY CommitteeAssumption DEF TakeResponse, BaseInv, Types, RoundNrs
<1>2. PICK x \in responses[round] :
        /\ responses' = [responses EXCEPT ![round] = @ \ {x}]
        /\ responseMap' = [responseMap EXCEPT ![round] = Counted(x).map]
        /\ \/ /\ phase' = [phase EXCEPT ![round] = "failed"]
              /\ UNCHANGED signers
           \/ /\ phase' = [phase EXCEPT ![round] = "signed"]
              /\ signers' = [signers EXCEPT ![round] = GenerateSignature(Counted(x).map)]
           \/ UNCHANGED <<phase, signers>>
  BY DEF TakeResponse
<1>3. UNCHANGED <<does, round, subTrees, subs, collector, errors, tried, late>>
  BY DEF TakeResponse, history
<1> DEFINE sl == Subleader(subs[x].nodes)
           map == responseMap[round]
           new == Counted(x).map
<1>4. /\ sl \in DOMAIN map => new = map
      /\ sl \notin DOMAIN map =>
           /\ DOMAIN new = DOMAIN map \cup {sl} /\ new[sl] = x
           /\ \A m \in DOMAIN map : new[m] = map[m]
  BY CountedMap
<1> HIDE DEF new
<1>5. \A m \in DOMAIN new : \/ m \in DOMAIN map /\ new[m] = map[m]
                            \/ m = sl /\ new[m] = x
  BY <1>4
<1>6. /\ responseMap'[round] = new /\ DOMAIN responseMap' = RoundNrs
      /\ \A r \in RoundNrs : r # round => responseMap'[r] = responseMap[r]
  BY <1>1, <1>2 DEF new
<1>7. Counts(round, x) /\ x \in 1..Len(subs)
  BY <1>1, <1>2 DEF Counts, BaseInv, GotSound
<1>8. ASSUME NEW r \in RoundNrs, NEW y, Counts(r, y)' PROVE Counts(r, y)
  <2>1. CASE r = round
    BY <1>1, <1>2, <1>5, <1>6, <1>7, <1>8, <2>1 DEF Counts
  <2>2. CASE r # round
    BY <1>1, <1>2, <1>6, <1>8, <2>2 DEF Counts
  <2> QED  BY <2>1, <2>2
<1>9. GotSound'
  BY <1>3, <1>8 DEF BaseInv, GotSound, From
<1>10. KeysSound'
  BY <1>3, <1>5, <1>6 DEF BaseInv, KeysSound
<1>11. InTurn'
  <2>1. /\ \A r \in RoundNrs : r # round => phase'[r] = phase[r]
        /\ phase'[round] \in {"collecting", "signed", "failed"}
    BY <1>1, <1>2
  <2> QED  BY <1>1, <1>3, <2>1 DEF BaseInv, InTurn
<1>12. GenerateSignature(new) \subseteq Members
  <2>1. \A m \in DOMAIN new : new[m] \in 1..Len(subs)
    BY <1>1, <1>5, <1>7 DEF BaseInv, GotSound, Counts
  <2>2. \A m \in DOMAIN new : Mask(new[m]) \subseteq Members
    BY <2>1, MaskMembers
  <2> QED  BY <2>2, CommitteeAssumption DEF GenerateSignature, Aggregated
<1>13. Types'
  <2>1. signers' \in [RoundNrs -> SUBSET Members]
    BY <1>1, <1>2, <1>12 DEF new
  <2>2. phase' \in [RoundNrs -> {"idle", "starting", "collecting", "signed", "failed"}]
    BY <1>1, <1>2
  <2>3. responses' \in [RoundNrs -> SUBSET (1..MaxSubs)]
    BY <1>1, <1>2
  <2> QED  BY <1>3, <1>6, <2>1, <2>2, <2>3 DEF BaseInv, Types
<1>14. TreesArranged' /\ SubsSound' /\ CollectorsSound'
  BY <1>3 DEF BaseInv, TreesArranged, SubsSound, CollectorsSound
<1> QED  BY <1>3, <1>9, <1>10, <1>11, <1>13, <1>14, UnchangedSubsGrow DEF BaseInv

LEMMA RunSubProtocolsBase ==
    ASSUME BaseInv, RunSubProtocols
    PROVE  BaseInv' /\ Grows
<1> DEFINE K == NSubtrees
           new == [i \in Trees |-> StartSubProtocol(subTrees[i])]
<1>1. /\ round \in RoundNrs /\ phase[round] = "starting" /\ round \in Int
      /\ Len(subs) \in Nat /\ Len(subs) + K <= MaxSubs /\ MaxSubs \in Nat
      /\ subs \in Seq(SubRecord)
      /\ DOMAIN responseMap = RoundNrs
      /\ phase \in [RoundNrs -> {"idle", "starting", "collecting", "signed", "failed"}]
      /\ signers \in [RoundNrs -> SUBSET Members]
      /\ collector \in [RoundNrs -> [Trees -> Goroutine]]
  BY CommitteeAssumption DEF RunSubProtocols, BaseInv, Types, RoundNrs
<1>2. UNCHANGED <<does, round, subTrees, responses, errors, late, responseMap>>
  BY DEF RunSubProtocols
<1>3. \A i \in Trees : Arranged(i, subTrees[i])
  BY DEF BaseInv, TreesArranged
<1>4. K \in Nat /\ Trees = 1..K
  BY SplitFacts DEF Trees
<1>5. \A i \in Trees : /\ new[i] \in SubRecord /\ SubSound(new[i]) /\ new[i].nodes = subTrees[i]
  BY <1>3, StartedSub
<1>6. new \in Seq(SubRecord) /\ Len(new) = K
  BY <1>4, <1>5
<1>7. subs' = subs \o new
  BY DEF RunSubProtocols
<1> HIDE DEF new, K
<1>8. /\ subs' \in Seq(SubRecord) /\ Len(subs') = Len(subs) + K
      /\ \A x \in 1..Len(subs) : subs'[x] = subs[x]
      /\ \A i \in 1..K : subs'[Len(subs) + i] = new[i]
  BY <1>1, <1>4, <1>6, <1>7
<1>9. \A x \in 1..Len(subs) : x \in 1..Len(subs')
  BY <1>1, <1>4, <1>8
<1>10. Grows
  BY <1>1, <1>4, <1>8 DEF Grows
<1>11. SubsSound'
  <2>1. ASSUME NEW x \in 1..(Len(subs) + K) PROVE SubSound(subs'[x])
    <3>1. CASE x \in 1..Len(subs)
      BY <1>8, <3>1 DEF BaseInv, SubsSound
    <3>2. CASE x \notin 1..Len(subs)
      <4>1. x - Len(subs) \in 1..K /\ Len(subs) + (x - Len(subs)) = x
        BY <1>1, <1>4, <3>2
      <4>2. subs'[x] = new[x - Len(subs)]
        BY <1>8, <4>1
      <4> QED  BY <1>4, <1>5, <4>1, <4>2
    <3> QED  BY <3>1, <3>2
  <2> QED  BY <1>8, <2>1 DEF SubsSound
<1>12. /\ collector' \in [RoundNrs -> [Trees -> Goroutine]]
       /\ \A i \in Trees : /\ collector'[round][i].at = "select"
                           /\ collector'[round][i].sub = Len(subs) + i
       /\ \A r \in RoundNrs : r # round => collector'[r] = collector[r]
  <2>1. collector' = [collector EXCEPT ![round] = Collectors]
    BY DEF RunSubProtocols
  <2>2. \A i \in Trees : Len(subs) + i \in 0..MaxSubs
    BY <1>1, <1>4
  <2>3. Collectors \in [Trees -> Goroutine]
    BY <2>2 DEF Collectors, Goroutine
  <2>4. \A i \in Trees : Collectors[i].at = "select" /\ Collectors[i].sub = Len(subs) + i
    BY DEF Collectors
  <2> HIDE DEF Collectors
  <2> QED  BY <1>1, <2>1, <2>3, <2>4
<1>13. CollectorsSound'
  <2> SUFFICES ASSUME NEW r \in RoundNrs, NEW i \in Trees, collector'[r][i].at # "none"
               PROVE  /\ collector'[r][i].sub \in 1..Len(subs')
                      /\ Arranged(i, subs'[collector'[r][i].sub].nodes)
    BY DEF CollectorsSound
  <2>1. CASE r = round
    <3>1. Len(subs) + i \in 1..Len(subs') /\ subs'[Len(subs) + i].nodes = subTrees[i]
      <4>1. i \in 1..K /\ Len(subs) + i \in 1..(Len(subs) + K)
        BY <1>1, <1>4
      <4>2. subs'[Len(subs) + i] = new[i]
        BY <1>8, <4>1
      <4> QED  BY <1>5, <1>8, <4>1, <4>2
    <3> QED  BY <1>3, <1>12, <2>1, <3>1
  <2>2. CASE r # round
    BY <1>8, <1>9, <1>12, <2>2 DEF BaseInv, CollectorsSound
  <2> QED  BY <2>1, <2>2
<1>14. /\ phase'[round] \in {"signed", "collecting"}
       /\ \A r \in RoundNrs : r # round => phase'[r] = phase[r]
       /\ phase' \in [RoundNrs -> {"idle", "starting", "collecting", "signed", "failed"}]
  BY <1>1 DEF RunSubProtocols
<1>15. InTurn'
  BY <1>1, <1>2, <1>12, <1>14 DEF BaseInv, InTurn
<1>16. \A y : ~Counts(round, y)
  BY <1>1 DEF BaseInv, GotSound, InTurn, From
<1>17. GotSound'
  <2> SUFFICES ASSUME NEW r \in RoundNrs, NEW x, Counts(r, x)'
               PROVE  /\ x \in 1..Len(subs') /\ subs'[x].signal = "response"
                      /\ \E k \in Trees : From(r, x, k)'
    BY DEF GotSound
  <2>1. Counts(r, x)
    BY <1>2 DEF Counts
  <2>2. r # round
    BY <1>16, <2>1
  <2> QED  BY <1>8, <1>9, <1>12, <2>1, <2>2 DEF BaseInv, GotSound, From
<1>18. KeysSound'
  <2>1. \A r \in RoundNrs : \A m \in DOMAIN responseMap[r] : responseMap[r][m] \in 1..Len(subs)
    BY DEF BaseInv, GotSound, Counts
  <2> QED  BY <1>2, <1>8, <2>1 DEF BaseInv, KeysSound
<1>19. TreesArranged'
  BY <1>2 DEF BaseInv, TreesArranged
<1>20. tried' \in [RoundNrs -> [Trees -> SUBSET Members]]
  <2>1. \A i \in Trees : Subleader(subTrees[i]) \in Members
    BY <1>3, ArrangedFacts
  <2> QED  BY <1>1, <2>1 DEF RunSubProtocols, BaseInv, Types
<1>21. signers' \in [RoundNrs -> SUBSET Members]
  <2>1. DOMAIN responseMap[round] = {}
    BY <1>1, <1>16 DEF Counts
  <2>2. GenerateSignature(responseMap[round]) \subseteq Members
    BY <2>1, CommitteeAssumption DEF GenerateSignature, Aggregated
  <2> QED  BY <1>1, <2>2 DEF RunSubProtocols
<1>22. Types'
  BY <1>1, <1>2, <1>8, <1>12, <1>14, <1>20, <1>21 DEF BaseInv, Types
<1> QED  BY <1>10, <1>11, <1>13, <1>15, <1>17, <1>18, <1>19, <1>22 DEF BaseInv

LEMMA NextBase == BaseInv /\ [Next]_vars => BaseInv' /\ Grows
<1> SUFFICES ASSUME BaseInv, [Next]_vars PROVE BaseInv' /\ Grows
  OBVIOUS
<1>1. CASE UNCHANGED vars
  <2>1. BaseInv'
    BY <1>1 DEF vars, history, mainVars, BaseInv, Types, TreesArranged, SubsSound, CollectorsSound,
                InTurn, GotSound, KeysSound, Counts, From
  <2> QED  BY <1>1, <2>1, UnchangedSubsGrow DEF vars
<1>2. ASSUME NEW r \in RoundNrs, NEW i \in Trees, CollectorStep(r, i) PROVE BaseInv' /\ Grows
  BY <1>2, CollectorEndsBase, CollectorForwardsBase, CollectorRotatesBase, CollectorRestartsBase
     DEF CollectorStep
<1> QED  BY <1>1, <1>2, PreNewRoundBase, RunSubProtocolsBase, TakeResponseBase, EndBase, SubStepBase
            DEF Next, Collect

\* The subtrees split the committee among them in every state, for every size of
\* the committee and of its subtrees, also while subleaders are replaced
\* (gen_tree.go:80-112, blscosi.go:351-366).
THEOREM Partition == Spec => []SubtreesPartition
<1>1. BaseInv => SubtreesPartition
  <2> SUFFICES ASSUME BaseInv PROVE SubtreesPartition
    OBVIOUS
  <2>1. \A i \in Trees : Arranged(i, subTrees[i])
    BY DEF BaseInv, TreesArranged
  <2>2. ASSUME NEW i \in Trees PROVE Head(subTrees[i]) = Root /\ IsInjective(subTrees[i])
    <3>1. /\ subTrees[i] \in Seq(Members) /\ Len(subTrees[i]) \in Nat /\ Len(subTrees[i]) >= 2
          /\ subTrees[i][1] = Root
          /\ \A j, k \in 1..Len(subTrees[i]) : subTrees[i][j] = subTrees[i][k] => j = k
      BY <2>1, ArrangedFacts DEF Arranged
    <3>2. Head(subTrees[i]) = Root
      BY <3>1
    <3> QED  BY <3>1, <3>2 DEF IsInjective
  <2>3. ASSUME NEW m \in Members \ {Root}
        PROVE  Cardinality({i \in Trees : m \in Range(subTrees[i])}) = 1
    <3>1. \A i \in Trees : m \in Range(subTrees[i]) <=> m \in Below(GenTrees[i])
      BY <2>1, ArrangedFacts DEF Arranged
    <3>2. PICK k \in Trees : m \in Below(GenTrees[k])
      BY BelowFacts
    <3>3. \A i \in Trees : m \in Below(GenTrees[i]) => i = k
      BY <3>2, BelowFacts
    <3>4. {i \in Trees : m \in Range(subTrees[i])} = {k}
      BY <3>1, <3>2, <3>3
    <3> QED  BY <3>4, FS_Singleton
  <2> QED  BY <2>2, <2>3 DEF SubtreesPartition
<1> QED  BY <1>1, InitBase, NextBase, PTL DEF Spec

-----------------------------------------------------------------------------
(* The numbers.                                                            *)

\* A subtree with c nodes below the leader has no more than c signers.
LEMMA MaskSize ==
    ASSUME BaseInv, NEW x \in 1..Len(subs)
    PROVE  Cardinality(Mask(x)) <= Len(subs[x].nodes) - 1 /\ Len(subs[x].nodes) \in Nat
<1> DEFINE nodes == subs[x].nodes
           L == Len(nodes)
           f == [j \in 2..L |-> nodes[j]]
<1>1. PICK i \in Trees : Arranged(i, nodes)
  BY DEF BaseInv, SubsSound, SubSound
<1>2. L \in Nat /\ L >= 2
  BY <1>1, ArrangedFacts
<1>3. f \in Surjection(2..L, Below(nodes))
  BY DEF Surjection, Below
<1>4. IsFiniteSet(2..L) /\ Cardinality(2..L) = L - 1
  <2>1. IsFiniteSet(2..L) /\ Cardinality(2..L) = IF 2 > L THEN 0 ELSE L - 2 + 1
    <3>1. 2 \in Int /\ L \in Int
      BY <1>2
    <3> HIDE DEF L
    <3> QED  BY <3>1, FS_Interval
  <2> QED  BY <1>2, <2>1
<1> HIDE DEF f, L, nodes
<1>5. IsFiniteSet(Below(nodes)) /\ Cardinality(Below(nodes)) <= L - 1
  <2>1. IsFiniteSet(Below(nodes)) /\ Cardinality(Below(nodes)) <= Cardinality(2..L)
    BY <1>3, <1>4, FS_Surjection
  <2> QED  BY <1>4, <2>1
<1>6. Mask(x) \in SUBSET Below(nodes)
  BY MaskMembers DEF nodes
<1>7. Cardinality(Mask(x)) <= Cardinality(Below(nodes)) /\ IsFiniteSet(Mask(x))
  BY <1>5, <1>6, FS_Subset
<1>8. Cardinality(Mask(x)) \in Nat /\ Cardinality(Below(nodes)) \in Nat
  BY <1>5, <1>7, FS_CardinalityType
<1>9. Cardinality(Mask(x)) <= L - 1
  BY <1>2, <1>5, <1>7, <1>8
<1> QED  BY <1>2, <1>9 DEF L, nodes

\* The masks that were collected hold members that sign, and not the leader.
LEMMA AggregatedFacts ==
    ASSUME BaseInv, NEW map, \A m \in DOMAIN map : map[m] \in 1..Len(subs)
    PROVE  /\ Aggregated(map) \subseteq Members /\ Root \notin Aggregated(map)
           /\ \A m \in Aggregated(map) : does[m] = "signs"
           /\ IsFiniteSet(Aggregated(map)) /\ Cardinality(Aggregated(map)) \in Nat
<1>1. \A m \in DOMAIN map : /\ Mask(map[m]) \subseteq Members /\ Root \notin Mask(map[m])
                            /\ \A c \in Mask(map[m]) : does[c] = "signs"
  BY MaskMembers
<1>2. /\ Aggregated(map) \subseteq Members /\ Root \notin Aggregated(map)
      /\ \A m \in Aggregated(map) : does[m] = "signs"
  BY <1>1 DEF Aggregated
<1>3. IsFiniteSet(Members)
  BY CommitteeAssumption, FS_Interval DEF Members
<1>4. IsFiniteSet(Aggregated(map))
  BY <1>2, <1>3, FS_Subset
<1> QED  BY <1>2, <1>4, FS_CardinalityType

\* A response that is not yet entered adds members that are not yet in.
LEMMA NewMaskDisjoint ==
    ASSUME BaseInv, NEW r \in RoundNrs, NEW x, Counts(r, x),
           Subleader(subs[x].nodes) \notin DOMAIN responseMap[r]
    PROVE  Aggregated(responseMap[r]) \cap Mask(x) = {}
<1> SUFFICES ASSUME NEW c \in Aggregated(responseMap[r]), c \in Mask(x) PROVE FALSE
  OBVIOUS
<1>1. PICK m \in DOMAIN responseMap[r] : c \in Mask(responseMap[r][m])
  BY DEF Aggregated
<1> DEFINE y == responseMap[r][m]
<1>2. Counts(r, y) /\ y \in 1..Len(subs) /\ m = Subleader(subs[y].nodes)
  BY DEF Counts, BaseInv, GotSound, KeysSound
<1>3. PICK i \in Trees : From(r, x, i)
  BY DEF BaseInv, GotSound
<1>4. PICK k \in Trees : From(r, y, k)
  BY <1>2 DEF BaseInv, GotSound
<1>5. x \in 1..Len(subs)
  BY DEF BaseInv, GotSound
<1>6. Arranged(i, subs[x].nodes) /\ Arranged(k, subs[y].nodes)
  BY <1>3, <1>4 DEF From, BaseInv, CollectorsSound
<1>7. x # y
  BY <1>2
<1>8. i # k
  BY <1>3, <1>4, <1>7 DEF From
<1> HIDE DEF y
<1>9. Below(subs[x].nodes) \cap Below(subs[y].nodes) = {}
  BY <1>6, <1>8, OneTree
<1>10. c \in Below(subs[x].nodes) /\ c \in Below(subs[y].nodes)
  BY <1>1, <1>2, <1>5, MaskMembers DEF y
<1> QED  BY <1>9, <1>10

\* All that the state says of numbers.  The threshold was tested before a round begins.
CountInv ==
    /\ numSignature \in Nat /\ numFailure \in Nat
    /\ round = 0 => numSignature = 0
    /\ round > 0 => phase[round] = "failed" \/ CheckIntegrity
    /\ CountExact /\ EnoughSigners

\* Masks that were collected do not change any more.
LEMMA AggregatedKept ==
    ASSUME BaseInv, Grows, UNCHANGED <<does, responseMap>>, NEW r \in RoundNrs
    PROVE  Aggregated(responseMap[r])' = Aggregated(responseMap[r])
<1> DEFINE map == responseMap[r]
<1>1. map' = map
  OBVIOUS
<1>2. \A m \in DOMAIN map : subs'[map[m]].heard = subs[map[m]].heard
  BY DEF BaseInv, GotSound, Counts, Grows
<1>3. \A m \in DOMAIN map : Mask(map[m])' = Mask(map[m])
  BY <1>1, <1>2 DEF Mask, Answer
<1>4. Aggregated(map)' = UNION {Mask(map[m])' : m \in DOMAIN map}
  BY <1>1 DEF Aggregated
<1>5. Aggregated(map) = UNION {Mask(map[m]) : m \in DOMAIN map}
  BY DEF Aggregated
<1> HIDE DEF map
<1>6. Aggregated(map)' = Aggregated(map)
  BY <1>3, <1>4, <1>5
<1> QED  BY <1>6 DEF map

\* A step that leaves the leader's numbers alone.
LEMMA CountAside ==
    ASSUME BaseInv, CountInv, Grows,
           UNCHANGED <<does, round, phase, responseMap, signers, numSignature, numFailure>>
    PROVE  CountInv'
<1>1. CountExact'
  <2> SUFFICES ASSUME round > 0, phase[round] # "starting"
               PROVE  numSignature = Cardinality(Aggregated(responseMap[round])' \ {Root})
    BY DEF CountExact
  <2>1. round \in RoundNrs
    BY CommitteeAssumption DEF BaseInv, Types, RoundNrs
  <2>2. \A r \in RoundNrs : Aggregated(responseMap[r])' = Aggregated(responseMap[r])
    BY AggregatedKept
  <2>3. Aggregated(responseMap[round])' = Aggregated(responseMap[round])
    BY <2>1, <2>2
  <2> QED  BY <2>3 DEF CountInv, CountExact
<1>2. EnoughSigners'
  BY DEF CountInv, EnoughSigners
<1> QED  BY <1>1, <1>2 DEF CountInv, CheckIntegrity

LEMMA InitCount == Init => CountInv
BY DEF Init, CountInv, CountExact, EnoughSigners

LEMMA PreNewRoundCount ==
    ASSUME BaseInv, CountInv, PreNewRound
    PROVE  CountInv'
<1>1. /\ round \in Nat /\ round + 1 \in RoundNrs /\ round + 1 > 0 /\ round + 1 # 0
      /\ phase \in [RoundNrs -> {"idle", "starting", "collecting", "signed", "failed"}]
  BY CommitteeAssumption DEF BaseInv, Types, PreNewRound, RoundNrs
<1>2. /\ phase'[round + 1] = IF CheckIntegrity THEN "starting" ELSE "failed"
      /\ \A r \in RoundNrs : r # round + 1 => phase'[r] = phase[r]
  BY <1>1 DEF PreNewRound
<1>3. round > 0 => CheckIntegrity
  BY DEF CountInv, PreNewRound
<1>4. CountExact'
  <2> SUFFICES ASSUME phase'[round + 1] # "starting"
               PROVE  numSignature' = Cardinality(Aggregated(responseMap[round])' \ {Root})
    BY DEF CountExact, PreNewRound
  <2>1. round = 0
    BY <1>1, <1>2, <1>3
  <2>2. numSignature' = 0
    BY <2>1 DEF CountInv, PreNewRound
  <2>3. phase[round + 1] = "idle"
    BY <1>1 DEF BaseInv, InTurn
  <2>4. \A x : ~Counts(round + 1, x)
    BY <1>1, <2>3 DEF BaseInv, GotSound, InTurn, From
  <2>5. DOMAIN responseMap[round + 1] = {}
    BY <2>4 DEF Counts
  <2>6. Aggregated(responseMap[round])' = {}
    BY <2>5 DEF Aggregated, PreNewRound
  <2> QED  BY <2>2, <2>6, FS_EmptySet
<1>5. EnoughSigners'
  BY <1>1, <1>2 DEF CountInv, EnoughSigners, PreNewRound
<1> QED  BY <1>1, <1>2, <1>4, <1>5 DEF CountInv, PreNewRound, CheckIntegrity

LEMMA EndCount ==
    ASSUME BaseInv, CountInv, TakeError \/ TimeOut
    PROVE  CountInv'
<1>1. /\ phase' = [phase EXCEPT ![round] = "failed"] /\ round \in RoundNrs
      /\ phase[round] = "collecting"
      /\ UNCHANGED <<does, round, subs, responseMap, signers, numSignature, numFailure>>
  BY CommitteeAssumption DEF TakeError, TimeOut, BaseInv, Types, RoundNrs, history
<1>2. /\ phase'[round] = "failed" /\ \A r \in RoundNrs : r # round => phase'[r] = phase[r]
  BY <1>1 DEF BaseInv, Types
<1>3. CountExact'
  <2>1. Aggregated(responseMap[round])' = Aggregated(responseMap[round])
    BY <1>1 DEF Aggregated, Mask, Answer
  <2> QED  BY <1>1, <2>1 DEF CountInv, CountExact
<1>4. EnoughSigners'
  BY <1>1, <1>2 DEF CountInv, EnoughSigners
<1> QED  BY <1>1, <1>2, <1>3, <1>4 DEF CountInv, CheckIntegrity

\* A signature of the leader and of the members counted is enough.
LEMMA SignatureSize ==
    ASSUME BaseInv, NEW map, \A m \in DOMAIN map : map[m] \in 1..Len(subs),
           NEW c \in Nat, c = Cardinality(Aggregated(map)), EnoughSignatures(c)
    PROVE  /\ Cardinality(GenerateSignature(map)) >= Threshold
           /\ \A m \in GenerateSignature(map) : m = Root \/ does[m] = "signs"
<1> DEFINE A == Aggregated(map)
<1>1. /\ Root \notin A /\ IsFiniteSet(A) /\ Cardinality(A) \in Nat
      /\ \A m \in A : does[m] = "signs"
  BY AggregatedFacts
<1>2. GenerateSignature(map) = A \cup {Root}
  BY DEF GenerateSignature
<1> HIDE DEF A
<1>3. Cardinality(A \cup {Root}) = Cardinality(A) + 1
  BY <1>1, FS_AddElement
<1>4. c = Cardinality(A)
  BY DEF A
<1> QED  BY <1>1, <1>2, <1>3, <1>4, CommitteeAssumption DEF EnoughSignatures

LEMMA RunSubProtocolsCount ==
    ASSUME BaseInv, CountInv, RunSubProtocols
    PROVE  CountInv'
<1>1. /\ round \in RoundNrs /\ round > 0 /\ phase[round] = "starting" /\ round # 0
      /\ phase \in [RoundNrs -> {"idle", "starting", "collecting", "signed", "failed"}]
      /\ signers \in [RoundNrs -> SUBSET Members]
      /\ UNCHANGED <<does, round, responseMap>> /\ numSignature' = 0 /\ numFailure' = 0
  BY CommitteeAssumption DEF RunSubProtocols, BaseInv, Types, RoundNrs
<1>2. /\ phase'[round] = IF EnoughSignatures(0) THEN "signed" ELSE "collecting"
      /\ \A r \in RoundNrs : r # round => phase'[r] = phase[r] /\ signers'[r] = signers[r]
      /\ EnoughSignatures(0) => signers'[round] = GenerateSignature(responseMap[round])
  BY <1>1 DEF RunSubProtocols
<1>3. DOMAIN responseMap[round] = {}
  <2>1. \A x : ~Counts(round, x)
    BY <1>1 DEF BaseInv, GotSound, InTurn, From
  <2> QED  BY <2>1 DEF Counts
<1>4. Aggregated(responseMap[round]) = {} /\ Aggregated(responseMap[round])' = {}
  BY <1>1, <1>3 DEF Aggregated
<1>5. Cardinality({}) = 0 /\ {} \ {Root} = {}
  BY FS_EmptySet
<1>6. CountExact'
  BY <1>1, <1>4, <1>5 DEF CountExact
<1>7. ASSUME NEW r \in RoundNrs, phase'[r] = "signed"
      PROVE  /\ Cardinality(signers'[r]) >= Threshold
             /\ \A m \in signers'[r] : m = Root \/ does'[m] = "signs"
  <2>1. CASE r # round
    BY <1>1, <1>2, <1>7, <2>1 DEF CountInv, EnoughSigners
  <2>2. CASE r = round
    <3>1. EnoughSignatures(0)
      BY <1>2, <1>7, <2>2
    <3>2. \A m \in DOMAIN responseMap[round] : responseMap[round][m] \in 1..Len(subs)
      BY <1>3
    <3>3. 0 \in Nat /\ 0 = Cardinality(Aggregated(responseMap[round]))
      BY <1>4, <1>5
    <3>4. /\ Cardinality(GenerateSignature(responseMap[round])) >= Threshold
          /\ \A m \in GenerateSignature(responseMap[round]) : m = Root \/ does[m] = "signs"
      BY <3>1, <3>2, <3>3, SignatureSize
    <3> QED  BY <1>1, <1>2, <2>2, <3>1, <3>4
  <2> QED  BY <2>1, <2>2
<1>8. EnoughSigners'
  BY <1>7 DEF EnoughSigners
<1>9. CheckIntegrity
  BY <1>1 DEF CountInv
<1> QED  BY <1>1, <1>6, <1>8, <1>9 DEF CountInv, CheckIntegrity

\* A response that is taken is counted once, and its members only.
LEMMA CountedExact ==
    ASSUME BaseInv, CountInv, round \in RoundNrs, phase[round] = "collecting",
           NEW x \in responses[round]
    PROVE  /\ Counted(x).signed \in Nat /\ Counted(x).failed \in Nat
           /\ Counted(x).signed = Cardinality(Aggregated(Counted(x).map))
           /\ \A m \in DOMAIN Counted(x).map : Counted(x).map[m] \in 1..Len(subs)
<1> DEFINE sl == Subleader(subs[x].nodes)
           map == responseMap[round]
           new == Counted(x).map
           A == Aggregated(map)
<1>1. Counts(round, x) /\ x \in 1..Len(subs) /\ round > 0
  BY DEF Counts, BaseInv, GotSound, RoundNrs
<1>2. \A m \in DOMAIN map : map[m] \in 1..Len(subs)
  BY DEF Counts, BaseInv, GotSound
<1>3. Root \notin A /\ IsFiniteSet(A) /\ Cardinality(A) \in Nat
  BY <1>2, AggregatedFacts
<1>4. numSignature = Cardinality(A) /\ numSignature \in Nat /\ numFailure \in Nat
  <2>1. A \ {Root} = A
    BY <1>3
  <2> QED  BY <1>1, <2>1 DEF CountInv, CountExact
<1>5. CASE sl \in DOMAIN map
  <2>1. Counted(x) = [map |-> map, signed |-> numSignature, failed |-> numFailure]
    BY <1>5 DEF Counted
  <2> QED  BY <1>2, <1>4, <2>1
<1>6. CASE sl \notin DOMAIN map
  <2>1. /\ Counted(x).signed = numSignature + Cardinality(Mask(x))
        /\ Counted(x).failed = numFailure + (Len(subs[x].nodes) - 1) - Cardinality(Mask(x))
    BY <1>6 DEF Counted
  <2>2. /\ DOMAIN new = DOMAIN map \cup {sl} /\ new[sl] = x
        /\ \A m \in DOMAIN map : new[m] = map[m]
    BY <1>6, CountedMap
  <2>3. Aggregated(new) = A \cup Mask(x)
    <3> HIDE DEF new
    <3> QED  BY <1>6, <2>2 DEF Aggregated
  <2>4. A \cap Mask(x) = {}
    BY <1>1, <1>6, NewMaskDisjoint
  <2>5. IsFiniteSet(Mask(x)) /\ Cardinality(Mask(x)) \in Nat
    BY <1>1, MaskMembers
  <2>6. Cardinality(Mask(x)) <= Len(subs[x].nodes) - 1 /\ Len(subs[x].nodes) \in Nat
    BY <1>1, MaskSize
  <2> DEFINE M == Mask(x)
  <2>7. Cardinality(A \cup M) = Cardinality(A) + Cardinality(M)
    <3> HIDE DEF A, M
    <3>1. Cardinality(A \cup M) = Cardinality(A) + Cardinality(M) - Cardinality(A \cap M)
      BY <1>3, <2>5, FS_Union DEF M
    <3>2. Cardinality(A \cap M) = 0
      BY <2>4, FS_EmptySet DEF M
    <3> QED  BY <1>3, <2>5, <3>1, <3>2 DEF M
  <2>8. Counted(x).failed \in Nat
    BY <1>4, <2>1, <2>5, <2>6
  <2>9. \A m \in DOMAIN new : new[m] \in 1..Len(subs)
    <3> HIDE DEF new, map
    <3> QED  BY <1>1, <1>2, <2>2
  <2> HIDE DEF A
  <2> QED  BY <1>3, <1>4, <2>1, <2>3, <2>5, <2>7, <2>8, <2>9
<1> QED  BY <1>5, <1>6

LEMMA TakeResponseCount ==
    ASSUME BaseInv, CountInv, TakeResponse
    PROVE  CountInv'
<1>1. /\ round \in RoundNrs /\ phase[round] = "collecting" /\ round > 0 /\ round # 0
      /\ DOMAIN responseMap = RoundNrs
      /\ phase \in [RoundNrs -> {"idle", "starting", "collecting", "signed", "failed"}]
      /\ signers \in [RoundNrs -> SUBSET Members]
      /\ UNCHANGED <<does, round, subs>>
  BY CommitteeAssumption DEF TakeResponse, BaseInv, Types, RoundNrs
<1>2. PICK x \in responses[round] :
        /\ responseMap' = [responseMap EXCEPT ![round] = Counted(x).map]
        /\ numSignature' = Counted(x).signed /\ numFailure' = Counted(x).failed
        /\ \/ /\ phase' = [phase EXCEPT ![round] = "failed"]
              /\ UNCHANGED signers
           \/ /\ EnoughSignatures(Counted(x).signed)
              /\ phase' = [phase EXCEPT ![round] = "signed"]
              /\ signers' = [signers EXCEPT ![round] = GenerateSignature(Counted(x).map)]
           \/ UNCHANGED <<phase, signers>>
  BY DEF TakeResponse
<1> DEFINE new == Counted(x).map
           c == Counted(x).signed
<1>3. /\ c \in Nat /\ Counted(x).failed \in Nat /\ c = Cardinality(Aggregated(new))
      /\ \A m \in DOMAIN new : new[m] \in 1..Len(subs)
  BY <1>1, CountedExact
<1>4. responseMap'[round] = new /\ numSignature' = c /\ numFailure' \in Nat
  BY <1>1, <1>2, <1>3
<1>5. /\ \A r \in RoundNrs : r # round => phase'[r] = phase[r] /\ signers'[r] = signers[r]
      /\ phase'[round] = "signed" => EnoughSignatures(c) /\ signers'[round] = GenerateSignature(new)
  BY <1>1, <1>2
<1> HIDE DEF new, c
<1>6. CountExact'
  <2>1. Root \notin Aggregated(new)
    BY <1>3, AggregatedFacts
  <2>2. Aggregated(responseMap[round])' = Aggregated(new)
    BY <1>1, <1>4 DEF Aggregated, Mask, Answer
  <2>3. Aggregated(new) \ {Root} = Aggregated(new)
    BY <2>1
  <2> QED  BY <1>3, <1>4, <2>2, <2>3 DEF CountExact
<1>7. ASSUME NEW r \in RoundNrs, phase'[r] = "signed"
      PROVE  /\ Cardinality(signers'[r]) >= Threshold
             /\ \A m \in signers'[r] : m = Root \/ does'[m] = "signs"
  <2>1. CASE r # round
    BY <1>1, <1>5, <1>7, <2>1 DEF CountInv, EnoughSigners
  <2>2. CASE r = round
    <3>1. EnoughSignatures(c) /\ signers'[round] = GenerateSignature(new)
      BY <1>5, <1>7, <2>2
    <3>2. /\ Cardinality(GenerateSignature(new)) >= Threshold
          /\ \A m \in GenerateSignature(new) : m = Root \/ does[m] = "signs"
      BY <1>3, <3>1, SignatureSize
    <3> QED  BY <1>1, <2>2, <3>1, <3>2
  <2> QED  BY <2>1, <2>2
<1>8. EnoughSigners'
  BY <1>7 DEF EnoughSigners
<1>9. CheckIntegrity
  BY <1>1 DEF CountInv
<1> QED  BY <1>1, <1>3, <1>4, <1>6, <1>8, <1>9 DEF CountInv, CheckIntegrity

LEMMA NextCount == BaseInv /\ CountInv /\ [Next]_vars => CountInv'
<1> SUFFICES ASSUME BaseInv, CountInv, [Next]_vars PROVE CountInv'
  OBVIOUS
<1>1. Grows
  BY NextBase
<1>2. CASE UNCHANGED vars
  BY <1>1, <1>2, CountAside DEF vars, mainVars, history
<1>3. ASSUME NEW r \in RoundNrs, NEW i \in Trees, CollectorStep(r, i) PROVE CountInv'
  <2>1. UNCHANGED <<does, round, phase, responseMap, signers, numSignature, numFailure>>
    BY <1>3 DEF CollectorStep, CollectorEnds, CollectorForwards, CollectorRotates, CollectorRestarts,
                mainVars
  <2> QED  BY <1>1, <2>1, CountAside
<1>4. ASSUME NEW x \in 1..Len(subs), SubStep(x) PROVE CountInv'
  <2>1. UNCHANGED <<does, round, phase, responseMap, signers, numSignature, numFailure>>
    BY <1>4 DEF SubStep, Announce, RootReceives, RootTimesOut, SubleaderAsks, SubleaderReplies,
                LeafAnswers, mainVars
  <2> QED  BY <1>1, <2>1, CountAside
<1> QED  BY <1>2, <1>3, <1>4, PreNewRoundCount, RunSubProtocolsCount, TakeResponseCount, EndCount
            DEF Next, Collect

\* Type correctness, for every committee, threshold and number of rounds
\* (blscosi.go:54-90, sub_blscosi.go).
THEOREM CosiTypeCorrect == Spec => []TypeOK
<1>1. BaseInv /\ CountInv => TypeOK
  <2> SUFFICES ASSUME BaseInv, CountInv PROVE TypeOK
    OBVIOUS
  <2>1. \A r \in RoundNrs : \A m \in DOMAIN responseMap[r] :
          responseMap[r][m] \in 1..Len(subs) /\ m = Subleader(subs[responseMap[r][m]].nodes)
    BY DEF BaseInv, GotSound, KeysSound, Counts
  <2>2. ASSUME NEW x \in 1..Len(subs) PROVE Subleader(subs[x].nodes) \in Members
    BY ArrangedFacts DEF BaseInv, SubsSound, SubSound
  <2>3. \A x \in 1..Len(subs) : x \in 1..MaxSubs
    BY CommitteeAssumption DEF BaseInv, Types
  <2>4. \A r \in RoundNrs : /\ DOMAIN responseMap[r] \subseteq Members
                            /\ \A m \in DOMAIN responseMap[r] : responseMap[r][m] \in 1..MaxSubs
    BY <2>1, <2>2, <2>3
  <2> QED  BY <2>4 DEF BaseInv, CountInv, Types, TypeOK, SubRecord, Goroutine
<1> QED  BY <1>1, InitBase, NextBase, InitCount, NextCount, PTL DEF Spec

\* A final signature holds at least Threshold different members, all of which
\* agreed to sign, whatever subleaders were replaced, whatever goroutines of an
\* earlier round still do, and for every committee (blscosi.go:398-441, 501-533).
THEOREM SignedByEnough == Spec => []EnoughSigners
<1>1. CountInv => EnoughSigners
  BY DEF CountInv
<1> QED  BY <1>1, InitBase, NextBase, InitCount, NextCount, PTL DEF Spec

\* The number that ends the collection is the number of different members in the
\* masks collected: no signature is counted twice (blscosi.go:414-422).
THEOREM NoneCountedTwice == Spec => []CountExact
<1>1. CountInv => CountExact
  BY DEF CountInv
<1> QED  BY <1>1, InitBase, NextBase, InitCount, NextCount, PTL DEF Spec


-----------------------------------------------------------------------------
(* A subtree that is given up has tried every subleader.  This is proved   *)
(* for a leader with index 0, the only one ChainBoost uses: the comparison *)
(* of indexes in subleaderNotResponding is right only when genTrees does   *)
(* not go round the end of the roster.                                     *)

\* Where the j-th node stood before k rotations of a subtree with c nodes.
Origin(c, j, k) == IF j + k <= c THEN j + k ELSE (j + k) - (c - 1)

\* The subtree has been rotated k times since genTrees.
Turned(i, nodes, k) ==
    /\ Arranged(i, nodes)
    /\ \A j \in 2..Length(i) : nodes[j] = GenTrees[i][Origin(Length(i), j, k)]

\* The first c subleaders.
Foremost(i, c) == {GenTrees[i][j] : j \in 2..(c + 1)}

LEMMA ForemostFacts ==
    ASSUME NEW i \in Trees
    PROVE  /\ Length(i) \in Nat /\ Length(i) >= 2
           /\ Foremost(i, Length(i) - 1) = Range(GenTrees[i]) \ {Root}
           /\ \A k \in 0..(Length(i) - 2) :
                Foremost(i, k + 1) = Foremost(i, k) \cup {GenTrees[i][k + 2]}
           /\ Foremost(i, 1) = {GenTrees[i][2]}
<1>1. Length(i) \in Nat /\ Length(i) >= 2
  BY UsedFacts
<1>2. Len(GenTrees[i]) = Length(i)
  BY GenElements
<1>3. Range(GenTrees[i]) = {Root} \cup Below(GenTrees[i]) /\ Root \notin Below(GenTrees[i])
  BY GenArranged, ArrangedFacts
<1>4. Foremost(i, Length(i) - 1) = Below(GenTrees[i])
  <2>1. (Length(i) - 1) + 1 = Length(i)
    BY <1>1
  <2> QED  BY <1>2, <2>1 DEF Foremost, Below
<1>5. ASSUME NEW k \in 0..(Length(i) - 2)
      PROVE  Foremost(i, k + 1) = Foremost(i, k) \cup {GenTrees[i][k + 2]}
  <2>1. \A j : j \in 2..((k + 1) + 1) <=> j \in 2..(k + 1) \/ j = k + 2
    BY <1>1
  <2> QED  BY <2>1 DEF Foremost
<1>6. Foremost(i, 1) = {GenTrees[i][2]}
  <2>1. \A j : j \in 2..(1 + 1) <=> j = 2
    OBVIOUS
  <2> QED  BY <2>1 DEF Foremost
<1> QED  BY <1>1, <1>3, <1>4, <1>5, <1>6

LEMMA TurnedOnce ==
    ASSUME NEW i \in Trees, NEW k \in 0..(Length(i) - 2), NEW nodes, Turned(i, nodes, k)
    PROVE  /\ Subleader(nodes) = GenTrees[i][k + 2]
           /\ k < Length(i) - 2 => Turned(i, Rotated(nodes), k + 1)
<1> DEFINE L == Length(i)
           R == Rotated(nodes)
<1>1. L \in Nat /\ L >= 2 /\ Len(nodes) = L /\ nodes \in Seq(Members) /\ Arranged(i, nodes)
  BY ArrangedFacts DEF Turned
<1>2. /\ R[L] = nodes[2]
      /\ \A j \in 2..(L - 1) : R[j] = nodes[j + 1]
  BY <1>1, RotatedNodes
<1>3. Arranged(i, R)
  BY <1>1, RotatedArranged
<1>4. \A j \in 2..L : nodes[j] = GenTrees[i][Origin(L, j, k)]
  BY DEF Turned
<1> HIDE DEF L, R
<1>5. k \in Nat /\ k <= L - 2
  BY <1>1 DEF L
<1>6. Origin(L, 2, k) = k + 2
  BY <1>1, <1>5 DEF Origin
<1>7. nodes[2] = GenTrees[i][k + 2]
  <2>1. 2 \in 2..L
    BY <1>1
  <2> QED  BY <1>4, <1>6, <2>1
<1>8. ASSUME k < L - 2, NEW j \in 2..L
      PROVE  R[j] = GenTrees[i][Origin(L, j, k + 1)]
  <2>1. CASE j = L
    <3>1. Origin(L, j, k + 1) = k + 2
      BY <1>1, <1>5, <1>8, <2>1 DEF Origin
    <3> QED  BY <1>2, <1>7, <2>1, <3>1
  <2>2. CASE j # L
    <3>1. j \in 2..(L - 1) /\ j + 1 \in 2..L
      BY <1>1, <2>2
    <3>2. Origin(L, j + 1, k) = Origin(L, j, k + 1)
      BY <1>1, <1>5, <3>1 DEF Origin
    <3> QED  BY <1>2, <1>4, <3>1, <3>2
  <2> QED  BY <2>1, <2>2
<1> QED  BY <1>3, <1>7, <1>8 DEF Turned, Subleader, L, R

\* The comparison of indexes stops the rotation after the last member, and the
\* rotated tree is always accepted.
LEMMA GivesUpLast ==
    ASSUME Root = 0, NEW i \in Trees, NEW k \in 0..(Length(i) - 2), NEW nodes, Turned(i, nodes, k)
    PROVE  GivesUp(nodes) <=> k = Length(i) - 2
<1> DEFINE L == Length(i)
<1>1. L \in Nat /\ L >= 2 /\ L <= N /\ Len(nodes) = L /\ nodes \in Seq(Members) /\ Arranged(i, nodes)
  BY ArrangedFacts DEF Turned
<1>2. Arranged(i, Rotated(nodes)) /\ Len(Rotated(nodes)) = L
  BY <1>1, RotatedArranged, ArrangedFacts
<1>3. ValidSubtree(Rotated(nodes))
  <2>1. \A j, h \in 1..L : Rotated(nodes)[j] = Rotated(nodes)[h] => j = h
    BY <1>2 DEF Arranged
  <2>2. L \in 2..N
    BY <1>1, CommitteeAssumption
  <2> HIDE DEF L
  <2>3. 1 \in 1..L /\ 2 \in 1..L /\ \A j \in 3..L : j \in 1..L /\ j # 1 /\ j # 2
    BY <1>1
  <2> QED  BY <1>2, <2>1, <2>2, <2>3 DEF ValidSubtree
<1>4. \A j \in 2..L : GenTrees[i][j] = Used(i) + (j - 1) /\ Used(i) \in Nat
  <2> TAKE j \in 2..L
  <2>1. /\ GenTrees[i][j] \in Members \ {Root} /\ Offset(GenTrees[i][j]) = Place(i, j)
    BY GenElements
  <2>2. Used(i) \in Nat
    BY UsedFacts, SplitFacts DEF Trees
  <2>3. GenTrees[i][j] \in Nat /\ GenTrees[i][j] > 0
    BY <2>1, CommitteeAssumption DEF Members
  <2>4. GenTrees[i][j] - 1 = Used(i) + (j - 2)
    BY <2>1, <2>3, CommitteeAssumption DEF Offset, Place
  <2>5. j \in Nat
    BY <1>1
  <2> QED  BY <2>2, <2>3, <2>4, <2>5
<1>5. \A j \in 2..L : nodes[j] = GenTrees[i][Origin(L, j, k)]
  BY DEF Turned
<1>6. k \in 0..(L - 2)
  OBVIOUS
<1> HIDE DEF L
<1>7. AllTried(nodes) <=> k = L - 2
  <2>1. CASE L = 2
    BY <1>1, <1>6, <2>1 DEF AllTried
  <2>2. CASE L # 2
    <3>1. /\ 2 \in 2..L /\ 3 \in 2..L /\ Origin(L, 2, k) = k + 2 /\ k + 2 \in 2..L
          /\ k < L - 2 => Origin(L, 3, k) = k + 3 /\ k + 3 \in 2..L
          /\ k = L - 2 => Origin(L, 3, k) = 2
      BY <1>1, <1>6, <2>2 DEF Origin
    <3>2. nodes[2] = Used(i) + (k + 1) /\ Used(i) \in Nat
      <4>1. nodes[2] = GenTrees[i][k + 2]
        BY <1>5, <3>1
      <4>2. nodes[2] = Used(i) + ((k + 2) - 1) /\ Used(i) \in Nat
        BY <1>4, <3>1, <4>1
      <4> QED  BY <1>6, <4>2
    <3>3. CASE k < L - 2
      <4>1. nodes[3] = GenTrees[i][k + 3]
        BY <1>5, <3>1, <3>3
      <4>2. nodes[3] = Used(i) + ((k + 3) - 1)
        BY <1>4, <3>1, <3>3, <4>1
      <4> QED  BY <1>1, <1>6, <2>2, <3>2, <3>3, <4>2 DEF AllTried, Subleader
    <3>4. CASE k = L - 2
      <4>1. nodes[3] = GenTrees[i][2]
        BY <1>5, <3>1, <3>4
      <4>2. nodes[3] = Used(i) + 1
        BY <1>4, <3>1, <4>1
      <4> QED  BY <1>1, <1>6, <2>2, <3>2, <3>4, <4>2 DEF AllTried, Subleader
    <3> QED  BY <1>1, <1>6, <3>3, <3>4
  <2> QED  BY <2>1, <2>2
<1> QED  BY <1>3, <1>7 DEF GivesUp, L


\* A goroutine of the current round has tried the foremost members of its
\* subtree, one for each rotation, and gives up with all of them tried.
Stage(i, k) ==
    LET at == collector[round][i].at IN
    /\ Turned(i, subTrees[i], k)
    /\ at = "none" => k = 0
    /\ at = "select" => tried[round][i] = Foremost(i, k + 1)
    /\ at = "rotated" => k >= 1 /\ tried[round][i] = Foremost(i, k)
    /\ i \in errors[round] => tried[round][i] = Foremost(i, Length(i) - 1)
Tracked(i) == i \in late[round] \/ \E k \in 0..(Length(i) - 2) : Stage(i, k)

TurnInv ==
    /\ \A r \in RoundNrs, i \in Trees : i \in errors[r] => collector[r][i].at = "done"
    /\ round > 0 => \A i \in Trees : Tracked(i)

LEMMA TurnAside ==
    ASSUME TurnInv, UNCHANGED <<round, subTrees, collector, errors, tried, late>>
    PROVE  TurnInv'
BY DEF TurnInv, Tracked, Stage

LEMMA InitTurn == Init => TurnInv
BY CommitteeAssumption DEF Init, TurnInv

LEMMA PreNewRoundTurn ==
    ASSUME BaseInv, TurnInv, PreNewRound
    PROVE  TurnInv'
<1>1. round + 1 \in RoundNrs /\ round' = round + 1 /\ subTrees' = GenTrees
      /\ UNCHANGED <<collector, errors, tried, late>> /\ round + 1 > round
  BY CommitteeAssumption DEF BaseInv, Types, PreNewRound, RoundNrs, history
<1>2. \A i \in Trees : collector[round + 1][i].at = "none"
  BY <1>1 DEF BaseInv, InTurn
<1>3. \A i \in Trees : i \notin errors[round + 1]
  BY <1>1, <1>2 DEF TurnInv
<1>4. ASSUME NEW i \in Trees PROVE Tracked(i)'
  <2>1. Length(i) \in Nat /\ Length(i) >= 2
    BY UsedFacts
  <2>2. \A j \in 2..Length(i) : Origin(Length(i), j, 0) = j
    BY <2>1 DEF Origin
  <2>3. Turned(i, GenTrees[i], 0)
    BY <2>2, GenArranged DEF Turned
  <2>4. Stage(i, 0)'
    BY <1>1, <1>2, <1>3, <2>3 DEF Stage
  <2>5. 0 \in 0..(Length(i) - 2)
    BY <2>1
  <2> QED  BY <2>4, <2>5 DEF Tracked
<1> QED  BY <1>1, <1>4 DEF TurnInv

LEMMA RunSubProtocolsTurn ==
    ASSUME BaseInv, TurnInv, RunSubProtocols
    PROVE  TurnInv'
<1>1. /\ round \in RoundNrs /\ round > 0 /\ phase[round] = "starting"
      /\ collector \in [RoundNrs -> [Trees -> Goroutine]] /\ tried \in [RoundNrs -> [Trees -> SUBSET Members]]
      /\ collector' = [collector EXCEPT ![round] = Collectors]
      /\ tried' = [tried EXCEPT ![round] = [i \in Trees |-> {Subleader(subTrees[i])}]]
      /\ UNCHANGED <<round, subTrees, errors, late>>
  BY CommitteeAssumption DEF RunSubProtocols, BaseInv, Types, RoundNrs
<1>2. \A i \in Trees : collector[round][i].at = "none" /\ i \notin errors[round]
  BY <1>1 DEF BaseInv, InTurn, TurnInv
<1>3. /\ \A i \in Trees : /\ collector'[round][i].at = "select"
                          /\ tried'[round][i] = {Subleader(subTrees[i])}
      /\ \A r \in RoundNrs : r # round => collector'[r] = collector[r]
  BY <1>1 DEF Collectors
<1>4. \A r \in RoundNrs, i \in Trees : i \in errors'[r] => collector'[r][i].at = "done"
  BY <1>1, <1>2, <1>3 DEF TurnInv
<1>5. ASSUME NEW i \in Trees PROVE Tracked(i)'
  <2>1. CASE i \in late[round]
    BY <1>1, <2>1 DEF Tracked
  <2>2. CASE i \notin late[round]
    <3>1. PICK k \in 0..(Length(i) - 2) : Stage(i, k)
      BY <1>1, <2>2 DEF TurnInv, Tracked
    <3>2. k = 0 /\ Turned(i, subTrees[i], k)
      BY <1>2, <3>1 DEF Stage
    <3>3. tried'[round][i] = Foremost(i, k + 1)
      <4>1. Subleader(subTrees[i]) = GenTrees[i][2] /\ k + 1 = 1
        BY <3>2, TurnedOnce
      <4> QED  BY <1>3, <4>1, ForemostFacts
    <3>4. Stage(i, k)'
      BY <1>1, <1>2, <1>3, <3>2, <3>3 DEF Stage
    <3> QED  BY <3>4 DEF Tracked
  <2> QED  BY <2>1, <2>2
<1> QED  BY <1>1, <1>4, <1>5 DEF TurnInv

LEMMA CollectorToFacts ==
    ASSUME BaseInv, NEW r \in RoundNrs, NEW i \in Trees, NEW p, CollectorTo(r, i, p)
    PROVE  /\ collector'[r][i].at = p
           /\ \A q \in RoundNrs, k \in Trees :
                q # r \/ k # i => collector'[q][k] = collector[q][k]
<1>1. collector \in [RoundNrs -> [Trees -> Goroutine]] /\ collector[r][i] \in Goroutine
  BY DEF BaseInv, Types
<1>2. collector' = [collector EXCEPT ![r] = [collector[r] EXCEPT ![i] =
                      [collector[r][i] EXCEPT !.at = p]]]
  BY <1>1 DEF CollectorTo
<1> QED  BY <1>1, <1>2 DEF Goroutine

\* A goroutine ends, with a response or because the collection has ended.
LEMMA CollectorDoneTurn ==
    ASSUME BaseInv, TurnInv, NEW r \in RoundNrs, NEW i \in Trees, CollectorTo(r, i, "done"),
           UNCHANGED <<round, subTrees, errors, tried, late>>
    PROVE  TurnInv'
<1>1. /\ collector'[r][i].at = "done"
      /\ \A q \in RoundNrs, k \in Trees :
           q # r \/ k # i => collector'[q][k] = collector[q][k]
  BY CollectorToFacts
<1>2. \A q \in RoundNrs, k \in Trees : k \in errors'[q] => collector'[q][k].at = "done"
  BY <1>1 DEF TurnInv
<1>3. ASSUME round > 0, NEW k \in Trees PROVE Tracked(k)'
  <2>1. round \in RoundNrs
    BY <1>3, CommitteeAssumption DEF BaseInv, Types, RoundNrs
  <2>2. collector'[round][k].at = "done" \/ collector'[round][k] = collector[round][k]
    BY <1>1, <2>1
  <2> QED  BY <1>3, <2>2 DEF TurnInv, Tracked, Stage
<1> QED  BY <1>2, <1>3 DEF TurnInv

LEMMA CollectorRotatesTurn ==
    ASSUME Root = 0, BaseInv, TurnInv, NEW r \in RoundNrs, NEW i \in Trees, CollectorRotates(r, i)
    PROVE  TurnInv'
<1>1. /\ round \in RoundNrs /\ r <= round /\ collector[r][i].at = "select"
      /\ errors \in [RoundNrs -> SUBSET Trees] /\ late \in [RoundNrs -> SUBSET Trees]
      /\ subTrees \in [Trees -> Seq(Members)] /\ UNCHANGED <<round, tried>> /\ round > 0
  BY RunningRound DEF CollectorRotates, Waiting, BaseInv, Types, mainVars, RoundNrs
<1>2. CASE GivesUp(subTrees[i])
  <2>1. /\ errors' = [errors EXCEPT ![r] = @ \cup {i}] /\ CollectorTo(r, i, "done")
        /\ UNCHANGED <<subTrees, late>>
    BY <1>2 DEF CollectorRotates
  <2>2. /\ collector'[r][i].at = "done"
        /\ \A q \in RoundNrs, k \in Trees :
             q # r \/ k # i => collector'[q][k] = collector[q][k]
    BY <2>1, CollectorToFacts
  <2>3. \A q \in RoundNrs, k \in Trees :
          k \in errors'[q] <=> (k \in errors[q] \/ (q = r /\ k = i))
    BY <1>1, <2>1
  <2>4. \A q \in RoundNrs, k \in Trees : k \in errors'[q] => collector'[q][k].at = "done"
    BY <2>2, <2>3 DEF TurnInv
  <2>5. ASSUME NEW k \in Trees PROVE Tracked(k)'
    <3>1. CASE k \in late[round]
      BY <1>1, <2>1, <3>1 DEF Tracked
    <3>2. CASE k \notin late[round]
      <4>1. PICK c \in 0..(Length(k) - 2) : Stage(k, c)
        BY <1>1, <3>2 DEF TurnInv, Tracked
      <4>2. CASE round # r \/ k # i
        <5>1. collector'[round][k] = collector[round][k] /\ (k \in errors'[round] <=> k \in errors[round])
          BY <1>1, <2>2, <2>3, <4>2
        <5>2. Stage(k, c)'
          BY <1>1, <2>1, <4>1, <5>1 DEF Stage
        <5> QED  BY <5>2 DEF Tracked
      <4>3. CASE round = r /\ k = i
        <5>1. c = Length(i) - 2
          BY <1>2, <4>1, <4>3, GivesUpLast DEF Stage
        <5>2. tried[round][i] = Foremost(i, c + 1)
          BY <1>1, <4>1, <4>3 DEF Stage
        <5>3. c + 1 = Length(i) - 1
          BY <5>1, UsedFacts
        <5>4. Stage(i, c)'
          BY <1>1, <2>1, <2>2, <4>1, <4>3, <5>2, <5>3 DEF Stage
        <5> QED  BY <4>3, <5>4 DEF Tracked
      <4> QED  BY <4>2, <4>3
    <3> QED  BY <3>1, <3>2
  <2> QED  BY <1>1, <2>4, <2>5 DEF TurnInv
<1>3. CASE ~GivesUp(subTrees[i])
  <2>1. /\ subTrees' = [subTrees EXCEPT ![i] = Rotated(@)] /\ CollectorTo(r, i, "rotated")
        /\ late' = IF r = round THEN late ELSE [late EXCEPT ![round] = @ \cup {i}]
        /\ UNCHANGED errors
    BY <1>3 DEF CollectorRotates
  <2>2. /\ collector'[r][i].at = "rotated"
        /\ \A q \in RoundNrs, k \in Trees :
             q # r \/ k # i => collector'[q][k] = collector[q][k]
    BY <2>1, CollectorToFacts
  <2>3. \A q \in RoundNrs, k \in Trees : k \in errors'[q] => collector'[q][k].at = "done"
    BY <1>1, <2>1, <2>2 DEF TurnInv
  <2>4. /\ \A k \in late[round] : k \in late'[round]
        /\ r # round => i \in late'[round]
    BY <1>1, <2>1
  <2>5. subTrees'[i] = Rotated(subTrees[i]) /\ \A k \in Trees : k # i => subTrees'[k] = subTrees[k]
    BY <1>1, <2>1
  <2>6. ASSUME NEW k \in Trees PROVE Tracked(k)'
    <3>1. CASE k \in late[round]
      BY <1>1, <2>4, <3>1 DEF Tracked
    <3>2. CASE k = i /\ r # round
      BY <1>1, <2>4, <3>2 DEF Tracked
    <3>3. CASE k \notin late[round] /\ (k # i \/ r = round)
      <4>1. PICK c \in 0..(Length(k) - 2) : Stage(k, c)
        BY <1>1, <3>3 DEF TurnInv, Tracked
      <4>2. CASE k # i
        <5>1. collector'[round][k] = collector[round][k] /\ subTrees'[k] = subTrees[k]
          BY <1>1, <2>2, <2>5, <4>2
        <5>2. Stage(k, c)'
          BY <1>1, <2>1, <4>1, <5>1 DEF Stage
        <5> QED  BY <5>2 DEF Tracked
      <4>3. CASE k = i
        <5>1. c < Length(i) - 2 /\ c + 1 \in 0..(Length(i) - 2) /\ c + 1 >= 1
          BY <1>3, <4>1, <4>3, GivesUpLast, UsedFacts DEF Stage
        <5>2. Turned(i, Rotated(subTrees[i]), c + 1)
          BY <4>1, <4>3, <5>1, TurnedOnce DEF Stage
        <5>3. tried[round][i] = Foremost(i, c + 1) /\ i \notin errors[round]
          BY <1>1, <3>3, <4>1, <4>3 DEF Stage, TurnInv
        <5>4. Stage(i, c + 1)'
          BY <1>1, <2>1, <2>2, <2>5, <3>3, <4>3, <5>1, <5>2, <5>3 DEF Stage
        <5> QED  BY <4>3, <5>1, <5>4 DEF Tracked
      <4> QED  BY <4>2, <4>3
    <3> QED  BY <3>1, <3>2, <3>3
  <2> QED  BY <1>1, <2>3, <2>6 DEF TurnInv
<1> QED  BY <1>2, <1>3

LEMMA CollectorRestartsTurn ==
    ASSUME BaseInv, TurnInv, NEW r \in RoundNrs, NEW i \in Trees, CollectorRestarts(r, i)
    PROVE  TurnInv'
<1>1. /\ round \in RoundNrs /\ r <= round /\ collector[r][i].at = "rotated" /\ round > 0
      /\ collector \in [RoundNrs -> [Trees -> Goroutine]] /\ tried \in [RoundNrs -> [Trees -> SUBSET Members]]
      /\ collector' = [collector EXCEPT ![r] = [collector[r] EXCEPT ![i] =
                         [at |-> "select", sub |-> Len(subs) + 1]]]
      /\ tried' = [tried EXCEPT ![r] = [tried[r] EXCEPT ![i] = @ \cup {Subleader(subTrees[i])}]]
      /\ UNCHANGED <<round, subTrees, errors, late>>
  <2>1. collector \in [RoundNrs -> [Trees -> Goroutine]] /\ tried \in [RoundNrs -> [Trees -> SUBSET Members]]
    BY DEF BaseInv, Types
  <2> QED  BY <2>1, RunningRound DEF CollectorRestarts, RoundNrs, mainVars
<1>2. /\ collector'[r][i].at = "select" /\ tried'[r][i] = tried[r][i] \cup {Subleader(subTrees[i])}
      /\ \A q \in RoundNrs, k \in Trees :
           q # r \/ k # i => collector'[q][k] = collector[q][k] /\ tried'[q][k] = tried[q][k]
  BY <1>1
<1>3. \A q \in RoundNrs, k \in Trees : k \in errors'[q] => collector'[q][k].at = "done"
  BY <1>1, <1>2 DEF TurnInv
<1>4. ASSUME NEW k \in Trees PROVE Tracked(k)'
  <2>1. CASE k \in late[round]
    BY <1>1, <2>1 DEF Tracked
  <2>2. CASE k \notin late[round]
    <3>1. PICK c \in 0..(Length(k) - 2) : Stage(k, c)
      BY <1>1, <2>2 DEF TurnInv, Tracked
    <3>2. CASE round # r \/ k # i
      <4>1. collector'[round][k] = collector[round][k] /\ tried'[round][k] = tried[round][k]
        BY <1>1, <1>2, <3>2
      <4>2. Stage(k, c)'
        BY <1>1, <3>1, <4>1 DEF Stage
      <4> QED  BY <4>2 DEF Tracked
    <3>3. CASE round = r /\ k = i
      <4>1. tried[round][i] = Foremost(i, c) /\ Turned(i, subTrees[i], c) /\ i \notin errors[round]
        BY <1>1, <3>1, <3>3 DEF Stage, TurnInv
      <4>2. tried'[round][i] = Foremost(i, c + 1)
        <5>1. Subleader(subTrees[i]) = GenTrees[i][c + 2]
          BY <3>3, <4>1, TurnedOnce
        <5>2. Foremost(i, c + 1) = Foremost(i, c) \cup {GenTrees[i][c + 2]}
          BY <3>3, ForemostFacts
        <5> QED  BY <1>2, <3>3, <4>1, <5>1, <5>2
      <4>3. Stage(i, c)'
        BY <1>1, <1>2, <3>3, <4>1, <4>2 DEF Stage
      <4> QED  BY <3>3, <4>3 DEF Tracked
    <3> QED  BY <3>2, <3>3
  <2> QED  BY <2>1, <2>2
<1> QED  BY <1>1, <1>3, <1>4 DEF TurnInv

LEMMA NextTurn ==
    ASSUME Root = 0
    PROVE  BaseInv /\ TurnInv /\ [Next]_vars => TurnInv'
<1> SUFFICES ASSUME BaseInv, TurnInv, [Next]_vars PROVE TurnInv'
  OBVIOUS
<1>1. CASE UNCHANGED vars
  BY <1>1, TurnAside DEF vars, history
<1>2. CASE Collect
  BY <1>2, TurnAside DEF Collect, TakeResponse, TakeError, TimeOut, history
<1>3. ASSUME NEW x \in 1..Len(subs), SubStep(x) PROVE TurnInv'
  BY <1>3, TurnAside DEF SubStep, Announce, RootReceives, RootTimesOut, SubleaderAsks,
                         SubleaderReplies, LeafAnswers, history
<1>4. ASSUME NEW r \in RoundNrs, NEW i \in Trees, CollectorStep(r, i) PROVE TurnInv'
  <2>1. CASE CollectorEnds(r, i)
    BY <2>1, CollectorDoneTurn DEF CollectorEnds, history
  <2>2. CASE CollectorForwards(r, i)
    BY <2>2, CollectorDoneTurn DEF CollectorForwards, history
  <2> QED  BY <1>4, <2>1, <2>2, CollectorRotatesTurn, CollectorRestartsTurn DEF CollectorStep
<1> QED  BY <1>1, <1>2, <1>3, <1>4, PreNewRoundTurn, RunSubProtocolsTurn DEF Next

\* A collection is ended by a subtree only when every member of it has been its
\* subleader in the round, unless a goroutine of an earlier round has turned the
\* tree meanwhile: for every committee whose leader has index 0, as ChainBoost's
\* has (blscosi.go:338-366, 424-426).
THEOREM EverySubleader ==
    ASSUME Root = 0
    PROVE  Spec => []EverySubleaderTried
<1>1. BaseInv /\ TurnInv => EverySubleaderTried
  <2> SUFFICES ASSUME BaseInv, TurnInv, round > 0, NEW i \in errors[round], i \notin late[round]
               PROVE  tried[round][i] = Range(GenTrees[i]) \ {Root}
    BY DEF EverySubleaderTried
  <2>1. round \in RoundNrs
    BY CommitteeAssumption DEF BaseInv, Types, RoundNrs
  <2>2. i \in Trees
    BY <2>1 DEF BaseInv, Types
  <2>3. tried[round][i] = Foremost(i, Length(i) - 1)
    BY <2>2 DEF TurnInv, Tracked, Stage
  <2> QED  BY <2>2, <2>3, ForemostFacts
<1>2. BaseInv /\ TurnInv /\ [Next]_vars => TurnInv'
  BY NextTurn
<1> QED  BY <1>1, <1>2, InitBase, NextBase, InitTurn, PTL DEF Spec

-----------------------------------------------------------------------------
(* Sums over finite sets.                                                  *)

\* What holds of the empty set, and of a set with one element more, holds of a
\* finite set and its subsets.
LEMMA ElementByElement ==
    ASSUME NEW D, IsFiniteSet(D), NEW T, {} \in T,
           \A s \in SUBSET D : \A x \in D \ s : s \in T => s \cup {x} \in T
    PROVE  \A s \in SUBSET D : s \in T
<1> DEFINE C == {k \in Nat : \E s \in SUBSET D : s \notin T /\ Cardinality(s) = k}
<1>1. \A s \in SUBSET D : IsFiniteSet(s) /\ Cardinality(s) \in Nat
  BY FS_Subset, FS_CardinalityType
<1>2. ASSUME C # {} PROVE FALSE
  <2>1. PICK k \in C : \A m \in C : ~(m < k)
    <3>1. C \subseteq Nat
      OBVIOUS
    <3> HIDE DEF C
    <3> QED  BY <1>2, <3>1, LeastNumber
  <2>2. PICK s \in SUBSET D : s \notin T /\ Cardinality(s) = k
    BY <2>1
  <2>3. PICK x \in s : TRUE
    BY <2>2
  <2> DEFINE r == s \ {x}
  <2>4. Cardinality(r) = k - 1 /\ r \in SUBSET D /\ k \in Nat
    BY <1>1, <2>2, <2>3, FS_RemoveElement
  <2>5. Cardinality(r) \in Nat /\ k - 1 < k
    BY <1>1, <2>4
  <2>6. r \in T
    BY <2>1, <2>4, <2>5
  <2>7. s = r \cup {x} /\ x \in D \ r
    BY <2>2, <2>3
  <2> QED  BY <2>2, <2>4, <2>6, <2>7
<1> QED  BY <1>1, <1>2

Chosen(s) == CHOOSE x \in s : TRUE

\* The recursion with which a fold goes through the subsets of D.
Folded(F, f, D) ==
    F = [s \in SUBSET D |-> IF s = {} THEN 0 ELSE f[Chosen(s)] + F[s \ {Chosen(s)}]]

LEMMA FoldExists ==
    ASSUME NEW D, IsFiniteSet(D), NEW f \in [D -> Int]
    PROVE  \E F : Folded(F, f, D) /\ F \in [SUBSET D -> Int]
<1> DEFINE Small(k) == {s \in SUBSET D : Cardinality(s) <= k}
           Up(F, k) == /\ F \in [Small(k) -> Int]
                       /\ \A s \in Small(k) :
                             F[s] = IF s = {} THEN 0 ELSE f[Chosen(s)] + F[s \ {Chosen(s)}]
           T == {k \in Nat : ~ \E F : Up(F, k)}
<1>1. \A s \in SUBSET D : /\ IsFiniteSet(s) /\ Cardinality(s) \in Nat
                          /\ Cardinality(s) = 0 <=> s = {}
                          /\ Cardinality(s) <= Cardinality(D)
  BY FS_Subset, FS_CardinalityType, FS_EmptySet
<1>2. \A s \in SUBSET D : s # {} => /\ Chosen(s) \in s
                                    /\ Cardinality(s \ {Chosen(s)}) = Cardinality(s) - 1
  BY <1>1, FS_RemoveElement DEF Chosen
<1>3. 0 \notin T
  <2> DEFINE F == [s \in Small(0) |-> 0]
  <2>1. \A s \in Small(0) : s = {}
    BY <1>1
  <2>2. Up(F, 0)
    BY <2>1
  <2> QED  BY <2>2
<1>4. ASSUME NEW k \in T, k # 0, k - 1 \notin T PROVE FALSE
  <2>1. k \in Nat /\ k - 1 \in Nat
    BY <1>4
  <2>2. PICK F : Up(F, k - 1)
    BY <1>4, <2>1
  <2> DEFINE G == [s \in Small(k) |-> IF s = {} THEN 0 ELSE f[Chosen(s)] + F[s \ {Chosen(s)}]]
  <2>3. \A s \in Small(k) : s # {} => /\ s \ {Chosen(s)} \in Small(k - 1)
                                      /\ s \ {Chosen(s)} \in Small(k)
                                      /\ f[Chosen(s)] \in Int
    <3> TAKE s \in Small(k)
    <3> HAVE s # {}
    <3>1. s \in SUBSET D /\ s \ {Chosen(s)} \in SUBSET D
      OBVIOUS
    <3>2. /\ Chosen(s) \in s /\ Cardinality(s \ {Chosen(s)}) = Cardinality(s) - 1
          /\ Cardinality(s) \in Nat /\ Cardinality(s) <= k
      BY <1>1, <1>2, <3>1
    <3>3. Cardinality(s \ {Chosen(s)}) <= k - 1 /\ Cardinality(s \ {Chosen(s)}) <= k
      BY <2>1, <3>2
    <3> QED  BY <3>1, <3>2, <3>3
  <2>4. \A s \in Small(k) : s # {} => F[s \ {Chosen(s)}] \in Int
    BY <2>2, <2>3
  <2>5. G \in [Small(k) -> Int]
    BY <2>3, <2>4
  <2>6. \A s \in Small(k - 1) : s \in Small(k) /\ G[s] = F[s]
    <3> TAKE s \in Small(k - 1)
    <3>1. s \in Small(k)
      BY <1>1, <2>1
    <3> QED  BY <2>2, <3>1
  <2>7. \A s \in Small(k) : G[s] = IF s = {} THEN 0 ELSE f[Chosen(s)] + G[s \ {Chosen(s)}]
    BY <2>3, <2>6
  <2>8. Up(G, k)
    BY <2>5, <2>7
  <2> QED  BY <1>4, <2>8
<1>5. T = {}
  <2> SUFFICES ASSUME T # {} PROVE FALSE
    OBVIOUS
  <2>1. PICK k \in T : \A m \in T : ~(m < k)
    <3>1. T \subseteq Nat
      OBVIOUS
    <3> HIDE DEF T
    <3> QED  BY <3>1, LeastNumber
  <2>2. k # 0
    BY <1>3, <2>1
  <2>3. k \in Nat /\ k - 1 < k
    OBVIOUS
  <2>4. k - 1 \notin T
    BY <2>1, <2>3
  <2> QED  BY <1>4, <2>2, <2>4
<1>6. Cardinality(D) \in Nat /\ Small(Cardinality(D)) = SUBSET D
  BY <1>1
<1>7. PICK F : Up(F, Cardinality(D))
  BY <1>5, <1>6
<1>8. F \in [SUBSET D -> Int]
  BY <1>6, <1>7
<1>9. \A s \in SUBSET D : F[s] = IF s = {} THEN 0 ELSE f[Chosen(s)] + F[s \ {Chosen(s)}]
  BY <1>6, <1>7
<1> HIDE DEF Up, Small, T
<1>10. Folded(F, f, D)
  BY <1>8, <1>9 DEF Folded
<1> QED  BY <1>8, <1>10

\* F has the sum of f over every subset of D.
Adds(F, f, D) ==
    /\ F \in [SUBSET D -> Int]
    /\ F[{}] = 0
    /\ \A s \in SUBSET D : \A x \in D \ s : F[s \cup {x}] = F[s] + f[x]

\* The order in which a fold takes the elements makes no difference.
LEMMA FoldAdds ==
    ASSUME NEW D, IsFiniteSet(D), NEW f \in [D -> Int], NEW F \in [SUBSET D -> Int],
           Folded(F, f, D)
    PROVE  Adds(F, f, D)
<1> DEFINE Off(s) == \E x \in D \ s : F[s \cup {x}] # F[s] + f[x]
           C == {k \in Nat : \E s \in SUBSET D : Cardinality(s) = k /\ Off(s)}
<1>0. \A s \in SUBSET D : F[s] = IF s = {} THEN 0 ELSE f[Chosen(s)] + F[s \ {Chosen(s)}]
  <2>1. \A s \in SUBSET D : [r \in SUBSET D |->
                 IF r = {} THEN 0 ELSE f[Chosen(r)] + F[r \ {Chosen(r)}]][s]
             = IF s = {} THEN 0 ELSE f[Chosen(s)] + F[s \ {Chosen(s)}]
    OBVIOUS
  <2> QED  BY <2>1 DEF Folded
<1>1. F[{}] = 0
  BY <1>0
<1>2. \A s \in SUBSET D : IsFiniteSet(s) /\ Cardinality(s) \in Nat
  BY FS_Subset, FS_CardinalityType
<1>3. ASSUME NEW k \in C, \A m \in C : ~(m < k) PROVE FALSE
  <2>1. PICK s \in SUBSET D : Cardinality(s) = k /\ Off(s)
    OBVIOUS
  <2>2. PICK x \in D \ s : F[s \cup {x}] # F[s] + f[x]
    BY <2>1
  <2> DEFINE t == s \cup {x}
             y == Chosen(t)
  <2>3. t \in SUBSET D /\ y \in t /\ t # {}
    BY <2>2 DEF Chosen
  <2>4. F[t] = f[y] + F[t \ {y}]
    BY <1>0, <2>3
  <2>5. f[x] \in Int /\ f[y] \in Int /\ F[s] \in Int
    BY <2>2, <2>3
  <2>6. CASE y = x
    <3>1. t \ {y} = s
      BY <2>2, <2>6
    <3> HIDE DEF t, y
    <3>2. F[t] = f[x] + F[s]
      BY <2>4, <2>6, <3>1
    <3>3. F[t] = F[s] + f[x]
      BY <2>5, <3>2
    <3> QED  BY <2>2, <3>3 DEF t
  <2>7. CASE y # x
    <3> DEFINE r == s \ {y}
    <3>1. y \in s /\ y \in D \ r /\ x \in D \ r
      BY <2>2, <2>3, <2>7
    <3>2. t \ {y} = r \cup {x} /\ s = r \cup {y} /\ r \in SUBSET D
      BY <2>2, <2>7, <3>1
    <3>3. Cardinality(r) = k - 1 /\ Cardinality(r) \in Nat /\ k \in Nat
      <4>1. IsFiniteSet(s) /\ Cardinality(s) = k /\ k \in Nat
        BY <1>2, <2>1
      <4>2. Cardinality(r) \in Nat
        BY <1>2, <3>2
      <4> HIDE DEF y
      <4>3. Cardinality(r) = Cardinality(s) - 1
        BY <3>1, <4>1, FS_RemoveElement
      <4> QED  BY <4>1, <4>2, <4>3
    <3>4. k - 1 < k
      BY <3>3
    <3>5. ~Off(r)
      BY <1>3, <3>2, <3>3, <3>4
    <3>6. F[r \cup {x}] = F[r] + f[x] /\ F[r \cup {y}] = F[r] + f[y]
      BY <3>1, <3>5
    <3>7. F[r] \in Int
      BY <3>2
    <3> HIDE DEF r, y
    <3>8. F[t] = f[y] + (F[r] + f[x]) /\ F[s] = F[r] + f[y]
      BY <2>4, <3>2, <3>6
    <3>9. F[t] = F[s] + f[x]
      BY <2>5, <3>7, <3>8
    <3> QED  BY <2>2, <3>9
  <2> QED  BY <2>6, <2>7
<1>4. C = {}
  <2>1. C \subseteq Nat
    OBVIOUS
  <2> HIDE DEF C
  <2> QED  BY <1>3, <2>1, LeastNumber
<1>5. \A s \in SUBSET D : ~Off(s)
  BY <1>2, <1>4
<1> QED  BY <1>1, <1>5 DEF Adds

\* The sum that a fold computes, before it is reduced.
Plain(f) == FoldFunction(+, 0, f)

LEMMA PlainAdds ==
    ASSUME NEW D, IsFiniteSet(D), NEW f \in [D -> Int]
    PROVE  \E F : Adds(F, f, D) /\ Plain(f) = F[D]
<1> DEFINE G == CHOOSE F : Folded(F, f, D)
<1>1. PICK F : Folded(F, f, D) /\ F \in [SUBSET D -> Int]
  BY FoldExists
<1>2. Folded(G, f, D)
  BY <1>1
<1>3. G \in [SUBSET D -> Int]
  <2> DEFINE C == {k \in Nat : \E s \in SUBSET D : Cardinality(s) = k /\ G[s] \notin Int}
  <2> HIDE DEF G
  <2>1. \A s \in SUBSET D : IsFiniteSet(s) /\ Cardinality(s) \in Nat
    BY FS_Subset, FS_CardinalityType
  <2>2. DOMAIN G = SUBSET D
    BY <1>2 DEF Folded
  <2>3. \A s \in SUBSET D : G[s] = IF s = {} THEN 0 ELSE f[Chosen(s)] + G[s \ {Chosen(s)}]
    <3>1. \A s \in SUBSET D : [r \in SUBSET D |->
                   IF r = {} THEN 0 ELSE f[Chosen(r)] + G[r \ {Chosen(r)}]][s]
               = IF s = {} THEN 0 ELSE f[Chosen(s)] + G[s \ {Chosen(s)}]
      OBVIOUS
    <3> QED  BY <1>2, <3>1 DEF Folded
  <2>4. ASSUME NEW k \in C, \A m \in C : ~(m < k) PROVE FALSE
    <3>1. PICK s \in SUBSET D : Cardinality(s) = k /\ G[s] \notin Int
      OBVIOUS
    <3>2. s # {}
      <4>1. {} \in SUBSET D
        OBVIOUS
      <4>2. G[{}] = 0
        BY <2>3, <4>1
      <4> QED  BY <3>1, <4>2
    <3> DEFINE r == s \ {Chosen(s)}
    <3>3. Chosen(s) \in s /\ f[Chosen(s)] \in Int /\ r \in SUBSET D
      BY <3>2 DEF Chosen
    <3>4. Cardinality(r) = k - 1 /\ k - 1 < k /\ k - 1 \in Nat
      <4>1. Cardinality(r) = k - 1 /\ Cardinality(r) \in Nat /\ k \in Nat
        BY <2>1, <3>1, <3>3, FS_RemoveElement
      <4> QED  BY <4>1
    <3>5. k - 1 \notin C
      BY <2>4, <3>4
    <3>6. G[r] \in Int
      BY <3>3, <3>4, <3>5
    <3>7. G[s] = f[Chosen(s)] + G[r]
      BY <2>3, <3>2
    <3> HIDE DEF r
    <3> QED  BY <3>1, <3>3, <3>6, <3>7
  <2>5. C = {}
    <3>1. C \subseteq Nat
      OBVIOUS
    <3> HIDE DEF C
    <3> QED  BY <2>4, <3>1, LeastNumber
  <2>6. \A s \in SUBSET D : G[s] \in Int
    BY <2>1, <2>5
  <2>7. G = [s \in SUBSET D |-> G[s]]
    BY <1>2, <2>2 DEF Folded
  <2> QED  BY <2>6, <2>7
<1>4. Plain(f) = G[D]
  <2>1. DOMAIN f = D
    OBVIOUS
  <2> QED  BY <2>1 DEF Plain, FoldFunction, FoldFunctionOnSet, MapThenFoldSet, Folded, Chosen
<1> HIDE DEF G
<1>5. Adds(G, f, D)
  BY <1>2, <1>3, FoldAdds
<1> QED  BY <1>4, <1>5

\* A function on a part of its domain.
Part(f, s) == [i \in s |-> f[i]]

\* A sum over a set with one element more.
LEMMA PlainStep ==
    ASSUME NEW D, IsFiniteSet(D), NEW f \in [D -> Int]
    PROVE  /\ Plain(Part(f, {})) = 0
           /\ \A s \in SUBSET D : Plain(Part(f, s)) \in Int
           /\ \A s \in SUBSET D : \A x \in D \ s :
                 Plain(Part(f, s \cup {x})) = Plain(Part(f, s)) + f[x]
           /\ Plain(f) = Plain(Part(f, D))
<1>1. PICK F : Adds(F, f, D)
  BY PlainAdds
<1>2. ASSUME NEW s \in SUBSET D
      PROVE  Plain(Part(f, s)) = F[s]
  <2> DEFINE g == Part(f, s)
  <2>1. IsFiniteSet(s) /\ g \in [s -> Int]
    BY FS_Subset DEF Part
  <2> HIDE DEF g
  <2>2. PICK G : Adds(G, g, s) /\ Plain(g) = G[s]
    BY <2>1, PlainAdds
  <2> DEFINE T == {t \in SUBSET s : G[t] = F[t]}
  <2>3. {} \in T
    BY <1>1, <2>2 DEF Adds
  <2>4. ASSUME NEW t \in SUBSET s, NEW x \in s \ t, t \in T
        PROVE  t \cup {x} \in T
    <3>1. G[t \cup {x}] = G[t] + g[x]
      BY <2>2 DEF Adds
    <3>2. F[t \cup {x}] = F[t] + f[x]
      BY <1>1 DEF Adds
    <3>3. g[x] = f[x]
      BY DEF g, Part
    <3>4. G[t] = F[t]
      BY <2>4
    <3> QED  BY <3>1, <3>2, <3>3, <3>4
  <2>5. s \in T
    <3> HIDE DEF T
    <3>1. \A t \in SUBSET s : \A x \in s \ t : t \in T => t \cup {x} \in T
      BY <2>4
    <3>2. \A t \in SUBSET s : t \in T
      BY <2>1, <2>3, <3>1, ElementByElement
    <3> QED  BY <3>2
  <2> QED  BY <2>2, <2>5 DEF g
<1>3. \A s \in SUBSET D : F[s] \in Int
  BY <1>1 DEF Adds
<1>4. Plain(Part(f, {})) = 0
  <2>1. Plain(Part(f, {})) = F[{}]
    BY <1>2
  <2> QED  BY <1>1, <2>1 DEF Adds
<1>5. ASSUME NEW s \in SUBSET D, NEW x \in D \ s
      PROVE  Plain(Part(f, s \cup {x})) = Plain(Part(f, s)) + f[x]
  <2>1. F[s \cup {x}] = F[s] + f[x]
    BY <1>1 DEF Adds
  <2>2. s \cup {x} \in SUBSET D
    OBVIOUS
  <2>3. Plain(Part(f, s \cup {x})) = F[s \cup {x}]
    BY <1>2, <2>2
  <2> QED  BY <1>2, <2>1, <2>3
<1>6. f = Part(f, D)
  BY DEF Part
<1> QED  BY <1>2, <1>3, <1>4, <1>5, <1>6
LEMMA PlainOneMore ==
    ASSUME NEW D, IsFiniteSet(D), NEW f \in [D -> Int], NEW s \in SUBSET D, NEW x \in D \ s
    PROVE  /\ Plain(Part(f, s \cup {x})) = Plain(Part(f, s)) + f[x]
           /\ Plain(Part(f, s)) \in Int
BY PlainStep

LEMMA PlainNumber ==
    ASSUME NEW D, IsFiniteSet(D), NEW f \in [D -> Int]
    PROVE  Plain(f) \in Int
BY PlainStep

\* A factor can be taken out of a sum.
LEMMA PlainScaled ==
    ASSUME NEW D, IsFiniteSet(D), NEW f \in [D -> Int], NEW c \in Int
    PROVE  Plain([i \in D |-> c * f[i]]) = c * Plain(f)
<1> DEFINE g == [i \in D |-> c * f[i]]
           T == {s \in SUBSET D : Plain(Part(g, s)) = c * Plain(Part(f, s))}
<1>1. g \in [D -> Int] /\ \A i \in D : g[i] = c * f[i]
  OBVIOUS
<1> HIDE DEF g
<1>2. {} \in T
  <2>1. Plain(Part(g, {})) = 0 /\ Plain(Part(f, {})) = 0
    BY <1>1, PlainStep
  <2> QED  BY <2>1
<1>3. ASSUME NEW s \in SUBSET D, NEW x \in D \ s, s \in T
      PROVE  s \cup {x} \in T
  <2> DEFINE a == Plain(Part(f, s))
             b == Plain(Part(g, s))
  <2>1. Plain(Part(f, s \cup {x})) = a + f[x] /\ a \in Int
    BY PlainOneMore
  <2>2. Plain(Part(g, s \cup {x})) = b + g[x]
    BY <1>1, PlainOneMore
  <2>3. b = c * a /\ g[x] = c * f[x] /\ f[x] \in Int
    BY <1>1, <1>3
  <2> HIDE DEF a, b
  <2>4. b + g[x] = c * (a + f[x])
    BY <2>1, <2>3
  <2> QED  BY <2>1, <2>2, <2>4
<1>4. D \in T
  <2> HIDE DEF T
  <2>1. \A s \in SUBSET D : \A x \in D \ s : s \in T => s \cup {x} \in T
    BY <1>3
  <2>2. \A s \in SUBSET D : s \in T
    BY <1>2, <2>1, ElementByElement
  <2> QED  BY <2>2
<1>5. Plain(g) = Plain(Part(g, D)) /\ Plain(f) = Plain(Part(f, D))
  BY <1>1, PlainStep
<1>6. Plain(g) = c * Plain(f)
  BY <1>4, <1>5
<1> QED  BY <1>6 DEF g

\* A sum of sums.
LEMMA PlainAdded ==
    ASSUME NEW D, IsFiniteSet(D), NEW f \in [D -> Int], NEW g \in [D -> Int]
    PROVE  Plain([i \in D |-> f[i] + g[i]]) = Plain(f) + Plain(g)
<1> DEFINE h == [i \in D |-> f[i] + g[i]]
           T == {s \in SUBSET D : Plain(Part(h, s))
                                    = Plain(Part(f, s)) + Plain(Part(g, s))}
<1>1. h \in [D -> Int] /\ \A i \in D : h[i] = f[i] + g[i]
  OBVIOUS
<1> HIDE DEF h
<1>2. {} \in T
  <2>1. /\ Plain(Part(h, {})) = 0 /\ Plain(Part(f, {})) = 0
        /\ Plain(Part(g, {})) = 0
    BY <1>1, PlainStep
  <2> QED  BY <2>1
<1>3. ASSUME NEW s \in SUBSET D, NEW x \in D \ s, s \in T
      PROVE  s \cup {x} \in T
  <2> DEFINE a == Plain(Part(f, s))
             b == Plain(Part(g, s))
             c == Plain(Part(h, s))
  <2>1. Plain(Part(f, s \cup {x})) = a + f[x] /\ a \in Int
    BY PlainOneMore
  <2>2. Plain(Part(g, s \cup {x})) = b + g[x] /\ b \in Int
    BY PlainOneMore
  <2>3. Plain(Part(h, s \cup {x})) = c + h[x]
    BY <1>1, PlainOneMore
  <2>4. c = a + b /\ h[x] = f[x] + g[x] /\ f[x] \in Int /\ g[x] \in Int
    BY <1>1, <1>3
  <2> HIDE DEF a, b, c
  <2>5. c + h[x] = (a + f[x]) + (b + g[x])
    BY <2>1, <2>2, <2>4
  <2> QED  BY <2>1, <2>2, <2>3, <2>5
<1>4. D \in T
  <2> HIDE DEF T
  <2>1. \A s \in SUBSET D : \A x \in D \ s : s \in T => s \cup {x} \in T
    BY <1>3
  <2>2. \A s \in SUBSET D : s \in T
    BY <1>2, <2>1, ElementByElement
  <2> QED  BY <2>2
<1>5. /\ Plain(h) = Plain(Part(h, D)) /\ Plain(f) = Plain(Part(f, D))
      /\ Plain(g) = Plain(Part(g, D))
  BY <1>1, PlainStep
<1>6. Plain(h) = Plain(f) + Plain(g)
  BY <1>4, <1>5
<1> QED  BY <1>6 DEF h

\* A sum with one term.
LEMMA PlainSingle ==
    ASSUME NEW D, IsFiniteSet(D), NEW a \in D, NEW c \in Int
    PROVE  Plain([i \in D |-> IF i = a THEN c ELSE 0]) = c
<1> DEFINE f == [i \in D |-> IF i = a THEN c ELSE 0]
           r == D \ {a}
           g == Part(f, r)
<1>1. f \in [D -> Int] /\ f[a] = c
  OBVIOUS
<1>2. IsFiniteSet(r) /\ r \in SUBSET D /\ a \in D \ r /\ D = r \cup {a}
  BY FS_Subset
<1>3. g \in [r -> Int] /\ g = [i \in r |-> 0 * g[i]]
  BY DEF Part
<1> HIDE DEF f, r, g
<1>4. Plain(g) \in Int
  BY <1>2, <1>3, PlainNumber
<1>5. Plain(g) = 0 * Plain(g)
  BY <1>2, <1>3, PlainScaled
<1>6. Plain(g) = 0
  BY <1>4, <1>5
<1>7. Plain(f) = Plain(Part(f, D))
  BY <1>1, PlainStep
<1>8. Plain(Part(f, r \cup {a})) = Plain(Part(f, r)) + f[a]
  BY <1>1, <1>2, PlainOneMore
<1>9. Plain(f) = 0 + c
  BY <1>1, <1>2, <1>6, <1>7, <1>8 DEF g
<1> QED  BY <1>9 DEF f

\* The sums of h's rows and of its columns.
RowSums(h, D) == [i \in D |-> Plain(h[i])]
ColumnSums(h, D, E) == [j \in E |-> Plain([i \in D |-> h[i][j]])]

\* A double sum can be taken in either order.
LEMMA PlainExchanged ==
    ASSUME NEW D, IsFiniteSet(D), NEW E, IsFiniteSet(E), NEW h \in [D -> [E -> Int]]
    PROVE  Plain(RowSums(h, D)) = Plain(ColumnSums(h, D, E))
<1> DEFINE a == [i \in D |-> Plain(h[i])]
           B(s) == [j \in E |-> Plain([i \in s |-> h[i][j]])]
           T == {s \in SUBSET D : Plain(Part(a, s)) = Plain(B(s))}
<1>1. a \in [D -> Int] /\ \A i \in D : a[i] = Plain(h[i])
  <2>1. \A i \in D : Plain(h[i]) \in Int
    BY PlainNumber
  <2> QED  BY <2>1
<1> HIDE DEF a
<1>2. ASSUME NEW j \in E
      PROVE  /\ Plain([i \in {} |-> h[i][j]]) = 0
             /\ \A s \in SUBSET D : Plain([i \in s |-> h[i][j]]) \in Int
             /\ \A s \in SUBSET D : \A x \in D \ s :
                   Plain([i \in s \cup {x} |-> h[i][j]]) = Plain([i \in s |-> h[i][j]]) + h[x][j]
  <2> DEFINE col == [i \in D |-> h[i][j]]
  <2>1. col \in [D -> Int] /\ \A i \in D : col[i] = h[i][j]
    OBVIOUS
  <2>2. \A s \in SUBSET D : [i \in s |-> h[i][j]] = Part(col, s)
    BY DEF Part
  <2>3. \A s \in SUBSET D : \A x \in D \ s :
           [i \in s \cup {x} |-> h[i][j]] = Part(col, s \cup {x})
    BY DEF Part
  <2> HIDE DEF col
  <2>4. Plain([i \in {} |-> h[i][j]]) = 0
    <3>1. Plain(Part(col, {})) = 0
      BY <2>1, PlainStep
    <3>2. {} \in SUBSET D
      OBVIOUS
    <3>3. [i \in {} |-> h[i][j]] = Part(col, {})
      BY <2>2, <3>2
    <3> QED  BY <3>1, <3>3
  <2>5. \A s \in SUBSET D : Plain([i \in s |-> h[i][j]]) \in Int
    <3>1. \A s \in SUBSET D : Plain(Part(col, s)) \in Int
      BY <2>1, PlainStep
    <3> QED  BY <2>2, <3>1
  <2>6. ASSUME NEW s \in SUBSET D, NEW x \in D \ s
        PROVE  Plain([i \in s \cup {x} |-> h[i][j]]) = Plain([i \in s |-> h[i][j]]) + h[x][j]
    <3>1. Plain(Part(col, s \cup {x})) = Plain(Part(col, s)) + col[x]
      BY <2>1, PlainOneMore
    <3>2. col[x] = h[x][j]
      BY <2>1
    <3>3. [i \in s |-> h[i][j]] = Part(col, s)
      BY <2>2
    <3>4. [i \in s \cup {x} |-> h[i][j]] = Part(col, s \cup {x})
      BY <2>3
    <3> QED  BY <3>1, <3>2, <3>3, <3>4
  <2> QED  BY <2>4, <2>5, <2>6
<1>3. \A s \in SUBSET D : B(s) \in [E -> Int]
  BY <1>2
<1>4. {} \in T
  <2>1. Plain(Part(a, {})) = 0
    BY <1>1, PlainStep
  <2> DEFINE z == B({})
  <2>2. z \in [E -> Int] /\ z = [j \in E |-> 0 * z[j]]
    BY <1>2
  <2> HIDE DEF z
  <2>3. Plain(z) = 0 * Plain(z) /\ Plain(z) \in Int
    BY <2>2, PlainScaled, PlainNumber
  <2>4. Plain(z) = 0
    BY <2>3
  <2>5. {} \in SUBSET D /\ Plain(B({})) = 0
    BY <2>4 DEF z
  <2> HIDE DEF B
  <2> QED  BY <2>1, <2>5
<1>5. ASSUME NEW s \in SUBSET D, NEW x \in D \ s, s \in T
      PROVE  s \cup {x} \in T
  <2> DEFINE u == B(s)
             v == B(s \cup {x})
             r == h[x]
  <2>1. u \in [E -> Int] /\ r \in [E -> Int]
    BY <1>3
  <2>2. v = [j \in E |-> u[j] + r[j]]
    BY <1>2
  <2>3. Plain(Part(a, s \cup {x})) = Plain(Part(a, s)) + a[x]
    BY <1>1, PlainOneMore
  <2>4. a[x] = Plain(r)
    BY <1>1
  <2>5. Plain(Part(a, s)) = Plain(u)
    BY <1>5
  <2>6. s \cup {x} \in SUBSET D
    OBVIOUS
  <2> HIDE DEF u, r
  <2>7. Plain(v) = Plain(u) + Plain(r)
    <3> HIDE DEF v
    <3> QED  BY <2>1, <2>2, PlainAdded
  <2>8. Plain(Part(a, s \cup {x})) = Plain(v)
    BY <2>3, <2>4, <2>5, <2>7
  <2>9. Plain(Part(a, s \cup {x})) = Plain(B(s \cup {x}))
    BY <2>8 DEF v
  <2> HIDE DEF B
  <2> QED  BY <2>6, <2>9
<1>6. D \in T
  <2> HIDE DEF T
  <2>1. \A s \in SUBSET D : \A x \in D \ s : s \in T => s \cup {x} \in T
    BY <1>5
  <2>2. \A s \in SUBSET D : s \in T
    BY <1>4, <2>1, ElementByElement
  <2> QED  BY <2>2
<1>7. Plain(a) = Plain(Part(a, D))
  BY <1>1, PlainStep
<1>8. Plain(a) = Plain(B(D))
  BY <1>6, <1>7
<1> QED  BY <1>8 DEF a, RowSums, ColumnSums
\* The sums of w over the elements with the same key.
Grouped(w, K, key, D) == [i \in D |-> Plain(Part(w, {k \in K : key[k] = i}))]

\* The terms can be grouped by a key.
LEMMA PlainGrouped ==
    ASSUME NEW K, IsFiniteSet(K), NEW D, IsFiniteSet(D), NEW key \in [K -> D],
           NEW w \in [K -> Int]
    PROVE  Plain(Grouped(w, K, key, D)) = Plain(w)
<1> DEFINE Those(s, i) == {k \in s : key[k] = i}
           G(s) == [i \in D |-> Plain(Part(w, Those(s, i)))]
           T == {s \in SUBSET K : Plain(G(s)) = Plain(Part(w, s))}
<1>1. \A s \in SUBSET K : G(s) \in [D -> Int]
  <2> TAKE s \in SUBSET K
  <2>1. \A i \in D : Those(s, i) \in SUBSET K
    OBVIOUS
  <2> HIDE DEF Those
  <2>2. \A i \in D : Plain(Part(w, Those(s, i))) \in Int
    BY <2>1, PlainStep
  <2> QED  BY <2>2
<1>2. {} \in T
  <2> DEFINE g == G({})
  <2>1. \A i \in D : Those({}, i) = {}
    OBVIOUS
  <2>2. Plain(Part(w, {})) = 0
    BY PlainStep
  <2>3. \A i \in D : g[i] = 0
    BY <2>1, <2>2
  <2>4. g \in [D -> Int]
    BY <1>1
  <2>5. g = [i \in D |-> 0 * g[i]]
    BY <2>3
  <2> HIDE DEF g
  <2>6. Plain(g) = 0 * Plain(g) /\ Plain(g) \in Int
    BY <2>4, <2>5, PlainScaled, PlainNumber
  <2>7. Plain(g) = 0
    BY <2>6
  <2>8. Plain(G({})) = Plain(Part(w, {})) /\ {} \in SUBSET K
    BY <2>2, <2>7 DEF g
  <2> HIDE DEF G
  <2> QED  BY <2>8
<1>3. ASSUME NEW s \in SUBSET K, NEW x \in K \ s, s \in T
      PROVE  s \cup {x} \in T
  <2> DEFINE g == G(s)
             r == G(s \cup {x})
             e == [i \in D |-> IF i = key[x] THEN w[x] ELSE 0]
  <2>1. key[x] \in D /\ w[x] \in Int
    OBVIOUS
  <2>2. g \in [D -> Int] /\ e \in [D -> Int]
    BY <1>1, <2>1
  <2>3. ASSUME NEW i \in D PROVE r[i] = g[i] + e[i]
    <3> DEFINE t == Those(s, i)
    <3>1. t \in SUBSET K /\ x \in K \ t
      OBVIOUS
    <3>2. Those(s \cup {x}, i) = IF i = key[x] THEN t \cup {x} ELSE t
      OBVIOUS
    <3>3. r[i] = Plain(Part(w, Those(s \cup {x}, i))) /\ g[i] = Plain(Part(w, t))
      OBVIOUS
    <3>4. e[i] = IF i = key[x] THEN w[x] ELSE 0
      OBVIOUS
    <3> HIDE DEF t, r, g, e, Those
    <3>5. Plain(Part(w, t \cup {x})) = Plain(Part(w, t)) + w[x] /\ Plain(Part(w, t)) \in Int
      BY <3>1, PlainOneMore
    <3>6. CASE i = key[x]
      BY <3>2, <3>3, <3>4, <3>5, <3>6
    <3>7. CASE i # key[x]
      BY <3>2, <3>3, <3>4, <3>5, <3>7
    <3> QED  BY <3>6, <3>7
  <2>4. r = [i \in D |-> g[i] + e[i]]
    <3>1. r = [i \in D |-> r[i]]
      OBVIOUS
    <3> HIDE DEF r, g, e
    <3> QED  BY <2>3, <3>1
  <2>5. Plain(e) = w[x]
    BY <2>1, PlainSingle
  <2>6. Plain(g) = Plain(Part(w, s))
    BY <1>3
  <2>7. Plain(Part(w, s \cup {x})) = Plain(Part(w, s)) + w[x]
    BY PlainOneMore
  <2> HIDE DEF g, e
  <2>8. Plain(r) = Plain(g) + Plain(e)
    <3> HIDE DEF r
    <3> QED  BY <2>2, <2>4, PlainAdded
  <2>9. Plain(r) = Plain(Part(w, s \cup {x})) /\ s \cup {x} \in SUBSET K
    BY <2>5, <2>6, <2>7, <2>8
  <2>10. Plain(G(s \cup {x})) = Plain(Part(w, s \cup {x})) /\ s \cup {x} \in SUBSET K
    BY <2>9 DEF r
  <2> HIDE DEF G
  <2> QED  BY <2>10
<1>4. K \in T
  <2> HIDE DEF T
  <2>1. \A s \in SUBSET K : \A x \in K \ s : s \in T => s \cup {x} \in T
    BY <1>3
  <2>2. \A s \in SUBSET K : s \in T
    BY <1>2, <2>1, ElementByElement
  <2> QED  BY <2>2
<1>5. Plain(w) = Plain(Part(w, K))
  BY PlainStep
<1>6. Plain(G(K)) = Plain(w)
  BY <1>4, <1>5
<1> QED  BY <1>6 DEF Grouped

-----------------------------------------------------------------------------
(* Numbers modulo the order of the groups.                                 *)

\* a and b stand for the same scalar.
Same(a, b) == \E z \in Int : a - b = Order * z

LEMMA SameIsEquality ==
    /\ \A a \in Int : Same(a, a)
    /\ \A a, b \in Int : Same(a, b) => Same(b, a)
    /\ \A a, b, c \in Int : Same(a, b) /\ Same(b, c) => Same(a, c)
<1>0. Order \in Nat \ {0}
  BY PorAssumption
<1>1. ASSUME NEW a \in Int PROVE Same(a, a)
  <2>1. a - a = Order * 0
    BY <1>0
  <2> QED  BY <2>1 DEF Same
<1>2. ASSUME NEW a \in Int, NEW b \in Int, Same(a, b) PROVE Same(b, a)
  <2>1. PICK z \in Int : a - b = Order * z
    BY <1>2 DEF Same
  <2>2. b - a = Order * (-z) /\ -z \in Int
    BY <1>0, <2>1
  <2> QED  BY <2>2 DEF Same
<1>3. ASSUME NEW a \in Int, NEW b \in Int, NEW c \in Int, Same(a, b), Same(b, c)
      PROVE  Same(a, c)
  <2>1. PICK y \in Int : a - b = Order * y
    BY <1>3 DEF Same
  <2>2. PICK z \in Int : b - c = Order * z
    BY <1>3 DEF Same
  <2>3. Order * (y + z) = Order * y + Order * z /\ y + z \in Int
    BY <1>0
  <2>4. a - c = Order * (y + z)
    BY <2>1, <2>2, <2>3
  <2> QED  BY <2>3, <2>4 DEF Same
<1> QED  BY <1>1, <1>2, <1>3

LEMMA SameAdded ==
    ASSUME NEW a \in Int, NEW b \in Int, NEW c \in Int, NEW d \in Int, Same(a, b), Same(c, d)
    PROVE  Same(a + c, b + d) /\ Same(a - c, b - d)
<1>0. Order \in Nat \ {0}
  BY PorAssumption
<1>1. PICK y \in Int : a - b = Order * y
  BY DEF Same
<1>2. PICK z \in Int : c - d = Order * z
  BY DEF Same
<1>3. /\ Order * (y + z) = Order * y + Order * z /\ y + z \in Int
      /\ Order * (y - z) = Order * y - Order * z /\ y - z \in Int
  BY <1>0
<1>4. (a + c) - (b + d) = (a - b) + (c - d) /\ (a - c) - (b - d) = (a - b) - (c - d)
  OBVIOUS
<1>5. (a + c) - (b + d) = Order * (y + z) /\ (a - c) - (b - d) = Order * (y - z)
  BY <1>1, <1>2, <1>3, <1>4
<1> QED  BY <1>3, <1>5 DEF Same

LEMMA SameScaled ==
    ASSUME NEW a \in Int, NEW b \in Int, NEW c \in Int, Same(a, b)
    PROVE  Same(c * a, c * b)
<1>0. Order \in Nat \ {0}
  BY PorAssumption
<1>1. PICK z \in Int : a - b = Order * z
  BY DEF Same
<1>2. c * a - c * b = c * (a - b) /\ c * (Order * z) = Order * (c * z) /\ c * z \in Int
  BY <1>0
<1>3. c * a - c * b = Order * (c * z)
  BY <1>1, <1>2
<1> QED  BY <1>2, <1>3 DEF Same

\* What is reduced stands for the same scalar.
LEMMA SameReduced ==
    ASSUME NEW a \in Int
    PROVE  a % Order \in Scalars /\ a % Order \in Int /\ Same(a % Order, a)
<1>0. Order \in Nat \ {0}
  BY PorAssumption
<1> DEFINE r == a % Order
           z == a \div Order
<1>1. a = Order * z + r /\ z \in Int /\ r \in 0..(Order - 1)
  BY <1>0
<1> HIDE DEF r, z
<1>2. r - a = Order * (-z) /\ -z \in Int
  BY <1>0, <1>1
<1>3. Same(r, a)
  BY <1>2 DEF Same
<1> QED  BY <1>1, <1>3 DEF r, Scalars

\* Equal after the reduction.
LEMMA SameOnceReduced ==
    ASSUME NEW a \in Int, NEW b \in Int
    PROVE  a % Order = b % Order <=> Same(a, b)
<1> DEFINE r == a % Order
           s == b % Order
<1>0. Order \in Nat \ {0}
  BY PorAssumption
<1>1. r \in 0..(Order - 1) /\ s \in 0..(Order - 1) /\ Same(r, a) /\ Same(s, b)
  BY SameReduced DEF Scalars
<1> HIDE DEF r, s
<1>2. ASSUME r = s PROVE Same(a, b)
  BY <1>1, <1>2, SameIsEquality
<1>3. ASSUME Same(a, b) PROVE r = s
  <2>1. Same(r, s)
    BY <1>1, <1>3, SameIsEquality
  <2>2. PICK z \in Int : r - s = Order * z
    BY <2>1 DEF Same
  <2>3. r - s < Order /\ r - s > -Order
    BY <1>0, <1>1
  <2>4. ~(z >= 1)
    <3>1. z >= 1 => Order * z >= Order * 1
      BY <1>0
    <3> QED  BY <1>0, <2>2, <2>3, <3>1
  <2>5. ~(z <= -1)
    <3>1. z <= -1 => Order * z <= Order * (-1)
      BY <1>0
    <3> QED  BY <1>0, <2>2, <2>3, <3>1
  <2>6. z = 0
    BY <2>4, <2>5
  <2>7. r - s = 0
    BY <1>0, <2>2, <2>6
  <2> QED  BY <1>1, <2>7
<1> QED  BY <1>2, <1>3 DEF r, s

\* Sums of terms that stand for the same scalars.
LEMMA PlainSame ==
    ASSUME NEW D, IsFiniteSet(D), NEW f \in [D -> Int], NEW g \in [D -> Int],
           \A i \in D : Same(f[i], g[i])
    PROVE  Same(Plain(f), Plain(g))
<1> DEFINE T == {s \in SUBSET D : Same(Plain(Part(f, s)), Plain(Part(g, s)))}
<1>1. {} \in T
  <2>1. Plain(Part(f, {})) = 0 /\ Plain(Part(g, {})) = 0
    BY PlainStep
  <2>2. Same(0, 0)
    BY SameIsEquality
  <2> QED  BY <2>1, <2>2
<1>2. ASSUME NEW s \in SUBSET D, NEW x \in D \ s, s \in T
      PROVE  s \cup {x} \in T
  <2> DEFINE a == Plain(Part(f, s))
             b == Plain(Part(g, s))
  <2>1. Plain(Part(f, s \cup {x})) = a + f[x] /\ a \in Int
    BY PlainOneMore
  <2>2. Plain(Part(g, s \cup {x})) = b + g[x] /\ b \in Int
    BY PlainOneMore
  <2>3. Same(a, b) /\ Same(f[x], g[x]) /\ f[x] \in Int /\ g[x] \in Int
    BY <1>2
  <2> HIDE DEF a, b
  <2>4. Same(a + f[x], b + g[x])
    BY <2>1, <2>2, <2>3, SameAdded
  <2> QED  BY <2>1, <2>2, <2>4
<1>3. D \in T
  <2> HIDE DEF T
  <2>1. \A s \in SUBSET D : \A x \in D \ s : s \in T => s \cup {x} \in T
    BY <1>2
  <2>2. \A s \in SUBSET D : s \in T
    BY <1>1, <2>1, ElementByElement
  <2> QED  BY <2>2
<1>4. Plain(f) = Plain(Part(f, D)) /\ Plain(g) = Plain(Part(g, D))
  BY PlainStep
<1> QED  BY <1>3, <1>4
-----------------------------------------------------------------------------
(* What a query asks for.                                                  *)

LEMMA FiniteRanges ==
    IsFiniteSet(1..l) /\ IsFiniteSet(Blocks) /\ IsFiniteSet(Sectors)
<1>1. l \in Int /\ n - 1 \in Int /\ SectorNumber \in Int
  BY PorAssumption
<1> QED  BY <1>1, FS_Interval DEF Blocks, Sectors

LEMMA QueryIs ==
    ASSUME NEW sd \in Seeds
    PROVE  LET rq == randomizedVerifyingQuery(sd)
           IN  rq.i \in [1..l -> Blocks] /\ rq.v_i \in [1..l -> Int]
<1> DEFINE rq == randomizedVerifyingQuery(sd)
<1>1. rq.i = [k \in 1..l |-> Intn[sd][k] % n] /\ rq.v_i = Picked[sd]
  BY DEF randomizedVerifyingQuery
<1> HIDE DEF rq
<1>2. n \in Nat \ {0} /\ Intn[sd] \in [1..l -> Nat] /\ Picked[sd] \in [1..l -> Scalars]
  BY PorAssumption
<1>3. \A a \in Nat : a % n \in 0..(n - 1)
  BY <1>2
<1>4. rq.i \in [1..l -> Blocks]
  BY <1>1, <1>2, <1>3 DEF Blocks
<1>5. Scalars \subseteq Int
  BY DEF Scalars
<1>6. rq.v_i \in [1..l -> Int]
  BY <1>1, <1>2, <1>5
<1> QED  BY <1>4, <1>6 DEF rq

LEMMA SumOfIs ==
    ASSUME NEW D, IsFiniteSet(D), NEW f \in [D -> Int]
    PROVE  SumOf(f) \in Scalars /\ SumOf(f) \in Int /\ Same(SumOf(f), Plain(f))
<1> DEFINE a == Plain(f)
<1>1. a \in Int
  BY PlainNumber
<1>2. SumOf(f) = a % Order
  BY DEF SumOf, Plain
<1> HIDE DEF a
<1>3. a % Order \in Scalars /\ a % Order \in Int /\ Same(a % Order, a)
  BY <1>1, SameReduced
<1> QED  BY <1>2, <1>3 DEF a

\* The sum of f over the blocks of the query, each with its factor.
InQuery(sd, f) ==
    LET rq == randomizedVerifyingQuery(sd)
    IN  Plain([k \in 1..l |-> rq.v_i[k] * f[rq.i[k]]])

LEMMA InQueryTerms ==
    ASSUME NEW sd \in Seeds, NEW f \in [Blocks -> Int]
    PROVE  LET rq == randomizedVerifyingQuery(sd)
               t == [k \in 1..l |-> rq.v_i[k] * f[rq.i[k]]]
           IN  t \in [1..l -> Int] /\ InQuery(sd, f) = Plain(t) /\ InQuery(sd, f) \in Int
<1> DEFINE rq == randomizedVerifyingQuery(sd)
           t == [k \in 1..l |-> rq.v_i[k] * f[rq.i[k]]]
<1>1. rq.i \in [1..l -> Blocks] /\ rq.v_i \in [1..l -> Int]
  BY QueryIs
<1>2. InQuery(sd, f) = Plain(t)
  BY DEF InQuery
<1> HIDE DEF rq
<1>3. t \in [1..l -> Int]
  <2>1. \A k \in 1..l : rq.v_i[k] \in Int /\ f[rq.i[k]] \in Int
    BY <1>1
  <2>2. \A k \in 1..l : rq.v_i[k] * f[rq.i[k]] \in Int
    BY <2>1
  <2> QED  BY <2>2
<1> HIDE DEF t
<1>4. Plain(t) \in Int
  BY <1>3, FiniteRanges, PlainNumber
<1> QED  BY <1>2, <1>3, <1>4 DEF rq, t

LEMMA InQueryAdded ==
    ASSUME NEW sd \in Seeds, NEW f \in [Blocks -> Int], NEW g \in [Blocks -> Int]
    PROVE  InQuery(sd, [i \in Blocks |-> f[i] + g[i]]) = InQuery(sd, f) + InQuery(sd, g)
<1> DEFINE h == [i \in Blocks |-> f[i] + g[i]]
           key == randomizedVerifyingQuery(sd).i
           v == randomizedVerifyingQuery(sd).v_i
           s == [k \in 1..l |-> v[k] * f[key[k]]]
           t == [k \in 1..l |-> v[k] * g[key[k]]]
           r == [k \in 1..l |-> v[k] * h[key[k]]]
<1>1. key \in [1..l -> Blocks] /\ v \in [1..l -> Int]
  BY QueryIs
<1>2. h \in [Blocks -> Int] /\ \A i \in Blocks : h[i] = f[i] + g[i]
  OBVIOUS
<1> HIDE DEF h
<1>3. /\ s \in [1..l -> Int] /\ t \in [1..l -> Int]
      /\ InQuery(sd, f) = Plain(s) /\ InQuery(sd, g) = Plain(t)
  BY InQueryTerms
<1>4. InQuery(sd, h) = Plain(r)
  BY <1>2, InQueryTerms
<1> HIDE DEF key, v
<1>5. \A k \in 1..l : v[k] * h[key[k]] = v[k] * f[key[k]] + v[k] * g[key[k]]
  <2> TAKE k \in 1..l
  <2> DEFINE x == f[key[k]]
             y == g[key[k]]
             c == v[k]
  <2>1. c \in Int /\ x \in Int /\ y \in Int /\ h[key[k]] = x + y
    BY <1>1, <1>2
  <2> HIDE DEF c, x, y
  <2>2. c * (x + y) = c * x + c * y
    BY <2>1
  <2> QED  BY <2>1, <2>2 DEF c, x, y
<1>6. r = [k \in 1..l |-> s[k] + t[k]]
  BY <1>5
<1> HIDE DEF r, s, t
<1>7. Plain(r) = Plain(s) + Plain(t)
  BY <1>3, <1>6, FiniteRanges, PlainAdded
<1> QED  BY <1>3, <1>4, <1>7 DEF h

LEMMA InQueryScaled ==
    ASSUME NEW sd \in Seeds, NEW f \in [Blocks -> Int], NEW c \in Int
    PROVE  InQuery(sd, [i \in Blocks |-> c * f[i]]) = c * InQuery(sd, f)
<1> DEFINE h == [i \in Blocks |-> c * f[i]]
           key == randomizedVerifyingQuery(sd).i
           v == randomizedVerifyingQuery(sd).v_i
           s == [k \in 1..l |-> v[k] * f[key[k]]]
           r == [k \in 1..l |-> v[k] * h[key[k]]]
<1>1. key \in [1..l -> Blocks] /\ v \in [1..l -> Int]
  BY QueryIs
<1>2. h \in [Blocks -> Int] /\ \A i \in Blocks : h[i] = c * f[i]
  OBVIOUS
<1> HIDE DEF h
<1>3. s \in [1..l -> Int] /\ InQuery(sd, f) = Plain(s)
  BY InQueryTerms
<1>4. InQuery(sd, h) = Plain(r)
  BY <1>2, InQueryTerms
<1> HIDE DEF key, v
<1>5. \A k \in 1..l : v[k] * h[key[k]] = c * (v[k] * f[key[k]])
  <2> TAKE k \in 1..l
  <2> DEFINE x == f[key[k]]
             d == v[k]
  <2>1. d \in Int /\ x \in Int /\ h[key[k]] = c * x
    BY <1>1, <1>2
  <2> HIDE DEF d, x
  <2>2. d * (c * x) = c * (d * x)
    BY <2>1
  <2> QED  BY <2>1, <2>2 DEF d, x
<1>6. r = [k \in 1..l |-> c * s[k]]
  BY <1>5
<1> HIDE DEF r, s
<1>7. Plain(r) = c * Plain(s)
  BY <1>3, <1>6, FiniteRanges, PlainScaled
<1> QED  BY <1>3, <1>4, <1>7 DEF h

LEMMA InQuerySame ==
    ASSUME NEW sd \in Seeds, NEW f \in [Blocks -> Int], NEW g \in [Blocks -> Int],
           \A i \in Blocks : Same(f[i], g[i])
    PROVE  Same(InQuery(sd, f), InQuery(sd, g))
<1> DEFINE key == randomizedVerifyingQuery(sd).i
           v == randomizedVerifyingQuery(sd).v_i
           s == [k \in 1..l |-> v[k] * f[key[k]]]
           t == [k \in 1..l |-> v[k] * g[key[k]]]
<1>1. key \in [1..l -> Blocks] /\ v \in [1..l -> Int]
  BY QueryIs
<1>2. /\ s \in [1..l -> Int] /\ t \in [1..l -> Int]
      /\ InQuery(sd, f) = Plain(s) /\ InQuery(sd, g) = Plain(t)
  BY InQueryTerms
<1> HIDE DEF key, v
<1>3. ASSUME NEW k \in 1..l PROVE Same(s[k], t[k])
  <2> DEFINE x == f[key[k]]
             y == g[key[k]]
             c == v[k]
  <2>1. c \in Int /\ x \in Int /\ y \in Int /\ Same(x, y)
    BY <1>1
  <2>2. s[k] = c * x /\ t[k] = c * y
    OBVIOUS
  <2> HIDE DEF c, x, y, s, t
  <2>3. Same(c * x, c * y)
    BY <2>1, SameScaled
  <2> QED  BY <2>2, <2>3
<1> HIDE DEF s, t
<1>4. Same(Plain(s), Plain(t))
  BY <1>2, <1>3, FiniteRanges, PlainSame
<1> QED  BY <1>2, <1>4

\* What the query has of a block in all.
WeightIn(sd, i) ==
    LET rq == randomizedVerifyingQuery(sd)
    IN  SumOf([k \in {j \in 1..l : rq.i[j] = i} |-> rq.v_i[k]])

\* A sum over the query is one over all blocks, each with its weight.
LEMMA InQueryGrouped ==
    ASSUME NEW sd \in Seeds, NEW f \in [Blocks -> Int]
    PROVE  LET g == [i \in Blocks |-> WeightIn(sd, i) * f[i]]
           IN  g \in [Blocks -> Int] /\ Same(Plain(g), InQuery(sd, f))
<1> DEFINE K == 1..l
           key == randomizedVerifyingQuery(sd).i
           v == randomizedVerifyingQuery(sd).v_i
           w == [k \in K |-> v[k] * f[key[k]]]
           those(i) == {j \in K : key[j] = i}
           g == [i \in Blocks |-> WeightIn(sd, i) * f[i]]
           h == Grouped(w, K, key, Blocks)
<1>1. key \in [K -> Blocks] /\ v \in [K -> Int]
  BY QueryIs
<1>2. w \in [K -> Int] /\ InQuery(sd, f) = Plain(w)
  BY InQueryTerms
<1>3. \A i : WeightIn(sd, i) = SumOf(Part(v, those(i)))
  BY DEF WeightIn, Part
<1> HIDE DEF key, v
<1>4. ASSUME NEW i \in Blocks
      PROVE  /\ g[i] \in Int /\ h[i] \in Int /\ Same(g[i], h[i])
  <2> DEFINE S == those(i)
             p == Part(v, S)
             a == Plain(p)
             b == SumOf(p)
             c == f[i]
  <2>1. S \in SUBSET K /\ IsFiniteSet(S) /\ c \in Int
    BY FiniteRanges, FS_Subset
  <2>2. p \in [S -> Int]
    BY <1>1, <2>1 DEF Part
  <2>3. Part(w, S) = [k \in S |-> c * p[k]]
    <3>1. ASSUME NEW k \in S PROVE w[k] = c * p[k]
      <4>1. k \in K /\ key[k] = i /\ v[k] \in Int
        BY <1>1
      <4>2. w[k] = v[k] * c /\ p[k] = v[k]
        BY <4>1 DEF Part
      <4> HIDE DEF w, p, c, S
      <4> QED  BY <2>1, <4>1, <4>2
    <3> HIDE DEF w, p, c, S
    <3> QED  BY <3>1 DEF Part
  <2>4. g[i] = b * c /\ h[i] = Plain(Part(w, S))
    BY <1>3 DEF Grouped
  <2> DEFINE e == [k \in S |-> c * p[k]]
  <2> HIDE DEF S, p, c, w, g, h
  <2>e. Plain(e) = c * a
    BY <2>1, <2>2, PlainScaled
  <2>5. Plain(Part(w, S)) = c * a
    <3>1. Part(w, S) = e
      BY <2>3
    <3> HIDE DEF e
    <3> QED  BY <2>e, <3>1
  <2>6. b \in Int /\ Same(b, a) /\ a \in Int
    BY <2>1, <2>2, SumOfIs, PlainNumber
  <2> HIDE DEF a, b
  <2>7. Same(c * b, c * a)
    BY <2>1, <2>6, SameScaled
  <2>8. b * c = c * b /\ c * b \in Int /\ c * a \in Int
    BY <2>1, <2>6
  <2> QED  BY <2>4, <2>5, <2>7, <2>8
<1>5. g \in [Blocks -> Int] /\ h \in [Blocks -> Int]
  <2>1. g = [i \in Blocks |-> g[i]] /\ h = [i \in Blocks |-> h[i]]
    BY DEF Grouped
  <2> HIDE DEF g, h
  <2> QED  BY <1>4, <2>1
<1>6. Plain(h) = Plain(w)
  <2>1. IsFiniteSet(K) /\ IsFiniteSet(Blocks)
    BY FiniteRanges
  <2>2. w \in [K -> Int]
    BY <1>2
  <2> HIDE DEF w, K
  <2> QED  BY <1>1, <2>1, <2>2, PlainGrouped
<1> HIDE DEF g, h, w
<1>7. Same(Plain(g), Plain(h))
  BY <1>4, <1>5, FiniteRanges, PlainSame
<1> QED  BY <1>2, <1>5, <1>6, <1>7 DEF g
-----------------------------------------------------------------------------
(* What the pairing check compares.                                        *)

LEMMA MaskedIs ==
    ASSUME NEW u \in [Sectors -> Int], NEW x \in [Sectors -> Int]
    PROVE  LET t == [j \in Sectors |-> u[j] * x[j]]
           IN  /\ t \in [Sectors -> Int] /\ Plain(t) \in Int
               /\ Masked(u, x) \in Int /\ Same(Masked(u, x), Plain(t))
<1> DEFINE t == [j \in Sectors |-> u[j] * x[j]]
<1>1. t \in [Sectors -> Int]
  OBVIOUS
<1>2. Masked(u, x) = SumOf(t)
  BY DEF Masked
<1> HIDE DEF t
<1>3. SumOf(t) \in Int /\ Same(SumOf(t), Plain(t)) /\ Plain(t) \in Int
  BY <1>1, FiniteRanges, SumOfIs, PlainNumber
<1> QED  BY <1>1, <1>2, <1>3 DEF t

\* What the check makes of mu: the masked blocks of the query.
LEMMA MuMasked ==
    ASSUME NEW sd \in Seeds, NEW u \in [Sectors -> Int], NEW m \in [Blocks -> [Sectors -> Int]]
    PROVE  LET mu == [j \in Sectors |-> Mu(randomizedVerifyingQuery(sd), m, j)]
           IN  /\ mu \in [Sectors -> Int]
               /\ Same(Masked(u, mu), InQuery(sd, [i \in Blocks |-> Masked(u, m[i])]))
<1> DEFINE K == 1..l
           key == randomizedVerifyingQuery(sd).i
           v == randomizedVerifyingQuery(sd).v_i
           mu == [j \in Sectors |-> Mu(randomizedVerifyingQuery(sd), m, j)]
           col(j) == [k \in K |-> v[k] * m[key[k]][j]]
           row(k) == [j \in Sectors |-> u[j] * (v[k] * m[key[k]][j])]
           masks == [i \in Blocks |-> Masked(u, m[i])]
           plain(i) == [j \in Sectors |-> u[j] * m[i][j]]
           plains == [i \in Blocks |-> Plain(plain(i))]
           terms == [j \in Sectors |-> u[j] * mu[j]]
           sums == [j \in Sectors |-> u[j] * Plain(col(j))]
           h == [k \in K |-> row(k)]
           byRow == RowSums(h, K)
           byCol == ColumnSums(h, K, Sectors)
           query == [k \in K |-> v[k] * plains[key[k]]]
<1>1. key \in [K -> Blocks] /\ v \in [K -> Int] /\ IsFiniteSet(K) /\ IsFiniteSet(Sectors)
  BY QueryIs, FiniteRanges
<1>2. \A j \in Sectors : mu[j] = SumOf(col(j))
  BY DEF Mu
<1>3. InQuery(sd, plains) = Plain(query)
  BY DEF InQuery
<1> HIDE DEF K, key, v
<1>4. ASSUME NEW i \in Blocks
      PROVE  /\ plain(i) \in [Sectors -> Int] /\ Plain(plain(i)) \in Int
             /\ Masked(u, m[i]) \in Int /\ Same(Masked(u, m[i]), Plain(plain(i)))
  <2>1. m[i] \in [Sectors -> Int]
    OBVIOUS
  <2> QED  BY <2>1, MaskedIs
<1>5. ASSUME NEW j \in Sectors
      PROVE  /\ col(j) \in [K -> Int] /\ mu[j] \in Int /\ Plain(col(j)) \in Int
             /\ Same(mu[j], Plain(col(j)))
  <2> DEFINE c == col(j)
  <2>1. \A k \in K : v[k] \in Int /\ m[key[k]][j] \in Int
    BY <1>1
  <2>2. c \in [K -> Int]
    BY <2>1
  <2>3. mu[j] = SumOf(c)
    BY <1>2
  <2> HIDE DEF c, mu
  <2>4. SumOf(c) \in Int /\ Same(SumOf(c), Plain(c)) /\ Plain(c) \in Int
    BY <1>1, <2>2, SumOfIs, PlainNumber
  <2> QED  BY <2>2, <2>3, <2>4 DEF c
<1>6. mu \in [Sectors -> Int]
  <2>1. mu = [j \in Sectors |-> mu[j]]
    OBVIOUS
  <2> HIDE DEF mu
  <2> QED  BY <1>5, <2>1
<1>7. terms \in [Sectors -> Int] /\ Same(Masked(u, mu), Plain(terms))
      /\ Masked(u, mu) \in Int /\ Plain(terms) \in Int
  <2> HIDE DEF mu
  <2> QED  BY <1>6, MaskedIs
<1>8. sums \in [Sectors -> Int] /\ \A j \in Sectors : Same(terms[j], sums[j])
  <2>1. ASSUME NEW j \in Sectors PROVE sums[j] \in Int /\ Same(terms[j], sums[j])
    <3> DEFINE a == u[j]
               b == mu[j]
               c == Plain(col(j))
    <3>1. a \in Int /\ b \in Int /\ c \in Int /\ Same(b, c)
      BY <1>5
    <3>2. terms[j] = a * b /\ sums[j] = a * c
      OBVIOUS
    <3> HIDE DEF a, b, c, terms, sums
    <3>3. Same(a * b, a * c)
      BY <3>1, SameScaled
    <3>4. a * c \in Int
      BY <3>1
    <3> QED  BY <3>2, <3>3, <3>4
  <2>2. sums = [j \in Sectors |-> sums[j]]
    OBVIOUS
  <2> HIDE DEF sums
  <2> QED  BY <2>1, <2>2
<1>9. Same(Plain(terms), Plain(sums)) /\ Plain(sums) \in Int
  <2> HIDE DEF terms, sums
  <2> QED  BY <1>1, <1>7, <1>8, PlainSame, PlainNumber
<1>10. h \in [K -> [Sectors -> Int]]
  <2>1. \A k \in K : \A j \in Sectors : u[j] \in Int /\ v[k] \in Int /\ m[key[k]][j] \in Int
    BY <1>1
  <2>2. \A k \in K : \A j \in Sectors : u[j] * (v[k] * m[key[k]][j]) \in Int
    BY <2>1
  <2>3. \A k \in K : row(k) \in [Sectors -> Int]
    BY <2>2
  <2> HIDE DEF row
  <2> QED  BY <2>3
<1>11. sums = byCol
  <2>1. ASSUME NEW j \in Sectors PROVE u[j] * Plain(col(j)) = Plain([k \in K |-> h[k][j]])
    <3> DEFINE a == u[j]
               c == col(j)
               d == [k \in K |-> a * c[k]]
               e == [k \in K |-> h[k][j]]
    <3>1. a \in Int /\ c \in [K -> Int]
      BY <1>5
    <3>2. \A k \in K : h[k][j] = a * c[k]
      OBVIOUS
    <3> HIDE DEF h, c
    <3>3. d = e
      BY <3>2
    <3> HIDE DEF a, e
    <3>4. Plain(d) = a * Plain(c)
      BY <1>1, <3>1, PlainScaled
    <3> HIDE DEF d
    <3>5. a * Plain(c) = Plain(e)
      BY <3>3, <3>4
    <3> QED  BY <3>5 DEF a, c, e
  <2> HIDE DEF h, col
  <2> QED  BY <2>1 DEF ColumnSums
<1>12. Plain(byRow) = Plain(byCol)
  <2> HIDE DEF h
  <2> QED  BY <1>1, <1>10, PlainExchanged
<1>13. byRow = query
  <2>1. ASSUME NEW k \in K PROVE Plain(h[k]) = v[k] * plains[key[k]]
    <3> DEFINE i == key[k]
               b == v[k]
               p == plain(i)
               d == [j \in Sectors |-> b * p[j]]
               r == row(k)
    <3>1. i \in Blocks /\ b \in Int
      BY <1>1
    <3>2. p \in [Sectors -> Int]
      BY <1>4, <3>1
    <3>3. ASSUME NEW j \in Sectors PROVE r[j] = b * p[j]
      <4> DEFINE x == m[i][j]
                 y == u[j]
      <4>1. x \in Int /\ y \in Int
        BY <3>1
      <4>2. r[j] = y * (b * x) /\ p[j] = y * x
        OBVIOUS
      <4> HIDE DEF x, y, b, r, p, i
      <4>3. y * (b * x) = b * (y * x)
        BY <3>1, <4>1
      <4> QED  BY <4>2, <4>3
    <3>4. r = [j \in Sectors |-> r[j]] /\ h[k] = r /\ plains[i] = Plain(p)
      BY <3>1
    <3> HIDE DEF r, p, b, h, plains, i
    <3>5. r = d
      BY <3>3, <3>4
    <3>6. Plain(d) = b * Plain(p)
      BY <1>1, <3>1, <3>2, PlainScaled
    <3> HIDE DEF d
    <3>7. Plain(h[k]) = b * plains[i]
      BY <3>4, <3>5, <3>6
    <3> QED  BY <3>7 DEF b, i
  <2> HIDE DEF h, plains
  <2> QED  BY <2>1 DEF RowSums
<1>14. plains \in [Blocks -> Int] /\ masks \in [Blocks -> Int]
       /\ \A i \in Blocks : Same(masks[i], plains[i])
  BY <1>4
<1>15. Same(InQuery(sd, masks), InQuery(sd, plains)) /\ InQuery(sd, masks) \in Int
       /\ InQuery(sd, plains) \in Int
  <2> HIDE DEF masks, plains
  <2> QED  BY <1>14, InQuerySame, InQueryTerms
<1>16. InQuery(sd, plains) = Plain(sums)
  <2> HIDE DEF plains, query, byRow, byCol, sums
  <2> QED  BY <1>3, <1>11, <1>12, <1>13
<1>17. Same(Masked(u, mu), InQuery(sd, masks))
  <2> HIDE DEF mu, masks, plains, sums, terms
  <2> QED  BY <1>7, <1>9, <1>15, <1>16, SameIsEquality
<1> QED  BY <1>6, <1>17
\* A key does not hide a loss: it can be divided by.
LEMMA KeyDivides ==
    ASSUME NEW alpha \in Keys, NEW y \in Int
    PROVE  Same(alpha * y, 0) <=> Same(y, 0)
<1> DEFINE r == y % Order
<1>0. Order \in Nat \ {0} /\ Keys \subseteq Scalars
  BY PorAssumption
<1>1. alpha \in Int /\ alpha * y \in Int /\ alpha * 0 = 0 /\ 0 \in Int
  BY <1>0 DEF Scalars
<1>2. r \in Scalars /\ r \in Int /\ Same(r, y)
  BY SameReduced
<1> HIDE DEF r
<1>3. ASSUME Same(y, 0) PROVE Same(alpha * y, 0)
  <2>1. Same(alpha * y, alpha * 0)
    BY <1>1, <1>3, SameScaled
  <2> QED  BY <1>1, <2>1
<1>4. ASSUME Same(alpha * y, 0) PROVE Same(y, 0)
  <2> DEFINE a == alpha * r
             b == alpha * y
  <2>1. a \in Int /\ b \in Int
    BY <1>1, <1>2
  <2>2. Same(a, b)
    BY <1>1, <1>2, SameScaled
  <2>3. Same(b, 0)
    BY <1>4
  <2> HIDE DEF a, b
  <2>4. Same(a, 0)
    BY <1>1, <2>1, <2>2, <2>3, SameIsEquality
  <2>5. a % Order = 0 % Order
    BY <1>1, <2>1, <2>4, SameOnceReduced
  <2>6. 0 % Order = 0
    BY <1>0
  <2>7. (alpha * r) % Order = 0
    BY <2>5, <2>6 DEF a
  <2>8. r = 0
    BY <1>2, <2>7, KeysInvertible
  <2> QED  BY <1>1, <1>2, <2>8, SameIsEquality
<1> QED  BY <1>3, <1>4

\* Loss is what the query weighs it to be.
LEMMA LossWeighed ==
    ASSUME NEW sd \in Seeds, NEW f \in [Blocks -> Int]
    PROVE  SumOf([i \in Blocks |-> WeightIn(sd, i) * f[i]]) = 0 <=> Same(InQuery(sd, f), 0)
<1> DEFINE g == [i \in Blocks |-> WeightIn(sd, i) * f[i]]
           a == Plain(g)
           y == InQuery(sd, f)
<1>1. g \in [Blocks -> Int] /\ Same(a, y)
  BY InQueryGrouped
<1>2. y \in Int
  BY InQueryTerms
<1> HIDE DEF g, y
<1>3. a \in Int
  BY <1>1, FiniteRanges, PlainNumber
<1>4. SumOf(g) = a % Order
  BY DEF SumOf, Plain
<1> HIDE DEF a
<1>5. Order \in Nat \ {0} /\ 0 \in Int
  BY PorAssumption
<1>6. 0 % Order = 0
  BY <1>5
<1>7. a % Order = 0 % Order <=> Same(a, 0)
  BY <1>3, <1>5, SameOnceReduced
<1>8. Same(a, 0) <=> Same(y, 0)
  BY <1>1, <1>2, <1>3, <1>5, SameIsEquality
<1>9. SumOf(g) = 0 <=> Same(y, 0)
  BY <1>4, <1>6, <1>7, <1>8
<1> QED  BY <1>9 DEF g, y

\* A file at the server: authenticators of m0's blocks, and what is left of m0.
FileOf(file, sk, hf, u, m0) ==
    /\ file.m \in [Blocks -> [Sectors -> Scalars]]
    /\ file.sigma = [i \in Blocks |-> Authenticator(sk, hf, u, m0, i)]

\* A proof fits if and only if what was lost weighs nothing.
LEMMA FitsUnlessLost ==
    ASSUME NEW alpha \in Keys, NEW sd \in Seeds, NEW hf \in Hashes, NEW u \in Secrets,
           NEW m0 \in Files, NEW sk, sk.alpha = alpha, NEW pk, pk.v = alpha,
           NEW file, FileOf(file, sk, hf, u, m0)
    PROVE  Fits(pk, u, hf, CreatePoR(file, sd), sd)
              <=> SumOf([i \in Blocks |->
                    WeightIn(sd, i) * (Masked(u, m0[i]) - Masked(u, file.m[i]))]) = 0
<1> DEFINE rq == randomizedVerifyingQuery(sd)
           sigma == file.sigma
           m == file.m
           p == CreatePoR(file, sd)
           M0 == [i \in Blocks |-> Masked(u, m0[i])]
           M == [i \in Blocks |-> Masked(u, m[i])]
           H == [i \in Blocks |-> BlockHash(hf, i)]
           L == [i \in Blocks |-> M0[i] - M[i]]
           both == [i \in Blocks |-> M0[i] + H[i]]
           signed == [i \in Blocks |-> alpha * both[i]]
           left == LeftTerm(rq, hf)
           mask == Masked(u, p.Mu)
           a == InQuery(sd, M0)
           b == InQuery(sd, M)
           h == InQuery(sd, H)
           y == InQuery(sd, L)
<1>0. /\ Order \in Nat \ {0} /\ n \in Nat \ {0} /\ ByteRange \in Nat \ {0}
      /\ alpha \in Int /\ u \in [Sectors -> Int]
      /\ m0 \in [Blocks -> [Sectors -> Int]] /\ m \in [Blocks -> [Sectors -> Int]]
      /\ hf \in [0..(ByteRange - 1) -> Int]
  <2>1. /\ Keys \subseteq Scalars /\ Secrets \subseteq [Sectors -> Scalars]
        /\ Files \subseteq [Blocks -> [Sectors -> Scalars]]
        /\ Hashes \subseteq [0..(ByteRange - 1) -> Scalars]
    BY PorAssumption
  <2>2. Scalars \subseteq Int
    BY DEF Scalars
  <2>3. m \in [Blocks -> [Sectors -> Scalars]]
    BY DEF FileOf
  <2>4. \A f \in [Blocks -> [Sectors -> Scalars]] : f \in [Blocks -> [Sectors -> Int]]
    BY <2>2
  <2> HIDE DEF m
  <2>5. alpha \in Int
    BY <2>1, <2>2
  <2>6. u \in [Sectors -> Int]
    BY <2>1, <2>2
  <2>7. hf \in [0..(ByteRange - 1) -> Int]
    BY <2>1, <2>2
  <2> QED  BY <2>1, <2>3, <2>4, <2>5, <2>6, <2>7, PorAssumption
<1>1. M0 \in [Blocks -> Int] /\ M \in [Blocks -> Int] /\ H \in [Blocks -> Int]
  <2>1. \A i \in Blocks : m0[i] \in [Sectors -> Int] /\ m[i] \in [Sectors -> Int]
    BY <1>0
  <2> HIDE DEF m
  <2>2. \A i \in Blocks : Masked(u, m0[i]) \in Int /\ Masked(u, m[i]) \in Int
    BY <1>0, <2>1, MaskedIs
  <2>3. \A i \in Blocks : BlockHash(hf, i) \in Int
    <3> TAKE i \in Blocks
    <3>1. i \in Nat
      BY <1>0 DEF Blocks
    <3>2. i % ByteRange \in 0..(ByteRange - 1)
      BY <1>0, <3>1
    <3> QED  BY <1>0, <3>2 DEF BlockHash
  <2> QED  BY <2>2, <2>3
<1>2. L \in [Blocks -> Int] /\ both \in [Blocks -> Int] /\ M0 = [i \in Blocks |-> M[i] + L[i]]
  <2>1. /\ M0 = [i \in Blocks |-> M0[i]]
        /\ \A i \in Blocks : L[i] = M0[i] - M[i] /\ both[i] = M0[i] + H[i]
    OBVIOUS
  <2>2. L = [i \in Blocks |-> L[i]] /\ both = [i \in Blocks |-> both[i]]
    OBVIOUS
  <2> HIDE DEF M0, M, H, L, both
  <2>3. \A i \in Blocks : L[i] \in Int /\ both[i] \in Int /\ M0[i] = M[i] + L[i]
    BY <1>1, <2>1
  <2> QED  BY <2>1, <2>2, <2>3
<1>3. signed \in [Blocks -> Int]
  <2> HIDE DEF both
  <2> QED  BY <1>0, <1>2
<1>4. ASSUME NEW i \in Blocks PROVE sigma[i] \in Int /\ Same(sigma[i], signed[i])
  <2>1. sigma[i] = (sk.alpha * (Masked(u, m0[i]) + BlockHash(hf, i))) % Order
    BY DEF FileOf, Authenticator
  <2>2. signed[i] = alpha * (Masked(u, m0[i]) + BlockHash(hf, i))
    OBVIOUS
  <2>3. signed[i] \in Int
    <3> HIDE DEF signed
    <3> QED  BY <1>3
  <2>4. sigma[i] = signed[i] % Order
    BY <2>1, <2>2
  <2> HIDE DEF signed, sigma
  <2> QED  BY <2>3, <2>4, SameReduced
<1>5. sigma \in [Blocks -> Int]
  <2>1. sigma = [i \in Blocks |-> Authenticator(sk, hf, u, m0, i)]
    BY DEF FileOf
  <2>2. sigma = [i \in Blocks |-> sigma[i]]
    BY <2>1
  <2> HIDE DEF sigma
  <2> QED  BY <1>4, <2>2
<1>6. /\ p.Sigma = SumOf([k \in 1..l |-> rq.v_i[k] * sigma[rq.i[k]]])
      /\ p.Mu = [j \in Sectors |-> Mu(rq, m, j)]
  BY DEF CreatePoR
<1>7. Fits(pk, u, hf, p, sd) <=> (p.Sigma * 1) % Order = ((left + mask) * alpha) % Order
  BY DEF Fits, Pair
<1> HIDE DEF p
<1>8. a \in Int /\ b \in Int /\ h \in Int /\ y \in Int
  <2> HIDE DEF M0, M, H, L
  <2> QED  BY <1>1, <1>2, InQueryTerms
<1>9. a = b + y
  <2> HIDE DEF M, L
  <2>1. InQuery(sd, [i \in Blocks |-> M[i] + L[i]]) = b + y
    BY <1>1, <1>2, InQueryAdded
  <2> HIDE DEF M0
  <2> QED  BY <1>2, <2>1
<1>10. p.Sigma \in Int /\ Same(p.Sigma, alpha * (a + h))
  <2> DEFINE t == [k \in 1..l |-> rq.v_i[k] * sigma[rq.i[k]]]
             s == InQuery(sd, sigma)
  <2> HIDE DEF sigma
  <2>1. t \in [1..l -> Int] /\ s = Plain(t) /\ s \in Int
    BY <1>5, InQueryTerms
  <2>2. p.Sigma = SumOf(t)
    BY <1>6
  <2> HIDE DEF t, s
  <2>3. SumOf(t) \in Int /\ Same(SumOf(t), Plain(t))
    BY <2>1, FiniteRanges, SumOfIs
  <2>4. Same(s, InQuery(sd, signed)) /\ InQuery(sd, signed) \in Int
    <3> HIDE DEF signed
    <3>1. Same(InQuery(sd, sigma), InQuery(sd, signed))
      BY <1>3, <1>4, <1>5, InQuerySame
    <3>2. InQuery(sd, signed) \in Int
      BY <1>3, InQueryTerms
    <3> QED  BY <3>1, <3>2 DEF s
  <2>5. InQuery(sd, signed) = alpha * InQuery(sd, both)
    <3> HIDE DEF both
    <3> QED  BY <1>0, <1>2, InQueryScaled
  <2>6. InQuery(sd, both) = a + h
    <3> HIDE DEF M0, H
    <3> QED  BY <1>1, InQueryAdded
  <2> HIDE DEF signed, both, a, h
  <2>7. InQuery(sd, signed) = alpha * (a + h)
    BY <2>5, <2>6
  <2>8. Same(p.Sigma, InQuery(sd, signed)) /\ p.Sigma \in Int
    BY <2>1, <2>2, <2>3, <2>4, SameIsEquality
  <2> QED  BY <2>7, <2>8
<1>11. left \in Int /\ Same(left, h)
  <2> DEFINE t == [k \in 1..l |-> rq.v_i[k] * H[rq.i[k]]]
  <2>1. left = SumOf(t)
    <3>1. \A k \in 1..l : rq.i[k] \in Blocks
      BY QueryIs
    <3>2. left = SumOf([k \in 1..l |-> rq.v_i[k] * BlockHash(hf, rq.i[k])])
      BY DEF LeftTerm
    <3> HIDE DEF rq
    <3>3. \A k \in 1..l : H[rq.i[k]] = BlockHash(hf, rq.i[k])
      BY <3>1
    <3> HIDE DEF H, left
    <3>4. t = [k \in 1..l |-> rq.v_i[k] * BlockHash(hf, rq.i[k])]
      BY <3>3
    <3> HIDE DEF t
    <3> QED  BY <3>2, <3>4
  <2>2. t \in [1..l -> Int] /\ h = Plain(t)
    <3> HIDE DEF H
    <3> QED  BY <1>1, InQueryTerms
  <2> HIDE DEF t, h, left
  <2> QED  BY <2>1, <2>2, FiniteRanges, SumOfIs
<1>12. mask \in Int /\ Same(mask, b)
  <2> DEFINE mu == [j \in Sectors |-> Mu(rq, m, j)]
  <2> HIDE DEF m
  <2>1. mu \in [Sectors -> Int] /\ Same(Masked(u, mu), InQuery(sd, M))
    BY <1>0, MuMasked
  <2>2. p.Mu = mu
    BY <1>6
  <2> HIDE DEF mu, M
  <2>3. Masked(u, mu) \in Int
    BY <1>0, <2>1, MaskedIs
  <2> QED  BY <2>1, <2>2, <2>3
<1> HIDE DEF left, mask, a, b, h, y
<1> DEFINE x == alpha * (a + h)
           z == (left + mask) * alpha
           w == alpha * (h + b)
<1>13. /\ p.Sigma * 1 = p.Sigma /\ x \in Int /\ z \in Int /\ w \in Int
       /\ z = alpha * (left + mask) /\ left + mask \in Int /\ h + b \in Int
  BY <1>0, <1>8, <1>10, <1>11, <1>12
<1>14. Same(left + mask, h + b)
  BY <1>8, <1>11, <1>12, SameAdded
<1>15. Same(alpha * (left + mask), w)
  BY <1>0, <1>13, <1>14, SameScaled
<1>16. x - w = alpha * y
  <2>1. x = alpha * a + alpha * h /\ w = alpha * h + alpha * b /\ alpha * a = alpha * b + alpha * y
    BY <1>0, <1>8, <1>9
  <2>2. alpha * a \in Int /\ alpha * b \in Int /\ alpha * h \in Int /\ alpha * y \in Int
    BY <1>0, <1>8
  <2> HIDE DEF x, w
  <2> QED  BY <2>1, <2>2
<1>17. Same(p.Sigma, x) /\ Same(z, w)
  BY <1>10, <1>13, <1>15
<1> HIDE DEF x, z, w
<1>18. Fits(pk, u, hf, p, sd) <=> Same(p.Sigma, z)
  <2>1. Fits(pk, u, hf, p, sd) <=> p.Sigma % Order = z % Order
    BY <1>7, <1>13 DEF z
  <2>2. p.Sigma % Order = z % Order <=> Same(p.Sigma, z)
    BY <1>10, <1>13, SameOnceReduced
  <2> QED  BY <2>1, <2>2
<1>19. Same(p.Sigma, z) <=> Same(x, w)
  BY <1>10, <1>13, <1>17, SameIsEquality
<1>20. Same(x, w) <=> Same(alpha * y, 0)
  <2>1. alpha * y - 0 = x - w
    BY <1>0, <1>8, <1>13, <1>16
  <2> QED  BY <2>1 DEF Same
<1>21. Same(alpha * y, 0) <=> Same(y, 0)
  BY <1>8, KeyDivides
<1>22. SumOf([i \in Blocks |-> WeightIn(sd, i) * L[i]]) = 0 <=> Same(y, 0)
  <2> HIDE DEF L
  <2> QED  BY <1>2, LossWeighed DEF y
<1>23. [i \in Blocks |-> WeightIn(sd, i) * L[i]]
         = [i \in Blocks |-> WeightIn(sd, i) * (Masked(u, m0[i]) - Masked(u, file.m[i]))]
  OBVIOUS
<1>24. Fits(pk, u, hf, p, sd) <=> SumOf([i \in Blocks |-> WeightIn(sd, i) * L[i]]) = 0
  BY <1>18, <1>19, <1>20, <1>21, <1>22
<1> QED  BY <1>23, <1>24 DEF p
-----------------------------------------------------------------------------
(* What a verification finds.                                              *)

TagKept ==
    \E short, digit, signature : \E u \in Secrets :
        Tau = [text |-> [short |-> short, digit |-> digit, u |-> u], signature |-> signature]

\* file has the authenticators of the owner's file.
Stored(file) == FileOf(file, keys.private, hash, Tau.text.u, initialFile)

\* The secret u of the tag stays as it was, whatever a verification writes to
\* the tag, and the authenticators stay those of the owner's file, whatever the
\* server loses.
PorKept ==
    /\ \E alpha \in Keys : keys = RandomizedKeyGeneration(alpha)
    /\ initialFile \in Files /\ hash \in Hashes /\ seed \in Seeds
    /\ TagKept
    /\ server = [m |-> server.m, sigma |-> server.sigma] /\ Stored(server)
    /\ proof # <<>> =>
          \E file : Stored(file) /\ made = <<file.m>> /\ proof = <<CreatePoR(file, seed)>>
    /\ verdict # <<>> =>
          /\ proof # <<>>
          /\ ~Tau.text.short =>
                verdict[1].fits = Fits(keys.public, Tau.text.u, hash, proof[1], seed)

LEMMA PorKeptAtFirst ==
    ASSUME PorInit
    PROVE  PorKept
<1>1. /\ \E alpha \in Keys : keys = RandomizedKeyGeneration(alpha)
      /\ initialFile \in Files /\ hash \in Hashes /\ seed \in Seeds
      /\ proof = <<>> /\ verdict = <<>>
  BY DEF PorInit
<1>2. PICK u \in Secrets, short \in BOOLEAN :
         /\ Tau = Tag(keys.private, short, u)
         /\ server = [m |-> initialFile,
                      sigma |-> [i \in Blocks |->
                                   Authenticator(keys.private, hash, u, initialFile, i)]]
  BY DEF PorInit, RandomizedFileStoring
<1>3. TagKept /\ Tau.text.u = u
  <2>1. Tau = [text |-> [short |-> short, digit |-> Digit, u |-> u],
               signature |-> Sign(keys.private.ssk,
                                  [short |-> short, digit |-> Digit, u |-> u])]
    BY <1>2 DEF Tag
  <2> QED  BY <2>1 DEF TagKept
<1>4. initialFile \in [Blocks -> [Sectors -> Scalars]]
  BY <1>1, PorAssumption
<1>5. server = [m |-> server.m, sigma |-> server.sigma] /\ Stored(server)
  BY <1>2, <1>3, <1>4 DEF Stored, FileOf
<1> QED  BY <1>1, <1>3, <1>5 DEF PorKept

LEMMA PorKeptStep ==
    ASSUME PorKept, [PorNext]_porVars
    PROVE  PorKept'
<1>1. ASSUME NEW i \in Blocks, Lose(i) PROVE PorKept'
  <2>1. /\ server' = [server EXCEPT !.m[i] = [j \in Sectors |-> 0]]
        /\ UNCHANGED <<keys, initialFile, hash, seed, Tau, proof, made, verdict>>
    BY <1>1 DEF Lose, setup
  <2>2. server'.sigma = server.sigma /\ server'.m = [server.m EXCEPT ![i] = [j \in Sectors |-> 0]]
        /\ server' = [m |-> server'.m, sigma |-> server'.sigma]
    BY <2>1 DEF PorKept
  <2>3. server.m \in [Blocks -> [Sectors -> Scalars]]
    BY DEF PorKept, Stored, FileOf
  <2>4. [j \in Sectors |-> 0] \in [Sectors -> Scalars]
    <3>1. 0 \in Scalars
      BY PorAssumption DEF Scalars
    <3> QED  BY <3>1
  <2>5. server'.m \in [Blocks -> [Sectors -> Scalars]]
    BY <2>2, <2>3, <2>4
  <2>6. Stored(server)'
    BY <2>1, <2>2, <2>5 DEF PorKept, Stored, FileOf
  <2>7. \A file : Stored(file)' <=> Stored(file)
    BY <2>1 DEF Stored
  <2>8. TagKept'
    BY <2>1 DEF PorKept, TagKept
  <2>9. proof' # <<>> =>
           \E file : Stored(file)' /\ made' = <<file.m>> /\ proof' = <<CreatePoR(file, seed')>>
    BY <2>1, <2>7 DEF PorKept
  <2>10. verdict' # <<>> =>
            /\ proof' # <<>>
            /\ ~Tau'.text.short =>
                  verdict'[1].fits = Fits(keys'.public, Tau'.text.u, hash', proof'[1], seed')
    BY <2>1 DEF PorKept
  <2> QED  BY <2>1, <2>2, <2>6, <2>8, <2>9, <2>10 DEF PorKept
<1>2. ASSUME Prove PROVE PorKept'
  <2>1. /\ proof' = <<CreatePoR(server, seed)>> /\ made' = <<server.m>> /\ verdict' = <<>>
        /\ UNCHANGED <<keys, initialFile, hash, seed, Tau, server>>
    BY <1>2 DEF Prove, setup
  <2>2. \A file : Stored(file)' <=> Stored(file)
    BY <2>1 DEF Stored
  <2>3. Stored(server)' /\ Stored(server)
    BY <2>1 DEF PorKept, Stored
  <2>4. \E file : Stored(file)' /\ made' = <<file.m>> /\ proof' = <<CreatePoR(file, seed')>>
    BY <2>1, <2>2, <2>3
  <2> QED  BY <2>1, <2>3, <2>4 DEF PorKept, TagKept
<1>3. ASSUME VerifyPoR PROVE PorKept'
  <2>1. /\ proof # <<>> /\ Tau' = Overwritten
        /\ UNCHANGED <<keys, initialFile, hash, seed, server, proof, made>>
        /\ ~Tau.text.short =>
              verdict'[1].fits = Fits(keys.public, Tau.text.u, hash, proof[1], seed)
    BY <1>3 DEF VerifyPoR, setup
  <2>2. PICK short, digit, signature :
           \E u \in Secrets :
             Tau = [text |-> [short |-> short, digit |-> digit, u |-> u], signature |-> signature]
    BY DEF PorKept, TagKept
  <2>3. PICK u \in Secrets :
           Tau = [text |-> [short |-> short, digit |-> digit, u |-> u], signature |-> signature]
    BY <2>2
  <2> DEFINE last == randomizedVerifyingQuery(seed).i[l] % ByteRange
  <2>4. Tau' = [Tau EXCEPT !.text.digit = last]
    BY <2>1 DEF Overwritten
  <2> HIDE DEF last
  <2>5. Tau' = [text |-> [short |-> short, digit |-> last, u |-> u], signature |-> signature]
    BY <2>3, <2>4
  <2>6. TagKept' /\ Tau'.text.u = Tau.text.u /\ Tau'.text.short = Tau.text.short
    BY <2>3, <2>5 DEF TagKept
  <2>7. \A file : Stored(file)' <=> Stored(file)
    BY <2>1, <2>6 DEF Stored
  <2>8. Stored(server)'
    BY <2>1, <2>6 DEF PorKept, Stored
  <2> QED  BY <2>1, <2>6, <2>7, <2>8 DEF PorKept
<1>4. ASSUME UNCHANGED porVars PROVE PorKept'
  BY <1>4 DEF porVars, setup, PorKept, TagKept, Stored
<1> QED  BY <1>1, <1>2, <1>3, <1>4 DEF PorNext

\* For every file, key, query and loss: a proof passes the pairing check if
\* and only if what was lost when it was made weighs nothing in the query
\* (por.go:224-251 makes the proof, :264-288 compares the pairings), also
\* with a tag that earlier verifications have written to.
THEOREM LossIsSeen == PorSpec => []LossSeen
<1>1. PorInit => PorKept
  BY PorKeptAtFirst
<1>2. PorKept /\ [PorNext]_porVars => PorKept'
  BY PorKeptStep
<1>3. PorKept => LossSeen
  <2> SUFFICES ASSUME PorKept, verdict # <<>>, ~Tau.text.short
               PROVE  verdict[1].fits
                        <=> SumOf([i \in Blocks |-> Weight(i) * MaskedLoss(i)]) = 0
    BY DEF LossSeen
  <2>1. PICK alpha \in Keys : keys = RandomizedKeyGeneration(alpha)
    BY DEF PorKept
  <2>2. keys.private.alpha = alpha /\ keys.public.v = alpha
    BY <2>1 DEF RandomizedKeyGeneration
  <2>3. PICK file : Stored(file) /\ made = <<file.m>> /\ proof = <<CreatePoR(file, seed)>>
    BY DEF PorKept
  <2>4. made[1] = file.m /\ proof[1] = CreatePoR(file, seed)
    BY <2>3
  <2> DEFINE u == Tau.text.u
  <2>5. u \in Secrets
    BY DEF PorKept, TagKept
  <2>6. verdict[1].fits = Fits(keys.public, u, hash, proof[1], seed)
    BY DEF PorKept
  <2>7. /\ initialFile \in Files /\ hash \in Hashes /\ seed \in Seeds
        /\ FileOf(file, keys.private, hash, u, initialFile)
    BY <2>3 DEF PorKept, Stored
  <2>8. \A i : /\ Weight(i) = WeightIn(seed, i)
               /\ MaskedLoss(i) = Masked(u, initialFile[i]) - Masked(u, file.m[i])
    BY <2>4 DEF Weight, WeightIn, MaskedLoss
  <2> DEFINE lost == [i \in Blocks |-> WeightIn(seed, i)
                                         * (Masked(u, initialFile[i]) - Masked(u, file.m[i]))]
  <2>9. [i \in Blocks |-> Weight(i) * MaskedLoss(i)] = lost
    BY <2>8
  <2> HIDE DEF u
  <2>10. Fits(keys.public, u, hash, CreatePoR(file, seed), seed) <=> SumOf(lost) = 0
    BY <2>2, <2>5, <2>7, FitsUnlessLost
  <2> HIDE DEF lost
  <2> QED  BY <2>4, <2>6, <2>9, <2>10
<1> QED  BY <1>1, <1>2, <1>3, PTL DEF PorSpec
=============================================================================
